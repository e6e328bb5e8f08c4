----------------------------- MODULE Connection -----------------------------
(***************************************************************************)
(* One client connection from the first byte to the last: the loop of      *)
(* handle_connection_io in server.rs, read_request_head, and the exchange  *)
(* of proxy.rs with an upstream that may be slow, close at any time, or    *)
(* answer before it has been sent the whole request, and a client that may *)
(* close, reset or stop reading at any time.                               *)
(*                                                                         *)
(* Bytes are segments [req, part]: segment `part` of the client's request  *)
(* number `req`.  A read returns any non-empty prefix of what is on the    *)
(* wire, so every fragmentation and every pipelining of whole segments     *)
(* happens.                                                                *)
(***************************************************************************)
EXTENDS Naturals, Sequences, FiniteSets

CONSTANTS
    Kinds,        \* the requests clients send, with TLS and without
    Addrs,        \* upstream addresses
    NoRoute,      \* a Host that names no route, or no valid Host
    NoUpstream,   \* Option::None of Session.upstream
    MaxRequests,  \* bound on the requests of one connection
    MaxInterim    \* bound on the 1xx responses to one request

\* head, body: segments of the head and of the body.
\* flaw: what a parser finds wrong with the request.
\*   "head"     http::parse_request_with_consumed returns an error
\*   "upgrade"  request_upgrade_protocols does
\*   "trailer"  serialize_request_head does
\*   "body"     the chunk framing is broken in the last segment
Flaws == {"none", "head", "upgrade", "trailer", "body"}

RequestKinds ==
    [route : Addrs \cup {NoRoute}, head : Nat \ {0}, body : Nat,
     flaw : Flaws, expects : BOOLEAN, upgrade : BOOLEAN, keepAlive : BOOLEAN]

ASSUME KindsAreRequests == Kinds \in [BOOLEAN -> SUBSET RequestKinds]
ASSUME BodyFlawHasBody ==
    \A b \in BOOLEAN : \A k \in Kinds[b] : k.flaw = "body" => k.body > 0
ASSUME RouteSentinel == NoRoute \notin Addrs
ASSUME Bounds == MaxRequests \in Nat \ {0} /\ MaxInterim \in Nat

VARIABLES
    tls,       \* the connection came through the HTTPS listener
    sent,      \* the requests the client has begun to send
    stream,    \* history: every segment it has written
    wire,      \* segments written and not yet read by the proxy
    client,    \* "open", "half" (it has sent FIN) or "gone" (reset)
    stalled,   \* it has stopped reading for good, and its window is full
    pc,        \* where the worker is
    buffer,    \* segments read ahead of their use
    current,   \* the request being handled, 0 before the first
    left,      \* segments of its body still to be forwarded
    upstream,  \* the upstream connection in use, or kept in the Session
    relaying,  \* framing of the final response being relayed
    early,     \* it came instead of 100 Continue
    out,       \* what the client has been sent
    requests,  \* record_request calls
    errors,    \* record_error calls
    abandoned, \* history: the client stopped in the middle of a request
    forwarded  \* history: segments written upstream, and to which address

fromClient == <<sent, stream, wire, client, stalled>>
reading    == <<buffer, current, left>>
response   == <<relaying, early>>
totals     == <<requests, errors>>

vars == <<tls, fromClient, pc, reading, upstream, response, out, totals,
          abandoned, forwarded>>

-----------------------------------------------------------------------------

\* head      read_request_head             route   select_route
\* connect   Session::exchange             send    write of the request head
\* await     await_continue_or_final_response
\* body      stream_request_body, stream_chunked_request_body
\* response  forward_response, its head    relay   forward_response, its body
\* tunnel    Session::tunnel_upgraded (module Tunnel)
Places == {"head", "route", "connect", "send", "await", "body", "response",
           "relay", "tunnel", "closed"}

\* Framings of a final response, by what response_allows_client_reuse and the
\* streaming functions make of them.
\*   "keep"   Content-Length or chunked on a persistent connection
\*   "close"  the same with Connection: close, or HTTP/1.0
\*   "eof"    delimited by the upstream closing
\*   "empty", "emptyClose"  the same without a body: to HEAD, 204, 304
Framings == {"keep", "close", "eof", "empty", "emptyClose"}
Bodiless == {"empty", "emptyClose"}
Reusable(framing) == framing \in {"keep", "empty"}

Interims == {"continue", "interim"}
Replies  == Interims \cup Framings \cup {"switch", "bad", "end"}

Kind == sent[current]

Init ==
    /\ tls \in BOOLEAN
    /\ sent = <<>> /\ stream = <<>> /\ wire = <<>> /\ client = "open"
    /\ stalled = FALSE
    /\ pc = "head" /\ buffer = <<>> /\ current = 0 /\ left = 0
    /\ upstream = NoUpstream /\ relaying = "keep" /\ early = FALSE
    /\ out = <<>> /\ requests = 0 /\ errors = 0
    /\ abandoned = FALSE /\ forwarded = <<>>

-----------------------------------------------------------------------------
(* The client.                                                             *)

Serving == pc \notin {"tunnel", "closed"}

Segments(kind) == kind.head + kind.body

\* The client is between two requests.
RequestSent ==
    stream # <<>> => stream[Len(stream)].part = Segments(sent[Len(sent)])

Write(segment) ==
    /\ stream' = Append(stream, segment)
    /\ wire' = Append(wire, segment)

ClientSends ==
    /\ Serving /\ client = "open"
    /\ \/ /\ RequestSent /\ Len(sent) < MaxRequests
          /\ \E kind \in Kinds[tls] : sent' = Append(sent, kind)
          /\ Write([req |-> Len(sent) + 1, part |-> 1])
       \/ /\ ~RequestSent
          /\ Write([stream[Len(stream)] EXCEPT !.part = @ + 1])
          /\ UNCHANGED sent
    /\ UNCHANGED <<client, stalled, pc, reading, upstream, response, out,
                   totals, abandoned, forwarded>>

\* FIN: what is on the wire still arrives.
ClientCloses ==
    /\ Serving /\ client = "open"
    /\ client' = "half"
    /\ UNCHANGED <<sent, stream, wire, stalled, pc, reading, upstream,
                   response, out, totals, abandoned, forwarded>>

\* RST: what is on the wire is lost and writes begin to fail.
ClientResets ==
    /\ Serving /\ client # "gone"
    /\ client' = "gone" /\ wire' = <<>>
    /\ UNCHANGED <<sent, stream, stalled, pc, reading, upstream, response,
                   out, totals, abandoned, forwarded>>

\* The client reads no more and its window fills.  (One that reads on within
\* the write timeout only makes a write slow.)
ClientStalls ==
    /\ Serving /\ ~stalled
    /\ stalled' = TRUE
    /\ UNCHANGED <<sent, stream, wire, client, pc, reading, upstream,
                   response, out, totals, abandoned, forwarded>>

-----------------------------------------------------------------------------
(* The upstream.  It speaks HTTP: one final response to each request whose *)
(* head it has been sent, at any moment after that.                        *)

Connected(address) ==
    [addr |-> address, peer |-> "open", serving |-> 0, stage |-> "idle",
     interims |-> 0, inbox |-> <<>>]

Says(reply, stage) ==
    upstream' = [upstream EXCEPT
        !.inbox = Append(@, [req |-> upstream.serving, what |-> reply]),
        !.stage = stage,
        !.interims = IF reply \in Interims THEN @ + 1 ELSE @]

UpstreamReplies ==
    /\ upstream # NoUpstream /\ upstream.peer = "open"
    /\ \/ /\ upstream.stage = "asked" /\ upstream.interims < MaxInterim
          /\ \E reply \in Interims : Says(reply, "asked")
       \/ /\ upstream.stage = "asked"
          /\ \/ \E framing \in Framings \ Bodiless : Says(framing, framing)
             \/ \E framing \in Bodiless : Says(framing, "idle")
             \/ \E reply \in {"switch", "bad"} : Says(reply, "over")
       \/ /\ upstream.stage \in {"keep", "close"}
          /\ Says("end", "idle")
    /\ UNCHANGED <<fromClient, pc, reading, response, out, totals, abandoned,
                   forwarded>>

\* FIN keeps what has been sent readable, RST does not.
UpstreamCloses ==
    /\ upstream # NoUpstream
    /\ \/ /\ upstream.peer = "open"
          /\ upstream' = [upstream EXCEPT !.peer = "fin"]
       \/ /\ upstream.peer # "reset"
          /\ upstream' = [upstream EXCEPT !.peer = "reset", !.inbox = <<>>]
    /\ UNCHANGED <<fromClient, pc, reading, response, out, totals, abandoned,
                   forwarded>>

-----------------------------------------------------------------------------
(* Ways a worker ends, or writes to the client.                            *)

Entry(request, origin, what) == [to |-> request, from |-> origin, what |-> what]

\* handle_connection_io returns: its Session is dropped and the stream is
\* shut down.
Close == pc' = "closed" /\ upstream' = NoUpstream

\* A write to the client is taken by the system unless the client does not
\* read; once it is gone the write may succeed or fail.
CanWrite == ~stalled \/ client = "gone"

\* A write to the client may fail: on a reset, and over HTTPS on the write
\* timeout that configure_stream sets.  Plain HTTP has only a read timeout.
WriteFails == client = "gone" \/ (tls /\ stalled)

\* Neither happens: write_all does not return.
Blocked == ~CanWrite /\ ~WriteFails

\* write_text_response; a failure ends the connection like a disconnect.
WriteText(request) ==
    \/ CanWrite /\ out' = Append(out, Entry(request, 0, "local"))
    \/ WriteFails /\ UNCHANGED out

Refuse(request) ==
    /\ errors' = errors + 1
    /\ WriteText(request)
    /\ Close

\* ProxyError::ResponseStarted: nothing more can be said to the client.
Break ==
    /\ errors' = errors + 1
    /\ Close

-----------------------------------------------------------------------------
(* read_request_head and select_route.                                     *)

FirstSegment == Head(buffer)

\* Bytes of a body that are taken for a head do not parse.
Malformed ==
    sent[FirstSegment.req].flaw = "head" \/ FirstSegment.part # 1

HeadComplete ==
    /\ buffer # <<>>
    /\ Malformed \/ Len(buffer) >= sent[FirstSegment.req].head

ReadMore ==
    /\ pc = "head" /\ ~HeadComplete /\ wire # <<>>
    /\ \E n \in 1..Len(wire) :
           /\ buffer' = buffer \o SubSeq(wire, 1, n)
           /\ wire' = SubSeq(wire, n + 1, Len(wire))
    /\ UNCHANGED <<sent, stream, client, stalled, pc, current, left,
                   upstream, response, out, totals, abandoned, forwarded>>

RejectHead ==
    /\ pc = "head" /\ HeadComplete /\ Malformed
    /\ current' = FirstSegment.req
    /\ Refuse(FirstSegment.req)
    /\ UNCHANGED <<fromClient, buffer, left, response, requests, abandoned,
                   forwarded>>

AcceptHead ==
    /\ pc = "head" /\ HeadComplete /\ ~Malformed
    /\ current' = FirstSegment.req
    /\ LET kind == sent[FirstSegment.req]
       IN /\ buffer' = SubSeq(buffer, kind.head + 1, Len(buffer))
          /\ left' = kind.body
    /\ requests' = requests + 1
    /\ pc' = "route"
    /\ UNCHANGED <<fromClient, upstream, response, out, errors, abandoned,
                   forwarded>>

SelectRoute ==
    /\ pc = "route"
    /\ \/ Kind.route = NoRoute /\ Refuse(current)
       \/ Kind.route # NoRoute /\ pc' = "connect"
          /\ UNCHANGED <<upstream, out, errors>>
    /\ UNCHANGED <<fromClient, reading, response, requests, abandoned,
                   forwarded>>

\* A read of the client ends in EOF, in a reset or in the idle timeout, while
\* a head or a body is awaited.  Nothing is answered and nothing is counted.
ClientReadEnds ==
    /\ \/ pc = "head" /\ ~HeadComplete
       \/ pc = "body" /\ left > 0 /\ buffer = <<>>
    /\ wire = <<>>
    /\ abandoned' = (pc = "body" \/ buffer # <<>>)
    /\ Close
    /\ UNCHANGED <<fromClient, reading, response, out, totals, forwarded>>

-----------------------------------------------------------------------------
(* Session::exchange_with_proto, up to the request body.                   *)

\* request_upgrade_protocols runs before the upstream is looked at,
\* serialize_request_head after it has been connected.
RejectFields ==
    /\ \/ pc = "connect" /\ Kind.flaw = "upgrade"
       \/ pc = "send" /\ Kind.flaw = "trailer"
    /\ Refuse(current)
    /\ UNCHANGED <<fromClient, reading, response, requests, abandoned,
                   forwarded>>

\* Mutant: the kept connection is reused whatever its address.
CanReuseAny(kept) == kept # NoUpstream

CanReuse(kept) == kept # NoUpstream /\ kept.addr = Kind.route

\* Session.upstream.take(), or connect_upstream, which is refused or times
\* out (502 or 504).
ConnectUpstream ==
    /\ pc = "connect" /\ Kind.flaw # "upgrade"
    /\ \/ /\ CanReuse(upstream)
          /\ pc' = "send" /\ UNCHANGED <<upstream, out, errors>>
       \/ /\ ~CanReuse(upstream)
          /\ \/ /\ upstream' = Connected(Kind.route)
                /\ pc' = "send" /\ UNCHANGED <<out, errors>>
             \/ Refuse(current)
    /\ UNCHANGED <<fromClient, reading, response, requests, abandoned,
                   forwarded>>

\* What reaches the upstream is what a write to an open peer delivers; a
\* write to a closed one may still succeed.
Forward(parts) ==
    forwarded' = forwarded \o [i \in 1..Len(parts) |->
        [req |-> parts[i].req, part |-> parts[i].part,
         addr |-> upstream.addr]]

HeadSegments == [i \in 1..Kind.head |-> [req |-> current, part |-> i]]

SendHead ==
    /\ pc = "send" /\ Kind.flaw # "trailer"
    /\ Forward(HeadSegments)
    /\ upstream' = [upstream EXCEPT
           !.serving = current, !.stage = "asked", !.interims = 0]
    /\ pc' = IF Kind.expects /\ Kind.body > 0 THEN "await" ELSE "body"
    /\ UNCHANGED <<fromClient, reading, response, out, totals, abandoned>>

\* write_all fails on a closed upstream, or times out on one that does not
\* read (502 or 504).
UpstreamWriteFails ==
    /\ \/ pc = "send" /\ Kind.flaw # "trailer"
       \/ pc = "body" /\ left > 0 /\ buffer \o wire # <<>>
    /\ Refuse(current)
    /\ UNCHANGED <<fromClient, reading, response, requests, abandoned,
                   forwarded>>

-----------------------------------------------------------------------------
(* stream_request_body and stream_chunked_request_body.                    *)

\* The next body segment: from the read-ahead first, then from the client,
\* never past the end of the body.
NextSegment == Head(buffer \o wire)

\* Mutant: reads on when the body is already complete.
TakeSegmentPastEnd ==
    /\ buffer \o wire # <<>>
    /\ IF buffer # <<>>
         THEN buffer' = Tail(buffer) /\ UNCHANGED wire
         ELSE wire' = Tail(wire) /\ UNCHANGED buffer

TakeSegment ==
    /\ left > 0 /\ buffer \o wire # <<>>
    /\ IF buffer # <<>>
         THEN buffer' = Tail(buffer) /\ UNCHANGED wire
         ELSE wire' = Tail(wire) /\ UNCHANGED buffer

BrokenFraming == Kind.flaw = "body" /\ left = 1

RejectBody ==
    /\ pc = "body" /\ BrokenFraming
    /\ TakeSegment
    /\ Refuse(current)
    /\ UNCHANGED <<sent, stream, client, stalled, current, left, response,
                   requests, abandoned, forwarded>>

StreamBody ==
    /\ pc = "body" /\ ~BrokenFraming
    /\ TakeSegment
    /\ Forward(<<NextSegment>>)
    /\ left' = left - 1
    /\ UNCHANGED <<sent, stream, client, stalled, pc, current, upstream,
                   response, out, totals, abandoned>>

BodyDone ==
    /\ pc = "body" /\ left = 0
    /\ pc' = "response"
    /\ UNCHANGED <<fromClient, reading, upstream, response, out, totals,
                   abandoned, forwarded>>

-----------------------------------------------------------------------------
(* await_continue_or_final_response and the heads forward_response reads.  *)

AwaitingHead == pc \in {"await", "response"}
Reply == Head(upstream.inbox)

\* The reply is taken from the upstream and `what` is written to the client,
\* which breaks the exchange off when the write fails.
Relay(what, place) ==
    \/ /\ CanWrite
       /\ out' = Append(out, Entry(current, Reply.req, what))
       /\ upstream' = [upstream EXCEPT !.inbox = Tail(@)]
       /\ pc' = place
       /\ UNCHANGED errors
    \/ WriteFails /\ Break /\ UNCHANGED out

\* Mutant: any 1xx response releases the request body.
ForwardInterimAsContinue ==
    /\ AwaitingHead /\ upstream.inbox # <<>> /\ Reply.what \in Interims
    /\ Relay(Reply.what, IF pc = "await" THEN "body" ELSE pc)
    /\ UNCHANGED <<fromClient, reading, response, requests, abandoned,
                   forwarded>>

ForwardInterim ==
    /\ AwaitingHead /\ upstream.inbox # <<>> /\ Reply.what \in Interims
    /\ Relay(Reply.what, IF pc = "await" /\ Reply.what = "continue"
                           THEN "body" ELSE pc)
    /\ UNCHANGED <<fromClient, reading, response, requests, abandoned,
                   forwarded>>

\* A malformed head, or 101 to a request that did not ask for it or is still
\* waiting for 100 Continue.
BadReply ==
    \/ Reply.what = "bad"
    \/ Reply.what = "switch" /\ (pc = "await" \/ ~Kind.upgrade)

RejectReply ==
    /\ AwaitingHead /\ upstream.inbox # <<>> /\ BadReply
    /\ Refuse(current)
    /\ UNCHANGED <<fromClient, reading, response, requests, abandoned,
                   forwarded>>

\* handle_accepted_connection goes on to tunnel_upgraded.
SwitchProtocols ==
    /\ ~tls
    /\ AwaitingHead /\ upstream.inbox # <<>>
    /\ Reply.what = "switch" /\ ~BadReply
    /\ Relay("switch", "tunnel")
    /\ UNCHANGED <<fromClient, reading, response, requests, abandoned,
                   forwarded>>

\* handle_https_connection counts an error and closes once 101 is written.
SwitchUnsupported ==
    /\ tls
    /\ AwaitingHead /\ upstream.inbox # <<>>
    /\ Reply.what = "switch" /\ ~BadReply
    /\ \/ CanWrite /\ out' = Append(out, Entry(current, Reply.req, "switch"))
       \/ WriteFails /\ UNCHANGED out
    /\ Break
    /\ UNCHANGED <<fromClient, reading, response, requests, abandoned,
                   forwarded>>

BeginResponse ==
    /\ AwaitingHead /\ upstream.inbox # <<>> /\ Reply.what \in Framings
    /\ Relay("begin", "relay")
    /\ relaying' = Reply.what
    /\ early' = (pc = "await")
    /\ UNCHANGED <<fromClient, reading, requests, abandoned, forwarded>>

\* Mutant: an upstream that closed before a head is treated as a client's
\* disconnect, without an answer.
UpstreamSilentQuiet ==
    /\ AwaitingHead /\ upstream.inbox = <<>> /\ upstream.peer # "open"
    /\ Break
    /\ UNCHANGED <<fromClient, reading, response, out, requests, abandoned,
                   forwarded>>

\* EmptyResponse or IncompleteResponse: the upstream closed before a head.
UpstreamSilent ==
    /\ AwaitingHead /\ upstream.inbox = <<>> /\ upstream.peer # "open"
    /\ Refuse(current)
    /\ UNCHANGED <<fromClient, reading, response, requests, abandoned,
                   forwarded>>

\* Mutant: 504 leaves both connections open for the next request.
UpstreamTimesOutKeeping ==
    /\ AwaitingHead /\ upstream.inbox = <<>> /\ upstream.peer = "open"
    /\ \/ /\ pc = "response" /\ CanWrite
          /\ errors' = errors + 1
          /\ out' = Append(out, Entry(current, 0, "local"))
          /\ pc' = "head" /\ UNCHANGED upstream
       \/ pc = "await" /\ Refuse(current)
    /\ UNCHANGED <<fromClient, reading, response, requests, abandoned,
                   forwarded>>

\* Mutant: no read timeout while 100 Continue is awaited.
UpstreamTimesOutAfterBody ==
    /\ pc = "response" /\ upstream.inbox = <<>> /\ upstream.peer = "open"
    /\ Refuse(current)
    /\ UNCHANGED <<fromClient, reading, response, requests, abandoned,
                   forwarded>>

\* ProxyError::Read of kind TimedOut: 504.
UpstreamTimesOut ==
    /\ AwaitingHead /\ upstream.inbox = <<>> /\ upstream.peer = "open"
    /\ Refuse(current)
    /\ UNCHANGED <<fromClient, reading, response, requests, abandoned,
                   forwarded>>

-----------------------------------------------------------------------------
(* The body of the response, and what becomes of both connections.         *)

\* The whole body is in hand.
BodyArrived ==
    CASE relaying \in Bodiless -> TRUE
      [] relaying = "eof"   -> upstream.peer = "fin" /\ upstream.inbox = <<>>
      [] OTHER              -> upstream.inbox # <<>>

\* A response that came instead of 100 Continue leaves the body unread, so
\* the exchange reports neither connection reusable.
ClientReusable == Reusable(relaying) /\ ~early

KeepAlive == Kind.keepAlive /\ ClientReusable

\* Mutant: what was read past the request is not kept for the next one.
FinishResponseDropping ==
    /\ pc = "relay" /\ BodyArrived /\ (relaying \in Bodiless \/ CanWrite)
    /\ out' = Append(out, Entry(current, out[Len(out)].from, "end"))
    /\ buffer' = <<>>
    /\ IF KeepAlive
         THEN /\ upstream' = [upstream EXCEPT
                     !.inbox = IF relaying = "empty" THEN @ ELSE Tail(@)]
              /\ pc' = "head"
         ELSE Close
    /\ UNCHANGED <<fromClient, current, left, response, totals, abandoned,
                   forwarded>>

FinishResponse ==
    /\ pc = "relay" /\ BodyArrived /\ (relaying \in Bodiless \/ CanWrite)
    /\ out' = Append(out, Entry(current, out[Len(out)].from, "end"))
    /\ IF KeepAlive
         THEN /\ upstream' = [upstream EXCEPT
                     !.inbox = IF relaying = "empty" THEN @ ELSE Tail(@)]
              /\ pc' = "head"
         ELSE Close
    /\ UNCHANGED <<fromClient, reading, response, totals, abandoned,
                   forwarded>>

\* Mutant: a response that breaks off is followed by a 502.
ResponseBreaksWithAnswer ==
    /\ pc = "relay"
    /\ ~BodyArrived \/ (WriteFails /\ relaying \notin Bodiless)
    /\ Refuse(current)
    /\ UNCHANGED <<fromClient, reading, response, requests, abandoned,
                   forwarded>>

\* The upstream closes or times out, or a write to the client fails, before
\* the body is complete.
ResponseBreaks ==
    /\ pc = "relay"
    /\ ~BodyArrived \/ (WriteFails /\ relaying \notin Bodiless)
    /\ Break
    /\ UNCHANGED <<fromClient, reading, response, out, requests, abandoned,
                   forwarded>>

-----------------------------------------------------------------------------

Client == ClientSends \/ ClientCloses \/ ClientResets \/ ClientStalls

Upstream == UpstreamReplies \/ UpstreamCloses

Worker ==
    /\ \/ ReadMore \/ RejectHead \/ AcceptHead \/ SelectRoute
       \/ ClientReadEnds
       \/ RejectFields \/ ConnectUpstream \/ SendHead \/ UpstreamWriteFails
       \/ RejectBody \/ StreamBody \/ BodyDone
       \/ ForwardInterim \/ RejectReply \/ SwitchProtocols
       \/ SwitchUnsupported \/ BeginResponse
       \/ UpstreamSilent \/ UpstreamTimesOut
       \/ FinishResponse \/ ResponseBreaks
    /\ UNCHANGED tls

Next == Worker \/ ((Client \/ Upstream) /\ UNCHANGED tls)

Spec == Init /\ [][Next]_vars

\* The worker is a thread that runs: every read of the client has the idle
\* timeout, every call on the upstream its own, and over HTTPS every write to
\* the client has one too.  A write to a plain HTTP client that does not read
\* has none: the steps that write are then disabled, and a relayed body may
\* be inside such a write at any time.  Client and upstream may stop at any
\* point.
FairSpec == Spec /\ WF_vars(Worker /\ ~(Blocked /\ pc = "relay"))

-----------------------------------------------------------------------------
(* Properties.                                                             *)

SegmentSet == [req : 1..Len(sent), part : Nat \ {0}]

UpstreamConnections ==
    [addr : Addrs, peer : {"open", "fin", "reset"}, serving : 0..Len(sent),
     stage : {"idle", "asked", "keep", "close", "eof", "over"},
     interims : 0..MaxInterim,
     inbox : Seq([req : 1..Len(sent), what : Replies])]

\* The state is well formed: in particular the worker never counts below zero
\* the body segments it has yet to forward, and never handles a request the
\* client has not begun to send.
TypeOK ==
    /\ tls \in BOOLEAN /\ sent \in Seq(Kinds[tls])
    /\ stream \in Seq(SegmentSet) /\ wire \in Seq(SegmentSet)
    /\ buffer \in Seq(SegmentSet)
    /\ client \in {"open", "half", "gone"} /\ stalled \in BOOLEAN
    /\ pc \in Places
    /\ current \in 0..Len(sent) /\ left \in Nat
    /\ upstream \in UpstreamConnections \cup {NoUpstream}
    /\ relaying \in Framings /\ early \in BOOLEAN
    /\ out \in Seq([to : 1..Len(sent), from : 0..Len(sent),
                    what : Interims \cup {"local", "switch", "begin", "end"}])
    /\ requests \in Nat /\ errors \in Nat
    /\ abandoned \in BOOLEAN
    /\ forwarded \in Seq([req : 1..Len(sent), part : Nat \ {0},
                          addr : Addrs])

\* How many entries of these sorts the client has been sent.
Written(what) == Cardinality({i \in 1..Len(out) : out[i].what \in what})

ClientView == INSTANCE ResponseStream WITH
    received <- current,
    begun    <- Written({"local", "switch", "begin"}),
    answered <- Written({"local", "switch", "end"}),
    over     <- ~Serving

\* The client sees a ResponseStream: every request is answered once and in
\* order, and neither a second answer nor anything else follows an answer
\* that broke off (server.rs, the arms of handle_connection_io's match).
ServesResponseStream == ClientView!Spec

\* What is relayed for a request is an upstream's answer to that request: no
\* response that a timeout or a break left behind is given to a later one.
AnswersOwnRequest ==
    \A i \in 1..Len(out) : out[i].from \in {0, out[i].to}

\* While the connection is served no byte of the client is lost, repeated or
\* reordered between its socket, the read-ahead and the upstreams, whichever
\* way reads fall across requests (buffered_client_bytes).
StreamIntact ==
    (pc \notin {"route", "connect", "send", "closed"} /\ client # "gone") =>
        [i \in 1..Len(forwarded) |->
            [req |-> forwarded[i].req, part |-> forwarded[i].part]]
          \o buffer \o wire = stream

\* A kept upstream connection carries only requests routed to its address.
RoutedToItsUpstream ==
    \A i \in 1..Len(forwarded) :
        forwarded[i].addr = sent[forwarded[i].req].route

\* No part of the body of an Expect: 100-continue request is forwarded before
\* the client has been told to continue.
ContinueBeforeBody ==
    \A i \in 1..Len(forwarded) :
        LET req == forwarded[i].req
        IN (sent[req].expects /\ forwarded[i].part > sent[req].head) =>
               \E j \in 1..Len(out) :
                   out[j].to = req /\ out[j].what = "continue"

AnswerBegun(request) ==
    \E i \in 1..Len(out) :
        out[i].to = request /\ out[i].what \in {"local", "switch", "begin"}

\* A client that is still there finds an answer to each request it sent whole
\* and the proxy took before it closed, whatever the upstream did: one that
\* never answers is timed out, a kept connection may have been dead already.
\* Only an HTTPS client that does not read is given up, by the write timeout.
NoSilentDrop ==
    (pc = "closed" /\ ~WriteFails) =>
        \A request \in 1..current :
            AnswerBegun(request) \/ (abandoned /\ request = current)

\* 101 Switching Protocols is forwarded only to a connection that becomes a
\* tunnel (TODO.md: "Switch upgraded connections into bidirectional byte
\* tunnelling.").
SwitchedIsTunnelled ==
    \A i \in 1..Len(out) : out[i].what = "switch" => pc = "tunnel"

\* Every worker leaves the connection or becomes a tunnel, and with
\* NoSilentDrop every request it took is answered by then: no silence of the
\* client or of an upstream keeps its slot, except that of a plain HTTP client
\* that stays connected and does not read what is written to it.
WorkerEnds == <>(pc \in {"closed", "tunnel"}) \/ <>[]Blocked
=============================================================================
