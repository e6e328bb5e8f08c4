-------------------------- MODULE ConnectionProofs --------------------------
(***************************************************************************)
(* Proofs about Connection, for every set of requests and upstreams and    *)
(* any number of requests on a connection.                                 *)
(*                                                                         *)
(* The properties are about what has been forwarded and what the client    *)
(* has been sent.  They hold because the worker is always at a known place *)
(* of the client's byte stream, and the upstream connection it holds at a  *)
(* known place of its answer:                                              *)
(*                                                                         *)
(*   Ordered   the client writes whole requests one after the other.       *)
(*   Position  the worker has taken the stream up to segment number Taken, *)
(*             which is where `current` and `left` say; what it has read   *)
(*             ahead, and what is on the wire, follow.  So a head is never *)
(*             parsed from the bytes of a body, and requests are handled   *)
(*             in the order they were sent.                                *)
(*   Upstreams the connection in use leads to the route of the current     *)
(*             request, and everything in it answers that request.  One    *)
(*             that is kept between requests is at rest.                   *)
(*   Answers   the requests before the current one have been answered, the *)
(*             current one as far as the place of the worker says.         *)
(***************************************************************************)
EXTENDS Connection, SequenceTheorems, FiniteSetTheorems, TLAPS

-----------------------------------------------------------------------------
(* The byte stream.                                                        *)

Segment(req, part) == [req |-> req, part |-> part]

Size(req) == Segments(sent[req])

Ordered ==
    /\ stream = <<>> => sent = <<>>
    /\ stream # <<>> => /\ stream[1] = Segment(1, 1)
                        /\ stream[Len(stream)].req = Len(sent)
    /\ \A i \in 1 .. Len(stream) :
          /\ stream[i].part <= Size(stream[i].req)
          /\ stream[i].part = Size(stream[i].req) /\ i < Len(stream) =>
                stream[i + 1] = Segment(stream[i].req + 1, 1)
          /\ \A k \in 1 .. (Len(stream) - i) :
                stream[i].part + k <= Size(stream[i].req) =>
                    stream[i + k] = Segment(stream[i].req, stream[i].part + k)

\* The head of the current request has been read and is not yet forwarded.
HeadHeld == pc \in {"route", "connect", "send"}

Taken == Len(forwarded) + (IF HeadHeld THEN Kind.head ELSE 0)

\* What has been forwarded is the stream from its first segment on, and the
\* head that is held comes next.
ForwardedInPlace ==
    \A i \in 1 .. Len(forwarded) :
        /\ i <= Len(stream)
        /\ Segment(forwarded[i].req, forwarded[i].part) = stream[i]

HeadInPlace ==
    HeadHeld => \A i \in 1 .. Kind.head :
                    stream[Len(forwarded) + i] = Segment(current, i)

\* Where the worker expects the body of the current request to be used up.
BodyUsed ==
    /\ pc \notin {"head", "closed"} => current > 0
    /\ pc \in {"head", "response"} => left = 0
    /\ pc = "relay" /\ ~early => left = 0

Reached ==
    pc # "closed" =>
        IF current = 0
          THEN Taken = 0 /\ left = 0
          ELSE /\ Taken \in 1 .. Len(stream)
               /\ stream[Taken] = Segment(current, Size(current) - left)
               /\ left <= Kind.body

\* The window at `at`: what is read ahead and what is on the wire are the
\* stream from there on.
Window(at, ahead, rest) ==
    /\ at + Len(ahead) + Len(rest) <= Len(stream)
    /\ \A i \in 1 .. Len(ahead) : ahead[i] = stream[at + i]
    /\ \A i \in 1 .. Len(rest) : rest[i] = stream[at + Len(ahead) + i]

ReadAhead ==
    pc # "closed" =>
        /\ Window(Taken, buffer, wire)
        /\ client # "gone" => Taken + Len(buffer) + Len(wire) = Len(stream)

Position == ForwardedInPlace /\ HeadInPlace /\ BodyUsed /\ Reached /\ ReadAhead

-----------------------------------------------------------------------------
(* The upstream connection.                                                *)

InExchange == pc \in {"await", "body", "response", "relay"}

\* The worker has an upstream connection, in use or kept.
Held == upstream # NoUpstream \/ pc = "send" \/ InExchange

StageAfter(reply) ==
    CASE reply \in Interims -> "asked"
      [] reply \in {"switch", "bad"} -> "over"
      [] reply \in Bodiless \cup {"end"} -> "idle"
      [] OTHER -> reply

Last(q) == q[Len(q)]

\* The replies on their way: interim responses before a final one, and behind
\* that at most the end of its body.
Replying ==
    LET inbox == upstream.inbox IN
    /\ inbox # <<>> => upstream.stage = StageAfter(Last(inbox).what)
    /\ \A i \in 1 .. Len(inbox) :
          /\ inbox[i].req = upstream.serving
          /\ i < Len(inbox) =>
                \/ inbox[i].what \in Interims
                \/ /\ i + 1 = Len(inbox) /\ inbox[i].what \in {"keep", "close"}
                   /\ inbox[i + 1].what = "end"

\* The head of the final response has been taken from the connection.
Finishing ==
    /\ upstream.stage # "asked"
    /\ relaying = "keep" => upstream.stage \in {"keep", "idle"}
    /\ relaying = "empty" => upstream.stage = "idle" /\ upstream.inbox = <<>>
    /\ upstream.inbox # <<>> => upstream.stage = "idle" /\ Len(upstream.inbox) = 1

Upstreams ==
    /\ Held => /\ upstream \in UpstreamConnections
               /\ upstream.stage # "idle" => upstream.serving > 0
               /\ Replying
    /\ Held /\ (HeadHeld \/ pc = "head") =>
          upstream.inbox = <<>> /\ upstream.stage = "idle"
    /\ pc = "connect" => Kind.route # NoRoute
    /\ pc = "send" \/ InExchange => upstream.addr = Kind.route
    /\ InExchange => upstream.serving = current
    /\ pc = "relay" => Finishing

-----------------------------------------------------------------------------
(* What the client has been sent.                                          *)

ContinueSent(request) ==
    \E j \in 1 .. Len(out) : out[j].to = request /\ out[j].what = "continue"

Begun    == Written({"local", "switch", "begin"})
Answered == Written({"local", "switch", "end"})

Answers ==
    /\ \A request \in 1 .. Len(sent) : request < current => AnswerBegun(request)
    /\ pc \in {"head", "relay", "tunnel"} /\ current > 0 => AnswerBegun(current)
    /\ pc = "relay" => out # <<>> /\ out[Len(out)].to = current
    /\ pc \in {"body", "response"} /\ Kind.expects /\ Kind.body > 0 =>
          ContinueSent(current)
    /\ pc = "head" => Begun = current /\ Answered = current
    /\ pc = "relay" => Begun = current /\ Answered + 1 = current
    /\ pc \notin {"head", "relay", "tunnel", "closed"} =>
          Begun + 1 = current /\ Answered + 1 = current

IndInv ==
    /\ TypeOK
    /\ Ordered
    /\ Position
    /\ Upstreams
    /\ Answers
    /\ AnswersOwnRequest
    /\ RoutedToItsUpstream
    /\ ContinueBeforeBody
    /\ NoSilentDrop

-----------------------------------------------------------------------------
(* Types.                                                                  *)

OutEntries ==
    [to : 1 .. Len(sent), from : 0 .. Len(sent),
     what : Interims \cup {"local", "switch", "begin", "end"}]

ForwardedSegments == [req : 1 .. Len(sent), part : Nat \ {0}, addr : Addrs]

InboxEntries == [req : 1 .. Len(sent), what : Replies]

\* The requests are of the declared kinds.
LEMMA KindsTyped ==
    ASSUME TypeOK
    PROVE  /\ Len(sent) \in Nat
           /\ \A r \in 1 .. Len(sent) :
                 /\ sent[r] \in RequestKinds
                 /\ sent[r].head \in Nat \ {0} /\ sent[r].body \in Nat
                 /\ sent[r].route \in Addrs \cup {NoRoute}
                 /\ Size(r) \in Nat \ {0}
                 /\ Size(r) = sent[r].head + sent[r].body
  <1>1. tls \in BOOLEAN /\ sent \in Seq(Kinds[tls])
    BY DEF TypeOK
  <1>2. Len(sent) \in Nat /\ \A r \in 1 .. Len(sent) : sent[r] \in Kinds[tls]
    BY <1>1, LenProperties, ElementOfSeq
  <1>3. Kinds[tls] \subseteq RequestKinds
    BY <1>1, KindsAreRequests
  <1>4. \A r \in 1 .. Len(sent) : sent[r] \in RequestKinds
    BY <1>2, <1>3
  <1>5. ASSUME NEW r \in 1 .. Len(sent)
        PROVE  /\ sent[r].head \in Nat \ {0} /\ sent[r].body \in Nat
               /\ sent[r].route \in Addrs \cup {NoRoute}
    BY <1>4, <1>5 DEF RequestKinds
  <1>6. ASSUME NEW r \in 1 .. Len(sent)
        PROVE  Size(r) \in Nat \ {0} /\ Size(r) = sent[r].head + sent[r].body
    BY <1>5, <1>6 DEF Size, Segments
  <1> QED
    BY <1>2, <1>4, <1>5, <1>6

\* What a connection to an upstream consists of.
LEMMA ConnectionFields ==
    ASSUME NEW u
    PROVE  u \in UpstreamConnections =>
             /\ u.addr \in Addrs /\ u.peer \in {"open", "fin", "reset"}
             /\ u.serving \in 0 .. Len(sent)
             /\ u.stage \in {"idle", "asked", "keep", "close", "eof", "over"}
             /\ u.interims \in 0 .. MaxInterim
             /\ u.inbox \in Seq(InboxEntries)
  BY DEF UpstreamConnections, InboxEntries

\* Any part of a connection may be replaced by another of its type.
LEMMA ConnectionUpdates ==
    ASSUME NEW u \in UpstreamConnections
    PROVE  /\ \A peer \in {"open", "fin", "reset"} :
                 [u EXCEPT !.peer = peer] \in UpstreamConnections
           /\ \A inbox \in Seq(InboxEntries) :
                 [u EXCEPT !.inbox = inbox] \in UpstreamConnections
           /\ [u EXCEPT !.peer = "reset", !.inbox = <<>>] \in UpstreamConnections
           /\ \A r \in 0 .. Len(sent) :
                 [u EXCEPT !.serving = r, !.stage = "asked", !.interims = 0]
                     \in UpstreamConnections
  <1>1. <<>> \in Seq(InboxEntries) /\ 0 \in 0 .. MaxInterim
    BY EmptySeq, Bounds
  <1> QED
    BY <1>1 DEF UpstreamConnections, InboxEntries

\* So may its replies, its stage and its count of interim responses.
LEMMA ConnectionReplies ==
    ASSUME NEW u \in UpstreamConnections,
           NEW inbox \in Seq(InboxEntries), NEW n \in 0 .. MaxInterim,
           NEW stage \in {"idle", "asked", "keep", "close", "eof", "over"}
    PROVE  [u EXCEPT !.inbox = inbox, !.stage = stage, !.interims = n]
               \in UpstreamConnections
  BY DEF UpstreamConnections, InboxEntries

\* An entry about requests that were sent may be written to the client.
LEMMA EntryTyped ==
    ASSUME TypeOK, NEW to \in 1 .. Len(sent), NEW from \in 0 .. Len(sent),
           NEW what \in Interims \cup {"local", "switch", "begin", "end"}
    PROVE  /\ Entry(to, from, what) \in OutEntries
           /\ Append(out, Entry(to, from, what)) \in Seq(OutEntries)
  <1>1. Entry(to, from, what) \in OutEntries
    BY DEF Entry, OutEntries
  <1>2. out \in Seq(OutEntries)
    BY DEF TypeOK, OutEntries
  <1> QED
    BY <1>1, <1>2, AppendProperties

\* Segments taken off the front, and the others.
LEMMA SegmentsTyped ==
    ASSUME NEW q \in Seq(SegmentSet), q # <<>>
    PROVE  /\ Head(q) \in SegmentSet /\ Tail(q) \in Seq(SegmentSet)
           /\ Head(q).req \in 1 .. Len(sent) /\ Head(q).part \in Nat \ {0}
  <1>1. Head(q) \in SegmentSet /\ Tail(q) \in Seq(SegmentSet)
    BY HeadTailProperties
  <1> QED
    BY <1>1 DEF SegmentSet

\* A part of a sequence of segments is one.
LEMMA PartTyped ==
    ASSUME NEW S, NEW q \in Seq(S), NEW m \in Nat \ {0}, NEW n \in 0 .. Len(q)
    PROVE  SubSeq(q, m, n) \in Seq(S)
  <1>1. \A i \in m .. n : q[i] \in S
    BY LenProperties, ElementOfSeq
  <1>2. m \in Int /\ n \in Int
    BY LenProperties
  <1> QED
    BY <1>1, <1>2, SubSeqProperties

\* Whatever is refused, the answer is well formed and the connection over.
LEMMA RefuseTyped ==
    ASSUME TypeOK, NEW request \in 1 .. Len(sent), Refuse(request)
    PROVE  /\ errors' \in Nat /\ out' \in Seq(OutEntries)
           /\ pc' = "closed" /\ upstream' = NoUpstream
  <1>1. errors' \in Nat /\ pc' = "closed" /\ upstream' = NoUpstream
    BY DEF Refuse, Close, TypeOK
  <1>2. 0 \in 0 .. Len(sent) /\ out \in Seq(OutEntries)
    BY KindsTyped DEF TypeOK, OutEntries
  <1>3. Append(out, Entry(request, 0, "local")) \in Seq(OutEntries)
    BY <1>2, EntryTyped
  <1>4. out' \in Seq(OutEntries)
    BY <1>2, <1>3 DEF Refuse, WriteText
  <1> QED
    BY <1>1, <1>4

\* A worker's step leaves the client's requests alone.
LEMMA TypeFrame ==
    ASSUME TypeOK, UNCHANGED <<tls, sent, stream>>,
           wire' \in Seq(SegmentSet), buffer' \in Seq(SegmentSet),
           client' \in {"open", "half", "gone"}, stalled' \in BOOLEAN,
           pc' \in Places, current' \in 0 .. Len(sent), left' \in Nat,
           upstream' \in UpstreamConnections \cup {NoUpstream},
           relaying' \in Framings, early' \in BOOLEAN,
           out' \in Seq(OutEntries), requests' \in Nat, errors' \in Nat,
           abandoned' \in BOOLEAN, forwarded' \in Seq(ForwardedSegments)
    PROVE  TypeOK'
  <1>1. SegmentSet' = SegmentSet /\ UpstreamConnections' = UpstreamConnections
    BY DEF SegmentSet, UpstreamConnections
  <1> QED
    BY <1>1 DEF TypeOK, OutEntries, ForwardedSegments

\* More requests only admit more.
LEMMA TypesGrow ==
    ASSUME TypeOK, Len(sent') \in Nat, Len(sent) <= Len(sent')
    PROVE  /\ SegmentSet \subseteq SegmentSet'
           /\ UpstreamConnections \subseteq UpstreamConnections'
           /\ OutEntries \subseteq OutEntries'
           /\ ForwardedSegments \subseteq ForwardedSegments'
  <1>1. Len(sent) \in Nat
    BY KindsTyped
  <1>2. /\ 1 .. Len(sent) \subseteq 1 .. Len(sent')
        /\ 0 .. Len(sent) \subseteq 0 .. Len(sent')
    BY <1>1
  <1>3. SegmentSet \subseteq SegmentSet'
    BY <1>2 DEF SegmentSet
  <1>4. InboxEntries \subseteq InboxEntries'
    BY <1>2 DEF InboxEntries
  <1>5. Seq(InboxEntries) \subseteq Seq(InboxEntries')
    BY <1>4, SeqMonotonic
  <1>6. UpstreamConnections \subseteq UpstreamConnections'
    BY <1>2, <1>5 DEF UpstreamConnections, InboxEntries
  <1>7. /\ OutEntries \subseteq OutEntries'
        /\ ForwardedSegments \subseteq ForwardedSegments'
    BY <1>2 DEF OutEntries, ForwardedSegments
  <1> QED
    BY <1>3, <1>6, <1>7

-----------------------------------------------------------------------------
(* The client's steps.                                                     *)

\* The client writes the next segment of its stream: the first of a new
\* request, or the next of the one it has begun.
NextWritten(new) ==
    \/ /\ RequestSent /\ new = Segment(Len(sent) + 1, 1)
       /\ Len(sent') = Len(sent) + 1
    \/ /\ ~RequestSent /\ stream # <<>> /\ sent' = sent
       /\ new = Segment(stream[Len(stream)].req, stream[Len(stream)].part + 1)

\* The client's step adds one segment, and changes no earlier request.
LEMMA ClientWrites ==
    ASSUME TypeOK, ClientSends, tls' = tls
    PROVE  \E new \in SegmentSet' :
              /\ NextWritten(new)
              /\ stream' = Append(stream, new) /\ wire' = Append(wire, new)
              /\ sent' \in Seq(Kinds[tls])
              /\ Len(sent') \in Nat /\ Len(sent) <= Len(sent')
              /\ \A r \in 1 .. Len(sent) : sent'[r] = sent[r]
  <1>0. sent \in Seq(Kinds[tls]) /\ Len(sent) \in Nat
    BY KindsTyped DEF TypeOK
  <1>1. CASE RequestSent
    <2>1. PICK kind \in Kinds[tls] : sent' = Append(sent, kind)
      BY <1>1 DEF ClientSends
    <2>2. PICK new : new = Segment(Len(sent) + 1, 1)
      OBVIOUS
    <2>3. stream' = Append(stream, new) /\ wire' = Append(wire, new)
      BY <1>1, <2>2 DEF ClientSends, Write, Segment
    <2>4. /\ sent' \in Seq(Kinds[tls]) /\ Len(sent') = Len(sent) + 1
          /\ \A r \in 1 .. Len(sent) : sent'[r] = sent[r]
      BY <1>0, <2>1, AppendProperties
    <2>5. new \in SegmentSet'
      BY <1>0, <2>2, <2>4 DEF SegmentSet, Segment
    <2> QED
      BY <1>0, <1>1, <2>2, <2>3, <2>4, <2>5 DEF NextWritten
  <1>2. CASE ~RequestSent
    <2>1. PICK last : last = stream[Len(stream)]
      OBVIOUS
    <2>2. stream # <<>>
      BY <1>2 DEF RequestSent
    <2>3. last \in SegmentSet
      BY <2>1, <2>2, EmptySeq, ElementOfSeq DEF TypeOK
    <2>4. PICK new : new = Segment(last.req, last.part + 1)
      OBVIOUS
    <2>5. sent' = sent /\ stream' = Append(stream, [last EXCEPT !.part = @ + 1])
          /\ wire' = Append(wire, [last EXCEPT !.part = @ + 1])
      BY <1>2, <2>1 DEF ClientSends, Write
    <2>6. [last EXCEPT !.part = @ + 1] = new
      BY <2>3, <2>4 DEF SegmentSet, Segment
    <2>7. new \in SegmentSet'
      BY <2>3, <2>4, <2>5 DEF SegmentSet, Segment
    <2> QED
      BY <1>0, <1>2, <2>1, <2>2, <2>4, <2>5, <2>6, <2>7 DEF NextWritten
  <1> QED
    BY <1>1, <1>2

-----------------------------------------------------------------------------
(* The upstream's steps.                                                   *)

\* The upstream adds one reply: anything but the end of a body to a request
\* it has been asked, the end to a response with a body it has begun.
LEMMA UpstreamSays ==
    ASSUME TypeOK, Upstreams, UpstreamReplies
    PROVE  /\ Held /\ upstream \in UpstreamConnections
           /\ upstream' \in UpstreamConnections
           /\ \E reply \in Replies :
                 /\ upstream'.inbox =
                       Append(upstream.inbox, [req |-> upstream.serving, what |-> reply])
                 /\ [req |-> upstream.serving, what |-> reply] \in InboxEntries
                 /\ upstream'.stage = StageAfter(reply)
                 /\ upstream'.addr = upstream.addr
                 /\ upstream'.serving = upstream.serving
                 /\ \/ upstream.stage = "asked" /\ reply # "end"
                    \/ upstream.stage \in {"keep", "close"} /\ reply = "end"
  <1>1. Held /\ upstream \in UpstreamConnections
    BY DEF UpstreamReplies, Held, TypeOK
  <1>2. PICK reply \in Replies, stage \in {"idle", "asked", "keep", "close", "eof", "over"} :
          /\ Says(reply, stage) /\ stage = StageAfter(reply)
          /\ reply \in Interims => upstream.interims < MaxInterim
          /\ \/ upstream.stage = "asked" /\ reply # "end"
             \/ upstream.stage \in {"keep", "close"} /\ reply = "end"
    <2> USE DEF Replies, Interims, Framings, Bodiless, StageAfter
    <2>1. CASE /\ upstream.stage = "asked" /\ upstream.interims < MaxInterim
               /\ \E reply \in Interims : Says(reply, "asked")
      BY <2>1
    <2>2. CASE /\ upstream.stage = "asked"
               /\ \E framing \in Framings \ Bodiless : Says(framing, framing)
      BY <2>2
    <2>3. CASE /\ upstream.stage = "asked"
               /\ \E framing \in Bodiless : Says(framing, "idle")
      BY <2>3
    <2>4. CASE /\ upstream.stage = "asked"
               /\ \E reply \in {"switch", "bad"} : Says(reply, "over")
      BY <2>4
    <2>5. CASE upstream.stage \in {"keep", "close"} /\ Says("end", "idle")
      BY <2>5
    <2> QED
      BY <2>1, <2>2, <2>3, <2>4, <2>5 DEF UpstreamReplies
  <1>3. /\ upstream.serving \in 1 .. Len(sent)
        /\ upstream.interims \in 0 .. MaxInterim
        /\ upstream.inbox \in Seq(InboxEntries)
    <2>1. upstream.stage # "idle"
      BY <1>2
    <2> QED
      BY <1>1, <2>1, ConnectionFields, KindsTyped DEF Upstreams
  <1>4. PICK entry : entry = [req |-> upstream.serving, what |-> reply]
    OBVIOUS
  <1>5. entry \in InboxEntries
    BY <1>2, <1>3, <1>4 DEF InboxEntries
  <1>6. PICK inbox \in Seq(InboxEntries) : inbox = Append(upstream.inbox, entry)
    BY <1>3, <1>5, AppendProperties
  <1>7. PICK n \in 0 .. MaxInterim :
          n = IF reply \in Interims THEN upstream.interims + 1 ELSE upstream.interims
    BY <1>2, <1>3, Bounds
  <1>8. upstream' = [upstream EXCEPT !.inbox = inbox, !.stage = stage, !.interims = n]
    BY <1>2, <1>4, <1>6, <1>7 DEF Says
  <1>9. upstream' \in UpstreamConnections
    <2>1. [upstream EXCEPT !.inbox = inbox, !.stage = stage, !.interims = n]
              \in UpstreamConnections
      BY <1>1, <1>2, <1>6, <1>7, ConnectionReplies
    <2> QED
      BY <1>8, <2>1
  <1>10. /\ upstream'.inbox = inbox /\ upstream'.stage = stage
         /\ upstream'.addr = upstream.addr
         /\ upstream'.serving = upstream.serving
    BY <1>1, <1>8 DEF UpstreamConnections
  <1> QED
    BY <1>1, <1>2, <1>4, <1>5, <1>6, <1>9, <1>10

\* The upstream's closing takes away at most its replies.
LEMMA UpstreamGoes ==
    ASSUME TypeOK, UpstreamCloses
    PROVE  /\ Held /\ upstream \in UpstreamConnections
           /\ upstream' \in UpstreamConnections
           /\ upstream'.stage = upstream.stage /\ upstream'.addr = upstream.addr
           /\ upstream'.serving = upstream.serving
           /\ upstream'.inbox = upstream.inbox \/ upstream'.inbox = <<>>
  <1>1. Held /\ upstream \in UpstreamConnections
    BY DEF UpstreamCloses, Held, TypeOK
  <1>2. \/ upstream' = [upstream EXCEPT !.peer = "fin"]
        \/ upstream' = [upstream EXCEPT !.peer = "reset", !.inbox = <<>>]
    BY DEF UpstreamCloses
  <1>3. upstream' \in UpstreamConnections
    BY <1>1, <1>2, ConnectionUpdates
  <1>4. /\ upstream'.stage = upstream.stage /\ upstream'.addr = upstream.addr
        /\ upstream'.serving = upstream.serving
        /\ upstream'.inbox = upstream.inbox \/ upstream'.inbox = <<>>
    BY <1>1, <1>2 DEF UpstreamConnections
  <1> QED
    BY <1>1, <1>3, <1>4

-----------------------------------------------------------------------------
(* The ways a worker leaves, and its last word to the client.              *)

Leaves ==
    /\ Serving /\ pc' = "closed" /\ upstream' = NoUpstream
    /\ UNCHANGED <<tls, sent, stream, client, stalled, forwarded>>

\* Nothing is said: nothing was asked, the answer is broken off, or it cannot
\* be written.
LeavesQuietly ==
    /\ Leaves /\ current' = current /\ out' = out
    /\ WriteFails \/ abandoned' \/ pc \in {"head", "relay"}

\* The last word is a whole answer to the request being handled.
LeavesAnswering ==
    /\ Leaves /\ pc # "relay"
    /\ current' \in 1 .. Len(sent)
    /\ current' = IF pc = "head" THEN current + 1 ELSE current
    /\ \/ \E e \in OutEntries :
              /\ out' = Append(out, e) /\ e.to = current'
              /\ e.from \in {0, e.to}
              /\ e.what \in {"local", "switch"}
       \/ WriteFails /\ out' = out

\* The last word is the end of the response being relayed.
LeavesFinishing ==
    /\ Leaves /\ pc = "relay" /\ current' = current
    /\ \E e \in OutEntries :
          /\ out' = Append(out, e) /\ e.to = current /\ e.from \in {0, e.to}
          /\ e.what = "end"

\* The worker stays, having passed on something of the upstream's.
Relays(what, place) ==
    /\ InExchange /\ pc' = place
    /\ UNCHANGED <<tls, fromClient, reading, abandoned, forwarded>>
    /\ \E e \in OutEntries :
          /\ out' = Append(out, e) /\ e.to = current /\ e.from \in {0, e.to}
          /\ e.what = what

\* Refuse (an error answered and closed) leaves with one local answer.
LEMMA Refusing ==
    ASSUME TypeOK, Serving, pc # "relay", Refuse(current'),
           current' \in 1 .. Len(sent),
           current' = IF pc = "head" THEN current + 1 ELSE current,
           UNCHANGED <<tls, sent, stream, client, stalled, forwarded>>
    PROVE  LeavesAnswering
  <1>1. Leaves
    BY DEF Refuse, Close, Leaves
  <1>2. PICK e : e = Entry(current', 0, "local")
    OBVIOUS
  <1>3. 0 \in 0 .. Len(sent)
    BY KindsTyped
  <1>4. e \in OutEntries /\ e.to = current' /\ e.from = 0 /\ e.what = "local"
    BY <1>2, <1>3, EntryTyped DEF Entry
  <1>5. out' = Append(out, e) \/ (WriteFails /\ out' = out)
    BY <1>2 DEF Refuse, WriteText
  <1> QED
    BY <1>1, <1>4, <1>5 DEF LeavesAnswering

\* Leaving keeps the state well formed.
LEMMA LeavingTyped ==
    ASSUME TypeOK, LeavesQuietly \/ LeavesAnswering \/ LeavesFinishing,
           wire' \in Seq(SegmentSet), buffer' \in Seq(SegmentSet), left' \in Nat,
           relaying' \in Framings, early' \in BOOLEAN,
           requests' \in Nat, errors' \in Nat, abandoned' \in BOOLEAN
    PROVE  TypeOK'
  <1>1. out \in Seq(OutEntries) /\ forwarded \in Seq(ForwardedSegments)
    BY DEF TypeOK, OutEntries, ForwardedSegments
  <1>2. out' \in Seq(OutEntries)
    <2>1. out' = out \/ \E e \in OutEntries : out' = Append(out, e)
      BY DEF LeavesQuietly, LeavesAnswering, LeavesFinishing
    <2>2. ASSUME NEW e \in OutEntries, out' = Append(out, e)
          PROVE  out' \in Seq(OutEntries)
      BY <1>1, <2>2, AppendProperties
    <2> QED
      BY <1>1, <2>1, <2>2
  <1>3. /\ Leaves /\ client \in {"open", "half", "gone"} /\ stalled \in BOOLEAN
        /\ current \in 0 .. Len(sent)
        /\ Len(sent) \in Nat
    BY KindsTyped DEF LeavesQuietly, LeavesAnswering, LeavesFinishing, TypeOK
  <1>4. current' \in 0 .. Len(sent)
    BY <1>3 DEF LeavesQuietly, LeavesAnswering, LeavesFinishing
  <1>5. /\ UNCHANGED <<tls, sent, stream>>
        /\ client' \in {"open", "half", "gone"} /\ stalled' \in BOOLEAN
        /\ pc' \in Places /\ upstream' \in UpstreamConnections \cup {NoUpstream}
        /\ forwarded' \in Seq(ForwardedSegments)
    BY <1>1, <1>3 DEF Leaves, Places
  <1> QED
    BY <1>2, <1>4, <1>5, TypeFrame

-----------------------------------------------------------------------------
(* What the worker finds next in the stream.                               *)

\* The numbers the proofs below count with.
LEMMA Lengths ==
    ASSUME TypeOK
    PROVE  /\ Len(sent) \in Nat /\ Len(stream) \in Nat /\ Len(wire) \in Nat
           /\ Len(buffer) \in Nat /\ Len(forwarded) \in Nat /\ Len(out) \in Nat
           /\ current \in 0 .. Len(sent) /\ current \in Nat /\ left \in Nat
           /\ \A i \in 1 .. Len(stream) :
                 stream[i].req \in 1 .. Len(sent) /\ stream[i].part \in Nat \ {0}
  <1>1. Len(sent) \in Nat
    BY KindsTyped
  <1>2. /\ stream \in Seq(SegmentSet) /\ wire \in Seq(SegmentSet)
        /\ buffer \in Seq(SegmentSet) /\ out \in Seq(OutEntries)
        /\ forwarded \in Seq(ForwardedSegments)
        /\ current \in 0 .. Len(sent) /\ left \in Nat
    BY DEF TypeOK, OutEntries, ForwardedSegments
  <1>3. \A i \in 1 .. Len(stream) : stream[i] \in SegmentSet
    BY <1>2, ElementOfSeq
  <1>4. \A i \in 1 .. Len(stream) :
           stream[i].req \in 1 .. Len(sent) /\ stream[i].part \in Nat \ {0}
    BY <1>3 DEF SegmentSet
  <1> QED
    BY <1>1, <1>2, <1>4, LenProperties

\* Between requests, what has been read begins with the head of the next one.
LEMMA HeadIsNext ==
    ASSUME TypeOK, Ordered, Position, pc = "head", buffer # <<>>
    PROVE  /\ FirstSegment = Segment(current + 1, 1)
           /\ current + 1 \in 1 .. Len(sent)
           /\ \A i \in 1 .. Size(current + 1) :
                 Len(forwarded) + i <= Len(stream) =>
                     stream[Len(forwarded) + i] = Segment(current + 1, i)
  <1>1. Taken = Len(forwarded) /\ left = 0
    BY Lengths DEF Taken, HeadHeld, Position, BodyUsed
  <1>2. buffer \in Seq(SegmentSet) /\ Len(buffer) \in Nat \ {0}
    BY EmptySeq, Lengths DEF TypeOK
  <1>3. PICK n \in Nat : n = Len(forwarded) + 1
    BY Lengths
  <1>4. FirstSegment = stream[n] /\ n \in 1 .. Len(stream)
    <2>1. FirstSegment = buffer[1]
      BY <1>2, HeadTailProperties DEF FirstSegment
    <2>2. /\ buffer[1] = stream[Taken + 1]
          /\ Taken + Len(buffer) + Len(wire) <= Len(stream)
      BY <1>2 DEF Position, ReadAhead, Window
    <2> QED
      BY <1>1, <1>2, <1>3, <2>1, <2>2, Lengths
  <1>5. stream[n] = Segment(current + 1, 1)
    <2>1. CASE current = 0
      <3>1. n = 1 /\ stream # <<>>
        BY <1>1, <1>3, <1>4, <2>1, EmptySeq DEF Position, Reached
      <3> QED
        BY <2>1, <3>1 DEF Ordered
    <2>2. CASE current > 0
      <3>1. /\ Len(forwarded) \in 1 .. Len(stream)
            /\ stream[Len(forwarded)] = Segment(current, Size(current))
        <4>1. Size(current) \in Nat
          BY <2>2, Lengths, KindsTyped
        <4> QED
          BY <1>1, <2>2, <4>1, Lengths DEF Position, Reached
      <3>2. /\ stream[Len(forwarded)].req = current
            /\ stream[Len(forwarded)].part = Size(stream[Len(forwarded)].req)
        BY <3>1 DEF Segment
      <3>3. Len(forwarded) < Len(stream)
        BY <1>3, <1>4, Lengths
      <3>4. stream[Len(forwarded) + 1] = Segment(stream[Len(forwarded)].req + 1, 1)
        BY <3>1, <3>2, <3>3 DEF Ordered
      <3> QED
        BY <1>3, <3>2, <3>4
    <2> QED
      BY <2>1, <2>2, Lengths
  <1>6. current + 1 \in 1 .. Len(sent)
    <2>1. stream[n].req \in 1 .. Len(sent)
      BY <1>4, Lengths
    <2> QED
      BY <1>5, <2>1 DEF Segment
  <1>7. ASSUME NEW i \in 1 .. Size(current + 1), Len(forwarded) + i <= Len(stream)
        PROVE  stream[Len(forwarded) + i] = Segment(current + 1, i)
    <2>1. Size(current + 1) \in Nat
      BY <1>6, KindsTyped
    <2>2. CASE i = 1
      BY <1>3, <1>5, <2>2
    <2>3. CASE i > 1
      <3>1. PICK k \in Nat : k = i - 1
        BY <2>1, <2>3
      <3>2. k \in 1 .. (Len(stream) - n) /\ n + k = Len(forwarded) + i
        BY <1>3, <1>4, <1>7, <2>1, <2>3, <3>1, Lengths
      <3>3. stream[n].req = current + 1 /\ stream[n].part = 1
        BY <1>5 DEF Segment
      <3>4. stream[n].part + k <= Size(stream[n].req)
        BY <2>1, <3>1, <3>3
      <3>5. stream[n + k] = Segment(stream[n].req, stream[n].part + k)
        BY <1>4, <3>2, <3>4 DEF Ordered
      <3> QED
        BY <2>1, <3>1, <3>2, <3>3, <3>5
    <2> QED
      BY <2>1, <2>2, <2>3
  <1> QED
    BY <1>4, <1>5, <1>6, <1>7

\* In a body, what comes next is the next segment of that body.
LEMMA BodyIsNext ==
    ASSUME TypeOK, Ordered, Position, pc = "body", left > 0, buffer \o wire # <<>>
    PROVE  /\ NextSegment = Segment(current, Size(current) - left + 1)
           /\ NextSegment = stream[Len(forwarded) + 1]
           /\ Len(forwarded) + 1 <= Len(stream)
           /\ left <= Kind.body /\ current \in 1 .. Len(sent)
  <1>1. Taken = Len(forwarded)
    BY Lengths DEF Taken, HeadHeld
  <1>2. current \in 1 .. Len(sent)
    BY Lengths DEF Position, BodyUsed
  <1>3. /\ Len(forwarded) \in 1 .. Len(stream) /\ left <= Kind.body
        /\ stream[Len(forwarded)] = Segment(current, Size(current) - left)
    BY <1>1, <1>2 DEF Position, Reached
  <1>4. buffer \in Seq(SegmentSet) /\ wire \in Seq(SegmentSet)
    BY DEF TypeOK
  <1>5. /\ NextSegment = stream[Len(forwarded) + 1]
        /\ Len(forwarded) + 1 <= Len(stream)
    <2>1. Head(buffer \o wire) = (buffer \o wire)[1]
      BY <1>4, ConcatProperties, HeadTailProperties
    <2>2. Len(buffer) + Len(wire) > 0
      BY <1>4, ConcatProperties, EmptySeq, Lengths
    <2>3. (buffer \o wire)[1] = IF 1 <= Len(buffer) THEN buffer[1] ELSE wire[1]
      BY <1>4, <2>2, ConcatProperties, Lengths
    <2>4. CASE 1 <= Len(buffer)
      BY <1>1, <2>1, <2>3, <2>4, Lengths
         DEF NextSegment, Position, ReadAhead, Window
    <2>5. CASE Len(buffer) = 0
      <3>1. 1 \in 1 .. Len(wire)
        BY <2>2, <2>5, Lengths
      <3>2. wire[1] = stream[Taken + Len(buffer) + 1]
            /\ Taken + Len(buffer) + Len(wire) <= Len(stream)
        BY <3>1 DEF Position, ReadAhead, Window
      <3> QED
        BY <1>1, <2>1, <2>3, <2>5, <3>1, <3>2, Lengths DEF NextSegment
    <2> QED
      BY <2>4, <2>5, Lengths
  <1>6. stream[Len(forwarded) + 1] = Segment(current, Size(current) - left + 1)
    <2>1. /\ Size(current) \in Nat /\ Kind.body \in Nat
          /\ Kind.body <= Size(current)
      BY <1>2, KindsTyped DEF Kind
    <2>2. /\ stream[Len(forwarded)].req = current
          /\ stream[Len(forwarded)].part = Size(current) - left
      BY <1>3 DEF Segment
    <2>3. stream[Len(forwarded)].part + 1 <= Size(stream[Len(forwarded)].req)
      BY <2>1, <2>2, Lengths
    <2>4. 1 \in 1 .. (Len(stream) - Len(forwarded))
      BY <1>5, Lengths
    <2>5. stream[Len(forwarded) + 1] =
            Segment(stream[Len(forwarded)].req, stream[Len(forwarded)].part + 1)
      BY <1>3, <2>3, <2>4 DEF Ordered
    <2> QED
      BY <2>2, <2>5
  <1> QED
    BY <1>2, <1>3, <1>5, <1>6

-----------------------------------------------------------------------------
(* Every step that ends the connection is one of the three ways to leave.  *)

\* What a step that ends the connection may have done besides.
LEMMA Unchanging ==
    ASSUME TypeOK
    PROVE  /\ wire \in Seq(SegmentSet) /\ buffer \in Seq(SegmentSet)
           /\ left \in Nat /\ stalled \in BOOLEAN
           /\ relaying \in Framings /\ early \in BOOLEAN
           /\ requests \in Nat /\ errors \in Nat /\ errors + 1 \in Nat
           /\ abandoned \in BOOLEAN
  BY DEF TypeOK

\* RejectHead, SelectRoute, RejectFields, ConnectUpstream, UpstreamWriteFails,
\* RejectReply, UpstreamSilent and UpstreamTimesOut: a refusal.
LEMMA RefusalSteps ==
    ASSUME TypeOK, Ordered, Position, tls' = tls, pc' = "closed",
           \/ RejectHead \/ SelectRoute \/ RejectFields \/ ConnectUpstream
           \/ UpstreamWriteFails \/ RejectReply \/ UpstreamSilent
           \/ UpstreamTimesOut
    PROVE  TypeOK' /\ LeavesAnswering
  <1>1. CASE RejectHead
    <2>1. pc = "head" /\ buffer # <<>>
      BY <1>1 DEF RejectHead, HeadComplete
    <2>2. current' = current + 1 /\ current + 1 \in 1 .. Len(sent)
      <3>1. /\ FirstSegment = Segment(current + 1, 1)
            /\ current + 1 \in 1 .. Len(sent)
        BY <2>1, HeadIsNext
      <3> QED
        BY <1>1, <3>1 DEF RejectHead, Segment
    <2>3. Refuse(current')
      BY <1>1 DEF RejectHead
    <2>4. UNCHANGED <<tls, sent, stream, client, stalled, forwarded>> /\ Serving
      BY <1>1, <2>1 DEF RejectHead, fromClient, Serving
    <2>5. LeavesAnswering
      BY <2>1, <2>2, <2>3, <2>4, Refusing
    <2>6. UNCHANGED <<wire, buffer, left, relaying, early, requests, abandoned>>
      BY <1>1 DEF RejectHead, fromClient, response
    <2>7. errors' = errors + 1
      BY <2>3 DEF Refuse
    <2> QED
      BY <2>5, <2>6, <2>7, Unchanging, LeavingTyped
  <1>2. CASE \/ SelectRoute \/ RejectFields \/ ConnectUpstream \/ UpstreamWriteFails
             \/ RejectReply \/ UpstreamSilent \/ UpstreamTimesOut
    <2>1. /\ Refuse(current) /\ current' = current
          /\ UNCHANGED <<tls, sent, stream, client, stalled, forwarded>>
          /\ UNCHANGED <<wire, buffer, left, relaying, early, requests, abandoned>>
      BY <1>2 DEF SelectRoute, RejectFields, ConnectUpstream,
         UpstreamWriteFails,
          RejectReply, UpstreamSilent, UpstreamTimesOut, fromClient, reading, response
    <2>2. pc \notin {"head", "closed", "relay", "tunnel"}
      BY <1>2 DEF SelectRoute, RejectFields, ConnectUpstream,
         UpstreamWriteFails,
          RejectReply, UpstreamSilent, UpstreamTimesOut, AwaitingHead
    <2>3. Serving /\ current' \in 1 .. Len(sent)
      BY <2>1, <2>2, Lengths DEF Serving, Position, BodyUsed
    <2>4. LeavesAnswering
      BY <2>1, <2>2, <2>3, Refusing
    <2>5. errors' = errors + 1
      BY <2>1 DEF Refuse
    <2> QED
      BY <2>1, <2>4, <2>5, Unchanging, LeavingTyped
  <1> QED
    BY <1>1, <1>2

\* RejectBody: the body's flaw is answered and the connection closed.
LEMMA RejectBodyStep ==
    ASSUME TypeOK, Ordered, Position, tls' = tls, RejectBody
    PROVE  TypeOK' /\ LeavesAnswering
  <1>1. /\ pc = "body" /\ Refuse(current) /\ current' = current
        /\ UNCHANGED <<tls, sent, stream, client, stalled, forwarded>>
        /\ UNCHANGED <<left, relaying, early, requests, abandoned>>
    BY DEF RejectBody, response
  <1>2. Serving /\ current' \in 1 .. Len(sent)
    BY <1>1, Lengths DEF Serving, Position, BodyUsed
  <1>3. LeavesAnswering
    BY <1>1, <1>2, Refusing
  <1>4. wire' \in Seq(SegmentSet) /\ buffer' \in Seq(SegmentSet)
    <2>1. CASE buffer # <<>>
      BY <2>1, SegmentsTyped, Unchanging DEF RejectBody, TakeSegment
    <2>2. CASE buffer = <<>>
      <3>1. wire # <<>> /\ wire \in Seq(SegmentSet)
        BY <2>2, ConcatEmptySeq, Unchanging DEF RejectBody, TakeSegment
      <3> QED
        BY <2>2, <3>1, SegmentsTyped, Unchanging DEF RejectBody, TakeSegment
    <2> QED
      BY <2>1, <2>2
  <1>5. errors' = errors + 1
    BY <1>1 DEF Refuse
  <1> QED
    BY <1>1, <1>3, <1>4, <1>5, Unchanging, LeavingTyped

\* ClientReadEnds and ResponseBreaks, and a relay that the client does not take:
\* nothing is said.
LEMMA QuietSteps ==
    ASSUME TypeOK, Position, tls' = tls, pc' = "closed",
           \/ ClientReadEnds \/ ResponseBreaks
           \/ ForwardInterim \/ SwitchProtocols \/ BeginResponse
    PROVE  TypeOK' /\ LeavesQuietly
  <1>1. CASE ClientReadEnds \/ ResponseBreaks
    <2>1. /\ UNCHANGED <<tls, sent, stream, wire, client, stalled, forwarded, out>>
          /\ UNCHANGED <<buffer, current, left, relaying, early, requests>>
          /\ pc \in {"head", "body", "relay"} /\ pc' = "closed"
          /\ upstream' = NoUpstream
          /\ abandoned' \/ pc \in {"head", "relay"}
          /\ abandoned' \in BOOLEAN /\ errors' \in {errors, errors + 1}
      BY <1>1, Unchanging
         DEF ClientReadEnds, ResponseBreaks, Break, Close, fromClient,
          reading, response, totals
    <2>2. LeavesQuietly
      BY <2>1 DEF LeavesQuietly, Leaves, Serving
    <2> QED
      BY <2>1, <2>2, Unchanging, LeavingTyped
  <1>2. CASE ForwardInterim \/ SwitchProtocols \/ BeginResponse
    <2>1. /\ UNCHANGED <<tls, sent, stream, wire, client, stalled, forwarded>>
          /\ UNCHANGED <<buffer, current, left, requests, abandoned>>
          /\ relaying' \in Framings /\ early' \in BOOLEAN /\ AwaitingHead
      BY <1>2, Unchanging
         DEF ForwardInterim, SwitchProtocols, BeginResponse, fromClient,
          reading, response
    <2>2. WriteFails /\ Break /\ UNCHANGED out
      BY <1>2 DEF ForwardInterim, SwitchProtocols, BeginResponse, Relay,
         AwaitingHead
    <2>3. LeavesQuietly
      BY <2>1, <2>2
         DEF LeavesQuietly, Leaves, Serving, AwaitingHead, Break, Close
    <2>4. errors' = errors + 1
      BY <2>2 DEF Break
    <2> QED
      BY <2>1, <2>3, <2>4, Unchanging, LeavingTyped
  <1> QED
    BY <1>1, <1>2

\* The reply the worker reads next is to the request it is handling.
LEMMA ReplyIsOurs ==
    ASSUME TypeOK, Position, Upstreams, InExchange, upstream.inbox # <<>>
    PROVE  /\ upstream \in UpstreamConnections /\ current \in 1 .. Len(sent)
           /\ Reply \in InboxEntries /\ Reply.req = current
           /\ Reply = upstream.inbox[1]
           /\ upstream.inbox \in Seq(InboxEntries)
           /\ Len(upstream.inbox) \in Nat \ {0}
           /\ Tail(upstream.inbox) \in Seq(InboxEntries)
           /\ Len(Tail(upstream.inbox)) = Len(upstream.inbox) - 1
           /\ \A i \in 1 .. (Len(upstream.inbox) - 1) :
                 Tail(upstream.inbox)[i] = upstream.inbox[i + 1]
  <1>1. /\ upstream \in UpstreamConnections /\ Replying
        /\ upstream.serving = current
    BY DEF Upstreams, Held
  <1>2. upstream.inbox \in Seq(InboxEntries)
    BY <1>1, ConnectionFields
  <1>3. Len(upstream.inbox) \in Nat \ {0}
    BY <1>2, EmptySeq, LenProperties
  <1>4. /\ Reply = upstream.inbox[1] /\ Reply \in InboxEntries
        /\ Tail(upstream.inbox) \in Seq(InboxEntries)
        /\ Len(Tail(upstream.inbox)) = Len(upstream.inbox) - 1
        /\ \A i \in 1 .. (Len(upstream.inbox) - 1) :
              Tail(upstream.inbox)[i] = upstream.inbox[i + 1]
    BY <1>2, <1>3, HeadTailProperties DEF Reply
  <1>5. Reply.req = current
    BY <1>1, <1>3, <1>4 DEF Replying
  <1>6. current \in 1 .. Len(sent)
    BY Lengths DEF Position, BodyUsed, InExchange
  <1> QED
    BY <1>1, <1>2, <1>3, <1>4, <1>5, <1>6

\* SwitchUnsupported: the 101 is passed on, then the connection closed.
LEMMA SwitchUnsupportedStep ==
    ASSUME TypeOK, Position, Upstreams, tls' = tls, SwitchUnsupported
    PROVE  TypeOK' /\ LeavesAnswering
  <1>1. /\ UNCHANGED <<tls, sent, stream, wire, client, stalled, forwarded>>
        /\ UNCHANGED <<buffer, current, left, relaying, early, requests, abandoned>>
        /\ pc \in {"await", "response"} /\ upstream.inbox # <<>>
        /\ pc' = "closed" /\ upstream' = NoUpstream /\ errors' = errors + 1
    BY DEF SwitchUnsupported, Break, Close, AwaitingHead, fromClient, reading,
       response
  <1>2. PICK e : e = Entry(current, Reply.req, "switch")
    OBVIOUS
  <1>3. /\ Reply.req = current /\ current \in 1 .. Len(sent)
        /\ current \in 0 .. Len(sent)
    BY <1>1, ReplyIsOurs, Lengths DEF InExchange
  <1>4. /\ e \in OutEntries /\ e.to = current' /\ e.from = current
        /\ e.what = "switch"
    BY <1>1, <1>2, <1>3, EntryTyped DEF Entry
  <1>5. out' = Append(out, e) \/ (WriteFails /\ out' = out)
    BY <1>2 DEF SwitchUnsupported
  <1>6. LeavesAnswering
    BY <1>1, <1>3, <1>4, <1>5 DEF LeavesAnswering, Leaves, Serving
  <1> QED
    BY <1>1, <1>6, Unchanging, LeavingTyped

\* What FinishResponse writes: the end of the response it has begun.
LEMMA EndIsOurs ==
    ASSUME TypeOK, Position, Answers, AnswersOwnRequest, FinishResponse
    PROVE  /\ current \in 1 .. Len(sent)
           /\ \E e \in OutEntries :
                 /\ out' = Append(out, e) /\ e.to = current
                 /\ e.from \in {0, e.to}
                 /\ e.what = "end"
  <1>1. pc = "relay" /\ current \in 1 .. Len(sent)
    BY Lengths DEF FinishResponse, Position, BodyUsed
  <1>2. out # <<>> /\ out[Len(out)].to = current /\ Len(out) \in 1 .. Len(out)
    <2>1. out # <<>> /\ out[Len(out)].to = current
      BY <1>1 DEF Answers
    <2>2. out \in Seq(OutEntries)
      BY DEF TypeOK, OutEntries
    <2> QED
      BY <2>1, <2>2, EmptySeq, Lengths
  <1>3. out[Len(out)].from \in {0, current}
    BY <1>2 DEF AnswersOwnRequest
  <1>4. out[Len(out)].from \in 0 .. Len(sent)
    BY <1>1, <1>3, Lengths
  <1>5. PICK e : e = Entry(current, out[Len(out)].from, "end")
    OBVIOUS
  <1>6. /\ e \in OutEntries /\ e.to = current /\ e.from \in {0, e.to}
        /\ e.what = "end"
    BY <1>1, <1>3, <1>4, <1>5, EntryTyped DEF Entry
  <1>7. out' = Append(out, e)
    BY <1>5 DEF FinishResponse
  <1> QED
    BY <1>1, <1>6, <1>7

\* FinishResponse that does not keep the client's connection.
LEMMA FinishingStep ==
    ASSUME TypeOK, Position, Answers, AnswersOwnRequest, tls' = tls,
           FinishResponse, pc' = "closed"
    PROVE  TypeOK' /\ LeavesFinishing
  <1>1. /\ UNCHANGED <<tls, sent, stream, wire, client, stalled, forwarded>>
        /\ UNCHANGED <<buffer, current, left, relaying, early, requests, errors, abandoned>>
        /\ pc = "relay" /\ upstream' = NoUpstream
    BY DEF FinishResponse, Close, fromClient, reading, response, totals
  <1>2. LeavesFinishing
    BY <1>1, EndIsOurs DEF LeavesFinishing, Leaves, Serving
  <1> QED
    BY <1>1, <1>2, Unchanging, LeavingTyped

\* All the ways to leave.
LEMMA LeavingSteps ==
    ASSUME TypeOK, Ordered, Position, Upstreams, Answers, AnswersOwnRequest,
           Worker, pc' = "closed"
    PROVE  TypeOK' /\ (LeavesQuietly \/ LeavesAnswering \/ LeavesFinishing)
  <1>1. pc # "closed"
    BY DEF Worker, ReadMore, RejectHead, AcceptHead, SelectRoute,
       ClientReadEnds,
        RejectFields, ConnectUpstream, SendHead, UpstreamWriteFails, RejectBody,
        StreamBody, BodyDone, ForwardInterim, RejectReply, SwitchProtocols,
        SwitchUnsupported, BeginResponse, UpstreamSilent, UpstreamTimesOut,
        FinishResponse, ResponseBreaks, AwaitingHead
  <1>2. ~(ReadMore \/ AcceptHead \/ SendHead \/ StreamBody \/ BodyDone)
    BY <1>1 DEF ReadMore, AcceptHead, SendHead, StreamBody, BodyDone
  <1>3. tls' = tls
    BY DEF Worker
  <1>4. CASE \/ RejectHead \/ SelectRoute \/ RejectFields \/ ConnectUpstream
             \/ UpstreamWriteFails \/ RejectReply \/ UpstreamSilent
             \/ UpstreamTimesOut
    BY <1>3, <1>4, RefusalSteps
  <1>5. CASE RejectBody
    BY <1>3, <1>5, RejectBodyStep
  <1>6. CASE \/ ClientReadEnds \/ ResponseBreaks
             \/ ForwardInterim \/ SwitchProtocols \/ BeginResponse
    BY <1>3, <1>6, QuietSteps
  <1>7. CASE SwitchUnsupported
    BY <1>3, <1>7, SwitchUnsupportedStep
  <1>8. CASE FinishResponse
    BY <1>3, <1>8, FinishingStep
  <1> QED
    BY <1>2, <1>4, <1>5, <1>6, <1>7, <1>8 DEF Worker

-----------------------------------------------------------------------------
(* The steps that pass on something of the upstream's.                     *)

Tailed == upstream' = [upstream EXCEPT !.inbox = Tail(upstream.inbox)]

\* Relay passes the upstream's next reply on, as one about our request.
LEMMA RelayStep ==
    ASSUME TypeOK, Position, Upstreams, tls' = tls,
           AwaitingHead, upstream.inbox # <<>>,
           NEW what \in Interims \cup {"local", "switch", "begin", "end"},
           NEW place \in Places, Relay(what, place), pc' # "closed",
           UNCHANGED <<fromClient, reading, requests, abandoned, forwarded>>,
           relaying' \in Framings, early' \in BOOLEAN
    PROVE  TypeOK' /\ Relays(what, place) /\ Tailed /\ Reply.req = current
  <1>1. PICK e : e = Entry(current, Reply.req, what)
    OBVIOUS
  <1>2. out' = Append(out, e) /\ Tailed /\ pc' = place /\ UNCHANGED errors
    BY <1>1 DEF Relay, Break, Close, Tailed
  <1>3. /\ InExchange /\ Reply.req = current /\ current \in 1 .. Len(sent)
        /\ current \in 0 .. Len(sent)
    BY ReplyIsOurs, Lengths DEF InExchange, AwaitingHead
  <1>4. /\ e \in OutEntries /\ e.to = current /\ e.from = current
        /\ e.what = what
        /\ out' \in Seq(OutEntries)
    BY <1>1, <1>2, <1>3, EntryTyped DEF Entry
  <1>5. Relays(what, place)
    BY <1>2, <1>3, <1>4 DEF Relays
  <1>6. upstream' \in UpstreamConnections
    BY <1>2, <1>3, ReplyIsOurs, ConnectionUpdates DEF Tailed
  <1>7. /\ client \in {"open", "half", "gone"} /\ current \in 0 .. Len(sent)
        /\ forwarded \in Seq(ForwardedSegments)
    BY <1>3 DEF TypeOK, ForwardedSegments
  <1>8. /\ UNCHANGED <<tls, sent, stream, wire, client, stalled, buffer, current, left>>
        /\ UNCHANGED <<requests, abandoned, forwarded>>
    BY DEF fromClient, reading
  <1>9. TypeOK'
    BY <1>2, <1>4, <1>6, <1>7, <1>8, Unchanging, TypeFrame
  <1> QED
    BY <1>2, <1>3, <1>5, <1>9

\* ForwardInterim: an interim response; 100 lets the body begin.
LEMMA InterimStep ==
    ASSUME TypeOK, Position, Upstreams, tls' = tls, ForwardInterim, pc' # "closed"
    PROVE  /\ TypeOK' /\ Relays(Reply.what, pc') /\ Tailed
           /\ AwaitingHead /\ UNCHANGED response /\ upstream.inbox # <<>>
           /\ Reply.what \in Interims /\ Reply.req = current
           /\ pc' = pc \/ (pc' = "body" /\ pc = "await" /\ Reply.what = "continue")
  <1>1. PICK place \in Places :
          place = IF pc = "await" /\ Reply.what = "continue" THEN "body" ELSE pc
    BY DEF Places, TypeOK
  <1>2. /\ AwaitingHead /\ upstream.inbox # <<>> /\ Reply.what \in Interims
        /\ Relay(Reply.what, place)
        /\ UNCHANGED <<fromClient, reading, response, requests, abandoned, forwarded>>
    BY <1>1 DEF ForwardInterim
  <1>3. relaying' \in Framings /\ early' \in BOOLEAN
    BY <1>2, Unchanging DEF response
  <1>4. TypeOK' /\ Relays(Reply.what, place) /\ Tailed /\ Reply.req = current
    BY <1>2, <1>3, RelayStep
  <1>5. pc' = place
    BY <1>4 DEF Relays
  <1> QED
    BY <1>1, <1>2, <1>4, <1>5

\* SwitchProtocols: the 101 goes to the client and the tunnel begins.
LEMMA SwitchStep ==
    ASSUME TypeOK, Position, Upstreams, tls' = tls, SwitchProtocols, pc' # "closed"
    PROVE  /\ TypeOK' /\ Relays("switch", "tunnel") /\ Tailed
           /\ AwaitingHead /\ UNCHANGED response /\ upstream.inbox # <<>>
           /\ Reply.req = current /\ Reply.what = "switch"
  <1>1. /\ AwaitingHead /\ upstream.inbox # <<>> /\ Reply.what = "switch"
        /\ Relay("switch", "tunnel")
        /\ UNCHANGED <<fromClient, reading, response, requests, abandoned, forwarded>>
    BY DEF SwitchProtocols
  <1>2. relaying' \in Framings /\ early' \in BOOLEAN /\ "tunnel" \in Places
    BY <1>1, Unchanging DEF response, Places
  <1>3. TypeOK' /\ Relays("switch", "tunnel") /\ Tailed /\ Reply.req = current
    BY <1>1, <1>2, RelayStep
  <1> QED
    BY <1>1, <1>3

\* BeginResponse: the head of the final response.
LEMMA BeginStep ==
    ASSUME TypeOK, Position, Upstreams, tls' = tls, BeginResponse, pc' # "closed"
    PROVE  /\ TypeOK' /\ Relays("begin", "relay") /\ Tailed
           /\ AwaitingHead /\ upstream.inbox # <<>> /\ Reply.req = current
           /\ Reply.what \in Framings /\ relaying' = Reply.what
           /\ early' = (pc = "await")
  <1>1. /\ AwaitingHead /\ upstream.inbox # <<>> /\ Reply.what \in Framings
        /\ Relay("begin", "relay") /\ relaying' = Reply.what
        /\ early' = (pc = "await")
        /\ UNCHANGED <<fromClient, reading, requests, abandoned, forwarded>>
    BY DEF BeginResponse
  <1>2. relaying' \in Framings /\ early' \in BOOLEAN /\ "relay" \in Places
    BY <1>1 DEF Places
  <1>3. TypeOK' /\ Relays("begin", "relay") /\ Tailed /\ Reply.req = current
    BY <1>1, <1>2, RelayStep
  <1> QED
    BY <1>1, <1>3

\* Both connections are kept: nothing is left in the upstream's.
LEMMA KeepStep ==
    ASSUME TypeOK, Position, Upstreams, Answers, AnswersOwnRequest, tls' = tls,
           FinishResponse, pc' # "closed"
    PROVE  /\ TypeOK' /\ Relays("end", "head") /\ pc = "relay" /\ KeepAlive
           /\ UNCHANGED response
           /\ upstream \in UpstreamConnections
           /\ upstream' = [upstream EXCEPT !.inbox = <<>>]
           /\ upstream.stage = "idle"
  <1>1. /\ pc = "relay" /\ BodyArrived /\ KeepAlive /\ pc' = "head"
        /\ upstream' = [upstream EXCEPT !.inbox = IF relaying = "empty" THEN @ ELSE Tail(@)]
        /\ UNCHANGED <<fromClient, reading, response, totals, abandoned, forwarded>>
    BY DEF FinishResponse, Close
  <1>2. /\ upstream \in UpstreamConnections /\ Finishing
        /\ relaying \in {"keep", "empty"}
        /\ InExchange
    BY <1>1 DEF Upstreams, Held, InExchange, KeepAlive, ClientReusable, Reusable
  <1>3. /\ upstream.stage = "idle"
        /\ (IF relaying = "empty" THEN upstream.inbox ELSE Tail(upstream.inbox)) = <<>>
    <2>1. CASE relaying = "empty"
      BY <1>2, <2>1 DEF Finishing
    <2>2. CASE relaying = "keep"
      <3>1. upstream.inbox # <<>>
        BY <1>1, <2>2 DEF BodyArrived, Bodiless
      <3>2. upstream.stage = "idle" /\ Len(upstream.inbox) = 1
        BY <1>2, <3>1 DEF Finishing
      <3>3. /\ Tail(upstream.inbox) \in Seq(InboxEntries)
            /\ Len(Tail(upstream.inbox)) = 0
        BY <1>2, <3>1, <3>2, ReplyIsOurs
      <3> QED
        BY <2>2, <3>2, <3>3, EmptySeq
    <2> QED
      BY <1>2, <2>1, <2>2
  <1>4. upstream' = [upstream EXCEPT !.inbox = <<>>]
    BY <1>1, <1>3
  <1>5. <<>> \in Seq(InboxEntries)
    BY EmptySeq
  <1>6. upstream' \in UpstreamConnections
    BY <1>2, <1>4, <1>5, ConnectionUpdates
  <1>7. PICK e \in OutEntries :
          /\ out' = Append(out, e) /\ e.to = current /\ e.from \in {0, e.to}
          /\ e.what = "end"
    BY EndIsOurs
  <1>8. Relays("end", "head")
    BY <1>1, <1>2, <1>7 DEF Relays
  <1>9. /\ out \in Seq(OutEntries) /\ client \in {"open", "half", "gone"}
        /\ current \in 0 .. Len(sent) /\ forwarded \in Seq(ForwardedSegments)
    BY DEF TypeOK, OutEntries, ForwardedSegments
  <1>10. out' \in Seq(OutEntries)
    BY <1>7, <1>9, AppendProperties
  <1>11. /\ UNCHANGED <<tls, sent, stream, wire, client, stalled, buffer, current, left>>
         /\ UNCHANGED <<relaying, early, requests, errors, abandoned, forwarded>>
         /\ pc' \in Places
    BY <1>1 DEF fromClient, reading, response, totals, Places
  <1>12. TypeOK'
    BY <1>6, <1>9, <1>10, <1>11, Unchanging, TypeFrame
  <1> QED
    BY <1>1, <1>2, <1>3, <1>4, <1>8, <1>12

-----------------------------------------------------------------------------
(* The steps that take the worker through the request.                     *)

\* What every such step leaves alone.
Moves ==
    /\ UNCHANGED <<tls, sent, stream, client, stalled, response, out, abandoned>>
    /\ pc' # "closed"

\* A step that writes nothing to the client keeps the state well formed.
LEMMA MoveTyped ==
    ASSUME TypeOK, Moves, wire' \in Seq(SegmentSet), buffer' \in Seq(SegmentSet),
           pc' \in Places, current' \in 0 .. Len(sent), left' \in Nat,
           upstream' \in UpstreamConnections \cup {NoUpstream},
           requests' \in Nat, errors' \in Nat,
           forwarded' \in Seq(ForwardedSegments)
    PROVE  TypeOK'
  <1>1. out \in Seq(OutEntries) /\ client \in {"open", "half", "gone"}
    BY DEF TypeOK, OutEntries
  <1>2. UNCHANGED <<tls, sent, stream, client, stalled, relaying, early, out, abandoned>>
    BY DEF Moves, response
  <1> QED
    BY <1>1, <1>2, Unchanging, TypeFrame

\* ReadMore: read_request_head reads some of what is on the wire.
LEMMA ReadMoreStep ==
    ASSUME TypeOK, tls' = tls, ReadMore
    PROVE  TypeOK' /\ Moves
  <1>1. PICK n \in 1 .. Len(wire) :
          /\ buffer' = buffer \o SubSeq(wire, 1, n)
          /\ wire' = SubSeq(wire, n + 1, Len(wire))
    BY DEF ReadMore
  <1>2. Len(wire) \in Nat /\ n \in 0 .. Len(wire) /\ n + 1 \in Nat \ {0}
        /\ Len(wire) \in 0 .. Len(wire) /\ 1 \in Nat \ {0}
    BY Lengths
  <1>3. SubSeq(wire, 1, n) \in Seq(SegmentSet) /\ wire' \in Seq(SegmentSet)
    BY <1>1, <1>2, PartTyped, Unchanging
  <1>4. buffer' \in Seq(SegmentSet)
    BY <1>1, <1>3, ConcatProperties, Unchanging
  <1>5. /\ Moves
        /\ UNCHANGED <<pc, current, left, upstream, requests, errors, forwarded>>
    BY DEF ReadMore, Moves, totals
  <1>6. /\ pc \in Places /\ current \in 0 .. Len(sent)
        /\ upstream \in UpstreamConnections \cup {NoUpstream}
        /\ forwarded \in Seq(ForwardedSegments)
    BY DEF TypeOK, ForwardedSegments
  <1> QED
    BY <1>3, <1>4, <1>5, <1>6, Unchanging, MoveTyped

\* AcceptHead: the next request's head is taken from the buffer.
LEMMA AcceptHeadStep ==
    ASSUME TypeOK, Ordered, Position, tls' = tls, AcceptHead
    PROVE  /\ TypeOK' /\ Moves
           /\ pc = "head" /\ pc' = "route" /\ buffer # <<>>
           /\ current' = current + 1 /\ current + 1 \in 1 .. Len(sent)
           /\ sent[current + 1].head \in 1 .. Len(buffer)
           /\ buffer' = SubSeq(buffer, sent[current + 1].head + 1, Len(buffer))
           /\ left' = sent[current + 1].body
           /\ UNCHANGED <<wire, upstream, forwarded>>
  <1>1. /\ pc = "head" /\ buffer # <<>> /\ ~Malformed /\ pc' = "route"
        /\ Len(buffer) >= sent[FirstSegment.req].head
        /\ current' = FirstSegment.req
        /\ buffer' = SubSeq(buffer, sent[FirstSegment.req].head + 1, Len(buffer))
        /\ left' = sent[FirstSegment.req].body
        /\ requests' = requests + 1
        /\ UNCHANGED <<wire, upstream, errors, forwarded>>
        /\ Moves
    BY DEF AcceptHead, HeadComplete, Moves, fromClient
  <1>2. FirstSegment.req = current + 1 /\ current + 1 \in 1 .. Len(sent)
    <2>1. /\ FirstSegment = Segment(current + 1, 1)
          /\ current + 1 \in 1 .. Len(sent)
      BY <1>1, HeadIsNext
    <2> QED
      BY <2>1 DEF Segment
  <1>3. sent[current + 1].head \in Nat \ {0} /\ sent[current + 1].body \in Nat
    BY <1>2, KindsTyped
  <1>4. buffer' \in Seq(SegmentSet)
    <2>1. PICK n \in Nat : n = sent[current + 1].head
      BY <1>3
    <2>2. n + 1 \in Nat \ {0} /\ Len(buffer) \in 0 .. Len(buffer)
      BY Lengths
    <2> QED
      BY <1>1, <1>2, <2>1, <2>2, PartTyped, Unchanging
  <1>5. /\ pc' \in Places /\ current' \in 0 .. Len(sent) /\ requests' \in Nat
    <2>1. pc' \in Places
      BY <1>1 DEF Places
    <2>2. current' \in 0 .. Len(sent)
      BY <1>1, <1>2
    <2>3. requests' \in Nat
      <3>1. requests \in Nat
        BY Unchanging
      <3> QED
        BY <1>1, <3>1
    <2> QED
      BY <2>1, <2>2, <2>3
  <1>6. /\ upstream \in UpstreamConnections \cup {NoUpstream}
        /\ forwarded \in Seq(ForwardedSegments)
    BY DEF TypeOK, ForwardedSegments
  <1>7. TypeOK'
    BY <1>1, <1>2, <1>3, <1>4, <1>5, <1>6, Unchanging, MoveTyped
  <1>8. sent[current + 1].head \in 1 .. Len(buffer)
    <2>1. sent[current + 1].head <= Len(buffer) /\ Len(buffer) \in Nat
      BY <1>1, <1>2, <1>3, Lengths
    <2> QED
      BY <1>3, <2>1
  <1> QED
    BY <1>1, <1>2, <1>7, <1>8

\* SelectRoute: route_for_host found an upstream.
LEMMA SelectRouteStep ==
    ASSUME TypeOK, tls' = tls, SelectRoute, pc' # "closed"
    PROVE  /\ TypeOK' /\ Moves /\ pc = "route" /\ pc' = "connect"
           /\ Kind.route # NoRoute
           /\ UNCHANGED <<wire, reading, upstream, forwarded>>
  <1>1. /\ pc = "route" /\ pc' = "connect" /\ Kind.route # NoRoute
        /\ UNCHANGED <<wire, buffer, current, left, upstream, forwarded, requests, errors>>
        /\ Moves
    BY DEF SelectRoute, Refuse, Close, Moves, fromClient, reading
  <1>2. /\ pc' \in Places /\ current \in 0 .. Len(sent)
        /\ upstream \in UpstreamConnections \cup {NoUpstream}
        /\ forwarded \in Seq(ForwardedSegments)
    BY <1>1 DEF TypeOK, ForwardedSegments, Places
  <1>3. TypeOK'
    BY <1>1, <1>2, Unchanging, MoveTyped
  <1> QED
    BY <1>1, <1>3 DEF reading

\* The connection in use is a kept one to the same address, or a new one.
LEMMA ConnectStep ==
    ASSUME TypeOK, Position, Upstreams, tls' = tls, ConnectUpstream, pc' # "closed"
    PROVE  /\ TypeOK' /\ Moves /\ pc = "connect" /\ pc' = "send"
           /\ UNCHANGED <<wire, reading, forwarded>>
           /\ current \in 1 .. Len(sent) /\ Kind.route \in Addrs
           /\ \/ /\ upstream' = upstream /\ upstream.addr = Kind.route
                 /\ upstream # NoUpstream
              \/ upstream' = Connected(Kind.route)
           /\ upstream' \in UpstreamConnections
  <1>1. /\ pc = "connect" /\ pc' = "send"
        /\ UNCHANGED <<wire, buffer, current, left, forwarded, requests, errors>>
        /\ Moves
    BY DEF ConnectUpstream, Refuse, Close, Moves, fromClient, reading
  <1>2. \/ /\ upstream' = upstream /\ upstream.addr = Kind.route
           /\ upstream # NoUpstream
        \/ upstream' = Connected(Kind.route)
    BY DEF ConnectUpstream, Refuse, Close, CanReuse
  <1>3. current \in 1 .. Len(sent)
    BY <1>1, Lengths DEF Position, BodyUsed
  <1>4. Kind.route \in Addrs
    <2>1. Kind.route \in Addrs \cup {NoRoute}
      BY <1>3, KindsTyped DEF Kind
    <2> QED
      BY <1>1, <2>1 DEF Upstreams
  <1>5. upstream' \in UpstreamConnections
    <2>1. /\ <<>> \in Seq(InboxEntries) /\ 0 \in 0 .. MaxInterim
          /\ 0 \in 0 .. Len(sent)
      BY EmptySeq, Bounds, Lengths
    <2>2. Connected(Kind.route) \in UpstreamConnections
      BY <1>4, <2>1 DEF Connected, UpstreamConnections, InboxEntries
    <2> QED
      BY <1>2, <2>2 DEF TypeOK
  <1>6. /\ pc' \in Places /\ current \in 0 .. Len(sent)
        /\ forwarded \in Seq(ForwardedSegments)
    BY <1>1 DEF TypeOK, ForwardedSegments, Places
  <1>7. TypeOK'
    BY <1>1, <1>5, <1>6, Unchanging, MoveTyped
  <1> QED
    BY <1>1, <1>2, <1>3, <1>4, <1>5, <1>7 DEF reading

\* BodyDone: all of the body has been passed on.
LEMMA BodyDoneStep ==
    ASSUME TypeOK, tls' = tls, BodyDone
    PROVE  /\ TypeOK' /\ Moves /\ pc = "body" /\ pc' = "response" /\ left = 0
           /\ UNCHANGED <<wire, reading, upstream, forwarded>>
  <1>1. /\ pc = "body" /\ pc' = "response" /\ left = 0
        /\ UNCHANGED <<wire, buffer, current, left, upstream, forwarded, requests, errors>>
        /\ Moves
    BY DEF BodyDone, Moves, fromClient, reading, totals
  <1>2. /\ pc' \in Places /\ current \in 0 .. Len(sent)
        /\ upstream \in UpstreamConnections \cup {NoUpstream}
        /\ forwarded \in Seq(ForwardedSegments)
    BY <1>1 DEF TypeOK, ForwardedSegments, Places
  <1>3. TypeOK'
    BY <1>1, <1>2, Unchanging, MoveTyped
  <1> QED
    BY <1>1, <1>3 DEF reading

\* What Forward appends, segment by segment.
LEMMA Forwards ==
    ASSUME TypeOK, upstream.addr \in Addrs, NEW parts \in Seq(SegmentSet), Forward(parts)
    PROVE  /\ forwarded' \in Seq(ForwardedSegments)
           /\ Len(forwarded') = Len(forwarded) + Len(parts)
           /\ \A i \in 1 .. Len(forwarded) : forwarded'[i] = forwarded[i]
           /\ \A i \in 1 .. Len(parts) :
                 /\ forwarded'[Len(forwarded) + i].req = parts[i].req
                 /\ forwarded'[Len(forwarded) + i].part = parts[i].part
                 /\ forwarded'[Len(forwarded) + i].addr = upstream.addr
  <1>1. Len(parts) \in Nat /\ \A i \in 1 .. Len(parts) : parts[i] \in SegmentSet
    BY LenProperties, ElementOfSeq
  <1>2. PICK more : more = [i \in 1 .. Len(parts) |->
            [req |-> parts[i].req, part |-> parts[i].part, addr |-> upstream.addr]]
    OBVIOUS
  <1>3. \A i \in 1 .. Len(parts) :
          [req |-> parts[i].req, part |-> parts[i].part, addr |-> upstream.addr]
              \in ForwardedSegments
    BY <1>1 DEF SegmentSet, ForwardedSegments
  <1>4. more \in Seq(ForwardedSegments) /\ Len(more) = Len(parts)
    BY <1>1, <1>2, <1>3
  <1>5. forwarded \in Seq(ForwardedSegments) /\ forwarded' = forwarded \o more
    BY <1>2 DEF TypeOK, ForwardedSegments, Forward
  <1>6. /\ forwarded' \in Seq(ForwardedSegments)
        /\ Len(forwarded') = Len(forwarded) + Len(parts)
        /\ \A i \in 1 .. Len(forwarded') :
              forwarded'[i] = IF i <= Len(forwarded) THEN forwarded[i]
                                                     ELSE more[i - Len(forwarded)]
    <2>1. /\ forwarded \o more \in Seq(ForwardedSegments)
          /\ Len(forwarded \o more) = Len(forwarded) + Len(more)
          /\ \A i \in 1 .. Len(forwarded) + Len(more) :
                (forwarded \o more)[i] = IF i <= Len(forwarded) THEN forwarded[i]
                                                           ELSE more[i - Len(forwarded)]
      BY <1>4, <1>5, ConcatProperties
    <2> QED
      BY <1>4, <1>5, <2>1
  <1>7. \A i \in 1 .. Len(forwarded) : forwarded'[i] = forwarded[i]
    BY <1>1, <1>6, Lengths
  <1>8. ASSUME NEW i \in 1 .. Len(parts)
        PROVE  forwarded'[Len(forwarded) + i] = more[i]
    <2>1. Len(forwarded) + i \in 1 .. Len(forwarded') /\ ~(Len(forwarded) + i <= Len(forwarded))
          /\ Len(forwarded) + i - Len(forwarded) = i
      BY <1>1, <1>6, Lengths
    <2> QED
      BY <1>6, <2>1
  <1> QED
    BY <1>2, <1>6, <1>7, <1>8

\* SendHead: the head is written to the upstream.
LEMMA SendHeadStep ==
    ASSUME TypeOK, Position, Upstreams, tls' = tls, SendHead
    PROVE  /\ TypeOK' /\ Moves /\ pc = "send" /\ pc' \in {"await", "body"}
           /\ Kind.expects /\ Kind.body > 0 => pc' = "await"
           /\ UNCHANGED <<wire, reading>> /\ current \in 1 .. Len(sent)
           /\ upstream \in UpstreamConnections
           /\ upstream' \in UpstreamConnections
           /\ upstream'.serving = current /\ upstream'.addr = upstream.addr
           /\ upstream'.inbox = upstream.inbox /\ upstream'.stage = "asked"
           /\ Len(forwarded') = Len(forwarded) + Kind.head
           /\ \A i \in 1 .. Len(forwarded) : forwarded'[i] = forwarded[i]
           /\ \A i \in 1 .. Kind.head :
                 /\ forwarded'[Len(forwarded) + i].req = current
                 /\ forwarded'[Len(forwarded) + i].part = i
                 /\ forwarded'[Len(forwarded) + i].addr = Kind.route
  <1>1. /\ pc = "send" /\ pc' \in {"await", "body"} /\ Forward(HeadSegments)
        /\ Kind.expects /\ Kind.body > 0 => pc' = "await"
        /\ UNCHANGED <<wire, buffer, current, left, requests, errors>>
        /\ Moves
    BY DEF SendHead, Moves, fromClient, reading, totals
  <1>2. current \in 1 .. Len(sent) /\ current \in 0 .. Len(sent)
    BY <1>1, Lengths DEF Position, BodyUsed
  <1>3. Kind.head \in Nat
    BY <1>2, KindsTyped DEF Kind
  <1>4. upstream \in UpstreamConnections /\ upstream.addr = Kind.route
    BY <1>1 DEF Upstreams, Held
  <1>5. upstream.addr \in Addrs
    BY <1>4, ConnectionFields
  <1>6. /\ HeadSegments \in Seq(SegmentSet) /\ Len(HeadSegments) = Kind.head
        /\ \A i \in 1 .. Kind.head : HeadSegments[i] = [req |-> current, part |-> i]
    <2>1. \A i \in 1 .. Kind.head : [req |-> current, part |-> i] \in SegmentSet
      BY <1>2, <1>3 DEF SegmentSet
    <2> QED
      BY <1>3, <2>1 DEF HeadSegments
  <1>7. /\ forwarded' \in Seq(ForwardedSegments)
        /\ Len(forwarded') = Len(forwarded) + Kind.head
        /\ \A i \in 1 .. Len(forwarded) : forwarded'[i] = forwarded[i]
        /\ \A i \in 1 .. Kind.head :
              /\ forwarded'[Len(forwarded) + i].req = HeadSegments[i].req
              /\ forwarded'[Len(forwarded) + i].part = HeadSegments[i].part
              /\ forwarded'[Len(forwarded) + i].addr = upstream.addr
    BY <1>1, <1>5, <1>6, Forwards
  <1>8. ASSUME NEW i \in 1 .. Kind.head
        PROVE  /\ forwarded'[Len(forwarded) + i].req = current
               /\ forwarded'[Len(forwarded) + i].part = i
               /\ forwarded'[Len(forwarded) + i].addr = Kind.route
    <2>1. HeadSegments[i].req = current /\ HeadSegments[i].part = i
      <3>1. HeadSegments[i] = [req |-> current, part |-> i]
        BY <1>6
      <3> QED
        BY <3>1
    <2> QED
      BY <1>4, <1>7, <2>1
  <1>9. upstream' = [upstream EXCEPT !.serving = current, !.stage = "asked", !.interims = 0]
    BY DEF SendHead
  <1>10. upstream' \in UpstreamConnections
    BY <1>2, <1>4, <1>9, ConnectionUpdates
  <1>11. /\ upstream'.serving = current /\ upstream'.addr = upstream.addr
         /\ upstream'.inbox = upstream.inbox /\ upstream'.stage = "asked"
    BY <1>4, <1>9 DEF UpstreamConnections
  <1>12. pc' \in Places
    BY <1>1 DEF Places
  <1>13. TypeOK'
    BY <1>1, <1>2, <1>7, <1>10, <1>12, Unchanging, MoveTyped
  <1> QED
    BY <1>1, <1>2, <1>4, <1>7, <1>8, <1>10, <1>11, <1>13 DEF reading

\* StreamBody: part of the body is copied to the upstream.
LEMMA StreamBodyStep ==
    ASSUME TypeOK, Ordered, Position, Upstreams, tls' = tls, StreamBody
    PROVE  /\ TypeOK' /\ Moves /\ pc = "body" /\ pc' = "body"
           /\ UNCHANGED <<current, upstream>>
           /\ left > 0 /\ left' = left - 1 /\ buffer \o wire # <<>>
           /\ IF buffer # <<>> THEN buffer' = Tail(buffer) /\ wire' = wire
                               ELSE wire' = Tail(wire) /\ buffer' = buffer
           /\ Len(forwarded') = Len(forwarded) + 1
           /\ \A i \in 1 .. Len(forwarded) : forwarded'[i] = forwarded[i]
           /\ forwarded'[Len(forwarded) + 1].req = NextSegment.req
           /\ forwarded'[Len(forwarded) + 1].part = NextSegment.part
           /\ forwarded'[Len(forwarded) + 1].addr = Kind.route
  <1>1. /\ pc = "body" /\ pc' = "body" /\ Forward(<<NextSegment>>)
        /\ left > 0 /\ left' = left - 1 /\ buffer \o wire # <<>>
        /\ IF buffer # <<>> THEN buffer' = Tail(buffer) /\ wire' = wire
                            ELSE wire' = Tail(wire) /\ buffer' = buffer
        /\ UNCHANGED <<current, upstream, requests, errors>>
        /\ Moves
    BY DEF StreamBody, TakeSegment, Moves, totals
  <1>2. NextSegment \in SegmentSet
    <2>1. buffer \o wire \in Seq(SegmentSet)
      BY Unchanging, ConcatProperties
    <2> QED
      BY <1>1, <2>1, SegmentsTyped DEF NextSegment
  <1>3. upstream \in UpstreamConnections /\ upstream.addr = Kind.route
    BY <1>1 DEF Upstreams, Held, InExchange
  <1>4. upstream.addr \in Addrs
    BY <1>3, ConnectionFields
  <1>5. PICK parts \in Seq(SegmentSet) :
          parts = <<NextSegment>> /\ Len(parts) = 1 /\ parts[1] = NextSegment
    <2>1. PICK next \in SegmentSet : next = NextSegment
      BY <1>2
    <2>2. /\ <<next>> \in Seq(SegmentSet) /\ Len(<<next>>) = 1
          /\ <<next>>[1] = next
      OBVIOUS
    <2> QED
      BY <2>1, <2>2
  <1>6. /\ forwarded' \in Seq(ForwardedSegments)
        /\ Len(forwarded') = Len(forwarded) + 1
        /\ \A i \in 1 .. Len(forwarded) : forwarded'[i] = forwarded[i]
        /\ forwarded'[Len(forwarded) + 1].req = NextSegment.req
        /\ forwarded'[Len(forwarded) + 1].part = NextSegment.part
        /\ forwarded'[Len(forwarded) + 1].addr = upstream.addr
    <2>1. /\ forwarded' \in Seq(ForwardedSegments)
          /\ Len(forwarded') = Len(forwarded) + Len(parts)
          /\ \A i \in 1 .. Len(forwarded) : forwarded'[i] = forwarded[i]
          /\ \A i \in 1 .. Len(parts) :
                /\ forwarded'[Len(forwarded) + i].req = parts[i].req
                /\ forwarded'[Len(forwarded) + i].part = parts[i].part
                /\ forwarded'[Len(forwarded) + i].addr = upstream.addr
      <3>1. Forward(parts)
        BY <1>1, <1>5
      <3> QED
        BY <1>4, <3>1, Forwards
    <2>2. 1 \in 1 .. Len(parts)
      BY <1>5
    <2> QED
      BY <1>5, <2>1, <2>2
  <1>7. wire' \in Seq(SegmentSet) /\ buffer' \in Seq(SegmentSet)
    <2>1. CASE buffer # <<>>
      BY <1>1, <2>1, SegmentsTyped, Unchanging
    <2>2. CASE buffer = <<>>
      <3>1. wire # <<>>
        BY <1>1, <2>2, ConcatEmptySeq, Unchanging
      <3> QED
        BY <1>1, <2>2, <3>1, SegmentsTyped, Unchanging
    <2> QED
      BY <2>1, <2>2
  <1>8. /\ pc' \in Places /\ current \in 0 .. Len(sent) /\ left' \in Nat
        /\ upstream \in UpstreamConnections \cup {NoUpstream}
    BY <1>1, Lengths DEF TypeOK, Places
  <1>9. TypeOK'
    BY <1>1, <1>6, <1>7, <1>8, Unchanging, MoveTyped
  <1> QED
    BY <1>1, <1>3, <1>6, <1>9

-----------------------------------------------------------------------------
(* The state stays well formed.                                            *)

\* The connection as the accept loop hands it over is well formed.
LEMMA InitTyped == Init => TypeOK
  <1> SUFFICES ASSUME Init PROVE TypeOK
    OBVIOUS
  <1>1. /\ sent \in Seq(Kinds[tls]) /\ Len(sent) = 0
        /\ stream \in Seq(SegmentSet)
        /\ wire \in Seq(SegmentSet) /\ buffer \in Seq(SegmentSet)
        /\ out \in Seq(OutEntries) /\ forwarded \in Seq(ForwardedSegments)
    BY EmptySeq DEF Init
  <1>2. /\ early \in BOOLEAN /\ abandoned \in BOOLEAN /\ tls \in BOOLEAN
        /\ stalled \in BOOLEAN
    BY Zenon DEF Init
  <1>3. /\ client \in {"open", "half", "gone"} /\ pc \in Places
        /\ relaying \in Framings
        /\ upstream \in UpstreamConnections \cup {NoUpstream}
    BY Zenon DEF Init, Places, Framings
  <1>4. /\ current \in 0 .. Len(sent) /\ left \in Nat /\ requests \in Nat
        /\ errors \in Nat
    BY <1>1 DEF Init
  <1> QED
    BY <1>1, <1>2, <1>3, <1>4 DEF TypeOK, OutEntries, ForwardedSegments

\* The client's steps keep the state well formed.
LEMMA ClientTyped ==
    ASSUME TypeOK, Client, tls' = tls
    PROVE  TypeOK'
  <1>1. CASE ClientSends
    <2>1. PICK new \in SegmentSet' :
            /\ stream' = Append(stream, new) /\ wire' = Append(wire, new)
            /\ sent' \in Seq(Kinds[tls])
            /\ Len(sent') \in Nat /\ Len(sent) <= Len(sent')
      BY <1>1, ClientWrites
    <2>2. /\ SegmentSet \subseteq SegmentSet'
          /\ UpstreamConnections \subseteq UpstreamConnections'
          /\ OutEntries \subseteq OutEntries'
          /\ ForwardedSegments \subseteq ForwardedSegments'
      BY <2>1, TypesGrow
    <2>3. /\ Seq(SegmentSet) \subseteq Seq(SegmentSet')
          /\ Seq(OutEntries) \subseteq Seq(OutEntries')
          /\ Seq(ForwardedSegments) \subseteq Seq(ForwardedSegments')
      BY <2>2, SeqMonotonic
    <2>4. /\ stream \in Seq(SegmentSet) /\ wire \in Seq(SegmentSet)
          /\ buffer \in Seq(SegmentSet) /\ out \in Seq(OutEntries)
          /\ forwarded \in Seq(ForwardedSegments)
          /\ upstream \in UpstreamConnections \cup {NoUpstream}
          /\ current \in 0 .. Len(sent)
      BY DEF TypeOK, OutEntries, ForwardedSegments
    <2>5. /\ UNCHANGED <<client, stalled, pc, buffer, current, left, upstream, relaying, early>>
          /\ UNCHANGED <<out, requests, errors, abandoned, forwarded>>
      BY <1>1 DEF ClientSends, reading, response, totals
    <2>6. stream' \in Seq(SegmentSet') /\ wire' \in Seq(SegmentSet')
      BY <2>1, <2>3, <2>4, AppendProperties
    <2>7. /\ buffer' \in Seq(SegmentSet') /\ out' \in Seq(OutEntries')
          /\ forwarded' \in Seq(ForwardedSegments')
          /\ upstream' \in UpstreamConnections' \cup {NoUpstream}
          /\ current' \in 0 .. Len(sent')
      <3>1. current \in 0 .. Len(sent')
        BY <2>1, <2>4, Lengths
      <3> QED
        BY <2>2, <2>3, <2>4, <2>5, <3>1
    <2>8. /\ tls' \in BOOLEAN /\ sent' \in Seq(Kinds[tls'])
          /\ client' \in {"open", "half", "gone"} /\ stalled' \in BOOLEAN
          /\ pc' \in Places /\ left' \in Nat
          /\ relaying' \in Framings /\ early' \in BOOLEAN
          /\ requests' \in Nat /\ errors' \in Nat /\ abandoned' \in BOOLEAN
      BY <2>1, <2>5 DEF TypeOK
    <2> QED
      BY <2>6, <2>7, <2>8 DEF TypeOK, OutEntries, ForwardedSegments
  <1>2. CASE ClientCloses \/ ClientResets \/ ClientStalls
    <2>1. /\ UNCHANGED <<sent, stream, pc, buffer, current, left, upstream, relaying, early>>
          /\ UNCHANGED <<out, requests, errors, abandoned, forwarded>>
          /\ client' \in {"open", "half", "gone"} /\ stalled' \in BOOLEAN
          /\ wire' = wire \/ wire' = <<>>
      BY <1>2 DEF ClientCloses, ClientResets, ClientStalls, reading, response,
         totals, TypeOK
    <2>2. wire' \in Seq(SegmentSet)
      BY <2>1, EmptySeq, Unchanging
    <2>3. /\ out \in Seq(OutEntries) /\ forwarded \in Seq(ForwardedSegments)
          /\ pc \in Places /\ current \in 0 .. Len(sent)
          /\ upstream \in UpstreamConnections \cup {NoUpstream}
      BY DEF TypeOK, OutEntries, ForwardedSegments
    <2> QED
      BY <2>1, <2>2, <2>3, Unchanging, TypeFrame
  <1> QED
    BY <1>1, <1>2 DEF Client

\* So do the upstream's.
LEMMA UpstreamTyped ==
    ASSUME TypeOK, Upstreams, Upstream, tls' = tls
    PROVE  TypeOK'
  <1>1. /\ UNCHANGED <<sent, stream, wire, client, stalled, pc, buffer, current, left, relaying, early>>
        /\ UNCHANGED <<out, requests, errors, abandoned, forwarded>>
    BY DEF Upstream, UpstreamReplies, UpstreamCloses, fromClient, reading,
       response, totals
  <1>2. upstream' \in UpstreamConnections
    BY UpstreamSays, UpstreamGoes DEF Upstream
  <1>3. /\ out \in Seq(OutEntries) /\ forwarded \in Seq(ForwardedSegments)
        /\ pc \in Places /\ current \in 0 .. Len(sent)
        /\ client \in {"open", "half", "gone"}
    BY DEF TypeOK, OutEntries, ForwardedSegments
  <1> QED
    BY <1>1, <1>2, <1>3, Unchanging, TypeFrame

\* The worker's steps that do not end the connection.
Staying ==
    /\ pc' # "closed"
    /\ \/ ReadMore \/ AcceptHead \/ SelectRoute \/ ConnectUpstream \/ SendHead
       \/ StreamBody \/ BodyDone \/ ForwardInterim \/ SwitchProtocols
       \/ BeginResponse \/ FinishResponse

\* A worker's step that does not close the connection is one of Staying.
LEMMA WorkerStays ==
    ASSUME Worker, pc' # "closed"
    PROVE  Staying
  <1>1. ~(RejectHead \/ ClientReadEnds \/ RejectFields \/ UpstreamWriteFails \/ RejectBody)
    BY DEF RejectHead, ClientReadEnds, RejectFields, UpstreamWriteFails,
       RejectBody,
        Refuse, Close
  <1>2. ~(RejectReply \/ SwitchUnsupported \/ UpstreamSilent \/ UpstreamTimesOut
          \/ ResponseBreaks)
    BY DEF RejectReply, SwitchUnsupported, UpstreamSilent, UpstreamTimesOut,
       ResponseBreaks,
        Refuse, Break, Close
  <1> QED
    BY <1>1, <1>2 DEF Worker, Staying

\* Every step keeps the state well formed.
LEMMA TypeStep ==
    ASSUME TypeOK, Ordered, Position, Upstreams, Answers, AnswersOwnRequest, Next
    PROVE  TypeOK'
  <1>1. CASE Worker /\ pc' = "closed"
    BY <1>1, LeavingSteps
  <1>2. CASE Worker /\ pc' # "closed"
    <2>1. Staying /\ tls' = tls
      BY <1>2, WorkerStays DEF Worker
    <2>2. CASE ReadMore \/ AcceptHead \/ SelectRoute \/ ConnectUpstream
      BY <1>2, <2>1, <2>2, ReadMoreStep, AcceptHeadStep, SelectRouteStep,
         ConnectStep
    <2>3. CASE SendHead \/ StreamBody \/ BodyDone
      BY <1>2, <2>1, <2>3, SendHeadStep, StreamBodyStep, BodyDoneStep
    <2>4. CASE ForwardInterim \/ SwitchProtocols \/ BeginResponse \/ FinishResponse
      BY <1>2, <2>1, <2>4, InterimStep, SwitchStep, BeginStep, KeepStep
    <2> QED
      BY <2>1, <2>2, <2>3, <2>4 DEF Staying
  <1>3. CASE Client /\ UNCHANGED tls
    BY <1>3, ClientTyped
  <1>4. CASE Upstream /\ UNCHANGED tls
    BY <1>4, UpstreamTyped
  <1> QED
    BY <1>1, <1>2, <1>3, <1>4 DEF Next

-----------------------------------------------------------------------------
(* The client writes whole requests in order.                              *)

\* Every request has a segment.
LEMMA NotEmpty ==
    ASSUME TypeOK, sent' \in Seq(Kinds[tls]), NEW r \in 1 .. Len(sent')
    PROVE  1 <= Segments(sent'[r])
  <1>1. sent'[r] \in Kinds[tls] /\ Kinds[tls] \subseteq RequestKinds
    BY ElementOfSeq, KindsAreRequests DEF TypeOK
  <1>2. sent'[r].head \in Nat \ {0} /\ sent'[r].body \in Nat
    BY <1>1 DEF RequestKinds
  <1> QED
    BY <1>2 DEF Segments

\* The next segment continues the last one, whichever way it was chosen.
LEMMA NextContinues ==
    ASSUME TypeOK, Ordered, NEW new, NextWritten(new), stream # <<>>,
           NEW last \in Nat, last = Len(stream)
    PROVE  /\ last > 0
           /\ stream[last].part = Size(stream[last].req) =>
                 new = Segment(stream[last].req + 1, 1)
           /\ stream[last].part # Size(stream[last].req) =>
                 /\ new = Segment(stream[last].req, stream[last].part + 1)
                 /\ stream[last].part + 1 <= Size(stream[last].req)
  <1>1. last > 0
    BY EmptySeq DEF TypeOK
  <1>2. /\ stream[last].req = Len(sent)
        /\ stream[last].part <= Size(stream[last].req)
        /\ stream[last].req \in 1 .. Len(sent) /\ stream[last].part \in Nat
    BY <1>1, Lengths DEF Ordered
  <1>3. RequestSent <=> stream[last].part = Size(stream[last].req)
    BY <1>2 DEF RequestSent, Size
  <1>4. Size(stream[last].req) \in Nat
    BY <1>2, KindsTyped
  <1> QED
    BY <1>1, <1>2, <1>3, <1>4 DEF NextWritten

\* Every step keeps the client's stream in order.
LEMMA OrderedStep ==
    ASSUME TypeOK, Ordered, Next
    PROVE  Ordered'
  <1>1. CASE UNCHANGED <<sent, stream>>
    BY <1>1 DEF Ordered, Size
  <1>2. CASE ClientSends /\ tls' = tls
    <2>1. PICK new \in SegmentSet' :
            /\ NextWritten(new) /\ stream' = Append(stream, new)
            /\ sent' \in Seq(Kinds[tls]) /\ Len(sent') \in Nat
            /\ Len(sent) <= Len(sent')
            /\ \A r \in 1 .. Len(sent) : sent'[r] = sent[r]
      BY <1>2, ClientWrites
    <2>2. PICK n \in Nat : n = Len(stream)
      BY Lengths
    <2>3. /\ Len(stream') = n + 1 /\ stream'[n + 1] = new /\ stream' # <<>>
          /\ \A i \in 1 .. n : stream'[i] = stream[i]
      <3>1. stream \in Seq(SegmentSet') /\ stream \in Seq(SegmentSet)
        <4>1. SegmentSet \subseteq SegmentSet'
          BY <2>1, TypesGrow
        <4> QED
          BY <4>1, SeqMonotonic DEF TypeOK
      <3> QED
        BY <2>1, <2>2, <3>1, AppendProperties, EmptySeq
    <2>4. \A i \in 1 .. n : /\ stream[i].req \in 1 .. Len(sent) /\ stream[i].part \in Nat
                            /\ Size(stream[i].req) \in Nat
                            /\ Segments(sent'[stream'[i].req]) = Size(stream[i].req)
      <3>1. \A i \in 1 .. n : stream[i].req \in 1 .. Len(sent) /\ stream[i].part \in Nat
        BY <2>2, Lengths
      <3>2. \A r \in 1 .. Len(sent) :
              Segments(sent'[r]) = Size(r) /\ Size(r) \in Nat
        BY <2>1, KindsTyped DEF Size
      <3> QED
        BY <2>3, <3>1, <3>2
    <2>5. CASE stream = <<>>
      <3>1. n = 0 /\ Len(sent) = 0 /\ new = Segment(1, 1) /\ Len(sent') = 1
        BY <2>1, <2>2, <2>5, EmptySeq DEF Ordered, NextWritten, RequestSent
      <3>2. Len(stream') = 1 /\ stream'[1] = Segment(1, 1)
        BY <2>3, <3>1
      <3>3. 1 <= Segments(sent'[1])
        <4>1. 1 \in 1 .. Len(sent')
          BY <3>1
        <4> QED
          BY <2>1, <4>1, NotEmpty
      <3>4. stream'[1].req = 1 /\ stream'[1].part = 1
        BY <3>2 DEF Segment
      <3>5. \A i \in 1 .. Len(stream') : i = 1 /\ ~(i < Len(stream')) /\ Len(stream') - i = 0
        BY <3>2
      <3>6. ASSUME NEW i \in 1 .. Len(stream')
            PROVE  /\ stream'[i].part <= Segments(sent'[stream'[i].req])
                   /\ ~(i < Len(stream')) /\ 1 .. (Len(stream') - i) = {}
        BY <3>3, <3>4, <3>5
      <3> QED
        BY <2>3, <3>1, <3>2, <3>4, <3>6 DEF Ordered, Size
    <2>6. CASE stream # <<>>
      <3>1. /\ n > 0
            /\ stream[n].part = Size(stream[n].req) =>
                 new = Segment(stream[n].req + 1, 1)
            /\ stream[n].part # Size(stream[n].req) =>
                 /\ new = Segment(stream[n].req, stream[n].part + 1)
                 /\ stream[n].part + 1 <= Size(stream[n].req)
        BY <2>1, <2>2, <2>6, NextContinues
      <3>2. stream'[1] = Segment(1, 1) /\ stream'[Len(stream')].req = Len(sent')
        <4>1. stream[1] = Segment(1, 1) /\ stream[n].req = Len(sent)
          BY <2>2, <2>6 DEF Ordered
        <4>2. new.req = Len(sent')
          BY <2>1, <2>2, <4>1 DEF NextWritten, Segment
        <4> QED
          BY <2>3, <3>1, <4>1, <4>2
      <3>3. ASSUME NEW i \in 1 .. (n + 1)
            PROVE  stream'[i].part <= Segments(sent'[stream'[i].req])
        <4>1. CASE i <= n
          BY <2>2, <2>3, <2>4, <4>1 DEF Ordered
        <4>2. CASE i = n + 1 /\ stream[n].part # Size(stream[n].req)
          <5>1. new.req = stream[n].req /\ new.part = stream[n].part + 1
            BY <3>1, <4>2 DEF Segment
          <5>2. /\ stream'[n].req = stream[n].req
                /\ Segments(sent'[stream[n].req]) = Size(stream[n].req)
            BY <2>3, <2>4, <3>1
          <5> QED
            BY <2>3, <3>1, <4>2, <5>1, <5>2
        <4>3. CASE i = n + 1 /\ stream[n].part = Size(stream[n].req)
          <5>1. new.req \in 1 .. Len(sent') /\ new.part = 1
            BY <2>1, <3>1, <4>3 DEF Segment, SegmentSet
          <5>2. 1 <= Segments(sent'[new.req])
            BY <2>1, <5>1, NotEmpty
          <5> QED
            BY <2>3, <4>3, <5>1, <5>2
        <4> QED
          BY <4>1, <4>2, <4>3
      <3>4. ASSUME NEW i \in 1 .. (n + 1), i < n + 1,
                   stream'[i].part = Segments(sent'[stream'[i].req])
            PROVE  stream'[i + 1] = Segment(stream'[i].req + 1, 1)
        <4>1. /\ i \in 1 .. n /\ stream'[i] = stream[i]
              /\ stream[i].part = Size(stream[i].req)
          BY <2>3, <2>4, <3>4
        <4>2. CASE i < n
          BY <2>2, <2>3, <4>1, <4>2 DEF Ordered
        <4>3. CASE i = n
          BY <2>3, <3>1, <4>1, <4>3
        <4> QED
          BY <4>1, <4>2, <4>3
      <3>5. ASSUME NEW i \in 1 .. (n + 1), NEW k \in 1 .. (n + 1 - i),
                   stream'[i].part + k <= Segments(sent'[stream'[i].req])
            PROVE  stream'[i + k] = Segment(stream'[i].req, stream'[i].part + k)
        <4>1. /\ i \in 1 .. n /\ stream'[i] = stream[i]
              /\ stream[i].part + k <= Size(stream[i].req)
          BY <2>3, <2>4, <3>5
        <4>2. CASE i + k <= n
          <5>1. k \in 1 .. (Len(stream) - i) /\ i + k \in 1 .. n
            BY <2>2, <4>1, <4>2
          <5>2. stream[i + k] = Segment(stream[i].req, stream[i].part + k)
            BY <2>2, <4>1, <5>1 DEF Ordered
          <5> QED
            BY <2>3, <4>1, <5>1, <5>2
        <4>3. CASE i = n
          <5>1. k = 1 /\ stream[n].part # Size(stream[n].req)
            BY <2>4, <4>1, <4>3
          <5> QED
            BY <2>3, <3>1, <4>1, <4>3, <5>1
        <4>4. CASE i < n /\ i + k = n + 1
          <5>1. PICK j \in Nat : j = k - 1
            BY <4>4
          <5>2. /\ j \in 1 .. (Len(stream) - i) /\ i + j = n
                /\ stream[i].part + j <= Size(stream[i].req)
            <6>1. i \in 1 .. n /\ k \in Nat /\ k = j + 1 /\ Len(stream) = n
              BY <2>2, <4>1, <5>1
            <6>2. i + j = n /\ j \in 1 .. (n - i)
              BY <4>4, <6>1
            <6>3. PICK part \in Nat, size \in Nat :
                    part = stream[i].part /\ size = Size(stream[i].req)
              BY <2>4, <4>1
            <6>4. part + (j + 1) <= size
              BY <4>1, <6>1, <6>3
            <6>5. part + j <= size
              BY <6>4
            <6> QED
              BY <6>1, <6>2, <6>3, <6>5
          <5>3. stream[n] = Segment(stream[i].req, stream[i].part + j)
            BY <2>2, <4>1, <5>2 DEF Ordered
          <5>4. /\ stream[n].req = stream[i].req
                /\ stream[n].part = stream[i].part + j
            BY <5>3 DEF Segment
          <5>5. /\ stream[n].part # Size(stream[n].req)
                /\ stream[n].part + 1 = stream[i].part + k
            <6>1. PICK part \in Nat, size \in Nat :
                    part = stream[i].part /\ size = Size(stream[i].req)
              BY <2>4, <4>1
            <6>2. k \in Nat /\ k = j + 1 /\ part + k <= size
              BY <4>1, <5>1, <6>1
            <6>3. part + j # size /\ part + j + 1 = part + k
              BY <6>2
            <6> QED
              BY <5>4, <6>1, <6>3
          <5>6. new = Segment(stream[i].req, stream[i].part + k)
            BY <3>1, <5>4, <5>5
          <5> QED
            BY <2>3, <4>1, <4>4, <5>6
        <4> QED
          BY <4>1, <4>2, <4>3, <4>4
      <3> QED
        BY <2>3, <3>2, <3>3, <3>4, <3>5 DEF Ordered, Size
    <2> QED
      BY <2>5, <2>6
  <1>3. QED
    <2>1. Upstream \/ ClientCloses \/ ClientResets \/ ClientStalls
          => UNCHANGED <<sent, stream>>
      BY DEF Upstream, UpstreamReplies, UpstreamCloses, ClientCloses,
         ClientResets, ClientStalls, fromClient
    <2>2. \/ ReadMore \/ RejectHead \/ AcceptHead \/ SelectRoute \/ ClientReadEnds
          \/ RejectFields \/ ConnectUpstream \/ SendHead \/ UpstreamWriteFails
          => UNCHANGED <<sent, stream>>
      BY DEF ReadMore, RejectHead, AcceptHead, SelectRoute, ClientReadEnds,
         RejectFields,
          ConnectUpstream, SendHead, UpstreamWriteFails, fromClient
    <2>3. \/ RejectBody \/ StreamBody \/ BodyDone \/ ForwardInterim \/ RejectReply
          \/ SwitchProtocols \/ SwitchUnsupported \/ BeginResponse \/ UpstreamSilent
          \/ UpstreamTimesOut \/ FinishResponse \/ ResponseBreaks
          => UNCHANGED <<sent, stream>>
      BY DEF RejectBody, StreamBody, BodyDone, ForwardInterim, RejectReply,
          SwitchProtocols, SwitchUnsupported, BeginResponse, UpstreamSilent,
          UpstreamTimesOut, FinishResponse, ResponseBreaks, fromClient
    <2> QED
      BY <1>1, <1>2, <2>1, <2>2, <2>3 DEF Next, Client, Worker

-----------------------------------------------------------------------------
(* The worker stays where `current` and `left` say.                        *)

\* A closed connection has no place in the stream any more.
LEMMA LeavingPosition ==
    ASSUME Position, pc' = "closed", UNCHANGED <<stream, forwarded>>
    PROVE  Position'
  BY DEF Position, ForwardedInPlace, HeadInPlace, HeadHeld, BodyUsed, Reached,
     ReadAhead

\* A step that reads and forwards nothing.
LEMMA PositionFrame ==
    ASSUME Position, BodyUsed', HeadHeld' <=> HeadHeld, pc = "closed" => pc' = "closed",
           UNCHANGED <<sent, stream, wire, client, buffer, current, left, forwarded>>
    PROVE  Position'
  <1>1. Taken' = Taken /\ Kind' = Kind /\ Size(current)' = Size(current)
    BY DEF Taken, Kind, Size
  <1>2. ForwardedInPlace' /\ HeadInPlace'
    BY <1>1 DEF Position, ForwardedInPlace, HeadInPlace
  <1>3. Reached'
    BY <1>1 DEF Position, Reached
  <1>4. ReadAhead'
    BY <1>1 DEF Position, ReadAhead, Window
  <1> QED
    BY <1>2, <1>3, <1>4 DEF Position

\* Reading moves segments from the wire into the read-ahead.
LEMMA WindowRead ==
    ASSUME NEW at \in Nat, NEW ahead \in Seq(SegmentSet), NEW rest \in Seq(SegmentSet),
           Window(at, ahead, rest), NEW n \in 1 .. Len(rest), Len(stream) \in Nat
    PROVE  LET more == ahead \o SubSeq(rest, 1, n)
               less == SubSeq(rest, n + 1, Len(rest))
           IN  Window(at, more, less) /\ Len(more) + Len(less) = Len(ahead) + Len(rest)
  <1>1. PICK a \in Nat, r \in Nat : a = Len(ahead) /\ r = Len(rest)
    BY LenProperties
  <1>2. n \in 1 .. r /\ n \in Nat
    BY <1>1
  <1>3. PICK taken \in Seq(SegmentSet) :
          /\ taken = SubSeq(rest, 1, n) /\ Len(taken) = n
          /\ \A i \in 1 .. n : taken[i] = rest[i]
    <2>1. 1 \in Nat \ {0} /\ n \in 0 .. Len(rest)
      BY <1>1, <1>2
    <2>2. SubSeq(rest, 1, n) \in Seq(SegmentSet)
      BY <2>1, PartTyped
    <2>3. Len(SubSeq(rest, 1, n)) = n /\ \A i \in 1 .. n : SubSeq(rest, 1, n)[i] = rest[i]
      BY <1>1, <1>2, SubSeqProperties
    <2> QED
      BY <2>2, <2>3
  <1>4. PICK more : more = ahead \o taken
    OBVIOUS
  <1>5. Len(more) = a + n /\ \A i \in 1 .. (a + n) :
            more[i] = IF i <= a THEN ahead[i] ELSE taken[i - a]
    BY <1>1, <1>3, <1>4, ConcatProperties
  <1>6. PICK less : less = SubSeq(rest, n + 1, Len(rest))
    OBVIOUS
  <1>7. Len(less) = r - n /\ \A i \in 1 .. (r - n) : less[i] = rest[n + i]
    BY <1>1, <1>2, <1>6, SubSeqProperties
  <1>8. /\ at + a + r <= Len(stream)
        /\ \A i \in 1 .. a : ahead[i] = stream[at + i]
        /\ \A i \in 1 .. r : rest[i] = stream[at + a + i]
    BY <1>1 DEF Window
  <1>9. /\ at + Len(more) + Len(less) <= Len(stream)
        /\ Len(more) + Len(less) = a + r
    <2>1. at + (a + n) + (r - n) = at + a + r /\ (a + n) + (r - n) = a + r
      BY <1>2
    <2> QED
      BY <1>5, <1>7, <1>8, <2>1
  <1>10. ASSUME NEW i \in 1 .. (a + n)
         PROVE  more[i] = stream[at + i]
    <2>1. CASE i <= a
      <3>1. i \in 1 .. a
        BY <2>1
      <3> QED
        BY <1>5, <1>8, <2>1, <3>1
    <2>2. CASE i > a
      <3>1. PICK j \in Nat : j = i - a
        BY <2>2
      <3>2. j \in 1 .. n /\ j \in 1 .. r /\ at + a + j = at + i /\ ~(i <= a)
        BY <1>2, <2>2, <3>1
      <3> QED
        BY <1>3, <1>5, <1>8, <3>1, <3>2
    <2> QED
      BY <2>1, <2>2
  <1>11. ASSUME NEW i \in 1 .. (r - n)
         PROVE  less[i] = stream[at + (a + n) + i]
    <2>1. n + i \in 1 .. r /\ at + a + (n + i) = at + (a + n) + i
      BY <1>2
    <2>2. rest[n + i] = stream[at + a + (n + i)]
      BY <1>8, <2>1
    <2> QED
      BY <1>7, <2>1, <2>2
  <1>12. Window(at, more, less)
    BY <1>5, <1>7, <1>9, <1>10, <1>11 DEF Window
  <1> QED
    BY <1>1, <1>3, <1>4, <1>6, <1>9, <1>12

\* Using the first segments of the read-ahead moves the window on.
LEMMA WindowSkip ==
    ASSUME NEW at \in Nat, NEW ahead \in Seq(SegmentSet), NEW rest \in Seq(SegmentSet),
           Window(at, ahead, rest), NEW n \in 1 .. Len(ahead), Len(stream) \in Nat
    PROVE  LET less == SubSeq(ahead, n + 1, Len(ahead))
           IN  Window(at + n, less, rest) /\ n + Len(less) = Len(ahead)
  <1>1. PICK a \in Nat, r \in Nat : a = Len(ahead) /\ r = Len(rest)
    BY LenProperties
  <1>2. n \in 1 .. a /\ n \in Nat
    BY <1>1
  <1>3. PICK less : less = SubSeq(ahead, n + 1, Len(ahead))
    OBVIOUS
  <1>4. Len(less) = a - n /\ \A i \in 1 .. (a - n) : less[i] = ahead[n + i]
    BY <1>1, <1>2, <1>3, SubSeqProperties
  <1>5. /\ at + a + r <= Len(stream)
        /\ \A i \in 1 .. a : ahead[i] = stream[at + i]
        /\ \A i \in 1 .. r : rest[i] = stream[at + a + i]
    BY <1>1 DEF Window
  <1>6. at + n + (a - n) = at + a /\ n + (a - n) = a
    BY <1>2
  <1>7. ASSUME NEW i \in 1 .. (a - n)
        PROVE  less[i] = stream[at + n + i]
    <2>1. n + i \in 1 .. a /\ at + (n + i) = at + n + i
      BY <1>2
    <2>2. ahead[n + i] = stream[at + (n + i)]
      BY <1>5, <2>1
    <2> QED
      BY <1>4, <2>1, <2>2
  <1>8. Window(at + n, less, rest)
    BY <1>1, <1>4, <1>5, <1>6, <1>7 DEF Window
  <1> QED
    BY <1>1, <1>3, <1>4, <1>6, <1>8

\* With no read-ahead, so does taking the first segment off the wire.
LEMMA WindowTake ==
    ASSUME NEW at \in Nat, NEW rest \in Seq(SegmentSet), rest # <<>>,
           Window(at, <<>>, rest), Len(stream) \in Nat
    PROVE  Window(at + 1, <<>>, Tail(rest)) /\ Len(Tail(rest)) + 1 = Len(rest)
  <1>1. PICK r \in Nat : r = Len(rest)
    BY LenProperties
  <1>2. r > 0 /\ Len(<<>>) = 0
    BY <1>1, EmptySeq
  <1>3. Len(Tail(rest)) = r - 1 /\ \A i \in 1 .. (r - 1) : Tail(rest)[i] = rest[i + 1]
    BY <1>1, HeadTailProperties
  <1>4. at + 0 + r <= Len(stream) /\ \A i \in 1 .. r : rest[i] = stream[at + 0 + i]
    BY <1>1, <1>2 DEF Window
  <1>5. ASSUME NEW i \in 1 .. (r - 1)
        PROVE  Tail(rest)[i] = stream[at + 1 + 0 + i]
    <2>1. i + 1 \in 1 .. r /\ at + 0 + (i + 1) = at + 1 + 0 + i
      BY <1>2
    <2>2. rest[i + 1] = stream[at + 0 + (i + 1)]
      BY <1>4, <2>1
    <2> QED
      BY <1>3, <2>1, <2>2
  <1>6. at + 1 + 0 + (r - 1) <= Len(stream) /\ (r - 1) + 1 = r
    BY <1>4
  <1>7. Window(at + 1, <<>>, Tail(rest))
    BY <1>2, <1>3, <1>5, <1>6 DEF Window
  <1> QED
    BY <1>1, <1>3, <1>6, <1>7

\* ReadMore moves the window's border, not the window.
LEMMA ReadMorePosition ==
    ASSUME TypeOK, Position, ReadMore
    PROVE  Position'
  <1>1. PICK n \in 1 .. Len(wire) :
          /\ buffer' = buffer \o SubSeq(wire, 1, n)
          /\ wire' = SubSeq(wire, n + 1, Len(wire))
    BY DEF ReadMore
  <1>2. /\ pc = "head" /\ pc' = pc
        /\ UNCHANGED <<sent, stream, client, current, left, forwarded>>
    BY DEF ReadMore
  <1>3. Taken = Len(forwarded) /\ Taken' = Len(forwarded) /\ Taken \in Nat
    BY <1>2, Lengths DEF Taken, HeadHeld
  <1>4. Window(Taken, buffer, wire)
        /\ (client # "gone" => Taken + Len(buffer) + Len(wire) = Len(stream))
    BY <1>2 DEF Position, ReadAhead
  <1>5. /\ Window(Taken, buffer', wire')
        /\ Len(buffer') + Len(wire') = Len(buffer) + Len(wire)
    <2>1. /\ buffer \in Seq(SegmentSet) /\ wire \in Seq(SegmentSet)
          /\ Len(stream) \in Nat
      BY Unchanging, Lengths
    <2> DEFINE more == buffer \o SubSeq(wire, 1, n)
               less == SubSeq(wire, n + 1, Len(wire))
    <2>2. /\ Window(Taken, more, less)
          /\ Len(more) + Len(less) = Len(buffer) + Len(wire)
      BY <1>3, <1>4, <2>1, WindowRead
    <2>3. buffer' = more /\ wire' = less
      BY <1>1
    <2> HIDE DEF more, less
    <2> QED
      BY <2>2, <2>3
  <1>6. Len(buffer') \in Nat /\ Len(wire') \in Nat
    BY <1>1, Unchanging, Lengths, PartTyped, ConcatProperties, LenProperties
  <1>7. ReadAhead'
    <2>1. client # "gone" => Taken + Len(buffer') + Len(wire') = Len(stream)
      <3>1. PICK b \in Nat, w \in Nat, c \in Nat, v \in Nat, at \in Nat :
              /\ b = Len(buffer') /\ w = Len(wire') /\ c = Len(buffer)
              /\ v = Len(wire)
              /\ at = Taken
        BY <1>3, <1>6, Lengths
      <3>2. at + b + w = at + c + v
        BY <1>5, <3>1
      <3> QED
        BY <1>4, <3>1, <3>2
    <2>2. Window(Taken, buffer, wire)'
      BY <1>2, <1>3, <1>5 DEF Window
    <2> QED
      BY <1>2, <1>3, <2>1, <2>2 DEF ReadAhead
  <1>8. ForwardedInPlace' /\ HeadInPlace' /\ BodyUsed'
    BY <1>2 DEF Position, ForwardedInPlace, HeadInPlace, HeadHeld, BodyUsed
  <1>9. Reached'
    BY <1>2, <1>3 DEF Position, Reached, Size, Kind
  <1> QED
    BY <1>7, <1>8, <1>9 DEF Position

\* AcceptHead moves the window on by the head.
LEMMA AcceptHeadPosition ==
    ASSUME TypeOK, Ordered, Position, tls' = tls, AcceptHead
    PROVE  Position'
  <1>1. /\ Moves /\ pc = "head" /\ pc' = "route" /\ buffer # <<>>
        /\ current' = current + 1 /\ current + 1 \in 1 .. Len(sent)
        /\ sent[current + 1].head \in 1 .. Len(buffer)
        /\ buffer' = SubSeq(buffer, sent[current + 1].head + 1, Len(buffer))
        /\ left' = sent[current + 1].body
        /\ UNCHANGED <<wire, upstream, forwarded>>
    BY AcceptHeadStep
  <1>2. UNCHANGED <<sent, stream, client>>
    BY <1>1 DEF Moves
  <1>3. PICK head \in Nat, body \in Nat, done \in Nat :
          /\ head = sent[current + 1].head /\ body = sent[current + 1].body
          /\ done = Len(forwarded)
    BY <1>1, KindsTyped, Lengths
  <1>4. /\ Taken = done /\ Taken' = done + head /\ head \in 1 .. Len(buffer)
        /\ Kind' = sent[current + 1]
    BY <1>1, <1>2, <1>3 DEF Taken, HeadHeld, Kind
  <1>5. /\ Window(done, buffer, wire)
        /\ client # "gone" => done + Len(buffer) + Len(wire) = Len(stream)
    BY <1>1, <1>4 DEF Position, ReadAhead
  <1>6. Window(done + head, buffer', wire) /\ head + Len(buffer') = Len(buffer)
    BY <1>1, <1>3, <1>4, <1>5, WindowSkip, Unchanging, Lengths
  <1>7. Size(current + 1) = head + body
    BY <1>1, <1>3, KindsTyped
  <1>8. \A i \in 1 .. head : done + i <= Len(stream) /\ stream[done + i] = Segment(current + 1, i)
    <2>1. \A i \in 1 .. Size(current + 1) :
             Len(forwarded) + i <= Len(stream) =>
                 stream[Len(forwarded) + i] = Segment(current + 1, i)
      BY <1>1, HeadIsNext
    <2>2. done + Len(buffer) + Len(wire) <= Len(stream)
      BY <1>5 DEF Window
    <2>3. \A i \in 1 .. head : i \in 1 .. Size(current + 1) /\ done + i <= Len(stream)
      BY <1>4, <1>7, <2>2, Lengths
    <2> QED
      BY <1>3, <2>1, <2>3
  <1>9. ForwardedInPlace' /\ HeadInPlace' /\ BodyUsed'
    <2>1. current' > 0
      BY <1>1, Lengths
    <2> QED
      BY <1>1, <1>2, <1>3, <1>4, <1>8, <2>1
          DEF Position, ForwardedInPlace, HeadInPlace, BodyUsed
  <1>10. Reached'
    <2>1. head \in 1 .. head
      BY <1>4
    <2>2. /\ stream[done + head] = Segment(current + 1, head)
          /\ done + head \in 1 .. Len(stream)
      BY <1>8, <2>1, Lengths
    <2>3. Size(current)' = head + body /\ (head + body) - left' = head
      BY <1>1, <1>2, <1>3, <1>7 DEF Size
    <2>4. left' <= Kind'.body /\ current' # 0
      <3>1. Kind'.body = body /\ left' = body
        BY <1>1, <1>3, <1>4
      <3>2. current' # 0
        BY <1>1, Lengths
      <3> QED
        BY <3>1, <3>2
    <2> QED
      BY <1>1, <1>2, <1>4, <2>2, <2>3, <2>4 DEF Reached
  <1>11. ReadAhead'
    <2>1. Len(buffer') \in Nat
      <3>1. head + 1 \in Nat \ {0} /\ Len(buffer) \in 0 .. Len(buffer)
        BY Lengths
      <3>2. buffer' \in Seq(SegmentSet)
        BY <1>1, <1>3, <3>1, PartTyped, Unchanging
      <3> QED
        BY <3>2, LenProperties
    <2>2. client # "gone" => done + head + Len(buffer') + Len(wire) = Len(stream)
      <3>1. PICK b \in Nat, w \in Nat, n \in Nat :
              b = Len(buffer') /\ w = Len(wire) /\ n = Len(buffer)
        BY <2>1, Lengths
      <3>2. done + head + b + w = done + n + w
        BY <1>6, <3>1
      <3> QED
        BY <1>5, <3>1, <3>2
    <2>3. Window(Taken, buffer, wire)'
      BY <1>1, <1>2, <1>4, <1>6 DEF Window
    <2> QED
      BY <1>1, <1>2, <1>4, <2>2, <2>3 DEF ReadAhead
  <1> QED
    BY <1>9, <1>10, <1>11 DEF Position

\* SendHead forwards the head that was taken last.
LEMMA SendHeadPosition ==
    ASSUME TypeOK, Position, Upstreams, tls' = tls, SendHead
    PROVE  Position'
  <1>1. /\ Moves /\ pc = "send" /\ pc' \in {"await", "body"}
        /\ UNCHANGED <<wire, buffer, current, left>>
        /\ current \in 1 .. Len(sent)
        /\ Len(forwarded') = Len(forwarded) + Kind.head
        /\ \A i \in 1 .. Len(forwarded) : forwarded'[i] = forwarded[i]
        /\ \A i \in 1 .. Kind.head :
              /\ forwarded'[Len(forwarded) + i].req = current
              /\ forwarded'[Len(forwarded) + i].part = i
    BY SendHeadStep DEF reading
  <1>2. UNCHANGED <<sent, stream, client>>
    BY <1>1 DEF Moves
  <1>3. PICK head \in Nat, done \in Nat : head = Kind.head /\ done = Len(forwarded)
    BY <1>1, KindsTyped, Lengths DEF Kind
  <1>4. Taken = done + head /\ Taken' = Taken
    BY <1>1, <1>3 DEF Taken, HeadHeld
  <1>5. Taken <= Len(stream)
    BY <1>1, <1>4, Lengths DEF Position, Reached
  <1>6. ForwardedInPlace'
    <2>1. ASSUME NEW i \in 1 .. (done + head)
          PROVE  /\ i <= Len(stream)
                 /\ Segment(forwarded'[i].req, forwarded'[i].part) = stream[i]
      <3>1. CASE i <= done
        <4>1. i \in 1 .. Len(forwarded)
          BY <1>3, <3>1
        <4>2. /\ i <= Len(stream)
              /\ Segment(forwarded[i].req, forwarded[i].part) = stream[i]
          BY <4>1 DEF Position, ForwardedInPlace
        <4> QED
          BY <1>1, <4>1, <4>2
      <3>2. CASE i > done
        <4>1. PICK j \in 1 .. head : i = done + j
          <5>1. i - done \in 1 .. head /\ i = done + (i - done)
            BY <3>2
          <5> QED
            BY <5>1
        <4>2. stream[done + j] = Segment(current, j)
          BY <1>1, <1>3 DEF Position, HeadInPlace, HeadHeld
        <4>3. /\ forwarded'[done + j].req = current
              /\ forwarded'[done + j].part = j
          BY <1>1, <1>3
        <4>4. i <= Len(stream)
          BY <1>4, <1>5, Lengths
        <4> QED
          BY <4>1, <4>2, <4>3, <4>4
      <3> QED
        BY <3>1, <3>2
    <2> QED
      BY <1>1, <1>2, <1>3, <2>1 DEF ForwardedInPlace
  <1>7. HeadInPlace' /\ BodyUsed'
    BY <1>1, Lengths DEF HeadInPlace, HeadHeld, BodyUsed, Position
  <1>8. Reached'
    BY <1>1, <1>2, <1>4 DEF Position, Reached, Size, Kind
  <1>9. ReadAhead'
    BY <1>1, <1>2, <1>4 DEF Position, ReadAhead, Window
  <1> QED
    BY <1>6, <1>7, <1>8, <1>9 DEF Position

\* StreamBody forwards the first segments of the window, and moves it on.
LEMMA StreamBodyPosition ==
    ASSUME TypeOK, Ordered, Position, Upstreams, tls' = tls, StreamBody
    PROVE  Position'
  <1>1. /\ Moves /\ pc = "body" /\ pc' = "body" /\ current' = current
        /\ left > 0 /\ left' = left - 1 /\ buffer \o wire # <<>>
        /\ IF buffer # <<>> THEN buffer' = Tail(buffer) /\ wire' = wire
                            ELSE wire' = Tail(wire) /\ buffer' = buffer
        /\ Len(forwarded') = Len(forwarded) + 1
        /\ \A i \in 1 .. Len(forwarded) : forwarded'[i] = forwarded[i]
        /\ forwarded'[Len(forwarded) + 1].req = NextSegment.req
        /\ forwarded'[Len(forwarded) + 1].part = NextSegment.part
    BY StreamBodyStep
  <1>2. UNCHANGED <<sent, stream, client>>
    BY <1>1 DEF Moves
  <1>3. /\ NextSegment = Segment(current, Size(current) - left + 1)
        /\ NextSegment = stream[Len(forwarded) + 1]
        /\ Len(forwarded) + 1 <= Len(stream)
        /\ left <= Kind.body /\ current \in 1 .. Len(sent)
    BY <1>1, BodyIsNext
  <1>4. PICK done \in Nat : done = Len(forwarded)
    BY Lengths
  <1>5. Taken = done /\ Taken' = done + 1
    BY <1>1, <1>4 DEF Taken, HeadHeld
  <1>6. ForwardedInPlace'
    <2>1. Segment(NextSegment.req, NextSegment.part) = NextSegment
      BY <1>3 DEF Segment
    <2>2. ASSUME NEW i \in 1 .. (done + 1)
          PROVE  /\ i <= Len(stream)
                 /\ Segment(forwarded'[i].req, forwarded'[i].part) = stream[i]
      <3>1. CASE i = done + 1
        BY <1>1, <1>3, <1>4, <2>1, <3>1
      <3>2. CASE i \in 1 .. done
        <4>1. /\ i <= Len(stream)
              /\ Segment(forwarded[i].req, forwarded[i].part) = stream[i]
          BY <1>4, <3>2 DEF Position, ForwardedInPlace
        <4> QED
          BY <1>1, <1>4, <3>2, <4>1
      <3> QED
        BY <3>1, <3>2
    <2> QED
      BY <1>1, <1>2, <1>4, <2>2 DEF ForwardedInPlace
  <1>7. HeadInPlace' /\ BodyUsed'
    BY <1>1 DEF HeadInPlace, HeadHeld, BodyUsed, Position
  <1>8. Reached'
    <2>1. /\ Size(current) \in Nat /\ Kind.body \in Nat /\ Kind' = Kind
          /\ Size(current)' = Size(current)
      BY <1>1, <1>2, <1>3, KindsTyped DEF Kind, Size
    <2>2. /\ Size(current) - (left - 1) = Size(current) - left + 1
          /\ left - 1 <= Kind.body
      <3>1. PICK size \in Nat, body \in Nat, rest \in Nat :
              size = Size(current) /\ body = Kind.body /\ rest = left
        BY <2>1, Lengths
      <3>2. size - (rest - 1) = size - rest + 1 /\ rest - 1 <= body
        BY <1>3, <3>1
      <3> QED
        BY <3>1, <3>2
    <2>3. done + 1 \in 1 .. Len(stream)
      BY <1>3, <1>4, Lengths
    <2> QED
      <3>1. current' = current /\ current # 0 /\ left' = left - 1
        BY <1>1, <1>3
      <3>2. stream'[Taken'] = Segment(current, Size(current) - left')
        BY <1>2, <1>3, <1>4, <1>5, <2>2, <3>1
      <3>3. Taken' \in 1 .. Len(stream') /\ left' <= Kind'.body
        BY <1>2, <1>5, <2>1, <2>2, <2>3, <3>1
      <3> QED
        BY <2>1, <3>1, <3>2, <3>3 DEF Reached
  <1>9. Window(done, buffer, wire)
        /\ (client # "gone" => done + Len(buffer) + Len(wire) = Len(stream))
    BY <1>1, <1>5 DEF Position, ReadAhead
  <1>10. /\ Window(done + 1, buffer', wire')
         /\ client # "gone" => done + 1 + Len(buffer') + Len(wire') = Len(stream)
    <2>1. PICK b \in Nat, w \in Nat : b = Len(buffer) /\ w = Len(wire)
      BY Lengths
    <2>2. CASE buffer # <<>>
      <3>1. 1 \in 1 .. Len(buffer)
        BY <2>1, <2>2, EmptySeq, Unchanging
      <3>2. PICK one \in 1 .. Len(buffer) : one = 1
        BY <3>1
      <3>3. /\ Window(done + 1, Tail(buffer), wire)
            /\ 1 + Len(Tail(buffer)) = Len(buffer)
        <4>1. one + 1 = 2 /\ Tail(buffer) = SubSeq(buffer, 2, Len(buffer))
          BY <2>2, <3>2, TailIsSubSeq, Unchanging
        <4>2. /\ Window(done + one, SubSeq(buffer, one + 1, Len(buffer)), wire)
              /\ one + Len(SubSeq(buffer, one + 1, Len(buffer))) = Len(buffer)
          BY <1>9, WindowSkip, Unchanging, Lengths
        <4> QED
          BY <3>2, <4>1, <4>2
      <3>4. Len(Tail(buffer)) = b - 1 /\ done + 1 + (b - 1) + w = done + b + w
        BY <2>1, <2>2, <3>1, HeadTailProperties, Unchanging
      <3> QED
        BY <1>1, <1>9, <2>1, <2>2, <3>3, <3>4
    <2>3. CASE buffer = <<>>
      <3>1. wire # <<>>
        BY <1>1, <2>3, ConcatEmptySeq, Unchanging
      <3>2. /\ Window(done + 1, <<>>, Tail(wire))
            /\ Len(Tail(wire)) + 1 = Len(wire)
        BY <1>9, <2>3, <3>1, WindowTake, Unchanging, Lengths
      <3>3. Len(Tail(wire)) = w - 1 /\ done + 1 + b + (w - 1) = done + b + w
        BY <2>1, <3>1, HeadTailProperties, Unchanging
      <3> QED
        BY <1>1, <1>9, <2>1, <2>3, <3>2, <3>3
    <2> QED
      BY <2>2, <2>3
  <1>11. ReadAhead'
    <2>1. Window(Taken, buffer, wire)'
      BY <1>2, <1>5, <1>10 DEF Window
    <2> QED
      BY <1>2, <1>5, <1>10, <2>1 DEF ReadAhead
  <1> QED
    BY <1>6, <1>7, <1>8, <1>11 DEF Position

\* The client's segment is new at the end of both the stream and the wire.
LEMMA ClientSendsPosition ==
    ASSUME TypeOK, Position, tls' = tls, ClientSends
    PROVE  Position'
  <1>1. PICK new \in SegmentSet' :
          /\ stream' = Append(stream, new) /\ wire' = Append(wire, new)
          /\ Len(sent) <= Len(sent') /\ Len(sent') \in Nat
          /\ \A r \in 1 .. Len(sent) : sent'[r] = sent[r]
    BY ClientWrites
  <1>2. /\ client = "open"
        /\ UNCHANGED <<client, pc, buffer, current, left, early, forwarded>>
    BY DEF ClientSends, reading, response
  <1>3. PICK n \in Nat, w \in Nat, b \in Nat :
          n = Len(stream) /\ w = Len(wire) /\ b = Len(buffer)
    BY Lengths
  <1>4. /\ Len(stream') = n + 1 /\ stream'[n + 1] = new
        /\ \A i \in 1 .. n : stream'[i] = stream[i]
        /\ Len(wire') = w + 1 /\ wire'[w + 1] = new
        /\ \A i \in 1 .. w : wire'[i] = wire[i]
    <2>1. stream \in Seq(SegmentSet') /\ wire \in Seq(SegmentSet')
      BY <1>1, TypesGrow, SeqMonotonic DEF TypeOK
    <2> QED
      BY <1>1, <1>3, <2>1, AppendProperties
  <1>5. current > 0 => Kind' = Kind /\ Size(current)' = Size(current) /\ Kind.head \in Nat
    BY <1>1, <1>2, KindsTyped, Lengths DEF Kind, Size
  <1>6. HeadHeld => current > 0
    BY DEF Position, BodyUsed, HeadHeld
  <1>7. Taken' = Taken /\ Taken \in Nat
    BY <1>2, <1>5, <1>6, Lengths DEF Taken, HeadHeld
  <1>8. ForwardedInPlace'
    <2>1. ASSUME NEW i \in 1 .. Len(forwarded)
          PROVE  /\ i <= n + 1
                 /\ Segment(forwarded[i].req, forwarded[i].part) = stream'[i]
      <3>1. /\ i <= n
            /\ Segment(forwarded[i].req, forwarded[i].part) = stream[i]
            /\ i \in Nat
        BY <1>3, Lengths DEF Position, ForwardedInPlace
      <3>2. i \in 1 .. n /\ i <= n + 1
        BY <3>1, Lengths
      <3> QED
        BY <1>4, <3>1, <3>2
    <2> QED
      BY <1>2, <1>4, <2>1 DEF ForwardedInPlace
  <1>9. pc # "closed"
    BY DEF ClientSends, Serving
  <1>10. Taken <= n
    <2>1. Taken + Len(buffer) + Len(wire) <= Len(stream)
      BY <1>9 DEF Position, ReadAhead, Window
    <2> QED
      BY <1>3, <1>7, <2>1
  <1>11. HeadInPlace'
    <2>1. SUFFICES ASSUME HeadHeld, NEW i \in 1 .. Kind.head
                   PROVE  stream'[Len(forwarded) + i] = Segment(current, i)
      BY <1>2, <1>5, <1>6 DEF HeadInPlace, HeadHeld
    <2>2. PICK done \in Nat, head \in Nat : done = Len(forwarded) /\ head = Kind.head
      BY <1>5, <1>6, <2>1, Lengths
    <2>3. Taken = done + head
      BY <2>1, <2>2 DEF Taken
    <2>4. done + i \in 1 .. n
      BY <1>10, <2>1, <2>2, <2>3
    <2>5. stream[done + i] = Segment(current, i)
      BY <2>1, <2>2 DEF Position, HeadInPlace
    <2> QED
      BY <1>4, <2>2, <2>4, <2>5
  <1>12. BodyUsed'
    BY <1>2 DEF Position, BodyUsed
  <1>13. Reached'
    <2>1. CASE current = 0
      BY <1>2, <1>7, <1>9, <2>1 DEF Position, Reached
    <2>2. CASE current > 0
      <3>1. /\ Taken \in 1 .. n
            /\ stream[Taken] = Segment(current, Size(current) - left)
            /\ left <= Kind.body
        BY <1>3, <1>9, <2>2 DEF Position, Reached
      <3>2. /\ Taken \in 1 .. (n + 1)
            /\ stream'[Taken] = Segment(current, Size(current) - left)
        BY <1>4, <3>1
      <3> QED
        BY <1>2, <1>4, <1>5, <1>7, <2>2, <3>1, <3>2 DEF Reached
    <2> QED
      BY <2>1, <2>2, Lengths
  <1>14. ReadAhead'
    <2>1. /\ Taken + b + w = n
          /\ \A i \in 1 .. b : buffer[i] = stream[Taken + i]
          /\ \A i \in 1 .. w : wire[i] = stream[Taken + b + i]
      BY <1>2, <1>3, <1>9 DEF Position, ReadAhead, Window
    <2>2. Taken + b + (w + 1) = n + 1
      BY <1>7, <2>1
    <2>3. ASSUME NEW i \in 1 .. b PROVE buffer[i] = stream'[Taken + i]
      <3>1. Taken + i \in 1 .. n
        BY <1>7, <2>1
      <3> QED
        BY <1>4, <2>1, <3>1
    <2>4. ASSUME NEW i \in 1 .. (w + 1) PROVE wire'[i] = stream'[Taken + b + i]
      <3>1. CASE i \in 1 .. w
        <4>1. Taken + b + i \in 1 .. n
          BY <1>7, <2>1, <3>1
        <4> QED
          BY <1>4, <2>1, <3>1, <4>1
      <3>2. CASE i = w + 1
        BY <1>4, <2>2, <3>2
      <3> QED
        BY <3>1, <3>2
    <2>5. Window(Taken, buffer, wire)'
      BY <1>2, <1>3, <1>4, <1>7, <2>2, <2>3, <2>4 DEF Window
    <2> QED
      BY <1>2, <1>3, <1>4, <1>7, <2>2, <2>5 DEF ReadAhead
  <1> QED
    BY <1>8, <1>11, <1>12, <1>13, <1>14 DEF Position

\* Every step keeps the worker's place in the client's stream.
LEMMA PositionStep ==
    ASSUME TypeOK, Ordered, Position, Upstreams, Answers, AnswersOwnRequest, Next
    PROVE  Position'
  <1>1. CASE Worker /\ pc' = "closed"
    <2>1. UNCHANGED <<stream, forwarded>>
      BY <1>1, LeavingSteps
         DEF LeavesQuietly, LeavesAnswering, LeavesFinishing, Leaves
    <2> QED
      BY <1>1, <2>1, LeavingPosition
  <1>2. CASE Worker /\ pc' # "closed"
    <2>1. Staying /\ tls' = tls
      BY <1>2, WorkerStays DEF Worker
    <2>2. CASE ReadMore \/ AcceptHead \/ SendHead \/ StreamBody
      BY <2>1, <2>2, ReadMorePosition, AcceptHeadPosition, SendHeadPosition,
          StreamBodyPosition
    <2>3. CASE SelectRoute \/ ConnectUpstream \/ BodyDone
      <3>1. /\ Moves /\ UNCHANGED <<wire, buffer, current, left, forwarded>>
            /\ \/ pc = "route" /\ pc' = "connect"
               \/ pc = "connect" /\ pc' = "send"
               \/ pc = "body" /\ pc' = "response" /\ left = 0
        BY <1>2, <2>1, <2>3, SelectRouteStep, ConnectStep, BodyDoneStep
           DEF reading
      <3>2. UNCHANGED <<sent, stream, client, early>>
        BY <3>1 DEF Moves, response
      <3>3. BodyUsed' /\ (HeadHeld' <=> HeadHeld) /\ pc # "closed"
        BY <3>1, <3>2 DEF Position, BodyUsed, HeadHeld
      <3> QED
        BY <3>1, <3>2, <3>3, PositionFrame
    <2>4. CASE ForwardInterim \/ SwitchProtocols \/ BeginResponse \/ FinishResponse
      <3>1. CASE ForwardInterim
        <4>1. /\ Relays(Reply.what, pc') /\ AwaitingHead /\ UNCHANGED response
              /\ pc' = pc \/ (pc' = "body" /\ pc = "await")
          BY <1>2, <2>1, <3>1, InterimStep
        <4>2. UNCHANGED <<sent, stream, wire, client, buffer, current, left, forwarded, early>>
          BY <4>1 DEF Relays, fromClient, reading, response
        <4>3. BodyUsed' /\ (HeadHeld' <=> HeadHeld) /\ pc # "closed"
          BY <4>1, <4>2 DEF Position, BodyUsed, HeadHeld, AwaitingHead
        <4> QED
          BY <4>2, <4>3, PositionFrame
      <3>2. CASE SwitchProtocols
        <4>1. Relays("switch", "tunnel") /\ AwaitingHead
          BY <1>2, <2>1, <3>2, SwitchStep
        <4>2. /\ UNCHANGED <<sent, stream, wire, client, buffer, current, left, forwarded>>
              /\ pc' = "tunnel"
          BY <4>1 DEF Relays, fromClient, reading
        <4>3. BodyUsed' /\ (HeadHeld' <=> HeadHeld) /\ pc # "closed"
          BY <4>1, <4>2 DEF Position, BodyUsed, HeadHeld, AwaitingHead
        <4> QED
          BY <4>2, <4>3, PositionFrame
      <3>3. CASE BeginResponse
        <4>1. /\ Relays("begin", "relay") /\ AwaitingHead
              /\ early' = (pc = "await")
          BY <1>2, <2>1, <3>3, BeginStep
        <4>2. /\ UNCHANGED <<sent, stream, wire, client, buffer, current, left, forwarded>>
              /\ pc' = "relay"
          BY <4>1 DEF Relays, fromClient, reading
        <4>3. BodyUsed' /\ (HeadHeld' <=> HeadHeld) /\ pc # "closed"
          BY <4>1, <4>2 DEF Position, BodyUsed, HeadHeld, AwaitingHead
        <4> QED
          BY <4>2, <4>3, PositionFrame
      <3>4. CASE FinishResponse
        <4>1. Relays("end", "head") /\ pc = "relay" /\ KeepAlive
          BY <1>2, <2>1, <3>4, KeepStep
        <4>2. /\ UNCHANGED <<sent, stream, wire, client, buffer, current, left, forwarded>>
              /\ pc' = "head"
          BY <4>1 DEF Relays, fromClient, reading
        <4>3. left = 0
          BY <4>1 DEF KeepAlive, ClientReusable, Position, BodyUsed
        <4>4. BodyUsed' /\ (HeadHeld' <=> HeadHeld) /\ pc # "closed"
          BY <4>1, <4>2, <4>3 DEF BodyUsed, HeadHeld
        <4> QED
          BY <4>2, <4>4, PositionFrame
      <3> QED
        BY <2>4, <3>1, <3>2, <3>3, <3>4
    <2> QED
      BY <2>1, <2>2, <2>3, <2>4 DEF Staying
  <1>3. CASE ClientSends /\ tls' = tls
    BY <1>3, ClientSendsPosition
  <1>4. CASE ClientResets
    <2>1. /\ UNCHANGED <<sent, stream, buffer, current, left, early, forwarded, pc>>
          /\ client' = "gone" /\ wire' = <<>> /\ pc # "closed"
      BY <1>4 DEF ClientResets, Serving, reading, response
    <2>2. Taken' = Taken /\ Taken \in Nat
      <3>1. HeadHeld => Kind.head \in Nat
        BY KindsTyped, Lengths DEF HeadHeld, Position, BodyUsed, Kind
      <3> QED
        BY <2>1, <3>1, Lengths DEF Taken, HeadHeld, Kind
    <2>3. ForwardedInPlace' /\ HeadInPlace' /\ BodyUsed'
      BY <2>1 DEF Position, ForwardedInPlace, HeadInPlace, HeadHeld, BodyUsed,
         Kind
    <2>4. Reached'
      BY <2>1, <2>2 DEF Position, Reached, Size, Kind
    <2>5. ReadAhead'
      <3>1. PICK at \in Nat, b \in Nat, w \in Nat, n \in Nat :
              at = Taken /\ b = Len(buffer) /\ w = Len(wire) /\ n = Len(stream)
        BY <2>2, Lengths
      <3>2. at + b + w <= n /\ \A i \in 1 .. b : buffer[i] = stream[at + i]
        BY <2>1, <3>1 DEF Position, ReadAhead, Window
      <3>3. at + b + 0 <= n
        BY <3>2
      <3>4. Len(wire') = 0 /\ \A i \in 1 .. 0 : wire'[i] = stream[at + b + i]
        BY <2>1, EmptySeq
      <3>5. Window(Taken, buffer, wire)'
        BY <2>1, <2>2, <3>1, <3>2, <3>3, <3>4 DEF Window
      <3> QED
        BY <2>1, <3>5 DEF ReadAhead
    <2> QED
      BY <2>3, <2>4, <2>5 DEF Position
  <1>5. CASE ClientCloses \/ ClientStalls
    <2>1. /\ UNCHANGED <<sent, stream, wire, buffer, current, left, early, forwarded, pc>>
          /\ client' = client \/ client # "gone"
      BY <1>5 DEF ClientCloses, ClientStalls, reading, response
    <2>2. Taken' = Taken
      BY <2>1 DEF Taken, HeadHeld, Kind
    <2>3. ForwardedInPlace' /\ HeadInPlace' /\ BodyUsed'
      BY <2>1 DEF Position, ForwardedInPlace, HeadInPlace, HeadHeld, BodyUsed,
         Kind
    <2>4. Reached' /\ ReadAhead'
      BY <2>1, <2>2 DEF Position, Reached, ReadAhead, Window, Size, Kind
    <2> QED
      BY <2>3, <2>4 DEF Position
  <1>6. CASE Upstream
    <2>1. UNCHANGED <<sent, stream, wire, client, buffer, current, left, early, forwarded, pc>>
      BY <1>6 DEF Upstream, UpstreamReplies, UpstreamCloses, fromClient,
         reading, response
    <2>2. BodyUsed' /\ (HeadHeld' <=> HeadHeld)
      BY <2>1 DEF Position, BodyUsed, HeadHeld
    <2> QED
      BY <2>1, <2>2, PositionFrame
  <1> QED
    BY <1>1, <1>2, <1>3, <1>4, <1>5, <1>6 DEF Next, Client

-----------------------------------------------------------------------------
(* The upstream connection carries the current request's answer only.      *)

\* A closed connection holds no upstream.
LEMMA LeavingUpstreams ==
    ASSUME pc' = "closed", upstream' = NoUpstream
    PROVE  Upstreams'
  BY DEF Upstreams, Held, HeadHeld, InExchange

\* A step that leaves the upstream alone and keeps the request.
LEMMA UpstreamsFrame ==
    ASSUME Upstreams, UNCHANGED <<upstream, relaying>>, Kind' = Kind,
           UpstreamConnections \subseteq UpstreamConnections',
           \/ pc' = pc
           \/ pc = "route" /\ pc' = "connect" /\ Kind.route # NoRoute
           \/ pc = "body" /\ pc' = "response",
           current' = current
    PROVE  Upstreams'
  <1>1. /\ Held' => Held
        /\ HeadHeld' \/ pc' = "head" => HeadHeld \/ pc = "head"
        /\ pc' = "send" \/ InExchange' => pc = "send" \/ InExchange
        /\ InExchange' => InExchange
        /\ pc' = "relay" => pc = "relay"
    BY DEF Held, HeadHeld, InExchange
  <1>2. Replying' <=> Replying
    BY DEF Replying
  <1>3. Finishing' <=> Finishing
    BY DEF Finishing
  <1> QED
    BY <1>1, <1>2, <1>3 DEF Upstreams

\* What is behind the first reply is still in order.
LEMMA TailReplying ==
    ASSUME TypeOK, Position, Upstreams, InExchange, upstream.inbox # <<>>, Tailed
    PROVE  /\ Replying' /\ upstream'.stage = upstream.stage
           /\ upstream'.serving = upstream.serving
           /\ upstream'.addr = upstream.addr
           /\ upstream'.inbox = Tail(upstream.inbox)
           /\ upstream' \in UpstreamConnections
  <1>1. upstream \in UpstreamConnections /\ Replying
    BY DEF Upstreams, Held
  <1>2. /\ upstream'.stage = upstream.stage
        /\ upstream'.serving = upstream.serving
        /\ upstream'.addr = upstream.addr
        /\ upstream'.inbox = Tail(upstream.inbox)
    BY <1>1 DEF Tailed, UpstreamConnections
  <1>3. PICK inbox, rest : inbox = upstream.inbox /\ rest = Tail(upstream.inbox)
    OBVIOUS
  <1>4. PICK n \in Nat \ {0} :
          /\ n = Len(inbox) /\ Len(rest) = n - 1 /\ rest \in Seq(InboxEntries)
          /\ \A i \in 1 .. (n - 1) : rest[i] = inbox[i + 1]
    BY <1>3, ReplyIsOurs
  <1>5. /\ upstream.stage = StageAfter(inbox[n].what)
        /\ \A i \in 1 .. n :
              /\ inbox[i].req = upstream.serving
              /\ i < n => \/ inbox[i].what \in Interims
                          \/ /\ i + 1 = n /\ inbox[i].what \in {"keep", "close"}
                             /\ inbox[i + 1].what = "end"
    BY <1>1, <1>3, <1>4 DEF Replying, Last
  <1>6. rest # <<>> => upstream.stage = StageAfter(rest[n - 1].what)
    <2>1. SUFFICES ASSUME rest # <<>> PROVE upstream.stage = StageAfter(rest[n - 1].what)
      OBVIOUS
    <2>2. n - 1 \in 1 .. (n - 1) /\ (n - 1) + 1 = n
      BY <1>4, <2>1, EmptySeq
    <2> QED
      BY <1>4, <1>5, <2>2
  <1>7. ASSUME NEW i \in 1 .. (n - 1)
        PROVE  /\ rest[i].req = upstream.serving
               /\ i < n - 1 => \/ rest[i].what \in Interims
                               \/ /\ i + 1 = n - 1 /\ rest[i].what \in {"keep", "close"}
                                  /\ rest[i + 1].what = "end"
    <2>1. i + 1 \in 1 .. n /\ rest[i] = inbox[i + 1]
      BY <1>4
    <2>2. rest[i].req = upstream.serving
      BY <1>5, <2>1
    <2>3. ASSUME i < n - 1
          PROVE  \/ rest[i].what \in Interims
                 \/ /\ i + 1 = n - 1 /\ rest[i].what \in {"keep", "close"}
                    /\ rest[i + 1].what = "end"
      <3>1. i + 1 < n /\ i + 1 \in 1 .. (n - 1) /\ (i + 1 + 1 = n => i + 1 = n - 1)
        BY <2>3
      <3>2. rest[i + 1] = inbox[i + 1 + 1]
        BY <1>4, <3>1
      <3>3. \/ inbox[i + 1].what \in Interims
            \/ /\ i + 1 + 1 = n /\ inbox[i + 1].what \in {"keep", "close"}
               /\ inbox[i + 1 + 1].what = "end"
        BY <1>5, <2>1, <3>1
      <3> QED
        BY <2>1, <3>1, <3>2, <3>3
    <2> QED
      BY <2>2, <2>3
  <1>8. Replying'
    <2>1. /\ upstream'.inbox = rest /\ upstream'.serving = upstream.serving
          /\ upstream'.stage = upstream.stage
      BY <1>2, <1>3
    <2>2. PICK m \in Nat : m = n - 1 /\ m = Len(rest)
      BY <1>4
    <2>3. rest # <<>> => upstream.stage = StageAfter(rest[m].what)
      BY <1>6, <2>2
    <2>4. \A i \in 1 .. m :
            /\ rest[i].req = upstream.serving
            /\ i < m => \/ rest[i].what \in Interims
                        \/ /\ i + 1 = m /\ rest[i].what \in {"keep", "close"}
                           /\ rest[i + 1].what = "end"
      BY <1>7, <2>2
    <2> QED
      BY <2>1, <2>2, <2>3, <2>4 DEF Replying, Last
  <1>9. upstream' \in UpstreamConnections
    BY <1>1, ReplyIsOurs, ConnectionUpdates DEF Tailed
  <1> QED
    BY <1>2, <1>8, <1>9

\* What the upstream says comes behind its other replies.
LEMMA SaysUpstreams ==
    ASSUME TypeOK, Upstreams, UpstreamReplies
    PROVE  Upstreams'
  <1>1. /\ Held /\ upstream \in UpstreamConnections
        /\ upstream' \in UpstreamConnections
    BY UpstreamSays
  <1>2. PICK reply \in Replies :
          /\ upstream'.inbox =
                Append(upstream.inbox, [req |-> upstream.serving, what |-> reply])
          /\ [req |-> upstream.serving, what |-> reply] \in InboxEntries
          /\ upstream'.stage = StageAfter(reply)
          /\ upstream'.addr = upstream.addr
          /\ upstream'.serving = upstream.serving
          /\ \/ upstream.stage = "asked" /\ reply # "end"
             \/ upstream.stage \in {"keep", "close"} /\ reply = "end"
    BY UpstreamSays
  <1>3. UNCHANGED <<sent, pc, current, relaying>>
    BY DEF UpstreamReplies, fromClient, reading, response
  <1>4. /\ upstream.stage # "idle" /\ upstream.serving > 0 /\ Replying
        /\ ~HeadHeld /\ pc # "head"
    BY <1>1, <1>2 DEF Upstreams
  <1>5. PICK inbox \in Seq(InboxEntries), n \in Nat :
          inbox = upstream.inbox /\ n = Len(inbox)
    BY <1>1, ConnectionFields, LenProperties
  <1>6. PICK more : more = upstream'.inbox
    OBVIOUS
  <1>7. /\ Len(more) = n + 1 /\ more # <<>>
        /\ \A i \in 1 .. n : more[i] = inbox[i]
        /\ more[n + 1].req = upstream.serving /\ more[n + 1].what = reply
    <2>1. PICK e \in InboxEntries : e = [req |-> upstream.serving, what |-> reply]
      BY <1>2
    <2>2. more = Append(inbox, e)
      BY <1>2, <1>5, <1>6, <2>1
    <2>3. /\ Len(more) = n + 1 /\ more[n + 1] = e /\ more \in Seq(InboxEntries)
          /\ \A i \in 1 .. n : more[i] = inbox[i]
      BY <1>5, <2>2, AppendProperties
    <2> QED
      BY <1>5, <2>1, <2>3, EmptySeq
  <1>8. ASSUME NEW i \in 1 .. n
        PROVE  /\ inbox[i].req = upstream.serving
               /\ \/ inbox[i].what \in Interims
                  \/ i = n /\ inbox[i].what \in {"keep", "close"} /\ reply = "end"
    <2>1. /\ inbox[i].req = upstream.serving /\ inbox # <<>>
          /\ upstream.stage = StageAfter(inbox[n].what)
          /\ i < n => \/ inbox[i].what \in Interims
                      \/ i + 1 = n /\ inbox[i + 1].what = "end"
      BY <1>4, <1>5, EmptySeq DEF Replying, Last
    <2>2. inbox[n].what # "end"
      BY <1>2, <2>1 DEF StageAfter, Interims, Bodiless
    <2>3. CASE i < n
      BY <2>1, <2>2, <2>3
    <2>4. CASE i = n
      <3>1. inbox[n].what \in Replies
        <4>1. inbox[n] \in InboxEntries
          BY <1>5, <2>4, ElementOfSeq
        <4> QED
          BY <4>1 DEF InboxEntries
      <3>2. \/ inbox[n].what \in Interims
            \/ inbox[n].what \in {"keep", "close"} /\ reply = "end"
        BY <1>2, <2>1, <3>1
           DEF StageAfter, Replies, Framings, Interims, Bodiless
      <3> QED
        BY <2>1, <2>4, <3>2
    <2> QED
      BY <1>5, <2>1, <2>3, <2>4
  <1>9. Replying'
    <2>1. ASSUME NEW i \in 1 .. (n + 1)
          PROVE  /\ more[i].req = upstream.serving
                 /\ i < n + 1 => \/ more[i].what \in Interims
                                 \/ /\ i + 1 = n + 1 /\ more[i].what \in {"keep", "close"}
                                    /\ more[i + 1].what = "end"
      <3>1. CASE i = n + 1
        BY <1>7, <3>1
      <3>2. CASE i \in 1 .. n
        <4>1. more[i] = inbox[i]
          BY <1>7, <3>2
        <4> QED
          BY <1>7, <1>8, <3>2, <4>1
      <3> QED
        BY <3>1, <3>2
    <2> QED
      BY <1>2, <1>6, <1>7, <2>1 DEF Replying, Last
  <1>10. pc' = "relay" => Finishing'
    <2>1. SUFFICES ASSUME pc = "relay" PROVE Finishing'
      BY <1>3
    <2>2. Finishing
      BY <2>1 DEF Upstreams
    <2>3. upstream.stage \in {"keep", "close"} /\ reply = "end" /\ inbox = <<>>
      BY <1>2, <1>4, <1>5, <2>2 DEF Finishing
    <2>4. n = 0
      BY <1>5, <2>3, EmptySeq
    <2>5. upstream'.stage = "idle"
      BY <1>2, <2>3 DEF StageAfter, Interims, Bodiless
    <2>6. relaying # "empty"
      BY <1>4, <2>2 DEF Finishing
    <2> QED
      BY <1>3, <1>6, <1>7, <2>4, <2>5, <2>6 DEF Finishing
  <1>11. UpstreamConnections' = UpstreamConnections /\ Kind' = Kind
    BY <1>3 DEF UpstreamConnections, Kind
  <1> QED
    BY <1>1, <1>2, <1>3, <1>4, <1>9, <1>10, <1>11
       DEF Upstreams, HeadHeld, InExchange

\* An upstream that goes leaves the replies that were there, or none.
LEMMA GoesUpstreams ==
    ASSUME TypeOK, Upstreams, UpstreamCloses
    PROVE  Upstreams'
  <1>1. /\ Held /\ upstream' \in UpstreamConnections
        /\ upstream'.stage = upstream.stage /\ upstream'.addr = upstream.addr
        /\ upstream'.serving = upstream.serving
        /\ upstream'.inbox = upstream.inbox \/ upstream'.inbox = <<>>
    BY UpstreamGoes
  <1>2. UNCHANGED <<sent, pc, current, relaying>>
    BY DEF UpstreamCloses, fromClient, reading, response
  <1>3. UpstreamConnections' = UpstreamConnections /\ Kind' = Kind
    BY <1>2 DEF UpstreamConnections, Kind
  <1>4. Replying'
    <2>1. Replying
      BY <1>1 DEF Upstreams
    <2>2. CASE upstream'.inbox = upstream.inbox
      BY <1>1, <2>1, <2>2 DEF Replying
    <2>3. CASE upstream'.inbox = <<>>
      <3>1. Len(upstream'.inbox) = 0
        BY <2>3, EmptySeq
      <3> QED
        BY <2>3, <3>1 DEF Replying
    <2> QED
      BY <1>1, <2>2, <2>3
  <1>5. pc' = "relay" => Finishing'
    BY <1>1, <1>2 DEF Upstreams, Finishing
  <1> QED
    BY <1>1, <1>2, <1>3, <1>4, <1>5 DEF Upstreams, HeadHeld, InExchange

\* Every step keeps what is known of the upstream connection.
LEMMA UpstreamsStep ==
    ASSUME TypeOK, Ordered, Position, Upstreams, Answers, AnswersOwnRequest, Next
    PROVE  Upstreams'
  <1>1. CASE Worker /\ pc' = "closed"
    <2>1. upstream' = NoUpstream
      BY <1>1, LeavingSteps
         DEF LeavesQuietly, LeavesAnswering, LeavesFinishing, Leaves
    <2> QED
      BY <1>1, <2>1, LeavingUpstreams
  <1>2. CASE Worker /\ pc' # "closed"
    <2>1. Staying /\ tls' = tls
      BY <1>2, WorkerStays DEF Worker
    <2>2. CASE ReadMore \/ SelectRoute \/ StreamBody \/ BodyDone
      <3>1. /\ UNCHANGED <<sent, relaying, upstream, current>>
            /\ \/ pc' = pc
               \/ pc = "route" /\ pc' = "connect" /\ Kind.route # NoRoute
               \/ pc = "body" /\ pc' = "response"
        <4>1. CASE ReadMore
          BY <4>1 DEF ReadMore, response
        <4>2. CASE SelectRoute
          BY <1>2, <2>1, <4>2, SelectRouteStep DEF Moves, response, reading
        <4>3. CASE StreamBody
          BY <2>1, <4>3, StreamBodyStep DEF Moves, response
        <4>4. CASE BodyDone
          BY <2>1, <4>4, BodyDoneStep DEF Moves, response, reading
        <4> QED
          BY <2>2, <4>1, <4>2, <4>3, <4>4
      <3>2. UpstreamConnections' = UpstreamConnections /\ Kind' = Kind
        BY <3>1 DEF UpstreamConnections, Kind
      <3> QED
        BY <3>1, <3>2, UpstreamsFrame
    <2>3. CASE AcceptHead
      <3>1. /\ pc = "head" /\ pc' = "route" /\ UNCHANGED <<sent, upstream>>
        BY <2>1, <2>3, AcceptHeadStep DEF Moves
      <3>2. UpstreamConnections' = UpstreamConnections /\ (Replying' <=> Replying)
            /\ (Held' => Held)
        BY <3>1 DEF UpstreamConnections, Replying, Held, InExchange
      <3> QED
        BY <3>1, <3>2 DEF Upstreams, HeadHeld, InExchange
    <2>4. CASE ConnectUpstream
      <3>1. /\ pc = "connect" /\ pc' = "send" /\ UNCHANGED <<sent, current>>
            /\ \/ /\ upstream' = upstream /\ upstream.addr = Kind.route
                  /\ upstream # NoUpstream
               \/ upstream' = Connected(Kind.route)
            /\ upstream' \in UpstreamConnections
        BY <1>2, <2>1, <2>4, ConnectStep DEF Moves, reading
      <3>2. UpstreamConnections' = UpstreamConnections /\ Kind' = Kind
        BY <3>1 DEF UpstreamConnections, Kind
      <3>3. /\ upstream'.inbox = <<>> /\ upstream'.stage = "idle"
            /\ upstream'.addr = Kind.route
        <4>1. CASE /\ upstream' = upstream /\ upstream.addr = Kind.route
                   /\ upstream # NoUpstream
          BY <3>1, <4>1 DEF Upstreams, Held, HeadHeld
        <4>2. CASE upstream' = Connected(Kind.route)
          BY <4>2 DEF Connected
        <4> QED
          BY <3>1, <4>1, <4>2
      <3>4. Replying'
        <4>1. Len(upstream'.inbox) = 0
          BY <3>3, EmptySeq
        <4> QED
          BY <3>3, <4>1 DEF Replying
      <3> QED
        BY <3>1, <3>2, <3>3, <3>4 DEF Upstreams, InExchange
    <2>5. CASE SendHead
      <3>1. /\ pc = "send" /\ pc' \in {"await", "body"}
            /\ UNCHANGED <<sent, current>>
            /\ current \in 1 .. Len(sent)
            /\ upstream' \in UpstreamConnections
            /\ upstream'.serving = current /\ upstream'.addr = upstream.addr
            /\ upstream'.inbox = upstream.inbox /\ upstream'.stage = "asked"
        BY <2>1, <2>5, SendHeadStep DEF Moves, reading
      <3>2. UpstreamConnections' = UpstreamConnections /\ Kind' = Kind
        BY <3>1 DEF UpstreamConnections, Kind
      <3>3. upstream.inbox = <<>> /\ upstream.addr = Kind.route
        BY <3>1 DEF Upstreams, Held, HeadHeld
      <3>4. Replying'
        <4>1. Len(upstream'.inbox) = 0
          BY <3>1, <3>3, EmptySeq
        <4> QED
          BY <3>1, <3>3, <4>1 DEF Replying
      <3>5. current > 0
        BY <3>1, Lengths
      <3> QED
        BY <3>1, <3>2, <3>3, <3>4, <3>5 DEF Upstreams, HeadHeld, InExchange
    <2>6. CASE ForwardInterim \/ SwitchProtocols \/ BeginResponse
      <3>1. /\ Tailed /\ AwaitingHead /\ upstream.inbox # <<>>
            /\ \/ pc' \in {"await", "body", "response", "tunnel"}
               \/ /\ pc' = "relay" /\ Reply.what \in Framings /\ relaying' = Reply.what
            /\ UNCHANGED <<sent, current>>
        <4>1. CASE ForwardInterim
          BY <1>2, <2>1, <4>1, InterimStep
             DEF Relays, fromClient, reading, AwaitingHead
        <4>2. CASE SwitchProtocols
          BY <1>2, <2>1, <4>2, SwitchStep DEF Relays, fromClient, reading
        <4>3. CASE BeginResponse
          BY <1>2, <2>1, <4>3, BeginStep DEF Relays, fromClient, reading
        <4> QED
          BY <2>6, <4>1, <4>2, <4>3
      <3>2. InExchange
        BY <3>1 DEF InExchange, AwaitingHead
      <3>3. /\ Replying' /\ upstream'.stage = upstream.stage
            /\ upstream'.serving = upstream.serving
            /\ upstream'.addr = upstream.addr
            /\ upstream'.inbox = Tail(upstream.inbox)
            /\ upstream' \in UpstreamConnections
        BY <3>1, <3>2, TailReplying
      <3>4. UpstreamConnections' = UpstreamConnections /\ Kind' = Kind
        BY <3>1 DEF UpstreamConnections, Kind
      <3>5. /\ upstream.stage # "idle" => upstream.serving > 0
            /\ upstream.addr = Kind.route /\ upstream.serving = current
            /\ Replying
        BY <3>2 DEF Upstreams, Held
      <3>6. pc' = "relay" => Finishing'
        <4>1. SUFFICES ASSUME pc' = "relay" PROVE Finishing'
          OBVIOUS
        <4>2. Reply.what \in Framings /\ relaying' = Reply.what
          BY <3>1, <4>1
        <4>3. PICK inbox \in Seq(InboxEntries), rest \in Seq(InboxEntries), n \in Nat \ {0} :
                /\ inbox = upstream.inbox /\ rest = Tail(inbox)
                /\ n = Len(inbox) /\ Len(rest) = n - 1 /\ inbox[1] = Reply
          BY <3>1, <3>2, ReplyIsOurs
        <4>4. Reply.what \notin Interims
          BY <4>2 DEF Framings, Interims
        <4>5. CASE n = 1
          <5>1. rest = <<>>
            BY <4>3, <4>5, EmptySeq
          <5>2. upstream.stage = StageAfter(Reply.what)
            BY <3>1, <3>5, <4>3, <4>5 DEF Replying, Last
          <5> QED
            BY <3>3, <4>2, <4>3, <5>1, <5>2
                DEF Finishing, StageAfter, Framings, Bodiless, Interims
        <4>6. CASE n > 1
          <5>1. /\ n = 2 /\ Reply.what \in {"keep", "close"}
                /\ inbox[n].what = "end"
            <6>1. 1 \in 1 .. n /\ 1 < n
              BY <4>6
            <6>2. \/ inbox[1].what \in Interims
                  \/ /\ 1 + 1 = n /\ inbox[1].what \in {"keep", "close"}
                     /\ inbox[1 + 1].what = "end"
              BY <3>5, <4>3, <6>1 DEF Replying
            <6> QED
              BY <4>3, <4>4, <6>2
          <5>2. upstream.stage = StageAfter(inbox[n].what)
            BY <3>1, <3>5, <4>3 DEF Replying, Last
          <5>3. upstream.stage = "idle"
            BY <5>1, <5>2 DEF StageAfter, Interims, Bodiless
          <5> QED
            BY <3>3, <4>2, <4>3, <5>1, <5>3 DEF Finishing
        <4>7. n = 1 \/ n > 1
          OBVIOUS
        <4> QED
          BY <4>5, <4>6, <4>7
      <3> QED
        BY <3>1, <3>3, <3>4, <3>5, <3>6 DEF Upstreams, HeadHeld, InExchange
    <2>7. CASE FinishResponse
      <3>1. /\ Relays("end", "head") /\ upstream \in UpstreamConnections
            /\ upstream' = [upstream EXCEPT !.inbox = <<>>]
            /\ upstream.stage = "idle"
        BY <1>2, <2>1, <2>7, KeepStep
      <3>2. pc' = "head" /\ UNCHANGED <<sent, current>>
        BY <3>1 DEF Relays, fromClient, reading
      <3>3. upstream'.inbox = <<>> /\ upstream'.stage = "idle"
        BY <3>1 DEF UpstreamConnections
      <3>4. upstream' \in UpstreamConnections
        <4>1. <<>> \in Seq(InboxEntries)
          BY EmptySeq
        <4> QED
          BY <3>1, <4>1, ConnectionUpdates
      <3>5. UpstreamConnections' = UpstreamConnections
        BY <3>2 DEF UpstreamConnections
      <3>6. Replying'
        <4>1. Len(upstream'.inbox) = 0
          BY <3>3, EmptySeq
        <4> QED
          BY <3>3, <4>1 DEF Replying
      <3> QED
        BY <3>2, <3>3, <3>4, <3>5, <3>6 DEF Upstreams, HeadHeld, InExchange
    <2> QED
      BY <2>1, <2>2, <2>3, <2>4, <2>5, <2>6, <2>7 DEF Staying
  <1>3. CASE Client /\ tls' = tls
    <2>1. /\ UNCHANGED <<pc, upstream, relaying, current>>
      BY <1>3 DEF Client, ClientSends, ClientCloses, ClientResets,
         ClientStalls, reading, response
    <2>2. /\ Len(sent') \in Nat /\ Len(sent) <= Len(sent')
          /\ \A r \in 1 .. Len(sent) : sent'[r] = sent[r]
      <3>1. CASE ClientSends
        BY <1>3, <3>1, ClientWrites
      <3>2. CASE sent' = sent
        BY <3>2, Lengths
      <3> QED
        BY <1>3, <3>1, <3>2 DEF Client, ClientCloses, ClientResets, ClientStalls
    <2>3. UpstreamConnections \subseteq UpstreamConnections'
      BY <2>2, TypesGrow
    <2>4. CASE current > 0
      <3>1. Kind' = Kind
        BY <2>1, <2>2, <2>4, Lengths DEF Kind
      <3> QED
        BY <2>1, <2>3, <3>1, UpstreamsFrame
    <2>5. CASE current = 0
      <3>1. pc \in {"head", "closed"} /\ ~InExchange
        BY <2>5 DEF Position, BodyUsed, InExchange
      <3>2. (Held' => Held) /\ (Replying' <=> Replying)
        BY <2>1 DEF Held, InExchange, Replying
      <3> QED
        BY <2>1, <2>3, <3>1, <3>2 DEF Upstreams, HeadHeld, InExchange
    <2> QED
      BY <2>4, <2>5, Lengths
  <1>4. CASE Upstream
    BY <1>4, SaysUpstreams, GoesUpstreams DEF Upstream
  <1> QED
    BY <1>1, <1>2, <1>3, <1>4 DEF Next

-----------------------------------------------------------------------------
(* What the client has been sent only grows.                               *)

\* What was written to the client can be counted.
LEMMA WrittenType ==
    ASSUME TypeOK, NEW what
    PROVE  /\ IsFiniteSet({i \in 1 .. Len(out) : out[i].what \in what})
           /\ Written(what) \in Nat
  <1>1. IsFiniteSet(1 .. Len(out))
    BY Lengths, FS_Interval
  <1>2. IsFiniteSet({i \in 1 .. Len(out) : out[i].what \in what})
    <2>1. {i \in 1 .. Len(out) : out[i].what \in what} \subseteq 1 .. Len(out)
      OBVIOUS
    <2> QED
      BY <1>1, <2>1, FS_Subset
  <1> QED
    BY <1>2, FS_CardinalityType DEF Written

\* One more entry comes after all the others.
LEMMA OutAppended ==
    ASSUME TypeOK, NEW e \in OutEntries, out' = Append(out, e)
    PROVE  /\ Len(out') = Len(out) + 1 /\ out'[Len(out) + 1] = e /\ out' # <<>>
           /\ \A i \in 1 .. Len(out) : out'[i] = out[i]
           /\ Len(out) + 1 \in 1 .. Len(out') /\ \A i \in 1 .. Len(out) : i \in 1 .. Len(out')
  <1>1. out \in Seq(OutEntries)
    BY DEF TypeOK, OutEntries
  <1>2. /\ Len(out') = Len(out) + 1 /\ out'[Len(out) + 1] = e
        /\ \A i \in 1 .. Len(out) : out'[i] = out[i] /\ out' \in Seq(OutEntries)
    BY <1>1, AppendProperties
  <1>3. out' # <<>>
    BY <1>2, Lengths, EmptySeq
  <1> QED
    BY <1>2, <1>3, Lengths

\* One more entry counts once if it is of the sort counted.
LEMMA WrittenGrows ==
    ASSUME TypeOK, NEW e \in OutEntries, out' = Append(out, e), NEW what
    PROVE  Written(what)' = IF e.what \in what THEN Written(what) + 1 ELSE Written(what)
  <1>1. PICK n \in Nat : n = Len(out)
    BY Lengths
  <1>2. /\ Len(out') = n + 1 /\ out'[n + 1] = e
        /\ \A i \in 1 .. n : out'[i] = out[i]
    BY <1>1, OutAppended
  <1>3. PICK D : D = {i \in 1 .. n : out[i].what \in what}
    OBVIOUS
  <1>4. IsFiniteSet(D) /\ Written(what) = Cardinality(D)
    BY <1>1, <1>3, WrittenType DEF Written
  <1>5. {i \in 1 .. (n + 1) : out'[i].what \in what} =
            IF e.what \in what THEN D \cup {n + 1} ELSE D
    BY <1>2, <1>3
  <1>6. Written(what)' = Cardinality({i \in 1 .. (n + 1) : out'[i].what \in what})
    BY <1>2 DEF Written
  <1>7. n + 1 \notin D
    BY <1>3
  <1>8. Cardinality(D \cup {n + 1}) = Cardinality(D) + 1
    BY <1>4, <1>7, FS_AddElement
  <1> QED
    BY <1>4, <1>5, <1>6, <1>8

\* What has been begun stays begun.
LEMMA AnswersGrow ==
    ASSUME TypeOK, NEW e \in OutEntries, out' = Append(out, e)
    PROVE  /\ \A r : AnswerBegun(r) => AnswerBegun(r)'
           /\ \A r : ContinueSent(r) => ContinueSent(r)'
           /\ e.what \in {"local", "switch", "begin"} =>
                 \E i \in 1 .. Len(out') :
                    out'[i].to = e.to /\ out'[i].what \in {"local", "switch", "begin"}
           /\ e.what = "continue" =>
                 \E i \in 1 .. Len(out') : out'[i].to = e.to /\ out'[i].what = "continue"
  <1>1. /\ out'[Len(out) + 1] = e /\ Len(out) + 1 \in 1 .. Len(out')
        /\ \A i \in 1 .. Len(out) : out'[i] = out[i] /\ i \in 1 .. Len(out')
    BY OutAppended
  <1>2. \A r : AnswerBegun(r) => AnswerBegun(r)'
    BY <1>1 DEF AnswerBegun
  <1>3. \A r : ContinueSent(r) => ContinueSent(r)'
    BY <1>1 DEF ContinueSent
  <1> QED
    BY <1>1, <1>2, <1>3

-----------------------------------------------------------------------------
(* Every request is answered by its own upstream's answer, or refused.     *)

Promises ==
    AnswersOwnRequest /\ RoutedToItsUpstream /\ ContinueBeforeBody /\ NoSilentDrop

\* An entry that answers what it is sent to keeps AnswersOwnRequest.
LEMMA OwnRequestStep ==
    ASSUME TypeOK, AnswersOwnRequest,
           \/ out' = out
           \/ \E e \in OutEntries : out' = Append(out, e) /\ e.from \in {0, e.to}
    PROVE  AnswersOwnRequest'
  <1>1. CASE out' = out
    BY <1>1 DEF AnswersOwnRequest
  <1>2. ASSUME NEW e \in OutEntries, out' = Append(out, e), e.from \in {0, e.to}
        PROVE  AnswersOwnRequest'
    <2>1. /\ Len(out') = Len(out) + 1 /\ out'[Len(out) + 1] = e
          /\ \A i \in 1 .. Len(out) : out'[i] = out[i]
      BY <1>2, OutAppended
    <2>2. ASSUME NEW i \in 1 .. Len(out')
          PROVE  out'[i].from \in {0, out'[i].to}
      <3>1. i = Len(out) + 1 \/ i \in 1 .. Len(out)
        BY <2>1, Lengths
      <3> QED
        BY <1>2, <2>1, <3>1 DEF AnswersOwnRequest
    <2> QED
      BY <2>2 DEF AnswersOwnRequest
  <1> QED
    BY <1>1, <1>2

\* A step that forwards nothing.
LEMMA ForwardFrame ==
    ASSUME TypeOK, RoutedToItsUpstream, ContinueBeforeBody, UNCHANGED forwarded,
           \A r \in 1 .. Len(sent) : sent'[r] = sent[r],
           \A r : ContinueSent(r) => ContinueSent(r)'
    PROVE  RoutedToItsUpstream' /\ ContinueBeforeBody'
  <1>1. \A i \in 1 .. Len(forwarded) : forwarded[i].req \in 1 .. Len(sent)
    <2>1. forwarded \in Seq(ForwardedSegments)
      BY DEF TypeOK, ForwardedSegments
    <2>2. \A i \in 1 .. Len(forwarded) : forwarded[i] \in ForwardedSegments
      BY <2>1, ElementOfSeq
    <2> QED
      BY <2>2 DEF ForwardedSegments
  <1>2. RoutedToItsUpstream'
    BY <1>1 DEF RoutedToItsUpstream
  <1>3. ContinueBeforeBody'
    <2>1. ASSUME NEW i \in 1 .. Len(forwarded), sent'[forwarded[i].req].expects,
                 forwarded[i].part > sent'[forwarded[i].req].head
          PROVE  ContinueSent(forwarded[i].req)'
      <3>1. sent'[forwarded[i].req] = sent[forwarded[i].req]
        BY <1>1
      <3>2. ContinueSent(forwarded[i].req)
        BY <2>1, <3>1 DEF ContinueBeforeBody, ContinueSent
      <3> QED
        BY <3>2
    <2> QED
      BY <2>1 DEF ContinueBeforeBody, ContinueSent
  <1> QED
    BY <1>2, <1>3

\* Leaving keeps the promises, whether or not something is said.
LEMMA LeavingPromises ==
    ASSUME TypeOK, Answers, Promises,
           LeavesQuietly \/ LeavesAnswering \/ LeavesFinishing
    PROVE  Answers' /\ Promises'
  <1>1. Leaves
    BY DEF LeavesQuietly, LeavesAnswering, LeavesFinishing
  <1>2. /\ UNCHANGED <<sent, forwarded>> /\ pc' = "closed"
        /\ WriteFails' = WriteFails
    BY <1>1 DEF Leaves, WriteFails
  <1>3. \/ out' = out
        \/ \E e \in OutEntries : out' = Append(out, e) /\ e.from \in {0, e.to}
    BY DEF LeavesQuietly, LeavesAnswering, LeavesFinishing
  <1>4. /\ \A r : AnswerBegun(r) => AnswerBegun(r)'
        /\ \A r : ContinueSent(r) => ContinueSent(r)'
    <2>1. CASE out' = out
      BY <2>1 DEF AnswerBegun, ContinueSent
    <2>2. CASE \E e \in OutEntries : out' = Append(out, e)
      BY <2>2, AnswersGrow
    <2> QED
      BY <1>3, <2>1, <2>2
  <1>5. \A r \in 1 .. Len(sent) : r < current' => AnswerBegun(r)'
    <2>1. SUFFICES ASSUME NEW r \in 1 .. Len(sent), r < current' PROVE AnswerBegun(r)'
      OBVIOUS
    <2>2. current' = current \/ (pc = "head" /\ current' = current + 1)
      BY DEF LeavesQuietly, LeavesAnswering, LeavesFinishing
    <2>3. r < current \/ (pc = "head" /\ r = current /\ current > 0)
      BY <2>1, <2>2, Lengths
    <2>4. AnswerBegun(r)
      BY <2>3 DEF Answers
    <2> QED
      BY <1>4, <2>4
  <1>6. Answers'
    BY <1>2, <1>5 DEF Answers
  <1>7. AnswersOwnRequest' /\ RoutedToItsUpstream' /\ ContinueBeforeBody'
    BY <1>2, <1>3, <1>4, OwnRequestStep, ForwardFrame DEF Promises
  <1>8. NoSilentDrop'
    <2>1. SUFFICES ASSUME ~WriteFails, NEW r \in 1 .. current'
                   PROVE  AnswerBegun(r)' \/ (abandoned' /\ r = current')
      BY <1>2 DEF NoSilentDrop
    <2>2. current' \in 0 .. Len(sent) /\ Len(sent) \in Nat
      BY Lengths DEF LeavesQuietly, LeavesAnswering, LeavesFinishing
    <2>3. CASE r < current'
      <3>1. r \in 1 .. Len(sent)
        BY <2>2, <2>3
      <3> QED
        BY <1>5, <2>3, <3>1
    <2>4. CASE r = current' /\ LeavesQuietly
      <3>1. abandoned' \/ (pc \in {"head", "relay"} /\ current > 0 /\ r = current)
        BY <2>1, <2>2, <2>4 DEF LeavesQuietly
      <3>2. abandoned' \/ AnswerBegun(r)
        BY <3>1 DEF Answers
      <3> QED
        BY <1>4, <2>4, <3>2
    <2>5. CASE r = current' /\ LeavesAnswering
      <3>1. PICK e \in OutEntries :
              /\ out' = Append(out, e) /\ e.to = current'
              /\ e.what \in {"local", "switch"}
        BY <2>1, <2>5 DEF LeavesAnswering
      <3>2. \E i \in 1 .. Len(out') :
              out'[i].to = e.to /\ out'[i].what \in {"local", "switch", "begin"}
        BY <3>1, AnswersGrow
      <3> QED
        BY <2>5, <3>1, <3>2 DEF AnswerBegun
    <2>6. CASE r = current' /\ LeavesFinishing
      <3>1. pc = "relay" /\ current > 0 /\ r = current
        BY <2>2, <2>6 DEF LeavesFinishing
      <3>2. AnswerBegun(r)
        BY <3>1 DEF Answers
      <3> QED
        BY <1>4, <3>2
    <2>7. r < current' \/ r = current'
      BY <2>2
    <2> QED
      BY <2>3, <2>4, <2>5, <2>6, <2>7
  <1> QED
    BY <1>6, <1>7, <1>8 DEF Promises

\* A step of the worker's that passes something on.
LEMMA RelayingPromises ==
    ASSUME TypeOK, Promises, Answers, NEW what, NEW place, Relays(what, place),
           place # "closed"
    PROVE  /\ Promises'
           /\ \A r \in 1 .. Len(sent) : r < current => AnswerBegun(r)'
           /\ \A r : AnswerBegun(r) => AnswerBegun(r)'
           /\ \A r : ContinueSent(r) => ContinueSent(r)'
           /\ what \in {"switch", "begin"} => AnswerBegun(current)'
           /\ what = "continue" => ContinueSent(current)'
           /\ out' # <<>> /\ out'[Len(out')].to = current
           /\ Begun' = IF what \in {"local", "switch", "begin"} THEN Begun + 1 ELSE Begun
           /\ Answered' = IF what \in {"local", "switch", "end"} THEN Answered + 1 ELSE Answered
  <1>1. PICK e \in OutEntries :
          /\ out' = Append(out, e) /\ e.to = current /\ e.from \in {0, e.to}
          /\ e.what = what
    BY DEF Relays
  <1>2. UNCHANGED <<sent, current, forwarded>> /\ pc' # "closed"
    BY DEF Relays, fromClient, reading
  <1>3. /\ \A r : AnswerBegun(r) => AnswerBegun(r)'
        /\ \A r : ContinueSent(r) => ContinueSent(r)'
    BY <1>1, AnswersGrow
  <1>4. what \in {"switch", "begin"} => AnswerBegun(current)'
    BY <1>1, <1>2, AnswersGrow DEF AnswerBegun
  <1>5. what = "continue" => ContinueSent(current)'
    BY <1>1, <1>2, AnswersGrow DEF ContinueSent
  <1>6. out' # <<>> /\ out'[Len(out')].to = current
    BY <1>1, OutAppended
  <1>7. /\ Begun' = IF what \in {"local", "switch", "begin"} THEN Begun + 1 ELSE Begun
        /\ Answered' = IF what \in {"local", "switch", "end"} THEN Answered + 1 ELSE Answered
    BY <1>1, WrittenGrows DEF Begun, Answered
  <1>8. Promises'
    <2>1. AnswersOwnRequest'
      BY <1>1, OwnRequestStep DEF Promises
    <2>2. RoutedToItsUpstream' /\ ContinueBeforeBody'
      BY <1>2, <1>3, ForwardFrame DEF Promises
    <2>3. NoSilentDrop'
      BY <1>2 DEF NoSilentDrop
    <2> QED
      BY <2>1, <2>2, <2>3 DEF Promises
  <1>9. \A r \in 1 .. Len(sent) : r < current => AnswerBegun(r)'
    BY <1>3 DEF Answers
  <1> QED
    BY <1>3, <1>4, <1>5, <1>6, <1>7, <1>8, <1>9

\* A step that says nothing to the client and keeps the request.
LEMMA AnswersFrame ==
    ASSUME TypeOK, Position, Answers, UNCHANGED <<out, current>>,
           \A r \in 1 .. Len(sent) : sent'[r] = sent[r],
           Len(sent') \in Nat, Len(sent) <= Len(sent'),
           \/ pc' = pc
           \/ /\ pc \notin {"head", "relay", "tunnel", "closed"}
              /\ pc' \notin {"head", "relay", "tunnel", "closed"}
              /\ pc' \in {"body", "response"} /\ Kind.expects /\ Kind.body > 0 =>
                    ContinueSent(current)
    PROVE  Answers'
  <1>1. /\ Begun' = Begun /\ Answered' = Answered
        /\ \A r : (AnswerBegun(r)' <=> AnswerBegun(r)) /\ (ContinueSent(r)' <=> ContinueSent(r))
    BY DEF Begun, Answered, Written, AnswerBegun, ContinueSent
  <1>2. ASSUME NEW r \in 1 .. Len(sent'), r < current' PROVE AnswerBegun(r)'
    <2>1. r \in 1 .. Len(sent) /\ r < current
      BY <1>2, Lengths
    <2> QED
      BY <1>1, <2>1 DEF Answers
  <1>3. pc' \in {"body", "response"} /\ Kind'.expects /\ Kind'.body > 0 => ContinueSent(current)'
    <2>1. pc' \in {"body", "response"} => Kind' = Kind
      <3>1. pc' \in {"body", "response"} => current \in 1 .. Len(sent)
        BY Lengths DEF Position, BodyUsed
      <3> QED
        BY <3>1 DEF Kind
    <2> QED
      BY <1>1, <2>1 DEF Answers
  <1>4. /\ pc' \in {"head", "relay", "tunnel"} /\ current' > 0 => AnswerBegun(current)'
        /\ pc' = "relay" => out' # <<>> /\ out'[Len(out')].to = current'
        /\ pc' = "head" => Begun' = current' /\ Answered' = current'
        /\ pc' = "relay" => Begun' = current' /\ Answered' + 1 = current'
        /\ pc' \notin {"head", "relay", "tunnel", "closed"} =>
              Begun' + 1 = current' /\ Answered' + 1 = current'
    <2>1. AnswerBegun(current)' <=> AnswerBegun(current)
      BY DEF AnswerBegun
    <2> QED
      BY <1>1, <2>1 DEF Answers
  <1> QED
    BY <1>2, <1>3, <1>4 DEF Answers

\* The same for the properties, if nothing is forwarded either.
LEMMA PromisesFrame ==
    ASSUME TypeOK, Promises, UNCHANGED <<out, forwarded>>,
           \A r \in 1 .. Len(sent) : sent'[r] = sent[r],
           \/ pc' # "closed"
           \/ UNCHANGED <<pc, tls, client, stalled, current, abandoned>>
    PROVE  Promises'
  <1>1. \A r : ContinueSent(r) => ContinueSent(r)'
    BY DEF ContinueSent
  <1>2. AnswersOwnRequest' /\ RoutedToItsUpstream' /\ ContinueBeforeBody'
    BY <1>1, OwnRequestStep, ForwardFrame DEF Promises
  <1>3. NoSilentDrop'
    BY DEF Promises, NoSilentDrop, AnswerBegun, WriteFails
  <1> QED
    BY <1>2, <1>3 DEF Promises

\* Forwarded segments of the current request keep the properties: it goes to
\* its route, and its body only after 100 Continue.
LEMMA ForwardPromises ==
    ASSUME TypeOK, Promises, UNCHANGED <<sent, out, current>>, pc' # "closed",
           current \in 1 .. Len(sent), NEW n \in Nat,
           Len(forwarded') = Len(forwarded) + n,
           \A i \in 1 .. Len(forwarded) : forwarded'[i] = forwarded[i],
           \A i \in 1 .. n :
              /\ forwarded'[Len(forwarded) + i].req = current
              /\ forwarded'[Len(forwarded) + i].addr = Kind.route
              /\ Kind.expects /\ forwarded'[Len(forwarded) + i].part > Kind.head =>
                    ContinueSent(current)
    PROVE  Promises'
  <1>1. PICK done \in Nat : done = Len(forwarded)
    BY Lengths
  <1>2. \A i \in 1 .. (done + n) : i \in 1 .. done \/ \E j \in 1 .. n : i = done + j
    <2>1. ASSUME NEW i \in 1 .. (done + n), i \notin 1 .. done
          PROVE  i - done \in 1 .. n /\ i = done + (i - done)
      BY <2>1
    <2> QED
      BY <2>1
  <1>3. RoutedToItsUpstream'
    <2>1. ASSUME NEW i \in 1 .. (done + n)
          PROVE  forwarded'[i].addr = sent[forwarded'[i].req].route
      <3>1. CASE i \in 1 .. done
        BY <1>1, <3>1 DEF Promises, RoutedToItsUpstream
      <3>2. ASSUME NEW j \in 1 .. n, i = done + j
            PROVE  forwarded'[i].addr = sent[forwarded'[i].req].route
        BY <1>1, <3>2 DEF Kind
      <3> QED
        BY <1>2, <3>1, <3>2
    <2> QED
      BY <1>1, <2>1 DEF RoutedToItsUpstream
  <1>4. ContinueBeforeBody'
    <2>1. ASSUME NEW i \in 1 .. (done + n),
                 sent[forwarded'[i].req].expects,
                 forwarded'[i].part > sent[forwarded'[i].req].head
          PROVE  ContinueSent(forwarded'[i].req)
      <3>1. CASE i \in 1 .. done
        BY <1>1, <2>1, <3>1 DEF Promises, ContinueBeforeBody, ContinueSent
      <3>2. ASSUME NEW j \in 1 .. n, i = done + j
            PROVE  ContinueSent(forwarded'[i].req)
        BY <1>1, <2>1, <3>2 DEF Kind
      <3> QED
        BY <1>2, <3>1, <3>2
    <2> QED
      BY <1>1, <2>1 DEF ContinueBeforeBody, ContinueSent
  <1>5. AnswersOwnRequest' /\ NoSilentDrop'
    BY DEF Promises, AnswersOwnRequest, NoSilentDrop
  <1> QED
    BY <1>3, <1>4, <1>5 DEF Promises

\* The steps before the upstream's answer keep the promises.
LEMMA MovingPromises ==
    ASSUME TypeOK, Ordered, Position, Upstreams, Answers, Promises, tls' = tls, pc' # "closed",
           \/ ReadMore \/ AcceptHead \/ SelectRoute \/ ConnectUpstream
           \/ SendHead \/ StreamBody \/ BodyDone
    PROVE  Answers' /\ Promises'
  <1>1. CASE ReadMore \/ SelectRoute \/ ConnectUpstream \/ BodyDone
    <2>1. /\ UNCHANGED <<sent, out, current, forwarded>>
          /\ \/ pc' = pc
             \/ pc = "route" /\ pc' = "connect"
             \/ pc = "connect" /\ pc' = "send"
             \/ pc = "body" /\ pc' = "response"
      <3>1. CASE ReadMore
        BY <3>1 DEF ReadMore
      <3>2. CASE SelectRoute
        BY <3>2, SelectRouteStep DEF Moves, reading
      <3>3. CASE ConnectUpstream
        BY <3>3, ConnectStep DEF Moves, reading
      <3>4. CASE BodyDone
        BY <3>4, BodyDoneStep DEF Moves, reading
      <3> QED
        BY <1>1, <3>1, <3>2, <3>3, <3>4
    <2>2. \/ pc' = pc
          \/ /\ pc \notin {"head", "relay", "tunnel", "closed"}
             /\ pc' \notin {"head", "relay", "tunnel", "closed"}
             /\ pc' \in {"body", "response"} /\ Kind.expects /\ Kind.body > 0 =>
                   ContinueSent(current)
      BY <2>1 DEF Answers
    <2>3. Answers'
      BY <2>1, <2>2, AnswersFrame, Lengths
    <2>4. Promises'
      BY <2>1, PromisesFrame
    <2> QED
      BY <2>3, <2>4
  <1>2. CASE AcceptHead
    <2>1. /\ UNCHANGED <<sent, out, forwarded>> /\ pc = "head" /\ pc' = "route"
          /\ current' = current + 1
      BY <1>2, AcceptHeadStep DEF Moves
    <2>2. Begun' = Begun /\ Answered' = Answered /\ \A r : AnswerBegun(r)' <=> AnswerBegun(r)
      BY <2>1 DEF Begun, Answered, Written, AnswerBegun
    <2>3. ASSUME NEW r \in 1 .. Len(sent), r < current' PROVE AnswerBegun(r)'
      <3>1. r < current \/ (r = current /\ current > 0)
        BY <2>1, <2>3, Lengths
      <3>2. AnswerBegun(r)
        BY <2>1, <3>1 DEF Answers
      <3> QED
        BY <2>2, <3>2
    <2>4. Begun' + 1 = current' /\ Answered' + 1 = current'
      BY <2>1, <2>2 DEF Answers
    <2>5. Answers'
      BY <2>1, <2>3, <2>4 DEF Answers
    <2>6. Promises'
      BY <2>1, PromisesFrame
    <2> QED
      BY <2>5, <2>6
  <1>3. CASE SendHead
    <2>1. /\ UNCHANGED <<sent, out, current>> /\ pc = "send"
          /\ pc' \in {"await", "body"}
          /\ Kind.expects /\ Kind.body > 0 => pc' = "await"
          /\ current \in 1 .. Len(sent)
          /\ Len(forwarded') = Len(forwarded) + Kind.head
          /\ \A i \in 1 .. Len(forwarded) : forwarded'[i] = forwarded[i]
          /\ \A i \in 1 .. Kind.head :
                /\ forwarded'[Len(forwarded) + i].req = current
                /\ forwarded'[Len(forwarded) + i].part = i
                /\ forwarded'[Len(forwarded) + i].addr = Kind.route
      BY <1>3, SendHeadStep DEF Moves, reading
    <2>2. Answers'
      BY <2>1, AnswersFrame, Lengths
    <2>3. PICK head \in Nat : head = Kind.head
      BY <2>1, KindsTyped DEF Kind
    <2>4. \A i \in 1 .. head : ~(forwarded'[Len(forwarded) + i].part > head)
      BY <2>1, <2>3
    <2>5. Promises'
      BY <2>1, <2>3, <2>4, ForwardPromises
    <2> QED
      BY <2>2, <2>5
  <1>4. CASE StreamBody
    <2>1. /\ UNCHANGED <<sent, out, current>> /\ pc = "body" /\ pc' = "body"
          /\ left > 0 /\ buffer \o wire # <<>>
          /\ Len(forwarded') = Len(forwarded) + 1
          /\ \A i \in 1 .. Len(forwarded) : forwarded'[i] = forwarded[i]
          /\ forwarded'[Len(forwarded) + 1].req = NextSegment.req
          /\ forwarded'[Len(forwarded) + 1].addr = Kind.route
      BY <1>4, StreamBodyStep DEF Moves
    <2>2. /\ NextSegment.req = current /\ left <= Kind.body
          /\ current \in 1 .. Len(sent)
      <3>1. /\ NextSegment = Segment(current, Size(current) - left + 1)
            /\ left <= Kind.body /\ current \in 1 .. Len(sent)
        BY <2>1, BodyIsNext
      <3> QED
        BY <3>1 DEF Segment
    <2>3. Kind.body > 0
      BY <2>1, <2>2, KindsTyped, Lengths DEF Kind
    <2>4. Kind.expects => ContinueSent(current)
      BY <2>1, <2>3 DEF Answers
    <2>5. Answers'
      BY <2>1, AnswersFrame, Lengths
    <2>6. PICK one \in Nat : one = 1
      OBVIOUS
    <2>7. \A i \in 1 .. one : i = 1
      BY <2>6
    <2>8. Promises'
      BY <2>1, <2>2, <2>4, <2>6, <2>7, ForwardPromises
    <2> QED
      BY <2>5, <2>8
  <1> QED
    BY <1>1, <1>2, <1>3, <1>4

\* Every step keeps the promises to the client.
LEMMA PromisesStep ==
    ASSUME TypeOK, Ordered, Position, Upstreams, Answers, Promises, Next
    PROVE  Answers' /\ Promises'
  <1>0. AnswersOwnRequest
    BY DEF Promises
  <1>1. CASE Worker /\ pc' = "closed"
    <2>1. LeavesQuietly \/ LeavesAnswering \/ LeavesFinishing
      BY <1>0, <1>1, LeavingSteps
    <2> QED
      BY <2>1, LeavingPromises
  <1>2. CASE Worker /\ pc' # "closed"
    <2>1. Staying /\ tls' = tls
      BY <1>2, WorkerStays DEF Worker
    <2>2. CASE \/ ReadMore \/ AcceptHead \/ SelectRoute \/ ConnectUpstream
               \/ SendHead \/ StreamBody \/ BodyDone
      BY <1>2, <2>1, <2>2, MovingPromises
    <2>3. CASE ForwardInterim
      <3>1. /\ Relays(Reply.what, pc') /\ AwaitingHead
            /\ Reply.what \in Interims
            /\ pc' = pc \/ (pc' = "body" /\ pc = "await" /\ Reply.what = "continue")
        BY <1>2, <2>1, <2>3, InterimStep
      <3>2. PICK what \in Interims, place \in {pc'} : what = Reply.what
        BY <3>1
      <3>3. /\ Promises'
            /\ \A r \in 1 .. Len(sent) : r < current => AnswerBegun(r)'
            /\ \A r : ContinueSent(r) => ContinueSent(r)'
            /\ what = "continue" => ContinueSent(current)'
            /\ Begun' = IF what \in {"local", "switch", "begin"} THEN Begun + 1 ELSE Begun
            /\ Answered' = IF what \in {"local", "switch", "end"} THEN Answered + 1 ELSE Answered
        <4>1. Relays(what, place) /\ place # "closed"
          BY <1>2, <3>1, <3>2
        <4> QED
          BY <4>1, RelayingPromises
      <3>4. UNCHANGED <<sent, current>> /\ Kind' = Kind
        BY <3>1 DEF Relays, fromClient, reading, Kind
      <3>5. Begun' = Begun /\ Answered' = Answered
        BY <3>2, <3>3 DEF Interims
      <3>6. pc' \in {"body", "response"} /\ Kind.expects /\ Kind.body > 0 => ContinueSent(current)'
        <4>1. CASE pc' = "body"
          BY <3>1, <3>2, <3>3, <4>1 DEF AwaitingHead
        <4>2. CASE pc' = "response"
          <5>1. Kind.expects /\ Kind.body > 0 => ContinueSent(current)
            BY <3>1, <4>2 DEF Answers
          <5>2. ContinueSent(current) => ContinueSent(current)'
            BY <3>3, <3>4 DEF ContinueSent
          <5> QED
            BY <5>1, <5>2
        <4> QED
          BY <4>1, <4>2
      <3>7. Answers'
        BY <3>1, <3>3, <3>4, <3>5, <3>6 DEF Answers, AwaitingHead
      <3> QED
        BY <3>3, <3>7
    <2>4. CASE SwitchProtocols
      <3>1. Relays("switch", "tunnel")
        BY <1>2, <2>1, <2>4, SwitchStep
      <3>2. /\ Promises'
            /\ \A r \in 1 .. Len(sent) : r < current => AnswerBegun(r)'
            /\ AnswerBegun(current)'
        BY <3>1, RelayingPromises
      <3>3. UNCHANGED <<sent, current>> /\ pc' = "tunnel"
        BY <3>1 DEF Relays, fromClient, reading
      <3> QED
        BY <3>2, <3>3 DEF Answers
    <2>5. CASE BeginResponse
      <3>1. Relays("begin", "relay") /\ AwaitingHead
        BY <1>2, <2>1, <2>5, BeginStep
      <3>2. /\ Promises'
            /\ \A r \in 1 .. Len(sent) : r < current => AnswerBegun(r)'
            /\ AnswerBegun(current)'
            /\ out' # <<>> /\ out'[Len(out')].to = current
            /\ Begun' = Begun + 1 /\ Answered' = Answered
        BY <3>1, RelayingPromises
      <3>3. UNCHANGED <<sent, current>> /\ pc' = "relay"
        BY <3>1 DEF Relays, fromClient, reading
      <3>4. Begun + 1 = current /\ Answered + 1 = current
        BY <3>1 DEF Answers, AwaitingHead
      <3> QED
        BY <3>2, <3>3, <3>4 DEF Answers
    <2>6. CASE FinishResponse
      <3>1. Relays("end", "head") /\ pc = "relay"
        BY <1>0, <1>2, <2>1, <2>6, KeepStep
      <3>2. /\ Promises'
            /\ \A r \in 1 .. Len(sent) : r < current => AnswerBegun(r)'
            /\ \A r : AnswerBegun(r) => AnswerBegun(r)'
            /\ Begun' = Begun /\ Answered' = Answered + 1
        BY <3>1, RelayingPromises
      <3>3. UNCHANGED <<sent, current>> /\ pc' = "head"
        BY <3>1 DEF Relays, fromClient, reading
      <3>4. Begun = current /\ Answered + 1 = current
        BY <3>1 DEF Answers
      <3>5. current > 0 => AnswerBegun(current)'
        <4>1. current > 0 => AnswerBegun(current)
          BY <3>1 DEF Answers
        <4>2. AnswerBegun(current) => AnswerBegun(current)'
          BY <3>2, <3>3 DEF AnswerBegun
        <4> QED
          BY <4>1, <4>2
      <3> QED
        BY <3>2, <3>3, <3>4, <3>5 DEF Answers
    <2> QED
      BY <2>1, <2>2, <2>3, <2>4, <2>5, <2>6 DEF Staying
  <1>3. CASE Client /\ tls' = tls
    <2>1. UNCHANGED <<pc, current, out, forwarded>> /\ pc # "closed"
      BY <1>3 DEF Client, ClientSends, ClientCloses, ClientResets,
         ClientStalls, Serving, reading
    <2>2. /\ Len(sent') \in Nat /\ Len(sent) <= Len(sent')
          /\ \A r \in 1 .. Len(sent) : sent'[r] = sent[r]
      <3>1. CASE ClientSends
        BY <1>3, <3>1, ClientWrites
      <3>2. CASE sent' = sent
        BY <3>2, Lengths
      <3> QED
        BY <1>3, <3>1, <3>2 DEF Client, ClientCloses, ClientResets, ClientStalls
    <2> QED
      BY <2>1, <2>2, AnswersFrame, PromisesFrame
  <1>4. CASE Upstream /\ UNCHANGED tls
    <2>1. UNCHANGED <<pc, tls, sent, client, stalled, current, out, abandoned, forwarded>>
      BY <1>4 DEF Upstream, UpstreamReplies, UpstreamCloses, fromClient, reading
    <2> QED
      BY <2>1, AnswersFrame, PromisesFrame, Lengths
  <1> QED
    BY <1>1, <1>2, <1>3, <1>4 DEF Next

-----------------------------------------------------------------------------
(* The theorems.                                                           *)

\* The invariant holds initially.
LEMMA InitHolds == Init => IndInv
  <1> SUFFICES ASSUME Init PROVE IndInv
    OBVIOUS
  <1>1. TypeOK
    BY InitTyped
  <1>2. /\ Len(sent) = 0 /\ Len(stream) = 0 /\ Len(buffer) = 0 /\ Len(wire) = 0
        /\ Len(forwarded) = 0 /\ Len(out) = 0
    BY EmptySeq DEF Init
  <1>3. Ordered
    BY <1>2 DEF Init, Ordered
  <1>4. Position
    <2>1. Taken = 0
      BY <1>2 DEF Init, Taken, HeadHeld
    <2> QED
      BY <1>2, <2>1
         DEF Init, Position, ForwardedInPlace, HeadInPlace, HeadHeld, BodyUsed,
          Reached, ReadAhead, Window
  <1>5. Upstreams
    BY DEF Init, Upstreams, Held, HeadHeld, InExchange
  <1>6. /\ Written({"local", "switch", "begin"}) = 0
        /\ Written({"local", "switch", "end"}) = 0
    <2>1. \A what : {i \in 1 .. Len(out) : out[i].what \in what} = {}
      BY <1>2
    <2> QED
      BY <2>1, FS_EmptySet DEF Written
  <1>7. Answers
    BY <1>2, <1>6 DEF Init, Answers, Begun, Answered
  <1>8. /\ AnswersOwnRequest /\ RoutedToItsUpstream /\ ContinueBeforeBody
        /\ NoSilentDrop
    BY <1>2 DEF Init, AnswersOwnRequest, RoutedToItsUpstream,
       ContinueBeforeBody, NoSilentDrop
  <1> QED
    BY <1>1, <1>3, <1>4, <1>5, <1>7, <1>8 DEF IndInv

\* Every step keeps it.
LEMMA StepHolds == IndInv /\ [Next]_vars => IndInv'
  <1> SUFFICES ASSUME IndInv, [Next]_vars PROVE IndInv'
    OBVIOUS
  <1>1. /\ TypeOK /\ Ordered /\ Position /\ Upstreams /\ Answers
        /\ AnswersOwnRequest
        /\ Promises
    BY DEF IndInv, Promises
  <1>2. CASE Next
    <2>1. TypeOK' /\ Ordered'
      BY <1>1, <1>2, TypeStep, OrderedStep
    <2>2. Position' /\ Upstreams'
      BY <1>1, <1>2, PositionStep, UpstreamsStep
    <2>3. Answers' /\ Promises'
      BY <1>1, <1>2, PromisesStep
    <2> QED
      BY <2>1, <2>2, <2>3 DEF IndInv, Promises
  <1>3. CASE UNCHANGED vars
    <2> USE <1>1, <1>3 DEF vars, fromClient, reading, response, totals
    <2>1. TypeOK'
      BY DEF TypeOK, SegmentSet, UpstreamConnections
    <2>2. Ordered'
      BY DEF Ordered, Size
    <2>3. Position'
      BY PositionFrame DEF Position, BodyUsed, HeadHeld
    <2>4. UpstreamConnections' = UpstreamConnections /\ Kind' = Kind
      BY DEF UpstreamConnections, Kind
    <2>5. Upstreams'
      BY <2>4, UpstreamsFrame
    <2>6. Answers' /\ Promises'
      BY AnswersFrame, PromisesFrame, Lengths
    <2> QED
      BY <2>1, <2>2, <2>3, <2>5, <2>6 DEF IndInv, Promises
  <1> QED
    BY <1>2, <1>3

\* The worker is always at the place of the client's stream, of the
\* upstream's answer and of its own answers that `pc`, `current` and `left`
\* say (handle_connection_io's loop invariant).
THEOREM Invariance == Spec => []IndInv
  BY InitHolds, StepHolds, PTL DEF Spec

\* The connection's state stays well formed, for every set of requests and
\* upstreams and any number of requests.
THEOREM TypeCorrect == Spec => []TypeOK
  <1>1. IndInv => TypeOK
    BY DEF IndInv
  <1> QED
    BY <1>1, Invariance, PTL

\* The client is never given an upstream's answer to another request than
\* the one it answers.
THEOREM OwnAnswers == Spec => []AnswersOwnRequest
  <1>1. IndInv => AnswersOwnRequest
    BY DEF IndInv
  <1> QED
    BY <1>1, Invariance, PTL

\* Every segment goes to the upstream its request is routed to, kept
\* connections included.
THEOREM Routed == Spec => []RoutedToItsUpstream
  <1>1. IndInv => RoutedToItsUpstream
    BY DEF IndInv
  <1> QED
    BY <1>1, Invariance, PTL

\* An expecting request's body waits for the client to be told to continue.
THEOREM ContinueFirst == Spec => []ContinueBeforeBody
  <1>1. IndInv => ContinueBeforeBody
    BY DEF IndInv
  <1> QED
    BY <1>1, Invariance, PTL

\* A worker that closes a connection whose client is there, and over HTTPS
\* reads, has begun an answer to every request it took, save one the client
\* broke off.
THEOREM NothingDropped == Spec => []NoSilentDrop
  <1>1. IndInv => NoSilentDrop
    BY DEF IndInv
  <1> QED
    BY <1>1, Invariance, PTL

\* While a request is not held back, forwarded, read-ahead and unread
\* segments are the client's stream.
LEMMA PositionIntact == IndInv => StreamIntact
  <1> SUFFICES ASSUME IndInv, pc \notin {"route", "connect", "send", "closed"},
                      client # "gone"
               PROVE  [i \in 1 .. Len(forwarded) |->
                          [req |-> forwarded[i].req, part |-> forwarded[i].part]]
                        \o buffer \o wire = stream
    BY DEF StreamIntact
  <1>1. TypeOK /\ Position
    BY DEF IndInv
  <1>2. PICK d \in Nat, b \in Nat, w \in Nat, n \in Nat :
          /\ d = Len(forwarded) /\ b = Len(buffer) /\ w = Len(wire)
          /\ n = Len(stream)
    BY <1>1, Lengths
  <1>3. Taken = d
    BY <1>2 DEF Taken, HeadHeld
  <1>4. /\ d + b + w = n
        /\ \A i \in 1 .. b : buffer[i] = stream[d + i]
        /\ \A i \in 1 .. w : wire[i] = stream[d + b + i]
    BY <1>1, <1>2, <1>3 DEF Position, ReadAhead, Window
  <1>5. \A i \in 1 .. d : Segment(forwarded[i].req, forwarded[i].part) = stream[i]
    BY <1>1, <1>2 DEF Position, ForwardedInPlace
  <1>6. /\ stream \in Seq(SegmentSet) /\ buffer \in Seq(SegmentSet)
        /\ wire \in Seq(SegmentSet)
    BY <1>1 DEF TypeOK
  <1>7. PICK f : f = [i \in 1 .. Len(forwarded) |->
                         [req |-> forwarded[i].req, part |-> forwarded[i].part]]
    OBVIOUS
  <1>8. f \in Seq(SegmentSet) /\ Len(f) = d /\ \A i \in 1 .. d : f[i] = stream[i]
    <2>1. \A i \in 1 .. d : stream[i] \in SegmentSet
      <3>1. \A i \in 1 .. n : stream[i] \in SegmentSet
        BY <1>2, <1>6, ElementOfSeq
      <3>2. \A i \in 1 .. d : i \in 1 .. n
        BY <1>4
      <3> QED
        BY <3>1, <3>2
    <2>2. f = [i \in 1 .. d |-> stream[i]]
      BY <1>2, <1>5, <1>7 DEF Segment
    <2> QED
      BY <2>1, <2>2
  <1>9. PICK g \in Seq(SegmentSet) :
          /\ g = f \o buffer /\ Len(g) = d + b
          /\ \A i \in 1 .. (d + b) : g[i] = IF i <= d THEN f[i] ELSE buffer[i - d]
    <2>1. /\ f \o buffer \in Seq(SegmentSet)
          /\ Len(f \o buffer) = Len(f) + Len(buffer)
          /\ \A i \in 1 .. Len(f) + Len(buffer) :
                (f \o buffer)[i] = IF i <= Len(f) THEN f[i] ELSE buffer[i - Len(f)]
      <3>1. f \in Seq(SegmentSet)
        BY <1>8
      <3> QED
        BY <1>6, <3>1, ConcatProperties
    <2> QED
      BY <1>2, <1>8, <2>1
  <1>10. PICK h \in Seq(SegmentSet) :
          /\ h = g \o wire /\ Len(h) = n
          /\ \A i \in 1 .. n : h[i] = IF i <= d + b THEN g[i] ELSE wire[i - (d + b)]
    <2>1. /\ g \o wire \in Seq(SegmentSet)
          /\ Len(g \o wire) = Len(g) + Len(wire)
          /\ \A i \in 1 .. Len(g) + Len(wire) :
                (g \o wire)[i] = IF i <= Len(g) THEN g[i] ELSE wire[i - Len(g)]
      BY <1>6, ConcatProperties
    <2>2. Len(g) = d + b /\ Len(g) + Len(wire) = n
      BY <1>2, <1>4, <1>9
    <2> QED
      BY <2>1, <2>2
  <1>11. ASSUME NEW i \in 1 .. n PROVE h[i] = stream[i]
    <2>1. CASE i <= d
      <3>1. i <= d + b /\ i \in 1 .. d /\ i \in 1 .. (d + b)
        BY <2>1
      <3> QED
        BY <1>8, <1>9, <1>10, <2>1, <3>1
    <2>2. CASE d < i /\ i <= d + b
      <3>1. /\ i - d \in 1 .. b /\ d + (i - d) = i /\ i \in 1 .. (d + b)
            /\ ~(i <= d)
        BY <2>2
      <3> QED
        BY <1>4, <1>9, <1>10, <2>2, <3>1
    <2>3. CASE d + b < i
      <3>1. i - (d + b) \in 1 .. w /\ d + b + (i - (d + b)) = i /\ ~(i <= d + b)
        BY <1>4, <2>3
      <3> QED
        BY <1>4, <1>10, <3>1
    <2> QED
      BY <2>1, <2>2, <2>3
  <1>12. h = stream
    BY <1>2, <1>6, <1>10, <1>11, SeqEqual
  <1> QED
    BY <1>7, <1>9, <1>10, <1>12

\* No byte of the client is lost, repeated or reordered on its way to the
\* upstreams, however reads fall across requests (buffered_client_bytes).
THEOREM Intact == Spec => []StreamIntact
  BY PositionIntact, Invariance, PTL

-----------------------------------------------------------------------------
(* Connection implements ResponseStream.                                   *)

\* Nothing has been said initially.
LEMMA ViewInit == Init => ClientView!Init
  <1> SUFFICES ASSUME Init PROVE ClientView!Init
    OBVIOUS
  <1>1. Len(out) = 0
    BY EmptySeq DEF Init
  <1>2. /\ Written({"local", "switch", "begin"}) = 0
        /\ Written({"local", "switch", "end"}) = 0
    <2>1. \A what : {i \in 1 .. Len(out) : out[i].what \in what} = {}
      BY <1>1
    <2> QED
      BY <2>1, FS_EmptySet DEF Written
  <1> QED
    BY <1>2 DEF Init, ClientView!Init, Serving

\* Nothing the client could see has happened.
LEMMA ViewUnchanged ==
    ASSUME UNCHANGED current, Begun' = Begun, Answered' = Answered, Serving' <=> Serving
    PROVE  UNCHANGED ClientView!vars
  BY DEF ClientView!vars, Begun, Answered

\* Leaving is a step of ResponseStream.
LEMMA ViewLeaves ==
    ASSUME TypeOK, Answers, LeavesQuietly \/ LeavesAnswering \/ LeavesFinishing
    PROVE  ClientView!Next
  <1> USE DEF Begun, Answered
  <1>1. Begun \in Nat /\ Answered \in Nat /\ current \in Nat
    BY WrittenType, Lengths
  <1>2. Serving /\ ~Serving'
    BY DEF LeavesQuietly, LeavesAnswering, LeavesFinishing, Leaves, Serving
  <1>3. CASE LeavesQuietly
    <2>1. Begun' = Begun /\ Answered' = Answered /\ current' = current
      BY <1>3 DEF LeavesQuietly, Written
    <2>2. ClientView!End
      BY <1>2, <2>1 DEF ClientView!End
    <2> QED
      BY <2>2 DEF ClientView!Next
  <1>4. CASE LeavesAnswering
    <2>1. \/ Begun' = Begun + 1 /\ Answered' = Answered + 1
          \/ Begun' = Begun /\ Answered' = Answered
      <3>1. CASE out' = out
        BY <3>1 DEF Written
      <3>2. ASSUME NEW e \in OutEntries, out' = Append(out, e), e.what \in {"local", "switch"}
            PROVE  Begun' = Begun + 1 /\ Answered' = Answered + 1
        BY <3>2, WrittenGrows
      <3> QED
        BY <1>4, <3>1, <3>2 DEF LeavesAnswering
    <2>2. CASE pc = "head"
      <3>1. Answered = current /\ current' = current + 1
        BY <1>4, <2>2 DEF Answers, LeavesAnswering
      <3>2. ClientView!RefuseUnparsed
        BY <1>2, <2>1, <3>1 DEF ClientView!RefuseUnparsed, ClientView!Idle
      <3> QED
        BY <3>2 DEF ClientView!Next
    <2>3. CASE pc # "head"
      <3>1. /\ Begun + 1 = current /\ Answered + 1 = current
            /\ current' = current
        BY <1>2, <1>4, <2>3 DEF Answers, LeavesAnswering, Serving
      <3>2. Begun = Answered /\ Answered < current
        BY <1>1, <3>1
      <3>3. ClientView!Answer \/ ClientView!End
        BY <1>2, <2>1, <3>1, <3>2
           DEF ClientView!Answer, ClientView!Pending, ClientView!End
      <3> QED
        BY <3>3 DEF ClientView!Next
    <2> QED
      BY <2>2, <2>3
  <1>5. CASE LeavesFinishing
    <2>1. PICK e \in OutEntries : out' = Append(out, e) /\ e.what = "end"
      BY <1>5 DEF LeavesFinishing
    <2>2. Begun' = Begun /\ Answered' = Answered + 1
      BY <2>1, WrittenGrows
    <2>3. Begun = current /\ Answered + 1 = current /\ current' = current
      BY <1>5 DEF Answers, LeavesFinishing
    <2>4. Answered < Begun
      BY <1>1, <2>3
    <2>5. ClientView!Finish
      BY <1>2, <2>2, <2>3, <2>4 DEF ClientView!Finish
    <2> QED
      BY <2>5 DEF ClientView!Next
  <1> QED
    BY <1>3, <1>4, <1>5

\* So is every other step of the worker, or none.
LEMMA ViewStays ==
    ASSUME TypeOK, Ordered, Position, Upstreams, Answers, Promises, Worker, pc' # "closed"
    PROVE  [ClientView!Next]_(ClientView!vars)
  <1> USE DEF Begun, Answered
  <1>1. Staying /\ tls' = tls /\ AnswersOwnRequest
    BY WorkerStays DEF Worker, Promises
  <1>2. Begun \in Nat /\ Answered \in Nat /\ current \in Nat
    BY <1>1, WrittenType, Lengths
  <1>3. CASE ReadMore \/ SelectRoute \/ ConnectUpstream \/ SendHead \/ StreamBody \/ BodyDone
    <2>1. UNCHANGED <<out, current>> /\ Serving /\ Serving'
      <3>1. CASE ReadMore
        BY <3>1 DEF ReadMore, Serving
      <3>2. CASE SelectRoute
        BY <1>1, <3>2, SelectRouteStep DEF Moves, reading, Serving
      <3>3. CASE ConnectUpstream
        BY <1>1, <3>3, ConnectStep DEF Moves, reading, Serving
      <3>4. CASE SendHead
        BY <1>1, <3>4, SendHeadStep DEF Moves, reading, Serving
      <3>5. CASE StreamBody
        BY <1>1, <3>5, StreamBodyStep DEF Moves, Serving
      <3>6. CASE BodyDone
        BY <1>1, <3>6, BodyDoneStep DEF Moves, reading, Serving
      <3> QED
        BY <1>3, <3>1, <3>2, <3>3, <3>4, <3>5, <3>6
    <2>2. Begun' = Begun /\ Answered' = Answered
      BY <2>1 DEF Written
    <2> QED
      BY <2>1, <2>2, ViewUnchanged
  <1>4. CASE AcceptHead
    <2>1. /\ UNCHANGED out /\ pc = "head" /\ pc' = "route"
          /\ current' = current + 1
      BY <1>1, <1>4, AcceptHeadStep DEF Moves
    <2>2. Begun' = Begun /\ Answered' = Answered /\ Answered = current
      BY <2>1 DEF Written, Answers
    <2>3. Serving /\ Serving'
      BY <2>1 DEF Serving
    <2>4. ClientView!Receive
      BY <2>1, <2>2, <2>3 DEF ClientView!Receive, ClientView!Idle
    <2> QED
      BY <2>4 DEF ClientView!Next
  <1>5. CASE ForwardInterim
    <2>1. /\ Relays(Reply.what, pc') /\ AwaitingHead /\ Reply.what \in Interims
          /\ pc' = pc \/ pc' = "body"
      BY <1>1, <1>5, InterimStep
    <2>2. PICK what \in Interims, place \in {pc'} : what = Reply.what
      BY <2>1
    <2>3. Relays(what, place) /\ place # "closed"
      BY <2>1, <2>2
    <2>4. /\ Begun' = IF what \in {"local", "switch", "begin"} THEN Begun + 1 ELSE Begun
          /\ Answered' = IF what \in {"local", "switch", "end"} THEN Answered + 1 ELSE Answered
      BY <2>3, RelayingPromises
    <2>5. Begun' = Begun /\ Answered' = Answered
      BY <2>4 DEF Interims
    <2>6. UNCHANGED current /\ Serving /\ Serving'
      BY <2>1 DEF Relays, reading, Serving, AwaitingHead
    <2> QED
      BY <2>5, <2>6, ViewUnchanged
  <1>6. CASE SwitchProtocols
    <2>1. Relays("switch", "tunnel") /\ AwaitingHead
      BY <1>1, <1>6, SwitchStep
    <2>2. Begun' = Begun + 1 /\ Answered' = Answered + 1
      BY <2>1, RelayingPromises
    <2>3. UNCHANGED current /\ Serving /\ ~Serving'
      BY <2>1 DEF Relays, reading, Serving, AwaitingHead
    <2>4. Begun + 1 = current /\ Answered + 1 = current
      BY <2>1 DEF Answers, AwaitingHead
    <2>5. Begun = Answered /\ Answered < current
      BY <1>2, <2>4
    <2>6. ClientView!Answer
      BY <2>2, <2>3, <2>5 DEF ClientView!Answer, ClientView!Pending
    <2> QED
      BY <2>6 DEF ClientView!Next
  <1>7. CASE BeginResponse
    <2>1. Relays("begin", "relay") /\ AwaitingHead
      BY <1>1, <1>7, BeginStep
    <2>2. Begun' = Begun + 1 /\ Answered' = Answered
      BY <2>1, RelayingPromises
    <2>3. UNCHANGED current /\ Serving /\ Serving'
      BY <2>1 DEF Relays, reading, Serving, AwaitingHead
    <2>4. Begun + 1 = current /\ Answered + 1 = current
      BY <2>1 DEF Answers, AwaitingHead
    <2>5. Begun = Answered /\ Answered < current
      BY <1>2, <2>4
    <2>6. ClientView!Begin
      BY <2>2, <2>3, <2>5 DEF ClientView!Begin, ClientView!Pending
    <2> QED
      BY <2>6 DEF ClientView!Next
  <1>8. CASE FinishResponse
    <2>1. Relays("end", "head") /\ pc = "relay"
      BY <1>1, <1>8, KeepStep
    <2>2. Begun' = Begun /\ Answered' = Answered + 1
      BY <2>1, RelayingPromises
    <2>3. UNCHANGED current /\ Serving /\ Serving'
      BY <2>1 DEF Relays, reading, Serving
    <2>4. Begun = current /\ Answered + 1 = current
      BY <2>1 DEF Answers
    <2>5. Answered < Begun
      BY <1>2, <2>4
    <2>6. ClientView!Finish
      BY <2>2, <2>3, <2>5 DEF ClientView!Finish
    <2> QED
      BY <2>6 DEF ClientView!Next
  <1> QED
    BY <1>1, <1>3, <1>4, <1>5, <1>6, <1>7, <1>8 DEF Staying

\* Every step of the connection is a step of ResponseStream or none.
LEMMA ViewStep == IndInv /\ [Next]_vars => [ClientView!Next]_(ClientView!vars)
  <1> SUFFICES ASSUME IndInv, [Next]_vars PROVE [ClientView!Next]_(ClientView!vars)
    OBVIOUS
  <1>1. /\ TypeOK /\ Ordered /\ Position /\ Upstreams /\ Answers
        /\ AnswersOwnRequest
        /\ Promises
    BY DEF IndInv, Promises
  <1>2. CASE Worker /\ pc' = "closed"
    BY <1>1, <1>2, LeavingSteps, ViewLeaves
  <1>3. CASE Worker /\ pc' # "closed"
    BY <1>1, <1>3, ViewStays
  <1>4. CASE Client \/ Upstream \/ UNCHANGED vars
    <2>1. UNCHANGED <<pc, current, out>>
      BY <1>4 DEF Client, ClientSends, ClientCloses, ClientResets,
         ClientStalls, Upstream, UpstreamReplies, UpstreamCloses, reading, vars
    <2>2. Begun' = Begun /\ Answered' = Answered /\ (Serving' <=> Serving)
      BY <2>1 DEF Begun, Answered, Written, Serving
    <2> QED
      BY <2>1, <2>2, ViewUnchanged
  <1> QED
    BY <1>2, <1>3, <1>4 DEF Next

\* The client of every connection sees a ResponseStream: each request is
\* answered once, in order and completely before the next, and nothing
\* follows an answer that broke off.
THEOREM Implements == Spec => ServesResponseStream
  BY ViewInit, Invariance, ViewStep, PTL
      DEF Spec, ServesResponseStream, ClientView!Spec
=============================================================================
