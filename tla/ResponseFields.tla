--------------------------- MODULE ResponseFields ---------------------------
(***************************************************************************)
(* What forward_response of proxy.rs makes of one response head: whether   *)
(* it is refused, what is sent to the client in its place, how the body is *)
(* read from the upstream, and whether the client connection is kept.      *)
(***************************************************************************)
EXTENDS Fields, FiniteSets

CONSTANTS
    Heads,       \* [version, status, fields] that an upstream may send
    Methods,     \* methods of the request
    Requested    \* protocols of its Upgrade fields, {} for none

VARIABLES
    method, requested, head,
    outcome      \* what becomes of the head

vars == <<method, requested, head, outcome>>

Pending == [kind |-> "pending"]
Refused == [kind |-> "refused"]

-----------------------------------------------------------------------------
(* Reading the head.                                                       *)

\* validate_response_head_syntax and response_status_code
GoodSyntax(h) ==
    /\ h.version \in {"1.0", "1.1"}
    /\ h.status \in 100..599
    /\ \A i \in DOMAIN h.fields : h.fields[i].name \notin NoTokens

Codings(h) == Elements(h.fields, "transfer-encoding")

\* Mutant: chunked may come before another coding.
GoodCodingsAnywhere(h) ==
    /\ {"", "chunked;p"} \cap ToSet(Codings(h)) = {}
    /\ Cardinality({i \in DOMAIN Codings(h) : Codings(h)[i] = "chunked"}) <= 1

\* response_transfer_framing does not fail.
GoodCodings(h) ==
    /\ {"", "chunked;p"} \cap ToSet(Codings(h)) = {}
    /\ \A i \in DOMAIN Codings(h) :
          Codings(h)[i] = "chunked" => i = Len(Codings(h))

Chunked(h) == Codings(h) # <<>> /\ Last(Codings(h)) = "chunked"

\* response_content_length does not fail.
GoodLength(h) ==
    LET lengths == Named(h.fields, "content-length")
    IN lengths # <<>> =>
          Len(lengths) = 1 /\ Len(lengths[1].value) = 1
          /\ lengths[1].value[1] \in DOMAIN Lengths

HasLength(h) == Named(h.fields, "content-length") # <<>>

\* response_has_no_body
HasNoBody(m, h) == m = "HEAD" \/ h.status \in {204, 304}

-----------------------------------------------------------------------------
(* Writing it.                                                             *)

ConnectionTokens(h) == ToSet(Elements(h.fields, "connection"))

\* response_connection_tokens does not fail.
GoodConnection(h) ==
    ConnectionTokens(h) \cap (NoTokens \cup {"content-length", "transfer-encoding"}) = {}

\* should_remove_response_header
Removes(h, name, keepTrailer, keepUpgrade) ==
    \/ name \in {"connection", "keep-alive", "proxy-connection", "te"}
    \/ name = "trailer" /\ ~keepTrailer
    \/ name = "upgrade" /\ ~keepUpgrade
    \/ name \in ConnectionTokens(h) /\ ~(keepUpgrade /\ name = "upgrade")

Kept(h, keepTrailer, keepUpgrade) ==
    SelectSeq(h.fields, LAMBDA f : ~Removes(h, f.name, keepTrailer, keepUpgrade))

\* sanitize_response_head; connection is what the new Connection field says,
\* or <<>> for none.
Sanitized(h, connection, keepTrailer, keepUpgrade) ==
    [h EXCEPT !.fields =
        Kept(h, keepTrailer, keepUpgrade)
        \o IF connection = <<>> THEN <<>> ELSE <<Field("connection", connection)>>]

Sanitizable(h, keepTrailer, keepUpgrade) ==
    /\ GoodConnection(h)
    /\ \A i \in DOMAIN Named(Kept(h, keepTrailer, keepUpgrade), "trailer") :
          GoodTrailer(Named(Kept(h, keepTrailer, keepUpgrade), "trailer")[i].value)

\* response_allows_client_reuse
AllowsReuse(h, closeDelimited) ==
    /\ ~closeDelimited /\ ~ContainsToken(h.fields, "connection", "close")
    /\ h.version = "1.1" \/ ContainsToken(h.fields, "connection", "keep-alive")

\* downstream_connection_header
ConnectionHeader(h, reusable) ==
    IF ~reusable THEN <<"close">>
    ELSE IF h.version = "1.0" THEN <<"keep-alive">> ELSE <<>>

-----------------------------------------------------------------------------
(* forward_response, up to the body.                                       *)

Selected(h) == {Protocols[p] : p \in ToSet(Elements(h.fields, "upgrade"))}

\* validate_switching_protocols_response
GoodSwitch(h, protocols) ==
    /\ ContainsToken(h.fields, "connection", "upgrade")
    /\ \A i \in DOMAIN Named(h.fields, "upgrade") :
          GoodUpgrade(Named(h.fields, "upgrade")[i].value)
    /\ Selected(h) # {}
    /\ Selected(h) \subseteq {Protocols[p] : p \in protocols}

Switch(h, protocols) ==
    IF protocols = {} \/ ~GoodSwitch(h, protocols) \/ ~Sanitizable(h, FALSE, TRUE)
    THEN Refused
    ELSE [kind |-> "switched", head |-> Sanitized(h, <<"upgrade">>, FALSE, TRUE)]

Interim(h) ==
    IF ~Sanitizable(h, FALSE, FALSE) THEN Refused
    ELSE [kind |-> "interim", head |-> Sanitized(h, <<>>, FALSE, FALSE)]

Bodiless(h) ==
    IF ~Sanitizable(h, FALSE, FALSE) THEN Refused
    ELSE [kind |-> "final", reusable |-> AllowsReuse(h, FALSE), body |-> "none",
          head |-> Sanitized(h, ConnectionHeader(h, AllowsReuse(h, FALSE)),
                             FALSE, FALSE)]

Complete(h) ==
    LET closeDelimited == ~HasLength(h) /\ ~Chunked(h)
        reusable       == AllowsReuse(h, closeDelimited)
    IN IF \/ ~GoodCodings(h) \/ ~GoodLength(h)
          \/ Codings(h) # <<>> /\ HasLength(h)
          \/ ~Sanitizable(h, Chunked(h), FALSE)
       THEN Refused
       ELSE [kind |-> "final", reusable |-> reusable,
             body |-> IF Chunked(h) THEN "chunked"
                      ELSE IF HasLength(h) THEN "fixed" ELSE "eof",
             head |-> Sanitized(h, ConnectionHeader(h, reusable), Chunked(h), FALSE)]

Init ==
    /\ method \in Methods /\ requested \in Requested /\ head \in Heads
    /\ outcome = Pending

ForwardHead ==
    /\ outcome = Pending
    /\ outcome' = IF ~GoodSyntax(head) THEN Refused
                  ELSE IF head.status = 101 THEN Switch(head, requested)
                  ELSE IF head.status \in 100..199 THEN Interim(head)
                  ELSE IF HasNoBody(method, head) THEN Bodiless(head)
                  ELSE Complete(head)
    /\ UNCHANGED <<method, requested, head>>

Next == ForwardHead

Spec == Init /\ [][Next]_vars

-----------------------------------------------------------------------------
(* Properties.  A client may read a head in several ways: one that knows   *)
(* transfer codings, one that looks at the length first, and one that      *)
(* takes chunked wherever it is named.                                     *)

ClientBodies(h) ==
    LET coded  == Codings(h) # <<>>
        length == HasLength(h)
        Coding == IF "chunked" \in ToSet(Codings(h)) THEN "chunked" ELSE "eof"
    IN (IF coded THEN {Coding, IF Chunked(h) THEN "chunked" ELSE "eof"} ELSE {})
       \cup (IF length THEN {"fixed"} ELSE {})
       \cup (IF ~coded /\ ~length THEN {"eof"} ELSE {})

ClientKeeps(h) ==
    /\ ~ContainsToken(h.fields, "connection", "close")
    /\ h.version = "1.1" \/ ContainsToken(h.fields, "connection", "keep-alive")

\* However the client reads the head it is sent, it looks for the body that
\* the proxy streams after it and keeps the connection exactly when the
\* proxy does: the next response on the connection begins where the client
\* looks for it.
ClientAgrees ==
    (outcome.kind = "final") =>
        /\ outcome.body # "none" => ClientBodies(outcome.head) = {outcome.body}
        /\ outcome.body = "eof" => ~ClientKeeps(outcome.head)
        /\ ClientKeeps(outcome.head) = outcome.reusable

\* Nothing that concerns the upstream connection alone reaches the client,
\* and a framing field the proxy relied on is not taken away.
HopStaysBehind ==
    (outcome.kind \in {"interim", "final", "switched"}) =>
        LET sent == outcome.head.fields
        IN /\ \A i \in DOMAIN sent :
                 sent[i].name \in ConnectionTokens(head) \ {"connection"} =>
                    outcome.kind = "switched" /\ sent[i].name = "upgrade"
           /\ Len(Named(sent, "connection")) <= 1
           /\ \A name \in {"content-length", "transfer-encoding"} :
                 Named(sent, name) = Named(head.fields, name)

\* The client is switched only to what it asked for, and is told so.
SwitchedAsRequested ==
    (outcome.kind = "switched") =>
        LET sent == outcome.head.fields
        IN /\ ContainsToken(sent, "connection", "upgrade")
           /\ Elements(sent, "upgrade") # <<>>
           /\ \A p \in ToSet(Elements(sent, "upgrade")) :
                 \E q \in requested : Protocols[p] = Protocols[q]
=============================================================================
