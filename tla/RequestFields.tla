---------------------------- MODULE RequestFields ----------------------------
(***************************************************************************)
(* The fields of a request, from the parser of http.rs to the head that    *)
(* serialize_request_head of proxy.rs sends upstream in its place.         *)
(***************************************************************************)
EXTENDS Fields, FiniteSets

CONSTANTS
    Requests,    \* sequences of fields a client may send
    Hosts,       \* Host values that is_valid_host_authority accepts
    ClientIp,    \* the address of the client
    Proto        \* ForwardedProto: "http" or "https"

VARIABLES
    fields,      \* what the client sent
    outcome      \* what becomes of it

vars == <<fields, outcome>>

Pending == [kind |-> "pending"]
Refused == [kind |-> "refused"]

-----------------------------------------------------------------------------
(* http.rs                                                                 *)

LengthElements(fs) == ToSet(Elements(fs, "content-length"))

\* Mutant: the first of several lengths counts.
GoodLengthFirst(fs) == LengthElements(fs) \subseteq DOMAIN Lengths

\* parse_content_length does not fail: lists and repetitions of one number.
GoodLength(fs) ==
    /\ LengthElements(fs) \subseteq DOMAIN Lengths
    /\ Cardinality({Lengths[e] : e \in LengthElements(fs)}) <= 1

ContentLength(fs) == Lengths[Elements(fs, "content-length")[1]]

\* parse_transfer_encoding does not fail: chunked, once.
GoodCodings(fs) ==
    Elements(fs, "transfer-encoding") \in {<<>>, <<"chunked">>}

HasTransferEncoding(fs) == Elements(fs, "transfer-encoding") # <<>>

\* The end of parse_request_with_consumed.
Parses(fs) ==
    /\ GoodLength(fs) /\ GoodCodings(fs)
    /\ ~(LengthElements(fs) # {} /\ HasTransferEncoding(fs))

\* Request::host finds one.
GoodHost(fs) ==
    Len(Named(fs, "host")) = 1 /\ Named(fs, "host")[1].value[1] \in Hosts

Host(fs) == Named(fs, "host")[1].value

-----------------------------------------------------------------------------
(* proxy.rs                                                                *)

NamedByConnection(fs, name) == ContainsToken(fs, "connection", name)

\* should_replace_header
Replaces(fs, name) ==
    \/ name \in Forbidden \cup {"x-forwarded-for", "x-forwarded-host", "x-forwarded-proto"}
    \/ NamedByConnection(fs, name)

UpgradeProtocols(fs) == Elements(fs, "upgrade")

\* request_upgrade_protocols does not fail.
GoodUpgrades(fs) ==
    /\ \A i \in DOMAIN Named(fs, "upgrade") : GoodUpgrade(Named(fs, "upgrade")[i].value)
    /\ (UpgradeProtocols(fs) # <<>>) = NamedByConnection(fs, "upgrade")

\* request_accepts_trailers
AcceptsTrailers(fs) ==
    NamedByConnection(fs, "te") /\ ContainsToken(fs, "te", "trailers")

\* The Trailer fields that are passed on with a chunked body.
Trailers(fs) ==
    IF ~HasTransferEncoding(fs) \/ NamedByConnection(fs, "trailer") THEN <<>>
    ELSE Named(fs, "trailer")

When(condition, name, value) ==
    IF condition THEN <<Field(name, value)>> ELSE <<>>

\* serialize_request_head, of fields it accepts.
Serialize(fs) ==
    SelectSeq(fs, LAMBDA f : ~Replaces(fs, f.name))
    \o <<Field("host", Host(fs))>>
    \o (IF LengthElements(fs) = {} THEN <<>>
        ELSE <<Field("content-length", <<ToString(ContentLength(fs))>>)>>)
    \o When(HasTransferEncoding(fs), "transfer-encoding", <<"chunked">>)
    \o Trailers(fs)
    \o When(AcceptsTrailers(fs), "te", <<"trailers">>)
    \o When(UpgradeProtocols(fs) # <<>>, "upgrade", UpgradeProtocols(fs))
    \o When(AcceptsTrailers(fs) \/ UpgradeProtocols(fs) # <<>>, "connection",
            (IF AcceptsTrailers(fs) THEN <<"te">> ELSE <<>>)
            \o (IF UpgradeProtocols(fs) # <<>> THEN <<"upgrade">> ELSE <<>>))
    \o <<Field("x-forwarded-for", <<ClientIp>>), Field("x-forwarded-host", Host(fs)),
         Field("x-forwarded-proto", <<Proto>>)>>

Serializable(fs) ==
    /\ GoodHost(fs) /\ GoodUpgrades(fs)
    /\ \A i \in DOMAIN Trailers(fs) : GoodTrailer(Trailers(fs)[i].value)

-----------------------------------------------------------------------------

Init ==
    /\ fields \in Requests
    /\ outcome = Pending

ForwardHead ==
    /\ outcome = Pending
    /\ outcome' = IF ~Parses(fields) \/ ~Serializable(fields) THEN Refused
                  ELSE [kind |-> "forwarded", head |-> Serialize(fields)]
    /\ UNCHANGED fields

Next == ForwardHead

Spec == Init /\ [][Next]_vars

-----------------------------------------------------------------------------
(* Properties.                                                             *)

Forwarded == outcome.kind = "forwarded"

\* Bodies that some reader of fields may look for: the number of the first,
\* the last or any length, chunks, or none.
Bodies(fs) ==
    LET lengths == {<<"fixed", Lengths[e]>> : e \in LengthElements(fs) \cap DOMAIN Lengths}
        chunks  == IF HasTransferEncoding(fs) THEN {<<"chunked">>} ELSE {}
    IN IF lengths \cup chunks = {} THEN {<<"none">>} ELSE lengths \cup chunks

\* The upstream looks for the body that the proxy streams, and so does the
\* client: every reading of the fields on both sides is the same one, so the
\* end of the request is in the same place for all three.
BodyIsUnambiguous ==
    Forwarded =>
        /\ Cardinality(Bodies(fields)) = 1
        /\ Bodies(outcome.head) = Bodies(fields)
        /\ Len(Named(outcome.head, "content-length")) <= 1
        /\ Len(Named(outcome.head, "transfer-encoding")) <= 1

\* The fields that speak for the proxy are its own: one of each, whatever
\* the client sent, and the Host that was routed by.
SpeaksForItself ==
    Forwarded =>
        /\ Named(outcome.head, "x-forwarded-for") = <<Field("x-forwarded-for", <<ClientIp>>)>>
        /\ Named(outcome.head, "x-forwarded-proto") = <<Field("x-forwarded-proto", <<Proto>>)>>
        /\ Elements(outcome.head, "x-forwarded-host") = Elements(fields, "host")
        /\ Named(outcome.head, "host") = Named(fields, "host")

\* A field of the connection goes upstream only with the Connection field
\* that makes it one, when the client asked for it the same way, and what
\* the client's Connection names otherwise stays behind.
HopIsRenewed ==
    Forwarded =>
        /\ \A name \in {"te", "upgrade"} :
              Named(outcome.head, name) # <<>> =>
                 /\ ContainsToken(outcome.head, "connection", name)
                 /\ ContainsToken(fields, "connection", name)
        /\ ToSet(Elements(outcome.head, "connection")) \subseteq {"te", "upgrade"}
        /\ \A name \in {"trailer", "keep-alive", "proxy-connection", "x"} :
              ContainsToken(fields, "connection", name) => Named(outcome.head, name) = <<>>
=============================================================================
