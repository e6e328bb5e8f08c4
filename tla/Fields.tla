------------------------------- MODULE Fields -------------------------------
(***************************************************************************)
(* Header fields as proxy.rs and http.rs look at them.  A field is         *)
(* [name, value]; names are in lower case, since every comparison ignores  *)
(* case, and a value is the sequence of its elements between commas,       *)
(* without the blanks around them.                                         *)
(***************************************************************************)
EXTENDS Naturals, Sequences, SequencesExt, TLC

Field(name, value) == [name |-> name, value |-> value]

Named(fields, name) == SelectSeq(fields, LAMBDA f : f.name = name)

\* The elements of all fields of a name, in order.
Elements(fields, name) ==
    FlattenSeq([i \in DOMAIN Named(fields, name) |-> Named(fields, name)[i].value])

\* header_contains_token, response_header_contains_token and
\* named_by_connection_header.
ContainsToken(fields, name, token) == token \in ToSet(Elements(fields, name))

\* Elements that are no token: empty, or with other bytes in them.
NoTokens == {"", "(bad)"}

Forbidden ==
    {"content-length", "transfer-encoding", "host", "connection", "keep-alive",
     "proxy-connection", "te", "trailer", "upgrade"}

\* validate_trailer_header_value
GoodTrailer(value) == ToSet(value) \cap (NoTokens \cup Forbidden) = {}

\* The decimal numbers that occur, as u64 parses them.
Lengths == "5" :> 5 @@ "05" :> 5 @@ "7" :> 7

\* Protocols that occur in Upgrade fields: name and version.  The name is
\* compared without case, the version is not.
Protocols ==
    "ws" :> <<"ws", "">> @@ "WS" :> <<"ws", "">> @@ "h/2" :> <<"h", "2">>
    @@ "H/2" :> <<"h", "2">> @@ "h/3" :> <<"h", "3">>

\* parse_upgrade_protocols accepts the value.
GoodUpgrade(value) == ToSet(value) \subseteq DOMAIN Protocols
=============================================================================
