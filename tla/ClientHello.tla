----------------------------- MODULE ClientHello -----------------------------
(***************************************************************************)
(* parse_client_hello of tls.rs: the fixed fields, the extensions one      *)
(* after another, the extensions that must come together, and the order of *)
(* the key shares against the supported groups.                            *)
(*                                                                         *)
(* The bodies of the extensions are parsed in HelloVectors; here a hello   *)
(* has the values they yield.  "other" stands for an extension the server  *)
(* does not know.                                                          *)
(***************************************************************************)
EXTENDS Naturals, Sequences, FiniteSets

CONSTANTS
    Hellos,       \* the hellos clients may send
    MaxSessionId  \* 32, the longest legacy_session_id

VARIABLES
    hello,      \* the hello being parsed
    seen,       \* seen_extensions
    psk,        \* pre_shared_key_present
    next,       \* the extension, and later the key share, to look at
    previous,   \* previous_group_index, 0 for None
    phase       \* "fields", "extensions", "required", "shares",
                \* "accepted" or "refused"

vars == <<hello, seen, psk, next, previous, phase>>

Types == {"server_name", "groups", "signatures", "psk", "versions",
          "key_share", "other"}

\* A hello: the length it declares against the one it has, its session id
\* and cipher suite bytes, whether the compression methods are null only,
\* the types of its extensions, whether versions offers TLS 1.3, and the
\* groups of supported_groups and key_share.
HelloType ==
    [lengthGood : BOOLEAN, session : Nat, suites : Nat, nullOnly : BOOLEAN,
     extensions : Seq(Types), tls13 : BOOLEAN, groups : Seq(Nat),
     shares : Seq(Nat)]

Assumptions == MaxSessionId \in Nat /\ Hellos \subseteq HelloType

Init ==
    /\ hello \in Hellos
    /\ seen = {} /\ psk = FALSE /\ next = 1 /\ previous = 0
    /\ phase = "fields"

Refuse ==
    /\ phase' = "refused"
    /\ UNCHANGED <<hello, seen, psk, next, previous>>

-----------------------------------------------------------------------------
(* The fixed fields.                                                       *)

FieldsGood ==
    /\ hello.lengthGood
    /\ hello.session <= MaxSessionId
    /\ hello.suites >= 2 /\ hello.suites % 2 = 0
    /\ hello.nullOnly

ReadFields ==
    /\ phase = "fields" /\ FieldsGood /\ phase' = "extensions"
    /\ UNCHANGED <<hello, seen, psk, next, previous>>

RefuseFields == phase = "fields" /\ ~FieldsGood /\ Refuse

-----------------------------------------------------------------------------
(* parse_client_hello_extensions.                                          *)

\* Mutant: an unknown extension may be repeated.
ExtensionGoodOnce(type) ==
    /\ type \notin seen \/ type = "other"
    /\ type = "psk" => next = Len(hello.extensions)

\* Not seen before, and nothing behind pre_shared_key.
ExtensionGood(type) ==
    /\ type \notin seen
    /\ type = "psk" => next = Len(hello.extensions)

ReadExtension ==
    /\ phase = "extensions" /\ next <= Len(hello.extensions)
    /\ LET type == hello.extensions[next]
       IN /\ ExtensionGood(type)
          /\ seen' = seen \cup {type}
          /\ psk' = (psk \/ type = "psk")
    /\ next' = next + 1
    /\ UNCHANGED <<hello, previous, phase>>

RefuseExtension ==
    /\ phase = "extensions" /\ next <= Len(hello.extensions)
    /\ ~ExtensionGood(hello.extensions[next])
    /\ Refuse

EndExtensions ==
    /\ phase = "extensions" /\ next > Len(hello.extensions)
    /\ phase' = "required"
    /\ UNCHANGED <<hello, seen, psk, next, previous>>

-----------------------------------------------------------------------------
(* The extensions that must be there.                                      *)

RequiredGood ==
    /\ "versions" \in seen /\ hello.tls13
    /\ ~psk => {"signatures", "groups"} \subseteq seen
    /\ "groups" \in seen <=> "key_share" \in seen

CheckRequired ==
    /\ phase = "required" /\ RequiredGood
    /\ \/ "groups" \in seen /\ phase' = "shares" /\ next' = 1
       \/ "groups" \notin seen /\ phase' = "accepted" /\ UNCHANGED next
    /\ UNCHANGED <<hello, seen, psk, previous>>

RefuseRequired == phase = "required" /\ ~RequiredGood /\ Refuse

-----------------------------------------------------------------------------
(* validate_key_share_groups.                                              *)

\* position(): the first place of a group in supported_groups, 0 for None.
Position(group) ==
    LET places == {i \in 1..Len(hello.groups) : hello.groups[i] = group}
    IN IF places = {} THEN 0
       ELSE CHOOSE i \in places : \A j \in places : i <= j

\* Offered, and behind the group of the share before it.
ShareGood(group) == Position(group) > previous

CheckShare ==
    /\ phase = "shares" /\ next <= Len(hello.shares)
    /\ ShareGood(hello.shares[next])
    /\ previous' = Position(hello.shares[next])
    /\ next' = next + 1
    /\ UNCHANGED <<hello, seen, psk, phase>>

RefuseShare ==
    /\ phase = "shares" /\ next <= Len(hello.shares)
    /\ ~ShareGood(hello.shares[next])
    /\ Refuse

Accept ==
    /\ phase = "shares" /\ next > Len(hello.shares)
    /\ phase' = "accepted"
    /\ UNCHANGED <<hello, seen, psk, next, previous>>

Next == ReadFields \/ RefuseFields \/ ReadExtension \/ RefuseExtension
        \/ EndExtensions \/ CheckRequired \/ RefuseRequired
        \/ CheckShare \/ RefuseShare \/ Accept

Spec == Init /\ [][Next]_vars

-----------------------------------------------------------------------------
(* Properties.                                                             *)

Offered == {hello.extensions[i] : i \in 1..Len(hello.extensions)}

\* The shares are some of the groups, in the order of the groups.
SharesFollowGroups ==
    \E f \in [1..Len(hello.shares) -> 1..Len(hello.groups)] :
        /\ \A i \in 1..Len(hello.shares) : hello.groups[f[i]] = hello.shares[i]
        /\ \A i, j \in 1..Len(hello.shares) : i < j => f[i] < f[j]

\* What TLS 1.3 asks of a ClientHello that this server can go on with.
Conforming ==
    /\ hello.lengthGood /\ hello.nullOnly
    /\ hello.session \in 0..MaxSessionId
    /\ hello.suites \in {2 * n : n \in 1..hello.suites}
    /\ Cardinality(Offered) = Len(hello.extensions)
    /\ "psk" \in Offered => hello.extensions[Len(hello.extensions)] = "psk"
    /\ "versions" \in Offered /\ hello.tls13
    /\ "psk" \in Offered \/ {"signatures", "groups"} \subseteq Offered
    /\ "groups" \in Offered <=> "key_share" \in Offered
    /\ "groups" \in Offered => SharesFollowGroups

\* No group is named twice.  Where one is, position() finds its first place
\* only, and shares that follow a later one are refused.
GroupsDistinct ==
    \A i, j \in 1..Len(hello.groups) : hello.groups[i] = hello.groups[j] => i = j

\* A hello is accepted only if it conforms, wherever in it the defect is.
AcceptsOnlyConforming == phase = "accepted" => Conforming

\* No conforming hello is refused: not for an extension the server does not
\* know, for shares that skip groups, or for an order of extensions.
RefusesNoConforming == phase = "refused" => ~(Conforming /\ GroupsDistinct)
=============================================================================
