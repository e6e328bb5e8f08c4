---------------------------- MODULE TlsIdentities ----------------------------
(***************************************************************************)
(* tls_identity.rs: the certificate and key files of the configuration are *)
(* loaded one pair after another into a TlsIdentityStore, which is refused *)
(* when two names are the same; select() then finds the identity for the   *)
(* server name of a ClientHello.                                           *)
(*                                                                         *)
(* A name is a sequence of labels; the last one is "" for a name that ends *)
(* in a dot.  "A" and "B" are the upper case of "a" and "b".               *)
(***************************************************************************)
EXTENDS Naturals, Sequences, SequencesExt, FiniteSetsExt

CONSTANTS
    FileLists,    \* the lists of file pairs a configuration may name
    ServerNames   \* the names clients ask for

Empty == ""

Defects == {"certificate", "chain", "no names", "key", "mismatch"}

\* validate_dns_name of asn1.rs: a name in a certificate has no empty label.
Assumptions ==
    /\ FileLists \subseteq
          Seq([names : Seq(Seq(STRING \ {Empty}) \ {<<>>}), defect : Defects \cup {"none"}])
    /\ ServerNames \subseteq Seq(STRING)

VARIABLES
    files,       \* the pairs, in the order of the configuration
    identities,  \* identities loaded so far: their dns_names
    store,       \* "loading", "ready", "none", or the error
    asked,       \* the server name looked up last
    selected     \* place of the identity found for it, 0 for None

vars == <<files, identities, store, asked, selected>>

NoName == <<>>

Lower(label) == CASE label = "A" -> "a" [] label = "B" -> "b" [] OTHER -> label

\* to_ascii_lowercase, and eq_ignore_ascii_case by comparing results of it.
Normalized(name) == [i \in 1..Len(name) |-> Lower(name[i])]

IsWildcard(name) == Len(name) > 1 /\ name[1] = "*"

\* Mutant: a wildcard stands for any number of labels.
DnsNameMatchesDeep(presented, server) ==
    /\ server # NoName /\ Last(server) # Empty
    /\ \/ Normalized(presented) = Normalized(server)
       \/ /\ IsWildcard(presented) /\ Len(server) > 1 /\ server[1] # Empty
          /\ \E n \in 1..(Len(server) - 1) :
                Normalized(SubSeq(server, n + 1, Len(server)))
                   = Normalized(Tail(presented))

\* dns_name_matches: the same name, or a wildcard for its leftmost label.
DnsNameMatches(presented, server) ==
    /\ server # NoName /\ Last(server) # Empty
    /\ \/ Normalized(presented) = Normalized(server)
       \/ /\ IsWildcard(presented) /\ Len(server) > 1 /\ server[1] # Empty
          /\ Normalized(Tail(server)) = Normalized(Tail(presented))

MatchesServerName(names, server) ==
    \E i \in 1..Len(names) : DnsNameMatches(names[i], server)

MatchesServerNameExactly(names, server) ==
    \E i \in 1..Len(names) :
        ~IsWildcard(names[i]) /\ Normalized(names[i]) = Normalized(server)

\* find(): the first of the places that passed, 0 for None.
First(places) == IF places = {} THEN 0 ELSE Min(places)

\* select(): an exact name goes before a wildcard, wherever they stand.
Select(list, server) ==
    LET exact    == {i \in 1..Len(list) : MatchesServerNameExactly(list[i], server)}
        matching == {i \in 1..Len(list) : MatchesServerName(list[i], server)}
    IN IF exact # {} THEN First(exact) ELSE First(matching)

Init ==
    /\ files \in FileLists
    /\ identities = <<>>
    /\ store = IF files = <<>> THEN "none" ELSE "loading"
    /\ asked = NoName /\ selected = 0

Current == files[Len(identities) + 1]

\* load_pem_files.
LoadIdentity ==
    /\ store = "loading" /\ Len(identities) < Len(files)
    /\ Current.defect = "none"
    /\ identities' = Append(identities, Current.names)
    /\ UNCHANGED <<files, store, asked, selected>>

\* The first pair that cannot be used ends the loading.
LoadFails ==
    /\ store = "loading" /\ Len(identities) < Len(files)
    /\ Current.defect \in Defects
    /\ store' = Current.defect
    /\ UNCHANGED <<files, identities, asked, selected>>

\* Where the names are: the identity, and the place among its names.
Places ==
    UNION {{<<i, k>> : k \in 1..Len(identities[i])} : i \in 1..Len(identities)}

PresentedName(place) == Normalized(identities[place[1]][place[2]])

\* presented_names.insert() of one of them is false.
Duplicate ==
    \E p, q \in Places : p # q /\ PresentedName(p) = PresentedName(q)

BuildStore ==
    /\ store = "loading" /\ Len(identities) = Len(files)
    /\ store' = IF Duplicate THEN "duplicate" ELSE "ready"
    /\ UNCHANGED <<files, identities, asked, selected>>

\* A connection looks up the name of its ClientHello.
LookUp(server) ==
    /\ store = "ready"
    /\ asked' = server /\ selected' = Select(identities, server)
    /\ UNCHANGED <<files, identities, store>>

Next == LoadIdentity \/ LoadFails \/ BuildStore
        \/ \E server \in ServerNames : LookUp(server)

Spec == Init /\ [][Next]_vars

-----------------------------------------------------------------------------
(* Properties.                                                             *)

\* The places of identities that present exactly this name.
Presenting(name) ==
    {i \in 1..Len(identities) :
        \E n \in ToSet(identities[i]) : Normalized(n) = Normalized(name)}

\* The identity for a name is the one whose certificate presents it or else
\* the one with the wildcard just above it; there is none otherwise, and
\* never a choice between two.
SelectsTheClaimant ==
    (store = "ready" /\ asked # NoName) =>
        LET wildcard == <<"*">> \o Tail(asked)
            exact    == Presenting(asked)
            claimed  == IF exact # {} THEN exact
                        ELSE IF Len(asked) > 1 /\ asked[1] # Empty
                        THEN Presenting(wildcard) ELSE {}
        IN IF Last(asked) = Empty \/ claimed = {}
           THEN selected = 0
           ELSE claimed = {selected}

\* The order of the tls_identity lines decides nothing: every reordering of
\* a list of files that was accepted answers every name with the same
\* identity.
OrderDecidesNothing ==
    \A p \in {f \in [1..Len(identities) -> 1..Len(identities)] : IsInjective(f)} :
        LET reordered == [i \in 1..Len(identities) |-> identities[p[i]]]
            found == Select(reordered, asked)
        IN store = "ready" =>
              (IF found = 0 THEN 0 ELSE p[found]) = Select(identities, asked)
=============================================================================
