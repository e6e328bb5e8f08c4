---------------------------- MODULE HelloVectors ----------------------------
(***************************************************************************)
(* The length-prefixed lists inside the extensions of a ClientHello, and   *)
(* the HandshakeReader of tls.rs that takes them apart: key_share,         *)
(* application_layer_protocol_negotiation, server_name, and the vectors of *)
(* two-byte values.                                                        *)
(*                                                                         *)
(* A length and a tag (group or name type) are one byte each; bytes are    *)
(* 0..MaxByte, except that the length of a single name may be larger.  In  *)
(* a host name 0 is a dot, 1 a hyphen, 2 a letter and no other byte may    *)
(* stand; the limits on names are scaled.  An address in place of a name,  *)
(* and the change to lower case, are left out.                             *)
(***************************************************************************)
EXTENDS Naturals, Sequences, SequencesExt

CONSTANTS
    MaxBody,   \* bound on the bytes of a list
    MaxByte,   \* the largest byte
    MaxName,   \* 253, the longest host name
    MaxLabel   \* 63, the longest label

Assumptions == {MaxBody, MaxByte, MaxName, MaxLabel} \subseteq Nat

VARIABLES
    kind,      \* which extension
    declared,  \* the length the list is given
    body,      \* the bytes that follow it
    offset,    \* HandshakeReader.offset within the list
    items,     \* entries read so far
    outcome    \* "start", "reading", "accepted" or "refused"

vars == <<kind, declared, body, offset, items, outcome>>

Byte == 0..MaxByte
Dot == 0
Hyphen == 1
Letter == 2

Kinds == {"key_share", "alpn", "server_name", "values"}

Remaining == Len(body) - offset

\* Bytes before the length of an entry: its group or its name type.
TagSize == IF kind = "alpn" THEN 0 ELSE 1

\* is_valid_server_name, label by label.
IsValidName(name) ==
    LET dots == {0, Len(name) + 1} \cup {i \in 1..Len(name) : name[i] = Dot}
    IN /\ name # <<>> /\ Len(name) <= MaxName
       /\ \A i \in 1..Len(name) : name[i] \in {Dot, Hyphen, Letter}
       /\ \A a, b \in dots :
             (a < b /\ \A i \in dots : ~(a < i /\ i < b)) =>
                /\ a + 1 < b
                /\ b - a - 1 <= MaxLabel
                /\ name[a + 1] # Hyphen /\ name[b - 1] # Hyphen

Strings(max) == UNION {[1..n -> Byte] : n \in 0..max}

Init ==
    /\ kind \in Kinds
    /\ \/ declared \in 0..(MaxBody + 1) /\ body \in Strings(MaxBody)
       \/ /\ kind = "server_name"
          /\ \E tag \in 0..1, n \in 0..(MaxName + 2), name \in Strings(MaxName + 1) :
                body = <<tag, n>> \o name
          /\ declared = Len(body)
    /\ offset = 0 /\ items = <<>> /\ outcome = "start"

Refuse ==
    /\ outcome' = "refused"
    /\ UNCHANGED <<kind, declared, body, offset, items>>

\* The outer vector: it must be all of the extension, and not empty, except
\* that a client may offer no share.
OuterGood == declared = Len(body) /\ (body = <<>> => kind = "key_share")

ReadOuter ==
    /\ outcome = "start" /\ kind # "values"
    /\ OuterGood
    /\ outcome' = "reading"
    /\ UNCHANGED <<kind, declared, body, offset, items>>

RefuseOuter == outcome = "start" /\ kind # "values" /\ ~OuterGood /\ Refuse

\* parse_u16_values: at least one value, and no odd byte.
ValuesGood == declared = Len(body) /\ Len(body) >= 2 /\ Len(body) % 2 = 0

ReadValues ==
    /\ outcome = "start" /\ kind = "values" /\ ValuesGood
    /\ items' = [i \in 1..(Len(body) \div 2) |-> <<body[2*i - 1], body[2*i]>>]
    /\ offset' = Len(body) /\ outcome' = "accepted"
    /\ UNCHANGED <<kind, declared, body>>

RefuseValues == outcome = "start" /\ kind = "values" /\ ~ValuesGood /\ Refuse

\* read_exact: are there n bytes from the offset?
Available(n) == n <= Remaining

\* The entry at the offset, when it is there.
EntryLength == TagSize + 1 + body[offset + TagSize + 1]

Entry == SubSeq(body, offset + 1, offset + EntryLength)

Data(entry) == SubSeq(entry, TagSize + 2, Len(entry))

\* Mutant: two entries may have the same tag.
EntryGoodRepeated(entry) ==
    CASE kind = "server_name" -> entry[1] = 0 => IsValidName(Data(entry))
      [] OTHER -> Data(entry) # <<>>

\* What each loop checks of an entry.
EntryGood(entry) ==
    /\ CASE kind = "server_name" -> entry[1] = 0 => IsValidName(Data(entry))
         [] OTHER -> Data(entry) # <<>>
    /\ kind # "alpn" => \A i \in 1..Len(items) : items[i][1] # entry[1]

EntryThere == Available(TagSize + 1) /\ Available(EntryLength)

ReadEntry ==
    /\ outcome = "reading" /\ Remaining # 0
    /\ EntryThere /\ EntryGood(Entry)
    /\ items' = Append(items, Entry) /\ offset' = offset + EntryLength
    /\ UNCHANGED <<kind, declared, body, outcome>>

RefuseEntry ==
    /\ outcome = "reading" /\ Remaining # 0
    /\ ~(EntryThere /\ EntryGood(Entry))
    /\ Refuse

Accept ==
    /\ outcome = "reading" /\ Remaining = 0
    /\ outcome' = "accepted"
    /\ UNCHANGED <<kind, declared, body, offset, items>>

Next == ReadOuter \/ RefuseOuter \/ ReadValues \/ RefuseValues
        \/ ReadEntry \/ RefuseEntry \/ Accept

Spec == Init /\ [][Next]_vars

-----------------------------------------------------------------------------
(* Properties.                                                             *)

\* The bytes cut at the given places.
Pieces(cuts) ==
    LET ends == cuts \cup {0, Len(body)}
    IN {p \in ends \X ends :
           p[1] < p[2] /\ \A c \in ends : ~(p[1] < c /\ c < p[2])}

\* A reference for the names: words of letters, with hyphens only inside,
\* joined by dots.
NameShape(name) ==
    /\ name # <<>> /\ Len(name) <= MaxName
    /\ \A i \in 1..Len(name) :
          \/ name[i] = Letter
          \/ /\ name[i] \in {Dot, Hyphen} /\ 1 < i /\ i < Len(name)
             /\ name[i] = Dot => name[i - 1] = Letter /\ name[i + 1] = Letter
             /\ name[i] = Hyphen => name[i - 1] # Dot /\ name[i + 1] # Dot
    /\ \A i \in 1..(Len(name) - MaxLabel) :
          \E j \in i..(i + MaxLabel) : name[j] = Dot

PieceGood(piece) ==
    /\ Len(piece) > TagSize /\ Len(piece) = TagSize + 1 + piece[TagSize + 1]
    /\ kind \in {"alpn", "key_share"} => Len(piece) > TagSize + 1
    /\ (kind = "server_name" /\ piece[1] = 0) =>
          NameShape(SubSeq(piece, TagSize + 2, Len(piece)))

\* The list is well formed: it can be cut into entries of the announced
\* lengths that do not repeat a tag.
WellFormed ==
    /\ declared = Len(body)
    /\ body = <<>> => kind = "key_share"
    /\ kind = "values" => Len(body) % 2 = 0
    /\ kind # "values" =>
          \E cuts \in SUBSET (1..(Len(body) - 1)) :
             /\ \A p \in Pieces(cuts) : PieceGood(SubSeq(body, p[1] + 1, p[2]))
             /\ kind # "alpn" =>
                   \A p, q \in Pieces(cuts) :
                      body[p[1] + 1] = body[q[1] + 1] => p = q

\* The extensions accepted are exactly the well formed ones: no length makes
\* the reader run into the next field, stop short or skip a byte.
AcceptsExactly == outcome \in {"accepted", "refused"} =>
                     (outcome = "accepted" <=> WellFormed)

\* What the entries hold is what the extension says: put together again they
\* are its bytes.
NothingSkipped == outcome # "refused" =>
                     FlattenSeq(items) = SubSeq(body, 1, offset)
                     /\ (outcome = "accepted" => offset = Len(body))
=============================================================================
