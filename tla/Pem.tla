--------------------------------- MODULE Pem ---------------------------------
(***************************************************************************)
(* PEM text: pem_encode, pem_decode of the first block with a label, and   *)
(* decode_x509_certificate_chain_pem of every certificate, line by line,   *)
(* over the Base64 of asn1.rs and crypto.rs.  A character stands for three *)
(* bits and a byte has four, so that three bytes are four characters as in *)
(* the code.  A line is a boundary with its label or text; the blanks that *)
(* lines end in are gone, those inside a text are Blank.                   *)
(***************************************************************************)
EXTENDS Integers, Sequences, SequencesExt, FiniteSetsExt

CONSTANTS
    Label,         \* the label looked for
    Files,         \* sequences of lines that are read
    Ders,          \* byte sequences that are written, then read
    PemLineWidth   \* PEM_LINE_WIDTH

Assumptions == PemLineWidth \in Nat \ {0}

VARIABLES
    mode,      \* "first" (pem_decode) or "chain"
    file,      \* the lines
    written,   \* the bytes the file was written from, in a sequence, or <<>>
    line,      \* lines that were read
    inside,    \* found_begin, inside_certificate
    base64,    \* characters of the block so far
    decoded,   \* byte sequences decoded so far
    result     \* "reading", or how it ended

vars == <<mode, file, written, line, inside, base64, decoded, result>>

Bytes == 0..15
Characters == 0..7    \* decode_base64_character
Pad == 8              \* =
Other == 9            \* any character that is none of the others
Blank == 10           \* a space or tab

Boundary(mark, label) == [mark |-> mark, label |-> label, text |-> <<Other>>]
Text(characters) == [mark |-> "none", label |-> "none", text |-> characters]

Begin == Boundary("begin", Label)
End == Boundary("end", Label)

-----------------------------------------------------------------------------
(* Base64.                                                                 *)

\* The characters of one, two or three bytes.
EncodeGroup(g) ==
    CASE Len(g) = 1 -> <<g[1] \div 2, (g[1] % 2) * 4, Pad, Pad>>
      [] Len(g) = 2 -> <<g[1] \div 2, (g[1] % 2) * 4 + g[2] \div 4,
                         (g[2] % 4) * 2, Pad>>
      [] Len(g) = 3 -> <<g[1] \div 2, (g[1] % 2) * 4 + g[2] \div 4,
                         (g[2] % 4) * 2 + g[3] \div 8, g[3] % 8>>

\* A sequence in pieces of n elements, the last perhaps shorter: chunks.
Chunks(s, n) ==
    [i \in 1..((Len(s) + n - 1) \div n) |->
        SubSeq(s, (i - 1) * n + 1, Min({i * n, Len(s)}))]

Encode(der) ==
    FlattenSeq([i \in DOMAIN Chunks(der, 3) |-> EncodeGroup(Chunks(der, 3)[i])])

\* Mutant: bits that no byte takes may be set.
GoodQuartetLoose(q, last) ==
    /\ q[1] \in Characters /\ q[2] \in Characters
    /\ \/ q[3] = Pad /\ q[4] = Pad /\ last
       \/ q[3] \in Characters /\ q[4] = Pad /\ last
       \/ q[3] \in Characters /\ q[4] \in Characters

\* decode_base64 goes on after this quartet.
GoodQuartet(q, last) ==
    /\ q[1] \in Characters /\ q[2] \in Characters
    /\ \/ q[3] = Pad /\ q[4] = Pad /\ last /\ q[2] % 4 = 0
       \/ q[3] \in Characters /\ q[4] = Pad /\ last /\ q[3] % 2 = 0
       \/ q[3] \in Characters /\ q[4] \in Characters

DecodeQuartet(q) ==
    <<q[1] * 2 + q[2] \div 4>>
    \o (IF q[3] = Pad THEN <<>> ELSE <<(q[2] % 4) * 4 + q[3] \div 2>>)
    \o (IF q[4] = Pad THEN <<>> ELSE <<(q[3] % 2) * 8 + q[4]>>)

GoodBase64(characters) ==
    /\ Len(characters) % 4 = 0
    /\ LET quartets == Chunks(characters, 4)
       IN \A i \in DOMAIN quartets : GoodQuartet(quartets[i], i = Len(quartets))

Decode(characters) ==
    LET quartets == Chunks(characters, 4)
    IN FlattenSeq([i \in DOMAIN quartets |-> DecodeQuartet(quartets[i])])

-----------------------------------------------------------------------------
(* The lines.                                                              *)

PemEncode(der) ==
    LET lines == Chunks(Encode(der), PemLineWidth)
    IN <<Begin>> \o [i \in DOMAIN lines |-> Text(lines[i])] \o <<End>>

Init ==
    /\ mode \in {"first", "chain"}
    /\ \/ file \in Files /\ written = <<>>
       \/ \E der \in Ders : file = PemEncode(der) /\ written = <<der>>
    /\ line = 0 /\ inside = FALSE /\ base64 = <<>> /\ decoded = <<>>
    /\ result = "reading"

Fail(error) ==
    /\ result' = error
    /\ UNCHANGED <<inside, base64, decoded>>

Outside(l) ==
    /\ ~inside
    /\ inside' = (l = Begin)
    /\ base64' = <<>>
    /\ UNCHANGED <<decoded, result>>

\* Mutant: the newest certificate comes first.
BlockEndReversed(l) ==
    /\ inside /\ l = End
    /\ IF ~GoodBase64(base64)
       THEN Fail("bad_base64")
       ELSE /\ decoded' = <<Decode(base64)>> \o decoded
            /\ inside' = FALSE /\ base64' = <<>>
            /\ result' = IF mode = "first" THEN "ok" ELSE "reading"

\* The END boundary: pem_decode leaves its loop and decodes, the chain goes
\* on with the next line.
BlockEnd(l) ==
    /\ inside /\ l = End
    /\ IF ~GoodBase64(base64)
       THEN Fail("bad_base64")
       ELSE /\ decoded' = Append(decoded, Decode(base64))
            /\ inside' = FALSE /\ base64' = <<>>
            /\ result' = IF mode = "first" THEN "ok" ELSE "reading"

\* Another boundary inside a block; pem_decode takes a BEGIN for text.
Mismatched(l) ==
    l # End /\ (l.mark = "end" \/ (l.mark = "begin" /\ mode = "chain"))

BlockMismatch(l) == inside /\ Mismatched(l) /\ Fail("label_mismatch")

BlockText(l) ==
    /\ inside /\ l # End /\ ~Mismatched(l)
    /\ base64' = base64 \o SelectSeq(l.text, LAMBDA c : c # Blank)
    /\ UNCHANGED <<inside, decoded, result>>

ReadLine ==
    /\ result = "reading" /\ line < Len(file)
    /\ line' = line + 1
    /\ LET l == file[line']
       IN Outside(l) \/ BlockEnd(l) \/ BlockMismatch(l) \/ BlockText(l)
    /\ UNCHANGED <<mode, file, written>>

\* No line is left.
Finish ==
    /\ result = "reading" /\ line = Len(file)
    /\ result' = IF inside THEN "end_missing"
                 ELSE IF decoded = <<>> THEN "begin_missing" ELSE "ok"
    /\ UNCHANGED <<mode, file, written, line, inside, base64, decoded>>

Next == ReadLine \/ Finish

Spec == Init /\ [][Next]_vars

-----------------------------------------------------------------------------
(* Properties.                                                             *)

\* Characters that encode bytes: any four of them stand for three bytes, and
\* fewer bytes, at the end only, for the characters they are written as.
Encoded(characters) ==
    LET quartets == Chunks(characters, 4)
    IN \A i \in DOMAIN quartets :
          \/ quartets[i] \in [1..4 -> Characters]
          \/ /\ i = Len(quartets) /\ Pad \in ToSet(quartets[i])
             /\ \E g \in [1..1 -> Bytes] \cup [1..2 -> Bytes] :
                   quartets[i] = EncodeGroup(g)

Begins == {i \in DOMAIN file : file[i] = Begin}

\* The blocks that are looked at, by the place of their BEGIN.
Blocks == IF mode = "chain" \/ Begins = {} THEN Begins ELSE {Min(Begins)}

Closings(b) ==
    {i \in (b + 1)..Len(file) :
        file[i].mark = "end" \/ (file[i].mark = "begin" /\ mode = "chain")}

BlockCharacters(b) ==
    SelectSeq(FlattenSeq([i \in 1..(Min(Closings(b)) - b - 1) |-> file[b + i].text]),
              LAMBDA c : c # Blank)

BlockResult(b) ==
    IF Closings(b) = {} THEN "end_missing"
    ELSE IF file[Min(Closings(b))] # End THEN "label_mismatch"
    ELSE IF ~Encoded(BlockCharacters(b)) THEN "bad_base64" ELSE "ok"

\* What is written is read back as it was, by both readers.
WrittenIsRead ==
    (written # <<>> /\ result # "reading") => (result = "ok" /\ decoded = written)

\* A file is accepted exactly when every block that is looked at is closed
\* by its own END and holds a canonical encoding, and otherwise the first
\* block that is not decides the error.
FirstBadBlockDecides ==
    (result # "reading") =>
        LET bad == {b \in Blocks : BlockResult(b) # "ok"}
        IN result = IF Begins = {} THEN "begin_missing"
                    ELSE IF bad = {} THEN "ok" ELSE BlockResult(Min(bad))

\* No certificate of an accepted file is dropped, repeated, mixed with its
\* neighbour or out of order: the leaf stays first.
KeepsEveryBlock ==
    (result = "ok") =>
        [i \in DOMAIN decoded |-> Encode(decoded[i])] =
           [i \in 1..Cardinality(Blocks) |->
               BlockCharacters(CHOOSE b \in Blocks :
                                  Cardinality({c \in Blocks : c <= b}) = i)]
=============================================================================
