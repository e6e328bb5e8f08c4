--------------------------------- MODULE Der ---------------------------------
(***************************************************************************)
(* The DER reader and writer of asn1.rs.  A byte is 0..7: its highest bit  *)
(* is 4, so that a length below 4 has the short form, and the long form    *)
(* has one or two more bytes.  7 is the mask of a high tag number.         *)
(***************************************************************************)
EXTENDS Integers, Sequences, SequencesExt, FiniteSetsExt

CONSTANTS
    Inputs,     \* byte sequences to read
    Contents,   \* contents to write
    Numbers     \* components of object identifiers to write

VARIABLES
    job,      \* what is done: [kind |-> "read", "write" or "oid", ...]
    output,   \* what it yields
    done

vars == <<job, output, done>>

Base == 8
High == 4             \* 0x80
HighTag == 7          \* DER_HIGH_TAG_NUMBER
IntegerTag == 1       \* DER_TAG_INTEGER
SizeOfUsize == 2      \* bytes of a usize

Error == [good |-> FALSE, tag |-> 0, content |-> <<>>, size |-> 0]

Number(bytes) == FoldLeft(LAMBDA n, b : Base * n + b, 0, bytes)

-----------------------------------------------------------------------------
(* Writing.                                                                *)

\* The digits of a positive number, without leading zeros.
Digits(n, base) ==
    LET size == CHOOSE k \in 1..8 : base^(k - 1) <= n /\ n < base^k
    IN [i \in 1..size |-> (n \div base^(size - i)) % base]

\* push_der_length
DerLength(n) ==
    IF n < High THEN <<n>>
    ELSE <<High + Len(Digits(n, Base))>> \o Digits(n, Base)

DerWrap(tag, content) == <<tag>> \o DerLength(Len(content)) \o content

\* der_integer_unsigned: leading zeros go, and one comes back where the
\* highest bit is set.
DerInteger(value) ==
    LET significant == {i \in 1..Len(value) : value[i] # 0}
        rest        == SubSeq(value, Min(significant), Len(value))
    IN DerWrap(IntegerTag,
               IF significant = {} THEN <<0>>
               ELSE IF rest[1] >= High THEN <<0>> \o rest
               ELSE rest)

\* push_base128: digits of half a byte, all but the last marked.
Base128(n) ==
    LET digits == IF n = 0 THEN <<0>> ELSE Digits(n, High)
    IN [i \in 1..Len(digits) |->
           IF i < Len(digits) THEN High + digits[i] ELSE digits[i]]

GoodOid(arcs) ==
    /\ Len(arcs) >= 2
    /\ arcs[1] <= 2
    /\ arcs[1] < 2 => arcs[2] <= 39

\* der_object_identifier, of arcs that are good.
Oid(arcs) ==
    FlattenSeq([i \in 1..(Len(arcs) - 1) |->
                   Base128(IF i = 1 THEN arcs[1] * 40 + arcs[2]
                           ELSE arcs[i + 1])])

-----------------------------------------------------------------------------
(* Reading.                                                                *)

\* Mutant: a long form of a short length is read.
ReadLengthLoose(bytes) ==
    LET count  == bytes[1] - High
        length == Number(SubSeq(bytes, 2, 1 + count))
    IN IF bytes = <<>> THEN -1
       ELSE IF bytes[1] < High THEN bytes[1]
       ELSE IF \/ count = 0 \/ count > SizeOfUsize \/ Len(bytes) - 1 < count
               \/ bytes[2] = 0
       THEN -1
       ELSE length

\* read_length: the length at the start of the bytes, or -1 for an error.
ReadLength(bytes) ==
    LET count  == bytes[1] - High
        length == Number(SubSeq(bytes, 2, 1 + count))
    IN IF bytes = <<>> THEN -1
       ELSE IF bytes[1] < High THEN bytes[1]
       ELSE IF \/ count = 0 \/ count > SizeOfUsize \/ Len(bytes) - 1 < count
               \/ bytes[2] = 0
       THEN -1
       ELSE IF length < High THEN -1 ELSE length

LengthSize(bytes) == IF bytes[1] < High THEN 1 ELSE 1 + bytes[1] - High

\* read_tlv: the value at the start of the input and the bytes it takes.
ReadTlv(input) ==
    IF input = <<>> \/ input[1] = HighTag THEN Error
    ELSE LET length == ReadLength(Tail(input))
             start  == 1 + LengthSize(Tail(input))
         IN IF length = -1 THEN Error
            ELSE IF start + length > Len(input) THEN Error
            ELSE [good |-> TRUE, tag |-> input[1],
                  content |-> SubSeq(input, start + 1, start + length),
                  size |-> start + length]

\* read_integer_unsigned, of a value that was read.
GoodInteger(content) ==
    /\ content # <<>> /\ content[1] < High
    /\ (Len(content) > 1 /\ content[1] = 0) => content[2] >= High

IntegerValue(content) ==
    IF Len(content) > 1 /\ content[1] = 0 THEN Tail(content) ELSE content

-----------------------------------------------------------------------------

Init ==
    /\ \/ \E input \in Inputs : job = [kind |-> "read", bytes |-> input]
       \/ \E content \in Contents, tag \in {0, IntegerTag, HighTag - 1} :
             job = [kind |-> "write", bytes |-> content, tag |-> tag]
       \/ \E content \in Contents : job = [kind |-> "integer", bytes |-> content]
       \/ \E a, b, c \in Numbers :
             GoodOid(<<a, b, c>>) /\ job = [kind |-> "oid", bytes |-> <<a, b, c>>]
    /\ output = <<>> /\ done = FALSE

Do ==
    /\ ~done /\ done' = TRUE
    /\ output' = CASE job.kind = "read"    -> ReadTlv(job.bytes)
                   [] job.kind = "write"   -> DerWrap(job.tag, job.bytes)
                   [] job.kind = "integer" -> DerInteger(job.bytes)
                   [] job.kind = "oid"     -> Oid(job.bytes)
    /\ UNCHANGED job

Next == Do

Spec == Init /\ [][Next]_vars

-----------------------------------------------------------------------------
(* Properties.                                                             *)

\* What is read is exactly what would be written, and the reverse: one
\* encoding per value at every length where the form changes, nothing of the
\* bytes behind it taken, and no encoding refused.
ReadsWhatIsWritten ==
    /\ (done /\ job.kind = "read") =>
          IF output.good
          THEN SubSeq(job.bytes, 1, output.size) = DerWrap(output.tag, output.content)
          ELSE \A n \in 0..Len(job.bytes), k \in 0..Len(job.bytes) :
                  (/\ job.bytes # <<>> /\ job.bytes[1] # HighTag
                   /\ n + k <= Len(job.bytes)) =>
                      DerWrap(job.bytes[1], SubSeq(job.bytes, n + 1, n + k))
                         # SubSeq(job.bytes, 1, n + k)
    /\ (done /\ job.kind = "write") =>
          ReadTlv(output) = [good |-> TRUE, tag |-> job.tag,
                             content |-> job.bytes, size |-> Len(output)]

\* An INTEGER that is written is one that read_integer_unsigned accepts, and
\* it has the same value; one that is read was written that way.
IntegersKeepTheirValue ==
    /\ (done /\ job.kind = "integer") =>
          LET read == ReadTlv(output)
          IN /\ read.good /\ read.tag = IntegerTag /\ GoodInteger(read.content)
             /\ Number(IntegerValue(read.content)) = Number(job.bytes)
    /\ (/\ done /\ job.kind = "read"
        /\ output.good /\ output.tag = IntegerTag /\ GoodInteger(output.content)) =>
             DerInteger(IntegerValue(output.content))
                = SubSeq(job.bytes, 1, output.size)

\* No two object identifiers have one encoding, so that comparing contents
\* compares identifiers.
OidsDiffer ==
    (done /\ job.kind = "oid") =>
        \A a, b, c \in Numbers :
            (GoodOid(<<a, b, c>>) /\ Oid(<<a, b, c>>) = output) =>
                <<a, b, c>> = job.bytes
=============================================================================
