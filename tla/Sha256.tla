------------------------------- MODULE Sha256 -------------------------------
(***************************************************************************)
(* The streaming part of Sha256 in crypto.rs: update with pieces of any    *)
(* size, and finalize.  The compression function is not modelled: the      *)
(* digest stands for the sequence of blocks that were compressed.  The     *)
(* buffer keeps what earlier blocks left in it.                            *)
(***************************************************************************)
EXTENDS Integers, Sequences, SequencesExt

CONSTANTS
    Byte,           \* bytes of messages
    BlockSize,      \* SHA256_BLOCK_SIZE
    LengthOffset,   \* SHA256_LENGTH_OFFSET
    MaxPiece,       \* bound on the bytes of one update
    MaxMessage      \* bound on the bytes of all

Mark == 9           \* 0x80

Assumptions == Byte \subseteq 0..8 /\ LengthOffset \in 1..(BlockSize - 1)

VARIABLES
    message,    \* history: every byte given to update
    compressed, \* state: the blocks compress_block was given
    buffer,     \* BlockSize bytes
    bufferLen,  \* how many of them count
    messageLen, \* message_len_bytes
    digest      \* <<>>, then <<compressed>>

vars == <<message, compressed, buffer, bufferLen, messageLen, digest>>

Strings(max) == UNION {[1..n -> Byte] : n \in 0..max}

\* The buffer with s copied to it after its first n bytes.
CopyTo(target, n, s) ==
    [i \in 1..BlockSize |-> IF i \in (n + 1)..(n + Len(s)) THEN s[i - n] ELSE target[i]]

Zeros(n) == [i \in 1..n |-> 0]

Init ==
    /\ message = <<>> /\ compressed = <<>> /\ buffer = Zeros(BlockSize)
    /\ bufferLen = 0 /\ messageLen = 0 /\ digest = <<>>

-----------------------------------------------------------------------------

\* The full blocks of the input go to compress_block, the rest to the buffer.
Bulk(input, blocks, kept) ==
    LET full == Len(input) \div BlockSize
        rest == SubSeq(input, full * BlockSize + 1, Len(input))
    IN /\ compressed' = blocks \o [i \in 1..full |->
              SubSeq(input, (i - 1) * BlockSize + 1, i * BlockSize)]
       /\ buffer' = CopyTo(kept, 0, rest)
       /\ bufferLen' = Len(rest)

Update(input) ==
    LET copied == IF BlockSize - bufferLen < Len(input) THEN BlockSize - bufferLen
                  ELSE Len(input)
        filled == CopyTo(buffer, bufferLen, SubSeq(input, 1, copied))
    IN /\ digest = <<>>
       /\ message' = message \o input
       /\ messageLen' = messageLen + Len(input)
       /\ \/ /\ bufferLen = 0
             /\ Bulk(input, compressed, buffer)
          \/ /\ bufferLen # 0 /\ bufferLen + copied < BlockSize
             /\ buffer' = filled /\ bufferLen' = bufferLen + copied
             /\ UNCHANGED compressed
          \/ /\ bufferLen # 0 /\ bufferLen + copied = BlockSize
             /\ Bulk(SubSeq(input, copied + 1, Len(input)), Append(compressed, filled), filled)
       /\ UNCHANGED digest

\* Mutant: the length goes behind whatever the buffer held.
LastBlocksStale ==
    LET marked == CopyTo(buffer, bufferLen, <<Mark>>)
        length == <<8 * messageLen>> \o Zeros(BlockSize - LengthOffset - 1)
    IN IF bufferLen + 1 > LengthOffset
       THEN <<CopyTo(marked, bufferLen + 1, Zeros(BlockSize - bufferLen - 1)),
              Zeros(LengthOffset) \o length>>
       ELSE <<SubSeq(marked, 1, LengthOffset) \o length>>

\* The one or two blocks that finalize compresses: a mark, zeros over what
\* the buffer held, and the length in bits in the last places, of which the
\* first stands for all its bytes.  The limit of 2^64 bits, at which update
\* panics, is far above every message here.
LastBlocks ==
    LET marked == CopyTo(buffer, bufferLen, <<Mark>>)
        length == <<8 * messageLen>> \o Zeros(BlockSize - LengthOffset - 1)
    IN IF bufferLen + 1 > LengthOffset
       THEN <<CopyTo(marked, bufferLen + 1, Zeros(BlockSize - bufferLen - 1)),
              Zeros(LengthOffset) \o length>>
       ELSE <<SubSeq(CopyTo(marked, bufferLen + 1, Zeros(LengthOffset - bufferLen - 1)),
                     1, LengthOffset) \o length>>

Finalize ==
    /\ digest = <<>>
    /\ compressed' = compressed \o LastBlocks
    /\ digest' = <<compressed'>>
    /\ UNCHANGED <<message, buffer, bufferLen, messageLen>>

Next ==
    \/ \E input \in Strings(MaxPiece) :
          Len(message) + Len(input) <= MaxMessage /\ Update(input)
    \/ Finalize

Spec == Init /\ [][Next]_vars

-----------------------------------------------------------------------------
(* Properties.                                                             *)

\* FIPS 180-4: the message, a mark, as few zeros as reach the length, and
\* the length in bits at the end of a block.
Padded ==
    LET short == (Len(message) + 1) % BlockSize
        zeros == IF short <= LengthOffset THEN LengthOffset - short
                 ELSE LengthOffset + BlockSize - short
    IN message \o <<Mark>> \o Zeros(zeros) \o <<8 * Len(message)>>
       \o Zeros(BlockSize - LengthOffset - 1)

\* However a message is cut into updates, empty ones and ones that end with
\* a block too, what is compressed is the padded message: the digest does not
\* depend on the cuts nor on what an earlier block left in the buffer.
DigestOfTheMessage ==
    digest # <<>> => FlattenSeq(digest[1]) = Padded

\* Between two calls every byte is in a compressed block or in the buffer,
\* which is never full: finalize finds room for its mark.
NothingLostBetween ==
    digest = <<>> =>
        /\ bufferLen < BlockSize
        /\ FlattenSeq(compressed) \o SubSeq(buffer, 1, bufferLen) = message
=============================================================================
