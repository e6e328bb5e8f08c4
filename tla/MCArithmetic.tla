---------------------------- MODULE MCArithmetic ----------------------------
(***************************************************************************)
(* The arithmetic and the cryptographic constructions, checked in one run. *)
(* They do not interact: a behaviour belongs to one of them, which `part`  *)
(* names, and v1 to v10 are its variables in the order in which its module *)
(* declares them.  The ones it does not have stay empty.                   *)
(***************************************************************************)
EXTENDS Integers, Sequences

CONSTANTS
    LimbBits, Operands, Moduli,                               \* Limbs
    P, B, N, Gx, Gy, Bits, Hashes, MaxRejected,               \* Curve, Ecdsa
    W,                                                        \* Poly1305
    StreamBlock, MacBlock, MaxCounter, MaxLength,             \* Aead
    Octets, BlockSize, LengthOffset, MaxPiece, MaxMessage     \* Sha256

VARIABLES part, v1, v2, v3, v4, v5, v6, v7, v8, v9, v10

all == <<part, v1, v2, v3, v4, v5, v6, v7, v8, v9, v10>>

-----------------------------------------------------------------------------
(* Inputs.                                                                 *)

\* Poly1305: limbs of all ones, of all zeros and single bits, and sums that
\* end just around the modulus.
BlockBits == 5 * W - 2

Ones == 2^BlockBits - 1

Full(value) == [value |-> value, bits |-> BlockBits]

Chunks ==
    {Full(v) : v \in {0, 1, 31, 32, 2^20, Ones, Ones - 1, Ones - 2, Ones - 3, Ones - 4,
                      Ones - 5, Ones - 31, 992, 2^22 + 31, 5592405, 1234567}}

Lasts == [value : {0, 1, 255}, bits : {8, 16}]

MCMessages ==
    {<<>>} \cup {<<c>> : c \in Chunks \cup Lasts}
    \cup {<<c, d>> : c \in Chunks, d \in Chunks \cup Lasts}
    \cup {<<c, c, d>> : c \in Chunks, d \in Chunks \cup Lasts}

MCKeys ==
    [r : {0, 1, 2, 5, 31, 32, 2^18, 2^18 - 1, 2^21, 2^23 - 1, 2^23 - 32, 4194303, 1431655},
     pad : {0, 1, Ones}]

\* Aead: key stream blocks of one byte, of which two are there beside the
\* one-time key, so that the counter is exhausted.
MCKeyStream == [place \in (0..MaxCounter) \X {0} |-> place[1] % 2]

-----------------------------------------------------------------------------

Integer == INSTANCE Limbs WITH
    op <- v1, left <- v2, right <- v3, modulus <- v4, wide <- v5, row <- v6,
    remainder <- v7, index <- v8, fits <- v9, pc <- v10

Points == INSTANCE CurveLaws WITH
    op <- v1, left <- v2, right <- v3, done <- v4, result <- v5

Signature == INSTANCE Ecdsa WITH
    private <- v1, hash <- v2, r <- v3, s <- v4, rejected <- v5, state <- v6

Mac == INSTANCE Poly1305 WITH
    Messages <- MCMessages, Keys <- MCKeys,
    message <- v1, key <- v2, h <- v3, taken <- v4, tag <- v5

Cipher == INSTANCE Aead WITH
    KeyStream <- MCKeyStream,
    aad <- v1, plaintext <- v2, sealed <- v3, offered <- v4, opened <- v5

Hash == INSTANCE Sha256 WITH
    Byte <- Octets,
    message <- v1, compressed <- v2, buffer <- v3, bufferLen <- v4,
    messageLen <- v5, digest <- v6

ASSUME IntegerAssumptions == Integer!Assumptions
ASSUME CurveAssumptions == Points!Assumptions
ASSUME SignatureAssumptions == Signature!SignatureAssumptions
ASSUME MacAssumptions == Mac!Assumptions
ASSUME CipherAssumptions == Cipher!Assumptions
ASSUME HashAssumptions == Hash!Assumptions

Empty7 == v7 = 0 /\ v8 = 0 /\ v9 = 0 /\ v10 = 0
Empty6 == v6 = 0 /\ Empty7

Init ==
    \/ part = "integer" /\ Integer!Init
    \/ part = "points" /\ Points!Init /\ Empty6
    \/ part = "signature" /\ Signature!Init /\ Empty7
    \/ part = "mac" /\ Mac!Init /\ Empty6
    \/ part = "cipher" /\ Cipher!Init /\ Empty6
    \/ part = "hash" /\ Hash!Init /\ Empty7

Next ==
    \/ part = "integer" /\ Integer!Next /\ UNCHANGED part
    \/ part = "points" /\ Points!Next /\ UNCHANGED <<part, v6, v7, v8, v9, v10>>
    \/ part = "signature" /\ Signature!Next /\ UNCHANGED <<part, v7, v8, v9, v10>>
    \/ part = "mac" /\ Mac!Next /\ UNCHANGED <<part, v6, v7, v8, v9, v10>>
    \/ part = "cipher" /\ Cipher!Next /\ UNCHANGED <<part, v6, v7, v8, v9, v10>>
    \/ part = "hash" /\ Hash!Next /\ UNCHANGED <<part, v7, v8, v9, v10>>

Spec == Init /\ [][Next]_all

-----------------------------------------------------------------------------
(* Properties.  Each names those of its parts, which say what they mean.   *)

\* p256.rs: integers are exact through every carry, add_jacobian is the group
\* law for every pair of representations and multiply repeated addition,
\* exactly the points of the group are decoded, both sides of ecdh have one
\* secret, and verify accepts exactly what sign gives for some nonce.
CurveIsExact ==
    /\ part = "integer" => Integer!WideIsExact /\ Integer!RemainderIsExact
    /\ part = "points" =>
          /\ Points!AddIsGroupLaw
          /\ Points!MultiplyIsRepeatedAddition
          /\ Points!DecodesTheGroupOnly
          /\ Points!SidesAgree
    /\ part = "signature" =>
          Signature!SignatureVerifies /\ Signature!VerifiesOnlySignatures

\* crypto.rs: Poly1305 loses no bit and its tag is the polynomial's, no byte
\* of the key stream is used twice, exactly the data and text that were sealed
\* are opened, and a digest is that of the message, however it was cut.
SealingIsExact ==
    /\ part = "mac" => Mac!NoBitIsLost /\ Mac!TagIsExact
    /\ part = "cipher" =>
          Cipher!KeyStreamUsedOnce /\ Cipher!OpensOnlyWhatWasSealed
    /\ part = "hash" => Hash!NothingLostBetween /\ Hash!DigestOfTheMessage
=============================================================================
