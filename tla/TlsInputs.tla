----------------------------- MODULE TlsInputs ------------------------------
(***************************************************************************)
(* The decoders of tls.rs that Formats runs side by side with the others,  *)
(* over the first six of its variables.                                    *)
(***************************************************************************)
EXTENDS Naturals, Sequences

CONSTANTS
    MaxStream, MaxFrameByte, FrameLimit,         \* Deframing
    MaxInnerByte, FragmentLimit, MaxPadding,     \* InnerPlaintext
    MaxBody, MaxHelloByte, MaxName, MaxLabel,    \* HelloVectors
    Hellos, MaxSessionId                         \* ClientHello

VARIABLES v1, v2, v3, v4, v5, v6

Frames == INSTANCE Deframing WITH
    MaxByte <- MaxFrameByte, FragmentLimit <- FrameLimit,
    Kinds <- {"plaintext", "ciphertext", "handshake"},
    kind <- v1, stream <- v2, pushed <- v3, buffer <- v4, out <- v5, failed <- v6

Inner == INSTANCE InnerPlaintext WITH
    MaxByte <- MaxInnerByte,
    type <- v1, fragment <- v2, padding <- v3, inner <- v4, outcome <- v5, step <- v6

Vectors == INSTANCE HelloVectors WITH
    MaxByte <- MaxHelloByte,
    kind <- v1, declared <- v2, body <- v3, offset <- v4, items <- v5, outcome <- v6

Hello == INSTANCE ClientHello WITH
    hello <- v1, seen <- v2, psk <- v3, next <- v4, previous <- v5, phase <- v6

ASSUME FrameAssumptions == Frames!Assumptions
ASSUME InnerAssumptions == Inner!Assumptions
ASSUME VectorAssumptions == Vectors!Assumptions
ASSUME HelloAssumptions == Hello!Assumptions
=============================================================================
