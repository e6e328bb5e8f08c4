------------------------------ MODULE Deframing ------------------------------
(***************************************************************************)
(* The incremental decoders of tls.rs, PlaintextRecordDecoder,             *)
(* CiphertextRecordDecoder and HandshakeDeframer: bytes are pushed in      *)
(* pieces of any size, and every complete frame is returned.               *)
(*                                                                         *)
(* Bytes are 0..MaxByte.  A record header is a type, a version and a       *)
(* length byte (the code has 1, 2 and 2 bytes), a handshake header a type  *)
(* and a length (1 and 3 bytes); the limit on a fragment is scaled so that *)
(* a length byte can exceed it.                                            *)
(***************************************************************************)
EXTENDS Naturals, Sequences, SequencesExt

CONSTANTS
    MaxStream,     \* bound on the bytes of a stream
    MaxByte,       \* the largest byte
    FragmentLimit, \* TLS_PLAINTEXT_FRAGMENT_LIMIT or TLS_CIPHERTEXT_...
    Kinds          \* the decoders to look at

Assumptions ==
    /\ {MaxStream, MaxByte, FragmentLimit} \subseteq Nat
    /\ Kinds \subseteq {"plaintext", "ciphertext", "handshake"}

VARIABLES
    kind,    \* which decoder
    stream,  \* bytes not pushed yet
    pushed,  \* bytes pushed so far
    buffer,  \* the decoder's buffer
    out,     \* frames it has returned
    failed   \* whether the last push() was an error

vars == <<kind, stream, pushed, buffer, out, failed>>

Byte == 0..MaxByte

\* Content types: 0 is not one, and no other byte.
Ccs == 1
HandshakeType == 2
ApplicationData == 3
Alert == 4

ContentTypes == {Ccs, HandshakeType, ApplicationData, Alert}

\* TLS_LEGACY_RECORD_VERSION
LegacyVersion == 3

HeaderSize == IF kind = "handshake" THEN 2 ELSE 3

\* validate_plaintext_fragment.
ValidFragment(type, fragment) ==
    /\ Len(fragment) <= FragmentLimit
    /\ type = HandshakeType => fragment # <<>>
    /\ type = Alert => Len(fragment) = 2
    /\ type = Ccs => fragment = <<1>>

\* What push() checks of a header, before the fragment has arrived.
GoodHeader(header) ==
    CASE kind = "plaintext"  -> /\ header[1] \in ContentTypes
                                /\ header[3] <= FragmentLimit
      [] kind = "ciphertext" -> /\ header[1] = ApplicationData
                                /\ header[2] = LegacyVersion
                                /\ header[3] <= FragmentLimit
      [] kind = "handshake"  -> TRUE

\* What it checks of a complete frame.
GoodFrame(frame) ==
    kind = "plaintext" =>
        ValidFragment(frame[1], SubSeq(frame, HeaderSize + 1, Len(frame)))

\* The length of the frame that starts with the given bytes, at least a header.
FrameLength(bytes) == HeaderSize + bytes[HeaderSize]

\* buffer.drain(..n), and &buffer[n..]
Rest(bytes, n) == SubSeq(bytes, n + 1, Len(bytes))

\* The bytes end in a header or in a frame.
Incomplete(bytes) ==
    \/ Len(bytes) < HeaderSize
    \/ GoodHeader(bytes) /\ Len(bytes) < FrameLength(bytes)

\* They start with a header or a frame that is refused.
Bad(bytes) ==
    \/ ~GoodHeader(bytes)
    \/ ~GoodFrame(SubSeq(bytes, 1, FrameLength(bytes)))

\* Where push() is: what it has found, and "more", "break" or "error".
Start == [frames |-> <<>>, consumed |-> 0, verdict |-> "more"]

\* One turn of its loop.
Turn(bytes, at) ==
    LET left == Rest(bytes, at.consumed)
    IN IF at.verdict # "more" THEN at
       ELSE IF Incomplete(left) THEN [at EXCEPT !.verdict = "break"]
       ELSE IF Bad(left) THEN [at EXCEPT !.verdict = "error"]
       ELSE [at EXCEPT !.frames = Append(@, SubSeq(left, 1, FrameLength(left))),
                       !.consumed = @ + FrameLength(left)]

\* The loop: a turn that goes on consumes a byte or more, so this many turns
\* reach the end.
Decode(bytes) ==
    LET Loop[turns \in 0..(Len(bytes) + 1)] ==
            IF turns = 0 THEN Start ELSE Turn(bytes, Loop[turns - 1])
    IN Loop[Len(bytes) + 1]

Init ==
    /\ kind \in Kinds
    /\ stream \in UNION {[1..n -> Byte] : n \in 0..MaxStream}
    /\ pushed = <<>> /\ buffer = <<>> /\ out = <<>> /\ failed = FALSE

\* Mutant: the frames before the bad one are returned, and not drained.
FailsDelivering(input) ==
    /\ Decode(buffer \o input).verdict = "error"
    /\ failed' = TRUE /\ buffer' = buffer \o input
    /\ out' = out \o Decode(buffer \o input).frames

\* push() is an error: the frames decoded before the bad one are lost with
\* it, and nothing is drained.
Fails(input) ==
    /\ Decode(buffer \o input).verdict = "error"
    /\ failed' = TRUE /\ buffer' = buffer \o input
    /\ UNCHANGED out

Returns(input) ==
    LET result == Decode(buffer \o input)
    IN /\ result.verdict # "error"
       /\ failed' = FALSE
       /\ out' = out \o result.frames
       /\ buffer' = Rest(buffer \o input, result.consumed)

Push(n) ==
    LET input == SubSeq(stream, 1, n)
    IN /\ Fails(input) \/ Returns(input)
       /\ pushed' = pushed \o input
       /\ stream' = SubSeq(stream, n + 1, Len(stream))
       /\ UNCHANGED kind

Next == \E n \in 1..Len(stream) : Push(n)

Spec == Init /\ [][Next]_vars

-----------------------------------------------------------------------------
(* Properties.                                                             *)

\* Frames and buffer together are the bytes pushed: wherever the pieces were
\* cut, no byte is lost, repeated or moved into another frame.  After an error
\* too: a decoder cannot go on behind a bad frame, or in the middle of one.
Lossless == FlattenSeq(out) \o buffer = pushed

\* No frame is kept back that could be returned, so the buffer stays below
\* the length of the largest frame.
Prompt ==
    ~failed /\ Len(buffer) >= HeaderSize =>
        Len(buffer) < HeaderSize + buffer[HeaderSize]

\* A stream of good frames: it can be cut into frames whose headers and
\* fragments are all good, and at most the start of one more.
WellFormedFrame(frame) ==
    /\ Len(frame) >= HeaderSize /\ Len(frame) = HeaderSize + frame[HeaderSize]
    /\ kind = "plaintext" =>
          /\ frame[1] \in ContentTypes
          /\ ValidFragment(frame[1], SubSeq(frame, HeaderSize + 1, Len(frame)))
    /\ kind = "ciphertext" =>
          /\ frame[1] = ApplicationData /\ frame[2] = LegacyVersion
          /\ frame[3] <= FragmentLimit

\* The bytes are good frames, one behind another: they can be cut so that
\* every piece is one.
GoodFrames(bytes) ==
    \E cuts \in SUBSET (1..(Len(bytes) - 1)) :
        LET ends == cuts \cup {0, Len(bytes)}
        IN \A a, b \in ends :
              (a < b /\ \A c \in ends : ~(a < c /\ c < b)) =>
                 WellFormedFrame(SubSeq(bytes, a + 1, b))

\* No error is reported for a stream that ends between two good frames, and
\* all of its frames are returned, however it was cut.
AcceptsGoodStreams ==
    (stream = <<>> /\ GoodFrames(pushed)) => ~failed /\ buffer = <<>>
=============================================================================
