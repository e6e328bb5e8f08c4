--------------------------- MODULE InnerPlaintext ---------------------------
(***************************************************************************)
(* encode_tls_inner_plaintext and decode_tls_inner_plaintext of tls.rs:    *)
(* what a TLS 1.3 record holds before it is sealed is the fragment, its    *)
(* content type and any number of zero bytes; the content type is the last *)
(* byte that is not zero.  Bytes are 0..MaxByte, of which 1 to 4 are       *)
(* content types, and the limits are scaled.                               *)
(***************************************************************************)
EXTENDS Integers, Sequences, FiniteSetsExt

CONSTANTS
    MaxByte,        \* the largest byte
    FragmentLimit,  \* TLS_PLAINTEXT_FRAGMENT_LIMIT
    MaxPadding      \* bound on the padding asked for

Assumptions ==
    /\ MaxByte \in Nat /\ MaxByte >= 4
    /\ FragmentLimit \in Nat /\ MaxPadding \in Nat

VARIABLES
    type, fragment, padding,  \* the record to encode
    inner,                    \* its encoding, or any bytes that were opened
    outcome,                  \* what encoding or decoding yielded
    step                      \* "encode", "decode" or "done"

vars == <<type, fragment, padding, inner, outcome, step>>

Byte == 0..MaxByte

\* ContentType: change_cipher_spec, alert, handshake and application_data.
Ccs == 1
Alert == 2
Handshake == 3
ApplicationData == 4

\* Those an inner plaintext may have.
InnerTypes == {Alert, Handshake, ApplicationData}

InnerLimit == FragmentLimit + 1

Strings(n) == UNION {[1..k -> Byte] : k \in 0..n}

Error == [type |-> 0, fragment |-> <<>>]

\* validate_plaintext_fragment.
ValidFragment(t, f) ==
    /\ Len(f) <= FragmentLimit
    /\ t = Handshake => f # <<>>
    /\ t = Alert => Len(f) = 2
    /\ t = Ccs => f = <<1>>

Encode(t, f, pad) == f \o <<t>> \o [i \in 1..pad |-> 0]

CanEncode(t, f, pad) ==
    /\ ValidFragment(t, f) /\ t \in InnerTypes
    /\ Len(f) + 1 + pad <= InnerLimit

\* rposition: the last byte that is not zero, 0 for none.
TypeIndex(bytes) == Max({0} \cup {i \in 1..Len(bytes) : bytes[i] # 0})

\* Mutant: the greatest length is refused.
DecodeShort(bytes) ==
    LET i == TypeIndex(bytes) IN
    IF Len(bytes) >= InnerLimit \/ i = 0 THEN Error
    ELSE IF \/ bytes[i] \notin InnerTypes
            \/ ~ValidFragment(bytes[i], SubSeq(bytes, 1, i - 1)) THEN Error
    ELSE [type |-> bytes[i], fragment |-> SubSeq(bytes, 1, i - 1)]

Decode(bytes) ==
    LET i == TypeIndex(bytes) IN
    IF Len(bytes) > InnerLimit \/ i = 0 THEN Error
    ELSE IF \/ bytes[i] \notin InnerTypes
            \/ ~ValidFragment(bytes[i], SubSeq(bytes, 1, i - 1)) THEN Error
    ELSE [type |-> bytes[i], fragment |-> SubSeq(bytes, 1, i - 1)]

Init ==
    /\ type \in 1..4 /\ fragment \in Strings(FragmentLimit + 1)
    /\ padding \in 0..MaxPadding
    /\ inner = <<>> /\ outcome = Error /\ step = "encode"

\* The record is encoded, and sealed and opened unchanged; a record that
\* cannot be encoded is an error, and other bytes are opened instead.
DoEncode ==
    /\ step = "encode" /\ step' = "decode"
    /\ \/ /\ CanEncode(type, fragment, padding)
          /\ inner' = Encode(type, fragment, padding)
       \/ /\ ~CanEncode(type, fragment, padding)
          /\ inner' = fragment \o [i \in 1..padding |-> 0]
    /\ UNCHANGED <<type, fragment, padding, outcome>>

DoDecode ==
    /\ step = "decode" /\ step' = "done"
    /\ outcome' = Decode(inner)
    /\ UNCHANGED <<type, fragment, padding, inner>>

Next == DoEncode \/ DoDecode

Spec == Init /\ [][Next]_vars

-----------------------------------------------------------------------------
(* Properties.                                                             *)

\* A record that can be encoded is decoded to itself, whatever its padding
\* and however many zeros its fragment ends in.
RoundTrip ==
    (step = "done" /\ CanEncode(type, fragment, padding)) =>
        outcome = [type |-> type, fragment |-> fragment]

\* Only encodings are decoded: what decodes is the encoding of the record
\* it decodes to, with the padding it has.
OnlyEncodings ==
    (step = "done" /\ outcome # Error) =>
        LET pad == Len(inner) - Len(outcome.fragment) - 1
        IN /\ CanEncode(outcome.type, outcome.fragment, pad)
           /\ inner = Encode(outcome.type, outcome.fragment, pad)
=============================================================================
