---------------------------- MODULE SecureStream ----------------------------
(***************************************************************************)
(* What one direction of a TLS connection promises its user: the bytes     *)
(* sent arrive in order, each once, nothing else arrives, and the end of   *)
(* the stream is reported only when the sender has closed it and all of it *)
(* has arrived.  A stream may stop at any point without an end: the reader *)
(* then gets an error, which is no step here.                              *)
(***************************************************************************)
EXTENDS Sequences, SequencesExt

VARIABLES
    sent,    \* bytes handed over for sending
    got,     \* bytes handed to the reader
    closed,  \* the sender has announced the end
    ended    \* the reader has been told of the end

vars == <<sent, got, closed, ended>>

Init == sent = <<>> /\ got = <<>> /\ ~closed /\ ~ended

Send ==
    /\ ~closed
    /\ IsStrictPrefix(sent, sent')
    /\ UNCHANGED <<got, closed, ended>>

Deliver ==
    /\ ~ended
    /\ IsStrictPrefix(got, got') /\ IsPrefix(got', sent)
    /\ UNCHANGED <<sent, closed, ended>>

Close == closed' = TRUE /\ UNCHANGED <<sent, got, ended>>

End ==
    /\ closed /\ got = sent
    /\ ended' = TRUE
    /\ UNCHANGED <<sent, got, closed>>

Next == Send \/ Deliver \/ Close \/ End

Spec == Init /\ [][Next]_vars
=============================================================================
