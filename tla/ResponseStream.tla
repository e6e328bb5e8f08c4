--------------------------- MODULE ResponseStream ---------------------------
(***************************************************************************)
(* What a client of the proxy is promised on one connection: requests are  *)
(* taken one at a time, each is answered at most once and completely       *)
(* before the next one is taken, and nothing is written after the stream   *)
(* has ended.  An answer may break off, and then nothing follows it.       *)
(***************************************************************************)
EXTENDS Naturals

VARIABLES
    received,  \* the request taken last
    begun,     \* requests whose answer has begun
    answered,  \* requests whose answer is complete
    over       \* no request is taken any more

vars == <<received, begun, answered, over>>

Init == received = 0 /\ begun = 0 /\ answered = 0 /\ over = FALSE

Idle    == ~over /\ answered = received
Pending == ~over /\ begun = answered /\ answered < received

Receive ==
    /\ Idle
    /\ received' = received + 1
    /\ UNCHANGED <<begun, answered, over>>

Begin ==
    /\ Pending
    /\ begun' = begun + 1
    /\ UNCHANGED <<received, answered, over>>

\* The answer is completed; the stream may end with it.
Finish ==
    /\ ~over /\ answered < begun
    /\ answered' = answered + 1
    /\ over' \in BOOLEAN
    /\ UNCHANGED <<received, begun>>

\* An answer that is written whole; the stream may end with it.
Answer ==
    /\ Pending
    /\ begun' = begun + 1 /\ answered' = answered + 1
    /\ over' \in BOOLEAN
    /\ UNCHANGED received

\* A request that cannot be parsed is refused and ends the stream; writing
\* the refusal may fail.
RefuseUnparsed ==
    /\ Idle
    /\ received' = received + 1
    /\ \/ begun' = begun + 1 /\ answered' = answered + 1
       \/ UNCHANGED <<begun, answered>>
    /\ over' = TRUE

End ==
    /\ ~over
    /\ over' = TRUE
    /\ UNCHANGED <<received, begun, answered>>

Next == Receive \/ Begin \/ Finish \/ Answer \/ RefuseUnparsed \/ End

Spec == Init /\ [][Next]_vars
=============================================================================
