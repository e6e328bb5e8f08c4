----------------------------- MODULE KeyStorage -----------------------------
(***************************************************************************)
(* persist_p256_private_key_pem of asn1.rs on Unix: the key file is opened *)
(* and truncated, restricted, written and synced, step by step, with       *)
(* errors and crashes at every step and calls one after the other on one   *)
(* path.  After a crash of the machine the file is as it was at some       *)
(* moment since the last sync: the file system keeps its changes in order. *)
(***************************************************************************)
EXTENDS Naturals, Sequences

CONSTANTS
    Parts,      \* parts a key is written in by write_all
    MaxCalls    \* bound on the calls

Assumptions == Parts \in Nat \ {0}

VARIABLES
    pc,       \* where write is; "idle" between calls
    file,     \* [exists, restricted, content]
    since,    \* the states of the file since the last sync
    calls,    \* calls so far; call k writes key k
    saved,    \* the last call that returned Ok, 0 when none has
    opened    \* the last call that truncated the file, 0 when none has

vars == <<pc, file, since, calls, saved, opened>>

\* Part p of key k; key 0 is what someone else left at the path.
Part(k, p) == <<k, p>>

Absent == [exists |-> FALSE, restricted |-> FALSE, content |-> <<>>]

Init ==
    /\ pc = "idle" /\ calls = 0 /\ saved = 0 /\ opened = 0
    /\ file \in {Absent}
              \cup [exists : {TRUE}, restricted : BOOLEAN,
                    content : {<<>>, <<Part(0, 1)>>}]
    /\ since = {file}

Becomes(new) == file' = new /\ since' = since \cup {new}

Call ==
    /\ pc = "idle" /\ calls < MaxCalls
    /\ calls' = calls + 1 /\ pc' = "open"
    /\ UNCHANGED <<file, since, saved, opened>>

\* create and truncate: the mode is that of a new file, an old one keeps its
\* own.
Open ==
    /\ pc = "open"
    /\ Becomes([exists |-> TRUE, restricted |-> file.restricted \/ ~file.exists,
                content |-> <<>>])
    /\ pc' = "restrict" /\ opened' = calls
    /\ UNCHANGED <<calls, saved>>

\* Mutant: the mode of an old file is left alone.
SetPermissionsOfNew ==
    /\ pc = "restrict"
    /\ pc' = "write"
    /\ UNCHANGED <<file, since, calls, saved, opened>>

SetPermissions ==
    /\ pc = "restrict"
    /\ Becomes([file EXCEPT !.restricted = TRUE])
    /\ pc' = "write"
    /\ UNCHANGED <<calls, saved, opened>>

\* One write of write_all.
Write ==
    /\ pc = "write" /\ Len(file.content) < Parts
    /\ Becomes([file EXCEPT !.content = Append(@, Part(calls, Len(@) + 1))])
    /\ UNCHANGED <<pc, calls, saved, opened>>

\* Mutant: Ok without sync_all.
ReturnUnsynced ==
    /\ pc = "write" /\ Len(file.content) >= Parts
    /\ saved' = calls /\ pc' = "idle"
    /\ UNCHANGED <<file, since, calls, opened>>

Sync ==
    /\ pc = "write" /\ Len(file.content) >= Parts
    /\ since' = {file} /\ saved' = calls /\ pc' = "idle"
    /\ UNCHANGED <<file, calls, opened>>

\* A step returns an error, which the call returns.
StepFails ==
    /\ pc # "idle" /\ pc' = "idle"
    /\ UNCHANGED <<file, since, calls, saved, opened>>

Crash ==
    /\ pc' = "idle"
    /\ file' \in since /\ since' = {file'}
    /\ UNCHANGED <<calls, saved, opened>>

Next ==
    Call \/ Open \/ SetPermissions \/ Write \/ Sync \/ StepFails \/ Crash

Spec == Init /\ [][Next]_vars

-----------------------------------------------------------------------------
(* Properties.                                                             *)

\* No part of a key that was given to the function is ever in a file that
\* others may read, an older file with a wider mode and one that a crash
\* left behind included.
SecretIsRestricted ==
    (\E i \in DOMAIN file.content : file.content[i][1] # 0) => file.restricted

\* The parts in the file are the first ones of a single key: what a reader
\* finds after a failure is cut off, which pem_decode refuses, and never two
\* keys in one.
OneKeyInFile ==
    \A i \in DOMAIN file.content :
        file.content[i] = Part(file.content[1][1], i)

\* The first n parts of key k.
Beginning(k, n) == [p \in 1..n |-> Part(k, p)]

\* The last key that was reported as saved is in the file, whole, through
\* every error and every crash, until a later call truncates the file in
\* place.  From there on that call, or one after it, may have lost the saved
\* key: the file then holds it, or a beginning of a later key, which may be
\* empty, and never an older key or what was there before.
SavedSurvives ==
    saved > 0 =>
        \/ file.content = Beginning(saved, Parts)
        \/ \E k \in saved + 1 .. opened, n \in 0..Parts :
               file.content = Beginning(k, n)
=============================================================================
