------------------------------- MODULE Tunnel -------------------------------
(***************************************************************************)
(* Session::tunnel_upgraded of proxy.rs: after 101 Switching Protocols the *)
(* worker copies upstream to client while a second thread copies client to *)
(* upstream.  There are no timeouts any more.  Each direction passes on    *)
(* its own end of stream, and the worker joins the other thread before it  *)
(* gives the connection up.                                                *)
(*                                                                         *)
(* Segments are numbered in the order their sender wrote them; what the    *)
(* client sent behind its request are the first Prefix of them.  A socket  *)
(* accepts Window segments that its peer has not read; further writes      *)
(* block.                                                                  *)
(***************************************************************************)
EXTENDS Naturals, Sequences

CONSTANTS
    Prefix,   \* segments in buffered_client_bytes
    MaxSent,  \* bound on the segments either end sends through the tunnel
    Window    \* segments a peer's socket buffers

ASSUME PrefixNat == Prefix \in Nat
ASSUME MaxSentNat == MaxSent \in Nat
ASSUME WindowPositive == Window \in Nat \ {0}

VARIABLES
    client, upstream,           \* "open", "fin" or "gone" (closed or reset)
    clientSent, upstreamSent,   \* number of the last segment each has written
    fromClient, fromUpstream,   \* segments the proxy has not read yet
    clientGot, upstreamGot,     \* segments delivered to each
    clientRead, upstreamRead,   \* how many of them it has read
    clientEof, upstreamEof,     \* the proxy has shut its write half down
    cut,                        \* client.shutdown(Both) after a failure
    pc,                         \* the worker: upstream to client, then join
    held,                       \* segment the worker has read, 0 for none
    thread,                     \* the second thread: client to upstream
    threadHeld,                 \* segment it has read
    errors                      \* record_error calls

ends      == <<client, upstream, clientSent, upstreamSent>>
inFlight  == <<fromClient, fromUpstream>>
delivered == <<clientGot, upstreamGot>>
consumed  == <<clientRead, upstreamRead>>
eofs      == <<clientEof, upstreamEof, cut>>

vars == <<ends, inFlight, delivered, consumed, eofs, pc, held, thread,
          threadHeld, errors>>

\* failed: the tunnel could not be set up.
Done == pc \in {"done", "failed"}

Init ==
    /\ client = "open" /\ upstream = "open"
    /\ clientSent = Prefix /\ upstreamSent = 0
    /\ fromClient = <<>> /\ fromUpstream = <<>>
    /\ clientGot = <<>> /\ upstreamGot = <<>>
    /\ clientRead = 0 /\ upstreamRead = 0
    /\ clientEof = FALSE /\ upstreamEof = FALSE /\ cut = FALSE
    /\ pc = "prefix" /\ held = 0
    /\ thread = "unborn" /\ threadHeld = 0
    /\ errors = 0

-----------------------------------------------------------------------------
(* The two ends.                                                           *)

ClientActs ==
    /\ ~Done
    /\ \/ /\ client = "open" /\ clientSent < Prefix + MaxSent
          /\ clientSent' = clientSent + 1
          /\ fromClient' = Append(fromClient, clientSent + 1)
          /\ UNCHANGED <<client, clientRead>>
       \/ /\ client = "open" /\ client' = "fin"
          /\ UNCHANGED <<clientSent, fromClient, clientRead>>
       \/ /\ client # "gone" /\ client' = "gone"
          /\ fromClient' = <<>>
          /\ UNCHANGED <<clientSent, clientRead>>
       \/ /\ client # "gone" /\ clientRead < Len(clientGot)
          /\ clientRead' = clientRead + 1
          /\ UNCHANGED <<client, clientSent, fromClient>>
    /\ UNCHANGED <<upstream, upstreamSent, fromUpstream, delivered,
                   upstreamRead, eofs, pc, held, thread, threadHeld, errors>>

UpstreamActs ==
    /\ ~Done
    /\ \/ /\ upstream = "open" /\ upstreamSent < MaxSent
          /\ upstreamSent' = upstreamSent + 1
          /\ fromUpstream' = Append(fromUpstream, upstreamSent + 1)
          /\ UNCHANGED <<upstream, upstreamRead>>
       \/ /\ upstream = "open" /\ upstream' = "fin"
          /\ UNCHANGED <<upstreamSent, fromUpstream, upstreamRead>>
       \/ /\ upstream # "gone" /\ upstream' = "gone"
          /\ fromUpstream' = <<>>
          /\ UNCHANGED <<upstreamSent, upstreamRead>>
       \/ /\ upstream # "gone" /\ upstreamRead < Len(upstreamGot)
          /\ upstreamRead' = upstreamRead + 1
          /\ UNCHANGED <<upstream, upstreamSent, fromUpstream>>
    /\ UNCHANGED <<client, clientSent, fromClient, delivered, clientRead,
                   eofs, pc, held, thread, threadHeld, errors>>

UpstreamHasRoom == Len(upstreamGot) - upstreamRead < Window
ClientHasRoom   == Len(clientGot) - clientRead < Window

-----------------------------------------------------------------------------
(* The worker sets the tunnel up.                                          *)

Unwritten == Len(upstreamGot) < Prefix

\* write_all(buffered_client_bytes), before anything is copied.
WritePrefix ==
    /\ pc = "prefix" /\ Unwritten /\ upstream # "gone" /\ UpstreamHasRoom
    /\ upstreamGot' = Append(upstreamGot, Len(upstreamGot) + 1)
    /\ UNCHANGED <<ends, inFlight, clientGot, consumed, eofs, pc, held,
                   thread, threadHeld, errors>>

\* The write, set_read_timeout or try_clone fails: an error is counted and
\* both connections are closed.
SetupFails ==
    /\ pc = "prefix"
    /\ pc' = "failed" /\ errors' = errors + 1
    /\ clientEof' = TRUE /\ upstreamEof' = TRUE
    /\ UNCHANGED <<ends, inFlight, delivered, consumed, cut, held, thread,
                   threadHeld>>

Spawn ==
    /\ pc = "prefix" /\ ~Unwritten
    /\ pc' = "copy" /\ thread' = "copying"
    /\ UNCHANGED <<ends, inFlight, delivered, consumed, eofs, held,
                   threadHeld, errors>>

-----------------------------------------------------------------------------
(* copy_tunnel_direction(client_reader, upstream), on the second thread.   *)

ThreadReads ==
    /\ thread = "copying" /\ threadHeld = 0 /\ fromClient # <<>>
    /\ threadHeld' = Head(fromClient) /\ fromClient' = Tail(fromClient)
    /\ UNCHANGED <<ends, fromUpstream, delivered, consumed, eofs, pc, held,
                   thread, errors>>

\* Mutant: after a partial write the whole segment is written again.
ThreadWritesAgain ==
    /\ thread = "copying" /\ threadHeld # 0
    /\ upstream # "gone" /\ UpstreamHasRoom
    /\ upstreamGot' = Append(upstreamGot, threadHeld)
    /\ threadHeld' \in {threadHeld, 0}
    /\ UNCHANGED <<ends, inFlight, clientGot, consumed, eofs, pc, held,
                   thread, errors>>

ThreadWrites ==
    /\ thread = "copying" /\ threadHeld # 0
    /\ upstream # "gone" /\ UpstreamHasRoom
    /\ upstreamGot' = Append(upstreamGot, threadHeld)
    /\ threadHeld' = 0
    /\ UNCHANGED <<ends, inFlight, clientGot, consumed, eofs, pc, held,
                   thread, errors>>

\* End of stream, the end made by shutdown(Both) included.
ThreadEnds ==
    /\ thread = "copying" /\ threadHeld = 0 /\ fromClient = <<>>
    /\ client = "fin" \/ cut
    /\ thread' = "ok" /\ upstreamEof' = TRUE
    /\ UNCHANGED <<ends, inFlight, delivered, consumed, clientEof, cut, pc,
                   held, threadHeld, errors>>

\* Mutant: a failed write is not the end of the copy.
ThreadFailsReading ==
    /\ thread = "copying"
    /\ threadHeld = 0 /\ fromClient = <<>> /\ client = "gone"
    /\ thread' = "err" /\ upstreamEof' = TRUE
    /\ UNCHANGED <<ends, inFlight, delivered, consumed, clientEof, cut, pc,
                   held, threadHeld, errors>>

\* A read from a client that was reset, or a write to an upstream that is
\* closed, fails.
ThreadFails ==
    /\ thread = "copying"
    /\ \/ threadHeld = 0 /\ fromClient = <<>> /\ client = "gone"
       \/ threadHeld # 0 /\ upstream = "gone"
    /\ thread' = "err" /\ upstreamEof' = TRUE
    /\ UNCHANGED <<ends, inFlight, delivered, consumed, clientEof, cut, pc,
                   held, threadHeld, errors>>

-----------------------------------------------------------------------------
(* copy_tunnel_direction(upstream_reader, client_writer), on the worker.   *)

WorkerReads ==
    /\ pc = "copy" /\ held = 0 /\ fromUpstream # <<>>
    /\ held' = Head(fromUpstream) /\ fromUpstream' = Tail(fromUpstream)
    /\ UNCHANGED <<ends, fromClient, delivered, consumed, eofs, pc, thread,
                   threadHeld, errors>>

WorkerWrites ==
    /\ pc = "copy" /\ held # 0 /\ client # "gone" /\ ClientHasRoom
    /\ clientGot' = Append(clientGot, held)
    /\ held' = 0
    /\ UNCHANGED <<ends, inFlight, upstreamGot, consumed, eofs, pc, thread,
                   threadHeld, errors>>

\* Mutant: the end of the upstream's stream ends the client's too.
WorkerEndsBoth ==
    /\ pc = "copy" /\ held = 0 /\ fromUpstream = <<>> /\ upstream = "fin"
    /\ pc' = "joinOk" /\ clientEof' = TRUE /\ cut' = TRUE
    /\ UNCHANGED <<ends, inFlight, delivered, consumed, upstreamEof, held,
                   thread, threadHeld, errors>>

WorkerEnds ==
    /\ pc = "copy" /\ held = 0 /\ fromUpstream = <<>> /\ upstream = "fin"
    /\ pc' = "joinOk" /\ clientEof' = TRUE
    /\ UNCHANGED <<ends, inFlight, delivered, consumed, upstreamEof, cut,
                   held, thread, threadHeld, errors>>

\* Mutant: the client's read half is left open when the upstream fails.
WorkerFailsLeavingClient ==
    /\ pc = "copy"
    /\ \/ held = 0 /\ fromUpstream = <<>> /\ upstream = "gone"
       \/ held # 0 /\ client = "gone"
    /\ pc' = "joinErr" /\ clientEof' = TRUE
    /\ UNCHANGED <<ends, inFlight, delivered, consumed, upstreamEof, cut,
                   held, thread, threadHeld, errors>>

WorkerFails ==
    /\ pc = "copy"
    /\ \/ held = 0 /\ fromUpstream = <<>> /\ upstream = "gone"
       \/ held # 0 /\ client = "gone"
    /\ pc' = "joinErr" /\ clientEof' = TRUE /\ cut' = TRUE
    /\ UNCHANGED <<ends, inFlight, delivered, consumed, upstreamEof, held,
                   thread, threadHeld, errors>>

\* Mutant: each direction's failure is counted.
JoinCountingBoth ==
    /\ pc \in {"joinOk", "joinErr"} /\ thread \in {"ok", "err"}
    /\ pc' = "done"
    /\ errors' = errors + (IF pc = "joinErr" THEN 1 ELSE 0)
                        + (IF thread = "err" THEN 1 ELSE 0)
    /\ clientEof' = TRUE /\ upstreamEof' = TRUE
    /\ UNCHANGED <<ends, inFlight, delivered, consumed, cut, held, thread,
                   threadHeld>>

\* join, and then handle_accepted_connection counts one error for a failure
\* of either direction and closes both connections.
Join ==
    /\ pc \in {"joinOk", "joinErr"} /\ thread \in {"ok", "err"}
    /\ pc' = "done"
    /\ errors' = IF pc = "joinErr" \/ thread = "err" THEN errors + 1
                                                     ELSE errors
    /\ clientEof' = TRUE /\ upstreamEof' = TRUE
    /\ UNCHANGED <<ends, inFlight, delivered, consumed, cut, held, thread,
                   threadHeld>>

-----------------------------------------------------------------------------

Thread == ThreadReads \/ ThreadWrites \/ ThreadEnds \/ ThreadFails

Worker == WritePrefix \/ Spawn \/ WorkerReads \/ WorkerWrites
            \/ WorkerEnds \/ WorkerFails \/ Join

Next == ClientActs \/ UpstreamActs \/ Thread \/ Worker \/ SetupFails

Spec == Init /\ [][Next]_vars

\* The operating system runs both threads; neither end need ever act.  A
\* failure of the set-up need not happen, unless the upstream is gone.
FairSpec == Spec /\ WF_vars(Thread) /\ WF_vars(Worker)
                 /\ WF_vars(upstream = "gone" /\ SetupFails)

-----------------------------------------------------------------------------
(* Properties.                                                             *)

Segments == Nat \ {0}
End == {"open", "fin", "gone"}

\* The state is well formed; the tunnel counts at most one error, although
\* both of its directions can fail.
TypeOK ==
    /\ client \in End /\ upstream \in End
    /\ clientSent \in Prefix..(Prefix + MaxSent)
    /\ upstreamSent \in 0..MaxSent
    /\ fromClient \in Seq(Segments) /\ fromUpstream \in Seq(Segments)
    /\ clientGot \in Seq(Segments) /\ upstreamGot \in Seq(Segments)
    /\ clientRead \in 0..Len(clientGot)
    /\ upstreamRead \in 0..Len(upstreamGot)
    /\ clientEof \in BOOLEAN /\ upstreamEof \in BOOLEAN /\ cut \in BOOLEAN
    /\ pc \in {"prefix", "copy", "joinOk", "joinErr", "done", "failed"}
    /\ thread \in {"unborn", "copying", "ok", "err"}
    /\ held \in Nat /\ threadHeld \in Nat
    /\ errors \in 0..1

InOrder(segments) == \A i \in 1..Len(segments) : segments[i] = i

\* Each end receives what the other sent, in order and without gaps, and the
\* bytes that came with the upgrade request before all others.
CopiedInOrder == InOrder(clientGot) /\ InOrder(upstreamGot)

\* While neither end has failed, an end of stream is passed on only when the
\* sender has made one, and after everything it sent: a half-closed tunnel
\* goes on carrying the other direction.
EofIsEarned ==
    (client # "gone" /\ upstream # "gone" /\ pc # "failed") =>
        /\ upstreamEof => client = "fin" /\ Len(upstreamGot) = clientSent
        /\ clientEof => upstream = "fin" /\ Len(clientGot) = upstreamSent

\* Once both ends have ended, and go on reading what they are sent, the
\* tunnel ends: the two threads do not wait for each other.
EndsWithBothEnds ==
    (/\ <>(client # "open" /\ upstream # "open")
     /\ []<>((upstream = "gone" \/ UpstreamHasRoom)
             /\ (client = "gone" \/ ClientHasRoom)))
        => <>Done

\* An upstream that fails while the worker copies from it ends the tunnel,
\* however long the client stays silent: shutdown(Both) wakes the thread.
\* Only a client that does not read what it was sent can prevent it.
UpstreamFailureEnds ==
    (pc = "copy" /\ upstream = "gone")
        ~> (Done \/ (client # "gone" /\ ~ClientHasRoom))
=============================================================================
