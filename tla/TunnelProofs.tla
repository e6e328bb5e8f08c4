---------------------------- MODULE TunnelProofs ----------------------------
(***************************************************************************)
(* Proofs about Tunnel, for every number of segments sent and buffered.    *)
(*                                                                         *)
(* CopiedInOrder is not inductive by itself: a segment is delivered from   *)
(* the thread that holds it, and held after it was the first one in        *)
(* flight.  ToClient and ToUpstream follow a segment along this way: what  *)
(* is delivered, what is held and what is in flight are consecutive, and   *)
(* while the sender is not reset they are all that it sent.  EofIsEarned   *)
(* needs the same, and Causes: without a reset neither thread fails, and   *)
(* each ends when it has copied everything before the end of stream.       *)
(***************************************************************************)
EXTENDS Tunnel, TLAPS

HeldCount(segment) == IF segment = 0 THEN 0 ELSE 1

\* The segments the worker has taken from the upstream.
TakenByWorker == Len(clientGot) + HeldCount(held)

ToClient ==
    /\ InOrder(clientGot)
    /\ held # 0 => held = Len(clientGot) + 1
    /\ \A i \in 1 .. Len(fromUpstream) : fromUpstream[i] = TakenByWorker + i
    /\ upstream # "gone" => TakenByWorker + Len(fromUpstream) = upstreamSent

\* The segments read from the client.  The prefix was, with the request.
TakenByThread ==
    IF thread = "unborn" THEN Prefix
                         ELSE Len(upstreamGot) + HeldCount(threadHeld)

ToUpstream ==
    /\ InOrder(upstreamGot)
    /\ threadHeld # 0 => threadHeld = Len(upstreamGot) + 1
    /\ thread = "unborn" => threadHeld = 0 /\ Len(upstreamGot) <= Prefix
    /\ \A i \in 1 .. Len(fromClient) : fromClient[i] = TakenByThread + i
    /\ client # "gone" => TakenByThread + Len(fromClient) = clientSent

\* The second thread lives from the end of the set-up, and the connection is
\* given up, and its error counted, when both threads have ended.
Joining ==
    /\ thread = "unborn" <=> pc \in {"prefix", "failed"}
    /\ pc = "done" => thread \in {"ok", "err"}
    /\ ~Done => errors = 0

Reset == client = "gone" \/ upstream = "gone"

Causes ==
    /\ cut \/ pc = "joinErr" \/ thread = "err" => Reset
    /\ thread = "ok" /\ ~Reset =>
          client = "fin" /\ threadHeld = 0 /\ fromClient = <<>>
    /\ pc \in {"joinOk", "done"} /\ ~Reset =>
          upstream = "fin" /\ held = 0 /\ fromUpstream = <<>>
    /\ upstreamEof /\ pc # "failed" => thread \in {"ok", "err"}
    /\ clientEof /\ pc # "failed" => pc \in {"joinOk", "joinErr", "done"}

IndInv ==
    /\ TypeOK
    /\ ToClient
    /\ ToUpstream
    /\ Joining
    /\ Causes

-----------------------------------------------------------------------------
(* Lemmas about sequences of segments.                                     *)

\* A segment sent or delivered comes after those that are there already.
LEMMA AppendSegment ==
    ASSUME NEW q \in Seq(Segments), NEW s \in Segments
    PROVE  /\ Append(q, s) \in Seq(Segments)
           /\ Len(q) \in Nat /\ Len(Append(q, s)) = Len(q) + 1
           /\ \A i \in 1 .. Len(q) : Append(q, s)[i] = q[i]
           /\ Append(q, s)[Len(q) + 1] = s
  OBVIOUS

\* A thread takes the first segment in flight and leaves the others.
LEMMA TakeSegment ==
    ASSUME NEW q \in Seq(Segments), q # <<>>
    PROVE  /\ Head(q) = q[1] /\ Head(q) \in Segments
           /\ Tail(q) \in Seq(Segments)
           /\ Len(q) \in Nat \ {0} /\ Len(Tail(q)) = Len(q) - 1
           /\ \A i \in 1 .. Len(Tail(q)) : Tail(q)[i] = q[i + 1]
  OBVIOUS

\* Delivering the segment that follows the delivered ones keeps the order.
LEMMA DeliverNext ==
    ASSUME NEW q \in Seq(Segments), InOrder(q)
    PROVE  InOrder(Append(q, Len(q) + 1))
  <1>1. Len(q) \in Nat /\ Len(q) + 1 \in Segments
    BY DEF Segments
  <1> QED
    BY <1>1, AppendSegment DEF InOrder

-----------------------------------------------------------------------------
(* Every step preserves each part of the invariant.                        *)

\* Every step keeps the state well formed.
LEMMA TypeStep == IndInv /\ [Next]_vars => TypeOK'
  <1> SUFFICES ASSUME IndInv, [Next]_vars PROVE TypeOK'
    OBVIOUS
  <1> USE PrefixNat, MaxSentNat DEF IndInv, TypeOK, End, ends, inFlight, delivered, consumed, eofs
  <1>0. CASE UNCHANGED vars
    BY <1>0 DEF vars
  <1>1. CASE ClientActs
    <2>1. clientSent \in Nat /\ clientSent + 1 \in Segments
      BY DEF Segments
    <2>2. fromClient' \in Seq(Segments)
      <3>1. Append(fromClient, clientSent + 1) \in Seq(Segments)
        BY <2>1, AppendSegment
      <3>2. <<>> \in Seq(Segments)
        OBVIOUS
      <3> QED
        BY <1>1, <3>1, <3>2 DEF ClientActs
    <2>3. /\ clientSent' \in Prefix .. (Prefix + MaxSent) /\ client' \in End
          /\ clientRead' \in 0 .. Len(clientGot)
      BY <1>1 DEF ClientActs
    <2>4. UNCHANGED <<upstream, upstreamSent, fromUpstream, clientGot,
                     upstreamGot, upstreamRead, clientEof, upstreamEof, cut,
                     pc, held, thread, threadHeld, errors>>
      BY <1>1 DEF ClientActs
    <2> QED
      BY <2>2, <2>3, <2>4
  <1>2. CASE UpstreamActs
    <2>1. upstreamSent \in Nat /\ upstreamSent + 1 \in Segments
      BY DEF Segments
    <2>2. fromUpstream' \in Seq(Segments)
      <3>1. Append(fromUpstream, upstreamSent + 1) \in Seq(Segments)
        BY <2>1, AppendSegment
      <3>2. <<>> \in Seq(Segments)
        OBVIOUS
      <3> QED
        BY <1>2, <3>1, <3>2 DEF UpstreamActs
    <2>3. /\ upstreamSent' \in 0 .. MaxSent /\ upstream' \in End
          /\ upstreamRead' \in 0 .. Len(upstreamGot)
      BY <1>2 DEF UpstreamActs
    <2>4. UNCHANGED <<client, clientSent, fromClient, clientGot, upstreamGot,
                     clientRead, clientEof, upstreamEof, cut, pc, held,
                     thread, threadHeld, errors>>
      BY <1>2 DEF UpstreamActs
    <2> QED
      BY <2>2, <2>3, <2>4
  <1>3. CASE ThreadReads
    BY <1>3, TakeSegment DEF ThreadReads, Segments
  <1>4. CASE ThreadWrites
    BY <1>4, AppendSegment DEF ThreadWrites, Segments
  <1>5. CASE ThreadEnds
    BY <1>5 DEF ThreadEnds
  <1>6. CASE ThreadFails
    BY <1>6 DEF ThreadFails
  <1>7. CASE WritePrefix
    BY <1>7, AppendSegment DEF WritePrefix, Segments
  <1>8. CASE Spawn
    BY <1>8 DEF Spawn
  <1>9. CASE WorkerReads
    BY <1>9, TakeSegment DEF WorkerReads, Segments
  <1>10. CASE WorkerWrites
    BY <1>10, AppendSegment DEF WorkerWrites, Segments
  <1>11. CASE WorkerEnds
    BY <1>11 DEF WorkerEnds
  <1>12. CASE WorkerFails
    BY <1>12 DEF WorkerFails
  <1>13. CASE Join
    BY <1>13 DEF Join, Joining, Done
  <1>14. CASE SetupFails
    BY <1>14 DEF SetupFails, Joining, Done
  <1> QED
    BY <1>0, <1>1, <1>2, <1>3, <1>4, <1>5, <1>6, <1>7, <1>8, <1>9, <1>10,
       <1>11, <1>12, <1>13, <1>14 DEF Next, Thread, Worker

\* Every step keeps the segments to the client consecutive.
LEMMA ToClientStep == IndInv /\ [Next]_vars => ToClient'
  <1> SUFFICES ASSUME IndInv, [Next]_vars PROVE ToClient'
    OBVIOUS
  <1> USE DEF ends, inFlight, delivered, consumed, eofs
  <1>0. TypeOK /\ ToClient
    BY DEF IndInv
  <1>1. CASE UNCHANGED <<clientGot, held, fromUpstream, upstream, upstreamSent>>
    BY <1>0, <1>1 DEF ToClient, TakenByWorker, InOrder, HeldCount
  <1>2. CASE UpstreamActs
    <2>1. UNCHANGED <<clientGot, held>>
      BY <1>2 DEF UpstreamActs
    <2>2. CASE UNCHANGED <<upstreamSent, fromUpstream>> /\ upstream # "gone"
      BY <1>0, <2>1, <2>2 DEF ToClient, TakenByWorker, InOrder, HeldCount
    <2>3. CASE upstream' = "gone" /\ fromUpstream' = <<>>
      BY <1>0, <2>1, <2>3 DEF ToClient, TakenByWorker, InOrder, HeldCount
    <2>4. CASE /\ upstream = "open" /\ upstreamSent' = upstreamSent + 1
               /\ fromUpstream' = Append(fromUpstream, upstreamSent + 1)
      <3>1. upstreamSent + 1 \in Segments /\ TakenByWorker \in Nat
        BY <1>0, MaxSentNat DEF TypeOK, Segments, TakenByWorker, HeldCount
      <3>2. fromUpstream \in Seq(Segments)
        BY <1>0 DEF TypeOK
      <3>3. /\ Len(fromUpstream) \in Nat
            /\ Len(fromUpstream') = Len(fromUpstream) + 1
            /\ \A i \in 1 .. Len(fromUpstream) : fromUpstream'[i] = fromUpstream[i]
            /\ fromUpstream'[Len(fromUpstream) + 1] = upstreamSent + 1
        BY <2>4, <3>1, <3>2, AppendSegment
      <3>4. TakenByWorker' = TakenByWorker
        BY <2>1 DEF TakenByWorker, HeldCount
      <3>5. /\ TakenByWorker + Len(fromUpstream) = upstreamSent
            /\ \A i \in 1 .. Len(fromUpstream) : fromUpstream[i] = TakenByWorker + i
            /\ upstreamSent \in Nat
        BY <1>0, <2>4, MaxSentNat DEF ToClient, TypeOK
      <3>6. \A i \in 1 .. Len(fromUpstream') : fromUpstream'[i] = TakenByWorker' + i
        BY <3>1, <3>3, <3>4, <3>5
      <3>7. TakenByWorker' + Len(fromUpstream') = upstreamSent'
        BY <2>4, <3>1, <3>3, <3>4, <3>5
      <3> QED
        BY <1>0, <2>1, <3>6, <3>7 DEF ToClient, InOrder
    <2> QED
      BY <1>2, <2>2, <2>3, <2>4 DEF UpstreamActs
  <1>3. CASE WorkerReads
    <2>1. /\ held = 0 /\ fromUpstream # <<>> /\ held' = Head(fromUpstream)
          /\ fromUpstream' = Tail(fromUpstream)
          /\ UNCHANGED <<clientGot, upstream, upstreamSent>>
      BY <1>3 DEF WorkerReads
    <2>2. /\ held' = fromUpstream[1] /\ held' # 0
          /\ Len(fromUpstream) \in Nat \ {0}
          /\ Len(fromUpstream') = Len(fromUpstream) - 1
          /\ \A i \in 1 .. Len(fromUpstream') : fromUpstream'[i] = fromUpstream[i + 1]
      BY <1>0, <2>1, TakeSegment DEF TypeOK, Segments
    <2>3. Len(clientGot) \in Nat /\ TakenByWorker = Len(clientGot)
      BY <1>0, <2>1 DEF TypeOK, TakenByWorker, HeldCount
    <2>4. TakenByWorker' = Len(clientGot) + 1
      BY <2>1, <2>2 DEF TakenByWorker, HeldCount
    <2>5. \A i \in 1 .. Len(fromUpstream) : fromUpstream[i] = Len(clientGot) + i
      BY <1>0, <2>3 DEF ToClient
    <2>6. upstream # "gone" => Len(clientGot) + Len(fromUpstream) = upstreamSent
      BY <1>0, <2>3 DEF ToClient
    <2>7. \A i \in 1 .. Len(fromUpstream') : fromUpstream'[i] = TakenByWorker' + i
      BY <2>2, <2>3, <2>4, <2>5
    <2>8. held' = Len(clientGot) + 1
      BY <2>2, <2>5
    <2>9. upstream' # "gone" => TakenByWorker' + Len(fromUpstream') = upstreamSent'
      BY <2>1, <2>2, <2>3, <2>4, <2>6
    <2> QED
      BY <1>0, <2>1, <2>7, <2>8, <2>9 DEF ToClient, InOrder
  <1>4. CASE WorkerWrites
    <2>1. /\ held # 0 /\ held' = 0 /\ clientGot' = Append(clientGot, held)
          /\ UNCHANGED <<fromUpstream, upstream, upstreamSent>>
      BY <1>4 DEF WorkerWrites
    <2>2. /\ held = Len(clientGot) + 1 /\ clientGot \in Seq(Segments)
          /\ held \in Segments
      BY <1>0, <2>1 DEF ToClient, TypeOK, Segments
    <2>3. InOrder(clientGot')
      BY <1>0, <2>1, <2>2, DeliverNext DEF ToClient
    <2>4. TakenByWorker' = TakenByWorker
      BY <2>1, <2>2, AppendSegment DEF TakenByWorker, HeldCount
    <2> QED
      BY <1>0, <2>1, <2>3, <2>4 DEF ToClient
  <1>5. CASE ClientActs
    BY <1>1, <1>5 DEF ClientActs
  <1>6. CASE Thread
    BY <1>1, <1>6 DEF Thread, ThreadReads, ThreadWrites, ThreadEnds, ThreadFails
  <1>7. CASE WritePrefix \/ Spawn \/ WorkerEnds \/ WorkerFails \/ Join \/ SetupFails
    BY <1>1, <1>7
       DEF WritePrefix, Spawn, WorkerEnds, WorkerFails, Join, SetupFails
  <1> QED
    BY <1>1, <1>2, <1>3, <1>4, <1>5, <1>6, <1>7 DEF Next, Worker, vars

\* Every step keeps the segments to the upstream consecutive.
LEMMA ToUpstreamStep == IndInv /\ [Next]_vars => ToUpstream'
  <1> SUFFICES ASSUME IndInv, [Next]_vars PROVE ToUpstream'
    OBVIOUS
  <1> USE DEF ends, inFlight, delivered, consumed, eofs
  <1>0. TypeOK /\ ToUpstream /\ Joining
    BY DEF IndInv
  <1>a. /\ upstreamGot \in Seq(Segments) /\ Len(upstreamGot) \in Nat
        /\ fromClient \in Seq(Segments) /\ clientSent \in Nat /\ Prefix \in Nat
        /\ TakenByThread \in Nat
    BY <1>0, PrefixNat, MaxSentNat DEF TypeOK, TakenByThread, HeldCount
  <1>1. CASE /\ UNCHANGED <<upstreamGot, threadHeld, fromClient, client, clientSent>>
             /\ \/ thread' # "unborn" /\ thread # "unborn"
                \/ thread' = thread
    BY <1>0, <1>1 DEF ToUpstream, TakenByThread, InOrder, HeldCount
  <1>2. CASE ClientActs
    <2>1. UNCHANGED <<upstreamGot, threadHeld, thread>>
      BY <1>2 DEF ClientActs
    <2>2. TakenByThread' = TakenByThread
      BY <2>1 DEF TakenByThread, HeldCount
    <2>3. CASE UNCHANGED <<clientSent, fromClient>> /\ client # "gone"
      BY <1>0, <2>1, <2>2, <2>3 DEF ToUpstream, InOrder
    <2>4. CASE client' = "gone" /\ fromClient' = <<>>
      BY <1>0, <2>1, <2>4 DEF ToUpstream, InOrder
    <2>5. CASE /\ client = "open" /\ clientSent' = clientSent + 1
               /\ fromClient' = Append(fromClient, clientSent + 1)
      <3>1. clientSent + 1 \in Segments
        BY <1>a DEF Segments
      <3>2. /\ Len(fromClient) \in Nat
            /\ Len(fromClient') = Len(fromClient) + 1
            /\ \A i \in 1 .. Len(fromClient) : fromClient'[i] = fromClient[i]
            /\ fromClient'[Len(fromClient) + 1] = clientSent + 1
        BY <1>a, <2>5, <3>1, AppendSegment
      <3>3. /\ TakenByThread + Len(fromClient) = clientSent
            /\ \A i \in 1 .. Len(fromClient) : fromClient[i] = TakenByThread + i
        BY <1>0, <2>5 DEF ToUpstream
      <3>4. \A i \in 1 .. Len(fromClient') : fromClient'[i] = TakenByThread' + i
        BY <1>a, <2>2, <3>2, <3>3
      <3>5. TakenByThread' + Len(fromClient') = clientSent'
        BY <1>a, <2>2, <2>5, <3>2, <3>3
      <3> QED
        BY <1>0, <2>1, <3>4, <3>5 DEF ToUpstream, InOrder
    <2> QED
      BY <1>2, <2>3, <2>4, <2>5 DEF ClientActs
  <1>3. CASE ThreadReads
    <2>1. /\ threadHeld = 0 /\ fromClient # <<>> /\ thread = "copying"
          /\ threadHeld' = Head(fromClient)
          /\ fromClient' = Tail(fromClient)
          /\ UNCHANGED <<upstreamGot, client, clientSent, thread>>
      BY <1>3 DEF ThreadReads
    <2>2. /\ threadHeld' = fromClient[1] /\ threadHeld' # 0
          /\ Len(fromClient) \in Nat \ {0}
          /\ Len(fromClient') = Len(fromClient) - 1
          /\ \A i \in 1 .. Len(fromClient') : fromClient'[i] = fromClient[i + 1]
      BY <1>a, <2>1, TakeSegment DEF Segments
    <2>3. TakenByThread = Len(upstreamGot)
      BY <1>a, <2>1 DEF TakenByThread, HeldCount
    <2>4. TakenByThread' = Len(upstreamGot) + 1
      BY <2>1, <2>2 DEF TakenByThread, HeldCount
    <2>5. \A i \in 1 .. Len(fromClient) : fromClient[i] = Len(upstreamGot) + i
      BY <1>0, <2>3 DEF ToUpstream
    <2>6. client # "gone" => Len(upstreamGot) + Len(fromClient) = clientSent
      BY <1>0, <2>3 DEF ToUpstream
    <2>7. \A i \in 1 .. Len(fromClient') : fromClient'[i] = TakenByThread' + i
      BY <1>a, <2>2, <2>4, <2>5
    <2>8. threadHeld' = Len(upstreamGot) + 1
      BY <2>2, <2>5
    <2>9. client' # "gone" => TakenByThread' + Len(fromClient') = clientSent'
      BY <1>a, <2>1, <2>2, <2>4, <2>6
    <2> QED
      BY <1>0, <2>1, <2>7, <2>8, <2>9 DEF ToUpstream, InOrder
  <1>4. CASE ThreadWrites
    <2>1. /\ threadHeld # 0 /\ threadHeld' = 0 /\ thread = "copying"
          /\ upstreamGot' = Append(upstreamGot, threadHeld)
          /\ UNCHANGED <<fromClient, client, clientSent, thread>>
      BY <1>4 DEF ThreadWrites
    <2>2. threadHeld = Len(upstreamGot) + 1 /\ threadHeld \in Segments
      BY <1>0, <2>1 DEF ToUpstream, TypeOK, Segments
    <2>3. InOrder(upstreamGot')
      BY <1>0, <1>a, <2>1, <2>2, DeliverNext DEF ToUpstream
    <2>4. TakenByThread' = TakenByThread
      BY <1>a, <2>1, <2>2, AppendSegment DEF TakenByThread, HeldCount
    <2> QED
      BY <1>0, <2>1, <2>3, <2>4 DEF ToUpstream
  <1>5. CASE WritePrefix
    <2>1. /\ Len(upstreamGot) < Prefix /\ thread = "unborn"
          /\ upstreamGot' = Append(upstreamGot, Len(upstreamGot) + 1)
          /\ UNCHANGED <<fromClient, client, clientSent, thread, threadHeld>>
      BY <1>0, <1>5 DEF WritePrefix, Unwritten, Joining
    <2>2. InOrder(upstreamGot')
      BY <1>0, <1>a, <2>1, DeliverNext DEF ToUpstream
    <2>3. Len(upstreamGot') <= Prefix
      <3>1. Len(upstreamGot) + 1 \in Segments
        BY <1>a DEF Segments
      <3> QED
        BY <1>a, <2>1, <3>1, AppendSegment
    <2>4. TakenByThread' = TakenByThread
      BY <2>1 DEF TakenByThread
    <2> QED
      BY <1>0, <2>1, <2>2, <2>3, <2>4 DEF ToUpstream
  <1>6. CASE Spawn
    <2>1. /\ ~(Len(upstreamGot) < Prefix) /\ thread = "unborn"
          /\ thread' = "copying"
          /\ UNCHANGED <<upstreamGot, fromClient, client, clientSent, threadHeld>>
      BY <1>0, <1>6 DEF Spawn, Unwritten, Joining
    <2>2. threadHeld = 0 /\ Len(upstreamGot) = Prefix
      BY <1>0, <1>a, <2>1 DEF ToUpstream
    <2>3. TakenByThread' = TakenByThread
      BY <1>a, <2>1, <2>2 DEF TakenByThread, HeldCount
    <2> QED
      BY <1>0, <2>1, <2>3 DEF ToUpstream, InOrder
  <1>7. CASE ThreadEnds \/ ThreadFails
    BY <1>1, <1>7 DEF ThreadEnds, ThreadFails
  <1>8. CASE UpstreamActs
    BY <1>1, <1>8 DEF UpstreamActs
  <1>9. CASE WorkerReads \/ WorkerWrites \/ WorkerEnds \/ WorkerFails
    BY <1>1, <1>9 DEF WorkerReads, WorkerWrites, WorkerEnds, WorkerFails
  <1>10. CASE Join \/ SetupFails
    BY <1>1, <1>10 DEF Join, SetupFails
  <1> QED
    BY <1>1, <1>2, <1>3, <1>4, <1>5, <1>6, <1>7, <1>8, <1>9, <1>10
       DEF Next, Worker, Thread, vars

\* Every step keeps the second thread joined to the first.
LEMMA JoiningStep == IndInv /\ [Next]_vars => Joining'
  <1> SUFFICES ASSUME IndInv, [Next]_vars PROVE Joining'
    OBVIOUS
  <1> USE DEF Joining, Done, ends, inFlight, delivered, consumed, eofs
  <1>0. TypeOK /\ Joining
    BY DEF IndInv
  <1>1. CASE UNCHANGED <<pc, thread, errors>>
    BY <1>0, <1>1
  <1>2. CASE ClientActs \/ UpstreamActs
    BY <1>1, <1>2 DEF ClientActs, UpstreamActs
  <1>3. CASE ThreadReads \/ ThreadWrites
    BY <1>1, <1>3 DEF ThreadReads, ThreadWrites
  <1>4. CASE ThreadEnds \/ ThreadFails
    BY <1>0, <1>4 DEF ThreadEnds, ThreadFails
  <1>5. CASE WritePrefix \/ WorkerReads \/ WorkerWrites
    BY <1>1, <1>5 DEF WritePrefix, WorkerReads, WorkerWrites
  <1>6. CASE Spawn \/ WorkerEnds \/ WorkerFails
    BY <1>0, <1>6 DEF Spawn, WorkerEnds, WorkerFails
  <1>7. CASE Join \/ SetupFails
    BY <1>0, <1>7 DEF Join, SetupFails
  <1> QED
    BY <1>1, <1>2, <1>3, <1>4, <1>5, <1>6, <1>7 DEF Next, Worker, Thread, vars

\* Every step keeps every end and failure caused by the peers.
LEMMA CausesStep == IndInv /\ [Next]_vars => Causes'
  <1> SUFFICES ASSUME IndInv, [Next]_vars PROVE Causes'
    OBVIOUS
  <1> USE DEF Causes, Reset, ends, inFlight, delivered, consumed, eofs
  <1>0. TypeOK /\ Joining /\ Causes
    BY DEF IndInv
  <1>1. CASE UNCHANGED vars
    BY <1>0, <1>1 DEF vars
  <1>2. CASE ClientActs
    BY <1>0, <1>2 DEF ClientActs, Done
  <1>3. CASE UpstreamActs
    BY <1>0, <1>3 DEF UpstreamActs, Done
  <1>4. CASE ThreadReads
    BY <1>0, <1>4 DEF ThreadReads
  <1>5. CASE ThreadWrites
    BY <1>0, <1>5 DEF ThreadWrites
  <1>6. CASE ThreadEnds
    BY <1>0, <1>6 DEF ThreadEnds
  <1>7. CASE ThreadFails
    BY <1>0, <1>7 DEF ThreadFails
  <1>8. CASE WritePrefix
    BY <1>0, <1>8 DEF WritePrefix
  <1>9. CASE Spawn
    BY <1>0, <1>9 DEF Spawn, Joining
  <1>10. CASE WorkerReads
    BY <1>0, <1>10 DEF WorkerReads
  <1>11. CASE WorkerWrites
    BY <1>0, <1>11 DEF WorkerWrites
  <1>12. CASE WorkerEnds
    BY <1>0, <1>12 DEF WorkerEnds
  <1>13. CASE WorkerFails
    BY <1>0, <1>13 DEF WorkerFails
  <1>14. CASE Join
    BY <1>0, <1>14 DEF Join
  <1>15. CASE SetupFails
    BY <1>0, <1>15 DEF SetupFails, Joining
  <1> QED
    BY <1>1, <1>2, <1>3, <1>4, <1>5, <1>6, <1>7, <1>8, <1>9, <1>10, <1>11,
       <1>12, <1>13, <1>14, <1>15 DEF Next, Worker, Thread

-----------------------------------------------------------------------------
(* The theorems.                                                           *)

\* The invariant holds when the tunnel starts.
LEMMA Initially == Init => IndInv
  <1> SUFFICES ASSUME Init PROVE IndInv
    OBVIOUS
  <1> USE PrefixNat, MaxSentNat DEF Init
  <1>1. TypeOK
    <2>1. <<>> \in Seq(Segments) /\ Len(<<>>) = 0
      OBVIOUS
    <2>2. /\ clientSent \in Prefix .. (Prefix + MaxSent)
          /\ upstreamSent \in 0 .. MaxSent
      OBVIOUS
    <2>3. /\ clientRead \in 0 .. Len(clientGot)
          /\ upstreamRead \in 0 .. Len(upstreamGot)
      BY <2>1
    <2>4. clientEof \in BOOLEAN /\ upstreamEof \in BOOLEAN /\ cut \in BOOLEAN
      BY Zenon
    <2>5. held \in Nat /\ threadHeld \in Nat /\ errors \in 0 .. 1
      OBVIOUS
    <2>6. client \in End /\ upstream \in End
      BY DEF End
    <2> QED
      BY <2>1, <2>2, <2>3, <2>4, <2>5, <2>6, Zenon DEF TypeOK
  <1>2. ToClient
    BY DEF ToClient, TakenByWorker, HeldCount, InOrder
  <1>3. ToUpstream
    BY DEF ToUpstream, TakenByThread, HeldCount, InOrder
  <1>4. Joining /\ Causes
    BY DEF Joining, Causes, Done, Reset
  <1> QED
    BY <1>1, <1>2, <1>3, <1>4 DEF IndInv

\* Every reachable state of the tunnel satisfies the invariant.
THEOREM Invariance == Spec => []IndInv
  <1>1. IndInv /\ [Next]_vars => IndInv'
    BY TypeStep, ToClientStep, ToUpstreamStep, JoiningStep, CausesStep
       DEF IndInv
  <1> QED
    BY Initially, <1>1, PTL DEF Spec

\* The state is well formed; however the two copies and the set-up fail,
\* handle_accepted_connection counts at most one error for the tunnel.
THEOREM TypeCorrect == Spec => []TypeOK
  <1>1. IndInv => TypeOK
    BY DEF IndInv
  <1> QED
    BY Invariance, <1>1, PTL

\* copy_tunnel_direction neither loses, repeats nor reorders bytes in either
\* direction, and the bytes read with the upgrade request go first.
THEOREM OrderKept == Spec => []CopiedInOrder
  <1>1. IndInv => CopiedInOrder
    BY DEF IndInv, CopiedInOrder, ToClient, ToUpstream
  <1> QED
    BY Invariance, <1>1, PTL

\* Without a reset a write half is shut down only after the end of stream of
\* the other side, and after everything that it sent has been delivered.
THEOREM EofsEarned == Spec => []EofIsEarned
  <1>1. IndInv => EofIsEarned
    <2> SUFFICES ASSUME IndInv, ~Reset, pc # "failed" PROVE
            /\ upstreamEof => client = "fin" /\ Len(upstreamGot) = clientSent
            /\ clientEof => upstream = "fin" /\ Len(clientGot) = upstreamSent
      BY DEF EofIsEarned, Reset
    <2>1. Len(clientGot) \in Nat /\ Len(upstreamGot) \in Nat
      BY DEF IndInv, TypeOK
    <2>2. ASSUME upstreamEof PROVE client = "fin" /\ Len(upstreamGot) = clientSent
      <3>1. /\ thread = "ok" /\ client = "fin" /\ threadHeld = 0
            /\ fromClient = <<>>
        BY <2>2 DEF IndInv, Causes
      <3>2. TakenByThread = Len(upstreamGot)
        BY <2>1, <3>1 DEF TakenByThread, HeldCount
      <3> QED
        BY <2>1, <3>1, <3>2 DEF IndInv, ToUpstream
    <2>3. ASSUME clientEof PROVE upstream = "fin" /\ Len(clientGot) = upstreamSent
      <3>1. upstream = "fin" /\ held = 0 /\ fromUpstream = <<>>
        BY <2>3 DEF IndInv, Causes
      <3>2. TakenByWorker = Len(clientGot)
        BY <2>1, <3>1 DEF TakenByWorker, HeldCount
      <3> QED
        BY <2>1, <3>1, <3>2 DEF IndInv, ToClient
    <2> QED
      BY <2>2, <2>3
  <1> QED
    BY Invariance, <1>1, PTL
=============================================================================
