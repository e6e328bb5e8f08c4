---------------------------- MODULE ServerProofs ----------------------------
(***************************************************************************)
(* Proofs about Server, for every set of connections, limits, addresses,   *)
(* identity stores and configuration files.                                *)
(*                                                                         *)
(* SlotAccounting is not inductive by itself: a step that spawns a worker  *)
(* adds one to the count, so the connection it spawns for must not hold a  *)
(* slot already.  That is so because it is the one connection between      *)
(* accept() and the limit check, which was the head of a backlog, and no   *)
(* connection is in a backlog twice or in both.  Backlogs and Checking say *)
(* this; Checking also says that the loaded count is never below the real  *)
(* one, which is what the limit needs.                                     *)
(***************************************************************************)
EXTENDS Server, FiniteSetTheorems, TLAPS

Distinct(q) == \A i, j \in 1 .. Len(q) : q[i] = q[j] => i = j

Queued == QueueSet(httpQueue) \cup QueueSet(httpsQueue)

Backlogs ==
    /\ Distinct(httpQueue) /\ Distinct(httpsQueue)
    /\ QueueSet(httpQueue) \cap QueueSet(httpsQueue) = {}
    /\ \A c \in Conns : state[c] = "queued" <=> c \in Queued
    /\ phase \in {"drain", "complete"} => httpQueue = <<>> /\ httpsQueue = <<>>

InCheck == phase \in {"admit_http", "admit_https"}

Checking ==
    /\ InCheck => /\ current \in Conns
                  /\ state[current] = "accepted"
                  /\ seen >= active
    /\ \A c \in Conns : state[c] = "accepted" => InCheck /\ c = current

Applying == phase = "apply" => replacement \in Files

IndInv ==
    /\ TypeOK
    /\ Backlogs
    /\ Checking
    /\ SlotAccounting
    /\ Applying
    /\ RuntimeMatchesReload
    /\ WorkerSnapshotWhole
    /\ DrainedBeforeComplete

-----------------------------------------------------------------------------
(* Lemmas about the operators Server is built from.                        *)

\* What the accept thread takes from a backlog is a connection, and what it
\* leaves there is the rest of the backlog.
LEMMA HeadAndTail ==
    ASSUME NEW S, NEW q \in Seq(S), q # <<>>
    PROVE  /\ Head(q) \in S /\ Tail(q) \in Seq(S)
           /\ Head(q) = q[1] /\ Len(q) \in Nat \ {0}
           /\ Len(Tail(q)) = Len(q) - 1
           /\ \A i \in 1 .. Len(Tail(q)) : Tail(q)[i] = q[i + 1]
  OBVIOUS

\* A backlog without its head holds the other connections, still distinct.
LEMMA TailSet ==
    ASSUME NEW S, NEW q \in Seq(S), q # <<>>, Distinct(q)
    PROVE  /\ QueueSet(Tail(q)) = QueueSet(q) \ {Head(q)}
           /\ Head(q) \in QueueSet(q) /\ Distinct(Tail(q))
  <1> DEFINE t == Tail(q)
  <1>1. /\ t \in Seq(S) /\ Head(q) = q[1]
        /\ Len(q) \in Nat \ {0} /\ Len(t) = Len(q) - 1
        /\ \A i \in 1 .. Len(t) : t[i] = q[i + 1] /\ i + 1 \in 1 .. Len(q)
    BY HeadAndTail
  <1>2. DOMAIN q = 1 .. Len(q) /\ DOMAIN t = 1 .. Len(t)
    BY <1>1
  <1> HIDE DEF t
  <1>3. QueueSet(t) \subseteq QueueSet(q)
    BY <1>1, <1>2 DEF QueueSet
  <1>4. Head(q) \notin QueueSet(t)
    BY <1>1, <1>2 DEF QueueSet, Distinct
  <1>5. ASSUME NEW x \in QueueSet(q), x # Head(q) PROVE x \in QueueSet(t)
    <2>1. PICK j \in 1 .. Len(q) : x = q[j]
      BY <1>2 DEF QueueSet
    <2>2. j - 1 \in 1 .. Len(t) /\ t[j - 1] = x
      BY <1>1, <1>5, <2>1
    <2> QED
      BY <1>2, <2>2 DEF QueueSet
  <1>6. Head(q) \in QueueSet(q)
    BY <1>1, <1>2 DEF QueueSet
  <1>7. Distinct(t)
    BY <1>1 DEF Distinct
  <1> QED
    BY <1>3, <1>4, <1>5, <1>6, <1>7 DEF t

\* A backlog starts empty and grows at its end.
LEMMA EmptyBacklog ==
    ASSUME NEW S
    PROVE  <<>> \in Seq(S) /\ QueueSet(<<>>) = {} /\ Distinct(<<>>)
  BY DEF QueueSet, Distinct

\* A connection that is not in a backlog can be queued at its end.
LEMMA AppendSet ==
    ASSUME NEW S, NEW q \in Seq(S), NEW c \in S
    PROVE  /\ Append(q, c) \in Seq(S)
           /\ QueueSet(Append(q, c)) = QueueSet(q) \cup {c}
           /\ Distinct(q) /\ c \notin QueueSet(q) => Distinct(Append(q, c))
  <1> DEFINE a == Append(q, c)
  <1>1. /\ a \in Seq(S) /\ Len(q) \in Nat /\ Len(a) = Len(q) + 1
        /\ \A i \in 1 .. Len(q) : a[i] = q[i] /\ i \in 1 .. Len(a)
        /\ a[Len(q) + 1] = c /\ Len(q) + 1 \in 1 .. Len(a)
        /\ \A i \in 1 .. Len(a) : i \in 1 .. Len(q) \/ i = Len(q) + 1
    OBVIOUS
  <1>2. DOMAIN q = 1 .. Len(q) /\ DOMAIN a = 1 .. Len(a)
    BY <1>1
  <1> HIDE DEF a
  <1>3. QueueSet(a) = QueueSet(q) \cup {c}
    BY <1>1, <1>2 DEF QueueSet
  <1>4. Distinct(q) /\ c \notin QueueSet(q) => Distinct(a)
    BY <1>1, <1>2 DEF QueueSet, Distinct
  <1> QED
    BY <1>1, <1>3, <1>4 DEF a

\* The connections that hold a slot can be counted.
LEMMA HoldersFinite == IsFiniteSet(Holders) /\ Cardinality(Holders) \in Nat
  <1>1. Holders \subseteq Conns
    BY DEF Holders
  <1> QED
    BY <1>1, ConnsFinite, FS_Subset, FS_CardinalityType

\* A whole file is what a worker spawned under it is given.
LEMMA RuntimeIsFile == TypeOK /\ RuntimeMatchesReload => Runtime = committed
  <1> SUFFICES ASSUME TypeOK, RuntimeMatchesReload PROVE Runtime = committed
    OBVIOUS
  <1>1. committed \in FileContents
    BY FilesAreContents DEF TypeOK
  <1> QED
    BY <1>1 DEF RuntimeMatchesReload, Runtime, FileContents

\* Joining workers changes nothing but finished connections, which become idle.
LEMMA JoinedStates ==
    ASSUME TypeOK, NEW joined
    PROVE  /\ AfterJoin(joined) \in [Conns -> States]
           /\ \A c \in Conns :
                 \/ AfterJoin(joined)[c] = state[c]
                 \/ state[c] = "finished" /\ AfterJoin(joined)[c] = "idle"
  BY DEF AfterJoin, TypeOK, States

-----------------------------------------------------------------------------
(* The initial states.                                                     *)

\* The state start_proxy hands to the accept loop satisfies IndInv.
LEMMA InitIndInv == Init => IndInv
  <1> SUFFICES ASSUME Init PROVE IndInv
    OBVIOUS
  <1>1. PICK contents \in Files :
          /\ shutdownRequested = FALSE /\ reloadRequested = FALSE
          /\ file = contents /\ replacement = NoContents
          /\ configuration = contents.config
          /\ tlsIdentities = contents.identities
          /\ httpsListener = ListenerFor(contents)
          /\ httpQueue = <<>> /\ httpsQueue = <<>>
          /\ phase = "top" /\ current = NoConn /\ seen = 0
          /\ active = 0 /\ workers = {}
          /\ state = [c \in Conns |-> "idle"]
          /\ pinned = [c \in Conns |-> NoContents]
          /\ counters = [requests |-> 0, errors |-> 0]
          /\ reported = [requests |-> 0, errors |-> 0]
          /\ committed = contents /\ rejected = NoContents
    BY DEF Init
  <1>2. contents \in FileContents
    BY FilesAreContents
  <1>3. httpsListener \in Addrs \cup {NoListener}
    BY <1>1, <1>2 DEF ListenerFor, FileContents, Configs
  <1>4. TypeOK
    BY <1>1, <1>2, <1>3, EmptyBacklog
       DEF TypeOK, FileContents, Phases, States
  <1>5. Holders = {}
    BY <1>1 DEF Holders
  <1>6. SlotAccounting
    BY <1>1, <1>5, FS_EmptySet DEF SlotAccounting
  <1>7. Backlogs /\ Checking /\ Applying
    BY <1>1, EmptyBacklog DEF Backlogs, Queued, Checking, InCheck, Applying
  <1>8. RuntimeMatchesReload /\ WorkerSnapshotWhole /\ DrainedBeforeComplete
    BY <1>1 DEF RuntimeMatchesReload, WorkerSnapshotWhole,
                DrainedBeforeComplete
  <1> QED
    BY <1>4, <1>6, <1>7, <1>8 DEF IndInv

-----------------------------------------------------------------------------
(* The type invariant.                                                     *)

\* Every step keeps TypeOK: fetch_sub needs a slot to give back.
LEMMA TypeStep == ASSUME IndInv, [Next]_vars PROVE TypeOK'
  <1> USE DEF signals, runtime, backlogs, check, pool, totals, history
  <1>0. TypeOK /\ Checking /\ Applying
    BY DEF IndInv
  <1>1. CASE handle_sighup
    BY <1>0, <1>1 DEF TypeOK, handle_sighup
  <1>2. CASE handle_sigint
    BY <1>0, <1>2 DEF TypeOK, handle_sigint
  <1>3. CASE EditFile
    BY <1>0, <1>3 DEF TypeOK, EditFile
  <1>4. ASSUME NEW c \in Conns, Connect(c) PROVE TypeOK'
    <2>1. /\ httpQueue' \in {httpQueue, Append(httpQueue, c)}
          /\ httpsQueue' \in {httpsQueue, Append(httpsQueue, c)}
          /\ state' = [state EXCEPT ![c] = "queued"]
      BY <1>4 DEF Connect
    <2>2. httpQueue \in Seq(Conns) /\ httpsQueue \in Seq(Conns)
      BY <1>0 DEF TypeOK
    <2>5. /\ Append(httpQueue, c) \in Seq(Conns)
          /\ Append(httpsQueue, c) \in Seq(Conns)
      BY <2>2, AppendSet
    <2>3. httpQueue' \in Seq(Conns) /\ httpsQueue' \in Seq(Conns)
      BY <2>1, <2>2, <2>5
    <2>4. state' \in [Conns -> States]
      BY <1>0, <2>1 DEF TypeOK, States
    <2> QED
      BY <1>0, <1>4, <2>3, <2>4 DEF TypeOK, Connect
  <1>5. ASSUME NEW c \in Conns, WorkerCounts(c) PROVE TypeOK'
    BY <1>0, <1>5 DEF TypeOK, WorkerCounts
  <1>6. ASSUME NEW c \in Conns, WorkerReleases(c) PROVE TypeOK'
    <2>1. c \in Holders
      BY <1>6 DEF WorkerReleases, Holders
    <2>2. active # 0
      BY <2>1, HoldersFinite, FS_EmptySet DEF IndInv, SlotAccounting
    <2> QED
      BY <1>0, <1>6, <2>2 DEF TypeOK, WorkerReleases, States
  <1>7. ASSUME NEW c \in Conns, WorkerEnds(c) PROVE TypeOK'
    BY <1>0, <1>7 DEF TypeOK, WorkerEnds, States
  <1>8. ASSUME NEW c \in Conns, WorkerPanics(c) PROVE TypeOK'
    BY <1>0, <1>8 DEF TypeOK, WorkerPanics, States
  <1>9. CASE CheckShutdown
    BY <1>0, <1>9 DEF TypeOK, CheckShutdown, Phases
  <1>10. CASE TakeReload
    BY <1>0, <1>10 DEF TypeOK, TakeReload, Phases
  <1>11. CASE LoadReplacement
    BY <1>0, <1>11 DEF TypeOK, LoadReplacement, Phases
  <1>12. CASE RejectReplacement
    BY <1>0, <1>12 DEF TypeOK, RejectReplacement, Phases
  <1>13. CASE CommitReplacement
    <2>1. replacement \in Files /\ replacement \in FileContents
      BY <1>0, <1>13, FilesAreContents DEF Applying, CommitReplacement
    <2>2. httpsListener' \in Addrs \cup {NoListener}
      BY <1>0, <1>13, <2>1 DEF CommitReplacement, ReplacedListener, TypeOK,
                               FileContents, Configs
    <2>3. state' \in [Conns -> States] /\ httpsQueue' \in Seq(Conns)
      <3>1. CASE UNCHANGED <<httpsQueue, state>>
        BY <1>0, <3>1 DEF TypeOK
      <3>2. CASE httpsQueue' = <<>> /\ ResetBacklog(QueueSet(httpsQueue))
        BY <1>0, <3>2, EmptyBacklog DEF ResetBacklog, TypeOK, States
      <3> QED
        BY <1>13, <3>1, <3>2 DEF CommitReplacement
    <2> QED
      BY <1>0, <1>13, <2>1, <2>2, <2>3 DEF TypeOK, CommitReplacement,
                                           FileContents, Phases
  <1>14. CASE PollHttp
    BY <1>0, <1>14, HeadAndTail DEF TypeOK, PollHttp, Poll, Phases, States
  <1>15. CASE PollHttps
    BY <1>0, <1>15, HeadAndTail DEF TypeOK, PollHttps, Poll, Phases, States
  <1>16. CASE NoHttps
    BY <1>0, <1>16 DEF TypeOK, NoHttps, Phases
  <1>17. CASE AdmitHttp \/ AdmitHttps
    <2>1. current \in Conns
      BY <1>0, <1>17 DEF Checking, InCheck, AdmitHttp, AdmitHttps, Admit
    <2>2. Runtime \in FileContents
      BY <1>0 DEF TypeOK, Runtime, FileContents
    <2> QED
      BY <1>0, <1>17, <2>1, <2>2 DEF TypeOK, AdmitHttp, AdmitHttps, Admit,
                                Reject, Spawn, Phases, States
  <1>18. CASE Reap
    BY <1>0, <1>18, JoinedStates DEF TypeOK, Reap, Phases
  <1>19. CASE BeginDrain
    BY <1>0, <1>19, JoinedStates DEF TypeOK, BeginDrain, Phases, States
  <1>20. ASSUME NEW c \in Conns, JoinWorker(c) PROVE TypeOK'
    BY <1>0, <1>20, JoinedStates DEF TypeOK, JoinWorker
  <1>21. CASE CompleteShutdown
    BY <1>0, <1>21 DEF TypeOK, CompleteShutdown, Phases
  <1>22. CASE AcceptFails
    BY <1>0, <1>22 DEF TypeOK, AcceptFails, Phases
  <1>23. CASE UNCHANGED vars
    BY <1>0, <1>23 DEF TypeOK, vars
  <1> QED
    BY <1>1, <1>2, <1>3, <1>4, <1>5, <1>6, <1>7, <1>8, <1>9, <1>10, <1>11,
       <1>12, <1>13, <1>14, <1>15, <1>16, <1>17, <1>18, <1>19, <1>20, <1>21,
       <1>22, <1>23 DEF Next, Environment, Worker, AcceptThread

-----------------------------------------------------------------------------
(* The backlogs.                                                           *)

\* A step that touches no backlog and queues or unqueues no connection keeps
\* Backlogs, unless it begins the drain.
LEMMA BacklogsFrame ==
    ASSUME Backlogs, UNCHANGED <<httpQueue, httpsQueue>>,
           \A c \in Conns : state'[c] = "queued" <=> state[c] = "queued",
           phase' \in {"drain", "complete"} => phase = "drain" \/ phase' = phase
    PROVE  Backlogs'
  BY DEF Backlogs, Queued

\* Every step keeps each queued connection in one backlog, once.
LEMMA BacklogsStep == ASSUME IndInv, [Next]_vars PROVE Backlogs'
  <1> USE DEF signals, runtime, backlogs, check, pool, totals, history
  <1>0. /\ TypeOK /\ Backlogs /\ Checking
        /\ httpQueue \in Seq(Conns) /\ httpsQueue \in Seq(Conns)
    BY DEF IndInv, TypeOK
  <1>1. CASE handle_sighup \/ handle_sigint \/ EditFile
    BY <1>0, <1>1, BacklogsFrame DEF handle_sighup, handle_sigint, EditFile
  <1>2. ASSUME NEW c \in Conns, Connect(c) PROVE Backlogs'
    <2>1. /\ \A d \in Conns : state'[d] = "queued" <=> state[d] = "queued" \/ d = c
          /\ state[c] # "queued" /\ phase' \notin {"drain", "complete"}
      BY <1>0, <1>2 DEF Connect, TypeOK, Polling
    <2>2. c \notin QueueSet(httpQueue) /\ c \notin QueueSet(httpsQueue)
      BY <1>0, <2>1 DEF Backlogs, Queued
    <2>3. CASE httpQueue' = Append(httpQueue, c) /\ UNCHANGED httpsQueue
      <3>1. /\ QueueSet(httpQueue') = QueueSet(httpQueue) \cup {c}
            /\ Distinct(httpQueue')
        BY <1>0, <2>2, <2>3, AppendSet DEF Backlogs
      <3> QED
        BY <1>0, <2>1, <2>2, <2>3, <3>1 DEF Backlogs, Queued
    <2>4. CASE httpsQueue' = Append(httpsQueue, c) /\ UNCHANGED httpQueue
      <3>1. /\ QueueSet(httpsQueue') = QueueSet(httpsQueue) \cup {c}
            /\ Distinct(httpsQueue')
        BY <1>0, <2>2, <2>4, AppendSet DEF Backlogs
      <3> QED
        BY <1>0, <2>1, <2>2, <2>4, <3>1 DEF Backlogs, Queued
    <2> QED
      BY <1>2, <2>3, <2>4 DEF Connect
  <1>3. ASSUME NEW c \in Conns, Worker(c) PROVE Backlogs'
    <2>1. \A d \in Conns : state'[d] = "queued" <=> state[d] = "queued"
      BY <1>0, <1>3 DEF Worker, WorkerCounts, WorkerReleases, WorkerEnds,
                        WorkerPanics, TypeOK
    <2>2. UNCHANGED <<httpQueue, httpsQueue, phase>>
      BY <1>3 DEF Worker, WorkerCounts, WorkerReleases, WorkerEnds,
                  WorkerPanics
    <2> QED
      BY <1>0, <2>1, <2>2, BacklogsFrame
  <1>4. CASE \/ CheckShutdown \/ TakeReload \/ LoadReplacement
             \/ RejectReplacement \/ NoHttps \/ CompleteShutdown \/ AcceptFails
    BY <1>0, <1>4, BacklogsFrame
       DEF CheckShutdown, TakeReload, LoadReplacement, RejectReplacement,
           NoHttps, CompleteShutdown, AcceptFails
  <1>5. CASE CommitReplacement
    <2>1. phase' = "http" /\ httpQueue' = httpQueue
      BY <1>5 DEF CommitReplacement
    <2>2. CASE UNCHANGED <<httpsQueue, state>>
      BY <1>0, <2>1, <2>2, BacklogsFrame
    <2>3. CASE httpsQueue' = <<>> /\ ResetBacklog(QueueSet(httpsQueue))
      <3>1. \A c \in Conns :
              state'[c] = IF c \in QueueSet(httpsQueue) THEN "idle" ELSE state[c]
        BY <2>3 DEF ResetBacklog
      <3> QED
        BY <1>0, <2>1, <2>3, <3>1, EmptyBacklog DEF Backlogs, Queued
    <2> QED
      BY <1>5, <2>2, <2>3 DEF CommitReplacement
  <1>6. CASE PollHttp
    <2>1. httpsQueue' = httpsQueue /\ phase' \notin {"drain", "complete"}
      BY <1>6 DEF PollHttp, Poll
    <2>2. CASE httpQueue = <<>>
      <3>1. httpQueue' = httpQueue /\ state' = state
        BY <1>6, <2>2 DEF PollHttp, Poll
      <3> QED
        BY <1>0, <2>1, <3>1, BacklogsFrame
    <2>3. CASE httpQueue # <<>>
      <3>1. /\ httpQueue' = Tail(httpQueue)
            /\ state' = [state EXCEPT ![Head(httpQueue)] = "accepted"]
        BY <1>6, <2>3 DEF PollHttp, Poll
      <3>2. /\ QueueSet(httpQueue') = QueueSet(httpQueue) \ {Head(httpQueue)}
            /\ Head(httpQueue) \in QueueSet(httpQueue) /\ Distinct(httpQueue')
        BY <1>0, <2>3, <3>1, TailSet DEF Backlogs
      <3>3. \A c \in Conns :
              state'[c] = "queued" <=> state[c] = "queued" /\ c # Head(httpQueue)
        BY <1>0, <3>1 DEF TypeOK
      <3> QED
        BY <1>0, <2>1, <3>2, <3>3 DEF Backlogs, Queued
    <2> QED
      BY <2>2, <2>3
  <1>7. CASE PollHttps
    <2>1. httpQueue' = httpQueue /\ phase' \notin {"drain", "complete"}
      BY <1>7 DEF PollHttps, Poll
    <2>2. CASE httpsQueue = <<>>
      <3>1. httpsQueue' = httpsQueue /\ state' = state
        BY <1>7, <2>2 DEF PollHttps, Poll
      <3> QED
        BY <1>0, <2>1, <3>1, BacklogsFrame
    <2>3. CASE httpsQueue # <<>>
      <3>1. /\ httpsQueue' = Tail(httpsQueue)
            /\ state' = [state EXCEPT ![Head(httpsQueue)] = "accepted"]
        BY <1>7, <2>3 DEF PollHttps, Poll
      <3>2. /\ QueueSet(httpsQueue') = QueueSet(httpsQueue) \ {Head(httpsQueue)}
            /\ Head(httpsQueue) \in QueueSet(httpsQueue)
            /\ Distinct(httpsQueue')
        BY <1>0, <2>3, <3>1, TailSet DEF Backlogs
      <3>3. \A c \in Conns :
              state'[c] = "queued" <=> state[c] = "queued" /\ c # Head(httpsQueue)
        BY <1>0, <3>1 DEF TypeOK
      <3> QED
        BY <1>0, <2>1, <3>2, <3>3 DEF Backlogs, Queued
    <2> QED
      BY <2>2, <2>3
  <1>8. CASE AdmitHttp \/ AdmitHttps
    <2>1. current \in Conns /\ state[current] = "accepted"
      BY <1>0, <1>8 DEF Checking, InCheck, AdmitHttp, AdmitHttps, Admit
    <2>2. \A d \in Conns : state'[d] = "queued" <=> state[d] = "queued"
      BY <1>0, <1>8, <2>1 DEF AdmitHttp, AdmitHttps, Admit, Reject, Spawn,
                              TypeOK
    <2> QED
      BY <1>0, <1>8, <2>2, BacklogsFrame DEF AdmitHttp, AdmitHttps, Admit
  <1>9. CASE Reap \/ \E c \in Conns : JoinWorker(c)
    <2>1. \A d \in Conns : state'[d] = "queued" <=> state[d] = "queued"
      BY <1>0, <1>9, JoinedStates DEF Reap, JoinWorker
    <2> QED
      BY <1>0, <1>9, <2>1, BacklogsFrame DEF Reap, JoinWorker
  <1>10. CASE BeginDrain
    <2>1. \A c \in Conns :
            state'[c] = IF c \in Queued THEN "idle" ELSE AfterJoin(workers)[c]
      BY <1>10 DEF BeginDrain, Queued
    <2>2. \A c \in Conns : state'[c] # "queued"
      BY <1>0, <2>1, JoinedStates DEF Backlogs
    <2>3. httpQueue' = <<>> /\ httpsQueue' = <<>>
      BY <1>10 DEF BeginDrain
    <2> QED
      BY <2>2, <2>3, EmptyBacklog DEF Backlogs, Queued
  <1>11. CASE UNCHANGED vars
    BY <1>0, <1>11, BacklogsFrame DEF vars
  <1> QED
    BY <1>1, <1>2, <1>3, <1>4, <1>5, <1>6, <1>7, <1>8, <1>9, <1>10, <1>11
       DEF Next, Environment, AcceptThread

-----------------------------------------------------------------------------
(* The connection between accept() and the limit check.                    *)

\* A step that leaves the check alone and takes no slot keeps Checking.
LEMMA CheckingFrame ==
    ASSUME TypeOK, TypeOK', Checking, UNCHANGED <<current, seen>>,
           active' <= active, InCheck' <=> InCheck,
           \A c \in Conns : state'[c] = "accepted" <=> state[c] = "accepted"
    PROVE  Checking'
  BY DEF Checking, TypeOK

\* Every step keeps the limit check: between the load of active_connections
\* and the fetch_add the count can only fall.
LEMMA CheckingStep == ASSUME IndInv, [Next]_vars PROVE Checking'
  <1> USE DEF signals, runtime, backlogs, check, pool, totals, history
  <1>0. /\ TypeOK /\ TypeOK' /\ Backlogs /\ Checking /\ active \in Nat
        /\ httpQueue \in Seq(Conns) /\ httpsQueue \in Seq(Conns)
    BY TypeStep DEF IndInv, TypeOK
  <1>1. CASE handle_sighup \/ handle_sigint \/ EditFile
    BY <1>0, <1>1, CheckingFrame
       DEF handle_sighup, handle_sigint, EditFile, InCheck
  <1>2. ASSUME NEW c \in Conns, Connect(c) PROVE Checking'
    <2>1. \A d \in Conns : state'[d] = "accepted" <=> state[d] = "accepted"
      BY <1>0, <1>2 DEF Connect, TypeOK
    <2> QED
      BY <1>0, <1>2, <2>1, CheckingFrame DEF Connect, InCheck
  <1>3. ASSUME NEW c \in Conns, Worker(c) PROVE Checking'
    <2>1. /\ \A d \in Conns : state'[d] = "accepted" <=> state[d] = "accepted"
          /\ UNCHANGED <<current, seen, phase>> /\ active' <= active
      BY <1>0, <1>3 DEF Worker, WorkerCounts, WorkerReleases, WorkerEnds,
                        WorkerPanics, TypeOK
    <2> QED
      BY <1>0, <2>1, CheckingFrame DEF InCheck
  <1>4. CASE \/ CheckShutdown \/ TakeReload \/ LoadReplacement
             \/ RejectReplacement \/ NoHttps \/ CompleteShutdown \/ AcceptFails
    BY <1>0, <1>4, CheckingFrame
       DEF CheckShutdown, TakeReload, LoadReplacement, RejectReplacement,
           NoHttps, CompleteShutdown, AcceptFails, InCheck
  <1>5. CASE CommitReplacement
    <2>1. /\ UNCHANGED <<current, seen, active>>
          /\ phase = "apply" /\ phase' = "http"
      BY <1>5 DEF CommitReplacement
    <2>2. CASE UNCHANGED state
      BY <1>0, <2>1, <2>2, CheckingFrame DEF InCheck
    <2>3. CASE ResetBacklog(QueueSet(httpsQueue))
      <3>1. \A c \in Conns : state'[c] = "accepted" <=> state[c] = "accepted"
        BY <1>0, <2>3 DEF ResetBacklog, Backlogs, Queued
      <3> QED
        BY <1>0, <2>1, <3>1, CheckingFrame DEF InCheck
    <2> QED
      BY <1>5, <2>2, <2>3 DEF CommitReplacement
  <1>6. CASE PollHttp
    <2>1. CASE httpQueue = <<>>
      BY <1>0, <1>6, <2>1, CheckingFrame DEF PollHttp, Poll, InCheck
    <2>2. CASE httpQueue # <<>>
      <3>1. Head(httpQueue) \in Conns
        BY <1>0, <2>2, HeadAndTail
      <3>2. /\ current' = Head(httpQueue) /\ seen' = active /\ active' = active
            /\ state' = [state EXCEPT ![Head(httpQueue)] = "accepted"]
            /\ ~InCheck /\ InCheck'
        BY <1>6, <2>2 DEF PollHttp, Poll, InCheck
      <3> QED
        BY <1>0, <3>1, <3>2 DEF Checking, TypeOK
    <2> QED
      BY <2>1, <2>2
  <1>7. CASE PollHttps
    <2>1. CASE httpsQueue = <<>>
      BY <1>0, <1>7, <2>1, CheckingFrame DEF PollHttps, Poll, InCheck
    <2>2. CASE httpsQueue # <<>>
      <3>1. Head(httpsQueue) \in Conns
        BY <1>0, <2>2, HeadAndTail
      <3>2. /\ current' = Head(httpsQueue) /\ seen' = active /\ active' = active
            /\ state' = [state EXCEPT ![Head(httpsQueue)] = "accepted"]
            /\ ~InCheck /\ InCheck'
        BY <1>7, <2>2 DEF PollHttps, Poll, InCheck
      <3> QED
        BY <1>0, <3>1, <3>2 DEF Checking, TypeOK
    <2> QED
      BY <2>1, <2>2
  <1>8. CASE AdmitHttp \/ AdmitHttps
    <2>1. current \in Conns /\ \A c \in Conns : state[c] = "accepted" => c = current
      BY <1>0, <1>8 DEF Checking, InCheck, AdmitHttp, AdmitHttps, Admit
    <2>2. /\ phase' \notin {"admit_http", "admit_https"}
          /\ \/ state' = [state EXCEPT ![current] = "idle"]
             \/ state' = [state EXCEPT ![current] = "running"]
      BY <1>8 DEF AdmitHttp, AdmitHttps, Admit, Reject, Spawn
    <2> QED
      BY <1>0, <2>1, <2>2 DEF Checking, InCheck, TypeOK
  <1>9. CASE Reap \/ \E c \in Conns : JoinWorker(c)
    <2>1. /\ \A d \in Conns : state'[d] = "accepted" <=> state[d] = "accepted"
          /\ UNCHANGED <<current, seen, active>> /\ ~InCheck /\ ~InCheck'
      BY <1>0, <1>9, JoinedStates DEF Reap, JoinWorker, InCheck
    <2> QED
      BY <1>0, <2>1, CheckingFrame
  <1>10. CASE BeginDrain
    <2>1. \A d \in Conns : state[d] # "accepted"
      BY <1>0, <1>10 DEF BeginDrain, Checking, InCheck
    <2>2. \A d \in Conns : state'[d] # "accepted"
      BY <1>0, <1>10, <2>1, JoinedStates DEF BeginDrain
    <2>3. phase' = "drain"
      BY <1>10 DEF BeginDrain
    <2> QED
      BY <2>2, <2>3 DEF Checking, InCheck
  <1>11. CASE UNCHANGED vars
    BY <1>0, <1>11, CheckingFrame DEF vars, InCheck
  <1> QED
    BY <1>1, <1>2, <1>3, <1>4, <1>5, <1>6, <1>7, <1>8, <1>9, <1>10, <1>11
       DEF Next, Environment, AcceptThread

-----------------------------------------------------------------------------
(* The count of active connections.                                        *)

\* A step that moves no connection in or out of Holders keeps the count exact
\* if it keeps the count.
LEMMA SlotFrame ==
    ASSUME SlotAccounting, active' = active,
           \A c \in Conns : state'[c] \in {"running", "panicked"}
                            <=> state[c] \in {"running", "panicked"}
    PROVE  SlotAccounting'
  <1>1. Holders' = Holders
    BY DEF Holders
  <1> QED
    BY <1>1 DEF SlotAccounting

\* Every step keeps active_connections equal to the slots that are held.
LEMMA SlotStep == ASSUME IndInv, [Next]_vars PROVE SlotAccounting'
  <1> USE DEF signals, runtime, backlogs, check, pool, totals, history
  <1>0. /\ TypeOK /\ Backlogs /\ Checking /\ SlotAccounting
        /\ httpQueue \in Seq(Conns) /\ httpsQueue \in Seq(Conns)
    BY DEF IndInv, TypeOK
  <1>1. CASE \/ handle_sighup \/ handle_sigint \/ EditFile
             \/ \E c \in Conns : Connect(c) \/ WorkerCounts(c) \/ WorkerEnds(c)
             \/ \E c \in Conns : WorkerPanics(c)
    <2>1. /\ active' = active
          /\ \A d \in Conns : state'[d] \in {"running", "panicked"}
                              <=> state[d] \in {"running", "panicked"}
      BY <1>0, <1>1 DEF handle_sighup, handle_sigint, EditFile, Connect,
                        WorkerCounts, WorkerEnds, WorkerPanics, TypeOK
    <2> QED
      BY <1>0, <2>1, SlotFrame
  <1>2. ASSUME NEW c \in Conns, WorkerReleases(c) PROVE SlotAccounting'
    <2>1. c \in Holders /\ Holders' = Holders \ {c}
      BY <1>0, <1>2 DEF WorkerReleases, Holders, TypeOK
    <2>2. Cardinality(Holders \ {c}) = Cardinality(Holders) - 1
      BY <2>1, HoldersFinite, FS_RemoveElement
    <2> QED
      BY <1>0, <1>2, <2>1, <2>2 DEF WorkerReleases, SlotAccounting
  <1>3. CASE \/ CheckShutdown \/ TakeReload \/ LoadReplacement
             \/ RejectReplacement \/ NoHttps \/ CompleteShutdown \/ AcceptFails
    BY <1>0, <1>3, SlotFrame
       DEF CheckShutdown, TakeReload, LoadReplacement, RejectReplacement,
           NoHttps, CompleteShutdown, AcceptFails
  <1>4. CASE CommitReplacement
    <2>1. \A c \in QueueSet(httpsQueue) \cap Conns : state[c] = "queued"
      BY <1>0 DEF Backlogs, Queued
    <2>2. \A c \in Conns : state'[c] \in {"running", "panicked"}
                           <=> state[c] \in {"running", "panicked"}
      BY <1>4, <2>1 DEF CommitReplacement, ResetBacklog
    <2> QED
      BY <1>0, <1>4, <2>2, SlotFrame DEF CommitReplacement
  <1>5. CASE PollHttp \/ PollHttps
    <2>1. \A q \in {httpQueue, httpsQueue} : q # <<>> =>
            Head(q) \in Conns /\ state[Head(q)] = "queued"
      <3> SUFFICES ASSUME NEW q \in {httpQueue, httpsQueue}, q # <<>>
                   PROVE  Head(q) \in Conns /\ state[Head(q)] = "queued"
        OBVIOUS
      <3>1. Head(q) \in Conns
        BY <1>0, HeadAndTail
      <3>2. Head(q) \in QueueSet(q)
        BY <1>0, TailSet DEF Backlogs
      <3> QED
        BY <1>0, <3>1, <3>2 DEF Backlogs, Queued
    <2>2. \A c \in Conns : state'[c] \in {"running", "panicked"}
                           <=> state[c] \in {"running", "panicked"}
      BY <1>0, <1>5, <2>1 DEF PollHttp, PollHttps, Poll, TypeOK
    <2> QED
      BY <1>0, <1>5, <2>2, SlotFrame DEF PollHttp, PollHttps, Poll
  <1>6. CASE AdmitHttp \/ AdmitHttps
    <2>1. current \in Conns /\ state[current] = "accepted"
      BY <1>0, <1>6 DEF Checking, InCheck, AdmitHttp, AdmitHttps, Admit
    <2>2. CASE Reject
      <3>1. \A c \in Conns : state'[c] \in {"running", "panicked"}
                             <=> state[c] \in {"running", "panicked"}
        BY <1>0, <2>1, <2>2 DEF Reject, TypeOK
      <3> QED
        BY <1>0, <2>2, <3>1, SlotFrame DEF Reject
    <2>3. CASE Spawn
      <3>1. Holders' = Holders \cup {current} /\ current \notin Holders
        BY <1>0, <2>1, <2>3 DEF Spawn, Holders, TypeOK
      <3>2. Cardinality(Holders \cup {current}) = Cardinality(Holders) + 1
        BY <3>1, HoldersFinite, FS_AddElement
      <3> QED
        BY <1>0, <2>3, <3>1, <3>2 DEF Spawn, SlotAccounting
    <2> QED
      BY <1>6, <2>2, <2>3 DEF AdmitHttp, AdmitHttps, Admit
  <1>7. CASE Reap \/ \E c \in Conns : JoinWorker(c)
    <2>1. /\ active' = active
          /\ \A d \in Conns : state'[d] \in {"running", "panicked"}
                              <=> state[d] \in {"running", "panicked"}
      BY <1>0, <1>7, JoinedStates DEF Reap, JoinWorker
    <2> QED
      BY <1>0, <2>1, SlotFrame
  <1>8. CASE BeginDrain
    <2>1. \A c \in Conns :
            state'[c] = IF c \in Queued THEN "idle" ELSE AfterJoin(workers)[c]
      BY <1>8 DEF BeginDrain, Queued
    <2>2. \A d \in Conns : state'[d] \in {"running", "panicked"}
                           <=> state[d] \in {"running", "panicked"}
      BY <1>0, <2>1, JoinedStates DEF Backlogs
    <2> QED
      BY <1>0, <1>8, <2>2, SlotFrame DEF BeginDrain
  <1>9. CASE UNCHANGED vars
    BY <1>0, <1>9, SlotFrame DEF vars
  <1> QED
    BY <1>1, <1>2, <1>3, <1>4, <1>5, <1>6, <1>7, <1>8, <1>9
       DEF Next, Environment, Worker, AcceptThread

-----------------------------------------------------------------------------
(* Reload: configuration, identities and listener.                         *)

\* Every step keeps runtime, replacement and worker snapshots those of one
\* file.
LEMMA ReloadStep ==
    ASSUME IndInv, [Next]_vars
    PROVE  Applying' /\ RuntimeMatchesReload' /\ WorkerSnapshotWhole'
  <1> USE DEF signals, runtime, backlogs, check, pool, totals, history
  <1>0. /\ TypeOK /\ Applying /\ RuntimeMatchesReload /\ WorkerSnapshotWhole
        /\ Backlogs /\ Checking
    BY DEF IndInv
  <1>1. Applying'
    <2>1. CASE LoadReplacement
      BY <1>0, <2>1 DEF LoadReplacement, Applying, TypeOK
    <2>2. CASE ~LoadReplacement
      <3>1. phase' = "apply" => phase = "apply" /\ replacement' = replacement
        BY <2>2 DEF Next, Environment, Worker, AcceptThread, vars,
           handle_sighup, handle_sigint, EditFile, Connect, WorkerCounts,
           WorkerReleases, WorkerEnds, WorkerPanics, CheckShutdown,
           TakeReload, RejectReplacement, CommitReplacement, PollHttp,
           PollHttps, Poll, NoHttps, AdmitHttp, AdmitHttps, Admit, Reap,
           BeginDrain, JoinWorker, CompleteShutdown, AcceptFails
      <3> QED
        BY <1>0, <3>1 DEF Applying
    <2> QED
      BY <2>1, <2>2
  <1>2. RuntimeMatchesReload'
    <2>1. CASE CommitReplacement
      <3>1. /\ replacement \in Files /\ committed' = replacement
            /\ configuration' = replacement.config
            /\ tlsIdentities' = replacement.identities
            /\ httpsListener' = ReplacedListener
            /\ phase = "apply"
        BY <1>0, <2>1 DEF CommitReplacement, Applying
      <3>2. /\ httpsListener = ListenerFor(committed)
            /\ configuration = committed.config
        BY <1>0, <3>1 DEF RuntimeMatchesReload, Polling
      <3>3. ReplacedListener = ListenerFor(replacement)
        BY <3>2 DEF ReplacedListener, ListenerChanges, ListenerFor
      <3> QED
        BY <3>1, <3>3 DEF RuntimeMatchesReload
    <2>2. CASE BeginDrain
      BY <1>0, <2>2 DEF BeginDrain, RuntimeMatchesReload, Polling
    <2>3. CASE ~CommitReplacement /\ ~BeginDrain
      <3>1. /\ UNCHANGED <<configuration, tlsIdentities, httpsListener, committed>>
            /\ Polling' => Polling
        BY <2>3 DEF Next, Environment, Worker, AcceptThread, vars, Polling,
           handle_sighup, handle_sigint, EditFile, Connect, WorkerCounts,
           WorkerReleases, WorkerEnds, WorkerPanics, CheckShutdown,
           TakeReload, LoadReplacement, RejectReplacement, PollHttp,
           PollHttps, Poll, NoHttps, AdmitHttp, AdmitHttps, Admit, Reap,
           JoinWorker, CompleteShutdown, AcceptFails
      <3> QED
        BY <1>0, <3>1 DEF RuntimeMatchesReload, ListenerFor
    <2> QED
      BY <2>1, <2>2, <2>3
  <1>3. WorkerSnapshotWhole'
    <2>1. CASE AdmitHttp \/ AdmitHttps
      <3>1. current \in Conns
        BY <1>0, <2>1 DEF Checking, InCheck, AdmitHttp, AdmitHttps, Admit
      <3>2. Runtime \in Files
        BY <1>0, RuntimeIsFile DEF TypeOK
      <3>3. CASE Reject
        BY <1>0, <3>1, <3>3 DEF Reject, WorkerSnapshotWhole, TypeOK
      <3>4. CASE Spawn
        BY <1>0, <3>1, <3>2, <3>4 DEF Spawn, WorkerSnapshotWhole, TypeOK
      <3> QED
        BY <2>1, <3>3, <3>4 DEF AdmitHttp, AdmitHttps, Admit
    <2>2. CASE \E c \in Conns : Connect(c) \/ Worker(c)
      BY <1>0, <2>2 DEF Connect, Worker, WorkerCounts, WorkerReleases,
                        WorkerEnds, WorkerPanics, WorkerSnapshotWhole, TypeOK
    <2>3. CASE PollHttp \/ PollHttps
      <3>1. /\ pinned' = pinned
            /\ \A c \in Conns : state'[c] = "running" => state[c] = "running"
        BY <1>0, <2>3 DEF PollHttp, PollHttps, Poll, TypeOK
      <3> QED
        BY <1>0, <3>1 DEF WorkerSnapshotWhole
    <2>4. CASE CommitReplacement
      <3>1. /\ pinned' = pinned
            /\ \A c \in Conns : state'[c] = "running" => state[c] = "running"
        BY <2>4 DEF CommitReplacement, ResetBacklog
      <3> QED
        BY <1>0, <3>1 DEF WorkerSnapshotWhole
    <2>5. CASE Reap \/ BeginDrain \/ \E c \in Conns : JoinWorker(c)
      <3>1. /\ pinned' = pinned
            /\ \A c \in Conns : state'[c] = "running" => state[c] = "running"
        BY <1>0, <2>5, JoinedStates DEF Reap, BeginDrain, JoinWorker
      <3> QED
        BY <1>0, <3>1 DEF WorkerSnapshotWhole
    <2>6. CASE \/ handle_sighup \/ handle_sigint \/ EditFile \/ CheckShutdown
               \/ TakeReload \/ LoadReplacement \/ RejectReplacement \/ NoHttps
               \/ CompleteShutdown \/ AcceptFails \/ UNCHANGED vars
      BY <1>0, <2>6 DEF handle_sighup, handle_sigint, EditFile, CheckShutdown,
         TakeReload, LoadReplacement, RejectReplacement, NoHttps,
         CompleteShutdown, AcceptFails, vars, WorkerSnapshotWhole
    <2> QED
      BY <2>1, <2>2, <2>3, <2>4, <2>5, <2>6
         DEF Next, Environment, AcceptThread
  <1> QED
    BY <1>1, <1>2, <1>3

-----------------------------------------------------------------------------
(* The drain.                                                              *)

\* Every step keeps each live worker among those the drain joins.
LEMMA DrainStep == ASSUME IndInv, [Next]_vars PROVE DrainedBeforeComplete'
  <1> USE DEF signals, runtime, backlogs, check, pool, totals, history
  <1>0. TypeOK /\ TypeOK' /\ DrainedBeforeComplete /\ Checking
    BY TypeStep DEF IndInv
  <1>1. ASSUME NEW c \in Conns, state'[c] \in {"running", "released"}
        PROVE  c \in workers'
    <2>1. CASE AdmitHttp \/ AdmitHttps
      <3>1. current \in Conns
        BY <1>0, <2>1 DEF Checking, InCheck, AdmitHttp, AdmitHttps, Admit
      <3> QED
        BY <1>0, <1>1, <2>1, <3>1 DEF AdmitHttp, AdmitHttps, Admit, Reject,
                           Spawn, DrainedBeforeComplete, TypeOK
    <2>2. CASE Reap \/ BeginDrain \/ \E d \in Conns : JoinWorker(d)
      <3>1. state[c] \in {"running", "released"}
        BY <1>0, <1>1, <2>2, JoinedStates DEF Reap, BeginDrain, JoinWorker
      <3> QED
        BY <1>0, <2>2, <3>1 DEF Reap, BeginDrain, JoinWorker, Ended,
                                DrainedBeforeComplete
    <2>3. CASE ~(AdmitHttp \/ AdmitHttps \/ Reap \/ BeginDrain
                 \/ \E d \in Conns : JoinWorker(d))
      <3>1. workers' = workers /\ state[c] \in {"running", "released"}
        BY <1>0, <1>1, <2>3 DEF Next, Environment, Worker, AcceptThread, vars,
           handle_sighup, handle_sigint, EditFile, Connect, WorkerCounts,
           WorkerReleases, WorkerEnds, WorkerPanics, CheckShutdown,
           TakeReload, LoadReplacement, RejectReplacement, CommitReplacement,
           ResetBacklog, PollHttp, PollHttps, Poll, NoHttps,
           CompleteShutdown, AcceptFails, TypeOK
      <3> QED
        BY <1>0, <3>1 DEF DrainedBeforeComplete
    <2> QED
      BY <2>1, <2>2, <2>3
  <1>2. phase' = "complete" => workers' = {} /\ reported' = counters'
    <2>1. CASE phase = "complete"
      <3>1. UNCHANGED <<workers, reported, counters>>
        BY <2>1 DEF Next, Environment, Worker, AcceptThread, vars, Alive,
           Polling, handle_sighup, handle_sigint, EditFile, Connect,
           WorkerCounts, WorkerReleases, WorkerEnds, WorkerPanics,
           CheckShutdown, TakeReload, LoadReplacement, RejectReplacement,
           CommitReplacement, PollHttp, PollHttps, Poll, NoHttps, AdmitHttp,
           AdmitHttps, Admit, Reap, BeginDrain, JoinWorker,
           CompleteShutdown, AcceptFails
      <3> QED
        BY <1>0, <2>1, <3>1 DEF DrainedBeforeComplete
    <2>2. CASE phase # "complete" /\ phase' = "complete"
      <3>1. CompleteShutdown
        BY <2>2 DEF Next, Environment, Worker, AcceptThread, vars,
           handle_sighup, handle_sigint, EditFile, Connect, WorkerCounts,
           WorkerReleases, WorkerEnds, WorkerPanics, CheckShutdown,
           TakeReload, LoadReplacement, RejectReplacement, CommitReplacement,
           PollHttp, PollHttps, Poll, NoHttps, AdmitHttp, AdmitHttps, Admit,
           Reap, BeginDrain, JoinWorker, AcceptFails
      <3> QED
        BY <3>1 DEF CompleteShutdown
    <2> QED
      BY <2>1, <2>2
  <1> QED
    BY <1>1, <1>2 DEF DrainedBeforeComplete

-----------------------------------------------------------------------------
(* The theorems.                                                           *)

\* The inductive invariant: what the accept thread and the workers maintain
\* together, through reload and shutdown.
THEOREM InductiveInvariant == Spec => []IndInv
  <1>1. Init => IndInv
    BY InitIndInv
  <1>2. IndInv /\ [Next]_vars => IndInv'
    BY TypeStep, BacklogsStep, CheckingStep, SlotStep, ReloadStep, DrainStep
       DEF IndInv
  <1> QED
    BY <1>1, <1>2, PTL DEF Spec

\* Every variable keeps its type; in particular active_connections, which the
\* code decrements without a check, never goes below zero.
THEOREM TypeCorrect == Spec => []TypeOK
  <1>1. IndInv => TypeOK
    BY DEF IndInv
  <1> QED
    BY <1>1, InductiveInvariant, PTL

\* active_connections equals the number of connections that hold a slot, for
\* any number of connections on two listeners.
THEOREM SlotsCounted == Spec => []SlotAccounting
  <1>1. IndInv => SlotAccounting
    BY DEF IndInv
  <1> QED
    BY <1>1, InductiveInvariant, PTL

\* No slot is taken at or above the limit in force.
THEOREM LimitRespected == Spec => AdmissionWithinLimit
  <1>1. ASSUME IndInv, [Next]_vars
        PROVE  active' > active => active' <= configuration.max
    <2> SUFFICES ASSUME active' > active PROVE active' <= configuration.max
      OBVIOUS
    <2> USE DEF signals, runtime, backlogs, check, pool, totals, history
    <2>1. TypeOK /\ Checking /\ active \in Nat /\ seen \in Nat
      BY <1>1 DEF IndInv, TypeOK
    <2>2. configuration.max \in Nat
      BY <2>1, LimitsPositive DEF TypeOK, Configs
    <2>3. AdmitHttp \/ AdmitHttps
      <3>1. ~(AdmitHttp \/ AdmitHttps) => active' = active \/ active' = active - 1
        BY <1>1 DEF Next, Environment, Worker, AcceptThread, vars,
           handle_sighup, handle_sigint, EditFile, Connect, WorkerCounts,
           WorkerReleases, WorkerEnds, WorkerPanics, CheckShutdown,
           TakeReload, LoadReplacement, RejectReplacement, CommitReplacement,
           PollHttp, PollHttps, Poll, NoHttps, Reap, BeginDrain, JoinWorker,
           CompleteShutdown, AcceptFails
      <3> QED
        BY <2>1, <3>1
    <2>4. seen >= active
      BY <2>1, <2>3 DEF Checking, InCheck, AdmitHttp, AdmitHttps, Admit
    <2>5. active' = active + 1 /\ ~(seen >= configuration.max)
      BY <2>1, <2>3 DEF AdmitHttp, AdmitHttps, Admit, Reject, Spawn, OverLimit
    <2> QED
      BY <2>1, <2>2, <2>4, <2>5
  <1>2. IndInv /\ [Next]_vars =>
          [active' > active => active' <= configuration.max]_vars
    BY <1>1
  <1> QED
    BY <1>2, InductiveInvariant, PTL DEF Spec, AdmissionWithinLimit

\* A reload is all or nothing: configuration, identities and HTTPS listener
\* are those of the last file that was activated, and no other.
THEOREM ReloadAtomic == Spec => []RuntimeMatchesReload
  <1>1. IndInv => RuntimeMatchesReload
    BY DEF IndInv
  <1> QED
    BY <1>1, InductiveInvariant, PTL

\* A worker always runs with the configuration and the identities of one file.
THEOREM SnapshotsWhole == Spec => []WorkerSnapshotWhole
  <1>1. IndInv => WorkerSnapshotWhole
    BY DEF IndInv
  <1> QED
    BY <1>1, InductiveInvariant, PTL

\* shutdown_complete comes after the end of every worker, with final totals.
THEOREM DrainComplete == Spec => []DrainedBeforeComplete
  <1>1. IndInv => DrainedBeforeComplete
    BY DEF IndInv
  <1> QED
    BY <1>1, InductiveInvariant, PTL

\* The drain starts with every connection admitted, rejected or reset.
THEOREM NobodyStranded == Spec => []NoneStranded
  <1>1. IndInv => NoneStranded
    BY EmptyBacklog DEF IndInv, Backlogs, Queued, Checking, InCheck,
                        NoneStranded
  <1> QED
    BY <1>1, InductiveInvariant, PTL
=============================================================================
