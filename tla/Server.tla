------------------------------- MODULE Server -------------------------------
(***************************************************************************)
(* The runtime of server.rs: one accept thread that polls an HTTP and an   *)
(* optional HTTPS listener, a thread per admitted connection, reload on    *)
(* SIGHUP and draining on SIGINT.                                          *)
(*                                                                         *)
(* What a worker does with its connection is module Connection; here it    *)
(* is a thread that counts requests and errors, gives its slot back and    *)
(* ends, or panics before it gives the slot back.                          *)
(***************************************************************************)
EXTENDS Naturals, Sequences, FiniteSets

CONSTANTS
    Conns,        \* client connections; one may come back once it is closed
    Limits,       \* values of max_connections
    Addrs,        \* values of https_listen
    Identities,   \* TLS identity stores the identity files can hold
    Files,        \* contents the configuration file can have, when it parses
    NoContents,   \* a file that config::load_with_tls rejects; nothing loaded
    NoIdentities, \* Option::None of the TLS identity store
    NoListener,   \* Option::None of the HTTPS listener
    NoConn,       \* no connection between accept() and the limit check
    MaxCounted    \* bound on the requests and errors counted in a behaviour

Configs == [max : Limits, addr : Addrs]

FileContents ==
    [config : Configs, identities : Identities \cup {NoIdentities}]

ASSUME ConnsFinite == IsFiniteSet(Conns) /\ NoConn \notin Conns
ASSUME LimitsPositive == Limits \subseteq Nat \ {0}
ASSUME FilesAreContents == Files \subseteq FileContents /\ Files # {}
ASSUME Sentinels ==
    /\ NoContents \notin Files
    /\ NoIdentities \notin Identities
    /\ NoListener \notin Addrs
ASSUME MaxCountedNat == MaxCounted \in Nat

VARIABLES
    shutdownRequested, \* SHUTDOWN_REQUESTED, set by the SIGINT handler
    reloadRequested,   \* RELOAD_REQUESTED, set by the SIGHUP handler
    file,              \* what the configuration file holds now
    replacement,       \* the configuration reload has read but not activated
    configuration,     \* the active configuration
    tlsIdentities,     \* the active TLS identity store
    httpsListener,     \* the address the HTTPS listener is bound to
    httpQueue,         \* connections in the HTTP listener's backlog
    httpsQueue,        \* connections in the HTTPS listener's backlog
    phase,             \* where the accept thread is in serve_until_with_tls
    current,           \* the connection between accept() and the limit check
    seen,              \* active_connections as loaded for that check
    active,            \* active_connections
    state,             \* what has become of each connection
    pinned,            \* the configuration and identities of a worker's closure
    workers,           \* connections whose JoinHandle is in `workers`
    counters,          \* ServerCounters
    reported,          \* the totals of the shutdown_complete message
    committed,         \* history: the contents the last reload activated
    rejected           \* history: the contents refused since the last SIGHUP

signals  == <<shutdownRequested, reloadRequested>>
runtime  == <<configuration, tlsIdentities, httpsListener>>
backlogs == <<httpQueue, httpsQueue>>
check    == <<current, seen>>
pool     == <<active, state, pinned, workers>>
totals   == <<counters, reported>>
history  == <<committed, rejected>>

vars == <<signals, file, replacement, runtime, backlogs, phase, check, pool,
          totals, history>>

-----------------------------------------------------------------------------

\* The loop's places, then the drain, then the two ways the process ends.
Phases == {"top", "reload", "load", "apply", "http", "admit_http", "https",
           "admit_https", "reap", "drain", "complete", "failed"}

Polling == phase \in {"top", "reload", "load", "apply", "http", "admit_http",
                      "https", "admit_https", "reap"}
Alive   == phase \notin {"complete", "failed"}

\* idle      no connection, or one that is closed
\* queued    in a listener's backlog; accepted: returned by accept()
\* running   the worker is in its handler
\* released  the worker has given its slot back and not ended yet
\* finished, panicked: JoinHandle::is_finished
States == {"idle", "queued", "accepted", "running", "released", "finished",
           "panicked"}

\* What a worker is given when it is spawned.
Runtime == [config |-> configuration, identities |-> tlsIdentities]

ListenerFor(contents) ==
    IF contents.identities = NoIdentities THEN NoListener
                                          ELSE contents.config.addr

Init ==
    \E contents \in Files :
        /\ shutdownRequested = FALSE /\ reloadRequested = FALSE
        /\ file = contents /\ replacement = NoContents
        /\ configuration = contents.config
        /\ tlsIdentities = contents.identities
        /\ httpsListener = ListenerFor(contents)
        /\ httpQueue = <<>> /\ httpsQueue = <<>>
        /\ phase = "top" /\ current = NoConn /\ seen = 0
        /\ active = 0 /\ workers = {}
        /\ state = [c \in Conns |-> "idle"]
        /\ pinned = [c \in Conns |-> NoContents]
        /\ counters = [requests |-> 0, errors |-> 0]
        /\ reported = [requests |-> 0, errors |-> 0]
        /\ committed = contents /\ rejected = NoContents

-----------------------------------------------------------------------------
(* The environment: the operator, the signals, the clients.                *)

handle_sighup ==
    /\ Alive /\ ~reloadRequested
    /\ reloadRequested' = TRUE
    /\ rejected' = NoContents
    /\ UNCHANGED <<shutdownRequested, file, replacement, runtime, backlogs,
                   phase, check, pool, totals, committed>>

handle_sigint ==
    /\ Alive /\ ~shutdownRequested
    /\ shutdownRequested' = TRUE
    /\ UNCHANGED <<reloadRequested, file, replacement, runtime, backlogs,
                   phase, check, pool, totals, history>>

EditFile ==
    /\ Alive
    /\ \E contents \in (Files \cup {NoContents}) \ {file} : file' = contents
    /\ UNCHANGED <<signals, replacement, runtime, backlogs, phase, check,
                   pool, totals, history>>

\* The kernel completes a TCP handshake and queues the connection; the
\* accept thread has not seen it yet.
Connect(c) ==
    /\ Polling /\ state[c] = "idle"
    /\ \/ httpQueue' = Append(httpQueue, c) /\ UNCHANGED httpsQueue
       \/ /\ httpsListener # NoListener
          /\ httpsQueue' = Append(httpsQueue, c) /\ UNCHANGED httpQueue
    /\ state' = [state EXCEPT ![c] = "queued"]
    /\ UNCHANGED <<signals, file, replacement, runtime, phase, check, active,
                   pinned, workers, totals, history>>

-----------------------------------------------------------------------------
(* Workers: the closures accept_and_spawn and accept_tls_and_spawn pass to *)
(* thread::spawn.                                                          *)

\* record_request or record_error, from inside the handler.
WorkerCounts(c) ==
    /\ Alive /\ state[c] = "running"
    /\ counters.requests + counters.errors < MaxCounted
    /\ \E k \in {"requests", "errors"} :
          counters' = [counters EXCEPT ![k] = @ + 1]
    /\ UNCHANGED <<signals, file, replacement, runtime, backlogs, phase,
                   check, pool, reported, history>>

\* The handler returns, with a result or an error; fetch_sub gives the slot
\* back.
WorkerReleases(c) ==
    /\ Alive /\ state[c] = "running"
    /\ active' = active - 1
    /\ state' = [state EXCEPT ![c] = "released"]
    /\ pinned' = [pinned EXCEPT ![c] = NoContents]
    /\ UNCHANGED <<signals, file, replacement, runtime, backlogs, phase,
                   check, workers, totals, history>>

\* Mutant: the slot is given back a second time when the thread ends.
WorkerEndsReleasingAgain(c) ==
    /\ Alive /\ state[c] = "released"
    /\ active' = active - 1
    /\ state' = [state EXCEPT ![c] = "finished"]
    /\ UNCHANGED <<signals, file, replacement, runtime, backlogs, phase,
                   check, pinned, workers, totals, history>>

WorkerEnds(c) ==
    /\ Alive /\ state[c] = "released"
    /\ state' = [state EXCEPT ![c] = "finished"]
    /\ UNCHANGED <<signals, file, replacement, runtime, backlogs, phase,
                   check, active, pinned, workers, totals, history>>

\* A panic in the handler unwinds past fetch_sub: the thread ends and its
\* slot is never given back.
WorkerPanics(c) ==
    /\ Alive /\ state[c] = "running"
    /\ state' = [state EXCEPT ![c] = "panicked"]
    /\ pinned' = [pinned EXCEPT ![c] = NoContents]
    /\ UNCHANGED <<signals, file, replacement, runtime, backlogs, phase,
                   check, active, workers, totals, history>>

Ended(c) == state[c] \in {"finished", "panicked"}

\* A joined worker's connection may be made again; a leaked slot stays one.
AfterJoin(joined) ==
    [c \in Conns |-> IF c \in joined /\ state[c] = "finished" THEN "idle"
                                                              ELSE state[c]]

-----------------------------------------------------------------------------
(* The accept thread: serve_until_with_tls.                                *)

\* while !shutdown_requested
CheckShutdown ==
    /\ phase = "top" /\ ~shutdownRequested
    /\ phase' = "reload"
    /\ UNCHANGED <<signals, file, replacement, runtime, backlogs, check,
                   pool, totals, history>>

\* reload_requested.swap(false)
TakeReload ==
    /\ phase = "reload"
    /\ phase' = IF reloadRequested THEN "load" ELSE "http"
    /\ reloadRequested' = FALSE
    /\ UNCHANGED <<shutdownRequested, file, replacement, runtime, backlogs,
                   check, pool, totals, history>>

\* config::load_with_tls: read and parse the file.
LoadReplacement ==
    /\ phase = "load"
    /\ replacement' = file
    /\ phase' = IF file = NoContents THEN "http" ELSE "apply"
    /\ UNCHANGED <<signals, file, runtime, backlogs, check, pool, totals,
                   history>>

\* https_listener_changed
ListenerChanges(contents) ==
    /\ contents.identities # NoIdentities
    /\ \/ httpsListener = NoListener
       \/ configuration.addr # contents.config.addr

\* Mutant: the configuration is swapped before its identities are loaded.
RejectAfterSwap ==
    /\ phase = "apply"
    /\ replacement.identities # NoIdentities
    /\ configuration' = replacement.config
    /\ rejected' = replacement /\ replacement' = NoContents
    /\ phase' = "http"
    /\ UNCHANGED <<signals, file, tlsIdentities, httpsListener, backlogs,
                   check, pool, totals, committed>>

\* Mutant: a refused reload clears the request flag when it is done.
RejectClearsRequest ==
    /\ phase = "apply"
    /\ replacement.identities # NoIdentities
    /\ rejected' = replacement /\ replacement' = NoContents
    /\ reloadRequested' = FALSE
    /\ phase' = "http"
    /\ UNCHANGED <<shutdownRequested, file, runtime, backlogs, check, pool,
                   totals, committed>>

\* An identity file does not load, or the new listener cannot be bound.
RejectReplacement ==
    /\ phase = "apply"
    /\ replacement.identities # NoIdentities
    /\ rejected' = replacement /\ replacement' = NoContents
    /\ phase' = "http"
    /\ UNCHANGED <<signals, file, runtime, backlogs, check,
                   pool, totals, committed>>

\* Closing a listener resets the connections in its backlog.
ResetBacklog(gone) ==
    state' = [c \in Conns |-> IF c \in gone THEN "idle" ELSE state[c]]

QueueSet(queue) == {queue[i] : i \in DOMAIN queue}

\* Mutant: a configuration without HTTPS leaves the listener open.
ReplacedListenerKept ==
    IF ListenerChanges(replacement) THEN replacement.config.addr
    ELSE httpsListener

ReplacedListener ==
    IF replacement.identities = NoIdentities THEN NoListener
    ELSE IF ListenerChanges(replacement) THEN replacement.config.addr
    ELSE httpsListener

CommitReplacement ==
    /\ phase = "apply"
    /\ httpsListener' = ReplacedListener
    /\ IF \/ replacement.identities = NoIdentities
          \/ ListenerChanges(replacement)
       THEN httpsQueue' = <<>> /\ ResetBacklog(QueueSet(httpsQueue))
       ELSE UNCHANGED <<httpsQueue, state>>
    /\ tlsIdentities' = replacement.identities
    /\ configuration' = replacement.config
    /\ committed' = replacement /\ replacement' = NoContents
    /\ rejected' = NoContents
    /\ phase' = "http"
    /\ UNCHANGED <<signals, file, httpQueue, check, active, pinned, workers,
                   totals>>

\* accept(): WouldBlock on an empty backlog, otherwise the oldest connection
\* and the active count the limit check will use.
Poll(queue, here, admit, next) ==
    /\ phase = here
    /\ IF queue = <<>>
       THEN phase' = next /\ UNCHANGED <<check, state>>
       ELSE /\ phase' = admit
            /\ current' = Head(queue) /\ seen' = active
            /\ state' = [state EXCEPT ![Head(queue)] = "accepted"]
    /\ UNCHANGED <<signals, file, replacement, runtime, active, pinned,
                   workers, totals, history>>

PollHttp ==
    /\ Poll(httpQueue, "http", "admit_http", "https")
    /\ httpQueue' = IF httpQueue = <<>> THEN <<>> ELSE Tail(httpQueue)
    /\ UNCHANGED httpsQueue

PollHttps ==
    /\ httpsListener # NoListener
    /\ Poll(httpsQueue, "https", "admit_https", "reap")
    /\ httpsQueue' = IF httpsQueue = <<>> THEN <<>> ELSE Tail(httpsQueue)
    /\ UNCHANGED httpQueue

NoHttps ==
    /\ phase = "https" /\ httpsListener = NoListener
    /\ phase' = "reap"
    /\ UNCHANGED <<signals, file, replacement, runtime, backlogs, check,
                   pool, totals, history>>

\* Any accept() error but WouldBlock returns from serve_until_with_tls: the
\* process ends with its workers where they are.
AcceptFails ==
    /\ \/ phase = "http"
       \/ phase = "https" /\ httpsListener # NoListener
    /\ phase' = "failed"
    /\ UNCHANGED <<signals, file, replacement, runtime, backlogs, check,
                   pool, totals, history>>

\* Mutant: the limit itself is admitted.
OverLimitByOne == seen > configuration.max

OverLimit == seen >= configuration.max

\* Mutant: fetch_add before the check, not undone for a rejected connection.
RejectKeepingSlot ==
    /\ state' = [state EXCEPT ![current] = "idle"]
    /\ active' = active + 1
    /\ UNCHANGED <<pinned, workers>>

\* 503 on the HTTP listener, shutdown of the socket on the HTTPS one.
Reject ==
    /\ state' = [state EXCEPT ![current] = "idle"]
    /\ UNCHANGED <<active, pinned, workers>>

\* fetch_add and thread::spawn, with clones of the configuration and the
\* identity store.
Spawn ==
    /\ state' = [state EXCEPT ![current] = "running"]
    /\ active' = active + 1
    /\ pinned' = [pinned EXCEPT ![current] = Runtime]
    /\ workers' = workers \cup {current}

Admit(here, next) ==
    /\ phase = here
    /\ phase' = next
    /\ current' = NoConn /\ seen' = 0
    /\ IF OverLimit THEN Reject ELSE Spawn
    /\ UNCHANGED <<signals, file, replacement, runtime, backlogs, totals,
                   history>>

\* Mutant: an accepted HTTP connection ends the iteration.
AdmitHttpThenReap == Admit("admit_http", "reap")

AdmitHttp  == Admit("admit_http", "https")
AdmitHttps == Admit("admit_https", "reap")

\* reap_finished_workers
Reap ==
    /\ phase = "reap"
    /\ workers' = {c \in workers : ~Ended(c)}
    /\ state' = AfterJoin(workers)
    /\ phase' = "top"
    /\ UNCHANGED <<signals, file, replacement, runtime, backlogs, check,
                   active, pinned, totals, history>>

\* Mutant: the listeners are dropped after the drain.
BeginDrainListening ==
    /\ phase = "top" /\ shutdownRequested
    /\ phase' = "drain"
    /\ workers' = {c \in workers : ~Ended(c)}
    /\ state' = AfterJoin(workers)
    /\ UNCHANGED <<signals, file, replacement, runtime, backlogs, check,
                   active, pinned, totals, history>>

\* The loop ends: both listeners are dropped, finished workers are reaped.
BeginDrain ==
    /\ phase = "top" /\ shutdownRequested
    /\ phase' = "drain"
    /\ httpsListener' = NoListener
    /\ httpQueue' = <<>> /\ httpsQueue' = <<>>
    /\ workers' = {c \in workers : ~Ended(c)}
    /\ state' = [c \in Conns |->
                   IF c \in QueueSet(httpQueue) \cup QueueSet(httpsQueue)
                   THEN "idle" ELSE AfterJoin(workers)[c]]
    /\ UNCHANGED <<signals, file, replacement, configuration, tlsIdentities,
                   check, active, pinned, totals, history>>

\* worker.join() returns.
JoinWorker(c) ==
    /\ phase = "drain" /\ c \in workers /\ Ended(c)
    /\ workers' = workers \ {c}
    /\ state' = AfterJoin({c})
    /\ UNCHANGED <<signals, file, replacement, runtime, backlogs, phase,
                   check, active, pinned, totals, history>>

\* Mutant: the totals are reported and the process ends without the joins.
CompleteWithoutJoin ==
    /\ phase = "drain"
    /\ reported' = counters /\ phase' = "complete"
    /\ UNCHANGED <<signals, file, replacement, runtime, backlogs, check,
                   pool, counters, history>>

\* Mutant: the drain waits for active_connections to reach zero.
CompleteWhenInactive ==
    /\ phase = "drain" /\ workers = {} /\ active = 0
    /\ reported' = counters /\ phase' = "complete"
    /\ UNCHANGED <<signals, file, replacement, runtime, backlogs, check,
                   pool, counters, history>>

\* Every handle is joined: report the totals and return.
CompleteShutdown ==
    /\ phase = "drain" /\ workers = {}
    /\ reported' = counters /\ phase' = "complete"
    /\ UNCHANGED <<signals, file, replacement, runtime, backlogs, check,
                   pool, counters, history>>

-----------------------------------------------------------------------------

Environment ==
    \/ handle_sighup \/ handle_sigint \/ EditFile
    \/ \E c \in Conns : Connect(c)

Worker(c) ==
    \/ WorkerCounts(c) \/ WorkerReleases(c) \/ WorkerEnds(c) \/ WorkerPanics(c)

AcceptThread ==
    \/ CheckShutdown \/ TakeReload \/ LoadReplacement \/ RejectReplacement
    \/ CommitReplacement \/ PollHttp \/ AdmitHttp \/ PollHttps \/ NoHttps
    \/ AdmitHttps \/ Reap \/ BeginDrain \/ CompleteShutdown
    \/ \E c \in Conns : JoinWorker(c)

Next ==
    \/ Environment
    \/ \E c \in Conns : Worker(c)
    \/ AcceptThread
    \/ AcceptFails

Spec == Init /\ [][Next]_vars

\* The accept thread never waits except in join(), and a thread that has left
\* its handler ends. Nothing makes a handler return, a client connect or a
\* signal arrive.
Fairness ==
    /\ WF_vars(AcceptThread)
    /\ \A c \in Conns : WF_vars(WorkerEnds(c))

FairSpec == Spec /\ Fairness

-----------------------------------------------------------------------------
(* Properties.                                                             *)

\* Every variable of the runtime holds a value of the type the code gives it.
TypeOK ==
    /\ shutdownRequested \in BOOLEAN /\ reloadRequested \in BOOLEAN
    /\ file \in Files \cup {NoContents}
    /\ replacement \in Files \cup {NoContents}
    /\ configuration \in Configs
    /\ tlsIdentities \in Identities \cup {NoIdentities}
    /\ httpsListener \in Addrs \cup {NoListener}
    /\ httpQueue \in Seq(Conns) /\ httpsQueue \in Seq(Conns)
    /\ phase \in Phases
    /\ current \in Conns \cup {NoConn} /\ seen \in Nat
    /\ active \in Nat
    /\ state \in [Conns -> States]
    /\ pinned \in [Conns -> FileContents \cup {NoContents}]
    /\ workers \subseteq Conns
    /\ counters \in [requests : Nat, errors : Nat]
    /\ reported \in [requests : Nat, errors : Nat]
    /\ committed \in Files /\ rejected \in Files \cup {NoContents}

\* Connections that hold a slot: in their handler, or leaked by a panic.
Holders == {c \in Conns : state[c] \in {"running", "panicked"}}

\* active_connections counts exactly the connections that hold a slot, through
\* every interleaving of the accept thread's load and fetch_add with the
\* workers' fetch_sub, and never wraps below zero.
SlotAccounting == active = Cardinality(Holders)

\* A slot is only ever taken below the limit in force, although the count the
\* accept thread compares was loaded before the workers' latest releases.
AdmissionWithinLimit == [][active' > active => active' <= configuration.max]_vars

\* Configuration, TLS identities and HTTPS listener always come from one and
\* the same configuration file: a reload activates all three or none.
RuntimeMatchesReload ==
    /\ configuration = committed.config
    /\ tlsIdentities = committed.identities
    /\ Polling => httpsListener = ListenerFor(committed)

\* The configuration and the identity store a worker was spawned with belong
\* together, whatever was reloaded before or since.
WorkerSnapshotWhole ==
    \A c \in Conns : state[c] = "running" => pinned[c] \in Files

\* Until the process ends a live worker's handle is in `workers`, so the drain
\* waits for it, and the totals reported last include everything it counted.
DrainedBeforeComplete ==
    /\ \A c \in Conns : state[c] \in {"running", "released"} => c \in workers
    /\ phase = "complete" => workers = {} /\ reported = counters

\* Once the listeners are dropped no connection is left between a backlog and
\* a worker: each one was admitted, rejected or reset.
NoneStranded ==
    phase \in {"drain", "complete"} =>
        \A c \in Conns : state[c] \notin {"queued", "accepted"}

\* A SIGHUP takes the contents the file has when it arrives, or newer: they are
\* activated or refused, unless the server stops first. A SIGHUP that arrives
\* while an earlier reload is under way is not lost.
ReloadTakesEffect ==
    \A f \in Files :
        (file = f /\ reloadRequested /\ Polling) ~>
            (committed = f \/ rejected = f \/ file # f \/ ~Polling)

\* A connection in a backlog is accepted, rejected or reset: neither listener
\* starves the other.
BacklogServed ==
    \A c \in Conns : state[c] = "queued" ~> (state[c] # "queued" \/ phase = "failed")

\* If every handler eventually returns, SIGINT ends the process, also when
\* panicking workers have leaked their slots.
ShutdownCompletes ==
    (\A c \in Conns : state[c] = "running" ~> state[c] # "running") =>
        (shutdownRequested ~> ~Alive)

\* Every worker has ended when the process does.
ExitDrains ==
    ~Alive => \A c \in Conns : state[c] \notin {"running", "released"}
=============================================================================
