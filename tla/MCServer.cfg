SPECIFICATION FairSpec
CONSTANTS
    Conns = {c1, c2}
    Limits = {1, 2}
    a1 = a1
    a2 = a2
    id = id
    Addrs = {a1, a2}
    Identities = {id}
    Files <- MCFiles
    NoContents = Malformed
    NoIdentities = NoIdentities
    NoListener = NoListener
    NoConn = NoConn
    MaxCounted = 1

CHECK_DEADLOCK FALSE
INVARIANTS
    TypeOK
    SlotAccounting
    RuntimeMatchesReload
    WorkerSnapshotWhole
    DrainedBeforeComplete
    NoneStranded
PROPERTIES
    AdmissionWithinLimit
    ReloadTakesEffect
    BacklogServed
    ShutdownCompletes
