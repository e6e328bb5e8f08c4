SPECIFICATION FairSpec
CONSTANTS
    u1 = u1
    u2 = u2
    Kinds <- MCKinds
    Addrs = {u1, u2}
    NoRoute = NoRoute
    NoUpstream = NoUpstream
    MaxRequests = 2
    MaxInterim = 1

CHECK_DEADLOCK FALSE
INVARIANTS
    TypeOK
    AnswersOwnRequest
    StreamIntact
    RoutedToItsUpstream
    ContinueBeforeBody
    NoSilentDrop
PROPERTIES
    ServesResponseStream
    WorkerEnds
