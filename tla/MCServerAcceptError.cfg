SPECIFICATION Spec
CONSTANTS
    Conns = {c1}
    Limits = {1, 2}
    a1 = a1
    a2 = a2
    id = id
    Addrs = {a1, a2}
    Identities = {id}
    Files <- MCFiles
    NoContents = Malformed
    NoIdentities = NoIdentities
    NoListener = NoListener
    NoConn = NoConn
    MaxCounted = 0

CHECK_DEADLOCK FALSE
INVARIANT
    ExitDrains
