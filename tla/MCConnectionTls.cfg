SPECIFICATION Spec
CONSTANTS
    u1 = u1
    u2 = u2
    Kinds <- MCUpgrades
    Addrs = {u1}
    NoRoute = NoRoute
    NoUpstream = NoUpstream
    MaxRequests = 1
    MaxInterim = 1

CHECK_DEADLOCK FALSE
INVARIANTS
    SwitchedIsTunnelled
