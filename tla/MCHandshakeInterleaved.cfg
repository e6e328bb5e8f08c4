SPECIFICATION Spec
CONSTANTS
    FirstHellos <- First
    SecondHellos <- Conformant
    Known = {"a", "b", "c"}
    Routed = {"a", "c", "z"}
    Clients = {"full"}
    Compat = 1
    Calm = {TRUE}
    MaxAltered = 0
    ProbeNames = {"a", "b", "z"}
    NoName = "-"
INVARIANTS NotInterleaved
CHECK_DEADLOCK FALSE
