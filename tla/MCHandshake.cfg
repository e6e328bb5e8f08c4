SPECIFICATION FairSpec
CONSTANTS
    FirstHellos <- MCFirst
    SecondHellos <- MCSecond
    Known = {"a", "b", "c"}
    Routed = {"a", "c", "z"}
    Clients = {"full", "probe"}
    Compat = 2
    Calm = {TRUE, FALSE}
    MaxAltered = 2
    ProbeNames = {"a", "b", "z"}
    NoName = "-"
INVARIANTS Agreement IdentityForFinalHello NonceFresh
PROPERTIES HandshakeCompletes
CHECK_DEADLOCK FALSE
