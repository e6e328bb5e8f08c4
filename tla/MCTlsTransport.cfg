SPECIFICATION Spec
CONSTANTS
    MaxSeq = 2
    FragmentLimit = 2
    Worlds <- MCWorlds
INVARIANTS NonceUsedOnce
PROPERTIES InboundSpec OutboundSpec SilentAfterFailure
CHECK_DEADLOCK FALSE
