SPECIFICATION FairSpec
CONSTANTS
    Prefix = 1
    MaxSent = 2
    Window = 1

CHECK_DEADLOCK FALSE
INVARIANTS
    TypeOK
    CopiedInOrder
    EofIsEarned
PROPERTIES
    EndsWithBothEnds
    UpstreamFailureEnds
