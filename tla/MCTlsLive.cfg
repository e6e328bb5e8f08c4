SPECIFICATION FairSpec
CONSTANTS
    MaxSeq = 2
    FragmentLimit = 2
    Worlds <- MCUndisturbed
PROPERTIES CloseIsSeen
CHECK_DEADLOCK FALSE
