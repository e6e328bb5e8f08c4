SPECIFICATION Spec
CONSTANTS
    CR = CR
    LF = LF
    X = X
    Streams <- MCStreams
    MaxRequestLine = 2
    MaxHeader = 2
    MaxHeaderBlock = 4
    MaxHeaderCount = 1

CHECK_DEADLOCK FALSE
INVARIANT
    FragmentationInvisible
