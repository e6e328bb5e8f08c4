SPECIFICATION Spec
CONSTANTS
    LimbBits = 2
    Operands = {0, 1, 3, 4, 16, 21, 60, 63, 64, 85, 127, 128, 170, 191, 192, 220, 240, 250, 252, 254, 255}
    Moduli = {1, 3, 127, 131, 251, 255}
    P = 23
    B = 15
    N = 17
    Gx = 1
    Gy = 6
    Bits = 5
    Hashes = {0, 3, 17, 31}
    MaxRejected = 1
    W = 5
    StreamBlock = 1
    MacBlock = 2
    MaxCounter = 2
    MaxLength = 3
    Octets = {1, 2}
    BlockSize = 4
    LengthOffset = 2
    MaxPiece = 6
    MaxMessage = 9
INVARIANTS
    CurveIsExact
    SealingIsExact
CHECK_DEADLOCK FALSE
