SPECIFICATION Spec
CONSTANTS
    HIGHS = 2
    LOWS = 1
    Period = 2
    Half = 0
    WRAP_FROM = 0
    WRAP_TO = 0
    MAX_STEP = 0
    DoShift = TRUE
    None = None
    XS = 5
    YS = 2
    MAX_X = 3
    MAX_Y = 1
    VEC12 = 2
    VEC8 = 1
    BATCH_SIZE = 2
    PAYLOAD_BITS = 2
    CONT12 = 2
    CONT4 = 1
    Shifts = {0}
    MaxTime = 2
INVARIANT TypeOK
INVARIANT PixelsInPlace
INVARIANT WithinBounds
PROPERTY RefusedWordIsInert
