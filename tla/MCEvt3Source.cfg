SPECIFICATION SourceSpec
CONSTANTS
    HIGHS = 4
    LOWS = 4
    Period = 16
    Half = 8
    WRAP_FROM = 2
    WRAP_TO = 1
    MAX_STEP = 1
    DoShift = TRUE
    None = None
    MaxGap = 15
    Jitter = 3
    MaxSensorTime = 40
INVARIANT TracksWrapAround
PROPERTY BackwardBounded
CHECK_DEADLOCK FALSE
