\* Time words of three high and two low values; reads of three bytes, so
\* that words are cut in two; a marker every two words.
SPECIFICATION Spec
CONSTANTS
    HIGHS = 3
    LOWS = 2
    Period = 6
    Half = 3
    WRAP_FROM = 1
    WRAP_TO = 1
    MAX_STEP = 1
    DoShift = TRUE
    None = None
    Files <- MCFiles
    IndexBuffer = 2
    ChunkSize = 4
    StreamBuffer = 3
    Targets = {0, 1, 4, 7}
    MaxSeeks = 1
    MaxReads = 7
INVARIANTS ResumesInStep TimeAfterSeek SeekIsClosest
CHECK_DEADLOCK FALSE
