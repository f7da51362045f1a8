\* Five programs: iterators of both modes, with seeks and times that fall back,
\* next to a reader that loads and searches triggers, and with reads that fail.
SPECIFICATION FairSpec
CONSTANTS
    i1 = i1
    i2 = i2
    None = None
    SyncIters = {i1}
    AsyncIters = {i2}
    Reader = Reader
    NoOne = NoOne
    FileLen = 3
    BUFFER_SIZE = 2
    Calls <- MCCalls
    Programs <- MCPrograms
    MaxSeeks = 1
    Concurrent = TRUE
INVARIANT NothingSkipped
INVARIANT InFileOrder
PROPERTY EndMeansEnd
PROPERTY WindowIsExact
PROPERTY SyncReturns
