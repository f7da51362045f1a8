\* One thread that searches triggers.
SPECIFICATION Spec
CONSTANTS
    i1 = i1
    i2 = i2
    None = None
    SyncIters = {i1}
    AsyncIters = {i2}
    Reader = Reader
    NoOne = NoOne
    FileLen = 3
    BUFFER_SIZE = 2
    Calls <- MCCalls
    Programs <- MCSearch
    MaxSeeks = 1
    Concurrent = FALSE
INVARIANT NextExtFound
