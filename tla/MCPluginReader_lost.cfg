\* One Python iterator at the end of a file.
SPECIFICATION Spec
CONSTANTS
    Paths = {"a", "b"}
    Reads <- MCReads
    MaxOpens = 2
    MaxChannels = 3
    None = None
    Hosts = {"application", "plugin", "python"}
    Sinks = {s1, s2}
    Iterators = {i1, i2}
    Counts = {1, 3}
    Deltas = {2}
    MaxCalls = 6
INVARIANT NothingIsLost
CHECK_DEADLOCK FALSE
