\* Two files; two Python iterators and a receiver that share a channel; a
\* plugin host with two sinks; an application that opens up to two files.
SPECIFICATION FairSpec
CONSTANTS
    Paths = {"a", "b"}
    Reads <- MCReads
    MaxOpens = 2
    MaxChannels = 3
    None = None
    Hosts = {"application", "plugin", "python"}
    Sinks = {s1, s2}
    Iterators = {i1, i2}
    Counts = {1, 3}
    Deltas = {2}
    MaxCalls = 6
INVARIANTS ReceiversMissNothing ReaderIsOfOneFile LoadDeliversAll EachEventToOneConsumer WindowsAbut
PROPERTY IteratorCallReturns
CHECK_DEADLOCK FALSE
