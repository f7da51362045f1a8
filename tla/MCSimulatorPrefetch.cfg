\* One thread that requests and seeks, one that starts, stops and subscribes.
SPECIFICATION FairSpec
CONSTANTS
    c1 = c1
    c2 = c2
    s1 = s1
    s2 = s2
    Callers = {c1, c2}
    Drivers = {c1}
    Sinks = {s1, s2}
    NFrames = 3
    PREFETCH_BATCHES = 1
    MaxSeeks = 2
    NoOne = NoOne
    Nowhere = Nowhere
INVARIANT TypeOK
INVARIANT ReadAheadBounded
INVARIANT ReceiverIsFed
INVARIANT NoStalePrefetch
PROPERTY SinksKept
PROPERTY EndBeforeDisconnect
PROPERTY ImplementsFrameDelivery
PROPERTY CallsReturn
