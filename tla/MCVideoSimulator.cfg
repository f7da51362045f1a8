\* Durations of a frame that are below, at and above two integration steps, a
\* container that claims a frame too few or too many, seeks inside and past the end.
SPECIFICATION FairSpec
CONSTANTS
    NFrames = 4
    Other = Other
    Container <- MCContainer
    Delay = 2
    EncodedPeriod = 4
    Periods = {2, 4, 5}
    FrameCounts = {3, 4, 5}
    Times = {0, 5, 8, 30}
    Dt = 2
    MaxFiring = 2
    MaxEvents = 1
    FRAME_BATCH_SIZE = 1
INVARIANTS
    Aligned
    EndMeansAllFrames
    EventsWithinFrame
PROPERTIES
    SeekLands
    CallEnds
CHECK_DEADLOCK FALSE
