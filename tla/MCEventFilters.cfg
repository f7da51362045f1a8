SPECIFICATION Spec
CONSTANTS
    Width = 3
    Height = 2
    Setups <- MCSetups
    FirstTimes <- MCFirstTimes
    dt = 2
    cut_trail = TRUE
    min_measurements = 2
    min_freq = 4
    max_freq = 6
    MICROSECONDS_PER_SECOND = 12
    x0 = 0
    x1 = 2
    y0 = 0
    y1 = 2
    decay_time = 2
    tau = 2
INVARIANT TrailCut
INVARIANT SupportedOnly
INVARIANT FlickerJustified
INVARIANT DecayFollowsAge
CHECK_DEADLOCK FALSE
