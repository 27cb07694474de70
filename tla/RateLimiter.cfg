SPECIFICATION LimiterSpec
CONSTANTS
    Window = 2
    MaxRequests = 2
    BurstLimits = {4, 6}
    QueueLimit = 3
    Costs = {1, 3}
    Durations = {0, 2}
    MaxTime = 5
    MaxSkew = 1
INVARIANTS
    SweepInvisible
    RetryHelps
PROPERTIES
    LimitsHold
CHECK_DEADLOCK FALSE
