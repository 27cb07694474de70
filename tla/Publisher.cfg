SPECIFICATION FairSpec
CONSTANTS
    Calls = {p1, p2}
    Rich = {p1}
    Batch = 2
    MaxRetries = 2
    FailureThreshold = 2
    SuccessThreshold = 1
    MaxChannels = 2
    MaxResets = 1
    MaxFaults = 1
    NoCall = NoCall
INVARIANTS
    ResolvedMeansDelivered
    NoRepublish
    ReturnsMatched
PROPERTIES
    EverySettles
CHECK_DEADLOCK FALSE
