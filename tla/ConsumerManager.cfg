SPECIFICATION FairSpec
CONSTANTS
    Consumers = {c1}
    MaxPools = 2
    MaxChannels = 4
    MaxTags = 4
    MaxFaults = 2
    MaxInFlight = 1
    MaxAttempts = 2
    Races = FALSE
    SubscribeInRestore = FALSE
INVARIANTS
    NoDoubleConsume
    NothingOutlives
    DrainProtects
    GiveUpOnlyOnLost
PROPERTIES
    Stops
    Recovers
CHECK_DEADLOCK FALSE
