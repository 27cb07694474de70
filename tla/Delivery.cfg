SPECIFICATION FairSpec
CONSTANTS
    Messages = {m1}
    Attempts = 3
    DeadPolicies = {"none", "once"}
    InitialPrefetch = 2
    MinPrefetch = 1
    MaxPrefetch = 3
    MaxDeliveries = 7
    MaxChannels = 2
    MaxFaults = 1
INVARIANTS
    SettledOnce
    RetryBudget
    DecodedAsPublished
PROPERTIES
    EveryMessageEnds
CHECK_DEADLOCK FALSE
