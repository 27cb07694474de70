SPECIFICATION FairSpec
CONSTANTS
    Requests = {r1, r2}
    MaxChannels = 2
    MaxLosses = 1
    MaxAnswers = 2
INVARIANTS
    ReplyRoute
    SettledOnce
PROPERTIES
    EverySettles
CHECK_DEADLOCK FALSE
