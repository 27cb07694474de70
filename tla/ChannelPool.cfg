SPECIFICATION FairSpec
CONSTANTS
    NoChannel = NoChannel
    Channels = {ch1, ch2, ch3, ch4, ch5, ch6}
    Ids = {i1}
    Size = 2
    MaxReplaceAttempts = 2
    MaxFaults = 3
    MaxGets = 1
    GetInClose = FALSE
INVARIANTS
    SlotsAlive
    NoLostChannel
PROPERTIES
    SlotRecovers
CHECK_DEADLOCK FALSE
