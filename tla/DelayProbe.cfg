SPECIFICATION ProbeSpec
CONSTANTS
    NoChannel = NoChannel
    Channels = {ch1, ch2, ch3, ch4, ch5, ch6}
    Ids = {i1, p1, p2}
    Probes = {p1, p2}
    Size = 1
    MaxReplaceAttempts = 1
    MaxFaults = 1
    MaxGets = 1
    GetInClose = FALSE
INVARIANTS
    ProbesContained
CHECK_DEADLOCK FALSE
