SPECIFICATION FairSpec
CONSTANTS
    NoConn = NoConn
    Infinity = Infinity
    Conns = {c1, c2, c3, c4, c5, c6, c7, c8, c9}
    Closers = {d1, d2}
    EndpointCount = 2
    MaxReconnectAttempts = 2
    Overlap = FALSE
    MaxFaults = 6
    MaxCalls = 4
INVARIANTS
    OwnedConnection
    ReconnectionArmed
    BudgetRespected
PROPERTIES
    ImplementsService
    EveryEndpointTried
    ShutsDown
CHECK_DEADLOCK FALSE
