SPECIFICATION Spec
CONSTANTS
    NoConn = NoConn
    Infinity = Infinity
    Conns = {c1, c2, c3}
    Closers = {d1, d2}
    EndpointCount = 1
    MaxReconnectAttempts = 1
    Overlap = TRUE
    MaxFaults = 1
    MaxCalls = 3
INVARIANTS
    OwnedConnection
CHECK_DEADLOCK FALSE
