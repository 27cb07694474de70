SPECIFICATION LifecycleFairSpec
CONSTANTS
    NoConn = NoConn
    Infinity = Infinity
    Conns = {c1, c2, c3, c4}
    Closers = {d1, d2}
    EndpointCount = 1
    MaxReconnectAttempts = 1
    Overlap = FALSE
    MaxFaults = 2
    MaxCalls = 3
    NoRestore = NoRestore
    Restores = {r1, r2, r3, r4}
    HasExchange = TRUE
    WaitTimeout = TRUE
    SubscribeInRestore = FALSE
    Signals = {d2}
INVARIANTS
    SingleRestore
    SingleConsumer
    PoolInPlace
PROPERTIES
    ConnectSettles
    SignalExits
CHECK_DEADLOCK FALSE
