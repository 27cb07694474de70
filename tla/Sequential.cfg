SPECIFICATION FairSpec
CONSTANTS
    a1 = a1
    b1 = b1
    b2 = b2
    c1 = c1
    A = A
    B = B
    C = C
    None = None
    Deliveries <- MCDeliveries
    MessageId <- MCMessageId
    Headers <- MCHeaders
    Compressed = {c1}
    Prefetch = 3
    CancelRecovery = FALSE
PROPERTIES
    NoRunAfterSettle
    OrderRespected
    EverySettles
CHECK_DEADLOCK FALSE
