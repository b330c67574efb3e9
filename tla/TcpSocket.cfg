\* Two connections of one socket object, three buffers each, a queue limit of
\* 2 that may be lowered to 1 or raised to 3.
CONSTANTS
    MaxConnects = 2
    MaxSends = 3
    DefaultLimit = 2
    QueueLimits <- Limits
    CarefulCaller = TRUE
SPECIFICATION Spec
INVARIANTS TypeOK OnePerKind WireInOrder ReceivingFlag WritesReported ConnectAssert
PROPERTIES QueueDrains
CHECK_DEADLOCK FALSE
