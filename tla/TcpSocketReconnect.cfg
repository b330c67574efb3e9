\* A caller that connects again at any time.
CONSTANTS
    MaxConnects = 2
    MaxSends = 2
    DefaultLimit = 2
    QueueLimits <- Limits
    CarefulCaller = FALSE
SPECIFICATION Spec
INVARIANT ConnectAssert
CHECK_DEADLOCK FALSE
