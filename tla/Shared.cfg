\* One logging thread beside the main one, three messages, files rolled at one
\* message; two threads with two pointers each to two objects; six calls.
CONSTANTS
    LogThreads = {"t1"}
    MaxLogs = 3
    MaxControl = 2
    Chains <- LogChains
    RollSizes = {0, 1}
    RollCounts = {0, 2}
    MaxRolls = 3
    PointerThreads = {"a", "b"}
    MaxShared = 2
    MaxObjectCalls = 6
    SharesCObjects = FALSE
SPECIFICATION SharedSpec
INVARIANTS LogKeepsMessages DeletedOnce
CHECK_DEADLOCK FALSE
