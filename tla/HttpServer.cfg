\* Three requests without a body, or with one of 0 or 2 units; two of them are
\* served on one connection.
CONSTANTS
    MaxRequests = 3
    Lengths <- RequestLengths
    HeaderPieces = {1, 2}
    max_header_size = 1
    max_keep_alive_requests = 2
    MaxPieces = 2
    Pipelining = FALSE
    CarefulHandlers = TRUE
SPECIFICATION Spec
INVARIANTS InputInOrder ResponseNotTruncated OneFinalCall ClientNotStranded
PROPERTIES FinishCompletes
CHECK_DEADLOCK FALSE
