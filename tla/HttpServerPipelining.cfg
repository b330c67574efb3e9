\* A peer that sends the next request before it has the response.
CONSTANTS
    MaxRequests = 2
    Lengths <- RequestLengths
    HeaderPieces = {1, 2}
    max_header_size = 1
    max_keep_alive_requests = 2
    MaxPieces = 2
    Pipelining = TRUE
    CarefulHandlers = TRUE
SPECIFICATION Spec
INVARIANT ReadSizeAssert
CHECK_DEADLOCK FALSE
