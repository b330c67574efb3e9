\* Streams of four bytes in reads of one to three, a buffer of three,
\* two calls of connect.
CONSTANTS
    Streams <- FourBytes
    MaxConnects = 2
    ReceiveSize = 3
    m_max_buffer_size = 3
    CarefulListener = TRUE
SPECIFICATION Spec
INVARIANTS LinesDelivered AssertsHold SessionRead ClosedStaysClosed FailureNoticed
CHECK_DEADLOCK FALSE
