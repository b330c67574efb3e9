\* Two requests to an address and a name, responses of 0 and 2 units or without
\* a length, one redirection followed, one call with an invalid URL.
CONSTANTS
    MaxRequests = 2
    Hosts = {"ip", "name"}
    NamedHosts = {"name"}
    Lengths <- ResponseLengths
    max_redirects = 0
    MaxPosted = 1
    CarefulListener = TRUE
SPECIFICATION Spec
INVARIANTS WriteAsserts CompleteMeansWhole ReadPending
PROPERTY ImplementsExchange
CHECK_DEADLOCK FALSE
