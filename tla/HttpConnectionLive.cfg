\* Two requests to a host that has to be resolved, one redirection followed.
CONSTANTS
    MaxRequests = 2
    Hosts = {"name"}
    NamedHosts = {"name"}
    Lengths <- ResponseLengths
    max_redirects = 0
    MaxPosted = 0
    CarefulListener = TRUE
SPECIFICATION Spec
PROPERTY RequestEnds
CHECK_DEADLOCK FALSE
