\* Three requests to two sites over the concurrent connection, with answers
\* without content, of two units, and redirections; three calls of two clients,
\* with content that is unknown, at and above the size allowed; two lives of a
\* UDP socket with two datagrams and three receives; three answers to a gateway
\* search with mappings on two of three indices and two retries.
CONSTANTS
    MaxRequests = 3
    NamedHosts = {"name"}
    Clients = {c1, c2}
    MaxCalls = 3
    MaxSize = 1
    MaxLives = 2
    MaxDatagrams = 2
    MaxReceives = 3
    MaxSearches = 2
    MaxIndex = 1
    MaxRetries = 2
    MaxAnswers = 3
SPECIFICATION ClientsSpec
INVARIANTS PipelinedOwnData QueueServed CallsAnswered LossyAnswers
CHECK_DEADLOCK FALSE
