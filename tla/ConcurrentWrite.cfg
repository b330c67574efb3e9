\* Two requests to two ports of one host.
CONSTANTS
    MaxRequests = 2
    NamedHosts = {}
    Clients = {c1}
    MaxCalls = 1
    MaxSize = 1
    MaxLives = 1
    MaxDatagrams = 1
    MaxReceives = 1
    MaxSearches = 1
    MaxIndex = 1
    MaxRetries = 1
    MaxAnswers = 1
SPECIFICATION OneHostSpec
INVARIANT WrittenToItsSite
CHECK_DEADLOCK FALSE
