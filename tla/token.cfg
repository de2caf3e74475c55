\* Two pids given to two processes each, queues of two messages, two runs of the server.
CONSTANTS
    c1 = c1
    c2 = c2
    Pids = {c1, c2}
    MAX_MESSAGES = 2
    None = None
    MaxRuns = 2
    MaxLives = 2
    MaxRequests = 3
SPECIFICATION FairSpec
INVARIANTS
    OwedPerLife
    OwnAnswer
    TokensOnce
    TokensInOrder
PROPERTIES
    RequestAnswered
CHECK_DEADLOCK FALSE
