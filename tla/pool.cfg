\* Three clients on a pool of two entries.
CONSTANTS
    c1 = c1
    c2 = c2
    c3 = c3
    c4 = c4
    Clients = {c1, c2, c3}
    LEN = 2
    Fds = {4, 5, 6}
    None = None
SPECIFICATION FairSpec
INVARIANTS
    TypeOK
    PoolAccounted
    OwnConnection
    DiscardOnlyWhenFull
    NoDescriptorLeak
PROPERTIES
    SentIsEnded
CHECK_DEADLOCK FALSE
