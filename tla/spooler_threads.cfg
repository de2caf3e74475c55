\* Three producers of two strings each on a ring of two slots.
CONSTANTS
    p1 = p1
    p2 = p2
    p3 = p3
    Producers = {p1, p2, p3}
    MAX_BUFFERS = 2
    STRINGS = 2
    Empty = Empty
    Partial = Partial
    Torn = Torn
SPECIFICATION FairSpec
INVARIANTS
    TypeOK
    IndexExclusive
    SlotBudget
    DistinctClaims
    SharedSlotWasPrintedEarly
    OrderlyShutdown
    NoDeadlock
PROPERTIES
    Termination
