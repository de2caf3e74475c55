\* One producer of seven strings on a ring of three slots.
CONSTANTS
    p1 = p1
    Producers = {p1}
    MAX_BUFFERS = 3
    STRINGS = 7
    Empty = Empty
    Partial = Partial
    Torn = Torn
SPECIFICATION FairSpec
PROPERTIES
    ImplementsFifo
