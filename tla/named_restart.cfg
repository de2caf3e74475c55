\* Two producers of two strings each on a ring of two slots, killed and started again.
CONSTANTS
    p1 = p1
    p2 = p2
    Producers = {p1, p2}
    MAX_BUFFERS = 2
    STRINGS = 2
    MaxRuns = 3
    Empty = Empty
    Partial = Partial
    Torn = Torn
SPECIFICATION NamedFairSpec
INVARIANTS
    CrashNeverAdds
PROPERTIES
    EndsWithWhatIsLeft
CHECK_DEADLOCK FALSE
