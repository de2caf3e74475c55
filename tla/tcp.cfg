\* Buffers of three bytes, a backlog that takes one client, and up to four bytes of a buf
\* that was not written, which take two reads.
CONSTANTS
    c1 = c1
    c2 = c2
    Clients = {c1, c2}
    BUF = 3
    Backlog = 0
    Garbage = 4
    None = None
SPECIFICATION FairSpec
INVARIANTS
    TypeOK
    LinesAnswered
    OnlyDeathEndsServer
PROPERTIES
    AnswerComes
CHECK_DEADLOCK FALSE
