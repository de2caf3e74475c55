\* Buffers of three bytes, so that lines have one or two; a backlog that takes one client.
CONSTANTS
    c1 = c1
    c2 = c2
    Clients = {c1, c2}
    s1 = s1
    s2 = s2
    Servers = {s1, s2}
    BUF = 3
    Backlog = 0
    None = None
    MaxLines = 2
SPECIFICATION FairSpec
INVARIANTS
    TypeOK
    EchoAccount
    PromptAfterEcho
    LeavesNothingBehind
PROPERTIES
    WaitingServed
CHECK_DEADLOCK FALSE
