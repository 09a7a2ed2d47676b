SPECIFICATION FairSpec
CONSTANTS
    MaxEntries = 2
    MaxTriggers = 3
    Seqs = {0}
    Threads = {a, b}
    Sources = {x}
    None = None
    Pfps <- MCPfps
    a = a
    b = b
    x = x
INVARIANTS
    TypeOK
    NothingLost
    SignalledInOrder
PROPERTIES
    EveryOverrideAnswered
    ImplementsLedger
CHECK_DEADLOCK FALSE
