SPECIFICATION GateSpec
CONSTANTS
    MaxEntries = 1
    MaxTriggers = 3
    Seqs = {0, 1, 2}
    Threads = {a, b}
    Sources = {decision}
    decision = decision
    DecisionSource = decision
    None = None
    Pfps <- MCPfps
    a = a
    b = b
    x = x
    y = y
    Senders = {x, y}
    Cap = 1
    Frames <- MCFrames
SYMMETRY Symmetry
INVARIANTS
    GateTypeOK
    AnsweredIsRecorded
    GateCheckedOnce
    GateRefusalsExplained
