SPECIFICATION LogSpec
CONSTANTS
    MaxEntries = 3
    MaxTriggers = 5
    Seqs = {0}
    Sources = {"a", "b"}
    None = None
    Pfps <- MCPfps
    Shown <- MCShown
INVARIANT OwnLogVerifies
