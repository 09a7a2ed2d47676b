SPECIFICATION Spec
CONSTANTS
    MaxPayload = 3
    ProofSize = 1
    NonceSize = 2
    None = None
    Pfps <- MCPfps
    SeqCounters <- MCSeqCounters
    FrameTypes = {7, 9}
    PayloadSizes = {0, 1, 4}
    Foreign <- MCForeign
INVARIANTS
    NoEarlyFrame
    BuiltFrameSurvives
    RotationKeySurvives
    DecodedIsConsistent
PROPERTY RelayLosesOnlyReserved
CHECK_DEADLOCK FALSE
