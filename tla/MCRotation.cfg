CONSTANTS
    Payloads <- MCPayloads
    NoPayload = NoPayload
    None = None
    MaxRetries = 3
    SeqMod = 6
    MaxRounds = 2
    ColdStart <- MCAnyNumber
    Late = FALSE
SPECIFICATION FairSpec
INVARIANTS
    TypeOK
    PayloadIffPending
    GivesUpAfterAllRetries
    AckConfirmsKey
    ApartOnlyAfterFailure
PROPERTIES
    ImplementsAgreement
    NoSeqReuse
    RotationResolves
CHECK_DEADLOCK FALSE
