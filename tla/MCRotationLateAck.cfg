CONSTANTS
    Payloads <- MCPayloads
    NoPayload = NoPayload
    None = None
    MaxRetries = 1
    SeqMod = 4
    MaxRounds = 2
    ColdStart <- MCAnyNumber
    Late = TRUE
SPECIFICATION Spec
INVARIANT AckConfirmsKey
