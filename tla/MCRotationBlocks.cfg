CONSTANTS
    Payloads <- MCPayloads
    NoPayload = NoPayload
    None = None
    MaxRetries = 1
    SeqMod = 4
    MaxRounds = 1
    ColdStart = {2}
    Late = FALSE
SPECIFICATION Spec
INVARIANT SessionFlows
