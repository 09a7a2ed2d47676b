---------------------------- MODULE KeyRotation ----------------------------
(***************************************************************************)
(* KeyRotationStateMachine of src/src/rotation.rs: the sender's side of    *)
(* rule 7.  One operator per method, a relation between the state before   *)
(* and after the call; the methods that answer an error change nothing.    *)
(* The frames it causes, the receiver and the timer are in                 *)
(* RotationSession.                                                        *)
(***************************************************************************)
EXTENDS Integers

CONSTANTS
    Payloads,       \* KeyRotationPayload: a new key and its nonce
    NoPayload,      \* None
    MaxRetries,     \* MAX_RETRIES (3 in the code)
    SeqMod          \* the Seq-Counter counts modulo SeqMod (65536)

ASSUME NoPayloadAssumption == NoPayload \notin Payloads
ASSUME MaxRetriesAssumption == MaxRetries \in Nat
ASSUME SeqModAssumption == SeqMod \in Nat /\ SeqMod > 2

VARIABLES
    state,              \* RotationState
    retries,            \* the field of Pending; 0 in the other states
    pending_payload     \* the payload to send again on a timeout

rotationVars == <<state, retries, pending_payload>>

States == {"Idle", "Pending", "Rotated", "Failed"}

\* ROTATION_THRESHOLD: 65534, the last but one number.
Threshold == SeqMod - 2

RotationTypeOK ==
    /\ state \in States
    /\ retries \in 0 .. MaxRetries
    /\ pending_payload \in Payloads \cup {NoPayload}

New ==
    /\ state = "Idle"
    /\ retries = 0
    /\ pending_payload = NoPayload

\* should_rotate(seq_counter)
Mutant_ShouldRotate_Late(seq) == state = "Idle" /\ seq > Threshold
ShouldRotate(seq) == state = "Idle" /\ seq >= Threshold

\* start_rotation(payload): Ok only in Idle, NotInIdleState otherwise.
StartRotation(p) ==
    /\ state = "Idle"
    /\ state' = "Pending"
    /\ retries' = 0
    /\ pending_payload' = p

NotInIdleState == state # "Idle" /\ UNCHANGED rotationVars

\* handle_ack(): Ok only in Pending, UnexpectedAck otherwise.
HandleAck ==
    /\ state = "Pending"
    /\ state' = "Rotated"
    /\ retries' = 0
    /\ pending_payload' = NoPayload

UnexpectedAck == state # "Pending" /\ UNCHANGED rotationVars

\* handle_timeout(): Retry(payload) while retries < MAX_RETRIES; the caller
\* sends pending_payload again.
TimeoutRetry ==
    /\ state = "Pending"
    /\ retries < MaxRetries
    /\ retries' = retries + 1
    /\ UNCHANGED <<state, pending_payload>>

\* handle_timeout(): Failed, the machine is fail-closed.
Mutant_TimeoutFailed_Early ==
    /\ state = "Pending"
    /\ retries >= MaxRetries - 1
    /\ state' = "Failed"
    /\ retries' = 0
    /\ pending_payload' = NoPayload

Mutant_TimeoutFailed_OffByOne ==
    /\ state = "Pending"
    /\ retries > MaxRetries
    /\ state' = "Failed"
    /\ retries' = 0
    /\ pending_payload' = NoPayload

Mutant_TimeoutFailed_FailOpen ==
    /\ state = "Pending"
    /\ retries >= MaxRetries
    /\ state' = "Rotated"
    /\ retries' = 0
    /\ pending_payload' = NoPayload

Mutant_TimeoutFailed_KeepsPayload ==
    /\ state = "Pending"
    /\ retries >= MaxRetries
    /\ state' = "Failed"
    /\ retries' = 0
    /\ UNCHANGED pending_payload

TimeoutFailed ==
    /\ state = "Pending"
    /\ retries >= MaxRetries
    /\ state' = "Failed"
    /\ retries' = 0
    /\ pending_payload' = NoPayload

\* handle_timeout(): Ignored outside Pending.
TimeoutIgnored == state # "Pending" /\ UNCHANGED rotationVars

\* is_rotation_pending(), retry_count()
IsRotationPending == state = "Pending"
RetryCount == IF IsRotationPending THEN retries ELSE 0

\* can_send_data()
CanSendData == state # "Failed"

\* manual_reset(): Ok only in Failed, NotInFailedState otherwise.
ManualReset ==
    /\ state = "Failed"
    /\ state' = "Idle"
    /\ pending_payload' = NoPayload
    /\ UNCHANGED retries

NotInFailedState == state # "Failed" /\ UNCHANGED rotationVars

\* complete_rotation(): Ok only in Rotated, NotInRotatedState otherwise.
CompleteRotation ==
    /\ state = "Rotated"
    /\ state' = "Idle"
    /\ UNCHANGED <<retries, pending_payload>>

NotInRotatedState == state # "Rotated" /\ UNCHANGED rotationVars
============================================================================
