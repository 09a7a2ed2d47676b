-------------------------- MODULE RotationSession --------------------------
(***************************************************************************)
(* One source and its receiver across key rotations: the sender's state    *)
(* machine (KeyRotation) and Seq-Counter (SapHeader), the receiver's       *)
(* Last-Seen-Seq (FrameProcessor), and between them frames that are lost,  *)
(* delayed, duplicated and reordered.  The caller's part follows the       *)
(* end-to-end test (src/tests/integration_test.rs 113-173) and rule 7:     *)
(* KEY_ROTATION out, remove_source and KEY_ROTATION_ACK at the receiver,   *)
(* handle_ack, the new session from 0, complete_rotation.                  *)
(* (The test runs both sides in one thread and calls remove_source after  *)
(* handle_ack; the model has the receiver call it when it takes the key,   *)
(* as docs/v2.0-upgrade-plan.md 182 says.)  A data frame that was sent may *)
(* arrive at any later time, any number of times or never, whatever key it *)
(* was sent under: process_frame does not look at keys.                    *)
(*                                                                         *)
(* Keys are numbered: key r is the one the r-th rotation offers, key 0 the *)
(* first.  A KEY_ROTATION_ACK carries no payload (its frame is built with  *)
(* an empty one), so that handle_ack cannot tell which rotation it         *)
(* answers; the number the model keeps with it is history.                 *)
(***************************************************************************)
EXTENDS KeyRotation

CONSTANTS
    MaxRounds,      \* bound: rotations started
    Late,           \* TRUE: a KEY_ROTATION or its ACK may arrive after the
                    \* rotation it belongs to is over
    ColdStart,      \* numbers that the source may start with
    None            \* no Last-Seen-Seq

ASSUME RoundsAssumption == MaxRounds \in Nat /\ Payloads = 1 .. MaxRounds
ASSUME SessionAssumption ==
    Late \in BOOLEAN /\ ColdStart \subseteq 0 .. SeqMod - 1 /\ None \notin Nat

VARIABLES
    seq,        \* the sender's Seq-Counter: the number of its next frame
    key,        \* the key the sender's data frames use
    round,      \* rotations started
    rotNet,     \* KEY_ROTATION frames in flight (any may arrive again)
    ackNet,     \* KEY_ROTATION_ACK frames in flight, by the key they confirm
    sent,       \* data frames sent: <<key, seq>>
    recvKey,    \* the last key the receiver took
    last,       \* the receiver's Last-Seen-Seq for this source
    lastKey,    \* history: the key of the frame that last is the number of
    sends,      \* history: KEY_ROTATION transmissions of this rotation
    over        \* history: data frames sent under this key while should_rotate
                \* was no guard (counted up to Reserve)

sessionVars == <<seq, key, round, rotNet, ackNet, sent, recvKey, last,
                 lastKey, sends, over>>
vars == <<rotationVars, sessionVars>>

Seqs == 0 .. SeqMod - 1
SessionKeys == 0 .. MaxRounds
DataFrames == SessionKeys \X Seqs

\* The numbers from the threshold on: "a reserve of two frames"
\* (docs/v2.0-upgrade-plan.md 176).
Reserve == 2

TypeOK ==
    /\ RotationTypeOK
    /\ seq \in Seqs
    /\ key \in SessionKeys /\ recvKey \in SessionKeys
    /\ round \in 0 .. MaxRounds
    /\ rotNet \subseteq Payloads /\ ackNet \subseteq Payloads
    /\ sent \subseteq DataFrames
    /\ last \in Seqs \cup {None} /\ lastKey \in SessionKeys \cup {None}
    /\ sends \in 0 .. MaxRetries + 1
    /\ over \in 0 .. Reserve

Init ==
    /\ New
    /\ seq \in ColdStart
    /\ key = 0 /\ recvKey = 0 /\ round = 0
    /\ rotNet = {} /\ ackNet = {} /\ sent = {}
    /\ last = None /\ lastKey = None
    /\ sends = 0 /\ over = 0

----------------------------------------------------------------------------
(* The sender *)

\* SapHeader::increment_seq
Mutant_Increment_NoWrap(n) == n + 1
Increment(n) == (n + 1) % SeqMod

\* should_rotate stops the counter at the threshold: no rotation is under way
\* and none has failed since this key came into use.
Guarded == state = "Idle" /\ key = round

\* A data frame under the present key, with can_send_data and should_rotate
\* as the only guards: neither holds the counter back once it has wrapped.
SendData ==
    /\ CanSendData
    /\ ~ShouldRotate(seq)
    /\ sent' = sent \cup {<<key, seq>>}
    /\ seq' = Increment(seq)
    /\ over' = IF Guarded \/ over = Reserve THEN over ELSE over + 1
    /\ UNCHANGED <<rotationVars, key, round, rotNet, ackNet, recvKey, last,
                   lastKey, sends>>

\* The first KEY_ROTATION of a rotation.
Start ==
    /\ round < MaxRounds
    /\ ShouldRotate(seq)
    /\ StartRotation(round + 1)
    /\ round' = round + 1
    /\ rotNet' = rotNet \cup {round + 1}
    /\ sends' = 1
    /\ UNCHANGED <<seq, key, ackNet, sent, recvKey, last, lastKey, over>>

\* What is left in the network of a rotation that is over.
EndOfRotation ==
    IF Late THEN UNCHANGED <<rotNet, ackNet>>
            ELSE rotNet' = {} /\ ackNet' = {}

\* An ACK arrives; the copy in flight may arrive again.
ReceiveAck ==
    \E r \in ackNet :
        \/ /\ HandleAck
           /\ EndOfRotation
           /\ UNCHANGED <<seq, key, round, sent, recvKey, last, lastKey,
                          sends, over>>
        \/ /\ UnexpectedAck
           /\ ackNet' = ackNet \ {r}
           /\ UNCHANGED <<seq, key, round, rotNet, sent, recvKey, last,
                          lastKey, sends, over>>

\* 100 ms without an ACK: the same payload is sent again.
Retry ==
    /\ TimeoutRetry
    /\ rotNet' = rotNet \cup {pending_payload}
    /\ sends' = sends + 1
    /\ UNCHANGED <<seq, key, round, ackNet, sent, recvKey, last, lastKey,
                   over>>

\* 100 ms without an ACK to the last retry.
GiveUp ==
    /\ TimeoutFailed
    /\ EndOfRotation
    /\ UNCHANGED <<seq, key, round, sent, recvKey, last, lastKey, sends,
                   over>>

\* A timer that fires when the rotation is already over.
StaleTimeout == TimeoutIgnored /\ UNCHANGED sessionVars

\* The new key takes effect at the sender; the new session starts from 0.
SwitchKey ==
    /\ state = "Rotated"
    /\ key # round
    /\ key' = round
    /\ seq' = 0
    /\ over' = 0
    /\ UNCHANGED <<rotationVars, round, rotNet, ackNet, sent, recvKey, last,
                   lastKey, sends>>

\* complete_rotation, "called when the new key has taken effect".
Complete ==
    /\ key = round
    /\ CompleteRotation
    /\ UNCHANGED sessionVars

\* An operator resets a failed machine; it goes on with the old key.
Reset == ManualReset /\ UNCHANGED sessionVars

\* A call at the wrong moment is answered by an error.
Refused ==
    /\ NotInIdleState \/ NotInFailedState \/ NotInRotatedState
    /\ UNCHANGED sessionVars

----------------------------------------------------------------------------
(* The receiver *)

\* FrameProcessor::remove_source
RemoveSource == last' = None /\ lastKey' = None

\* A KEY_ROTATION arrives (again): the receiver takes the key, forgets the
\* source's Last-Seen-Seq and confirms.
ReceiveRotation ==
    \E r \in rotNet :
        /\ recvKey' = r
        /\ RemoveSource
        /\ ackNet' = ackNet \cup {r}
        /\ UNCHANGED <<rotationVars, seq, key, round, rotNet, sent, sends,
                       over>>

\* process_frame on a data frame: the check knows numbers, not keys.
Fresh(n) == last # None => n > last
ReceiveData ==
    \E f \in sent :
        /\ IF Fresh(f[2]) THEN last' = f[2] /\ lastKey' = f[1]
                          ELSE UNCHANGED <<last, lastKey>>
        /\ UNCHANGED <<rotationVars, seq, key, round, rotNet, ackNet, sent,
                       recvKey, sends, over>>

Timer == Retry \/ GiveUp

Next ==
    \/ SendData \/ Start \/ ReceiveAck \/ Timer \/ StaleTimeout
    \/ SwitchKey \/ Complete \/ Reset \/ Refused
    \/ ReceiveRotation \/ ReceiveData

Spec == Init /\ [][Next]_vars

\* The caller's timer keeps firing while a rotation waits.
FairSpec == Spec /\ WF_vars(Timer)

----------------------------------------------------------------------------
(* Properties *)

\* handle_timeout unwraps pending_payload (rotation.rs 161): there is one
\* whenever a rotation waits, and no old key is kept once it is over.
PayloadIffPending ==
    IsRotationPending <=> (pending_payload # NoPayload)

\* A rotation is tried exactly 1 + MAX_RETRIES times before the machine gives
\* up (ADR-0005), and every transmission carries the key it started with.
GivesUpAfterAllRetries ==
    /\ sends <= 1 + MaxRetries
    /\ IsRotationPending => sends = 1 + RetryCount /\ pending_payload = round
    /\ state = "Failed" => sends = 1 + MaxRetries

\* Rotated means that the receiver has the key (rotation.rs 87: "rotated, the
\* ACK has been received"): the sender never switches to a key the receiver
\* does not have.
AckConfirmsKey == state = "Rotated" => recvKey = round

\* A rotation that failed may leave the receiver with a key the sender does
\* not use (ADR-0005); apart from that the two agree whenever no rotation is
\* under way, and all retries were used first.
ApartOnlyAfterFailure ==
    state = "Idle" /\ key # recvKey => key # round /\ sends = 1 + MaxRetries

\* The rotation implements what KeyAgreement promises.
Agreement == INSTANCE KeyAgreement
                WITH offered <- round, held <- recvKey, used <- key
ImplementsAgreement == Agreement!Spec

\* No number is used for two data frames under one key before two frames have
\* been sent under it that should_rotate did not guard: during a rotation,
\* after one that failed, or before complete_rotation.  The two numbers from
\* the threshold on make up for those two; nothing in the code counts them.
NoSeqReuse ==
    [][seq' # seq /\ key' = key /\ <<key, seq>> \in sent =>
          over = Reserve]_vars

\* Every rotation comes to an end, whatever the network loses.
RotationResolves == state = "Pending" ~> state # "Pending"

\* The step that forgets the source "allows new numbers to start from 0"
\* (docs/v2.0-upgrade-plan.md 182): a frame of the receiver's session is
\* refused only because of a frame of that session.
SessionFlows ==
    \A f \in sent : f[1] = recvKey /\ ~Fresh(f[2]) => lastKey = recvKey
============================================================================
