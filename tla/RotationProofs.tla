--------------------------- MODULE RotationProofs ---------------------------
(***************************************************************************)
(* Proofs about RotationSession, for any number of retries and rounds and  *)
(* any size of the Seq-Counter.                                            *)
(***************************************************************************)
EXTENDS RotationSession, TLAPS

USE DEF IsRotationPending, RetryCount

\* The sender's own bookkeeping.
SenderInv ==
    /\ RotationTypeOK
    /\ round \in 0 .. MaxRounds
    /\ sends \in Nat
    /\ PayloadIffPending
    /\ GivesUpAfterAllRetries

\* One step of the sender's bookkeeping: the actions by name.
LEMMA SenderStep ==
    ASSUME SenderInv, [Next]_vars PROVE SenderInv'
<1> USE NoPayloadAssumption, MaxRetriesAssumption, RoundsAssumption
<1> DEFINE Own == <<state, retries, pending_payload, round, sends>>
<1>1. CASE UNCHANGED Own
  BY <1>1 DEF SenderInv, RotationTypeOK, PayloadIffPending,
              GivesUpAfterAllRetries
<1>2. CASE Start
  <2>1. /\ round < MaxRounds /\ round' = round + 1 /\ sends' = 1
        /\ state' = "Pending" /\ retries' = 0
        /\ pending_payload' = round + 1
    BY <1>2 DEF Start, StartRotation
  <2>2. round + 1 \in 1 .. MaxRounds
    BY <2>1 DEF SenderInv
  <2>3. round + 1 # NoPayload
    BY <2>2
  <2> QED
    BY <2>1, <2>2, <2>3 DEF SenderInv, RotationTypeOK, States,
       PayloadIffPending, GivesUpAfterAllRetries
<1>3. CASE ReceiveAck
  <2>1. CASE /\ HandleAck
             /\ UNCHANGED <<round, sends>>
    BY <2>1 DEF HandleAck, SenderInv, RotationTypeOK, States,
       PayloadIffPending, GivesUpAfterAllRetries
  <2>2. CASE UnexpectedAck /\ UNCHANGED <<round, sends>>
    BY <2>2, <1>1 DEF UnexpectedAck, rotationVars
  <2> QED
    BY <1>3, <2>1, <2>2 DEF ReceiveAck
<1>4. CASE Retry
  <2>1. /\ state = "Pending" /\ retries < MaxRetries
        /\ retries' = retries + 1 /\ sends' = sends + 1
        /\ UNCHANGED <<state, pending_payload, round>>
    BY <1>4 DEF Retry, TimeoutRetry
  <2>2. retries' \in 0 .. MaxRetries /\ sends = 1 + retries
        /\ pending_payload = round
    BY <2>1 DEF SenderInv, RotationTypeOK, GivesUpAfterAllRetries
  <2> QED
    BY <2>1, <2>2 DEF SenderInv, RotationTypeOK, PayloadIffPending,
       GivesUpAfterAllRetries
<1>5. CASE GiveUp
  <2>1. /\ state = "Pending" /\ retries >= MaxRetries
        /\ state' = "Failed" /\ retries' = 0 /\ pending_payload' = NoPayload
        /\ UNCHANGED <<round, sends>>
    BY <1>5 DEF GiveUp, TimeoutFailed
  <2>2. sends = 1 + MaxRetries
    BY <2>1 DEF SenderInv, RotationTypeOK, GivesUpAfterAllRetries
  <2> QED
    BY <2>1, <2>2 DEF SenderInv, RotationTypeOK, States,
       PayloadIffPending, GivesUpAfterAllRetries
<1>6. CASE Complete
  BY <1>6 DEF Complete, CompleteRotation, sessionVars, SenderInv, RotationTypeOK, States,
     PayloadIffPending, GivesUpAfterAllRetries
<1>7. CASE Reset
  BY <1>7 DEF Reset, ManualReset, sessionVars, SenderInv, RotationTypeOK,
     States, PayloadIffPending, GivesUpAfterAllRetries
<1>8. CASE SendData \/ SwitchKey \/ StaleTimeout \/ Refused
           \/ ReceiveRotation \/ ReceiveData \/ UNCHANGED vars
  BY <1>8, <1>1 DEF SendData, SwitchKey, StaleTimeout, TimeoutIgnored, Refused,
     NotInIdleState, NotInFailedState, NotInRotatedState, ReceiveRotation,
     ReceiveData, vars, sessionVars, rotationVars
<1> QED
  BY <1>2, <1>3, <1>4, <1>5, <1>6, <1>7, <1>8 DEF Next, Timer

LEMMA SenderStart == Init => SenderInv
BY NoPayloadAssumption, MaxRetriesAssumption, RoundsAssumption
DEF Init, New, SenderInv, RotationTypeOK, States, PayloadIffPending,
    GivesUpAfterAllRetries

\* A payload is at hand whenever a rotation waits, and only then: the unwrap
\* of handle_timeout cannot panic.
THEOREM PayloadAtHand == Spec => []PayloadIffPending
<1>1. SenderInv => PayloadIffPending
  BY DEF SenderInv
<1> QED
  BY <1>1, SenderStart, SenderStep, PTL DEF Spec

\* Every rotation is transmitted 1 + MAX_RETRIES times before the machine
\* gives up, each time with the key it started with.
THEOREM AllRetriesUsed == Spec => []GivesUpAfterAllRetries
<1>1. SenderInv => GivesUpAfterAllRetries
  BY DEF SenderInv
<1> QED
  BY <1>1, SenderStart, SenderStep, PTL DEF Spec

----------------------------------------------------------------------------
(* Frames of a rotation that is over do not arrive: ~Late *)

\* Only the frames of the rotation that waits are in flight, and an ACK in
\* flight says what the receiver has.
NetInv ==
    /\ rotNet \subseteq {round} /\ ackNet \subseteq {round}
    /\ state # "Pending" => rotNet = {} /\ ackNet = {}
    /\ ackNet # {} => recvKey = round
    /\ AckConfirmsKey

LEMMA NetStep ==
    ASSUME ~Late, SenderInv, NetInv, [Next]_vars PROVE NetInv'
<1> DEFINE Seen == <<state, round, rotNet, ackNet, recvKey>>
<1>1. CASE UNCHANGED Seen
  BY <1>1 DEF NetInv, AckConfirmsKey
<1>2. CASE Start
  <2>1. state = "Idle" /\ state' = "Pending" /\ round' = round + 1
        /\ rotNet' = rotNet \cup {round + 1} /\ ackNet' = ackNet
        /\ recvKey' = recvKey
    BY <1>2 DEF Start, ShouldRotate, StartRotation
  <2> QED
    BY <2>1 DEF NetInv, AckConfirmsKey
<1>3. CASE ReceiveAck
  <2>1. CASE /\ HandleAck /\ EndOfRotation /\ ackNet # {}
             /\ UNCHANGED <<round, recvKey>>
    BY <2>1 DEF HandleAck, EndOfRotation, NetInv, AckConfirmsKey
  <2>2. ASSUME NEW r \in ackNet, UnexpectedAck PROVE FALSE
    BY <2>2 DEF UnexpectedAck, NetInv
  <2> QED
    BY <1>3, <2>1, <2>2 DEF ReceiveAck
<1>4. CASE Retry
  <2>1. state = "Pending" /\ pending_payload = round
        /\ rotNet' = rotNet \cup {pending_payload}
        /\ UNCHANGED <<state, round, ackNet, recvKey>>
    BY <1>4 DEF Retry, TimeoutRetry, SenderInv, GivesUpAfterAllRetries
  <2> QED
    BY <2>1 DEF NetInv, AckConfirmsKey
<1>5. CASE GiveUp
  BY <1>5 DEF GiveUp, TimeoutFailed, EndOfRotation, NetInv, AckConfirmsKey
<1>6. CASE Complete
  BY <1>6 DEF Complete, CompleteRotation, sessionVars, NetInv, AckConfirmsKey
<1>7. CASE Reset
  BY <1>7 DEF Reset, ManualReset, sessionVars, NetInv, AckConfirmsKey
<1>8. CASE ReceiveRotation
  <2>1. PICK r \in rotNet : /\ recvKey' = r /\ ackNet' = ackNet \cup {r}
                            /\ UNCHANGED <<rotationVars, round, rotNet>>
    BY <1>8 DEF ReceiveRotation
  <2> QED
    BY <2>1 DEF NetInv, AckConfirmsKey, rotationVars
<1>9. CASE SendData \/ SwitchKey \/ StaleTimeout \/ Refused \/ ReceiveData
           \/ UNCHANGED vars
  BY <1>9, <1>1 DEF SendData, SwitchKey, StaleTimeout, TimeoutIgnored, Refused,
     NotInIdleState, NotInFailedState, NotInRotatedState, ReceiveData,
     vars, sessionVars, rotationVars
<1> QED
  BY <1>2, <1>3, <1>4, <1>5, <1>6, <1>7, <1>8, <1>9 DEF Next, Timer

\* When no frame outlives its rotation, the sender never takes up a key that
\* the receiver does not have.
THEOREM AckConfirms == ~Late => (Spec => []AckConfirmsKey)
<1> SUFFICES ASSUME ~Late PROVE Spec => []AckConfirmsKey
  OBVIOUS
<1>1. Init => SenderInv /\ NetInv
  BY SenderStart DEF Init, New, NetInv, AckConfirmsKey
<1>2. SenderInv /\ NetInv /\ [Next]_vars => (SenderInv /\ NetInv)'
  BY SenderStep, NetStep
<1>3. NetInv => AckConfirmsKey
  BY DEF NetInv
<1> QED
  BY <1>1, <1>2, <1>3, PTL DEF Spec
----------------------------------------------------------------------------
(* Types, whatever is late *)

LEMMA CounterRange == \A n \in Seqs : Increment(n) \in Seqs
BY SeqModAssumption DEF Seqs, Increment

\* A payload in flight was started; its number is at most the last one's.
WireType ==
    /\ rotNet \subseteq Payloads /\ ackNet \subseteq Payloads
    /\ seq \in Seqs
    /\ key \in SessionKeys /\ recvKey \in SessionKeys
    /\ over \in 0 .. Reserve
    /\ last \in Seqs \cup {None} /\ lastKey \in SessionKeys \cup {None}
    /\ sent \subseteq DataFrames

LEMMA WireStart == Init => WireType
<1> SUFFICES ASSUME Init PROVE WireType
  OBVIOUS
<1>1. 0 \in SessionKeys /\ 0 \in 0 .. Reserve /\ ColdStart \subseteq Seqs
  BY RoundsAssumption, SessionAssumption DEF SessionKeys, Reserve, Seqs
<1> QED
  BY <1>1 DEF Init, WireType

LEMMA WireStep ==
    ASSUME SenderInv, WireType, [Next]_vars PROVE WireType'
<1> USE RoundsAssumption, SessionAssumption
<1> DEFINE Seen == <<rotNet, ackNet, seq, key, recvKey, over, last, lastKey,
                     sent>>
<1>0. round \in SessionKeys
  BY DEF SenderInv, SessionKeys
<1>1. CASE UNCHANGED Seen
  BY <1>1 DEF WireType
<1>2. CASE SendData
  <2>1. /\ over' = over \/ (over # Reserve /\ over' = over + 1)
        /\ sent' = sent \cup {<<key, seq>>}
        /\ seq' = Increment(seq)
        /\ UNCHANGED <<rotNet, ackNet, key, recvKey, last, lastKey>>
    BY <1>2 DEF SendData
  <2>2. seq' \in Seqs /\ <<key, seq>> \in DataFrames
    BY <2>1, CounterRange DEF WireType, DataFrames
  <2>3. over' \in 0 .. Reserve
    BY <2>1 DEF WireType, Reserve
  <2> QED
    BY <2>1, <2>2, <2>3 DEF WireType
<1>3. CASE Start
  <2>1. /\ round < MaxRounds
        /\ rotNet' = rotNet \cup {round + 1}
        /\ UNCHANGED <<ackNet, seq, key, recvKey, over, last, lastKey, sent>>
    BY <1>3 DEF Start
  <2>2. round + 1 \in Payloads
    BY <2>1 DEF SenderInv
  <2> QED
    BY <2>1, <2>2 DEF WireType
<1>4. CASE ReceiveAck
  BY <1>4 DEF ReceiveAck, EndOfRotation, WireType
<1>5. CASE Retry
  <2>1. pending_payload = round /\ round \in Payloads
    <3>1. state = "Pending" /\ pending_payload # NoPayload
      BY <1>5 DEF Retry, TimeoutRetry, SenderInv, PayloadIffPending
    <3> QED
      BY <3>1 DEF SenderInv, RotationTypeOK, GivesUpAfterAllRetries
  <2> QED
    BY <1>5, <2>1 DEF Retry, WireType
<1>6. CASE GiveUp
  BY <1>6 DEF GiveUp, EndOfRotation, WireType
<1>7. CASE SwitchKey
  <2>1. 0 \in Seqs /\ 0 \in 0 .. Reserve
    BY SeqModAssumption DEF Seqs, Reserve
  <2> QED
    BY <1>7, <1>0, <2>1 DEF SwitchKey, WireType
<1>8. CASE ReceiveRotation
  BY <1>8 DEF ReceiveRotation, RemoveSource, WireType, SessionKeys
<1>9. CASE ReceiveData
  <2>1. PICK f \in sent :
           /\ \/ last' = f[2] /\ lastKey' = f[1]
              \/ UNCHANGED <<last, lastKey>>
           /\ UNCHANGED <<seq, key, over, rotNet, ackNet, recvKey, sent>>
    BY <1>9 DEF ReceiveData
  <2>2. f[1] \in SessionKeys /\ f[2] \in Seqs
    BY DEF WireType, DataFrames
  <2> QED
    BY <2>1, <2>2 DEF WireType
<1>10. CASE StaleTimeout \/ Complete \/ Reset \/ Refused \/ UNCHANGED vars
  BY <1>10, <1>1 DEF StaleTimeout, Complete, Reset, Refused, vars, sessionVars
<1> QED
  BY <1>2, <1>3, <1>4, <1>5, <1>6, <1>7, <1>8, <1>9, <1>10 DEF Next, Timer

\* Type correctness of a session, in any network.
THEOREM SessionTypeCorrect == Spec => []TypeOK
<1>1. SenderInv /\ WireType /\ sends <= MaxRetries + 1 => TypeOK
  BY MaxRetriesAssumption DEF SenderInv, WireType, TypeOK
<1>2. SenderInv => sends <= MaxRetries + 1
  BY MaxRetriesAssumption DEF SenderInv, GivesUpAfterAllRetries
<1> QED
  BY <1>1, <1>2, SenderStart, SenderStep, WireStart, WireStep, PTL DEF Spec

----------------------------------------------------------------------------
(* The two keys of a session: ~Late *)

\* The sender never uses a key beyond the receiver's, nor the receiver one
\* beyond the last that was offered.
KeyInv == key <= recvKey /\ recvKey <= round

\* Idle and apart only after a failure.
ApartInv == state = "Idle" /\ key # round => sends = 1 + MaxRetries

TimelyInv == SenderInv /\ NetInv /\ WireType /\ KeyInv /\ ApartInv

LEMMA KeyNumbers ==
    ASSUME SenderInv, WireType
    PROVE  key \in Nat /\ recvKey \in Nat /\ round \in Nat
BY RoundsAssumption DEF SenderInv, WireType, SessionKeys

LEMMA KeyStep ==
    ASSUME ~Late, SenderInv, NetInv, WireType, KeyInv, [Next]_vars
    PROVE  KeyInv'
<1> USE KeyNumbers
<1>1. CASE UNCHANGED <<key, recvKey, round>>
  BY <1>1 DEF KeyInv
<1>2. CASE Start
  <2>1. round' = round + 1 /\ UNCHANGED <<key, recvKey>>
    BY <1>2 DEF Start
  <2> QED
    BY <2>1 DEF KeyInv
<1>3. CASE SwitchKey
  <2>1. state = "Rotated" /\ key' = round /\ UNCHANGED <<recvKey, round>>
    BY <1>3 DEF SwitchKey
  <2>2. recvKey = round
    BY <2>1 DEF NetInv, AckConfirmsKey
  <2> QED
    BY <2>1, <2>2
    DEF KeyInv
<1>4. CASE ReceiveRotation
  <2>1. recvKey' = round /\ UNCHANGED <<key, round>>
    BY <1>4 DEF ReceiveRotation, NetInv
  <2> QED
    BY <2>1 DEF KeyInv
<1>5. CASE \/ SendData \/ ReceiveAck \/ Timer \/ StaleTimeout \/ Complete
           \/ Reset \/ Refused \/ ReceiveData \/ UNCHANGED vars
  BY <1>5, <1>1 DEF SendData, ReceiveAck, Timer, Retry, GiveUp, StaleTimeout,
     Complete, Reset, Refused, ReceiveData, vars, sessionVars
<1> QED
  BY <1>2, <1>3, <1>4, <1>5 DEF Next

LEMMA ApartStep ==
    ASSUME SenderInv, ApartInv, [Next]_vars PROVE ApartInv'
<1>1. CASE UNCHANGED <<state, key, round, sends>>
  BY <1>1 DEF ApartInv
<1>2. CASE Start \/ ReceiveAck \/ Timer
  BY <1>2, <1>1 DEF Start, StartRotation, ReceiveAck, HandleAck,
     UnexpectedAck, Timer, Retry, TimeoutRetry, GiveUp, TimeoutFailed,
     ApartInv, rotationVars
<1>3. CASE SwitchKey \/ Complete
  BY <1>3 DEF SwitchKey, Complete, CompleteRotation, ApartInv, rotationVars,
     sessionVars
<1>4. CASE Reset
  BY <1>4 DEF Reset, ManualReset, SenderInv, GivesUpAfterAllRetries, ApartInv,
     sessionVars
<1>5. CASE \/ SendData \/ StaleTimeout \/ Refused \/ ReceiveRotation
           \/ ReceiveData \/ UNCHANGED vars
  BY <1>5, <1>1 DEF SendData, StaleTimeout, TimeoutIgnored, Refused,
     NotInIdleState, NotInFailedState, NotInRotatedState, ReceiveRotation,
     ReceiveData, vars, sessionVars, rotationVars
<1> QED
  BY <1>2, <1>3, <1>4, <1>5 DEF Next

LEMMA TimelyStart == Init => TimelyInv
<1> SUFFICES ASSUME Init PROVE TimelyInv
  OBVIOUS
<1>1. SenderInv /\ WireType
  BY SenderStart, WireStart
<1>2. NetInv
  BY DEF Init, New, NetInv, AckConfirmsKey
<1>3. KeyInv /\ ApartInv
  BY DEF Init, New, KeyInv, ApartInv
<1> QED
  BY <1>1, <1>2, <1>3 DEF TimelyInv

LEMMA TimelyStep ==
    ASSUME ~Late, TimelyInv, [Next]_vars PROVE TimelyInv'
BY SenderStep, NetStep, WireStep, KeyStep, ApartStep DEF TimelyInv

LEMMA TimelyAlways == ~Late => (Spec => []TimelyInv)
<1> SUFFICES ASSUME ~Late PROVE Spec => []TimelyInv
  OBVIOUS
<1>1. TimelyInv /\ [Next]_vars => TimelyInv'
  BY TimelyStep
<1> QED
  BY <1>1, TimelyStart, PTL DEF Spec

\* When no frame outlives its rotation, the two sides are apart outside a
\* rotation only after one that failed, with all its transmissions sent.
THEOREM ApartAfterFailure == ~Late => (Spec => []ApartOnlyAfterFailure)
<1> SUFFICES ASSUME ~Late PROVE Spec => []ApartOnlyAfterFailure
  OBVIOUS
<1>1. TimelyInv => ApartOnlyAfterFailure
  BY KeyNumbers DEF TimelyInv, KeyInv, ApartInv, ApartOnlyAfterFailure
<1> QED
  BY <1>1, TimelyAlways, PTL

\* When no frame outlives its rotation, a session keeps what KeyAgreement
\* promises: however often rotations fail and are reset, the sender only moves
\* to the newest key, and only when the receiver holds it.
THEOREM RotationAgrees == ~Late => (Spec => ImplementsAgreement)
<1> SUFFICES ASSUME ~Late PROVE Spec => ImplementsAgreement
  OBVIOUS
<1> DEFINE AStep == Agreement!Offer \/ Agreement!Take \/ Agreement!Switch
<1>1. Init => Agreement!Init
  BY DEF Init, Agreement!Init
<1>2. TimelyInv /\ [Next]_vars => [AStep]_<<round, recvKey, key>>
  <2> SUFFICES ASSUME TimelyInv, [Next]_vars
               PROVE  [AStep]_<<round, recvKey, key>>
    OBVIOUS
  <2>1. CASE Start
    BY <2>1 DEF Start, Agreement!Offer
  <2>2. CASE ReceiveRotation
    BY <2>2 DEF ReceiveRotation, TimelyInv, NetInv, Agreement!Take
  <2>3. CASE SwitchKey
    BY <2>3 DEF SwitchKey, TimelyInv, NetInv, AckConfirmsKey, Agreement!Switch
  <2>4. CASE \/ SendData \/ ReceiveAck \/ Timer \/ StaleTimeout
             \/ Complete \/ Reset \/ Refused \/ ReceiveData
             \/ UNCHANGED vars
    BY <2>4 DEF SendData, ReceiveAck, Timer, Retry, GiveUp, StaleTimeout,
       Complete, Reset, Refused, ReceiveData, vars, sessionVars
  <2> QED
    BY <2>1, <2>2, <2>3, <2>4 DEF Next
<1> QED
  BY <1>1, <1>2, TimelyAlways, PTL
  DEF Spec, ImplementsAgreement, Agreement!Spec
=============================================================================
