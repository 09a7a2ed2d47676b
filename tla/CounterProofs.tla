--------------------------- MODULE CounterProofs ----------------------------
(***************************************************************************)
(* Proof of what the two numbers from the threshold on suffice for: no     *)
(* number is used twice under one key before two data frames have been     *)
(* sent under it that should_rotate did not guard.  It does not depend on  *)
(* what the network does.                                                  *)
(***************************************************************************)
EXTENDS RotationSession, TLAPS

\* The data frames sent under the present key have lower numbers than the
\* next one; or the counter has wrapped around, and either two frames were
\* sent without a guard or one, and with it the last number only.
Wrapped == over = 1 /\ seq = 0 /\ key # round
NumbersInv ==
    \/ \A n \in Seqs : <<key, n>> \in sent => n < seq
    \/ over = Reserve
    \/ Wrapped /\ \A n \in Seqs : <<key, n>> \in sent => n = SeqMod - 1

\* The next key has not been used; a session that has just begun counts its
\* frames; nothing was sent under a key that starts with the last number.
CountInv ==
    /\ state \in States
    /\ key \in Nat /\ round \in Nat /\ key <= round
    /\ seq \in Seqs /\ over \in 0 .. Reserve
    /\ sent \subseteq Nat \X Seqs
    /\ \A f \in sent : f[1] <= key
    /\ state = "Rotated" /\ key = round /\ over < Reserve => seq = over
    /\ state \in {"Pending", "Failed"} => key # round
    /\ seq = SeqMod - 1 /\ over = 0 => \A n \in Seqs : <<key, n>> \notin sent
    /\ NumbersInv

\* Nothing has been sent at first.
LEMMA CountStart == Init => CountInv
<1> SUFFICES ASSUME Init PROVE CountInv
  OBVIOUS
<1>1. /\ state = "Idle" /\ seq \in Seqs /\ key = 0 /\ round = 0 /\ over = 0
      /\ sent = {}
  BY SessionAssumption DEF Init, New, Seqs
<1> QED
  BY <1>1 DEF CountInv, NumbersInv, States, Reserve

\* A frame is sent: its number is new under its key, if fewer than two frames
\* were sent without a guard, and the invariant holds.
LEMMA CountSend ==
    ASSUME CountInv, SendData
    PROVE  (<<key, seq>> \in sent => over = Reserve) /\ CountInv'
<1> USE SeqModAssumption DEF Reserve
<1>1. /\ state # "Failed" /\ ~(state = "Idle" /\ seq >= SeqMod - 2)
      /\ over' = IF Guarded \/ over = 2 THEN over ELSE over + 1
      /\ sent' = sent \cup {<<key, seq>>}
      /\ seq' = (seq + 1) % SeqMod
      /\ state' = state /\ key' = key /\ round' = round
  BY DEF SendData, CanSendData, ShouldRotate, Threshold, rotationVars,
     Increment
<1>2. /\ seq \in Nat /\ seq < SeqMod /\ SeqMod - 1 \in Seqs /\ 0 \in Seqs
      /\ over \in 0 .. 2 /\ Seqs \subseteq Nat
  BY DEF CountInv, Seqs
<1>3. seq' = (IF seq = SeqMod - 1 THEN 0 ELSE seq + 1) /\ seq' \in Seqs
  BY <1>1, <1>2 DEF Seqs
<1>4. over' \in 0 .. 2 /\ (over = 2 => over' = 2)
  BY <1>1, <1>2
<1>5. Guarded => seq < SeqMod - 2
  BY <1>1, <1>2 DEF Guarded
<1>6. <<key, seq>> \in sent => over = 2
  <2>1. Wrapped => seq # SeqMod - 1
    BY <1>2 DEF Wrapped
  <2> QED
    BY <1>2, <2>1 DEF CountInv, NumbersInv
<1>7. \A n \in Seqs : <<key, n>> \in sent' => <<key, n>> \in sent \/ n = seq
  BY <1>1
<1>8. NumbersInv'
  <2>1. CASE over' = 2
    BY <2>1 DEF NumbersInv
  <2>2. CASE over' # 2 /\ seq # SeqMod - 1
    <3>1. over # 2
      BY <2>2, <1>4
    <3>2. CASE Wrapped
      <4>1. ~Guarded
        BY <3>2 DEF Wrapped, Guarded
      <4>2. over' = 2
        BY <3>2, <4>1, <1>1 DEF Wrapped
      <4> QED
        BY <4>2, <2>2
    <3>3. CASE \A n \in Seqs : <<key, n>> \in sent => n < seq
      <4>1. \A n \in Seqs : <<key, n>> \in sent' => n < seq'
        BY <3>3, <2>2, <1>2, <1>3, <1>7
      <4> QED
        BY <4>1, <1>1 DEF NumbersInv
    <3> QED
      BY <3>1, <3>2, <3>3 DEF CountInv, NumbersInv
  <2>3. CASE over' # 2 /\ seq = SeqMod - 1
    <3>1. ~Guarded /\ over = 0 /\ over' = 1 /\ seq' = 0
      BY <2>3, <1>1, <1>2, <1>3, <1>5
    <3>2. key # round
      <4>1. ASSUME key = round PROVE FALSE
        <5>1. state = "Rotated"
          BY <4>1, <3>1, <1>1 DEF Guarded, CountInv, States
        <5>2. seq = over
          BY <5>1, <4>1, <3>1 DEF CountInv
        <5> QED
          BY <5>2, <3>1, <2>3
      <4> QED
        BY <4>1
    <3>3. \A n \in Seqs : <<key, n>> \in sent' => n = SeqMod - 1
      BY <3>1, <2>3, <1>7 DEF CountInv
    <3>4. Wrapped'
      BY <3>1, <3>2, <1>1 DEF Wrapped
    <3> QED
      BY <3>3, <3>4, <1>1 DEF NumbersInv
  <2> QED
    BY <2>1, <2>2, <2>3
<1>9. state' = "Rotated" /\ key' = round' /\ over' < 2 => seq' = over'
  <2> SUFFICES ASSUME state = "Rotated", key = round, over' < 2
               PROVE  seq' = over'
    BY <1>1
  <2>1. over < 2 /\ ~Guarded
    BY <1>2, <1>4 DEF Guarded
  <2>2. seq = over /\ over' = over + 1 /\ over = 0
    BY <2>1, <1>1, <1>2 DEF CountInv
  <2> QED
    BY <2>2, <1>2, <1>3
<1>10. ~(seq' = SeqMod - 1 /\ over' = 0)
  BY <1>1, <1>2, <1>3, <1>5
<1>11. sent' \subseteq Nat \X Seqs /\ \A f \in sent' : f[1] <= key'
  BY <1>1, <1>2 DEF CountInv
<1> QED
  BY <1>1, <1>3, <1>4, <1>6, <1>8, <1>9, <1>10, <1>11 DEF CountInv

\* No other step of the sender uses a number.
LEMMA CountStep ==
    ASSUME CountInv, [Next]_vars PROVE CountInv'
<1> USE SeqModAssumption DEF Reserve
<1> DEFINE Seen == <<seq, key, over, sent>>
<1>1. CASE UNCHANGED <<state, round>> /\ UNCHANGED Seen
  BY <1>1 DEF CountInv, NumbersInv, Wrapped
<1>2. CASE Start
  <2>1. state = "Idle" /\ state' = "Pending" /\ round' = round + 1
        /\ UNCHANGED Seen
    BY <1>2 DEF Start, StartRotation
  <2>2. key # round' /\ round' \in Nat /\ key <= round'
    BY <2>1 DEF CountInv
  <2> QED
    BY <2>1, <2>2 DEF CountInv, NumbersInv, Wrapped, States
<1>3. CASE ReceiveAck
  <2>1. \/ state = "Pending" /\ state' = "Rotated"
        \/ state' = state
    BY <1>3 DEF ReceiveAck, HandleAck, UnexpectedAck, rotationVars
  <2>2. UNCHANGED Seen /\ round' = round
    BY <1>3 DEF ReceiveAck
  <2> QED
    BY <2>1, <2>2 DEF CountInv, NumbersInv, Wrapped, States
<1>4. CASE Retry
  BY <1>4, <1>1 DEF Retry, TimeoutRetry
<1>5. CASE GiveUp
  <2>1. /\ state = "Pending" /\ state' = "Failed"
        /\ UNCHANGED Seen /\ round' = round
    BY <1>5 DEF GiveUp, TimeoutFailed
  <2> QED
    BY <2>1 DEF CountInv, NumbersInv, Wrapped, States
<1>6. CASE SwitchKey
  <2>1. /\ key # round /\ key' = round /\ seq' = 0 /\ over' = 0
        /\ state = "Rotated" /\ state' = state /\ round' = round
        /\ sent' = sent
    BY <1>6 DEF SwitchKey, rotationVars
  <2>2. \A n \in Seqs : <<key', n>> \notin sent'
    <3> SUFFICES ASSUME NEW n \in Seqs, <<round, n>> \in sent PROVE FALSE
      BY <2>1
    <3>1. round <= key /\ key <= round /\ key # round
      BY <2>1 DEF CountInv
    <3> QED
      BY <3>1 DEF CountInv
  <2>3. seq' \in Seqs /\ over' \in Nat
    BY <2>1 DEF Seqs
  <2>4. \A f \in sent' : f[1] <= key'
    BY <2>1 DEF CountInv
  <2>5. NumbersInv'
    BY <2>1, <2>2 DEF NumbersInv
  <2> QED
    BY <2>1, <2>2, <2>3, <2>4, <2>5 DEF CountInv
<1>7. CASE Complete
  <2>1. state' = "Idle" /\ UNCHANGED Seen /\ round' = round
    BY <1>7 DEF Complete, CompleteRotation, sessionVars
  <2> QED
    BY <2>1 DEF CountInv, NumbersInv, Wrapped, States
<1>8. CASE Reset
  <2>1. state' = "Idle" /\ UNCHANGED Seen /\ round' = round
    BY <1>8 DEF Reset, ManualReset, sessionVars
  <2> QED
    BY <2>1 DEF CountInv, NumbersInv, Wrapped, States
<1>9. CASE StaleTimeout \/ Refused \/ UNCHANGED vars
  BY <1>9, <1>1 DEF StaleTimeout, TimeoutIgnored, Refused, NotInIdleState,
     NotInFailedState, NotInRotatedState, vars, sessionVars, rotationVars
<1>10. CASE ReceiveRotation \/ ReceiveData
  BY <1>10, <1>1 DEF ReceiveRotation, ReceiveData, rotationVars
<1> QED
  BY <1>2, <1>3, <1>4, <1>5, <1>6, <1>7, <1>8, <1>9, <1>10, CountSend
  DEF Next, Timer

\* No number is used twice under one key before two data frames have been
\* sent under it without a guard, whatever is lost, late or failed, however
\* often a rotation fails and is reset, and wherever the counter starts.
THEOREM NumbersUsedOnce == Spec => NoSeqReuse
<1> DEFINE NewNumber ==
      seq' # seq /\ key' = key /\ <<key, seq>> \in sent => over = Reserve
<1>1. CountInv /\ [Next]_vars => [NewNumber]_vars
  <2> SUFFICES ASSUME CountInv, Next, seq' # seq, key' = key,
                      <<key, seq>> \in sent
               PROVE  over = Reserve
    OBVIOUS
  <2>1. CASE SendData
    BY <2>1, CountSend
  <2>2. CASE SwitchKey
    BY <2>2 DEF SwitchKey
  <2>3. CASE \/ Start \/ ReceiveAck \/ Timer \/ StaleTimeout \/ Complete
             \/ Reset \/ Refused \/ ReceiveRotation \/ ReceiveData
    BY <2>3 DEF Start, ReceiveAck, Timer, Retry, GiveUp, StaleTimeout,
       Complete, Reset, Refused, ReceiveRotation, ReceiveData, sessionVars
  <2> QED
    BY <2>1, <2>2, <2>3 DEF Next
<1>2. CountInv /\ [Next]_vars => CountInv'
  BY CountStep
<1> QED
  BY <1>1, <1>2, CountStart, PTL DEF Spec, NoSeqReuse
============================================================================
