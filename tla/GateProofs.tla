----------------------------- MODULE GateProofs -----------------------------
(***************************************************************************)
(* Proofs about TuckGate, for any number of threads, any finite set of     *)
(* senders, any frames and any capacity.                                   *)
(***************************************************************************)
EXTENDS TuckGate, SignalProofs, FiniteSetTheorems, SequenceTheorems, TLAPS

----------------------------------------------------------------------------
(* The replay check *)

\* What was let through since a source was last forgotten: nothing of a source
\* that is not in the cache, and for the others the number in the cache and
\* numbers below it, each once.
CheckInv ==
    /\ last \in [Senders -> Seqs \cup {None}]
    /\ passes \in [Senders -> [Seqs -> 0 .. 1]]
    /\ \A s \in Senders :
          /\ last[s] # None => passes[s][last[s]] = 1
          /\ \A m \in Seqs : passes[s][m] = 1 => last[s] # None /\ m <= last[s]

JobInv ==
    /\ place \in [Threads -> Places]
    /\ job \in [Threads -> Jobs \cup {None}]
    /\ \A t \in Threads : place[t] # "idle" => job[t] \in Jobs

\* A thread that is about to store has the source to itself, and its number is
\* higher than the one in the cache still.
StoreInv ==
    \A t \in Threads : place[t] = "store" =>
       /\ Processor!Checked(job[t].frame)
       /\ last[job[t].from] # None => job[t].frame.sap > last[job[t].from]
       /\ \A u \in Threads :
             place[u] = "store" /\ job[u].from = job[t].from => u = t

LEMMA FrameFields ==
    ASSUME NEW f \in Frames
    PROVE  /\ f.pfp \in Pfps \cup {None}
           /\ f.sap \in Seqs \cup {None}
BY FramesAssumption

\* The number of a checked frame is stored, and is higher than the last one.
LEMMA UpdateKeeps ==
    ASSUME CheckInv, NEW f \in Frames, NEW s \in Senders,
           Processor!Checked(f), last[s] # None => f.sap > last[s],
           Processor!Update(s, f.sap)
    PROVE  CheckInv' /\ \A q \in Senders \ {s} : last'[q] = last[q]
<1> USE SeqsAssumption
<1>1. /\ last' = [last EXCEPT ![s] = f.sap]
      /\ passes' = [passes EXCEPT ![s][f.sap] = @ + 1]
  BY DEF Processor!Update
<1>2. f.sap \in Seqs /\ f.sap \in Nat /\ f.sap # None
  BY FrameFields DEF Processor!Checked
<1>3. last[s] # None => last[s] \in Nat /\ last[s] < f.sap
  <2>1. last[s] # None => last[s] \in Nat
    BY DEF CheckInv
  <2> QED
    BY <2>1, <1>2
<1>4. \A m \in Seqs : m \in Nat /\ (passes[s][m] = 1 => m < f.sap)
  BY <1>2, <1>3 DEF CheckInv
<1>5. passes[s] \in [Seqs -> 0 .. 1] /\ passes[s][f.sap] = 0
  BY <1>2, <1>4 DEF CheckInv
<1>6. /\ last' \in [Senders -> Seqs \cup {None}] /\ last'[s] = f.sap
      /\ \A q \in Senders \ {s} : last'[q] = last[q]
  BY <1>1, <1>2 DEF CheckInv
<1>7. /\ passes' = [passes EXCEPT ![s] = [passes[s] EXCEPT ![f.sap] = 1]]
      /\ [passes[s] EXCEPT ![f.sap] = 1] \in [Seqs -> 0 .. 1]
  <2>1. passes' = [passes EXCEPT
                     ![s] = [passes[s] EXCEPT ![f.sap] = passes[s][f.sap] + 1]]
    BY <1>1
  <2>2. passes[s][f.sap] + 1 = 1
    BY <1>5
  <2>3. [passes[s] EXCEPT ![f.sap] = 1] \in [Seqs -> 0 .. 1]
    <3>1. 1 \in 0 .. 1
      OBVIOUS
    <3> QED
      BY <1>5, <3>1, Zenon
  <2> QED
    BY <2>1, <2>2, <2>3
<1>8. /\ passes' \in [Senders -> [Seqs -> 0 .. 1]]
      /\ \A m \in Seqs :
            passes'[s][m] = IF m = f.sap THEN 1 ELSE passes[s][m]
      /\ \A q \in Senders \ {s} : passes'[q] = passes[q]
  BY <1>5, <1>7 DEF CheckInv
<1>9. ASSUME NEW q \in Senders
      PROVE  /\ last'[q] # None => passes'[q][last'[q]] = 1
             /\ \A m \in Seqs :
                   passes'[q][m] = 1 => last'[q] # None /\ m <= last'[q]
  <2>1. CASE q = s
    BY <2>1, <1>2, <1>3, <1>4, <1>6, <1>8
  <2>2. CASE q # s
    <3>1. last'[q] = last[q] /\ passes'[q] = passes[q]
      BY <2>2, <1>6, <1>8
    <3>2. last[q] # None => last[q] \in Nat
      BY DEF CheckInv
    <3> QED
      BY <3>1, <3>2 DEF CheckInv
  <2> QED
    BY <2>1, <2>2
<1> QED
  BY <1>6, <1>8, <1>9 DEF CheckInv

LEMMA ForgetKeeps ==
    ASSUME CheckInv, NEW K \in SUBSET Senders, Processor!Forget(K)
    PROVE  /\ CheckInv'
           /\ \A q \in Senders \ K : last'[q] = last[q]
<1>1. \A q \in Senders :
         /\ last'[q] = IF q \in K THEN None ELSE last[q]
         /\ passes'[q] = IF q \in K THEN [n \in Seqs |-> 0] ELSE passes[q]
  BY DEF Processor!Forget
<1>2. /\ last' \in [Senders -> Seqs \cup {None}]
      /\ passes' \in [Senders -> [Seqs -> 0 .. 1]]
  BY DEF Processor!Forget, CheckInv
<1>3. ASSUME NEW q \in Senders
      PROVE  /\ last'[q] # None => passes'[q][last'[q]] = 1
             /\ \A m \in Seqs :
                   passes'[q][m] = 1 => last'[q] # None /\ m <= last'[q]
  BY <1>1 DEF CheckInv
<1> QED
  BY <1>1, <1>2, <1>3 DEF CheckInv

GateCheckInv == CheckInv /\ StoreInv /\ JobInv

LEMMA GateCheckStart == GateInit => GateCheckInv
<1> SUFFICES ASSUME GateInit PROVE GateCheckInv
  OBVIOUS
<1>1. CheckInv
  BY DEF GateInit, Processor!ProcessorInit, CheckInv
<1> QED
  BY <1>1 DEF GateInit, GateCheckInv, StoreInv, JobInv, Places

\* A thread goes to another place than "store", and the cache stays.
LEMMA ElsewhereKeeps ==
    ASSUME GateCheckInv, NEW t \in Threads, NEW to \in Places \ {"store"},
           NEW j \in Jobs \cup {None}, to # "idle" => j \in Jobs,
           Goto(t, to, j), UNCHANGED <<last, passes>>
    PROVE  GateCheckInv'
<1> USE DEF GateCheckInv
<1>1. /\ place' = [place EXCEPT ![t] = to] /\ job' = [job EXCEPT ![t] = j]
      /\ last' = last /\ passes' = passes
  BY DEF Goto
<1>2. JobInv'
  BY <1>1 DEF JobInv
<1>3. \A u \in Threads :
         place'[u] = "store" => place[u] = "store" /\ job'[u] = job[u]
  BY <1>1 DEF JobInv
<1>4. StoreInv'
  BY <1>1, <1>3 DEF StoreInv, Processor!Checked, Processor!ReplayEnable
<1> QED
  BY <1>1, <1>2, <1>4 DEF CheckInv

LEMMA GateCheckStep ==
    ASSUME GateCheckInv, [GateNext]_allVars PROVE GateCheckInv'
<1> USE DEF GateCheckInv
<1>1. ASSUME UNCHANGED <<last, passes, place, job>> PROVE GateCheckInv'
  BY <1>1 DEF CheckInv, JobInv, StoreInv, Processor!Checked,
     Processor!ReplayEnable
<1>2. ASSUME NEW t \in Threads, NEW f \in Frames, NEW s \in Senders,
             \/ DecideNoPfp(t, f, s) \/ DecideOverride(t, f, s)
             \/ DecideCheck(t, f, s)
      PROVE  GateCheckInv'
  <2>1. [frame |-> f, from |-> s] \in Jobs
    BY DEF Jobs
  <2>2. CASE DecideNoPfp(t, f, s)
    BY <1>1, <2>2 DEF DecideNoPfp, allVars, processorVars, gateVars
  <2>3. CASE DecideOverride(t, f, s)
    BY <2>1, <2>3, ElsewhereKeeps DEF DecideOverride, processorVars, Places
  <2>4. CASE DecideCheck(t, f, s)
    BY <2>1, <2>4, ElsewhereKeeps DEF DecideCheck, processorVars, Places
  <2> QED
    BY <1>2, <2>2, <2>3, <2>4
<1>3. ASSUME NEW t \in Threads, Handling(t) PROVE GateCheckInv'
  BY <1>1, <1>3 DEF Handling, processorVars, gateVars
<1>4. ASSUME NEW t \in Threads, AnswerOverride(t) \/ Check(t)
      PROVE  GateCheckInv'
  BY <1>4, ElsewhereKeeps DEF AnswerOverride, Check, processorVars, Places
<1>5. ASSUME NEW t \in Threads, Pass(t) PROVE GateCheckInv'
  <2> DEFINE f == job[t].frame
             s == job[t].from
  <2>1. /\ place[t] = "check" /\ Alone(s) /\ Processor!Passes(f, s)
        /\ place' = [place EXCEPT ![t] = "store"]
        /\ job' = [job EXCEPT ![t] = job[t]]
        /\ last' = last /\ passes' = passes
    BY <1>5 DEF Pass, Goto, processorVars
  <2>2. job[t] \in Jobs /\ f \in Frames /\ s \in Senders /\ job' = job
    BY <2>1 DEF JobInv, Jobs
  <2>3. Processor!Checked(f) /\ (last[s] # None => f.sap > last[s])
    <3>1. Processor!Checked(f) /\ Processor!CheckOnly(s, f.sap) = "Allowed"
      BY <2>1 DEF Processor!Passes, Processor!CheckFrame, Processor!Checked
    <3>2. last[s] # None => last[s] \in Nat
      BY <2>2, SeqsAssumption DEF CheckInv
    <3>3. f.sap \in Nat
      BY <2>2, <3>1, FrameFields, SeqsAssumption DEF Processor!Checked
    <3>4. last[s] # None => ~(f.sap <= last[s])
      BY <2>2, <3>1 DEF Processor!CheckOnly, Processor!Known
    <3> QED
      BY <3>1, <3>2, <3>3, <3>4
  <2>4. /\ place'[t] = "store"
        /\ \A u \in Threads \ {t} : place'[u] = place[u]
    BY <2>1 DEF JobInv
  <2>5. JobInv'
    BY <2>1, <2>2, <2>4 DEF JobInv, Places
  <2>6. StoreInv'
    <3> SUFFICES ASSUME NEW u \in Threads, place'[u] = "store"
                 PROVE  /\ Processor!Checked(job[u].frame)
                        /\ last[job[u].from] # None =>
                              job[u].frame.sap > last[job[u].from]
                        /\ \A v \in Threads :
                              /\ place'[v] = "store"
                              /\ job[v].from = job[u].from
                              => v = u
      BY <2>1, <2>2 DEF StoreInv, Processor!Checked, Processor!ReplayEnable
    <3>1. \A v \in Threads \ {t} : place'[v] = "store" => job[v].from # s
      BY <2>1, <2>4 DEF Alone
    <3>2. CASE u = t
      BY <2>3, <3>1, <3>2
    <3>3. CASE u # t
      BY <2>4, <3>1, <3>3 DEF StoreInv
    <3> QED
      BY <3>2, <3>3
  <2> QED
    BY <2>1, <2>5, <2>6 DEF CheckInv
<1>6. ASSUME NEW t \in Threads, Store(t) PROVE GateCheckInv'
  <2> DEFINE f == job[t].frame
             s == job[t].from
  <2>1. /\ place[t] = "store" /\ Processor!Update(s, f.sap)
        /\ place' = [place EXCEPT ![t] = "idle"]
        /\ job' = [job EXCEPT ![t] = None]
    BY <1>6 DEF Store, Goto
  <2>2. f \in Frames /\ s \in Senders
    BY <2>1 DEF JobInv, Jobs
  <2>3. CheckInv' /\ \A q \in Senders \ {s} : last'[q] = last[q]
    BY <2>1, <2>2, UpdateKeeps DEF StoreInv
  <2>4. JobInv'
    BY <2>1 DEF JobInv, Places
  <2>5. \A u \in Threads :
           place'[u] = "store" =>
              /\ place[u] = "store" /\ job'[u] = job[u]
              /\ job[u].from # s /\ job[u].from \in Senders
    BY <2>1 DEF JobInv, Jobs, StoreInv
  <2>6. StoreInv'
    BY <2>3, <2>5 DEF StoreInv, Processor!Checked, Processor!ReplayEnable
  <2> QED
    BY <2>3, <2>4, <2>6
<1>7. ASSUME NEW K \in SUBSET Senders, ForgetSources(K) PROVE GateCheckInv'
  <2>1. CheckInv' /\ \A q \in Senders \ K : last'[q] = last[q]
    BY <1>7, ForgetKeeps DEF ForgetSources
  <2>2. place' = place /\ job' = job
    BY <1>7 DEF ForgetSources, gateVars
  <2>3. \A q \in Senders : q \in K => last'[q] = None
    BY <1>7 DEF ForgetSources, Processor!Forget
  <2>4. \A u \in Threads : place[u] = "store" => job[u].from \in Senders
    BY DEF JobInv, Jobs
  <2>5. StoreInv'
    BY <2>1, <2>2, <2>3, <2>4
    DEF StoreInv, Processor!Checked, Processor!ReplayEnable
  <2> QED
    BY <2>1, <2>2, <2>5 DEF JobInv
<1> QED
  BY <1>1, <1>2, <1>3, <1>4, <1>5, <1>6, <1>7
  DEF GateNext, allVars, processorVars, gateVars

LEMMA GateCheckAlways == GateSpec => []GateCheckInv
BY GateCheckStart, GateCheckStep, PTL DEF GateSpec

\* No number of a source is let through twice until the source is forgotten,
\* whatever overrides, unchecked frames and other sources come in between (calls
\* for one source do not overlap).
THEOREM GateChecksOnce == GateSpec => []GateCheckedOnce
<1>1. GateCheckInv => GateCheckedOnce
  BY DEF GateCheckInv, CheckInv, GateCheckedOnce, Processor!CheckedOnce
<1> QED
  BY <1>1, GateCheckAlways, PTL

\* A frame is refused as a replay only for a frame that the check let through.
THEOREM GateRefusesForAReason == GateSpec => []GateRefusalsExplained
<1>1. GateCheckInv => GateRefusalsExplained
  <2> SUFFICES ASSUME GateCheckInv, NEW s \in Senders, NEW n \in Seqs,
                      Processor!CheckOnly(s, n) = "RejectedReplay"
               PROVE  \E m \in Seqs : m >= n /\ passes[s][m] > 0
    BY DEF GateRefusalsExplained, Processor!RefusalsExplained
  <2>1. last[s] # None /\ n <= last[s]
    BY DEF Processor!CheckOnly, Processor!Known
  <2>2. last[s] \in Seqs /\ passes[s][last[s]] = 1
    BY <2>1, SeqsAssumption DEF GateCheckInv, CheckInv
  <2> QED
    <3>1. last[s] >= n /\ passes[s][last[s]] > 0
      BY <2>1, <2>2, SeqsAssumption
    <3> QED
      BY <2>2, <3>1
<1> QED
  BY <1>1, GateCheckAlways, PTL

----------------------------------------------------------------------------
(* The record of an override *)

\* A thread in handle_frame holds the event of the frame it decides, and is the
\* one that created it.
Answerable(t) ==
    \E i \in 1 .. Len(recorded) :
       recorded[i] = NewEvent(mine[t], job[t].frame.pfp, job[t].frame.sap,
                              DecisionSource)

RecordInv ==
    /\ JobInv
    /\ pc \in [Threads -> {"idle", "send", "audit"}]
    /\ mine \in [Threads -> 0 .. MaxTriggers]
    /\ created \in Nat
    /\ \E E : event \in [Threads -> E]
    /\ \E R : recorded \in Seq(R)
    /\ \A t \in Threads :
          pc[t] # "idle" =>
             /\ place[t] = "override"
             /\ event[t] = NewEvent(mine[t], job[t].frame.pfp,
                                    job[t].frame.sap, DecisionSource)
    /\ \A t \in Threads :
          place[t] = "override" /\ pc[t] = "idle" => Answerable(t)

LEMMA RecordStep ==
    ASSUME RecordInv, JobInv', [GateNext]_allVars PROVE RecordInv'
<1> DEFINE Seen == <<pc, event, created, recorded, place, job, mine>>
<1> USE MaxTriggersAssumption DEF RecordInv
<1>1. ASSUME UNCHANGED Seen PROVE RecordInv'
  <2>1. /\ pc' = pc /\ event' = event /\ recorded' = recorded
        /\ place' = place /\ job' = job /\ mine' = mine /\ created' = created
    BY <1>1
  <2>2. \A t \in Threads : Answerable(t)' <=> Answerable(t)
    BY <2>1 DEF Answerable
  <2>3. /\ \E E : event' \in [Threads -> E]
        /\ \E R : recorded' \in Seq(R)
    BY <2>1
  <2> QED
    BY <2>1, <2>2, <2>3
<1>2. ASSUME NEW t \in Threads, NEW f \in Frames, NEW s \in Senders,
             DecideOverride(t, f, s)
      PROVE  RecordInv'
  <2> DEFINE e == NewEvent(created + 1, f.pfp, f.sap, DecisionSource)
             j == [frame |-> f, from |-> s]
  <2>1. /\ pc[t] = "idle" /\ pc' = [pc EXCEPT ![t] = "send"]
        /\ event' = [event EXCEPT ![t] = e]
        /\ created < MaxTriggers /\ created' = created + 1
        /\ recorded' = recorded
        /\ place' = [place EXCEPT ![t] = "override"]
        /\ job' = [job EXCEPT ![t] = j]
        /\ mine' = [mine EXCEPT ![t] = created + 1]
    BY <1>2 DEF DecideOverride, Trigger, Goto
  <2>2. PICK E : event \in [Threads -> E]
    OBVIOUS
  <2>3. event' \in [Threads -> E \cup {e}]
    BY <2>1, <2>2
  <2>4. created + 1 \in 0 .. MaxTriggers /\ created' \in Nat
    BY <2>1
  <2>5. /\ pc'[t] = "send" /\ event'[t] = e /\ job'[t] = j
        /\ place'[t] = "override" /\ mine'[t] = created + 1
    BY <2>1, <2>2 DEF JobInv
  <2>6. e = NewEvent(created + 1, j.frame.pfp, j.frame.sap, DecisionSource)
    OBVIOUS
  <2>7. ASSUME NEW u \in Threads, u # t
        PROVE  /\ pc'[u] = pc[u] /\ event'[u] = event[u]
               /\ job'[u] = job[u] /\ place'[u] = place[u]
               /\ mine'[u] = mine[u]
    BY <2>1, <2>2, <2>7 DEF JobInv
  <2>8. /\ pc' \in [Threads -> {"idle", "send", "audit"}]
        /\ mine' \in [Threads -> 0 .. MaxTriggers]
    BY <2>1, <2>4
  <2> HIDE DEF e, j
  <2>9. \A u \in Threads :
           pc'[u] # "idle" =>
              /\ place'[u] = "override"
              /\ event'[u] = NewEvent(mine'[u], job'[u].frame.pfp,
                                      job'[u].frame.sap, DecisionSource)
    BY <2>5, <2>6, <2>7
  <2>10. \A u \in Threads :
            place'[u] = "override" /\ pc'[u] = "idle" => Answerable(u)'
    BY <2>1, <2>5, <2>7 DEF Answerable
  <2> QED
    BY <2>1, <2>3, <2>4, <2>8, <2>9, <2>10
<1>3. ASSUME NEW t \in Threads, Send(t), UNCHANGED <<place, job, mine>>
      PROVE  RecordInv'
  <2>1. /\ pc[t] = "send" /\ pc' = [pc EXCEPT ![t] = "audit"]
        /\ UNCHANGED <<event, recorded, created>>
    BY <1>3 DEF Send
  <2>2. /\ pc' \in [Threads -> {"idle", "send", "audit"}]
        /\ \A u \in Threads : pc'[u] = "idle" <=> pc[u] = "idle"
    BY <2>1
  <2>3. \A u \in Threads : Answerable(u)' <=> Answerable(u)
    BY <1>3, <2>1 DEF Answerable
  <2>4. /\ \E E : event' \in [Threads -> E]
        /\ \E R : recorded' \in Seq(R)
    BY <2>1
  <2> QED
    BY <1>3, <2>1, <2>2, <2>3, <2>4
<1>4. ASSUME NEW t \in Threads, Audit(t), UNCHANGED <<place, job, mine>>
      PROVE  RecordInv'
  <2>1. /\ pc[t] = "audit" /\ pc' = [pc EXCEPT ![t] = "idle"]
        /\ event' = [event EXCEPT ![t] = None]
        /\ recorded' = Append(recorded, event[t])
        /\ created' = created
    BY <1>4 DEF Audit
  <2>2. PICK E : event \in [Threads -> E]
    OBVIOUS
  <2>3. PICK R : recorded \in Seq(R)
    OBVIOUS
  <2>4. event' \in [Threads -> E \cup {None}]
    BY <2>1, <2>2
  <2>5. recorded \in Seq(R \cup {event[t]})
    <3>1. recorded \in [1 .. Len(recorded) -> R \cup {event[t]}]
      BY <2>3
    <3> QED
      BY <2>3, <3>1, SeqDef
  <2>6. /\ recorded' \in Seq(R \cup {event[t]})
        /\ Len(recorded') = Len(recorded) + 1
        /\ Len(recorded) \in Nat
        /\ \A i \in 1 .. Len(recorded) : recorded'[i] = recorded[i]
        /\ recorded'[Len(recorded) + 1] = event[t]
    BY <2>1, <2>5, AppendProperties
  <2>7. Answerable(t)'
    <3>1. event[t] = NewEvent(mine[t], job[t].frame.pfp, job[t].frame.sap,
                              DecisionSource)
      BY <2>1
    <3>2. Len(recorded) + 1 \in 1 .. Len(recorded')
      BY <2>6
    <3> QED
      BY <1>4, <2>6, <3>1, <3>2 DEF Answerable
  <2>8. ASSUME NEW u \in Threads, Answerable(u) PROVE Answerable(u)'
    <3>1. PICK i \in 1 .. Len(recorded) :
            recorded[i] = NewEvent(mine[u], job[u].frame.pfp,
                                   job[u].frame.sap, DecisionSource)
      BY <2>8 DEF Answerable
    <3>2. i \in 1 .. Len(recorded') /\ recorded'[i] = recorded[i]
      BY <2>6
    <3> QED
      BY <1>4, <3>1, <3>2 DEF Answerable
  <2>9. \A u \in Threads \ {t} : pc'[u] = pc[u] /\ event'[u] = event[u]
    BY <2>1, <2>2
  <2>10. \A u \in Threads :
            place'[u] = "override" /\ pc'[u] = "idle" => Answerable(u)'
    BY <1>4, <2>7, <2>8, <2>9
  <2>11. \A u \in Threads :
            pc'[u] # "idle" =>
               /\ place'[u] = "override"
               /\ event'[u] = NewEvent(mine'[u], job'[u].frame.pfp,
                                       job'[u].frame.sap, DecisionSource)
    <3>1. pc'[t] = "idle"
      BY <2>1
    <3> QED
      BY <1>4, <2>9, <3>1
  <2>12. pc' \in [Threads -> {"idle", "send", "audit"}]
    BY <2>1
  <2> QED
    BY <1>4, <2>1, <2>4, <2>6, <2>10, <2>11, <2>12
<1>5. ASSUME NEW t \in Threads, NEW to \in {"idle", "check", "store"}, NEW j,
             Goto(t, to, j), UNCHANGED <<pc, event, recorded, created>>,
             pc[t] = "idle", mine' = mine \/ mine' = [mine EXCEPT ![t] = 0]
      PROVE  RecordInv'
  <2>1. \A u \in Threads \ {t} :
           place'[u] = place[u] /\ job'[u] = job[u] /\ mine'[u] = mine[u]
    BY <1>5 DEF Goto, JobInv
  <2>2. place'[t] # "override" /\ mine' \in [Threads -> 0 .. MaxTriggers]
    BY <1>5 DEF Goto, JobInv
  <2>3. \A u \in Threads :
           place'[u] = "override" /\ pc'[u] = "idle" => Answerable(u)'
    BY <1>5, <2>1, <2>2 DEF Answerable
  <2>4. \A u \in Threads :
           pc'[u] # "idle" =>
              /\ place'[u] = "override"
              /\ event'[u] = NewEvent(mine'[u], job'[u].frame.pfp,
                                      job'[u].frame.sap, DecisionSource)
    BY <1>5, <2>1
  <2> QED
    BY <1>5, <2>2, <2>3, <2>4
<1>6. ASSUME NEW t \in Threads, NEW f, NEW s,
             DecideCheck(t, f, s) \/ AnswerOverride(t)
      PROVE  RecordInv'
  BY <1>5, <1>6 DEF DecideCheck, Ignore, AnswerOverride, vars, threadVars
<1>7. ASSUME NEW t \in Threads, Check(t) \/ Pass(t) \/ Store(t)
      PROVE  RecordInv'
  <2>1. pc[t] = "idle"
    BY <1>7 DEF Check, Pass, Store
  <2> QED
    BY <1>5, <1>7, <2>1 DEF Check, Pass, Store, vars, threadVars
<1>8. ASSUME NEW t \in Threads, Handling(t) PROVE RecordInv'
  BY <1>3, <1>4, <1>8 DEF Handling, Progress, gateVars
<1>9. ASSUME \/ \E t \in Threads, f \in Frames, s \in Senders :
                   DecideNoPfp(t, f, s)
             \/ \E K \in SUBSET Senders : ForgetSources(K)
             \/ UNCHANGED allVars
      PROVE  RecordInv'
  BY <1>1, <1>9 DEF DecideNoPfp, ForgetSources, allVars, vars, threadVars,
     gateVars
<1> QED
  BY <1>2, <1>6, <1>7, <1>8, <1>9 DEF GateNext

LEMMA RecordAlways == GateSpec => []RecordInv
<1>1. GateInit => RecordInv
  <2> SUFFICES ASSUME GateInit PROVE RecordInv
    OBVIOUS
  <2>1. JobInv
    BY GateCheckStart DEF GateCheckInv
  <2>2. recorded \in Seq({}) /\ event \in [Threads -> {None}]
    BY DEF GateInit, Init
  <2>3. mine \in [Threads -> 0 .. MaxTriggers]
    BY MaxTriggersAssumption DEF GateInit
  <2>4. /\ pc \in [Threads -> {"idle", "send", "audit"}] /\ created \in Nat
        /\ \A t \in Threads : pc[t] = "idle" /\ place[t] = "idle"
    BY DEF GateInit, Init
  <2>5. (\E E : event \in [Threads -> E]) /\ (\E R : recorded \in Seq(R))
    BY <2>2
  <2> QED
    BY <2>1, <2>3, <2>4, <2>5 DEF RecordInv
<1>2. GateCheckInv /\ RecordInv /\ [GateNext]_allVars => RecordInv'
  BY RecordStep, GateCheckStep DEF GateCheckInv
<1> QED
  BY <1>1, <1>2, GateCheckAlways, PTL DEF GateSpec

\* The gate answers CatastrophicOverride only when the event of this very call
\* is in the record, however the threads interleave.
THEOREM OverridesAnsweredAreRecorded == GateSpec => []AnsweredIsRecorded
<1>1. RecordInv => AnsweredIsRecorded
  BY DEF RecordInv, AnsweredIsRecorded, Answerable
<1> QED
  BY <1>1, RecordAlways, PTL

----------------------------------------------------------------------------
(* The gate and the manager *)

\* What the gate does to the manager is what the manager does anyway, so that
\* every theorem about CatastrophicManager holds in the gate.
THEOREM GateUsesManager == GateSpec => Spec
<1>1. GateInit => Init
  BY DEF GateInit
<1>2. [GateNext]_allVars => [Next]_vars
  <2> SUFFICES ASSUME [GateNext]_allVars PROVE [Next]_vars
    OBVIOUS
  <2>1. CASE UNCHANGED vars
    BY <2>1
  <2>2. ASSUME NEW t \in Threads, NEW f \in Frames, NEW s \in Senders,
               DecideOverride(t, f, s)
        PROVE  Next
    <3>1. /\ f.pfp \in Pfps /\ f.sap \in Seqs \cup {None}
          /\ Trigger(t, f.pfp, f.sap, DecisionSource)
      BY <2>2, FramesAssumption DEF DecideOverride
    <3> QED
      BY <3>1, DecisionSourceAssumption DEF Next
  <2>3. ASSUME NEW t \in Threads, Handling(t) PROVE Next
    BY <2>3 DEF Handling, Next
  <2>4. ASSUME NEW t \in Threads, NEW f, NEW s,
               \/ DecideNoPfp(t, f, s) \/ DecideCheck(t, f, s)
               \/ AnswerOverride(t) \/ Check(t) \/ Pass(t) \/ Store(t)
        PROVE  UNCHANGED vars
    BY <2>4 DEF DecideNoPfp, DecideCheck, Ignore, AnswerOverride, Check,
       Pass, Store, allVars
  <2>5. ASSUME NEW K, ForgetSources(K) PROVE UNCHANGED vars
    BY <2>5 DEF ForgetSources
  <2>6. CASE UNCHANGED allVars
    BY <2>6 DEF allVars
  <2> QED
    BY <2>1, <2>2, <2>3, <2>4, <2>5, <2>6 DEF GateNext
<1> QED
  BY <1>1, <1>2, PTL DEF GateSpec, Spec

\* Behind the gate, with threads that come and go through tuck at once and
\* pass one source, hard overrides keep the rules of the manager: each is
\* signalled and then recorded, in the way the ledger promises, and the log
\* verifies and its last hash stands for all of it.
THEOREM GateKeepsRules ==
    GateSpec => /\ []NothingLost /\ []SignalledInOrder
                /\ []VerifiesUntilEviction /\ []LastHashCommits
                /\ ImplementsLedger
BY GateUsesManager, OverridesRecorded, SignalsPrecedeRecords,
   AuditStandsForAll, ManagerImplementsLedger, PTL

\* Type correctness of the gate, with its manager and its processor.
THEOREM GateTypeCorrect == GateSpec => []GateTypeOK
<1>1. TypeOK /\ GateCheckInv /\ RecordInv => GateTypeOK
  <2> SUFFICES ASSUME TypeOK, GateCheckInv, RecordInv PROVE GateTypeOK
    OBVIOUS
  <2>1. Processor!ProcessorTypeOK
    BY DEF GateCheckInv, CheckInv, Processor!ProcessorTypeOK
  <2> QED
    BY <2>1 DEF RecordInv, JobInv, GateTypeOK
<1>2. GateSpec => []TypeOK
  BY GateUsesManager, ManagerTypeCorrect, PTL
<1> QED
  BY <1>1, <1>2, GateCheckAlways, RecordAlways, PTL

=============================================================================
