---------------------------- MODULE SignalProofs ----------------------------
(***************************************************************************)
(* Proofs about the order of signals and records under the manager, and    *)
(* its type invariant.                                                     *)
(***************************************************************************)
EXTENDS CatastrophicProofs

\* Everything that went on the bus and was not lost with a receiver.
Flow == received \o bus

\* No event of s got ahead of more than one event of each other thread.
Bounded(s) ==
    \A i \in 1 .. Len(s) :
       Cardinality(OvertakenBy(s, i)) < Cardinality(Threads)

\* Whatever is older than e and not in s is the event of another thread than t.
Reached(s, t, e) ==
    \A n \in 1 .. e.at :
       n \in Ids(s) \cup {e.at} \/ \E u \in Threads \ {t} : n = event[u].at

\* What is appended after all but the events of other threads gets ahead of
\* those only.
LEMMA AppendBounded ==
    ASSUME NEW s \in Seq(Events), NEW e \in Events, NEW t \in Threads,
           Bounded(s), Reached(s, t, e)
    PROVE  /\ Append(s, e) \in Seq(Events)
           /\ Bounded(Append(s, e))
           /\ Ids(Append(s, e)) = Ids(s) \cup {e.at}
<1> DEFINE r == Append(s, e)
<1>1. /\ r \in Seq(Events) /\ Len(r) = Len(s) + 1 /\ Len(s) \in Nat
      /\ \A i \in 1 .. Len(s) : r[i] = s[i]
      /\ r[Len(s) + 1] = e
  OBVIOUS
<1>2. \A i \in 1 .. Len(r) : i \in 1 .. Len(s) \/ i = Len(s) + 1
  BY <1>1
<1>3. Ids(r) = Ids(s) \cup {e.at}
  <2> HIDE DEF r
  <2>1. ASSUME NEW x \in Ids(r) PROVE x \in Ids(s) \cup {e.at}
    BY <2>1, <1>1, <1>2 DEF Ids
  <2>2. ASSUME NEW x \in Ids(s) PROVE x \in Ids(r)
    <3>1. PICK i \in 1 .. Len(s) : x = s[i].at
      BY DEF Ids
    <3>2. i \in 1 .. Len(r) /\ r[i] = s[i]
      BY <1>1
    <3> QED
      BY <3>1, <3>2 DEF Ids
  <2>3. e.at \in Ids(r)
    <3>1. Len(s) + 1 \in 1 .. Len(r)
      BY <1>1
    <3> QED
      BY <3>1, <1>1 DEF Ids
  <2> QED
    BY <2>1, <2>2, <2>3
<1>4. ASSUME NEW i \in 1 .. Len(s) PROVE OvertakenBy(r, i) = OvertakenBy(s, i)
  <2>1. SubSeq(r, 1, i) = SubSeq(s, 1, i)
    BY <1>1
  <2> QED
    BY <2>1, <1>1 DEF OvertakenBy
<1>5. Cardinality(OvertakenBy(r, Len(s) + 1)) < Cardinality(Threads)
  <2> DEFINE T == Threads \ {t}
             f == [u \in T |-> event[u].at]
             A == {f[u] : u \in T}
  <2>1. SubSeq(r, 1, Len(s) + 1) = r
    BY <1>1
  <2>2. OvertakenBy(r, Len(s) + 1) \subseteq A
    BY <2>1, <1>1, <1>3 DEF OvertakenBy, Reached
  <2>3. /\ IsFiniteSet(T) /\ Cardinality(T) = Cardinality(Threads) - 1
        /\ Cardinality(Threads) \in Nat /\ Cardinality(T) \in Nat
    BY ThreadsAssumption, FS_RemoveElement, FS_CardinalityType
  <2>4. f \in Surjection(T, A)
    BY DEF Surjection
  <2> HIDE DEF A, f, T
  <2>5. IsFiniteSet(A) /\ Cardinality(A) <= Cardinality(T)
    BY <2>3, <2>4, FS_Surjection
  <2>6. Cardinality(OvertakenBy(r, Len(s) + 1)) <= Cardinality(A)
        /\ IsFiniteSet(OvertakenBy(r, Len(s) + 1))
    BY <2>2, <2>5, FS_Subset
  <2>7. Cardinality(A) \in Nat
        /\ Cardinality(OvertakenBy(r, Len(s) + 1)) \in Nat
    BY <2>5, <2>6, FS_CardinalityType
  <2> QED
    BY <2>3, <2>5, <2>6, <2>7
<1> HIDE DEF r
<1>6. Bounded(r)
  BY <1>1, <1>2, <1>4, <1>5 DEF Bounded
<1> QED
  BY <1>1, <1>3, <1>6 DEF r

\* What is said of a sequence depends on the sequence only.
LEMMA SameBounds ==
    /\ \A s : recorded' = s /\ Bounded(s) => Bounded(recorded)'
    /\ Flow' = Flow => Ids(Flow)' = Ids(Flow)
    /\ Flow' = Flow /\ Bounded(Flow) => Bounded(Flow)'
<1>1. ASSUME NEW s, recorded' = s, Bounded(s) PROVE Bounded(recorded)'
  BY <1>1 DEF Bounded, OvertakenBy, Ids
<1>2. ASSUME Flow' = Flow PROVE Ids(Flow)' = Ids(Flow)
  BY <1>2 DEF Ids
<1>3. ASSUME Flow' = Flow, Bounded(Flow) PROVE Bounded(Flow)'
  BY <1>3 DEF Bounded, OvertakenBy, Ids
<1> QED
  BY <1>1, <1>2, <1>3

\* The types of the sequences, and of the event a thread holds; every thread
\* that holds one holds one of its own.
EventInv ==
    /\ pc \in [Threads -> {"idle", "send", "audit"}]
    /\ alive \in BOOLEAN
    /\ created \in 0 .. MaxTriggers
    /\ \E E : event \in [Threads -> E]
    /\ bus \in Seq(Events) /\ received \in Seq(Events)
    /\ recorded \in Seq(Events)
    /\ \A t \in Threads :
          pc[t] # "idle" => event[t] \in Events /\ event[t].at <= created
    /\ \A t, u \in Threads :
          t # u /\ pc[t] # "idle" /\ pc[u] # "idle" =>
             event[t].at # event[u].at
    /\ \A i \in 1 .. Len(Flow) : Flow[i].at <= created
    /\ \A i \in 1 .. Len(recorded) : recorded[i].at <= created

\* Every event is recorded or some thread holds it.
Accounted ==
    \A n \in 1 .. created :
       n \in Ids(recorded) \/ \E u \in Threads : pc[u] # "idle" /\ n = event[u].at

\* With a receiver, every event is sent or some thread is about to send it.
Signalled ==
    \A n \in 1 .. created :
       n \in Ids(Flow) \/ \E u \in Threads : pc[u] = "send" /\ n = event[u].at

OrderInv ==
    /\ EventInv
    /\ Bounded(Flow) /\ Bounded(recorded)
    /\ Accounted
    /\ alive => Signalled
    /\ alive => Ids(recorded) \subseteq Ids(Flow)
    /\ \A t \in Threads : pc[t] = "audit" /\ alive => event[t].at \in Ids(Flow)

\* The events of a sequence have times.
LEMMA EventTimes ==
    \A s \in Seq(Events) : \A i \in 1 .. Len(s) : s[i].at \in Nat
<1> SUFFICES ASSUME NEW s \in Seq(Events), NEW i \in 1 .. Len(s)
             PROVE  s[i].at \in Nat
  OBVIOUS
<1>1. s[i] \in Events
  OBVIOUS
<1>2. \A e \in Events : e.at \in Nat
  BY MaxTriggersAssumption DEF Events
<1> QED
  BY <1>1, <1>2

\* Nothing has been sent or recorded at first.
LEMMA OrderStart == Init => OrderInv
<1> SUFFICES ASSUME Init PROVE OrderInv
  OBVIOUS
<1>1. bus = <<>> /\ received = <<>> /\ recorded = <<>> /\ created = 0
      /\ alive \in BOOLEAN /\ pc = [t \in Threads |-> "idle"]
      /\ event = [t \in Threads |-> None]
  BY DEF Init
<1>2. Flow \in Seq(Events) /\ Len(Flow) = 0 /\ Len(recorded) = 0
      /\ recorded \in Seq(Events) /\ bus \in Seq(Events)
      /\ received \in Seq(Events)
  BY <1>1 DEF Flow
<1>3. Ids(recorded) = {}
  BY <1>2 DEF Ids
<1>4. EventInv
  <2>1. event \in [Threads -> {None}]
    BY <1>1
  <2>2. created \in 0 .. MaxTriggers
    BY <1>1, MaxTriggersAssumption
  <2>3. pc \in [Threads -> {"idle", "send", "audit"}]
        /\ \A t \in Threads : pc[t] = "idle"
    BY <1>1
  <2>4. \A i \in 1 .. Len(Flow) : Flow[i].at <= created
    BY <1>2
  <2>5. \A i \in 1 .. Len(recorded) : recorded[i].at <= created
    BY <1>2
  <2> QED
    BY <1>1, <1>2, <2>1, <2>2, <2>3, <2>4, <2>5 DEF EventInv
<1>5. Accounted /\ Signalled
  BY <1>1 DEF Accounted, Signalled
<1> QED
  BY <1>1, <1>2, <1>3, <1>4, <1>5 DEF OrderInv, Bounded

\* A step that leaves the threads and what has been sent and recorded alone.
LEMMA OrderFrame ==
    ASSUME OrderInv, UNCHANGED <<threadVars, recorded, alive>>, Flow' = Flow,
           bus' \in Seq(Events), received' \in Seq(Events)
    PROVE  OrderInv'
<1>1. pc' = pc /\ event' = event /\ created' = created
      /\ recorded' = recorded /\ alive' = alive /\ Flow' = Flow
  BY DEF threadVars
<1>2. EventInv'
  BY <1>1 DEF OrderInv, EventInv
<1>3. Bounded(Flow') /\ Bounded(recorded') /\ Accounted'
      /\ (alive' => Signalled')
  BY <1>1 DEF OrderInv, Accounted, Signalled
<1>4. alive' => Ids(recorded') \subseteq Ids(Flow')
  BY <1>1 DEF OrderInv
<1>5. \A u \in Threads : pc'[u] = "audit" /\ alive' => event'[u].at \in Ids(Flow')
  BY <1>1 DEF OrderInv
<1>6. Bounded(Flow)' /\ Bounded(recorded)' /\ (alive => Ids(recorded) \subseteq Ids(Flow))'
  BY <1>1, <1>3, <1>4 DEF Bounded, OvertakenBy, Ids
<1>7. (\A u \in Threads : pc[u] = "audit" /\ alive => event[u].at \in Ids(Flow))'
  BY <1>1, <1>5 DEF Ids
<1> QED
  BY <1>2, <1>3, <1>6, <1>7 DEF OrderInv

\* A new event is later than all others.
LEMMA OrderTrigger ==
    ASSUME OrderInv, NEW t \in Threads, NEW pfp \in Pfps,
           NEW seq \in Seqs \cup {None}, NEW src \in Sources,
           Trigger(t, pfp, seq, src)
    PROVE  OrderInv'
<1> DEFINE e == NewEvent(created + 1, pfp, seq, src)
<1>1. /\ pc[t] = "idle" /\ created < MaxTriggers
      /\ event' = [event EXCEPT ![t] = e]
      /\ created' = created + 1
      /\ pc' = [pc EXCEPT ![t] = "send"]
      /\ bus' = bus /\ received' = received /\ recorded' = recorded
      /\ alive' = alive /\ Flow' = Flow
  BY DEF Trigger, Flow
<1>2. created \in Nat /\ created' \in 0 .. MaxTriggers
  BY <1>1, MaxTriggersAssumption DEF OrderInv, EventInv
<1>3. e \in Events /\ e.at = created + 1
  BY <1>1, <1>2, MaxTriggersAssumption DEF NewEvent, Events
<1> HIDE DEF e
<1>4. pc'[t] = "send" /\ event'[t] = e
  BY <1>1 DEF OrderInv, EventInv
<1>5. ASSUME NEW u \in Threads, u # t
      PROVE  pc'[u] = pc[u] /\ event'[u] = event[u]
  BY <1>1, <1>5 DEF OrderInv, EventInv
<1>6. Flow \in Seq(Events)
  BY DEF OrderInv, EventInv, Flow
<1>7. ASSUME NEW u \in Threads, u # t, pc'[u] # "idle"
      PROVE  /\ event'[u] \in Events /\ event'[u].at \in Nat
             /\ event'[u].at <= created
  BY <1>5, <1>7, MaxTriggersAssumption DEF OrderInv, EventInv, Events
<1>8. ASSUME NEW n \in Nat, n <= created PROVE n <= created'
  BY <1>1, <1>2, <1>8
<1>9. \A s \in Seq(Events) : \A i \in 1 .. Len(s) : s[i].at \in Nat
  BY EventTimes
<1>10. EventInv'
  <2>1. pc' \in [Threads -> {"idle", "send", "audit"}]
    BY <1>1 DEF OrderInv, EventInv
  <2>2. \E E : event' \in [Threads -> E]
    <3>1. PICK E : event \in [Threads -> E]
      BY DEF OrderInv, EventInv
    <3>2. event' \in [Threads -> E \cup {e}]
      BY <3>1, <1>1
    <3> QED
      BY <3>2
  <2>3. ASSUME NEW u \in Threads, pc'[u] # "idle"
        PROVE  event'[u] \in Events /\ event'[u].at <= created'
    <3>1. CASE u = t
      BY <3>1, <1>1, <1>2, <1>3, <1>4
    <3>2. CASE u # t
      BY <3>2, <2>3, <1>7, <1>8
    <3> QED
      BY <3>1, <3>2
  <2>4. ASSUME NEW u \in Threads, NEW v \in Threads, u # v,
               pc'[u] # "idle", pc'[v] # "idle"
        PROVE  event'[u].at # event'[v].at
    <3>1. CASE u # t /\ v # t
      BY <3>1, <2>4, <1>5 DEF OrderInv, EventInv
    <3>2. CASE u = t
      BY <3>2, <2>4, <1>2, <1>3, <1>4, <1>7
    <3>3. CASE v = t
      BY <3>3, <2>4, <1>2, <1>3, <1>4, <1>7
    <3> QED
      BY <3>1, <3>2, <3>3
  <2>5. \A i \in 1 .. Len(Flow') : Flow'[i].at <= created'
    BY <1>1, <1>6, <1>8, <1>9 DEF OrderInv, EventInv
  <2>6. \A i \in 1 .. Len(recorded') : recorded'[i].at <= created'
    BY <1>1, <1>8, <1>9 DEF OrderInv, EventInv
  <2> QED
    BY <1>1, <1>2, <2>1, <2>2, <2>3, <2>4, <2>5, <2>6 DEF EventInv, OrderInv
<1>11. ASSUME NEW n \in 1 .. created'
       PROVE  /\ n \in Ids(recorded)
                 \/ \E u \in Threads : pc'[u] # "idle" /\ n = event'[u].at
              /\ alive => n \in Ids(Flow)
                 \/ \E u \in Threads : pc'[u] = "send" /\ n = event'[u].at
  <2>1. CASE n = created + 1
    BY <2>1, <1>3, <1>4
  <2>2. CASE n \in 1 .. created
    <3>1. \A u \in Threads : pc[u] # "idle" => u # t
      BY <1>1
    <3> QED
      BY <2>2, <3>1, <1>5 DEF OrderInv, Accounted, Signalled
  <2> QED
    BY <2>1, <2>2, <1>1, <1>2
<1>12. Accounted' /\ (alive' => Signalled')
  BY <1>1, <1>11 DEF Accounted, Signalled
<1>13. \A u \in Threads : pc'[u] = "audit" /\ alive' => event'[u].at \in Ids(Flow)
  BY <1>1, <1>4, <1>5 DEF OrderInv
<1>14. /\ Bounded(Flow)' /\ Bounded(recorded)'
       /\ Ids(Flow)' = Ids(Flow) /\ Ids(recorded)' = Ids(recorded)
  BY <1>1 DEF OrderInv, Bounded, OvertakenBy, Ids
<1> QED
  BY <1>1, <1>10, <1>12, <1>13, <1>14 DEF OrderInv

\* It joins the bus, if there is a receiver.
LEMMA OrderSend ==
    ASSUME OrderInv, NEW t \in Threads, Send(t)
    PROVE  OrderInv'
<1> DEFINE e == event[t]
<1>1. /\ pc[t] = "send"
      /\ bus' = IF alive THEN Append(bus, e) ELSE bus
      /\ pc' = [pc EXCEPT ![t] = "audit"]
      /\ event' = event /\ created' = created /\ received' = received
      /\ recorded' = recorded /\ alive' = alive
  BY DEF Send, BusSend
<1>2. e \in Events /\ e.at <= created /\ e.at \in Nat /\ created \in Nat
  BY <1>1, MaxTriggersAssumption DEF OrderInv, EventInv, Events
<1>3. pc'[t] = "audit" /\ pc' \in [Threads -> {"idle", "send", "audit"}]
      /\ \A u \in Threads \ {t} : pc'[u] = pc[u]
  BY <1>1 DEF OrderInv, EventInv
<1>4. Flow \in Seq(Events) /\ bus' \in Seq(Events)
  BY <1>1, <1>2 DEF OrderInv, EventInv, Flow
<1>5. /\ Accounted'
      /\ Bounded(recorded)' /\ Ids(recorded)' = Ids(recorded)
  <2>1. Ids(recorded)' = Ids(recorded) /\ Bounded(recorded)'
    BY <1>1 DEF OrderInv, Bounded, OvertakenBy, Ids
  <2>2. \A u \in Threads : pc'[u] = "idle" <=> pc[u] = "idle"
    BY <1>1, <1>3
  <2> QED
    BY <2>1, <2>2, <1>1 DEF OrderInv, Accounted
<1>6. CASE ~alive
  <2>1. Flow' = Flow
    BY <1>1, <1>6 DEF Flow
  <2>2. EventInv'
    BY <1>1, <1>3, <1>4, <2>1 DEF OrderInv, EventInv
  <2>3. Bounded(Flow)'
    BY <2>1, SameBounds DEF OrderInv
  <2> QED
    BY <1>1, <1>5, <1>6, <2>2, <2>3 DEF OrderInv
<1>7. CASE alive
  <2>1. Flow' = Append(Flow, e)
    BY <1>1, <1>2, <1>7 DEF Flow, OrderInv, EventInv
  <2>2. Reached(Flow, t, e)
    BY <1>2, <1>7 DEF OrderInv, Signalled, Reached
  <2>3. /\ Append(Flow, e) \in Seq(Events) /\ Bounded(Append(Flow, e))
        /\ Ids(Append(Flow, e)) = Ids(Flow) \cup {e.at}
    BY <2>2, <1>2, <1>4, AppendBounded DEF OrderInv
  <2>4. Bounded(Flow)' /\ Ids(Flow)' = Ids(Flow) \cup {e.at}
    BY <2>1, <2>3 DEF Bounded, OvertakenBy, Ids
  <2>5. \A i \in 1 .. Len(Flow') : Flow'[i].at <= created'
    <3>1. Len(Flow') = Len(Flow) + 1 /\ Len(Flow) \in Nat
          /\ (\A i \in 1 .. Len(Flow) : Flow'[i] = Flow[i])
          /\ Flow'[Len(Flow) + 1] = e
      BY <2>1, <1>4, <1>2
    <3>2. \A i \in 1 .. Len(Flow') : i \in 1 .. Len(Flow) \/ i = Len(Flow) + 1
      BY <3>1
    <3> QED
      BY <3>1, <3>2, <1>1, <1>2 DEF OrderInv, EventInv
  <2>6. EventInv'
    BY <1>1, <1>3, <1>4, <2>5 DEF OrderInv, EventInv
  <2>7. Signalled'
    <3>1. ASSUME NEW n \in 1 .. created
          PROVE  n \in Ids(Flow) \cup {e.at}
                 \/ \E u \in Threads : pc'[u] = "send" /\ n = event[u].at
      <4>1. CASE n \in Ids(Flow)
        BY <4>1
      <4>2. ASSUME NEW u \in Threads, pc[u] = "send", n = event[u].at
            PROVE  n \in Ids(Flow) \cup {e.at}
                   \/ \E v \in Threads : pc'[v] = "send" /\ n = event[v].at
        BY <4>2, <1>3
      <4> QED
        BY <4>1, <4>2, <1>7 DEF OrderInv, Signalled
    <3> QED
      BY <3>1, <2>4, <1>1 DEF Signalled
  <2>8. \A u \in Threads : pc'[u] = "audit" => event[u].at \in Ids(Flow)'
    BY <2>4, <1>3, <1>7 DEF OrderInv
  <2>9. Ids(recorded)' \subseteq Ids(Flow)'
    BY <2>4, <1>5, <1>7 DEF OrderInv
  <2> QED
    BY <1>1, <1>5, <2>4, <2>6, <2>7, <2>8, <2>9 DEF OrderInv
<1> QED
  BY <1>6, <1>7

\* It joins the record.
LEMMA OrderAudit ==
    ASSUME OrderInv, NEW t \in Threads, Audit(t)
    PROVE  OrderInv'
<1> DEFINE e == event[t]
<1>1. /\ pc[t] = "audit"
      /\ recorded' = Append(recorded, e)
      /\ pc' = [pc EXCEPT ![t] = "idle"]
      /\ event' = [event EXCEPT ![t] = None]
      /\ created' = created /\ bus' = bus /\ alive' = alive
      /\ received' = received /\ Flow' = Flow
  BY DEF Audit, Flow
<1>2. e \in Events /\ e.at <= created /\ e.at \in Nat /\ created \in Nat
      /\ (alive => e.at \in Ids(Flow))
  BY <1>1, MaxTriggersAssumption DEF OrderInv, EventInv, Events
<1>3. /\ pc'[t] = "idle" /\ pc' \in [Threads -> {"idle", "send", "audit"}]
      /\ \A u \in Threads \ {t} : pc'[u] = pc[u] /\ event'[u] = event[u]
  BY <1>1 DEF OrderInv, EventInv
<1>4. recorded \in Seq(Events) /\ Bounded(recorded)
  BY DEF OrderInv, EventInv
<1>5. Reached(recorded, t, e)
  BY <1>2 DEF OrderInv, Accounted, Reached
<1>6. /\ Append(recorded, e) \in Seq(Events) /\ Bounded(Append(recorded, e))
      /\ Ids(Append(recorded, e)) = Ids(recorded) \cup {e.at}
  BY <1>2, <1>4, <1>5, AppendBounded
<1>7. /\ Bounded(recorded)' /\ Ids(recorded)' = Ids(recorded) \cup {e.at}
      /\ Bounded(Flow)' /\ Ids(Flow)' = Ids(Flow)
  <2>1. Bounded(Flow)' /\ Ids(Flow)' = Ids(Flow)
    BY <1>1, SameBounds DEF OrderInv
  <2>2. Ids(recorded)' = Ids(recorded) \cup {e.at}
    BY <1>1, <1>6 DEF Ids
  <2>3. Bounded(recorded)'
    BY <1>1, <1>6, SameBounds
  <2> QED
    BY <2>1, <2>2, <2>3
<1>8. \A i \in 1 .. Len(recorded') : recorded'[i].at <= created'
  <2>1. Len(recorded') = Len(recorded) + 1 /\ Len(recorded) \in Nat
        /\ (\A i \in 1 .. Len(recorded) : recorded'[i] = recorded[i])
        /\ recorded'[Len(recorded) + 1] = e
    BY <1>1, <1>4, <1>2
  <2>2. \A i \in 1 .. Len(recorded') :
           i \in 1 .. Len(recorded) \/ i = Len(recorded) + 1
    BY <2>1
  <2> QED
    BY <2>1, <2>2, <1>1, <1>2 DEF OrderInv, EventInv
<1>9. \E E : event' \in [Threads -> E]
  <2>1. PICK E : event \in [Threads -> E]
    BY DEF OrderInv, EventInv
  <2>2. event' \in [Threads -> E \cup {None}]
    BY <2>1, <1>1
  <2> QED
    BY <2>2
<1>10. EventInv'
  <2>1. \A u \in Threads : pc'[u] # "idle" =>
           u # t /\ pc[u] # "idle" /\ event'[u] = event[u]
    BY <1>3
  <2>2. ASSUME NEW u \in Threads, pc'[u] # "idle"
        PROVE  event'[u] \in Events /\ event'[u].at <= created'
    BY <2>1, <2>2, <1>1 DEF OrderInv, EventInv
  <2>3. ASSUME NEW u \in Threads, NEW v \in Threads, u # v,
               pc'[u] # "idle", pc'[v] # "idle"
        PROVE  event'[u].at # event'[v].at
    BY <2>1, <2>3 DEF OrderInv, EventInv
  <2> QED
    BY <1>1, <1>3, <1>6, <1>8, <1>9, <2>2, <2>3 DEF OrderInv, EventInv
<1>11. ASSUME NEW n \in 1 .. created
       PROVE  /\ n \in Ids(recorded) \cup {e.at}
                 \/ \E u \in Threads : pc'[u] # "idle" /\ n = event'[u].at
              /\ alive => n \in Ids(Flow)
                 \/ \E u \in Threads : pc'[u] = "send" /\ n = event'[u].at
  <2>1. ASSUME NEW u \in Threads, pc[u] # "idle", n = event[u].at, u # t
        PROVE  pc'[u] = pc[u] /\ n = event'[u].at
    BY <2>1, <1>3
  <2>2. alive => n \in Ids(Flow)
                 \/ \E u \in Threads : pc'[u] = "send" /\ n = event'[u].at
    BY <2>1, <1>1 DEF OrderInv, Signalled
  <2> QED
    BY <2>1, <2>2, <1>1 DEF OrderInv, Accounted
<1>12. Accounted' /\ (alive' => Signalled')
  BY <1>1, <1>7, <1>11 DEF Accounted, Signalled
<1>13. \A u \in Threads : pc'[u] = "audit" /\ alive' => event'[u].at \in Ids(Flow)'
  BY <1>1, <1>3, <1>7 DEF OrderInv
<1>14. alive' => Ids(recorded)' \subseteq Ids(Flow)'
  BY <1>1, <1>2, <1>7 DEF OrderInv
<1> QED
  BY <1>7, <1>10, <1>12, <1>13, <1>14 DEF OrderInv

\* The receiver takes the first event, or goes with the ones it has not taken.
LEMMA OrderReceiver ==
    ASSUME OrderInv, Receive \/ DropReceiver
    PROVE  OrderInv'
<1>1. bus \in Seq(Events) /\ received \in Seq(Events)
  BY DEF OrderInv, EventInv
<1>2. CASE Receive
  <2>1. bus # <<>> /\ received' = Append(received, Head(bus))
        /\ bus' = Tail(bus)
        /\ UNCHANGED <<threadVars, recorded, alive>>
    BY <1>2 DEF Receive
  <2>2. Flow' = Flow /\ bus' \in Seq(Events) /\ received' \in Seq(Events)
    BY <2>1, <1>1 DEF Flow
  <2> QED
    BY <2>1, <2>2, OrderFrame
<1>3. CASE DropReceiver
  <2>1. /\ alive' = FALSE /\ bus' = <<>> /\ received' = received
        /\ recorded' = recorded /\ pc' = pc /\ event' = event
        /\ created' = created
    BY <1>3 DEF DropReceiver, threadVars
  <2>2. Flow' = received /\ bus' \in Seq(Events)
    BY <2>1, <1>1 DEF Flow
  <2>3. \A i \in 1 .. Len(Flow') : i \in 1 .. Len(Flow) /\ Flow'[i] = Flow[i]
    BY <2>2, <1>1 DEF Flow
  <2>4. Bounded(Flow)'
    <3>1. Flow \in Seq(Events) /\ Flow' \in Seq(Events)
      BY <2>2, <1>1 DEF Flow
    <3>2. ASSUME NEW i \in 1 .. Len(Flow')
          PROVE  SubSeq(Flow', 1, i) = SubSeq(Flow, 1, i)
      BY <2>3, <3>1
    <3>3. ASSUME NEW i \in 1 .. Len(Flow')
          PROVE  OvertakenBy(Flow, i) = {n \in 1 .. Flow'[i].at :
                    n \notin Ids(SubSeq(Flow', 1, i))}
      BY <2>3, <3>2 DEF OvertakenBy
    <3> QED
      BY <2>3, <3>3 DEF OrderInv, Bounded, OvertakenBy, Ids
  <2>5. EventInv'
    BY <2>1, <2>2, <2>3 DEF OrderInv, EventInv
  <2>6. Accounted' /\ Bounded(recorded)'
    BY <2>1 DEF OrderInv, Accounted, Bounded, OvertakenBy, Ids
  <2> QED
    BY <2>1, <2>4, <2>5, <2>6 DEF OrderInv
<1> QED
  BY <1>2, <1>3

\* The invariant holds in every behaviour.
LEMMA OrderAlways == Spec => []OrderInv
<1>1. OrderInv /\ [Next]_vars => OrderInv'
  <2> SUFFICES ASSUME OrderInv, [Next]_vars PROVE OrderInv'
    OBVIOUS
  <2>1. ASSUME UNCHANGED vars PROVE OrderInv'
    <3>1. /\ UNCHANGED <<threadVars, recorded, alive>> /\ Flow' = Flow
          /\ bus' \in Seq(Events) /\ received' \in Seq(Events)
      BY <2>1 DEF vars, Flow, OrderInv, EventInv
    <3> QED
      BY <3>1, OrderFrame
  <2>2. ASSUME NEW t \in Threads, NEW pfp \in Pfps,
               NEW seq \in Seqs \cup {None}, NEW src \in Sources,
               Trigger(t, pfp, seq, src)
        PROVE  OrderInv'
    BY <2>2, OrderTrigger
  <2>3. ASSUME NEW t, NEW pfp, Ignore(t, pfp) PROVE OrderInv'
    BY <2>1, <2>3 DEF Ignore
  <2>4. ASSUME NEW t \in Threads, Progress(t) PROVE OrderInv'
    BY <2>4, OrderSend, OrderAudit DEF Progress
  <2> QED
    BY <2>1, <2>2, <2>3, <2>4, OrderReceiver DEF Next
<1> QED
  BY <1>1, OrderStart, PTL DEF Spec

\* Rule 1 for any number of threads and sources: what is recorded was
\* signalled first if there was a receiver, and on the bus and in the log an
\* override gets ahead of at most one older override of each other thread.
THEOREM SignalsPrecedeRecords == Spec => []SignalledInOrder
<1>1. OrderInv => SignalledInOrder
  BY DEF OrderInv, SignalledInOrder, Bounded, Flow
<1> QED
  BY <1>1, OrderAlways, PTL

\* The types of the manager's state.
THEOREM ManagerTypeCorrect == Spec => []TypeOK
<1> DEFINE Counted == next_sequence = total_triggers
<1>1. Init => Counted
  BY DEF Init, LogInit
<1>2. Counted /\ [Next]_vars => Counted'
  <2> SUFFICES ASSUME Counted, [Next]_vars PROVE Counted'
    OBVIOUS
  <2>1. ASSUME NEW t \in Threads, Audit(t) PROVE Counted'
    BY <2>1 DEF Audit, AppendEvent
  <2>2. ASSUME NEW t \in Threads, Send(t) PROVE Counted'
    BY <2>2 DEF Send, logVars
  <2>3. ASSUME NEW t \in Threads, NEW pfp, NEW seq, NEW src,
               Ignore(t, pfp) \/ Trigger(t, pfp, seq, src)
        PROVE  Counted'
    BY <2>3 DEF Ignore, Trigger, vars, logVars
  <2>4. ASSUME Receive \/ DropReceiver \/ UNCHANGED vars PROVE Counted'
    BY <2>4 DEF Receive, DropReceiver, vars, logVars
  <2> QED
    BY <2>1, <2>2, <2>3, <2>4 DEF Next, Progress
<1>3. OrderInv /\ NothingLost /\ Counted => TypeOK
  <2> SUFFICES ASSUME OrderInv, NothingLost, Counted PROVE TypeOK
    OBVIOUS
  <2>1. Len(recorded) \in Nat /\ created \in 0 .. MaxTriggers
        /\ recorded \in Seq(Events)
    BY DEF OrderInv, EventInv
  <2>2. Cardinality({t \in Threads : pc[t] # "idle"}) \in Nat
    <3>1. IsFiniteSet(Threads)
      BY ThreadsAssumption
    <3>2. IsFiniteSet({t \in Threads : pc[t] # "idle"})
      BY <3>1, FS_Subset
    <3> QED
      BY <3>2, FS_CardinalityType
  <2>3. Len(recorded) \in 0 .. MaxTriggers
    BY <2>1, <2>2, MaxTriggersAssumption DEF NothingLost
  <2>4. next_sequence \in 0 .. MaxTriggers /\ total_triggers \in 0 .. MaxTriggers
    BY <2>3 DEF NothingLost
  <2>5. Len(entries) <= MaxEntries /\ Len(entries) <= Len(recorded)
        /\ Len(entries) \in Nat
    BY <2>1, MaxEntriesAssumption DEF NothingLost
  <2>6. ASSUME NEW i \in 1 .. Len(entries) PROVE entries[i].event \in Events
    <3>1. entries[i].event = recorded[Len(recorded) - Len(entries) + i]
      BY DEF NothingLost
    <3>2. Len(recorded) - Len(entries) + i \in 1 .. Len(recorded)
      BY <2>1, <2>5
    <3> QED
      BY <3>1, <3>2, <2>1
  <2> QED
    BY <2>4, <2>5, <2>6 DEF TypeOK, OrderInv, EventInv
<1> QED
  BY <1>1, <1>2, <1>3, OrderAlways, OverridesRecorded, PTL DEF Spec
----------------------------------------------------------------------------
(* The manager implements OverrideLedger *)

\* What the threads other than t have in hand at a place.
Others(t, place) ==
    {event[u] : u \in {v \in Threads : v # t /\ pc[v] = place}}

\* A thread that goes on takes its event out of what is in hand at the place
\* it leaves, and into what is in hand at the place it goes to.
LEMMA HandMoves ==
    ASSUME OrderInv, NEW t \in Threads, NEW to,
           pc' = [pc EXCEPT ![t] = to],
           \A u \in Threads \ {t} : event'[u] = event[u],
           NEW place \in {"send", "audit"}
    PROVE  /\ InHand(place) = Others(t, place) \cup
                  (IF pc[t] = place THEN {event[t]} ELSE {})
           /\ InHand(place)' = Others(t, place) \cup
                  (IF to = place THEN {event'[t]} ELSE {})
           /\ pc[t] # "idle" => event[t] \notin Others(t, place)
<1>1. pc'[t] = to /\ \A u \in Threads \ {t} : pc'[u] = pc[u]
  BY DEF OrderInv, EventInv
<1>2. InHand(place) = Others(t, place) \cup
          (IF pc[t] = place THEN {event[t]} ELSE {})
  BY DEF InHand, Others
<1>3. InHand(place)' = Others(t, place) \cup
          (IF to = place THEN {event'[t]} ELSE {})
  BY <1>1 DEF InHand, Others
<1>4. ASSUME pc[t] # "idle", event[t] \in Others(t, place)
      PROVE  FALSE
  <2>1. PICK u \in Threads : u # t /\ pc[u] = place /\ event[u] = event[t]
    BY <1>4 DEF Others
  <2>2. event[u].at # event[t].at
    BY <1>4, <2>1 DEF OrderInv, EventInv
  <2> QED
    BY <2>1, <2>2
<1> QED
  BY <1>2, <1>3, <1>4

LEMMA TriggerHappens ==
    ASSUME OrderInv, NEW t \in Threads, NEW pfp \in Pfps,
           NEW seq \in Seqs \cup {None}, NEW src \in Sources,
           Trigger(t, pfp, seq, src)
    PROVE  \E e \in Events : Ledger!Happen(e)
<1> DEFINE e == NewEvent(created + 1, pfp, seq, src)
<1>1. /\ pc[t] = "idle" /\ created < MaxTriggers
      /\ event' = [event EXCEPT ![t] = e]
      /\ pc' = [pc EXCEPT ![t] = "send"]
      /\ bus' = bus /\ received' = received /\ recorded' = recorded
      /\ alive' = alive
  BY DEF Trigger
<1>2. created \in Nat
  BY DEF OrderInv, EventInv
<1>3. e \in Events /\ e.at = created + 1
  BY <1>1, <1>2, MaxTriggersAssumption DEF NewEvent, Events
<1> HIDE DEF e
<1>4. event'[t] = e /\ \A u \in Threads \ {t} : event'[u] = event[u]
  BY <1>1 DEF OrderInv, EventInv
<1>5. /\ InHand("send")' = InHand("send") \cup {e}
      /\ InHand("audit")' = InHand("audit")
  <2>1. /\ InHand("send") = Others(t, "send") \cup
              (IF pc[t] = "send" THEN {event[t]} ELSE {})
        /\ InHand("send")' = Others(t, "send") \cup
              (IF "send" = "send" THEN {event'[t]} ELSE {})
        /\ pc[t] # "idle" => event[t] \notin Others(t, "send")
    BY <1>1, <1>4, HandMoves
  <2>2. /\ InHand("audit") = Others(t, "audit") \cup
              (IF pc[t] = "audit" THEN {event[t]} ELSE {})
        /\ InHand("audit")' = Others(t, "audit") \cup
              (IF "send" = "audit" THEN {event'[t]} ELSE {})
        /\ pc[t] # "idle" => event[t] \notin Others(t, "audit")
    BY <1>1, <1>4, HandMoves
  <2> QED
    BY <1>1, <1>4, <2>1, <2>2
<1>6. ASSUME NEW f \in InHand("send") \cup InHand("audit")
      PROVE  f.at < e.at
  <2>1. PICK u \in Threads : pc[u] # "idle" /\ f = event[u]
    BY <1>6 DEF InHand
  <2>2. f \in Events /\ f.at <= created
    BY <2>1 DEF OrderInv, EventInv
  <2>3. f.at \in Nat
    BY <2>2, MaxTriggersAssumption DEF Events
  <2> QED
    BY <1>2, <1>3, <2>2, <2>3
<1>7. \A s \in Seq(Events) : \A i \in 1 .. Len(s) : s[i].at \in Nat
  BY EventTimes
<1>8. /\ \A i \in 1 .. Len(recorded) : recorded[i].at < e.at
      /\ \A i \in 1 .. Len(Flow) : Flow[i].at < e.at
  <2>1. Flow \in Seq(Events) /\ recorded \in Seq(Events)
    BY DEF OrderInv, EventInv, Flow
  <2> QED
    BY <1>2, <1>3, <1>7, <2>1 DEF OrderInv, EventInv
<1>9. Ledger!Happen(e)
  BY <1>1, <1>5, <1>6, <1>8 DEF Ledger!Happen, Flow
<1> QED
  BY <1>3, <1>9

LEMMA SendTells ==
    ASSUME OrderInv, NEW t \in Threads, Send(t)
    PROVE  \E e \in Events : Ledger!Tell(e)
<1> DEFINE e == event[t]
<1>1. /\ pc[t] = "send"
      /\ bus' = IF alive THEN Append(bus, e) ELSE bus
      /\ pc' = [pc EXCEPT ![t] = "audit"]
      /\ event' = event /\ received' = received
      /\ recorded' = recorded /\ alive' = alive
  BY DEF Send, BusSend
<1>2. e \in Events
  BY <1>1 DEF OrderInv, EventInv
<1>3. /\ e \in InHand("send")
      /\ InHand("send")' = InHand("send") \ {e}
      /\ InHand("audit")' = InHand("audit") \cup {e}
  <2>1. /\ InHand("send") = Others(t, "send") \cup
              (IF pc[t] = "send" THEN {event[t]} ELSE {})
        /\ InHand("send")' = Others(t, "send") \cup
              (IF "audit" = "send" THEN {event'[t]} ELSE {})
        /\ pc[t] # "idle" => event[t] \notin Others(t, "send")
    BY <1>1, HandMoves
  <2>2. /\ InHand("audit") = Others(t, "audit") \cup
              (IF pc[t] = "audit" THEN {event[t]} ELSE {})
        /\ InHand("audit")' = Others(t, "audit") \cup
              (IF "audit" = "audit" THEN {event'[t]} ELSE {})
        /\ pc[t] # "idle" => event[t] \notin Others(t, "audit")
    BY <1>1, HandMoves
  <2> QED
    BY <1>1, <2>1, <2>2
<1> HIDE DEF e
<1>4. Flow' = IF alive THEN Append(Flow, e) ELSE Flow
  <2>1. received \in Seq(Events) /\ bus \in Seq(Events)
    BY DEF OrderInv, EventInv
  <2>2. received \o Append(bus, e) = Append(received \o bus, e)
    BY <1>2, <2>1
  <2>3. Flow' = received' \o bus'
    BY DEF Flow
  <2> QED
    BY <1>1, <2>2, <2>3 DEF Flow
<1>5. Ledger!Tell(e)
  BY <1>1, <1>3, <1>4 DEF Ledger!Tell, Flow
<1> QED
  BY <1>2, <1>5

LEMMA AuditEnters ==
    ASSUME OrderInv, NEW t \in Threads, Audit(t)
    PROVE  \E e \in Events : Ledger!Enter(e)
<1> DEFINE e == event[t]
<1>1. /\ pc[t] = "audit"
      /\ recorded' = Append(recorded, e)
      /\ pc' = [pc EXCEPT ![t] = "idle"]
      /\ event' = [event EXCEPT ![t] = None]
      /\ bus' = bus /\ alive' = alive /\ received' = received
  BY DEF Audit
<1>2. e \in Events
  BY <1>1 DEF OrderInv, EventInv
<1>3. \A u \in Threads \ {t} : event'[u] = event[u]
  BY <1>1 DEF OrderInv, EventInv
<1>4. /\ e \in InHand("audit")
      /\ InHand("audit")' = InHand("audit") \ {e}
      /\ InHand("send")' = InHand("send")
  <2>1. /\ InHand("send") = Others(t, "send") \cup
              (IF pc[t] = "send" THEN {event[t]} ELSE {})
        /\ InHand("send")' = Others(t, "send") \cup
              (IF "idle" = "send" THEN {event'[t]} ELSE {})
        /\ pc[t] # "idle" => event[t] \notin Others(t, "send")
    BY <1>1, <1>3, HandMoves
  <2>2. /\ InHand("audit") = Others(t, "audit") \cup
              (IF pc[t] = "audit" THEN {event[t]} ELSE {})
        /\ InHand("audit")' = Others(t, "audit") \cup
              (IF "idle" = "audit" THEN {event'[t]} ELSE {})
        /\ pc[t] # "idle" => event[t] \notin Others(t, "audit")
    BY <1>1, <1>3, HandMoves
  <2> QED
    BY <1>1, <1>3, <2>1, <2>2
<1> HIDE DEF e
<1>5. Ledger!Enter(e)
  BY <1>1, <1>4 DEF Ledger!Enter
<1> QED
  BY <1>2, <1>5

LEMMA ReceiverTakesOrLeaves ==
    ASSUME OrderInv
    PROVE  /\ Receive => Ledger!Take
           /\ DropReceiver => Ledger!Leave
<1>1. bus \in Seq(Events) /\ received \in Seq(Events)
  BY DEF OrderInv, EventInv
<1>2. ASSUME UNCHANGED threadVars
      PROVE  InHand("send")' = InHand("send")
             /\ InHand("audit")' = InHand("audit")
  BY <1>2 DEF threadVars, InHand
<1>3. ASSUME Receive PROVE Ledger!Take
  <2>1. /\ alive /\ bus # <<>> /\ received' = Append(received, Head(bus))
        /\ bus' = Tail(bus) /\ alive' = alive /\ recorded' = recorded
        /\ UNCHANGED threadVars
    BY <1>3 DEF Receive
  <2>2. /\ received' \o bus' = received \o bus
        /\ Len(received') = Len(received) + 1
        /\ Len(received) < Len(received \o bus)
    BY <1>1, <2>1
  <2> QED
    BY <1>2, <2>1, <2>2 DEF Ledger!Take
<1>4. ASSUME DropReceiver PROVE Ledger!Leave
  <2>1. /\ alive /\ alive' = FALSE /\ bus' = <<>> /\ received' = received
        /\ recorded' = recorded /\ UNCHANGED threadVars
    BY <1>4 DEF DropReceiver
  <2>2. /\ received' \o bus' = SubSeq(received \o bus, 1, Len(received))
        /\ Len(received') = Len(received)
    BY <1>1, <2>1
  <2> QED
    BY <1>2, <2>1, <2>2 DEF Ledger!Leave
<1> QED
  BY <1>3, <1>4

\* For any number of threads and any interleaving, the steps of handle_frame,
\* of the receiver and of its end are steps of OverrideLedger: every hard
\* override is signalled and then recorded, each once, and what the receiver
\* takes is what was sent, in that order.
THEOREM ManagerImplementsLedger == Spec => ImplementsLedger
<1>1. Init => Ledger!LedgerInit
  <2> SUFFICES ASSUME Init PROVE Ledger!LedgerInit
    OBVIOUS
  <2>1. /\ pc = [t \in Threads |-> "idle"]
        /\ bus = <<>> /\ received = <<>> /\ recorded = <<>>
        /\ alive \in BOOLEAN
    BY DEF Init
  <2>2. InHand("send") = {} /\ InHand("audit") = {}
    BY <2>1 DEF InHand
  <2>3. received \o bus = <<>> /\ Len(received) = 0
    BY <2>1
  <2> QED
    BY <2>1, <2>2, <2>3 DEF Ledger!LedgerInit
<1>2. OrderInv /\ [Next]_vars => [Ledger!LedgerNext]_(Ledger!ledgerVars)
  <2> SUFFICES ASSUME OrderInv, [Next]_vars
               PROVE  Ledger!LedgerNext \/ UNCHANGED Ledger!ledgerVars
    OBVIOUS
  <2>1. ASSUME UNCHANGED vars PROVE UNCHANGED Ledger!ledgerVars
    BY <2>1 DEF vars, threadVars, InHand, Ledger!ledgerVars
  <2>2. ASSUME NEW t \in Threads, NEW pfp \in Pfps,
               NEW seq \in Seqs \cup {None},
               \/ Ignore(t, pfp)
               \/ \E src \in Sources : Trigger(t, pfp, seq, src)
        PROVE  Ledger!LedgerNext \/ UNCHANGED Ledger!ledgerVars
    BY <2>1, <2>2, TriggerHappens DEF Ignore, Ledger!LedgerNext
  <2>3. ASSUME NEW t \in Threads, Progress(t) PROVE Ledger!LedgerNext
    BY <2>3, SendTells, AuditEnters DEF Progress, Ledger!LedgerNext
  <2>4. Receive \/ DropReceiver => Ledger!LedgerNext
    BY ReceiverTakesOrLeaves DEF Ledger!LedgerNext
  <2> QED
    BY <2>1, <2>2, <2>3, <2>4 DEF Next
<1> QED
  BY <1>1, <1>2, OrderAlways, PTL DEF Spec, ImplementsLedger, Ledger!LedgerSpec
=============================================================================
