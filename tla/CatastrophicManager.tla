------------------------ MODULE CatastrophicManager ------------------------
(***************************************************************************)
(* CatastrophicManager of src/src/catastrophic.rs: clones of one manager   *)
(* in several threads share the event bus (std::sync::mpsc, unbounded and  *)
(* FIFO) and the audit log (a mutex that is held for one append).          *)
(* handle_frame is not atomic: the event is created, then sent on the bus, *)
(* then recorded, and other threads and the receiver run in between.  The  *)
(* source is an argument of the caller's: any thread may pass any of them, *)
(* and several may pass the same one.                                      *)
(***************************************************************************)
EXTENDS AuditLog, FiniteSets

CONSTANT Threads
ASSUME ThreadsAssumption == IsFiniteSet(Threads)

VARIABLES
    pc,         \* where a thread is in handle_frame
    event,      \* the event it is handling
    created,    \* events created so far
    bus,        \* sent and not yet received
    alive,      \* the receiver has not been dropped
    received,   \* history: what the receiver took from the bus
    recorded    \* history: what was appended to the log

threadVars == <<pc, event, created>>
vars == <<logVars, threadVars, bus, alive, received, recorded>>

Ids(s) == {s[i].at : i \in 1 .. Len(s)}

TypeOK ==
    /\ Len(entries) <= MaxEntries
    /\ \A i \in 1 .. Len(entries) : entries[i].event \in Events
    /\ next_sequence \in 0 .. MaxTriggers /\ total_triggers \in 0 .. MaxTriggers
    /\ pc \in [Threads -> {"idle", "send", "audit"}]
    /\ \A t \in Threads : pc[t] # "idle" => event[t] \in Events
    /\ created \in 0 .. MaxTriggers
    /\ bus \in Seq(Events) /\ received \in Seq(Events)
    /\ recorded \in Seq(Events)
    /\ alive \in BOOLEAN

Init ==
    /\ LogInit
    /\ pc = [t \in Threads |-> "idle"]
    /\ event = [t \in Threads |-> None]
    /\ created = 0
    /\ bus = <<>> /\ received = <<>> /\ recorded = <<>>
    /\ alive \in BOOLEAN      \* the caller keeps the receiver, or drops it

\* is_catastrophic_override: Risk-Level and Override-Flag, nothing else.
IsCatastrophicOverride(pfp) == pfp.risk = "Catastrophic" /\ pfp.override

\* CatastrophicEvent::new
NewEvent(at, pfp, seq, src) ==
    [at |-> at, pfp |-> pfp, seq |-> seq, src |-> src]

\* CatastrophicEventBus::send: without a receiver the event is gone, and the
\* caller is told so; with one the bus is never full.
BusSend(e) == bus' = IF alive THEN Append(bus, e) ELSE bus

\* handle_frame answers false: no event, no record.
Ignore(t, pfp) ==
    /\ pc[t] = "idle"
    /\ ~IsCatastrophicOverride(pfp)
    /\ UNCHANGED vars

\* handle_frame creates the event.
Mutant_Trigger_Unsignalled(t, pfp, seq, src) ==
    /\ pc[t] = "idle"
    /\ created < MaxTriggers
    /\ IsCatastrophicOverride(pfp)
    /\ event' = [event EXCEPT ![t] = NewEvent(created + 1, pfp, seq, src)]
    /\ created' = created + 1
    /\ pc' = [pc EXCEPT ![t] = "audit"]
    /\ UNCHANGED <<logVars, bus, alive, received, recorded>>

Trigger(t, pfp, seq, src) ==
    /\ pc[t] = "idle"
    /\ created < MaxTriggers
    /\ IsCatastrophicOverride(pfp)
    /\ event' = [event EXCEPT ![t] = NewEvent(created + 1, pfp, seq, src)]
    /\ created' = created + 1
    /\ pc' = [pc EXCEPT ![t] = "send"]
    /\ UNCHANGED <<logVars, bus, alive, received, recorded>>

\* ... sends it, and goes on when there is nobody to receive it ...
Mutant_Send_StopsOnErr(t) ==
    /\ pc[t] = "send"
    /\ bus' = IF alive THEN Append(bus, event[t]) ELSE bus
    /\ pc' = [pc EXCEPT ![t] = IF alive THEN "audit" ELSE "idle"]
    /\ UNCHANGED <<logVars, event, created, alive, received, recorded>>

Mutant_Send_Bounded(t) ==
    /\ pc[t] = "send"
    /\ bus' = IF alive /\ bus = <<>> THEN Append(bus, event[t]) ELSE bus
    /\ pc' = [pc EXCEPT ![t] = "audit"]
    /\ UNCHANGED <<logVars, event, created, alive, received, recorded>>

Mutant_Send_Front(t) ==
    /\ pc[t] = "send"
    /\ bus' = IF alive THEN <<event[t]>> \o bus ELSE bus
    /\ pc' = [pc EXCEPT ![t] = "audit"]
    /\ UNCHANGED <<logVars, event, created, alive, received, recorded>>

Send(t) ==
    /\ pc[t] = "send"
    /\ BusSend(event[t])
    /\ pc' = [pc EXCEPT ![t] = "audit"]
    /\ UNCHANGED <<logVars, event, created, alive, received, recorded>>

\* ... and records it under the lock.
Audit(t) ==
    /\ pc[t] = "audit"
    /\ AppendEvent(event[t])
    /\ recorded' = Append(recorded, event[t])
    /\ pc' = [pc EXCEPT ![t] = "idle"]
    /\ event' = [event EXCEPT ![t] = None]
    /\ UNCHANGED <<created, bus, alive, received>>

\* CatastrophicEventReceiver::recv
Receive ==
    /\ alive /\ bus # <<>>
    /\ received' = Append(received, Head(bus))
    /\ bus' = Tail(bus)
    /\ UNCHANGED <<logVars, threadVars, alive, recorded>>

\* The receiver is dropped, and with it what it has not received.
DropReceiver ==
    /\ alive
    /\ alive' = FALSE
    /\ bus' = <<>>
    /\ UNCHANGED <<logVars, threadVars, received, recorded>>

Progress(t) == Send(t) \/ Audit(t)

Next ==
    \/ \E t \in Threads, pfp \in Pfps, seq \in Seqs \cup {None} :
          Ignore(t, pfp) \/ \E src \in Sources : Trigger(t, pfp, seq, src)
    \/ \E t \in Threads : Progress(t)
    \/ Receive \/ DropReceiver

Spec == Init /\ [][Next]_vars

\* A thread finishes the call it is in (the mutex is free whenever no append
\* runs, and an append ends), and the receiver keeps receiving.
FairSpec ==
    /\ Spec
    /\ \A t \in Threads : WF_vars(Progress(t))
    /\ WF_vars(Receive)

----------------------------------------------------------------------------
(* Properties *)

\* Rule 2: every triggered override is recorded once, or is still in the
\* thread that handles it, receiver or not ("without a receiver the audit log
\* is not affected", catastrophic.rs 357); the log keeps the newest of them
\* and counts them all.
NothingLost ==
    /\ Len(recorded) + Cardinality({t \in Threads : pc[t] # "idle"}) = created
    /\ total_triggers = Len(recorded)
    /\ Len(entries) = IF Len(recorded) <= MaxEntries THEN Len(recorded)
                                                     ELSE MaxEntries
    /\ \A i \in 1 .. Len(entries) :
          entries[i].event = recorded[Len(recorded) - Len(entries) + i]

\* Overrides that are older than the one at position i of s, and not before it.
OvertakenBy(s, i) == {n \in 1 .. s[i].at : n \notin Ids(SubSeq(s, 1, i))}

\* Rule 1: whatever is in the log was signalled first, as long as there was a
\* receiver for it.  Threads that handle overrides at once may signal and
\* record them in another order than they happened in, of one source too; but
\* an override gets ahead of at most one older override of each other thread,
\* on the bus and in the log (with one thread the order is exact).
SignalledInOrder ==
    /\ alive => Ids(recorded) \subseteq Ids(received \o bus)
    /\ \A s \in {received \o bus, recorded} :
          \A i \in 1 .. Len(s) :
             Cardinality(OvertakenBy(s, i)) < Cardinality(Threads)

\* Every override that is triggered is recorded in the end and, unless the
\* receiver is dropped, received.
EveryOverrideAnswered ==
    \A n \in 1 .. MaxTriggers :
       created >= n ~> /\ n \in Ids(recorded)
                       /\ ~alive \/ n \in Ids(received)

\* What a reader of the log and a receiver see of handle_frame, whatever the
\* threads' order: OverrideLedger.  An override is open until it was sent; the
\* mail is what the receiver took and what is on the bus.
InHand(place) == {event[t] : t \in {u \in Threads : pc[u] = place}}

Ledger == INSTANCE OverrideLedger WITH
    open <- InHand("send"),
    told <- InHand("audit"),
    record <- recorded,
    mail <- received \o bus,
    taken <- Len(received),
    listening <- alive

\* Every step of the manager is a step of the ledger, or none.
ImplementsLedger == Ledger!LedgerSpec
============================================================================
