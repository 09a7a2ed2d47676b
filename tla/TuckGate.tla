------------------------------ MODULE TuckGate ------------------------------
(***************************************************************************)
(* TuckGate of src/examples/tuck_integration.rs, shared by threads: decide *)
(* asks the catastrophic manager first and the frame processor second, and *)
(* the steps of one call interleave with those of others and with          *)
(* cleanup_expired and remove_source.                                      *)
(*                                                                         *)
(* TuckGate::new drops the event receiver that CatastrophicManager::new    *)
(* returns, so that the gate's bus has nobody at its other end; and decide *)
(* gives one constant source to the events of all threads.                 *)
(*                                                                         *)
(* Calls of process_frame for one source are taken not to overlap (Alone): *)
(* nothing in the code sees to it, and ReplayCache (run ReplayKnownRace)   *)
(* shows what happens when they do.                                        *)
(***************************************************************************)
EXTENDS CatastrophicManager

CONSTANTS
    Senders, Cap,   \* of FrameProcessor
    Frames,         \* frames that arrive, any number of times
    DecisionSource  \* "Tuck hard-real-time decision"

ASSUME SendersAssumption == IsFiniteSet(Senders)
ASSUME FramesAssumption ==
    Frames \subseteq [pfp : Pfps \cup {None}, sap : Seqs \cup {None}]
ASSUME DecisionSourceAssumption == DecisionSource \in Sources

VARIABLES
    last, passes,   \* of FrameProcessor
    place,      \* where a thread is in decide
    job,        \* the frame and the source it decides
    mine        \* history: the event that this call has created; 0: none

Processor == INSTANCE FrameProcessor

processorVars == <<last, passes>>
gateVars == <<place, job, mine>>
allVars == <<vars, processorVars, gateVars>>

Jobs == [frame : Frames, from : Senders]
Places == {"idle", "override", "check", "store"}

GateTypeOK ==
    /\ TypeOK
    /\ Processor!ProcessorTypeOK
    /\ place \in [Threads -> Places]
    /\ \A t \in Threads : place[t] # "idle" => job[t] \in Jobs
    /\ \A t \in Threads : pc[t] # "idle" => place[t] = "override"
    /\ mine \in [Threads -> 0 .. MaxTriggers]

GateInit ==
    /\ Init /\ alive = FALSE
    /\ Processor!ProcessorInit
    /\ place = [t \in Threads |-> "idle"]
    /\ job = [t \in Threads |-> None]
    /\ mine = [t \in Threads |-> 0]

Goto(t, to, j) ==
    /\ place' = [place EXCEPT ![t] = to]
    /\ job' = [job EXCEPT ![t] = j]

----------------------------------------------------------------------------
(* decide *)

\* No PFP: NoSap, whatever else the frame has.
DecideNoPfp(t, f, s) ==
    /\ place[t] = "idle"
    /\ f.pfp = None
    /\ UNCHANGED allVars

\* handle_frame finds a hard override, and begins to signal and record it.
DecideOverride(t, f, s) ==
    /\ place[t] = "idle"
    /\ f.pfp # None
    /\ Trigger(t, f.pfp, f.sap, DecisionSource)
    /\ Goto(t, "override", [frame |-> f, from |-> s])
    /\ mine' = [mine EXCEPT ![t] = created + 1]
    /\ UNCHANGED processorVars

\* handle_frame answers false.
DecideCheck(t, f, s) ==
    /\ place[t] = "idle"
    /\ f.pfp # None
    /\ Ignore(t, f.pfp)
    /\ Goto(t, "check", [frame |-> f, from |-> s])
    /\ UNCHANGED <<processorVars, mine>>

Handling(t) ==
    /\ Progress(t)
    /\ UNCHANGED <<processorVars, gateVars>>

\* handle_frame has returned true: CatastrophicOverride, and no replay check.
Mutant_AnswerOverride_Registers(t) ==
    /\ place[t] = "override" /\ pc[t] = "idle"
    /\ Goto(t, "idle", None)
    /\ mine' = [mine EXCEPT ![t] = 0]
    /\ last' = IF job[t].frame.sap = None THEN last
               ELSE [last EXCEPT ![job[t].from] = job[t].frame.sap]
    /\ UNCHANGED <<vars, passes>>

AnswerOverride(t) ==
    /\ place[t] = "override" /\ pc[t] = "idle"
    /\ Goto(t, "idle", None)
    /\ mine' = [mine EXCEPT ![t] = 0]
    /\ UNCHANGED <<vars, processorVars>>

\* No call of process_frame for source s is under way.
Alone(s) == \A u \in Threads : place[u] = "store" => job[u].from # s

\* process_frame rejects the frame, or allows it without a check ...
Check(t) ==
    LET f == job[t].frame
        s == job[t].from
    IN  /\ place[t] = "check"
        /\ Alone(s)
        /\ ~Processor!Passes(f, s)
        /\ Goto(t, "idle", None)
        /\ UNCHANGED <<vars, processorVars, mine>>

\* ... or finds its number to be new ...
Pass(t) ==
    LET f == job[t].frame
        s == job[t].from
    IN  /\ place[t] = "check"
        /\ Alone(s)
        /\ Processor!Passes(f, s)
        /\ Goto(t, "store", job[t])
        /\ UNCHANGED <<vars, processorVars, mine>>

\* ... and stores it: Allow.
Store(t) ==
    /\ place[t] = "store"
    /\ Processor!Update(job[t].from, job[t].frame.sap)
    /\ Goto(t, "idle", None)
    /\ UNCHANGED <<vars, mine>>

----------------------------------------------------------------------------
(* What goes on around the gate *)

\* A thread that found an entry in the cache holds its guard until it has
\* stored; one that is about to register the source holds none.
Held(s) ==
    last[s] # None /\ \E t \in Threads : place[t] = "store" /\ job[t].from = s

\* cleanup_expired, remove_source: they wait for the guards.
ForgetSources(K) ==
    /\ \A s \in K : ~Held(s)
    /\ Processor!Forget(K)
    /\ UNCHANGED <<vars, gateVars>>

GateNext ==
    \/ \E t \in Threads :
        \/ \E f \in Frames, s \in Senders :
              DecideNoPfp(t, f, s) \/ DecideOverride(t, f, s)
              \/ DecideCheck(t, f, s)
        \/ Handling(t) \/ AnswerOverride(t)
        \/ Check(t) \/ Pass(t) \/ Store(t)
    \/ \E K \in SUBSET Senders : ForgetSources(K)

GateSpec == GateInit /\ [][GateNext]_allVars

----------------------------------------------------------------------------
(* Properties *)

\* Rule 2 at the gate: when a thread is about to answer
\* CatastrophicOverride, the event that this very call created is in the
\* record, with that frame's PFP and number, though nobody receives the event
\* (tuck_integration.rs 66: handle_frame "sends the event and appends to the
\* audit log") and every other thread's has the same source.
AnsweredIsRecorded ==
    \A t \in Threads :
       place[t] = "override" /\ pc[t] = "idle" =>
          \E i \in 1 .. Len(recorded) :
             recorded[i] = NewEvent(mine[t], job[t].frame.pfp,
                                    job[t].frame.sap, DecisionSource)

\* The properties of the processor hold in the gate, whatever overrides, other
\* threads and forgotten sources do between the checks of a source and within
\* one (calls for one source do not overlap).
GateCheckedOnce == Processor!CheckedOnce
GateRefusalsExplained == Processor!RefusalsExplained
=============================================================================
