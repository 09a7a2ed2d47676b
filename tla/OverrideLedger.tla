--------------------------- MODULE OverrideLedger ---------------------------
(***************************************************************************)
(* What rules 1 and 2 of src/src/catastrophic.rs promise of hard overrides *)
(* to whoever reads the log and to whoever listens: each one is signalled  *)
(* and then recorded, once, and a listener takes the signals in the order  *)
(* in which they were sent, none of them twice.  Several may be in hand at *)
(* once, of one source too, and be signalled and recorded in any order.    *)
(***************************************************************************)
EXTENDS Naturals, Sequences

CONSTANT Events     \* records with a time "at"

VARIABLES
    open,       \* overrides that happened and were not signalled yet
    told,       \* overrides that were signalled and are not recorded yet
    record,     \* overrides that were recorded, in that order
    mail,       \* signals that were sent to the listener, in that order
    taken,      \* how many of them the listener has taken
    listening   \* there is a listener

ledgerVars == <<open, told, record, mail, taken, listening>>

LedgerInit ==
    /\ open = {} /\ told = {}
    /\ record = <<>> /\ mail = <<>>
    /\ taken = 0
    /\ listening \in BOOLEAN

\* Time goes on: it is later than all that was signalled or recorded.
Happen(e) ==
    /\ \A f \in open \cup told : f.at < e.at
    /\ \A i \in 1 .. Len(record) : record[i].at < e.at
    /\ \A i \in 1 .. Len(mail) : mail[i].at < e.at
    /\ open' = open \cup {e}
    /\ UNCHANGED <<told, record, mail, taken, listening>>

Tell(e) ==
    /\ e \in open
    /\ open' = open \ {e}
    /\ told' = told \cup {e}
    /\ mail' = IF listening THEN Append(mail, e) ELSE mail
    /\ UNCHANGED <<record, taken, listening>>

Enter(e) ==
    /\ e \in told
    /\ told' = told \ {e}
    /\ record' = Append(record, e)
    /\ UNCHANGED <<open, mail, taken, listening>>

Take ==
    /\ listening
    /\ taken < Len(mail)
    /\ taken' = taken + 1
    /\ UNCHANGED <<open, told, record, mail, listening>>

\* What the listener has not taken goes with it.
Leave ==
    /\ listening
    /\ listening' = FALSE
    /\ mail' = SubSeq(mail, 1, taken)
    /\ UNCHANGED <<open, told, record, taken>>

LedgerNext ==
    \/ \E e \in Events : Happen(e) \/ Tell(e) \/ Enter(e)
    \/ Take \/ Leave

LedgerSpec == LedgerInit /\ [][LedgerNext]_ledgerVars
=============================================================================
