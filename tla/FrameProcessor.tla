--------------------------- MODULE FrameProcessor ---------------------------
(***************************************************************************)
(* FrameProcessor of src/src/processor.rs for one tenant.  The check and   *)
(* the update of the cache are two steps, between which other threads run; *)
(* what else the cache does in between is ReplayCache's, which shows that  *)
(* calls for one source that do not overlap have the effect of the two     *)
(* (ImplementsGuard).  A frame is a record [pfp, sap]: the PFP's risk,     *)
(* override and replay fields, and the SAP's Seq-Counter; None stands for  *)
(* a part the frame does not have.                                         *)
(***************************************************************************)
EXTENDS Integers, FiniteSets

CONSTANTS
    Senders,    \* source ids, a finite set
    Seqs,       \* Seq-Counters, numbers
    Cap,        \* REPLAY_CACHE_MAX_CAPACITY
    None        \* not a number

VARIABLES
    last,       \* Last-Seen-Seq of each source; None: not in the cache
    passes      \* history: how often the check let each number of a source
                \* through since the source was last forgotten

ProcessorTypeOK ==
    /\ last \in [Senders -> Seqs \cup {None}]
    /\ passes \in [Senders -> [Seqs -> Nat]]

ProcessorInit ==
    /\ last = [s \in Senders |-> None]
    /\ passes = [s \in Senders |-> [n \in Seqs |-> 0]]

Known == {s \in Senders : last[s] # None}

\* check_only, and the first step of check_and_update: nothing changes yet.
Mutant_CheckOnly_OrEqual(s, n) ==
    IF s \in Known THEN IF n < last[s] THEN "RejectedReplay" ELSE "Allowed"
    ELSE IF Cardinality(Known) >= Cap THEN "RejectedCacheFull" ELSE "Allowed"

CheckOnly(s, n) ==
    IF s \in Known THEN IF n <= last[s] THEN "RejectedReplay" ELSE "Allowed"
    ELSE IF Cardinality(Known) >= Cap THEN "RejectedCacheFull" ELSE "Allowed"

\* Replay-Enable; a frame without a PFP is checked.
ReplayEnable(f) == f.pfp # None => f.pfp.replay

\* The frames whose answer depends on the cache.
Checked(f) == f.sap # None /\ ReplayEnable(f)

\* check_frame, and what process_frame answers.
CheckFrame(f, s) ==
    IF f.sap = None THEN "NoSap"
    ELSE IF ~ReplayEnable(f) THEN "Allowed" ELSE CheckOnly(s, f.sap)

\* The check lets the number pass, and the cache is to be updated.
Passes(f, s) == Checked(f) /\ CheckFrame(f, s) = "Allowed"

\* The second step: update_seq, or the insert of a source that is new.
Update(s, n) ==
    /\ last' = [last EXCEPT ![s] = n]
    /\ passes' = [passes EXCEPT ![s][n] = @ + 1]

\* cleanup_expired and remove_source: the sources of K are forgotten.
Forget(K) ==
    /\ last' = [s \in Senders |-> IF s \in K THEN None ELSE last[s]]
    /\ passes' = [s \in Senders |-> IF s \in K THEN [n \in Seqs |-> 0]
                                              ELSE passes[s]]

----------------------------------------------------------------------------
(* Properties *)

\* Rule 4 (processor.rs 3): between two times that a source is forgotten, no
\* number is let through twice, whatever else the processor is asked, as long
\* as calls for one source do not overlap.
CheckedOnce == \A s \in Senders, n \in Seqs : passes[s][n] <= 1

\* A frame is refused as a replay only for a frame of its source that the
\* check itself let through: overrides and frames with Replay-Enable = 0 use
\* up no number.
RefusalsExplained ==
    \A s \in Senders, n \in Seqs :
       CheckOnly(s, n) = "RejectedReplay" =>
          \E m \in Seqs : m >= n /\ passes[s][m] > 0
=============================================================================
