---------------------------- MODULE ReplayGuard ----------------------------
(***************************************************************************)
(* What an anti-replay check promises (rule 4 in the header of             *)
(* src/src/replay_cache.rs): per source, the numbers it lets through       *)
(* strictly increase, until the source is forgotten.  There are no         *)
(* threads, no locks and no clock here: letting a frame through and        *)
(* remembering its number are one step.                                    *)
(***************************************************************************)
EXTENDS Integers

CONSTANTS Keys, Seqs, None

VARIABLES
    last,       \* Last-Seen-Seq of each source; None before the first frame
    accepted,   \* every <<key, seq>> let through
    admits      \* how many frames were let through

Init ==
    /\ last = [k \in Keys |-> None]
    /\ accepted = {}
    /\ admits = 0

Admit(k, s) ==
    /\ last[k] # None => s > last[k]
    /\ last' = [last EXCEPT ![k] = s]
    /\ accepted' = accepted \cup {<<k, s>>}
    /\ admits' = admits + 1

\* Expiry, removal or clearing of the sources K.
Forget(K) ==
    /\ last' = [k \in Keys |-> IF k \in K THEN None ELSE last[k]]
    /\ UNCHANGED <<accepted, admits>>

Next ==
    \/ \E k \in Keys, s \in Seqs : Admit(k, s)
    \/ \E K \in SUBSET Keys : Forget(K)

Spec == Init /\ [][Next]_<<last, accepted, admits>>
============================================================================
