--------------------------- MODULE MCReplayCache ---------------------------
(* Instances of ReplayCache for TLC. *)
EXTENDS ReplayCache, TLC

CONSTANTS k1, k2, k3, k4, sh1, sh2

\* k1 alone in one shard, the others together.
MCShardOf == [k \in Keys |-> IF k = k1 THEN sh1 ELSE sh2]

ThreadSymmetry == Permutations(Threads)

\* The keys that share a shard can also be exchanged.
FullSymmetry == ThreadSymmetry \cup Permutations(Keys \ {k1})
============================================================================
