----------------------------- MODULE MCTuckGate -----------------------------
(* An instance of TuckGate for TLC. *)
EXTENDS TuckGate, TLC

CONSTANTS a, b,     \* threads
          x, y,     \* senders
          decision  \* the source of every event

Symmetry == Permutations({a, b}) \cup Permutations({x, y})

Pfp(risk, override, replay) ==
    [risk |-> risk, override |-> override, replay |-> replay]

\* The scenarios of the example's main, frames of the power-saving mode (no
\* SAP), and a frame that decode accepts although it has a SAP and no PFP.
MCFrames ==
    {[pfp |-> Pfp("Medium", FALSE, TRUE), sap |-> n] : n \in Seqs \cup {None}}
    \cup {[pfp |-> Pfp("Catastrophic", TRUE, TRUE), sap |-> 1],
          [pfp |-> Pfp("Catastrophic", FALSE, FALSE), sap |-> 1],
          [pfp |-> Pfp("Catastrophic", TRUE, FALSE), sap |-> None],
          [pfp |-> None, sap |-> None], [pfp |-> None, sap |-> 1]}

MCPfps == {f.pfp : f \in MCFrames} \ {None}
=============================================================================
