----------------------------- MODULE MCAuditLog -----------------------------
(* An instance of AuditLog by itself, with clear, and of its reader. *)
EXTENDS AuditReader

\* The log does not look inside the PFP.
MCPfps == {[risk |-> "Catastrophic", override |-> TRUE, replay |-> TRUE]}

\* A log written with new digests, numbered from first on.
Written(es, first) ==
    LET log[i \in 1 .. Len(es)] ==
            NewEntry(first + i - 1, es[i],
                     IF i = 1 THEN ZeroHash ELSE log[i - 1].hash)
    IN  log

\* What a log may be replaced by: up to four events in the order in which
\* they happened, of any source, with and without a SAP.
MCShown ==
    UNION {{Written([i \in 1 .. n |-> [es[i] EXCEPT !.at = i]], first) :
               es \in [1 .. n -> {e \in Events : e.at = 1}], first \in 0 .. 1} :
           n \in 0 .. 4}
=============================================================================
