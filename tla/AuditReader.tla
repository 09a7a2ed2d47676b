----------------------------- MODULE AuditReader -----------------------------
(***************************************************************************)
(* A reader of the audit log who was told its last hash, and is shown some *)
(* log later: verify_chain alone only sees that a log agrees with itself,  *)
(* "the real detection is to compare the hash of the last entry"           *)
(* (test_audit_log_chain_tamper_detection, catastrophic.rs 495 to 522).    *)
(***************************************************************************)
EXTENDS AuditLog

CONSTANT Shown      \* the logs a reader may be shown

ASSUME ShownAssumption ==
    \A log \in Shown : log \in Seq({log[i] : i \in DOMAIN log})

\* The digest of the newest entry; CatastrophicAuditLog::last
LastHash(log) == IF log = <<>> THEN ZeroHash ELSE log[Len(log)].hash

----------------------------------------------------------------------------
(* Properties *)

\* The last hash stands for all that was appended since the log was last
\* empty, evicted or not: a log that verifies and ends with it has as many
\* entries, and where the log kept its entries it has the same numbers, the
\* same digests, and events with the same digest.
LastHashCommits ==
    \A log \in Shown :
       LastHash(log) = last_hash /\ Chained(log) =>
          /\ Len(log) = next_sequence
          /\ \A i \in 1 .. Len(entries) :
                LET shown == log[next_sequence - Len(entries) + i]
                IN  /\ shown.hash = entries[i].hash
                    /\ shown.sequence = entries[i].sequence
                    /\ HashEvent(shown.event) = HashEvent(entries[i].event)
=============================================================================
