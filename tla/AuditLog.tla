------------------------------ MODULE AuditLog ------------------------------
(***************************************************************************)
(* CatastrophicAuditLog and AuditEntry of src/src/catastrophic.rs: the     *)
(* hash chain that rule 2 asks for, of which the last MaxEntries entries   *)
(* are kept in memory.                                                     *)
(*                                                                         *)
(* SHA-256 is taken to have no collisions: a digest is the term it was     *)
(* computed from.  What the code feeds the digest of an event is modelled  *)
(* as it is written, so that two events with the same input have the same  *)
(* digest here too.                                                        *)
(***************************************************************************)
EXTENDS Naturals, Sequences

CONSTANTS
    MaxEntries,     \* AUDIT_LOG_MAX_ENTRIES (10000 in the code)
    MaxTriggers,    \* bound: events recorded
    Pfps,           \* the PFP contents an event may have
    Seqs,           \* the Seq-Counters of frames that have a SAP
    Sources,        \* event.source
    None            \* no SAP

ASSUME MaxEntriesAssumption == MaxEntries \in Nat \ {0}
ASSUME MaxTriggersAssumption == MaxTriggers \in Nat
ASSUME SeqsAssumption == Seqs \subseteq Nat /\ None \notin Nat

VARIABLES
    entries,            \* the entries kept, oldest first
    next_sequence,
    last_hash,
    total_triggers

logVars == <<entries, next_sequence, last_hash, total_triggers>>

\* CatastrophicEvent: "at" is the instant it was created; the sensor context
\* is left out.
Events == [at: 1 .. MaxTriggers, pfp: Pfps, seq: Seqs \cup {None},
           src: Sources]

\* [0u8; 32]
ZeroHash == <<>>

\* CatastrophicEvent::hash feeds two zero bytes for a missing Seq-Counter.
HashEvent(e) == [e EXCEPT !.seq = IF @ = None THEN 0 ELSE @]

\* SHA-256(sequence + event.hash() + prev_hash)
Mutant_HashEntry_NoPrev(sequence, e, prev) == <<sequence, HashEvent(e)>>
HashEntry(sequence, e, prev) == <<sequence, HashEvent(e), prev>>

\* AuditEntry::new
NewEntry(s, e, prev) ==
    [sequence |-> s, event |-> e, prev_hash |-> prev,
     hash |-> HashEntry(s, e, prev)]

\* AuditEntry::verify_hash
VerifyHash(entry) ==
    entry.hash = HashEntry(entry.sequence, entry.event, entry.prev_hash)

\* The walk of verify_chain over a log, from the hash of all zeros.
Mutant_Chained_HashOnly(log) == \A i \in 1 .. Len(log) : VerifyHash(log[i])
Chained(log) ==
    \A i \in 1 .. Len(log) :
        /\ VerifyHash(log[i])
        /\ log[i].prev_hash = IF i = 1 THEN ZeroHash ELSE log[i - 1].hash

VerifyChain == Chained(entries)

LogInit ==
    /\ entries = <<>>
    /\ next_sequence = 0
    /\ last_hash = ZeroHash
    /\ total_triggers = 0

\* append: push, then remove the oldest entry of a log that is too long.
Mutant_AppendEvent_StaleHash(e) ==
    LET entry == NewEntry(next_sequence, e, last_hash)
        pushed == Append(entries, entry)
    IN  /\ entries' = IF Len(pushed) > MaxEntries THEN Tail(pushed) ELSE pushed
        /\ last_hash' = entries'[1].hash
        /\ next_sequence' = next_sequence + 1
        /\ total_triggers' = total_triggers + 1

Mutant_AppendEvent_LateRotation(e) ==
    LET entry == NewEntry(next_sequence, e, last_hash)
        pushed == Append(entries, entry)
    IN  /\ entries' = IF Len(entries) > MaxEntries THEN Tail(pushed) ELSE pushed
        /\ last_hash' = entry.hash
        /\ next_sequence' = next_sequence + 1
        /\ total_triggers' = total_triggers + 1

AppendEvent(e) ==
    LET entry == NewEntry(next_sequence, e, last_hash)
        pushed == Append(entries, entry)
    IN  /\ entries' = IF Len(pushed) > MaxEntries THEN Tail(pushed) ELSE pushed
        /\ last_hash' = entry.hash
        /\ next_sequence' = next_sequence + 1
        /\ total_triggers' = total_triggers + 1

\* clear, which keeps the count of triggers.
Mutant_Clear_KeepsHash ==
    /\ entries' = <<>>
    /\ next_sequence' = 0
    /\ UNCHANGED <<last_hash, total_triggers>>

Clear ==
    /\ entries' = <<>>
    /\ next_sequence' = 0
    /\ last_hash' = ZeroHash
    /\ UNCHANGED total_triggers

\* The log by itself, as its unit tests use it.
LogNext ==
    \/ /\ total_triggers < MaxTriggers
       /\ \E e \in Events : e.at = total_triggers + 1 /\ AppendEvent(e)
    \/ Clear

LogSpec == LogInit /\ [][LogNext]_logVars

----------------------------------------------------------------------------
(* Properties *)

\* The kept entries are a contiguous end of the chain: each is sound, follows
\* the one before it in number and in hash, and the next append continues
\* the newest of them, also after entries were evicted.
ChainInv ==
    /\ Len(entries) <= MaxEntries
    /\ Len(entries) <= next_sequence
    /\ next_sequence <= total_triggers
    /\ \A i \in 1 .. Len(entries) :
          /\ VerifyHash(entries[i])
          /\ entries[i].sequence = next_sequence - Len(entries) + i - 1
    /\ \A i \in 2 .. Len(entries) :
          entries[i].prev_hash = entries[i - 1].hash
    /\ last_hash = IF entries = <<>> THEN ZeroHash
                                     ELSE entries[Len(entries)].hash

\* verify_chain answers true as long as no entry has been evicted since the
\* log was last empty.
VerifiesUntilEviction == next_sequence <= MaxEntries => VerifyChain

\* What verify_chain sees: in a log that it accepts, an event replaced by one
\* with another digest; and of all logs put together from this log's entries,
\* with some left out, repeated or moved, it accepts only those that stop too
\* early.
ChainDetectsEdits ==
    /\ VerifyChain =>
          \A i \in 1 .. Len(entries), e \in Events :
             HashEvent(e) # HashEvent(entries[i].event) =>
                ~Chained([entries EXCEPT ![i].event = e])
    /\ \A n \in 1 .. Len(entries) + 1 :
          \A from \in [1 .. n -> 1 .. Len(entries)] :
             Chained([i \in 1 .. n |-> entries[from[i]]]) =>
                \A i \in 1 .. n : from[i] = i

\* "verify the integrity of the audit chain: all hashes right, all prev_hash
\* links right" (catastrophic.rs 184): the log the code itself wrote verifies.
OwnLogVerifies == VerifyChain
=============================================================================
