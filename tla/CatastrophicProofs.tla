------------------------- MODULE CatastrophicProofs -------------------------
(***************************************************************************)
(* Proofs about the audit log, alone and under the manager.                *)
(***************************************************************************)
EXTENDS CatastrophicManager, AuditReader, SequenceTheorems,
        FiniteSetTheorems, WellFoundedInduction, TLAPS

\* What an append needs to know of the variables: the entries form a
\* sequence (of whatever set), the counters are numbers.
LogType ==
    /\ \E S : entries \in Seq(S)
    /\ next_sequence \in Nat
    /\ total_triggers \in Nat

\* append keeps the chain, evicting or not.
LEMMA AppendKeepsChain ==
    ASSUME NEW e, LogType, ChainInv, AppendEvent(e)
    PROVE  LogType' /\ ChainInv'
<1> DEFINE entry == NewEntry(next_sequence, e, last_hash)
           pushed == Append(entries, entry)
<1>1. PICK S : entries \in Seq(S)
  BY DEF LogType
<1>2. entries \in Seq(S \cup {entry})
  <2>1. entries \in [1 .. Len(entries) -> S]
    BY <1>1
  <2>2. entries \in [1 .. Len(entries) -> S \cup {entry}]
    BY <2>1
  <2> QED
    BY <1>1, <2>2, SeqDef
<1>3. /\ pushed \in Seq(S \cup {entry})
      /\ Len(pushed) = Len(entries) + 1
      /\ \A i \in 1 .. Len(entries) : pushed[i] = entries[i]
      /\ pushed[Len(entries) + 1] = entry
  BY <1>2, AppendProperties
<1>4. /\ VerifyHash(entry)
      /\ entry.sequence = next_sequence
      /\ entry.prev_hash = last_hash
      /\ entry.hash = last_hash'
  BY DEF VerifyHash, NewEntry, AppendEvent
<1>5. /\ next_sequence' = next_sequence + 1
      /\ total_triggers' = total_triggers + 1
      /\ entries' = IF Len(pushed) > MaxEntries THEN Tail(pushed) ELSE pushed
  BY DEF AppendEvent
<1>6. Len(entries) \in Nat /\ next_sequence \in Nat /\ total_triggers \in Nat
  BY <1>1 DEF LogType
<1> HIDE DEF entry, pushed
<1>7. \A i \in 1 .. Len(pushed) :
         /\ VerifyHash(pushed[i])
         /\ pushed[i].sequence = next_sequence - Len(entries) + i - 1
  <2> SUFFICES ASSUME NEW i \in 1 .. Len(pushed)
               PROVE  /\ VerifyHash(pushed[i])
                      /\ pushed[i].sequence
                           = next_sequence - Len(entries) + i - 1
    OBVIOUS
  <2>1. CASE i \in 1 .. Len(entries)
    <3>1. pushed[i] = entries[i]
      BY <2>1, <1>3
    <3> QED
      BY <3>1, <2>1 DEF ChainInv
  <2>2. CASE i = Len(entries) + 1
    <3>1. pushed[i] = entry
      BY <2>2, <1>3
    <3>2. next_sequence - Len(entries) + i - 1 = next_sequence
      BY <2>2, <1>6
    <3> QED
      BY <3>1, <3>2, <1>4
  <2> QED
    BY <2>1, <2>2, <1>3, <1>6
<1>8. \A i \in 2 .. Len(pushed) : pushed[i].prev_hash = pushed[i - 1].hash
  <2> SUFFICES ASSUME NEW i \in 2 .. Len(pushed)
               PROVE  pushed[i].prev_hash = pushed[i - 1].hash
    OBVIOUS
  <2>1. CASE i <= Len(entries)
    <3>1. i \in 2 .. Len(entries) /\ i \in 1 .. Len(entries)
          /\ i - 1 \in 1 .. Len(entries)
      BY <2>1, <1>6
    <3> QED
      BY <3>1, <1>3 DEF ChainInv
  <2>2. CASE i = Len(entries) + 1
    <3>1. entries # <<>> /\ Len(entries) \in 1 .. Len(entries)
      BY <2>2, <1>6, <1>1, EmptySeq
    <3>2. last_hash = entries[Len(entries)].hash
      BY <3>1 DEF ChainInv
    <3> QED
      BY <3>1, <3>2, <2>2, <1>3, <1>4, <1>6
  <2> QED
    BY <2>1, <2>2, <1>3, <1>6
<1>9. CASE Len(pushed) <= MaxEntries
  <2>1. entries' = pushed
    BY <1>9, <1>5, <1>3, <1>6, MaxEntriesAssumption
  <2>2. pushed # <<>>
    BY <1>3, <1>6
  <2> QED
    BY <2>1, <2>2, <1>3, <1>4, <1>5, <1>6, <1>7, <1>8, <1>9
    DEF ChainInv, LogType
<1>10. CASE Len(pushed) > MaxEntries
  <2>1. entries' = Tail(pushed) /\ Len(pushed) = MaxEntries + 1
    BY <1>10, <1>5, <1>3, <1>6, MaxEntriesAssumption DEF ChainInv
  <2>2. /\ Tail(pushed) \in Seq(S \cup {entry})
        /\ Len(Tail(pushed)) = MaxEntries
        /\ \A i \in 1 .. MaxEntries : Tail(pushed)[i] = pushed[i + 1]
    BY <2>1, <1>3, MaxEntriesAssumption, HeadTailProperties
  <2>3. Tail(pushed) # <<>>
    BY <2>2, MaxEntriesAssumption
  <2>4. \A i \in 1 .. Len(entries') :
           /\ VerifyHash(entries'[i])
           /\ entries'[i].sequence = next_sequence' - Len(entries') + i - 1
    <3> SUFFICES ASSUME NEW i \in 1 .. MaxEntries
                 PROVE  /\ VerifyHash(entries'[i])
                        /\ entries'[i].sequence
                             = next_sequence' - Len(entries') + i - 1
      BY <2>1, <2>2
    <3>1. entries'[i] = pushed[i + 1] /\ i + 1 \in 1 .. Len(pushed)
      BY <2>1, <2>2, MaxEntriesAssumption
    <3>2. /\ VerifyHash(pushed[i + 1])
          /\ pushed[i + 1].sequence
               = next_sequence - Len(entries) + (i + 1) - 1
      BY <3>1, <1>7
    <3>3. next_sequence - Len(entries) + (i + 1) - 1
            = next_sequence' - Len(entries') + i - 1
      BY <2>1, <2>2, <1>3, <1>5, <1>6, MaxEntriesAssumption
    <3> QED
      BY <3>1, <3>2, <3>3
  <2>5. \A i \in 2 .. Len(entries') :
           entries'[i].prev_hash = entries'[i - 1].hash
    <3> SUFFICES ASSUME NEW i \in 2 .. MaxEntries
                 PROVE  entries'[i].prev_hash = entries'[i - 1].hash
      BY <2>1, <2>2
    <3>1. i \in 1 .. MaxEntries /\ i - 1 \in 1 .. MaxEntries
          /\ i + 1 \in 2 .. Len(pushed) /\ (i - 1) + 1 = (i + 1) - 1
      BY <2>1, MaxEntriesAssumption
    <3> QED
      BY <3>1, <2>1, <2>2, <1>8
  <2>6. last_hash' = entries'[Len(entries')].hash
    BY <2>1, <2>2, <1>3, <1>4, MaxEntriesAssumption
  <2> QED
    BY <2>1, <2>2, <2>3, <2>4, <2>5, <2>6, <1>3, <1>5, <1>6,
       MaxEntriesAssumption, SMTT(60)
    DEF ChainInv, LogType
<1> QED
  BY <1>9, <1>10, <1>3, <1>6, MaxEntriesAssumption

LEMMA EmptyLog == LogInit => LogType /\ ChainInv
<1> SUFFICES ASSUME LogInit PROVE LogType /\ ChainInv
  OBVIOUS
<1>1. entries \in Seq({})
  BY DEF LogInit
<1> QED
  BY <1>1, MaxEntriesAssumption DEF LogInit, LogType, ChainInv

LEMMA ClearKeepsChain ==
    ASSUME LogType, ChainInv, Clear PROVE LogType' /\ ChainInv'
<1>1. entries' \in Seq({})
  BY DEF Clear
<1> QED
  BY <1>1, MaxEntriesAssumption DEF Clear, LogType, ChainInv

LEMMA UnchangedLog ==
    ASSUME LogType, ChainInv, UNCHANGED logVars PROVE LogType' /\ ChainInv'
BY DEF LogType, ChainInv, logVars, VerifyHash

\* The entries an audit log keeps are always a contiguous end of one hash
\* chain, in whatever order events are appended, evicted and cleared.
THEOREM LogChained == LogSpec => []ChainInv
<1>1. LogInit => LogType /\ ChainInv
  BY EmptyLog
<1>2. LogType /\ ChainInv /\ [LogNext]_logVars => (LogType /\ ChainInv)'
  <2> SUFFICES ASSUME LogType, ChainInv, [LogNext]_logVars
               PROVE  (LogType /\ ChainInv)'
    OBVIOUS
  <2>1. CASE \E e \in Events : AppendEvent(e)
    BY <2>1, AppendKeepsChain
  <2>2. CASE Clear
    BY <2>2, ClearKeepsChain
  <2>3. CASE UNCHANGED logVars
    BY <2>3, UnchangedLog
  <2> QED
    BY <2>1, <2>2, <2>3 DEF LogNext
<1> QED
  BY <1>1, <1>2, PTL DEF LogSpec

----------------------------------------------------------------------------
(* What verify_chain sees *)

\* As long as no entry has been evicted the first one follows the zero hash.
HeadInv ==
    next_sequence <= MaxEntries =>
       /\ Len(entries) = next_sequence
       /\ entries # <<>> => entries[1].prev_hash = ZeroHash

Entries(H) == [sequence : Nat, event : Events, prev_hash : H, hash : H]

\* The entries are records, with whatever digests.
EntryInv == \E H : entries \in Seq(Entries(H)) /\ last_hash \in H

\* append keeps the first entry until it evicts it.
LEMMA AppendKeepsHead ==
    ASSUME LogType, ChainInv, HeadInv, NEW e, AppendEvent(e)
    PROVE  HeadInv'
<1> DEFINE new == NewEntry(next_sequence, e, last_hash)
<1>1. PICK S : entries \in Seq(S)
  BY DEF LogType
<1>2. /\ entries' = IF Len(entries) + 1 > MaxEntries
                    THEN Tail(Append(entries, new)) ELSE Append(entries, new)
      /\ next_sequence' = next_sequence + 1
  <2>1. Len(Append(entries, new)) = Len(entries) + 1
    BY <1>1
  <2> QED
    BY <2>1 DEF AppendEvent
<1>3. new.prev_hash = last_hash
  BY DEF NewEntry
<1> HIDE DEF new
<1> SUFFICES ASSUME next_sequence' <= MaxEntries
             PROVE  /\ Len(entries') = next_sequence'
                    /\ entries'[1].prev_hash = ZeroHash
  BY DEF HeadInv
<1>4. /\ Len(entries) = next_sequence /\ next_sequence \in Nat
      /\ entries # <<>> => entries[1].prev_hash = ZeroHash
  BY <1>2, MaxEntriesAssumption DEF HeadInv, LogType
<1>5. entries' = Append(entries, new) /\ Len(entries') = Len(entries) + 1
  BY <1>1, <1>2, <1>4, MaxEntriesAssumption
<1>6. CASE entries = <<>>
  <2>1. entries'[1] = new /\ last_hash = ZeroHash
    BY <1>5, <1>6 DEF ChainInv
  <2> QED
    BY <2>1, <1>2, <1>3, <1>4, <1>5
<1>7. CASE entries # <<>>
  <2>1. entries'[1] = entries[1]
    BY <1>1, <1>5, <1>7
  <2> QED
    BY <2>1, <1>2, <1>4, <1>5, <1>7
<1> QED
  BY <1>6, <1>7

\* A sequence over a set is one over a larger set.
LEMMA LargerSeq ==
    ASSUME NEW A, NEW B, A \subseteq B, NEW s \in Seq(A), NEW b \in B
    PROVE  s \in Seq(B) /\ Append(s, b) \in Seq(B) /\ Append(s, b) # <<>>
<1>1. s \in Seq(B)
  OBVIOUS
<1> QED
  BY <1>1

\* append adds a record, whose digest joins the others.
LEMMA AppendKeepsEntries ==
    ASSUME next_sequence \in Nat, EntryInv, NEW e \in Events, AppendEvent(e)
    PROVE  EntryInv'
<1>1. PICK H : entries \in Seq(Entries(H)) /\ last_hash \in H
  BY DEF EntryInv
<1> DEFINE new == NewEntry(next_sequence, e, last_hash)
           G == H \cup {new.hash}
<1>2. new \in Entries(G)
  BY <1>1 DEF NewEntry, Entries
<1>3. Entries(H) \subseteq Entries(G)
  BY DEF Entries
<1>4. /\ entries' = IF Len(Append(entries, new)) > MaxEntries
                    THEN Tail(Append(entries, new)) ELSE Append(entries, new)
      /\ last_hash' = new.hash
  BY DEF AppendEvent
<1>5. last_hash' \in G
  BY <1>4
<1> HIDE DEF new, G
<1>6. Append(entries, new) \in Seq(Entries(G)) /\ Append(entries, new) # <<>>
  BY <1>1, <1>2, <1>3, LargerSeq
<1>7. entries' \in Seq(Entries(G))
  BY <1>4, <1>6
<1> QED
  BY <1>5, <1>7 DEF EntryInv

\* All of it holds in the log by itself.
LEMMA LogAlways == LogSpec => [](LogType /\ ChainInv /\ HeadInv /\ EntryInv)
<1> DEFINE Inv == LogType /\ ChainInv /\ HeadInv /\ EntryInv
<1>1. LogInit => Inv
  <2> SUFFICES ASSUME LogInit PROVE HeadInv /\ EntryInv
    BY EmptyLog
  <2>1. entries \in Seq(Entries({ZeroHash})) /\ last_hash \in {ZeroHash}
    BY DEF LogInit
  <2> QED
    BY <2>1 DEF LogInit, HeadInv, EntryInv
<1>2. Inv /\ [LogNext]_logVars => Inv'
  <2> SUFFICES ASSUME LogType, ChainInv, HeadInv, EntryInv,
                      [LogNext]_logVars
               PROVE  Inv'
    OBVIOUS
  <2>1. ASSUME NEW e \in Events, AppendEvent(e) PROVE Inv'
    <3>1. next_sequence \in Nat
      BY DEF LogType
    <3> QED
      BY <2>1, <3>1, AppendKeepsChain, AppendKeepsHead, AppendKeepsEntries
  <2>2. CASE Clear
    <3>1. entries' \in Seq(Entries({ZeroHash})) /\ last_hash' \in {ZeroHash}
      BY <2>2 DEF Clear
    <3>2. HeadInv' /\ EntryInv'
      BY <2>2, <3>1 DEF Clear, HeadInv, EntryInv
    <3> QED
      BY <2>2, <3>2, ClearKeepsChain
  <2>3. CASE UNCHANGED logVars
    <3>1. HeadInv' /\ EntryInv'
      BY <2>3 DEF logVars, HeadInv, EntryInv
    <3> QED
      BY <2>3, <3>1, UnchangedLog
  <2> QED
    BY <2>1, <2>2, <2>3 DEF LogNext
<1> QED
  BY <1>1, <1>2, PTL DEF LogSpec

\* What makes it verify.
LEMMA HeadVerifies ==
    ASSUME LogType, ChainInv, HeadInv PROVE VerifiesUntilEviction
<1> SUFFICES ASSUME next_sequence <= MaxEntries, NEW i \in 1 .. Len(entries)
             PROVE  /\ VerifyHash(entries[i])
                    /\ entries[i].prev_hash =
                          IF i = 1 THEN ZeroHash ELSE entries[i - 1].hash
  BY DEF VerifiesUntilEviction, VerifyChain, Chained
<1>1. VerifyHash(entries[i])
  BY DEF ChainInv
<1>2. CASE i = 1
  <2>1. entries # <<>>
    BY <1>2
  <2> QED
    BY <1>1, <1>2, <2>1 DEF HeadInv
<1>3. CASE i # 1
  <2>1. i \in 2 .. Len(entries)
    BY <1>3
  <2> QED
    BY <1>1, <1>3, <2>1 DEF ChainInv
<1> QED
  BY <1>2, <1>3

\* verify_chain accepts the log the code wrote until an entry is evicted,
\* and after every clear.
THEOREM LogVerifies == LogSpec => []VerifiesUntilEviction
BY HeadVerifies, LogAlways, PTL

\* A set of numbers has a least one: what stands for induction below.
LEMMA Minimal ==
    ASSUME NEW R, NEW T, IsWellFoundedOn(R, Nat), T \subseteq Nat, T # {}
    PROVE  \E m \in T : \A k \in T : ~(<<k, m>> \in R)
BY WFMin

LEMMA Least ==
    ASSUME NEW T, T \subseteq Nat, T # {}
    PROVE  \E m \in T : \A k \in T : m <= k
<1> DEFINE R == {p \in Nat \X Nat : p[1] < p[2]}
<1>1. IsWellFoundedOn(R, Nat)
  BY NatLessThanWellFounded DEF OpToRel
<1>2. \A x \in Nat, y \in Nat : <<x, y>> \in R <=> x < y
  OBVIOUS
<1> HIDE DEF R
<1>3. PICK m \in T : \A k \in T : ~(<<k, m>> \in R)
  BY <1>1, Minimal
<1>4. \A k \in T : m \in Nat /\ k \in Nat /\ ~(k < m)
  BY <1>2, <1>3
<1> QED
  BY <1>4

\* The digests of the entries differ from each other, and from the one of the
\* empty log.
LEMMA HashesDiffer ==
    ASSUME LogType, ChainInv, NEW i \in 1 .. Len(entries)
    PROVE  /\ entries[i].hash # ZeroHash
           /\ \A j \in 1 .. Len(entries) :
                 entries[i].hash = entries[j].hash => i = j
<1>1. \A j \in 1 .. Len(entries) :
         /\ entries[j].hash = HashEntry(entries[j].sequence, entries[j].event,
                                        entries[j].prev_hash)
         /\ entries[j].sequence = next_sequence - Len(entries) + j - 1
  BY DEF ChainInv, VerifyHash
<1>2. next_sequence \in Nat /\ Len(entries) \in Nat
  BY DEF LogType
<1>3. entries[i].hash # ZeroHash
  <2>1. entries[i].hash = <<entries[i].sequence, HashEvent(entries[i].event),
                            entries[i].prev_hash>>
    BY <1>1 DEF HashEntry
  <2> QED
    BY <2>1 DEF ZeroHash
<1>4. ASSUME NEW j \in 1 .. Len(entries), entries[i].hash = entries[j].hash
      PROVE  i = j
  <2>1. entries[i].sequence = entries[j].sequence
    BY <1>1, <1>4 DEF HashEntry
  <2>2. /\ entries[i].sequence = next_sequence - Len(entries) + i - 1
        /\ entries[j].sequence = next_sequence - Len(entries) + j - 1
    BY <1>1
  <2>3. next_sequence - Len(entries) + i - 1
          = next_sequence - Len(entries) + j - 1
    BY <2>1, <2>2
  <2>4. i \in Nat /\ j \in Nat
    BY <1>2
  <2> QED
    BY <1>2, <2>3, <2>4
<1> QED
  BY <1>3, <1>4

\* A verified log that is put together from entries of this one takes them
\* from the first on, one after the other: at the first place where it did
\* not, the link to the place before would be wrong.
LEMMA ArrangedInOrder ==
    ASSUME LogType, ChainInv, NEW n \in Nat,
           NEW from \in [1 .. n -> 1 .. Len(entries)],
           Chained([i \in 1 .. n |-> entries[from[i]]])
    PROVE  \A i \in 1 .. n : from[i] = i
<1> DEFINE log == [i \in 1 .. n |-> entries[from[i]]]
           Wrong == {i \in 1 .. n : from[i] # i}
<1>1. \A i \in 1 .. n :
         log[i].prev_hash = IF i = 1 THEN ZeroHash ELSE log[i - 1].hash
  <2>1. Len(log) = n
    OBVIOUS
  <2> QED
    BY <2>1 DEF Chained
<1>2. \A i \in 1 .. n : log[i] = entries[from[i]]
  OBVIOUS
<1>3. Len(entries) \in Nat
  BY DEF LogType
<1>4. \A j \in 2 .. Len(entries) :
         /\ j - 1 \in 1 .. Len(entries)
         /\ entries[j].prev_hash = entries[j - 1].hash
  BY <1>3 DEF ChainInv
<1> HIDE DEF log
<1> SUFFICES ASSUME Wrong # {} PROVE FALSE
  OBVIOUS
<1>5. PICK i \in Wrong : \A k \in Wrong : i <= k
  BY Least, Wrong \subseteq Nat
<1>6. i \in 1 .. n /\ from[i] # i /\ from[i] \in 1 .. Len(entries)
  OBVIOUS
<1>7. CASE i = 1
  <2>1. entries[from[1]].prev_hash = ZeroHash
    BY <1>1, <1>2, <1>6, <1>7
  <2>2. from[1] \in 2 .. Len(entries)
    BY <1>3, <1>6, <1>7
  <2>3. entries[from[1] - 1].hash = ZeroHash /\ from[1] - 1 \in 1 .. Len(entries)
    BY <1>4, <2>1, <2>2
  <2> QED
    BY <2>3, HashesDiffer
<1>8. CASE i # 1
  <2>1. i - 1 \in 1 .. n /\ i - 1 \notin Wrong /\ 1 \in 1 .. n /\ 1 \notin Wrong
    BY <1>5, <1>6, <1>8
  <2>2. from[i - 1] = i - 1 /\ from[1] = 1
    BY <2>1
  <2>3. /\ i - 1 \in 1 .. Len(entries)
        /\ entries[from[i]].prev_hash = entries[i - 1].hash
        /\ entries[1].prev_hash = ZeroHash
    <3>1. log[i].prev_hash = log[i - 1].hash /\ log[1].prev_hash = ZeroHash
      BY <1>1, <1>6, <1>8, <2>1
    <3>2. log[i] = entries[from[i]] /\ log[i - 1] = entries[i - 1]
          /\ log[1] = entries[1]
      BY <1>2, <1>6, <2>1, <2>2
    <3>3. from[i - 1] \in 1 .. Len(entries)
      BY <2>1
    <3> QED
      BY <2>2, <3>1, <3>2, <3>3
  <2>4. from[i] # 1
    BY <2>3, HashesDiffer
  <2>5. from[i] \in 2 .. Len(entries)
    BY <1>3, <1>6, <2>4
  <2>6. /\ from[i] - 1 \in 1 .. Len(entries)
        /\ entries[from[i] - 1].hash = entries[i - 1].hash
    BY <1>4, <2>3, <2>5
  <2>7. from[i] - 1 = i - 1
    BY <2>3, <2>6, HashesDiffer
  <2> QED
    BY <1>3, <1>6, <2>5, <2>7
<1> QED
  BY <1>7, <1>8

\* verify_chain rejects a log in which an event was replaced by one with
\* another digest, and every log put together from its entries that is more
\* than a beginning of it, whatever the log and the edit.
THEOREM EditsAreDetected == LogSpec => []ChainDetectsEdits
<1>1. LogType /\ ChainInv /\ EntryInv => ChainDetectsEdits
  <2> SUFFICES ASSUME LogType, ChainInv, EntryInv
               PROVE  ChainDetectsEdits
    OBVIOUS
  <2>1. ASSUME NEW i \in 1 .. Len(entries), NEW e \in Events,
               HashEvent(e) # HashEvent(entries[i].event),
               Chained([entries EXCEPT ![i].event = e])
        PROVE  FALSE
    <3> DEFINE log == [entries EXCEPT ![i].event = e]
           new == [entries[i] EXCEPT !.event = e]
    <3>1. PICK H : entries \in Seq(Entries(H))
      BY DEF EntryInv
    <3>2. Len(entries) \in Nat /\ i \in Nat /\ entries[i] \in Entries(H)
      BY <3>1
    <3>3. log[i] = new /\ log = [entries EXCEPT ![i] = new]
      BY <3>1, <3>2
    <3>4. new \in Entries(H) /\ new.hash = entries[i].hash /\ new.event = e
      BY <3>2 DEF Entries
    <3>5. VerifyHash(log[i])
      <4> HIDE DEF new
      <4>1. i \in 1 .. Len(log)
        BY <3>1, <3>2, <3>3, <3>4
      <4> QED
        BY <2>1, <4>1 DEF Chained
    <3>6. VerifyHash(entries[i])
      BY DEF ChainInv
    <3> QED
      BY <2>1, <3>3, <3>4, <3>5, <3>6 DEF VerifyHash, HashEntry
  <2>2. Len(entries) \in Nat
    BY DEF LogType
  <2>3. ASSUME NEW n \in 1 .. Len(entries) + 1,
               NEW from \in [1 .. n -> 1 .. Len(entries)],
               Chained([i \in 1 .. n |-> entries[from[i]]])
        PROVE  \A i \in 1 .. n : from[i] = i
    <3>1. n \in Nat
      BY <2>2, <2>3
    <3> QED
      BY <2>3, <3>1, ArrangedInOrder
  <2> QED
    BY <2>1, <2>3 DEF ChainDetectsEdits
<1> QED
  BY <1>1, LogAlways, PTL

----------------------------------------------------------------------------
(* What the last hash stands for *)

\* The digest at a place of a log, before whose first entry is the zero hash.
HashAt(log, i) == IF i = 0 THEN ZeroHash ELSE log[i].hash

\* In logs that verify, equal digests follow equal digests, and nothing but
\* the start has the zero hash.
LEMMA PreviousHash ==
    ASSUME NEW F, NEW G, Chained(F), Chained(G),
           Len(F) \in Nat, Len(G) \in Nat,
           NEW i \in 1 .. Len(F)
    PROVE  /\ HashAt(F, i) # ZeroHash
           /\ \A j \in 1 .. Len(G) :
                 HashAt(F, i) = HashAt(G, j) =>
                    /\ F[i].sequence = G[j].sequence
                    /\ HashEvent(F[i].event) = HashEvent(G[j].event)
                    /\ HashAt(F, i - 1) = HashAt(G, j - 1)
<1>1. /\ F[i].hash = <<F[i].sequence, HashEvent(F[i].event), F[i].prev_hash>>
      /\ F[i].prev_hash = IF i = 1 THEN ZeroHash ELSE F[i - 1].hash
  BY DEF Chained, VerifyHash, HashEntry
<1>2. ASSUME NEW j \in 1 .. Len(G)
      PROVE  /\ G[j].hash = <<G[j].sequence, HashEvent(G[j].event),
                              G[j].prev_hash>>
             /\ G[j].prev_hash = IF j = 1 THEN ZeroHash ELSE G[j - 1].hash
  BY <1>2 DEF Chained, VerifyHash, HashEntry
<1>3. /\ HashAt(F, i) = F[i].hash
      /\ HashAt(F, i - 1) = F[i].prev_hash
  BY <1>1 DEF HashAt
<1>4. ASSUME NEW j \in 1 .. Len(G)
      PROVE  /\ HashAt(G, j) = G[j].hash
             /\ HashAt(G, j - 1) = G[j].prev_hash
  BY <1>2, <1>4 DEF HashAt
<1>5. HashAt(F, i) # ZeroHash
  BY <1>1, <1>3 DEF ZeroHash
<1>6. ASSUME NEW j \in 1 .. Len(G), HashAt(F, i) = HashAt(G, j)
      PROVE  /\ F[i].sequence = G[j].sequence
             /\ HashEvent(F[i].event) = HashEvent(G[j].event)
             /\ HashAt(F, i - 1) = HashAt(G, j - 1)
  <2>1. F[i].hash = G[j].hash
    BY <1>3, <1>4, <1>6
  <2>2. /\ F[i].sequence = G[j].sequence
        /\ HashEvent(F[i].event) = HashEvent(G[j].event)
        /\ F[i].prev_hash = G[j].prev_hash
    BY <1>1, <1>2, <2>1, <1>6
  <2> QED
    BY <1>3, <1>4, <2>2, <1>6
<1> QED
  BY <1>5, <1>6

\* Two logs that verify and end with the same hash have the same hash at
\* every distance from the end: at the least distance where they had not, the
\* digests one place later would differ as well.
LEMMA SameFromTheEnd ==
    ASSUME NEW F, NEW G, Chained(F), Chained(G),
           Len(F) \in Nat, Len(G) \in Nat,
           HashAt(F, Len(F)) = HashAt(G, Len(G))
    PROVE  \A d \in Nat : d <= Len(F) /\ d <= Len(G) =>
              HashAt(F, Len(F) - d) = HashAt(G, Len(G) - d)
<1> DEFINE Apart == {d \in Nat : d <= Len(F) /\ d <= Len(G) /\
                        HashAt(F, Len(F) - d) # HashAt(G, Len(G) - d)}
<1> SUFFICES ASSUME Apart # {} PROVE FALSE
  OBVIOUS
<1>1. Apart \subseteq Nat
  OBVIOUS
<1>2. PICK d \in Apart : \A k \in Apart : d <= k
  BY <1>1, Least
<1>3. d \in Nat /\ d <= Len(F) /\ d <= Len(G)
      /\ HashAt(F, Len(F) - d) # HashAt(G, Len(G) - d)
  OBVIOUS
<1>4. d # 0
  <2>1. Len(F) - 0 = Len(F) /\ Len(G) - 0 = Len(G)
    OBVIOUS
  <2> QED
    BY <1>3, <2>1
<1>5. d - 1 \in Nat /\ d - 1 <= Len(F) /\ d - 1 <= Len(G) /\ ~(d <= d - 1)
  BY <1>3, <1>4
<1>6. d - 1 \notin Apart
  BY <1>2, <1>5
<1>7. HashAt(F, Len(F) - (d - 1)) = HashAt(G, Len(G) - (d - 1))
  BY <1>5, <1>6
<1>8. /\ Len(F) - (d - 1) \in 1 .. Len(F) /\ Len(G) - (d - 1) \in 1 .. Len(G)
      /\ (Len(F) - (d - 1)) - 1 = Len(F) - d
      /\ (Len(G) - (d - 1)) - 1 = Len(G) - d
  BY <1>3, <1>4
<1> HIDE DEF Apart
<1>9. HashAt(F, (Len(F) - (d - 1)) - 1) = HashAt(G, (Len(G) - (d - 1)) - 1)
  BY <1>7, <1>8, PreviousHash
<1> QED
  BY <1>3, <1>8, <1>9

\* So they are equally long: the shorter would end where the other has an
\* entry, whose digest is not the zero hash.
LEMMA SameHashSameLog ==
    ASSUME NEW F, NEW G, Chained(F), Chained(G),
           Len(F) \in Nat, Len(G) \in Nat,
           HashAt(F, Len(F)) = HashAt(G, Len(G))
    PROVE  /\ Len(F) = Len(G)
           /\ \A i \in 1 .. Len(F) :
                 /\ F[i].hash = G[i].hash
                 /\ F[i].sequence = G[i].sequence
                 /\ HashEvent(F[i].event) = HashEvent(G[i].event)
<1>1. ASSUME NEW A, NEW B, Chained(A), Chained(B),
             Len(A) \in Nat, Len(B) \in Nat, Len(A) < Len(B),
             HashAt(A, Len(A)) = HashAt(B, Len(B))
      PROVE  FALSE
  <2>1. HashAt(A, Len(A) - Len(A)) = HashAt(B, Len(B) - Len(A))
    BY <1>1, SameFromTheEnd
  <2>2. Len(A) - Len(A) = 0 /\ Len(B) - Len(A) \in 1 .. Len(B)
    BY <1>1
  <2>3. HashAt(B, Len(B) - Len(A)) = ZeroHash
    BY <2>1, <2>2 DEF HashAt
  <2> QED
    BY <1>1, <2>2, <2>3, PreviousHash
<1>2. ~(Len(F) < Len(G)) /\ ~(Len(G) < Len(F))
  BY <1>1
<1>3. Len(F) = Len(G)
  BY <1>2
<1>4. ASSUME NEW i \in 1 .. Len(F)
      PROVE  /\ F[i].hash = G[i].hash
             /\ F[i].sequence = G[i].sequence
             /\ HashEvent(F[i].event) = HashEvent(G[i].event)
  <2>1. /\ Len(F) - i \in Nat /\ Len(F) - i <= Len(F) /\ i \in 1 .. Len(G)
        /\ Len(F) - (Len(F) - i) = i /\ Len(G) - (Len(F) - i) = i
    BY <1>3, <1>4
  <2>2. HashAt(F, i) = HashAt(G, i)
    BY <1>3, <2>1, SameFromTheEnd
  <2>3. HashAt(F, i) = F[i].hash /\ HashAt(G, i) = G[i].hash
    BY <1>4 DEF HashAt
  <2>4. /\ F[i].sequence = G[i].sequence
        /\ HashEvent(F[i].event) = HashEvent(G[i].event)
    BY <1>4, <2>1, <2>2, PreviousHash
  <2> QED
    BY <2>2, <2>3, <2>4
<1> QED
  BY <1>3, <1>4

\* Behind the entries that are kept there is the whole chain since the log
\* was last empty, which ends with the last hash.
WholeChain(F) ==
    /\ \E S : F \in Seq(S)
    /\ Chained(F)
    /\ Len(F) = next_sequence
    /\ HashAt(F, Len(F)) = last_hash
    /\ Len(entries) <= Len(F)
    /\ \A i \in 1 .. Len(entries) :
          entries[i] = F[Len(F) - Len(entries) + i]

LEMMA AppendKeepsWhole ==
    ASSUME LogType, ChainInv, NEW F, WholeChain(F), NEW e, AppendEvent(e)
    PROVE  \E G : WholeChain(G)'
<1> DEFINE new == NewEntry(next_sequence, e, last_hash)
           G == Append(F, new)
           pushed == Append(entries, new)
<1>1. PICK S : F \in Seq(S)
  BY DEF WholeChain
<1>2. PICK R : entries \in Seq(R)
  BY DEF LogType
<1>3. F \in Seq(S \cup {new}) /\ entries \in Seq(R \cup {new})
  <2>1. new \in S \cup {new} /\ new \in R \cup {new}
        /\ S \subseteq S \cup {new} /\ R \subseteq R \cup {new}
    OBVIOUS
  <2> HIDE DEF new
  <2> QED
    BY <1>1, <1>2, <2>1, LargerSeq
<1>4. /\ VerifyHash(new)
      /\ new.prev_hash = last_hash /\ new.hash = last_hash'
      /\ next_sequence' = next_sequence + 1
      /\ entries' = IF Len(pushed) > MaxEntries THEN Tail(pushed) ELSE pushed
  BY DEF NewEntry, VerifyHash, AppendEvent
<1> HIDE DEF new
<1>5. /\ G \in Seq(S \cup {new})
      /\ Len(G) = Len(F) + 1
      /\ \A i \in 1 .. Len(F) : G[i] = F[i]
      /\ G[Len(F) + 1] = new
  BY <1>3, AppendProperties
<1>6. /\ pushed \in Seq(R \cup {new})
      /\ Len(pushed) = Len(entries) + 1
      /\ \A i \in 1 .. Len(entries) : pushed[i] = entries[i]
      /\ pushed[Len(entries) + 1] = new
  BY <1>3, AppendProperties
<1>7. Len(F) \in Nat /\ Len(entries) \in Nat
  BY <1>1, <1>2
<1> HIDE DEF G, pushed
<1>8. Chained(G)
  <2> SUFFICES ASSUME NEW i \in 1 .. Len(G)
               PROVE  /\ VerifyHash(G[i])
                      /\ G[i].prev_hash
                           = IF i = 1 THEN ZeroHash ELSE G[i - 1].hash
    BY DEF Chained
  <2>1. CASE i \in 1 .. Len(F)
    <3>1. G[i] = F[i] /\ (i # 1 => G[i - 1] = F[i - 1])
      BY <1>5, <1>7, <2>1
    <3>2. /\ VerifyHash(F[i])
          /\ F[i].prev_hash = IF i = 1 THEN ZeroHash ELSE F[i - 1].hash
      BY <2>1 DEF WholeChain, Chained
    <3> QED
      BY <3>1, <3>2
  <2>2. CASE i = Len(F) + 1
    <3>1. G[i] = new /\ (i # 1 => G[i - 1] = F[Len(F)])
      BY <1>5, <1>7, <2>2
    <3>2. last_hash = IF i = 1 THEN ZeroHash ELSE F[Len(F)].hash
      BY <1>7, <2>2 DEF WholeChain, HashAt
    <3> QED
      BY <1>4, <3>1, <3>2
  <2> QED
    BY <1>5, <1>7, <2>1, <2>2
<1>9. Len(G) = next_sequence' /\ HashAt(G, Len(G)) = last_hash'
  BY <1>4, <1>5, <1>7 DEF WholeChain, HashAt
<1>10. Len(pushed) <= Len(G) /\ Len(G) \in Nat /\ Len(pushed) \in Nat
  BY <1>5, <1>6, <1>7 DEF WholeChain
<1>11. ASSUME NEW i \in 1 .. Len(pushed)
       PROVE  pushed[i] = G[Len(G) - Len(pushed) + i]
  <2>1. CASE i \in 1 .. Len(entries)
    <3>1. Len(F) - Len(entries) + i \in 1 .. Len(F)
          /\ Len(G) - Len(pushed) + i = Len(F) - Len(entries) + i
      BY <1>5, <1>6, <1>7, <2>1 DEF WholeChain
    <3> QED
      BY <1>5, <1>6, <2>1, <3>1 DEF WholeChain
  <2>2. CASE i = Len(entries) + 1
    <3>1. Len(G) - Len(pushed) + i = Len(F) + 1
      BY <1>5, <1>6, <1>7, <2>2
    <3> QED
      BY <1>5, <1>6, <2>2, <3>1
  <2> QED
    BY <1>6, <1>7, <1>11, <2>1, <2>2
<1>12. /\ Len(entries') <= Len(G)
       /\ \A i \in 1 .. Len(entries') :
             entries'[i] = G[Len(G) - Len(entries') + i]
  <2>1. CASE Len(pushed) <= MaxEntries
    <3>1. entries' = pushed
      BY <1>4, <1>10, <2>1, MaxEntriesAssumption
    <3> QED
      BY <1>10, <1>11, <3>1
  <2>2. CASE Len(pushed) > MaxEntries
    <3>1. entries' = Tail(pushed) /\ Len(pushed) # 0
      BY <1>4, <2>2, MaxEntriesAssumption
    <3>2. /\ Len(entries') = Len(pushed) - 1
          /\ \A i \in 1 .. Len(entries') : entries'[i] = pushed[i + 1]
      BY <1>6, <1>7, <3>1, HeadTailProperties
    <3>3. ASSUME NEW i \in 1 .. Len(entries')
          PROVE  entries'[i] = G[Len(G) - Len(entries') + i]
      <4>1. i + 1 \in 1 .. Len(pushed)
            /\ Len(G) - Len(pushed) + (i + 1) = Len(G) - Len(entries') + i
        BY <1>10, <3>2, <3>3
      <4> QED
        BY <1>11, <3>2, <3>3, <4>1
    <3> QED
      BY <1>10, <3>2, <3>3
  <2> QED
    BY <1>10, <2>1, <2>2, MaxEntriesAssumption
<1> QED
  BY <1>5, <1>8, <1>9, <1>12 DEF WholeChain

\* It begins as the empty chain, and so it does after a clear.
LEMMA EmptyWhole ==
    entries = <<>> /\ next_sequence = 0 /\ last_hash = ZeroHash
       => \E F : WholeChain(F)
<1> SUFFICES ASSUME entries = <<>>, next_sequence = 0, last_hash = ZeroHash
             PROVE  \E F : WholeChain(F)
  OBVIOUS
<1>1. <<>> \in Seq({}) /\ Len(<<>>) = 0
  OBVIOUS
<1>2. WholeChain(<<>>)
  BY <1>1 DEF WholeChain, Chained, HashAt
<1> QED
  BY <1>2

LEMMA WholeAlways == LogSpec => [](\E F : WholeChain(F))
<1> DEFINE Inv == LogType /\ ChainInv
           Whole == \E F : WholeChain(F)
<1>1. LogSpec => []Inv
  BY LogAlways, PTL
<1>2. LogInit => Whole
  BY EmptyWhole DEF LogInit
<1>3. Inv /\ Whole /\ [LogNext]_logVars => Whole'
  <2> SUFFICES ASSUME LogType, ChainInv, NEW F, WholeChain(F),
                      [LogNext]_logVars
               PROVE  \E G : WholeChain(G)'
    OBVIOUS
  <2>1. CASE \E e \in Events : AppendEvent(e)
    BY <2>1, AppendKeepsWhole
  <2>2. CASE Clear
    <3>1. entries' = <<>> /\ next_sequence' = 0 /\ last_hash' = ZeroHash
      BY <2>2 DEF Clear
    <3>2. <<>> \in Seq({}) /\ Len(<<>>) = 0
      OBVIOUS
    <3>3. WholeChain(<<>>)'
      BY <3>1, <3>2 DEF WholeChain, Chained, HashAt
    <3> QED
      BY <3>3
  <2>3. CASE UNCHANGED logVars
    <3>1. WholeChain(F)'
      BY <2>3 DEF WholeChain, logVars
    <3> QED
      BY <3>1
  <2> QED
    BY <2>1, <2>2, <2>3 DEF LogNext
<1> QED
  BY <1>1, <1>2, <1>3, PTL DEF LogSpec

\* What the chain behind the log says of any other log.
LEMMA WholeCommits ==
    ASSUME NEW F, WholeChain(F), LogType PROVE LastHashCommits
<1> SUFFICES ASSUME NEW log \in Shown,
                    LastHash(log) = last_hash, Chained(log)
             PROVE  /\ Len(log) = next_sequence
                    /\ \A i \in 1 .. Len(entries) :
                         LET shown == log[next_sequence - Len(entries) + i]
                         IN  /\ shown.hash = entries[i].hash
                             /\ shown.sequence = entries[i].sequence
                             /\ HashEvent(shown.event)
                                  = HashEvent(entries[i].event)
  BY DEF LastHashCommits
<1>1. Len(log) \in Nat /\ HashAt(log, Len(log)) = last_hash
  <2> DEFINE R == {log[i] : i \in DOMAIN log}
  <2>1. log \in Seq(R)
    BY ShownAssumption
  <2> HIDE DEF R
  <2>2. Len(log) \in Nat /\ (log = <<>> <=> Len(log) = 0)
    BY <2>1
  <2> QED
    BY <2>2 DEF LastHash, HashAt
<1>2. Len(F) \in Nat /\ Len(F) = next_sequence /\ Chained(F)
      /\ HashAt(F, Len(F)) = last_hash
  BY DEF WholeChain
<1>3. /\ Len(F) = Len(log)
      /\ \A i \in 1 .. Len(F) :
            /\ F[i].hash = log[i].hash
            /\ F[i].sequence = log[i].sequence
            /\ HashEvent(F[i].event) = HashEvent(log[i].event)
  BY <1>1, <1>2, SameHashSameLog
<1>4. ASSUME NEW i \in 1 .. Len(entries)
      PROVE  /\ next_sequence - Len(entries) + i \in 1 .. Len(F)
             /\ entries[i] = F[next_sequence - Len(entries) + i]
  <2>1. Len(entries) \in Nat
    BY DEF LogType
  <2> QED
    BY <1>2, <1>4, <2>1 DEF WholeChain
<1> QED
  BY <1>2, <1>3, <1>4

\* Whoever was told the last hash can tell a log that verifies and ends with
\* it from every other history, also of entries that were evicted long ago.
THEOREM LastHashStandsForAll == LogSpec => []LastHashCommits
<1>1. (\E F : WholeChain(F)) /\ LogType => LastHashCommits
  BY WholeCommits
<1> QED
  BY <1>1, WholeAlways, LogAlways, PTL

----------------------------------------------------------------------------
(* The log under the manager *)

\* All that a step of the manager does to the log is an append.
LEMMA ManagerAppends ==
    ASSUME [Next]_vars
    PROVE  (\E t \in Threads : AppendEvent(event[t])) \/ UNCHANGED logVars
<1>1. ASSUME NEW t \in Threads, Audit(t) PROVE AppendEvent(event[t])
  BY <1>1 DEF Audit
<1>2. ASSUME NEW t \in Threads, NEW pfp, NEW seq, NEW src,
             Ignore(t, pfp) \/ Trigger(t, pfp, seq, src) \/ Send(t)
      PROVE  UNCHANGED logVars
  BY <1>2 DEF Ignore, Trigger, Send, vars
<1>3. ASSUME Receive \/ DropReceiver PROVE UNCHANGED logVars
  BY <1>3 DEF Receive, DropReceiver
<1>4. ASSUME UNCHANGED vars PROVE UNCHANGED logVars
  BY <1>4 DEF vars
<1> QED
  BY <1>1, <1>2, <1>3, <1>4 DEF Next, Progress

\* The same under the manager, for any number of threads and any interleaving
\* of their handle_frame calls with the receiver.
THEOREM AuditChained == Spec => []ChainInv
<1>1. Init => LogType /\ ChainInv
  BY EmptyLog DEF Init
<1>2. LogType /\ ChainInv /\ [Next]_vars => (LogType /\ ChainInv)'
  BY ManagerAppends, AppendKeepsChain, UnchangedLog
<1> QED
  BY <1>1, <1>2, PTL DEF Spec

\* What several threads append together verifies until an entry is evicted,
\* and its last hash stands for all of it.
THEOREM AuditStandsForAll ==
    Spec => []VerifiesUntilEviction /\ []LastHashCommits
<1> DEFINE Inv == LogType /\ ChainInv /\ HeadInv
           Whole == \E F : WholeChain(F)
<1>1. Init => Inv /\ Whole
  <2> SUFFICES ASSUME Init PROVE HeadInv /\ Whole
    BY EmptyLog DEF Init
  <2> QED
    BY EmptyWhole DEF Init, LogInit, HeadInv
<1>2. Inv /\ Whole /\ [Next]_vars => (Inv /\ Whole)'
  <2> SUFFICES ASSUME LogType, ChainInv, HeadInv, NEW F, WholeChain(F),
                      [Next]_vars
               PROVE  Inv' /\ \E G : WholeChain(G)'
    OBVIOUS
  <2>1. ASSUME NEW t \in Threads, AppendEvent(event[t])
        PROVE  Inv' /\ \E G : WholeChain(G)'
    BY <2>1, AppendKeepsChain, AppendKeepsHead, AppendKeepsWhole
  <2>2. CASE UNCHANGED logVars
    <3>1. WholeChain(F)' /\ HeadInv'
      BY <2>2 DEF WholeChain, HeadInv, logVars
    <3> QED
      BY <2>2, <3>1, UnchangedLog
  <2> QED
    BY <2>1, <2>2, ManagerAppends
<1>3. Inv => VerifiesUntilEviction
  BY HeadVerifies
<1>4. Inv /\ Whole => LastHashCommits
  BY WholeCommits
<1> QED
  BY <1>1, <1>2, <1>3, <1>4, PTL DEF Spec

----------------------------------------------------------------------------
(* Rule 2: no override is lost *)

Busy == {t \in Threads : pc[t] # "idle"}

\* The inductive invariant: the chain, the types, and NothingLost itself.
ConserveInv ==
    /\ LogType
    /\ ChainInv
    /\ \E S : recorded \in Seq(S)
    /\ pc \in [Threads -> {"idle", "send", "audit"}]
    /\ created \in Nat
    /\ NothingLost

\* Recording an event: the newest entry is the newest recorded event, and the
\* ones before it move by one when the oldest is evicted.
LEMMA AuditKeepsNewest ==
    ASSUME NEW t \in Threads, ConserveInv, Audit(t)
    PROVE  /\ \E S : recorded' \in Seq(S)
           /\ Len(recorded') = Len(recorded) + 1
           /\ Len(entries') = IF Len(recorded') <= MaxEntries
                              THEN Len(recorded') ELSE MaxEntries
           /\ \A i \in 1 .. Len(entries') :
                 entries'[i].event
                   = recorded'[Len(recorded') - Len(entries') + i]
<1> DEFINE e == event[t]
           entry == NewEntry(next_sequence, e, last_hash)
           pushed == Append(entries, entry)
<1>1. PICK S : entries \in Seq(S)
  BY DEF ConserveInv, LogType
<1>2. PICK R : recorded \in Seq(R)
  BY DEF ConserveInv
<1>3. entries \in Seq(S \cup {entry}) /\ recorded \in Seq(R \cup {e})
  <2>1. entries \in [1 .. Len(entries) -> S \cup {entry}]
    BY <1>1
  <2>2. recorded \in [1 .. Len(recorded) -> R \cup {e}]
    BY <1>2
  <2> QED
    BY <1>1, <1>2, <2>1, <2>2, SeqDef
<1>4. /\ pushed \in Seq(S \cup {entry})
      /\ Len(pushed) = Len(entries) + 1
      /\ \A i \in 1 .. Len(entries) : pushed[i] = entries[i]
      /\ pushed[Len(entries) + 1] = entry
  BY <1>3, AppendProperties
<1>5. /\ recorded' \in Seq(R \cup {e})
      /\ Len(recorded') = Len(recorded) + 1
      /\ \A i \in 1 .. Len(recorded) : recorded'[i] = recorded[i]
      /\ recorded'[Len(recorded) + 1] = e
  BY <1>3, AppendProperties DEF Audit
<1>6. entry.event = e
  BY DEF NewEntry
<1>7. entries' = IF Len(pushed) > MaxEntries THEN Tail(pushed) ELSE pushed
  BY DEF Audit, AppendEvent
<1>8. Len(entries) \in Nat /\ Len(recorded) \in Nat
  BY <1>1, <1>2
<1>9. /\ Len(entries) = IF Len(recorded) <= MaxEntries THEN Len(recorded)
                                                       ELSE MaxEntries
      /\ \A i \in 1 .. Len(entries) :
            entries[i].event = recorded[Len(recorded) - Len(entries) + i]
  BY DEF ConserveInv, NothingLost
<1> HIDE DEF e, entry, pushed
<1>10. \A i \in 1 .. Len(pushed) :
          pushed[i].event = recorded'[Len(recorded) - Len(entries) + i]
  <2> SUFFICES ASSUME NEW i \in 1 .. Len(pushed)
               PROVE  pushed[i].event
                        = recorded'[Len(recorded) - Len(entries) + i]
    OBVIOUS
  <2>1. CASE i \in 1 .. Len(entries)
    <3>1. Len(recorded) - Len(entries) + i \in 1 .. Len(recorded)
      BY <2>1, <1>8, <1>9, MaxEntriesAssumption
    <3> QED
      BY <3>1, <2>1, <1>4, <1>5, <1>9
  <2>2. CASE i = Len(entries) + 1
    <3>1. Len(recorded) - Len(entries) + i = Len(recorded) + 1
      BY <2>2, <1>8
    <3> QED
      BY <3>1, <2>2, <1>4, <1>5, <1>6
  <2> QED
    BY <2>1, <2>2, <1>4, <1>8
<1>11. CASE Len(pushed) <= MaxEntries
  <2>1. entries' = pushed
    BY <1>11, <1>7, <1>4, <1>8, MaxEntriesAssumption
  <2>2. Len(entries) = Len(recorded)
    BY <1>11, <1>4, <1>8, <1>9, MaxEntriesAssumption
  <2>3. Len(recorded') - Len(entries') = Len(recorded) - Len(entries)
    BY <2>1, <1>4, <1>5, <1>8
  <2>4. Len(entries') = IF Len(recorded') <= MaxEntries
                        THEN Len(recorded') ELSE MaxEntries
    BY <2>1, <2>2, <1>4, <1>5, <1>8, <1>11
  <2> QED
    BY <2>1, <2>3, <2>4, <1>5, <1>10
<1>12. CASE Len(pushed) > MaxEntries
  <2>1. /\ entries' = Tail(pushed)
        /\ Len(entries) = MaxEntries
        /\ Len(recorded) >= MaxEntries
    BY <1>12, <1>7, <1>4, <1>8, <1>9, MaxEntriesAssumption
  <2>2. /\ Len(Tail(pushed)) = MaxEntries
        /\ \A i \in 1 .. MaxEntries : Tail(pushed)[i] = pushed[i + 1]
    BY <2>1, <1>4, MaxEntriesAssumption, HeadTailProperties
  <2>3. Len(entries') = IF Len(recorded') <= MaxEntries
                        THEN Len(recorded') ELSE MaxEntries
    BY <2>1, <2>2, <1>5, <1>8, MaxEntriesAssumption
  <2>4. ASSUME NEW i \in 1 .. Len(entries')
        PROVE  entries'[i].event
                 = recorded'[Len(recorded') - Len(entries') + i]
    <3>1. i \in 1 .. MaxEntries /\ i + 1 \in 1 .. Len(pushed)
      BY <2>1, <2>2, <1>4, MaxEntriesAssumption
    <3>2. entries'[i] = pushed[i + 1]
      BY <3>1, <2>1, <2>2
    <3>3. Len(recorded) - Len(entries) + (i + 1)
            = Len(recorded') - Len(entries') + i
      <4>1. Len(entries') = MaxEntries /\ Len(entries) = MaxEntries
        BY <2>1, <2>2
      <4>2. Len(recorded') = Len(recorded) + 1
        BY <1>5
      <4>3. Len(recorded) - MaxEntries + (i + 1)
              = (Len(recorded) + 1) - MaxEntries + i
        BY <3>1, <1>8, MaxEntriesAssumption
      <4> QED
        BY <4>1, <4>2, <4>3
    <3> QED
      BY <3>1, <3>2, <3>3, <1>10
  <2> QED
    BY <2>3, <2>4, <1>5
<1> QED
  BY <1>11, <1>12, <1>4, <1>8, MaxEntriesAssumption

\* Every override that is triggered is recorded exactly once or is about to
\* be, whoever receives the events, and the log keeps the newest of them.
THEOREM OverridesRecorded == Spec => []NothingLost
<1>1. Init => ConserveInv
  <2> SUFFICES ASSUME Init PROVE ConserveInv
    OBVIOUS
  <2>1. LogType /\ ChainInv
    BY EmptyLog DEF Init
  <2>2. recorded \in Seq({}) /\ Len(recorded) = 0
    BY DEF Init
  <2>3. Busy = {} /\ Cardinality(Busy) = 0
    BY FS_EmptySet DEF Busy, Init
  <2>4. NothingLost
    BY <2>2, <2>3, MaxEntriesAssumption DEF NothingLost, Busy, Init, LogInit
  <2> QED
    BY <2>1, <2>2, <2>4 DEF ConserveInv, Init
<1>2. ConserveInv /\ [Next]_vars => ConserveInv'
  <2> SUFFICES ASSUME ConserveInv, [Next]_vars PROVE ConserveInv'
    OBVIOUS
  <2>1. IsFiniteSet(Busy) /\ Cardinality(Busy) \in Nat
    <3>1. IsFiniteSet(Threads)
      BY ThreadsAssumption
    <3>2. Busy \subseteq Threads
      BY DEF Busy
    <3> QED
      BY <3>1, <3>2, FS_Subset, FS_CardinalityType
  <2>2. Len(recorded) + Cardinality(Busy) = created
    BY DEF ConserveInv, NothingLost, Busy
  <2>3. Len(recorded) \in Nat
    BY DEF ConserveInv
  <2>4. ASSUME UNCHANGED <<logVars, recorded, created>>,
               pc' \in [Threads -> {"idle", "send", "audit"}],
               Busy' = Busy
        PROVE  ConserveInv'
    <3>1. LogType' /\ ChainInv'
      BY <2>4, UnchangedLog DEF ConserveInv
    <3>2. NothingLost'
      BY <2>4 DEF ConserveInv, NothingLost, Busy, logVars
    <3> QED
      BY <3>1, <3>2, <2>4 DEF ConserveInv
  <2>5. ASSUME NEW t \in Threads, NEW pfp, NEW seq, NEW src,
               Trigger(t, pfp, seq, src)
        PROVE  ConserveInv'
    <3>1. /\ UNCHANGED <<logVars, recorded>>
          /\ created' = created + 1
          /\ pc[t] = "idle"
          /\ pc' = [pc EXCEPT ![t] = "send"]
      BY <2>5 DEF Trigger
    <3>2. t \notin Busy /\ Busy' = Busy \cup {t}
      BY <3>1 DEF Busy, ConserveInv
    <3>3. Cardinality(Busy') = Cardinality(Busy) + 1
      BY <3>2, <2>1, FS_AddElement
    <3>4. LogType' /\ ChainInv'
      BY <3>1, UnchangedLog DEF ConserveInv
    <3>5. Len(recorded') + Cardinality(Busy') = created'
      BY <3>1, <3>3, <2>1, <2>2, <2>3
    <3>6. NothingLost'
      BY <3>1, <3>5 DEF ConserveInv, NothingLost, Busy, logVars
    <3> QED
      BY <3>1, <3>4, <3>6 DEF ConserveInv
  <2>6. ASSUME NEW t \in Threads, Audit(t) PROVE ConserveInv'
    <3>1. /\ created' = created
          /\ pc[t] = "audit"
          /\ pc' = [pc EXCEPT ![t] = "idle"]
          /\ AppendEvent(event[t])
      BY <2>6 DEF Audit
    <3>2. t \in Busy /\ Busy' = Busy \ {t}
      BY <3>1 DEF Busy, ConserveInv
    <3>3. Cardinality(Busy') = Cardinality(Busy) - 1
      BY <3>2, <2>1, FS_RemoveElement
    <3>4. LogType' /\ ChainInv'
      BY <3>1, AppendKeepsChain DEF ConserveInv
    <3>5. /\ \E S : recorded' \in Seq(S)
          /\ Len(recorded') = Len(recorded) + 1
          /\ Len(entries') = IF Len(recorded') <= MaxEntries
                             THEN Len(recorded') ELSE MaxEntries
          /\ \A i \in 1 .. Len(entries') :
                entries'[i].event
                  = recorded'[Len(recorded') - Len(entries') + i]
      BY <2>6, AuditKeepsNewest
    <3>6. Len(recorded') + Cardinality(Busy') = created'
      BY <3>1, <3>3, <3>5, <2>1, <2>2, <2>3
    <3>7. total_triggers' = Len(recorded')
      BY <3>1, <3>5 DEF AppendEvent, ConserveInv, NothingLost
    <3>8. NothingLost'
      BY <3>5, <3>6, <3>7 DEF NothingLost, Busy
    <3>9. pc' \in [Threads -> {"idle", "send", "audit"}] /\ created' \in Nat
      BY <3>1 DEF ConserveInv
    <3> QED
      BY <3>4, <3>5, <3>8, <3>9 DEF ConserveInv
  <2>7. ASSUME NEW t \in Threads, Send(t) PROVE ConserveInv'
    <3>1. /\ UNCHANGED <<logVars, recorded, created>>
          /\ pc[t] = "send"
          /\ pc' = [pc EXCEPT ![t] = "audit"]
      BY <2>7 DEF Send
    <3>2. Busy' = Busy
      BY <3>1 DEF Busy, ConserveInv
    <3>3. pc' \in [Threads -> {"idle", "send", "audit"}]
      BY <3>1 DEF ConserveInv
    <3> QED
      BY <3>1, <3>2, <3>3, <2>4
  <2>8. ASSUME Receive \/ DropReceiver \/ UNCHANGED vars
               \/ \E t \in Threads, pfp \in Pfps : Ignore(t, pfp)
        PROVE  ConserveInv'
    <3>1. UNCHANGED <<logVars, recorded, created, pc>>
      BY <2>8 DEF Receive, DropReceiver, Ignore, vars, threadVars
    <3> QED
      BY <3>1, <2>4 DEF Busy, ConserveInv
  <2> QED
    BY <2>5, <2>6, <2>7, <2>8 DEF Next, Progress
<1>3. ConserveInv => NothingLost
  BY DEF ConserveInv
<1> QED
  BY <1>1, <1>2, <1>3, PTL DEF Spec
=============================================================================
