------------------------- MODULE ReplayCacheProofs -------------------------
(***************************************************************************)
(* Proofs about ReplayCache, for every number of threads, keys, shards,    *)
(* every capacity, TTL and bound.                                          *)
(***************************************************************************)
EXTENDS ReplayCache, TLAPS, FiniteSetTheorems

USE ThreadsAssumption, KeysAssumption, ShardOfAssumption, MaxSeqAssumption,
    CapAssumption, TTLAssumption, NoEntryAssumption, SerialAssumption,
    BoundsAssumption

\* What the typing of entries rests on: nobody removes an entry while a
\* reader guards it, and a thread about to insert owns an entry.
Ownership ==
    /\ \A t \in Threads : Guarding(t) => entries[arg[t].key] # NoEntry
    /\ \A t \in Threads : pc[t] \in {"insert", "restore"} => held[t] # NoEntry
    /\ \A t \in Threads : pc[t] = "insert" => held[t].seq = arg[t].seq

TypeInv == TypeOK /\ Ownership

LEMMA InitTypeInv == Init => TypeInv
  BY DEF Init, TypeInv, TypeOK, Ownership, Seqs, Pcs, CallPcs, LenPcs, Guarding

LEMMA StepTypeInv == TypeInv /\ [Next]_vars => TypeInv'
<1> SUFFICES ASSUME TypeInv, [Next]_vars PROVE TypeInv'
  OBVIOUS
<1> USE DEF TypeInv, TypeOK, Ownership, Seqs, Entry, Pcs, CallPcs, LenPcs,
        Guarding, Goto, Accept, locals
<1>1. ASSUME NEW t \in Threads, NEW k \in Keys, NEW s \in Seqs, Call(t, k, s)
      PROVE  TypeInv'
  BY <1>1 DEF Call
<1>2. ASSUME NEW t \in Threads, Cleanup(t) PROVE TypeInv'
  BY <1>2 DEF Cleanup
<1>3. ASSUME NEW t \in Threads, Clear(t) PROVE TypeInv'
  BY <1>3 DEF Clear
<1>4. ASSUME NEW t \in Threads, Rejected(t) PROVE TypeInv'
  BY <1>4 DEF Rejected
<1>5. ASSUME NEW t \in Threads, Newer(t) PROVE TypeInv'
  BY <1>5 DEF Newer
<1>6. ASSUME NEW t \in Threads, Store(t) PROVE TypeInv'
  <2> DEFINE k == arg[t].key
             e == [entries[k] EXCEPT !.seq = arg[t].seq]
             a == [seq |-> arg[t].seq, at |-> now]
  <2>1. /\ k \in Keys /\ arg[t].seq \in Seqs /\ entries[k] \in Entry
        /\ pc[t] = "store" /\ pc' = [pc EXCEPT ![t] = "touch"]
        /\ UNCHANGED <<arg, held, unread, seen, base, swept, now, calls>>
    BY <1>6 DEF Store
  <2>2. /\ entries' = [entries EXCEPT ![k] = e]
        /\ admitted' = [admitted EXCEPT ![k] = a]
        /\ accepted' = accepted \cup {<<k, arg[t].seq>>}
        /\ admits' = admits + 1
    BY <1>6 DEF Store
  <2>3. e \in Entry /\ a \in Entry
    BY <2>1
  <2>4. accepted' \in SUBSET (Keys \X Seqs)
    BY <2>1, <2>2
  <2> HIDE DEF k, e, a
  <2>5. TypeOK'
    BY <2>1, <2>2, <2>3, <2>4
  <2>6. Ownership'
    BY <2>1, <2>2, <2>3, NoEntryAssumption
  <2> QED
    BY <2>5, <2>6
<1>7. ASSUME NEW t \in Threads, Touch(t) PROVE TypeInv'
  <2> DEFINE k == arg[t].key
             e == [entries[k] EXCEPT !.at = now]
  <2>1. k \in Keys /\ entries[k] \in Entry /\ e \in Entry
    BY <1>7, SMTT(60) DEF Touch
  <2>2. entries' = [entries EXCEPT ![k] = e]
    BY <1>7 DEF Touch
  <2> HIDE DEF k, e
  <2> QED
    BY <1>7, <2>1, <2>2, SMTT(60) DEF Touch
<1>8. ASSUME NEW t \in Threads, Miss(t) PROVE TypeInv'
  BY <1>8 DEF Miss
<1>9. ASSUME NEW t \in Threads, NEW s \in Shards, ReadShard(t, s) PROVE TypeInv'
  BY <1>9 DEF ReadShard, Present, InShard
<1>10. ASSUME NEW t \in Threads, CacheFull(t) PROVE TypeInv'
  BY <1>10 DEF CacheFull
<1>11. ASSUME NEW t \in Threads, HasRoom(t) PROVE TypeInv'
  BY <1>11 DEF HasRoom
<1>12. ASSUME NEW t \in Threads, InsertNew(t) PROVE TypeInv'
  BY <1>12 DEF InsertNew
<1>13. ASSUME NEW t \in Threads, InsertNewer(t) PROVE TypeInv'
  BY <1>13 DEF InsertNewer
<1>14. ASSUME NEW t \in Threads, InsertOlder(t) PROVE TypeInv'
  BY <1>14 DEF InsertOlder
<1>15. ASSUME NEW t \in Threads, Restore(t) PROVE TypeInv'
  BY <1>15 DEF Restore
<1>16. ASSUME NEW t \in Threads, StartSweep(t) PROVE TypeInv'
  BY <1>16 DEF StartSweep
<1>17. ASSUME NEW t \in Threads, NEW s \in Shards, SweepShard(t, s) PROVE TypeInv'
  BY <1>17 DEF SweepShard, Writable, Present, InShard
<1>18. ASSUME NEW t \in Threads, EndSweep(t) PROVE TypeInv'
  BY <1>18 DEF EndSweep
<1>19. ASSUME NEW t \in Threads, EndCleanup(t) PROVE TypeInv'
  BY <1>19 DEF EndCleanup
<1>20. ASSUME NEW t \in Threads, NEW s \in Shards, ClearShard(t, s) PROVE TypeInv'
  BY <1>20 DEF ClearShard, Writable, InShard
<1>21. ASSUME NEW t \in Threads, EndClear(t) PROVE TypeInv'
  BY <1>21 DEF EndClear
<1>22. ASSUME NEW k \in Keys, Remove(k) PROVE TypeInv'
  BY <1>22 DEF Remove, Writable
<1>23. CASE Tick
  BY <1>23 DEF Tick
<1>24. CASE UNCHANGED vars
  BY <1>24 DEF vars
<1> QED
  BY <1>1, <1>2, <1>3, <1>4, <1>5, <1>6, <1>7, <1>8, <1>9, <1>10, <1>11,
     <1>12, <1>13, <1>14, <1>15, <1>16, <1>17, <1>18, <1>19, <1>20, <1>21,
     <1>22, <1>23, <1>24 DEF Next, Progress

\* Every variable keeps its type, whatever the interleaving: in particular
\* update_seq never runs on an entry that retain, clear or remove took away.
THEOREM TypeCorrect == Spec => []TypeOK
<1>1. TypeInv => TypeOK
  BY DEF TypeInv
<1> QED
  BY <1>1, InitTypeInv, StepTypeInv, PTL DEF Spec

----------------------------------------------------------------------------
(* No source is blocked without cause. *)

\* Some frame of source k with a seq of at least n has been accepted.
Backed(k, n) == \E s \in Seqs : <<k, s>> \in accepted /\ s >= n

\* Every entry in the map, the short-lived ones of lost registration races
\* included, and every displaced entry about to be put back, stands for a
\* frame that was accepted.
BackedInv ==
    /\ \A k \in Keys : entries[k] # NoEntry => Backed(k, entries[k].seq)
    /\ \A t \in Threads :
          pc[t] = "restore" => Backed(arg[t].key, held[t].seq)

LEMMA InitBacked == Init => BackedInv
  BY DEF Init, BackedInv

\* Acceptances are never forgotten by the history.
LEMMA BackedMonotone ==
    ASSUME NEW k, NEW n, Backed(k, n), accepted \subseteq accepted'
    PROVE  Backed(k, n)'
  BY DEF Backed

\* A frame backs every smaller number too.
LEMMA BackedBelow ==
    ASSUME NEW k, NEW m \in Seqs, NEW n \in Seqs, n <= m, Backed(k, m)'
    PROVE  Backed(k, n)'
<1>1. PICK s \in Seqs : <<k, s>> \in accepted' /\ s >= m
  BY DEF Backed
<1>2. s >= n
  BY <1>1 DEF Seqs
<1> QED
  BY <1>1, <1>2 DEF Backed

\* Steps that leave the map, the arguments and the owned entries alone.
LEMMA BackedFrame ==
    ASSUME BackedInv, accepted' = accepted, arg' = arg, entries' = entries,
           \A t \in Threads : pc'[t] = "restore" =>
                                 pc[t] = "restore" /\ held'[t] = held[t]
    PROVE  BackedInv'
  BY BackedMonotone DEF BackedInv

\* Steps that write one entry, backed after the step.
LEMMA BackedWrite ==
    ASSUME TypeInv, BackedInv, NEW k \in Keys, NEW e \in Entry,
           entries' = [entries EXCEPT ![k] = e],
           Backed(k, e.seq)', accepted \subseteq accepted', arg' = arg,
           \A t \in Threads : pc'[t] = "restore" =>
                                 \/ pc[t] = "restore" /\ held'[t] = held[t]
                                 \/ Backed(arg[t].key, held[t].seq)'
    PROVE  BackedInv'
<1>1. ASSUME NEW j \in Keys, entries'[j] # NoEntry
      PROVE  Backed(j, entries[j].seq)'
  <2>1. CASE j = k
    BY <2>1 DEF TypeInv, TypeOK
  <2>2. CASE j # k
    <3>1. entries'[j] = entries[j]
      BY <2>2 DEF TypeInv, TypeOK
    <3> QED
      BY <1>1, <3>1, BackedMonotone DEF BackedInv
  <2> QED
    BY <2>1, <2>2
<1>2. ASSUME NEW t \in Threads, pc'[t] = "restore"
      PROVE  Backed(arg[t].key, held[t].seq)'
  BY <1>2, BackedMonotone DEF BackedInv
<1> QED
  BY <1>1, <1>2 DEF BackedInv

\* The frame just accepted backs its own number.
LEMMA AcceptBacks ==
    ASSUME TypeInv, NEW k \in Keys, NEW s \in Seqs, NEW at, Accept(k, s, at)
    PROVE  Backed(k, s)' /\ accepted \subseteq accepted'
  BY DEF Accept, Backed, Seqs

LEMMA StepBacked == TypeInv /\ BackedInv /\ [Next]_vars => BackedInv'
<1> SUFFICES ASSUME TypeInv, BackedInv, [Next]_vars PROVE BackedInv'
  OBVIOUS
<1> USE DEF TypeInv, TypeOK, Pcs, CallPcs, LenPcs, Goto, locals
<1>1. ASSUME NEW t \in Threads, NEW k \in Keys, NEW s \in Seqs, Call(t, k, s)
      PROVE  BackedInv'
  BY <1>1, BackedMonotone DEF Call, BackedInv
<1>2. ASSUME NEW t \in Threads,
             \/ Rejected(t) \/ Newer(t) \/ Miss(t) \/ CacheFull(t)
             \/ HasRoom(t) \/ StartSweep(t) \/ EndSweep(t) \/ EndCleanup(t)
             \/ EndClear(t) \/ Cleanup(t) \/ Clear(t)
             \/ \E s \in Shards : ReadShard(t, s)
      PROVE  BackedInv'
  BY <1>2, BackedFrame DEF Rejected, Newer, Miss, CacheFull, HasRoom,
     StartSweep, EndSweep, EndCleanup, EndClear, Cleanup, Clear, ReadShard
<1>3. ASSUME NEW t \in Threads, Store(t) PROVE BackedInv'
  <2>1. /\ arg[t].key \in Keys /\ arg[t].seq \in Seqs
        /\ entries[arg[t].key] \in Entry
    BY <1>3 DEF Store, Ownership, Guarding
  <2>2. LET e == [entries[arg[t].key] EXCEPT !.seq = arg[t].seq]
        IN  e \in Entry /\ e.seq = arg[t].seq
    BY <2>1 DEF Entry
  <2>3. PICK k \in Keys, s \in Seqs, e \in Entry :
          /\ k = arg[t].key /\ s = arg[t].seq
          /\ e = [entries[k] EXCEPT !.seq = s]
          /\ e.seq = s
    BY <2>1, <2>2
  <2>4. entries' = [entries EXCEPT ![k] = e] /\ Accept(k, s, now)
    BY <1>3, <2>3 DEF Store
  <2>5. Backed(k, s)' /\ accepted \subseteq accepted'
    BY <2>4, AcceptBacks DEF Accept, Backed, Seqs
  <2>6. arg' = arg /\ \A u \in Threads : pc'[u] = "restore" =>
                         pc[u] = "restore" /\ held'[u] = held[u]
    BY <1>3 DEF Store
  <2> QED
    BY <2>3, <2>4, <2>5, <2>6, BackedWrite
<1>4. ASSUME NEW t \in Threads, Touch(t) PROVE BackedInv'
  <2>1. PICK k \in Keys, e \in Entry :
          /\ k = arg[t].key /\ e = [entries[k] EXCEPT !.at = now]
          /\ entries[k] # NoEntry /\ e.seq = entries[k].seq
    BY <1>4, SMTT(60) DEF Touch, Ownership, Guarding, Entry
  <2>2. entries' = [entries EXCEPT ![k] = e] /\ accepted' = accepted
    BY <1>4, <2>1 DEF Touch
  <2>3. Backed(k, e.seq)'
    BY <2>1, <2>2 DEF BackedInv, Backed
  <2>4. arg' = arg /\ \A u \in Threads : pc'[u] = "restore" =>
                         pc[u] = "restore" /\ held'[u] = held[u]
    BY <1>4 DEF Touch
  <2> QED
    BY <2>1, <2>2, <2>3, <2>4, BackedWrite
<1>5. ASSUME NEW t \in Threads, InsertNew(t) \/ InsertNewer(t)
      PROVE  BackedInv'
  <2>1. PICK k \in Keys, e \in Entry :
          k = arg[t].key /\ e = held[t] /\ e.seq \in Seqs
    BY <1>5 DEF InsertNew, InsertNewer, Ownership, Entry
  <2>2. entries' = [entries EXCEPT ![k] = e] /\ Accept(k, e.seq, e.at)
    BY <1>5, <2>1 DEF InsertNew, InsertNewer
  <2>3. Backed(k, e.seq)' /\ accepted \subseteq accepted'
    BY <2>1, <2>2 DEF Accept, Backed, Seqs
  <2>4. arg' = arg /\ \A u \in Threads : pc'[u] = "restore" =>
                         pc[u] = "restore" /\ held'[u] = held[u]
    BY <1>5 DEF InsertNew, InsertNewer
  <2> QED
    BY <2>1, <2>2, <2>3, <2>4, BackedWrite
<1>6. ASSUME NEW t \in Threads, InsertOlder(t) PROVE BackedInv'
  <2>1. PICK k \in Keys, e \in Entry, o \in Entry :
          /\ k = arg[t].key /\ e = held[t] /\ o = entries[k]
          /\ e.seq <= o.seq /\ o # NoEntry
    BY <1>6 DEF InsertOlder, Ownership
  <2>2. entries' = [entries EXCEPT ![k] = e] /\ accepted' = accepted
    BY <1>6, <2>1 DEF InsertOlder
  <2>3. Backed(k, o.seq)'
    BY <2>1, <2>2 DEF BackedInv, Backed
  <2>4. Backed(k, e.seq)'
    <3>1. e.seq \in Seqs /\ o.seq \in Seqs /\ e.seq <= o.seq
      BY <2>1 DEF Entry
    <3> QED
      BY <2>3, <3>1, BackedBelow
  <2>5. arg' = arg /\ \A u \in Threads : pc'[u] = "restore" =>
                         \/ arg[u].key = k /\ held'[u] = o
                         \/ pc[u] = "restore" /\ held'[u] = held[u]
    BY <1>6, <2>1 DEF InsertOlder
  <2>6. \A u \in Threads : pc'[u] = "restore" =>
                         \/ pc[u] = "restore" /\ held'[u] = held[u]
                         \/ Backed(arg[u].key, held[u].seq)'
    BY <2>3, <2>5
  <2> QED
    BY <2>1, <2>2, <2>4, <2>5, <2>6, BackedWrite
<1>7. ASSUME NEW t \in Threads, Restore(t) PROVE BackedInv'
  <2>1. PICK k \in Keys, e \in Entry :
          k = arg[t].key /\ e = held[t] /\ Backed(k, e.seq)
    BY <1>7 DEF Restore, Ownership, BackedInv
  <2>2. entries' = [entries EXCEPT ![k] = e] /\ accepted' = accepted
    BY <1>7, <2>1 DEF Restore
  <2>3. Backed(k, e.seq)'
    BY <2>1, <2>2 DEF Backed
  <2>4. arg' = arg /\ \A u \in Threads : pc'[u] = "restore" =>
                         pc[u] = "restore" /\ held'[u] = held[u]
    BY <1>7 DEF Restore
  <2> QED
    BY <2>1, <2>2, <2>3, <2>4, BackedWrite
<1>8. ASSUME NEW t \in Threads, NEW s \in Shards, SweepShard(t, s)
      PROVE  BackedInv'
  BY <1>8 DEF SweepShard, BackedInv, Backed
<1>9. ASSUME NEW t \in Threads, NEW s \in Shards, ClearShard(t, s)
      PROVE  BackedInv'
  BY <1>9 DEF ClearShard, BackedInv, Backed
<1>10. ASSUME NEW k \in Keys, Remove(k) PROVE BackedInv'
  BY <1>10 DEF Remove, BackedInv, Backed
<1>11. CASE Tick \/ UNCHANGED vars
  BY <1>11, BackedFrame DEF Tick, vars
<1> QED
  BY <1>1, <1>2, <1>3, <1>4, <1>5, <1>6, <1>7, <1>8, <1>9, <1>10, <1>11
  DEF Next, Progress

\* A frame is rejected as a replay only if a frame of the same source with an
\* equal or higher seq was accepted before, whatever the interleaving of
\* check_and_update, cleanup_expired, clear and remove.
THEOREM RejectsAreJustified == Spec => NoFalseReject
<1> DEFINE Justified == \A t \in Threads : Rejects(t) =>
               \E s \in Seqs : /\ <<arg[t].key, s>> \in accepted
                               /\ s >= arg[t].seq
<1>1. TypeInv /\ BackedInv /\ [Next]_vars => [Justified]_vars
  <2> SUFFICES ASSUME TypeInv, BackedInv, Next,
                      NEW t \in Threads, Rejects(t)
               PROVE  Backed(arg[t].key, arg[t].seq)
    BY DEF Backed
  <2>1. Rejected(t) \/ InsertOlder(t)
    <3> USE DEF Rejects, TypeInv, TypeOK, Goto, locals
    <3>1. ASSUME NEW u \in Threads, NEW k \in Keys, NEW s \in Seqs,
                 Call(u, k, s)
          PROVE  FALSE
      BY <3>1 DEF Call
    <3>2. ASSUME NEW u \in Threads, Cleanup(u) \/ Clear(u) PROVE FALSE
      BY <3>2 DEF Cleanup, Clear
    <3>3. ASSUME NEW u \in Threads, Rejected(u) \/ InsertOlder(u)
          PROVE  u = t
      BY <3>3 DEF Rejected, InsertOlder
    <3>4. ASSUME NEW u \in Threads,
                 Newer(u) \/ Store(u) \/ Touch(u) \/ Miss(u)
          PROVE  FALSE
      BY <3>4 DEF Newer, Store, Touch, Miss
    <3>5. ASSUME NEW u \in Threads,
                 CacheFull(u) \/ HasRoom(u) \/ InsertNew(u) \/ InsertNewer(u)
                 \/ Restore(u)
          PROVE  FALSE
      BY <3>5 DEF CacheFull, HasRoom, InsertNew, InsertNewer, Restore
    <3>6. ASSUME NEW u \in Threads,
                 StartSweep(u) \/ EndSweep(u) \/ EndCleanup(u) \/ EndClear(u)
          PROVE  FALSE
      BY <3>6 DEF StartSweep, EndSweep, EndCleanup, EndClear
    <3>7. ASSUME NEW u \in Threads, NEW s \in Shards,
                 ReadShard(u, s) \/ SweepShard(u, s) \/ ClearShard(u, s)
          PROVE  FALSE
      BY <3>7 DEF ReadShard, SweepShard, ClearShard
    <3>8. ASSUME (\E k \in Keys : Remove(k)) \/ Tick PROVE FALSE
      BY <3>8 DEF Remove, Tick
    <3> QED
      BY <3>1, <3>2, <3>3, <3>4, <3>5, <3>6, <3>7, <3>8 DEF Next, Progress
  <2>2. /\ arg[t].key \in Keys /\ arg[t].seq \in Seqs
        /\ entries[arg[t].key] \in Entry
        /\ arg[t].seq <= entries[arg[t].key].seq
    BY <2>1 DEF Rejected, InsertOlder, TypeInv, TypeOK, Ownership, Seqs
  <2>3. Backed(arg[t].key, entries[arg[t].key].seq)
    BY <2>2, NoEntryAssumption DEF BackedInv
  <2> QED
    BY <2>2, <2>3 DEF Backed, Entry, Seqs
<1> QED
  BY <1>1, InitTypeInv, StepTypeInv, InitBacked, StepBacked, PTL
  DEF Spec, NoFalseReject

----------------------------------------------------------------------------
(* The capacity is exceeded by less than one entry per thread. *)

LEMMA SubKeys ==
    ASSUME NEW S \in SUBSET Keys
    PROVE  IsFiniteSet(S) /\ Cardinality(S) \in Nat
  BY FS_Subset, FS_CardinalityType

LEMMA SubThreads ==
    ASSUME NEW S \in SUBSET Threads
    PROVE  IsFiniteSet(S) /\ Cardinality(S) \in Nat
  BY FS_Subset, FS_CardinalityType

\* Threads that count and threads that insert are different threads.
LEMMA DisjointThreads ==
    ASSUME NEW S \in SUBSET Threads, NEW I \in SUBSET Threads, S \cap I = {}
    PROVE  Cardinality(S) + Cardinality(I) <= Cardinality(Threads)
<1>1. S \cup I \in SUBSET Threads
  OBVIOUS
<1>2. Cardinality(S \cup I) = Cardinality(S) + Cardinality(I)
  <2>1. /\ IsFiniteSet(S) /\ IsFiniteSet(I) /\ Cardinality(S \cap I) = 0
        /\ Cardinality(S) \in Nat /\ Cardinality(I) \in Nat
    BY SubThreads, FS_EmptySet
  <2>2. Cardinality(S \cup I)
          = Cardinality(S) + Cardinality(I) - Cardinality(S \cap I)
    BY <2>1, FS_Union
  <2> QED
    BY <2>1, <2>2
<1>3. Cardinality(S \cup I) <= Cardinality(Threads)
  BY <1>1, FS_Subset
<1> QED
  BY <1>2, <1>3

\* Taking a set away from D takes away at least as much as from a view V.
LEMMA RemovalDominates ==
    ASSUME NEW D, NEW V, NEW D2, NEW V2, IsFiniteSet(D), IsFiniteSet(V),
           D2 \subseteq D, V2 \subseteq V, V \ V2 \subseteq D \ D2
    PROVE  Cardinality(D2) - Cardinality(V2) <= Cardinality(D) - Cardinality(V)
<1>1. /\ IsFiniteSet(D2) /\ IsFiniteSet(V2)
      /\ IsFiniteSet(D \ D2) /\ IsFiniteSet(V \ V2)
  BY FS_Subset
<1>2. /\ Cardinality(D2) \in Nat /\ Cardinality(V2) \in Nat
      /\ Cardinality(D) \in Nat /\ Cardinality(V) \in Nat
      /\ Cardinality(D \ D2) \in Nat /\ Cardinality(V \ V2) \in Nat
  BY <1>1, FS_CardinalityType
<1>3. Cardinality(V \ V2) <= Cardinality(D \ D2)
  BY <1>1, FS_Subset
<1>4. Cardinality(D \ D2) = Cardinality(D) - Cardinality(D2)
  <2>1. D \cap D2 = D2
    OBVIOUS
  <2> QED
    BY <2>1, <1>2, FS_Difference
<1>5. Cardinality(V \ V2) = Cardinality(V) - Cardinality(V2)
  <2>1. V \cap V2 = V2
    OBVIOUS
  <2> QED
    BY <2>1, <1>2, FS_Difference
<1> QED
  BY <1>2, <1>3, <1>4, <1>5

\* The sets CapacityInv counts are finite.
LEMMA CapacitySets ==
    ASSUME TypeInv
    PROVE  /\ Present \in SUBSET Keys
           /\ Inserting \in SUBSET Threads
           /\ Counting \in SUBSET Threads
           /\ Counting \cap Inserting = {}
           /\ \A t \in Threads : View(t) \in SUBSET Keys
  BY DEF TypeInv, TypeOK, Present, Inserting, Counting, View

\* Steps that neither add to the load nor take anything from a view.
LEMMA CapacityKeep ==
    ASSUME TypeInv, TypeInv', CapacityInv,
           Cardinality(Present') + Cardinality(Inserting') <=
              Cardinality(Present) + Cardinality(Inserting),
           Counting' \subseteq Counting,
           \A t \in Counting' : View(t) \subseteq View(t)'
    PROVE  CapacityInv'
<1> SUFFICES ASSUME NEW S \in SUBSET Counting'
             PROVE  LET load == Cardinality(Present') + Cardinality(Inserting')
                        rest == Cardinality(Threads) - Cardinality(S)
                    IN  \/ load <= Cap - 1 + rest
                        \/ \E t \in S : load <= Cardinality(View(t)') + rest
  BY DEF CapacityInv
<1>1. /\ Cardinality(Present) \in Nat /\ Cardinality(Present') \in Nat
      /\ Cardinality(Inserting) \in Nat /\ Cardinality(Inserting') \in Nat
      /\ Cardinality(S) \in Nat /\ Cardinality(Threads) \in Nat
  BY CapacitySets, SubKeys, SubThreads, FS_CardinalityType
  DEF Present, Inserting, Counting
<1>2. \A t \in S : /\ Cardinality(View(t)) \in Nat
                   /\ Cardinality(View(t)') \in Nat
                   /\ Cardinality(View(t)) <= Cardinality(View(t)')
  <2> TAKE t \in S
  <2>1. View(t) \in SUBSET Keys
    BY DEF TypeInv, TypeOK, Present, Counting, View
  <2>2. View(t)' \in SUBSET Keys
    BY DEF TypeInv, TypeOK, Present, Counting, View
  <2>3. View(t) \in SUBSET (View(t)')
    OBVIOUS
  <2> QED
    BY <2>1, <2>2, <2>3, SubKeys, FS_Subset
<1>3. S \in SUBSET Counting
  OBVIOUS
<1>4. LET load == Cardinality(Present) + Cardinality(Inserting)
          rest == Cardinality(Threads) - Cardinality(S)
      IN  \/ load <= Cap - 1 + rest
          \/ \E t \in S : load <= Cardinality(View(t)) + rest
  BY <1>3 DEF CapacityInv
<1> QED
  BY <1>1, <1>2, <1>4

\* Steps that remove entries.
LEMMA CapacityRemove ==
    ASSUME TypeInv, TypeInv', CapacityInv,
           Inserting' = Inserting, Counting' = Counting,
           Present' \subseteq Present,
           \A t \in Counting : /\ View(t)' \subseteq View(t)
                               /\ View(t) \ View(t)' \subseteq
                                     Present \ Present'
    PROVE  CapacityInv'
<1> SUFFICES ASSUME NEW S \in SUBSET Counting'
             PROVE  LET load == Cardinality(Present') + Cardinality(Inserting')
                        rest == Cardinality(Threads) - Cardinality(S)
                    IN  \/ load <= Cap - 1 + rest
                        \/ \E t \in S : load <= Cardinality(View(t)') + rest
  BY DEF CapacityInv
<1>1. /\ Cardinality(Present) \in Nat /\ Cardinality(Present') \in Nat
      /\ Cardinality(Inserting) \in Nat
      /\ Cardinality(S) \in Nat /\ Cardinality(Threads) \in Nat
      /\ Cardinality(Present') <= Cardinality(Present)
  BY CapacitySets, SubKeys, SubThreads, FS_CardinalityType, FS_Subset
  DEF Present, Inserting, Counting
<1>2. \A t \in S : /\ Cardinality(View(t)) \in Nat
                   /\ Cardinality(View(t)') \in Nat
                   /\ Cardinality(Present') - Cardinality(View(t)')
                       <= Cardinality(Present) - Cardinality(View(t))
  <2> TAKE t \in S
  <2>1. View(t) \in SUBSET Keys /\ Present \in SUBSET Keys
    BY DEF TypeInv, TypeOK, Present, Counting, View
  <2>2. View(t)' \in SUBSET Keys
    BY DEF TypeInv, TypeOK, Present, Counting, View
  <2> QED
    BY <2>1, <2>2, SubKeys, RemovalDominates
<1>3. LET load == Cardinality(Present) + Cardinality(Inserting)
          rest == Cardinality(Threads) - Cardinality(S)
      IN  \/ load <= Cap - 1 + rest
          \/ \E t \in S : load <= Cardinality(View(t)) + rest
  BY DEF CapacityInv
<1> QED
  BY <1>1, <1>2, <1>3

\* A thread that begins to count sees, if nobody moves, the whole map.
LEMMA CapacityMiss ==
    ASSUME TypeInv, TypeInv', CapacityInv, NEW t \in Threads, Miss(t)
    PROVE  CapacityInv'
<1> SUFFICES ASSUME NEW S \in SUBSET Counting'
             PROVE  LET load == Cardinality(Present') + Cardinality(Inserting')
                        rest == Cardinality(Threads) - Cardinality(S)
                    IN  \/ load <= Cap - 1 + rest
                        \/ \E u \in S : load <= Cardinality(View(u)') + rest
  BY DEF CapacityInv
<1>1. /\ Present' = Present /\ Inserting' = Inserting
      /\ Counting' = Counting \cup {t}
      /\ \A u \in Counting : u # t /\ View(u)' = View(u)
      /\ View(t)' = Present
  BY DEF Miss, Goto, Present, Inserting, Counting, View, TypeInv, TypeOK
<1>2. /\ Cardinality(Present) \in Nat /\ Cardinality(Inserting) \in Nat
      /\ Cardinality(S) \in Nat /\ Cardinality(Threads) \in Nat
  BY CapacitySets, SubKeys, SubThreads, FS_CardinalityType DEF Counting
<1>3. CASE t \in S
  <2>1. Cardinality(S) + Cardinality(Inserting) <= Cardinality(Threads)
    <3>1. /\ S \in SUBSET Threads /\ Inserting \in SUBSET Threads
          /\ S \cap Inserting = {}
      BY <1>1 DEF Counting, Inserting, Miss
    <3> QED
      BY <3>1, DisjointThreads
  <2>2. Cardinality(Present') + Cardinality(Inserting')
          <= Cardinality(View(t)') + (Cardinality(Threads) - Cardinality(S))
    BY <1>1, <1>2, <2>1
  <2> QED
    BY <1>3, <2>2
<1>4. CASE t \notin S
  <2>1. S \in SUBSET Counting
    BY <1>1, <1>4
  <2> QED
    BY <1>1, <2>1 DEF CapacityInv
<1> QED
  BY <1>3, <1>4

\* A thread that found room joins those that insert: what it counted gives
\* the bound for the sets it was a member of.
LEMMA CapacityHasRoom ==
    ASSUME TypeInv, TypeInv', CapacityInv, NEW t \in Threads, HasRoom(t)
    PROVE  CapacityInv'
<1> SUFFICES ASSUME NEW S \in SUBSET Counting'
             PROVE  LET load == Cardinality(Present') + Cardinality(Inserting')
                        rest == Cardinality(Threads) - Cardinality(S)
                    IN  \/ load <= Cap - 1 + rest
                        \/ \E u \in S : load <= Cardinality(View(u)') + rest
  BY DEF CapacityInv
<1>1. /\ Present' = Present /\ Inserting' = Inserting \cup {t}
      /\ t \in Counting /\ t \notin Inserting
      /\ Counting' = Counting \ {t}
      /\ \A u \in Counting' : View(u)' = View(u)
      /\ Cardinality(View(t)) < Cap
  <2> USE DEF HasRoom, Goto, TypeInv, TypeOK
  <2>1. Present' = Present
    BY DEF Present
  <2>2. Inserting' = Inserting \cup {t} /\ t \notin Inserting
    BY DEF Inserting
  <2>3. t \in Counting /\ Counting' = Counting \ {t}
    BY DEF Counting
  <2>4. \A u \in Counting' : View(u)' = View(u)
    <3> TAKE u \in Counting'
    <3>1. u \in Threads /\ u # t
      BY <2>3 DEF Counting
    <3>2. seen'[u] = seen[u] /\ unread' = unread /\ entries' = entries
      BY <3>1
    <3> QED
      BY <3>2 DEF View, Present
  <2>5. View(t) = seen[t] /\ Cardinality(seen[t]) < Cap
    BY DEF View
  <2> QED
    BY <2>1, <2>2, <2>3, <2>4, <2>5
<1> DEFINE T == S \cup {t}
<1>2. /\ T \in SUBSET Counting /\ t \notin S /\ IsFiniteSet(S)
      /\ IsFiniteSet(Inserting) /\ View(t) \in SUBSET Keys
  BY <1>1, CapacitySets, SubThreads
<1>3. /\ Cardinality(T) = Cardinality(S) + 1
      /\ Cardinality(Inserting') = Cardinality(Inserting) + 1
  BY <1>1, <1>2, FS_AddElement
<1>4. /\ Cardinality(Present) \in Nat /\ Cardinality(Inserting) \in Nat
      /\ Cardinality(S) \in Nat /\ Cardinality(Threads) \in Nat
      /\ Cardinality(View(t)) \in Nat
  BY <1>2, CapacitySets, SubKeys, SubThreads, FS_CardinalityType
<1>5. PICK n \in Nat :
        /\ n <= Cap - 1 \/ \E u \in S : n = Cardinality(View(u))
        /\ Cardinality(Present) + Cardinality(Inserting)
             <= n + (Cardinality(Threads) - Cardinality(T))
  <2>1. LET load == Cardinality(Present) + Cardinality(Inserting)
            rest == Cardinality(Threads) - Cardinality(T)
        IN  \/ load <= Cap - 1 + rest
            \/ \E u \in T : load <= Cardinality(View(u)) + rest
    BY <1>2 DEF CapacityInv
  <2>2. \A u \in S : Cardinality(View(u)) \in Nat
    BY <1>2, CapacitySets, SubKeys
  <2>3. CASE Cardinality(Present) + Cardinality(Inserting)
               <= Cap - 1 + (Cardinality(Threads) - Cardinality(T))
    <3>1. Cap - 1 \in Nat
      OBVIOUS
    <3> QED
      BY <2>3, <3>1
  <2>4. ASSUME NEW u \in T,
               Cardinality(Present) + Cardinality(Inserting)
                 <= Cardinality(View(u)) + (Cardinality(Threads) - Cardinality(T))
        PROVE  \E n \in Nat :
                  /\ n <= Cap - 1 \/ \E v \in S : n = Cardinality(View(v))
                  /\ Cardinality(Present) + Cardinality(Inserting)
                       <= n + (Cardinality(Threads) - Cardinality(T))
    <3>1. CASE u = t
      <4>1. Cardinality(View(u)) \in Nat /\ Cardinality(View(u)) <= Cap - 1
        BY <3>1, <1>1, <1>4
      <4> QED
        BY <4>1, <2>4
    <3>2. CASE u # t
      <4>1. u \in S /\ Cardinality(View(u)) \in Nat
        BY <3>2, <2>2
      <4> QED
        BY <4>1, <2>4
    <3> QED
      BY <3>1, <3>2
  <2> QED
    BY <2>1, <2>3, <2>4
<1>6. Cardinality(Present') + Cardinality(Inserting')
        <= n + (Cardinality(Threads) - Cardinality(S))
  <2> HIDE DEF T
  <2> QED
    BY <1>1, <1>3, <1>4, <1>5
<1>7. CASE n <= Cap - 1
  <2>1. Cardinality(Present') \in Nat /\ Cardinality(Inserting') \in Nat
    BY <1>1, <1>3, <1>4
  <2> QED
    BY <1>4, <1>6, <1>7, <2>1
<1>8. ASSUME NEW u \in S, n = Cardinality(View(u))
      PROVE  Cardinality(Present') + Cardinality(Inserting')
               <= Cardinality(View(u)') + (Cardinality(Threads) - Cardinality(S))
  BY <1>1, <1>6, <1>8
<1> QED
  BY <1>5, <1>7, <1>8

LEMMA InitCapacity == Init => CapacityInv
<1> SUFFICES ASSUME Init, NEW S \in SUBSET Counting
             PROVE  Cardinality(Present) + Cardinality(Inserting)
                      <= Cap - 1 + (Cardinality(Threads) - Cardinality(S))
  BY DEF CapacityInv
<1>1. Present = {} /\ Inserting = {} /\ S = {}
  BY DEF Init, Present, Inserting, Counting
<1>2. Cardinality({}) = 0 /\ Cardinality(Threads) \in Nat
  BY FS_EmptySet, FS_CardinalityType
<1> QED
  BY <1>1, <1>2

LEMMA StepCapacity ==
    TypeInv /\ TypeInv' /\ CapacityInv /\ [Next]_vars => CapacityInv'
<1> SUFFICES ASSUME TypeInv, TypeInv', CapacityInv, [Next]_vars
             PROVE  CapacityInv'
  OBVIOUS
<1>0. /\ IsFiniteSet(Present) /\ IsFiniteSet(Inserting)
      /\ Cardinality(Present) \in Nat /\ Cardinality(Inserting) \in Nat
  BY CapacitySets, SubKeys, SubThreads
<1>1. ASSUME Present' = Present, Inserting' = Inserting,
             Counting' \subseteq Counting,
             \A t \in Counting' : View(t)' = View(t)
      PROVE  CapacityInv'
  BY <1>0, <1>1, CapacityKeep
<1> USE DEF Goto, locals, TypeInv, TypeOK
<1>2. ASSUME NEW t \in Threads, NEW k \in Keys, NEW s \in Seqs, Call(t, k, s)
      PROVE  CapacityInv'
  BY <1>1, <1>2 DEF Call, Present, Inserting, Counting, View
<1>3. ASSUME NEW t \in Threads, Rejected(t) \/ Newer(t) PROVE CapacityInv'
  BY <1>1, <1>3 DEF Rejected, Newer, Present, Inserting, Counting, View
<1>4. ASSUME NEW t \in Threads, CacheFull(t) PROVE CapacityInv'
  BY <1>1, <1>4 DEF CacheFull, Present, Inserting, Counting, View
<1>5. ASSUME NEW t \in Threads, Cleanup(t) \/ Clear(t) PROVE CapacityInv'
  BY <1>1, <1>5, ZenonT(60)
  DEF Cleanup, Clear, Present, Inserting, Counting, View
<1>6. ASSUME NEW t \in Threads, StartSweep(t) \/ EndSweep(t) PROVE CapacityInv'
  BY <1>1, <1>6, ZenonT(60)
  DEF StartSweep, EndSweep, Present, Inserting, Counting, View
<1>7. ASSUME NEW t \in Threads, EndCleanup(t) \/ EndClear(t) PROVE CapacityInv'
  BY <1>1, <1>7 DEF EndCleanup, EndClear, Present, Inserting, Counting, View
<1>8. CASE Tick \/ UNCHANGED vars
  BY <1>1, <1>8 DEF Tick, vars, Present, Inserting, Counting, View
<1>9. ASSUME NEW t \in Threads, Store(t) \/ Touch(t) PROVE CapacityInv'
  <2>1. PICK k \in Keys : /\ k = arg[t].key
                          /\ \A j \in Keys \ {k} : entries'[j] = entries[j]
                          /\ entries[k] # NoEntry /\ entries'[k] # NoEntry
    <3>1. CASE Store(t)
      BY <3>1 DEF Store, Ownership, Guarding
    <3>2. CASE Touch(t)
      <4>1. /\ arg[t].key \in Keys /\ entries[arg[t].key] \in Entry
            /\ entries[arg[t].key] # NoEntry
        BY <3>2 DEF Touch, Ownership, Guarding
      <4>2. [entries[arg[t].key] EXCEPT !.at = now] \in Entry
        BY <4>1 DEF Entry
      <4>3. entries' = [entries EXCEPT ![arg[t].key] =
                           [entries[arg[t].key] EXCEPT !.at = now]]
        BY <3>2 DEF Touch
      <4> QED
        BY <4>1, <4>2, <4>3, NoEntryAssumption
    <3> QED
      BY <1>9, <3>1, <3>2
  <2>2. Present' = Present
    BY <2>1 DEF Present
  <2> QED
    BY <1>1, <1>9, <2>2 DEF Store, Touch, Present, Inserting, Counting, View
<1>10. ASSUME NEW t \in Threads, NEW s \in Shards, ReadShard(t, s)
       PROVE  CapacityInv'
  <2>1. \A u \in Counting' : View(u)' = View(u)
    BY <1>10 DEF ReadShard, Present, InShard, Counting, View
  <2> QED
    BY <1>1, <1>10, <2>1 DEF ReadShard, Present, Inserting, Counting
<1>11. ASSUME NEW t \in Threads, InsertNew(t) \/ InsertNewer(t) \/ Restore(t)
       PROVE  CapacityInv'
  <2>1. PICK k \in Keys, e \in Entry :
          k = arg[t].key /\ e = held[t] /\ entries' = [entries EXCEPT ![k] = e]
    BY <1>11 DEF InsertNew, InsertNewer, Restore, Ownership
  <2>2. Present' = Present \cup {k}
    BY <2>1, NoEntryAssumption DEF Present
  <2>3. t \in Inserting /\ Inserting' = Inserting \ {t}
    BY <1>11 DEF InsertNew, InsertNewer, Restore, Inserting
  <2>4. /\ Cardinality(Present') <= Cardinality(Present) + 1
        /\ Cardinality(Inserting') = Cardinality(Inserting) - 1
        /\ Cardinality(Present') \in Nat
    <3>1. Cardinality(Present \cup {k}) <= Cardinality(Present) + 1
      <4>1. Cardinality(Present \cup {k}) =
              IF k \in Present THEN Cardinality(Present)
                               ELSE Cardinality(Present) + 1
        BY <1>0, FS_AddElement
      <4> QED
        BY <1>0, <4>1
    <3>2. Cardinality(Inserting \ {t}) = Cardinality(Inserting) - 1
      BY <1>0, <2>3, FS_RemoveElement
    <3>3. IsFiniteSet(Present \cup {k})
      BY <1>0, FS_AddElement
    <3> QED
      BY <2>2, <2>3, <3>1, <3>2, <3>3, FS_CardinalityType
  <2>5. Cardinality(Present') + Cardinality(Inserting')
          <= Cardinality(Present) + Cardinality(Inserting)
    BY <1>0, <2>4
  <2>6. Counting' \subseteq Counting
    BY <1>11 DEF InsertNew, InsertNewer, Restore, Counting
  <2>7. \A u \in Counting' : View(u) \subseteq View(u)'
    BY <1>11, <2>2 DEF InsertNew, InsertNewer, Restore, Present, View
  <2> QED
    BY <2>5, <2>6, <2>7, CapacityKeep
<1>12. ASSUME NEW t \in Threads, InsertOlder(t) PROVE CapacityInv'
  <2>1. PICK k \in Keys, e \in Entry :
          /\ k = arg[t].key /\ e = held[t] /\ entries[k] # NoEntry
          /\ entries' = [entries EXCEPT ![k] = e]
    BY <1>12 DEF InsertOlder, Ownership
  <2>2. Present' = Present
    BY <2>1, NoEntryAssumption DEF Present
  <2>3. Inserting' = Inserting
    BY <1>12 DEF InsertOlder, Inserting
  <2>4. Counting' \subseteq Counting /\ \A u \in Counting' : View(u)' = View(u)
    BY <1>12, <2>2 DEF InsertOlder, Counting, Present, View
  <2> QED
    BY <1>1, <2>2, <2>3, <2>4
<1>13. ASSUME NEW t \in Threads, NEW s \in Shards, SweepShard(t, s)
       PROVE  CapacityInv'
  BY <1>13, CapacityRemove DEF SweepShard, Present, Inserting, Counting, View
<1>14. ASSUME NEW t \in Threads, NEW s \in Shards, ClearShard(t, s)
       PROVE  CapacityInv'
  BY <1>14, CapacityRemove DEF ClearShard, Present, Inserting, Counting, View
<1>15. ASSUME NEW k \in Keys, Remove(k) PROVE CapacityInv'
  BY <1>15, CapacityRemove DEF Remove, Present, Inserting, Counting, View
<1> QED
  BY <1>2, <1>3, <1>4, <1>5, <1>6, <1>7, <1>8, <1>9, <1>10, <1>11, <1>12,
     <1>13, <1>14, <1>15, CapacityMiss, CapacityHasRoom DEF Next, Progress

\* Whatever some of the counting threads are going to answer, there is room
\* for what is present and announced and one entry for each further thread.
THEOREM CapacityCounted == Spec => []CapacityInv
BY InitTypeInv, StepTypeInv, InitCapacity, StepCapacity, PTL DEF Spec

\* The map never holds more than Cap - 1 entries plus one for each thread,
\* although check_and_update counts shard by shard and inserts later.
THEOREM CapacityOvershoot == Spec => []CapacityBound
<1>1. TypeInv /\ CapacityInv => CapacityBound
  <2> SUFFICES ASSUME TypeInv, CapacityInv PROVE CapacityBound
    OBVIOUS
  <2>1. {} \in SUBSET Counting /\ Cardinality({}) = 0
    BY FS_EmptySet
  <2>2. Cardinality(Present) + Cardinality(Inserting)
          <= Cap - 1 + (Cardinality(Threads) - 0)
    BY <2>1 DEF CapacityInv
  <2>3. /\ Cardinality(Present) \in Nat /\ Cardinality(Inserting) \in Nat
        /\ Cardinality(Threads) \in Nat
    BY CapacitySets, SubKeys, SubThreads, FS_CardinalityType
  <2> QED
    BY <2>2, <2>3 DEF CapacityBound
<1> QED
  BY <1>1, InitTypeInv, StepTypeInv, InitCapacity, StepCapacity, PTL DEF Spec

----------------------------------------------------------------------------
(* cleanup_expired that nobody else gets in the way of *)

\* Where a thread alone is in cleanup_expired: before is the number of
\* entries there are and entries it dropped; a len counts what it has passed,
\* the second one from nothing.
AloneInv ==
    \A t \in Threads :
       /\ pc[t] \in {"sweep", "after"} =>
             base[t] = Present \cup swept[t] /\ Present \cap swept[t] = {}
       /\ pc[t] \in {"before", "after"} =>
             seen[t] = {k \in Present : ShardOf[k] \notin unread[t]}
       /\ pc[t] = "sweep" => seen[t] = {}

LEMMA StepAlone ==
    ASSUME \A t, u \in Threads : t = u,
           TypeInv, AloneInv, [Next]_vars
    PROVE  AloneInv'
<1> USE DEF TypeInv, TypeOK, AloneInv, Goto, Present, locals
<1>1. ASSUME NEW t \in Threads, pc'[t] \notin {"sweep", "after", "before"}
      PROVE  AloneInv'
  BY <1>1
<1>2. ASSUME NEW t \in Threads, NEW k \in Keys, NEW s \in Seqs, Call(t, k, s)
      PROVE  AloneInv'
  BY <1>1, <1>2 DEF Call
<1>3. ASSUME NEW t \in Threads,
             \/ Rejected(t) \/ Newer(t) \/ Store(t) \/ Touch(t) \/ Miss(t)
             \/ CacheFull(t) \/ HasRoom(t) \/ InsertNew(t)
             \/ InsertNewer(t) \/ InsertOlder(t) \/ Restore(t)
             \/ EndCleanup(t) \/ EndClear(t) \/ Clear(t)
      PROVE  AloneInv'
  <2>1. pc'[t] \notin {"sweep", "after", "before"}
    BY <1>3 DEF Rejected, Newer, Store, Touch, Miss, CacheFull, HasRoom,
       InsertNew, InsertNewer, InsertOlder, Restore, EndCleanup, EndClear,
       Clear
  <2> QED
    BY <1>1, <2>1
<1>4. ASSUME NEW t \in Threads, NEW s \in Shards, ReadShard(t, s)
      PROVE  AloneInv'
  <2>1. /\ pc' = pc /\ pc[t] \in {"len", "before", "after"} /\ Present' = Present
        /\ base' = base /\ swept' = swept
        /\ seen'[t] = seen[t] \cup {k \in Present : ShardOf[k] = s}
        /\ unread'[t] = unread[t] \ {s}
    BY <1>4 DEF ReadShard, InShard, LenPcs
  <2>2. pc[t] # "len" =>
           seen'[t] = {k \in Present : ShardOf[k] \notin unread'[t]}
    BY <2>1, <1>4 DEF ReadShard
  <2> QED
    BY <2>1, <2>2
<1>5. ASSUME NEW t \in Threads, Cleanup(t) PROVE AloneInv'
  BY <1>5 DEF Cleanup
<1>6. ASSUME NEW t \in Threads, StartSweep(t) PROVE AloneInv'
  BY <1>6 DEF StartSweep
<1>7. ASSUME NEW t \in Threads, NEW s \in Shards, SweepShard(t, s)
      PROVE  AloneInv'
  BY <1>7 DEF SweepShard
<1>8. ASSUME NEW t \in Threads, EndSweep(t) PROVE AloneInv'
  BY <1>8 DEF EndSweep
<1>9. ASSUME NEW t \in Threads, NEW s \in Shards, ClearShard(t, s)
      PROVE  AloneInv'
  BY <1>1, <1>9 DEF ClearShard
<1>10. ASSUME NEW k \in Keys, Remove(k) PROVE AloneInv'
  BY <1>1, <1>10 DEF Remove
<1>11. CASE Tick \/ UNCHANGED vars
  BY <1>11 DEF Tick, vars
<1> QED
  BY <1>2, <1>3, <1>4, <1>5, <1>6, <1>7, <1>8, <1>9, <1>10, <1>11
  DEF Next, Progress

\* With one thread the number that cleanup_expired returns is that of the
\* entries it cleaned, as line 217 says; the run that refutes it needs two.
THEOREM CleanupExactAlone ==
    (\A t, u \in Threads : t = u) => (Spec => CleanupCountExact)
<1> SUFFICES ASSUME \A t, u \in Threads : t = u
             PROVE  Spec => CleanupCountExact
  OBVIOUS
<1>1. Init => AloneInv
  BY DEF Init, AloneInv
<1>2. TypeInv /\ AloneInv /\ [Next]_vars => AloneInv'
  BY StepAlone
<1>3. TypeInv /\ AloneInv /\ [Next]_vars
        => [\A t \in Threads : pc[t] = "after" /\ pc'[t] = "idle" =>
               CleanupCount(t) = Cardinality(swept[t])]_vars
  <2> SUFFICES ASSUME TypeInv, AloneInv, Next, NEW t \in Threads,
                      pc[t] = "after", pc'[t] = "idle"
               PROVE  CleanupCount(t) = Cardinality(swept[t])
    OBVIOUS
  <2>1. unread[t] = {}
    <3> USE DEF TypeInv, TypeOK, Goto, locals
    <3>1. ASSUME NEW u \in Threads, Progress(u) PROVE unread[t] = {}
      BY <3>1 DEF Progress, Rejected, Newer, Store, Touch, Miss, ReadShard,
         CacheFull, HasRoom, InsertNew, InsertNewer, InsertOlder, Restore,
         StartSweep, SweepShard, EndSweep, EndCleanup, ClearShard, EndClear
    <3>2. ASSUME NEW u \in Threads, NEW k \in Keys, NEW s \in Seqs,
                 Call(u, k, s) \/ Cleanup(u) \/ Clear(u)
          PROVE  FALSE
      BY <3>2 DEF Call, Cleanup, Clear
    <3>3. ASSUME NEW k \in Keys, Remove(k) PROVE FALSE
      BY <3>3 DEF Remove
    <3>4. ASSUME Tick PROVE FALSE
      BY <3>4 DEF Tick
    <3> QED
      BY <3>1, <3>2, <3>3, <3>4 DEF Next
  <2>2. seen[t] = Present /\ base[t] = Present \cup swept[t]
        /\ Present \cap swept[t] = {}
    BY <2>1 DEF AloneInv, Present
  <2>3. IsFiniteSet(Present) /\ IsFiniteSet(swept[t])
    BY FS_Subset DEF Present, TypeInv, TypeOK
  <2>4. /\ Cardinality(Present \cup swept[t])
             = Cardinality(Present) + Cardinality(swept[t]) - Cardinality({})
        /\ Cardinality({}) = 0
    BY <2>2, <2>3, FS_Union, FS_EmptySet
  <2>5. Cardinality(Present) \in Nat /\ Cardinality(swept[t]) \in Nat
    BY <2>3, FS_CardinalityType
  <2> QED
    BY <2>2, <2>4, <2>5 DEF CleanupCount
<1> QED
  BY <1>1, <1>2, <1>3, InitTypeInv, StepTypeInv, PTL
  DEF Spec, CleanupCountExact

----------------------------------------------------------------------------
(* Calls are bounded *)

\* The steps from each place.
LEMMA StepsAt ==
    ASSUME NEW n \in Nat
    PROVE  LET visit == Cardinality(Shards) IN
           /\ visit \in Nat
           /\ StepsFrom("idle", n) = 0
           /\ StepsFrom("touch", n) = 1 /\ StepsFrom("restore", n) = 1
           /\ StepsFrom("store", n) = 2 /\ StepsFrom("insert", n) = 2
           /\ StepsFrom("len", n) = n + 3
           /\ StepsFrom("get", n) = visit + 4
           /\ StepsFrom("clear", n) = n + 1 /\ StepsFrom("after", n) = n + 1
           /\ StepsFrom("sweep", n) = n + visit + 2
           /\ StepsFrom("before", n) = n + 2 * visit + 3
<1>1. Cardinality(Shards) \in Nat
  BY ShardsAssumption, FS_CardinalityType
<1> QED
  BY <1>1 DEF StepsFrom

\* The steps of one thread leave the places of the others alone.
LEMMA OwnStep ==
    ASSUME TypeInv, NEW t \in Threads, NEW place, NEW S,
           pc' = [pc EXCEPT ![t] = place] \/ (pc' = pc /\ place = pc[t]),
           unread' = [unread EXCEPT ![t] = S]
              \/ (unread' = unread /\ S = unread[t]),
           StepsFrom(place, Cardinality(S))
              < StepsFrom(pc[t], Cardinality(unread[t]))
    PROVE  \A u \in Threads : \/ UNCHANGED <<pc[u], unread[u]>>
                              \/ StepsLeft(u)' < StepsLeft(u)
<1> SUFFICES ASSUME NEW u \in Threads
             PROVE  \/ pc'[u] = pc[u] /\ unread'[u] = unread[u]
                    \/ StepsLeft(u)' < StepsLeft(u)
  OBVIOUS
<1>1. CASE u = t
  <2>1. pc'[t] = place /\ unread'[t] = S
    BY DEF TypeInv, TypeOK
  <2> QED
    BY <1>1, <2>1 DEF StepsLeft
<1>2. CASE u # t
  BY <1>2 DEF TypeInv, TypeOK
<1> QED
  BY <1>1, <1>2

\* Every step inside a method shortens the call it belongs to.
LEMMA ProgressShortens ==
    ASSUME TypeInv, NEW t \in Threads, Progress(t)
    PROVE  \A u \in Threads : \/ UNCHANGED <<pc[u], unread[u]>>
                              \/ StepsLeft(u)' < StepsLeft(u)
<1> DEFINE visit == Cardinality(Shards)
           toVisit == Cardinality(unread[t])
<1>1. unread[t] \subseteq Shards /\ IsFiniteSet(unread[t])
  BY ShardsAssumption, FS_Subset DEF TypeInv, TypeOK
<1>2. visit \in Nat /\ toVisit \in Nat /\ Cardinality({}) = 0
  BY <1>1, ShardsAssumption, FS_CardinalityType, FS_EmptySet
<1>3. ASSUME NEW s \in unread[t]
      PROVE  /\ Cardinality(unread[t] \ {s}) = toVisit - 1
             /\ toVisit - 1 \in Nat
  <2>1. Cardinality(unread[t] \ {s}) = toVisit - 1
        /\ IsFiniteSet(unread[t] \ {s})
    BY <1>1, <1>3, FS_RemoveElement
  <2> QED
    BY <2>1, FS_CardinalityType
<1>4. \A n \in Nat :
         /\ StepsFrom("idle", n) = 0
         /\ StepsFrom("touch", n) = 1 /\ StepsFrom("restore", n) = 1
         /\ StepsFrom("store", n) = 2 /\ StepsFrom("insert", n) = 2
         /\ StepsFrom("len", n) = n + 3
         /\ StepsFrom("get", n) = visit + 4
         /\ StepsFrom("clear", n) = n + 1 /\ StepsFrom("after", n) = n + 1
         /\ StepsFrom("sweep", n) = n + visit + 2
         /\ StepsFrom("before", n) = n + 2 * visit + 3
  BY StepsAt
<1>5. ASSUME NEW place, NEW S,
             pc' = [pc EXCEPT ![t] = place] \/ (pc' = pc /\ place = pc[t]),
             unread' = [unread EXCEPT ![t] = S]
                \/ (unread' = unread /\ S = unread[t]),
             StepsFrom(place, Cardinality(S)) < StepsFrom(pc[t], toVisit)
      PROVE  \A u \in Threads : \/ UNCHANGED <<pc[u], unread[u]>>
                                \/ StepsLeft(u)' < StepsLeft(u)
  BY <1>5, OwnStep
<1> DEFINE Shorter == \A u \in Threads : \/ UNCHANGED <<pc[u], unread[u]>>
                                         \/ StepsLeft(u)' < StepsLeft(u)
<1> HIDE DEF visit, toVisit, Shorter
<1>6. ASSUME NEW place \in {"idle", "store", "touch", "insert", "restore"},
             pc' = [pc EXCEPT ![t] = place], unread' = unread,
             \/ pc[t] = "get"
             \/ pc[t] = "store" /\ place = "touch"
             \/ pc[t] = "touch" /\ place = "idle"
             \/ pc[t] = "len" /\ place \in {"idle", "insert"}
             \/ pc[t] = "insert" /\ place \in {"idle", "restore"}
             \/ pc[t] = "restore" /\ place = "idle"
             \/ pc[t] \in {"after", "clear"} /\ place = "idle"
      PROVE  Shorter
  <2>1. StepsFrom(place, toVisit) < StepsFrom(pc[t], toVisit)
    BY <1>2, <1>4, <1>6
  <2> QED
    BY <1>5, <1>6, <2>1 DEF Shorter, toVisit
<1>7. ASSUME NEW place \in {"len", "sweep", "after"},
             pc' = [pc EXCEPT ![t] = place],
             unread' = [unread EXCEPT ![t] = Shards],
             \/ pc[t] = "get" /\ place = "len"
             \/ pc[t] = "before" /\ place = "sweep"
             \/ pc[t] = "sweep" /\ place = "after"
      PROVE  Shorter
  <2>1. StepsFrom(place, visit) < StepsFrom(pc[t], toVisit)
    BY <1>2, <1>4, <1>7
  <2> QED
    BY <1>5, <1>7, <2>1 DEF Shorter, visit
<1>8. ASSUME NEW s \in unread[t], pc' = pc,
             pc[t] \in {"len", "before", "after", "sweep", "clear"},
             unread' = [unread EXCEPT ![t] = @ \ {s}]
      PROVE  Shorter
  <2>1. StepsFrom(pc[t], toVisit - 1) < StepsFrom(pc[t], toVisit)
    <3>0. toVisit - 1 \in Nat
      BY <1>3, <1>8
    <3>1. toVisit - 1 \in Nat /\ toVisit - 1 < toVisit
      BY <1>2, <3>0
    <3>2. \A n \in {toVisit - 1, toVisit} :
             /\ StepsFrom("len", n) = n + 3
             /\ StepsFrom("clear", n) = n + 1 /\ StepsFrom("after", n) = n + 1
             /\ StepsFrom("sweep", n) = n + visit + 2
             /\ StepsFrom("before", n) = n + 2 * visit + 3
      BY <1>2, <1>4, <3>1
    <3> QED
      BY <1>2, <1>8, <3>1, <3>2
  <2>2. StepsFrom(pc[t], Cardinality(unread[t] \ {s}))
          < StepsFrom(pc[t], toVisit)
    BY <1>3, <2>1
  <2> QED
    BY <1>5, <1>8, <2>2 DEF Shorter
<1>9. ASSUME \/ Rejected(t) \/ Newer(t) \/ Store(t) \/ Touch(t)
             \/ CacheFull(t) \/ HasRoom(t) \/ InsertNew(t)
             \/ InsertNewer(t) \/ InsertOlder(t) \/ Restore(t)
             \/ EndCleanup(t) \/ EndClear(t)
      PROVE  Shorter
  <2>1. Rejected(t) => Shorter
    BY <1>6 DEF Rejected, Goto, locals
  <2>2. Newer(t) => Shorter
    BY <1>6 DEF Newer, Goto, locals
  <2>3. Store(t) => Shorter
    BY <1>6 DEF Store, Goto, locals
  <2>4. Touch(t) => Shorter
    BY <1>6 DEF Touch, Goto, locals
  <2>5. CacheFull(t) \/ HasRoom(t) => Shorter
    BY <1>6 DEF CacheFull, HasRoom, Goto
  <2>6. InsertNew(t) \/ InsertNewer(t) \/ InsertOlder(t) => Shorter
    BY <1>6 DEF InsertNew, InsertNewer, InsertOlder, Goto
  <2>7. Restore(t) => Shorter
    BY <1>6 DEF Restore, Goto
  <2>8. EndCleanup(t) \/ EndClear(t) => Shorter
    BY <1>6 DEF EndCleanup, EndClear, Goto, locals
  <2> QED
    BY <1>9, <2>1, <2>2, <2>3, <2>4, <2>5, <2>6, <2>7, <2>8
<1>10. Miss(t) \/ StartSweep(t) \/ EndSweep(t) => Shorter
  BY <1>7 DEF Miss, StartSweep, EndSweep, Goto
<1>11. ASSUME NEW s \in Shards,
              ReadShard(t, s) \/ SweepShard(t, s) \/ ClearShard(t, s)
       PROVE  Shorter
  BY <1>8, <1>11 DEF ReadShard, SweepShard, ClearShard, LenPcs
<1> QED
  BY <1>9, <1>10, <1>11 DEF Progress, Shorter

\* No interference of other threads makes a call longer, for any number of
\* threads, keys and shards: what CallsReturn rests on.
THEOREM BoundedCalls == Spec => CallsAreBounded
<1>1. TypeInv /\ [Next]_vars =>
         [\A t \in Threads :
             pc[t] # "idle" => \/ UNCHANGED <<pc[t], unread[t]>>
                              \/ StepsLeft(t)' < StepsLeft(t)]_vars
  <2> SUFFICES ASSUME TypeInv, Next, NEW t \in Threads, pc[t] # "idle"
               PROVE  \/ UNCHANGED <<pc[t], unread[t]>>
                      \/ StepsLeft(t)' < StepsLeft(t)
    OBVIOUS
  <2>1. ASSUME NEW u \in Threads, Progress(u)
        PROVE  \/ UNCHANGED <<pc[t], unread[t]>>
               \/ StepsLeft(t)' < StepsLeft(t)
    BY <2>1, ProgressShortens
  <2>2. ASSUME NEW u \in Threads,
               \/ \E k \in Keys, s \in Seqs : Call(u, k, s)
               \/ Cleanup(u) \/ Clear(u)
        PROVE  UNCHANGED <<pc[t], unread[t]>>
    BY <2>2 DEF Call, Cleanup, Clear, Goto, locals, TypeInv, TypeOK
  <2>3. ASSUME NEW k \in Keys, Remove(k) PROVE UNCHANGED <<pc[t], unread[t]>>
    BY <2>3 DEF Remove, locals
  <2>4. CASE Tick
    BY <2>4 DEF Tick, locals
  <2> QED
    BY <2>1, <2>2, <2>3, <2>4 DEF Next
<1> QED
  BY <1>1, InitTypeInv, StepTypeInv, PTL DEF Spec, CallsAreBounded
============================================================================
