------------------------ MODULE ReplaySerialProofs ------------------------
(***************************************************************************)
(* What the replay cache guarantees to callers that never overlap two      *)
(* check_and_update of one source: no replay, and the atomic ReplayGuard.  *)
(***************************************************************************)
EXTENDS ReplayCacheProofs

\* Serialised callers own their key: nobody else registers it between the
\* miss and the insert, or stores into it between the load and the store.
SerialInv ==
    /\ \A t, u \in Threads :
          /\ pc[t] \in CallPcs /\ pc[u] \in CallPcs /\ t # u
          => arg[t].key # arg[u].key
    /\ \A t \in Threads : pc[t] # "restore"
    /\ \A t \in Threads :
          pc[t] \in {"len", "insert"} => entries[arg[t].key] = NoEntry
    /\ \A t \in Threads :
          pc[t] = "store" => arg[t].seq > entries[arg[t].key].seq

LEMMA InitSerial == Init => SerialInv
  BY DEF Init, SerialInv, CallPcs

\* Steps that leave the map and the arguments alone and bring no thread into
\* a call or to one of the places SerialInv speaks of.
LEMMA SerialFrame ==
    ASSUME SerialInv, arg' = arg, entries' = entries,
           \A t \in Threads : pc'[t] = pc[t] \/ pc'[t] \notin CallPcs
    PROVE  SerialInv'
  BY DEF SerialInv, CallPcs

\* Steps that only remove entries no reader guards.
LEMMA SerialRemove ==
    ASSUME TypeInv, SerialInv, pc' = pc, arg' = arg,
           \A k \in Keys :
              \/ entries'[k] = entries[k]
              \/ /\ entries'[k] = NoEntry
                 /\ \A t \in Threads : Guarding(t) => arg[t].key # k
    PROVE  SerialInv'
  BY DEF SerialInv, Guarding, TypeInv, TypeOK

LEMMA StepSerial ==
    ASSUME Serial, TypeInv, SerialInv, [Next]_vars
    PROVE  SerialInv'
<1> USE DEF TypeInv, TypeOK, Goto, locals
<1>1. ASSUME NEW t \in Threads, NEW k \in Keys, NEW s \in Seqs, Call(t, k, s)
      PROVE  SerialInv'
  BY <1>1 DEF Call, SerialInv, CallPcs
<1>2. ASSUME NEW t \in Threads,
             \/ Rejected(t) \/ CacheFull(t) \/ Cleanup(t) \/ StartSweep(t)
             \/ EndSweep(t) \/ EndCleanup(t) \/ Clear(t) \/ EndClear(t)
      PROVE  SerialInv'
  BY <1>2, SerialFrame DEF Rejected, CacheFull, Cleanup, StartSweep, EndSweep,
     EndCleanup, Clear, EndClear, CallPcs
<1>3. ASSUME NEW t \in Threads, Newer(t) PROVE SerialInv'
  BY <1>3 DEF Newer, SerialInv, CallPcs
<1>4. ASSUME NEW t \in Threads, Store(t) PROVE SerialInv'
  BY <1>4 DEF Store, SerialInv, CallPcs
<1>5. ASSUME NEW t \in Threads, Touch(t) PROVE SerialInv'
  BY <1>5 DEF Touch, SerialInv, CallPcs
<1>6. ASSUME NEW t \in Threads, Miss(t) PROVE SerialInv'
  BY <1>6 DEF Miss, SerialInv, CallPcs
<1>7. ASSUME NEW t \in Threads, HasRoom(t) PROVE SerialInv'
  BY <1>7 DEF HasRoom, SerialInv, CallPcs
<1>8. ASSUME NEW t \in Threads, InsertNew(t) PROVE SerialInv'
  BY <1>8 DEF InsertNew, SerialInv, CallPcs
<1>9. ASSUME NEW t \in Threads,
             InsertNewer(t) \/ InsertOlder(t) \/ Restore(t)
      PROVE  FALSE
  BY <1>9 DEF InsertNewer, InsertOlder, Restore, SerialInv
<1>10. ASSUME NEW t \in Threads, NEW s \in Shards, SweepShard(t, s)
       PROVE  SerialInv'
  BY <1>10, SerialRemove DEF SweepShard, Writable, Present, InShard
<1>11. ASSUME NEW t \in Threads, NEW s \in Shards, ClearShard(t, s)
       PROVE  SerialInv'
  BY <1>11, SerialRemove DEF ClearShard, Writable, InShard
<1>12. ASSUME NEW k \in Keys, Remove(k) PROVE SerialInv'
  BY <1>12, SerialRemove DEF Remove, Writable
<1>13. ASSUME NEW t \in Threads, NEW s \in Shards, ReadShard(t, s)
       PROVE  SerialInv'
  BY <1>13, SerialFrame DEF ReadShard
<1>14. CASE Tick \/ UNCHANGED vars
  BY <1>14, SerialFrame DEF Tick, vars
<1> QED
  BY <1>1, <1>2, <1>3, <1>4, <1>5, <1>6, <1>7, <1>8, <1>9, <1>10, <1>11,
     <1>12, <1>13, <1>14 DEF Next, Progress

----------------------------------------------------------------------------
(* The cache implements ReplayGuard. *)

LastSeen == [k \in Keys |-> IF entries[k] = NoEntry THEN NoEntry
                                                     ELSE entries[k].seq]

LEMMA GuardInit == Init => Guard!Init
  BY DEF Init, Guard!Init

\* A step that removes the entries of the sources K.
LEMMA GuardForget ==
    ASSUME NEW K \in SUBSET Keys, accepted' = accepted,
           admits' = admits, TypeInv,
           \A k \in Keys : IF k \in K THEN entries'[k] = NoEntry
                                      ELSE entries'[k] = entries[k]
    PROVE  Guard!Next
  BY DEF Guard!Next, Guard!Forget

LEMMA GuardStep ==
    ASSUME Serial, TypeInv, SerialInv, [Next]_vars
    PROVE  [Guard!Next]_<<LastSeen, accepted, admits>>
<1> USE DEF TypeInv, TypeOK, Goto, locals
<1>1. ASSUME NEW t \in Threads, Store(t) PROVE Guard!Next
  <2>1. PICK k \in Keys, s \in Seqs :
          /\ k = arg[t].key /\ s = arg[t].seq
          /\ entries[k] \in Entry /\ s > entries[k].seq
    BY <1>1 DEF Store, SerialInv, Ownership, Guarding
  <2>2. /\ entries' = [entries EXCEPT ![k] = [entries[k] EXCEPT !.seq = s]]
        /\ accepted' = accepted \cup {<<k, s>>} /\ admits' = admits + 1
    BY <1>1, <2>1 DEF Store, Accept
  <2>3. [entries[k] EXCEPT !.seq = s] \in Entry
    BY <2>1 DEF Entry
  <2>4. LastSeen[k] = entries[k].seq
    BY <2>1, NoEntryAssumption DEF LastSeen
  <2>5. LastSeen' = [LastSeen EXCEPT ![k] = s]
    BY <2>1, <2>2, <2>3, NoEntryAssumption DEF LastSeen, Entry
  <2>6. Guard!Admit(k, s)
    BY <2>1, <2>2, <2>4, <2>5 DEF Guard!Admit, LastSeen
  <2> QED
    BY <2>6 DEF Guard!Next
<1>2. ASSUME NEW t \in Threads, InsertNew(t) PROVE Guard!Next
  <2>1. PICK k \in Keys, e \in Entry :
          /\ k = arg[t].key /\ e = held[t]
          /\ entries[k] = NoEntry /\ e.seq \in Seqs
    BY <1>2 DEF InsertNew, Ownership, Entry
  <2>2. /\ entries' = [entries EXCEPT ![k] = e]
        /\ accepted' = accepted \cup {<<k, e.seq>>} /\ admits' = admits + 1
    BY <1>2, <2>1 DEF InsertNew, Accept
  <2>3. LastSeen[k] = NoEntry
    BY <2>1 DEF LastSeen
  <2>4. LastSeen' = [LastSeen EXCEPT ![k] = e.seq]
    BY <2>1, <2>2, NoEntryAssumption DEF LastSeen
  <2>5. Guard!Admit(k, e.seq)
    BY <2>1, <2>2, <2>3, <2>4 DEF Guard!Admit, LastSeen
  <2> QED
    BY <2>1, <2>5 DEF Guard!Next
<1>3. ASSUME NEW t \in Threads, Touch(t)
      PROVE  UNCHANGED <<LastSeen, accepted, admits>>
  <2>1. PICK k \in Keys :
          k = arg[t].key /\ entries[k] \in Entry
    BY <1>3 DEF Touch, Ownership, Guarding
  <2>2. entries' = [entries EXCEPT ![k] = [entries[k] EXCEPT !.at = now]]
    BY <1>3, <2>1 DEF Touch
  <2>3. LET e == [entries[k] EXCEPT !.at = now]
        IN  e \in Entry /\ e.seq = entries[k].seq
    BY <2>1 DEF Entry
  <2>4. LastSeen' = LastSeen
    BY <2>1, <2>2, <2>3, NoEntryAssumption DEF LastSeen
  <2> QED
    BY <1>3, <2>4 DEF Touch
<1>4. ASSUME NEW t \in Threads,
             InsertNewer(t) \/ InsertOlder(t) \/ Restore(t)
      PROVE  FALSE
  BY <1>4 DEF InsertNewer, InsertOlder, Restore, SerialInv
<1>5. ASSUME NEW t \in Threads, NEW s \in Shards, SweepShard(t, s)
      PROVE  Guard!Next
  BY <1>5, GuardForget DEF SweepShard, Present
<1>6. ASSUME NEW t \in Threads, NEW s \in Shards, ClearShard(t, s)
      PROVE  Guard!Next
  BY <1>6, GuardForget DEF ClearShard, InShard
<1>7. ASSUME NEW k \in Keys, Remove(k) PROVE Guard!Next
  <2>1. {k} \in SUBSET Keys
    OBVIOUS
  <2> QED
    BY <1>7, <2>1, GuardForget DEF Remove
<1>8. ASSUME NEW t \in Threads,
             \/ \E k \in Keys, s \in Seqs : Call(t, k, s)
             \/ Rejected(t) \/ Newer(t) \/ Miss(t) \/ CacheFull(t)
             \/ HasRoom(t) \/ Cleanup(t) \/ StartSweep(t) \/ EndSweep(t)
             \/ EndCleanup(t) \/ Clear(t) \/ EndClear(t)
             \/ \E s \in Shards : ReadShard(t, s)
      PROVE  UNCHANGED <<LastSeen, accepted, admits>>
  <2>1. entries' = entries /\ accepted' = accepted /\ admits' = admits
    BY <1>8 DEF Call, Rejected, Newer, Miss, CacheFull, HasRoom, Cleanup,
       StartSweep, EndSweep, EndCleanup, Clear, EndClear, ReadShard
  <2> QED
    BY <2>1 DEF LastSeen
<1>9. CASE Tick \/ UNCHANGED vars
  BY <1>9 DEF Tick, vars, LastSeen
<1> QED
  BY <1>1, <1>2, <1>3, <1>4, <1>5, <1>6, <1>7, <1>8, <1>9 DEF Next, Progress

\* For serialised callers, check_and_update with its three phases, its locks,
\* the expiry, clear and remove implement the atomic ReplayGuard.
THEOREM CacheImplementsGuard == Serial => (Spec => ImplementsGuard)
<1> SUFFICES ASSUME Serial PROVE Spec => ImplementsGuard
  OBVIOUS
<1>1. SerialInv /\ TypeInv /\ [Next]_vars => SerialInv'
  BY StepSerial
<1>2. SerialInv /\ TypeInv /\ [Next]_vars
        => [Guard!Next]_<<LastSeen, accepted, admits>>
  BY GuardStep
<1> QED
  BY <1>1, <1>2, InitTypeInv, StepTypeInv, InitSerial, GuardInit, PTL
  DEF Spec, ImplementsGuard, Guard!Spec, LastSeen

----------------------------------------------------------------------------
(* No replay within the TTL. *)

\* The last frame accepted for a source either is remembered by the entry,
\* whose timestamp is no older (or about to be renewed), or is out of date.
Remembered(k) ==
    /\ entries[k] # NoEntry
    /\ entries[k].seq = admitted[k].seq
    /\ \/ entries[k].at >= admitted[k].at
       \/ \E t \in Threads : pc[t] = "touch" /\ arg[t].key = k

FreshInv ==
    \A k \in Keys : admitted[k] # NoEntry =>
        /\ admitted[k].at <= now
        /\ Remembered(k) \/ now - admitted[k].at > TTL

StampInv == \A t \in Threads : pc[t] = "insert" => held[t].at <= now

SafeInv == FreshInv /\ StampInv

LEMMA InitSafe == Init => SafeInv
  BY DEF Init, SafeInv, FreshInv, StampInv

\* Steps that leave the map, the history and the clock alone.
LEMMA SafeFrame ==
    ASSUME TypeInv, SafeInv, entries' = entries, admitted' = admitted,
           now' = now,
           \A t \in Threads : /\ pc[t] = "touch" => pc'[t] = "touch"
                                                    /\ arg'[t] = arg[t]
                              /\ pc'[t] = "insert" => \/ held'[t].at = now
                                                      \/ pc[t] = "insert"
                                                         /\ held'[t] = held[t]
    PROVE  SafeInv'
  BY DEF SafeInv, FreshInv, StampInv, Remembered, TypeInv, TypeOK

\* Steps that take away entries out of date, or forget the source altogether.
LEMMA SafeRemove ==
    ASSUME TypeInv, SerialInv, SafeInv, pc' = pc, arg' = arg, held' = held,
           now' = now,
           \A k \in Keys :
              \/ entries'[k] = entries[k] /\ admitted'[k] = admitted[k]
              \/ admitted'[k] = NoEntry
              \/ /\ admitted'[k] = admitted[k]
                 /\ Expired(entries[k]) /\ entries[k] # NoEntry
                 /\ \A t \in Threads : Guarding(t) => arg[t].key # k
    PROVE  SafeInv'
<1>1. StampInv'
  BY DEF SafeInv, StampInv
<1>2. ASSUME NEW k \in Keys, admitted'[k] # NoEntry
      PROVE  /\ admitted'[k].at <= now
             /\ Remembered(k)' \/ now - admitted'[k].at > TTL
  <2>1. CASE entries'[k] = entries[k] /\ admitted'[k] = admitted[k]
    BY <1>2, <2>1 DEF SafeInv, FreshInv, Remembered
  <2>2. CASE /\ admitted'[k] = admitted[k]
             /\ Expired(entries[k]) /\ entries[k] # NoEntry
             /\ \A t \in Threads : Guarding(t) => arg[t].key # k
    <3>1. /\ admitted[k].at <= now
          /\ Remembered(k) \/ now - admitted[k].at > TTL
      BY <1>2, <2>2 DEF SafeInv, FreshInv
    <3>2. now - entries[k].at > TTL
      BY <2>2 DEF Expired
    <3>3. /\ entries[k].at \in Nat /\ admitted[k].at \in Nat
          /\ now \in Nat /\ TTL \in Nat
      BY <1>2, <2>2, TTLAssumption DEF TypeInv, TypeOK, Entry
    <3>4. Remembered(k) => entries[k].at >= admitted[k].at
      BY <2>2 DEF Remembered, Guarding
    <3> QED
      BY <2>2, <3>1, <3>2, <3>3, <3>4
  <2> QED
    BY <1>2, <2>1, <2>2
<1> QED
  BY <1>1, <1>2 DEF SafeInv, FreshInv

\* Steps that accept a frame for one source.
LEMMA SafeAccept ==
    ASSUME TypeInv, SafeInv, NEW k \in Keys, NEW t \in Threads,
           arg[t].key = k, arg' = arg, now' = now,
           pc[t] # "touch", pc' = [pc EXCEPT ![t] = pc'[t]],
           pc'[t] # "insert", \A u \in Threads : u # t => held'[u] = held[u],
           \A j \in Keys \ {k} : /\ entries'[j] = entries[j]
                                 /\ admitted'[j] = admitted[j],
           admitted'[k] # NoEntry, admitted'[k].at <= now,
           Remembered(k)'
    PROVE  SafeInv'
<1>1. StampInv'
  BY DEF SafeInv, StampInv, TypeInv, TypeOK
<1>2. ASSUME NEW j \in Keys, j # k, admitted'[j] # NoEntry
      PROVE  /\ admitted'[j].at <= now
             /\ Remembered(j)' \/ now - admitted'[j].at > TTL
  <2>1. Remembered(j) => Remembered(j)'
    BY <1>2 DEF Remembered, TypeInv, TypeOK
  <2> QED
    BY <1>2, <2>1 DEF SafeInv, FreshInv
<1> QED
  BY <1>1, <1>2 DEF SafeInv, FreshInv

LEMMA StepSafe ==
    ASSUME Serial, TypeInv, SerialInv, SafeInv, [Next]_vars
    PROVE  SafeInv'
<1> USE DEF TypeInv, TypeOK, Goto, locals
<1>1. ASSUME NEW t \in Threads,
             \/ \E k \in Keys, s \in Seqs : Call(t, k, s)
             \/ Rejected(t) \/ Newer(t) \/ Miss(t) \/ CacheFull(t)
             \/ HasRoom(t) \/ Cleanup(t) \/ StartSweep(t) \/ EndSweep(t)
             \/ EndCleanup(t) \/ Clear(t) \/ EndClear(t)
             \/ \E s \in Shards : ReadShard(t, s)
      PROVE  SafeInv'
  BY <1>1, SafeFrame DEF Call, Rejected, Newer, Miss, CacheFull, HasRoom,
     Cleanup, StartSweep, EndSweep, EndCleanup, Clear, EndClear, ReadShard
<1>2. ASSUME NEW t \in Threads, Store(t) PROVE SafeInv'
  <2>1. PICK k \in Keys, s \in Seqs :
          k = arg[t].key /\ s = arg[t].seq /\ entries[k] \in Entry
    BY <1>2 DEF Store, Ownership, Guarding
  <2>2. /\ entries' = [entries EXCEPT ![k] = [entries[k] EXCEPT !.seq = s]]
        /\ admitted' = [admitted EXCEPT ![k] = [seq |-> s, at |-> now]]
        /\ pc' = [pc EXCEPT ![t] = "touch"]
    BY <1>2, <2>1 DEF Store, Accept
  <2>3. [entries[k] EXCEPT !.seq = s] \in Entry /\ [seq |-> s, at |-> now] \in Entry
    BY <2>1 DEF Entry
  <2>4. Remembered(k)'
    BY <1>2, <2>1, <2>2, <2>3, NoEntryAssumption DEF Store, Remembered, Entry
  <2>5. admitted'[k] # NoEntry /\ admitted'[k].at <= now
    BY <2>2, <2>3, NoEntryAssumption
  <2>6. /\ arg' = arg /\ now' = now /\ held' = held /\ pc[t] = "store"
    BY <1>2 DEF Store
  <2>7. /\ pc[t] # "touch" /\ pc'[t] # "insert"
        /\ pc' = [pc EXCEPT ![t] = pc'[t]]
    BY <2>2, <2>6
  <2>8. \A j \in Keys \ {k} : /\ entries'[j] = entries[j]
                             /\ admitted'[j] = admitted[j]
    BY <2>2
  <2> HIDE DEF TypeInv, TypeOK
  <2> QED
    BY <2>1, <2>4, <2>5, <2>6, <2>7, <2>8, SafeAccept
<1>3. ASSUME NEW t \in Threads, InsertNew(t) PROVE SafeInv'
  <2>1. PICK k \in Keys, e \in Entry :
          k = arg[t].key /\ e = held[t] /\ e.at <= now
    BY <1>3 DEF InsertNew, Ownership, SafeInv, StampInv
  <2>2. /\ entries' = [entries EXCEPT ![k] = e]
        /\ admitted' = [admitted EXCEPT ![k] = [seq |-> e.seq, at |-> e.at]]
        /\ pc' = [pc EXCEPT ![t] = "idle"]
    BY <1>3, <2>1 DEF InsertNew, Accept
  <2>3. e = [seq |-> e.seq, at |-> e.at] /\ e.at \in Nat
    BY <2>1 DEF Entry
  <2>4. Remembered(k)'
    BY <2>1, <2>2, <2>3, NoEntryAssumption DEF Remembered
  <2>5. admitted'[k] # NoEntry /\ admitted'[k].at <= now
    BY <2>1, <2>2, <2>3, NoEntryAssumption
  <2>6. /\ arg' = arg /\ now' = now /\ pc[t] = "insert"
        /\ held' = [held EXCEPT ![t] = NoEntry]
    BY <1>3 DEF InsertNew
  <2>7. /\ pc[t] # "touch" /\ pc'[t] # "insert"
        /\ pc' = [pc EXCEPT ![t] = pc'[t]]
        /\ \A u \in Threads : u # t => held'[u] = held[u]
    BY <2>2, <2>6
  <2>8. \A j \in Keys \ {k} : /\ entries'[j] = entries[j]
                             /\ admitted'[j] = admitted[j]
    BY <2>2
  <2> HIDE DEF TypeInv, TypeOK
  <2> QED
    BY <2>1, <2>4, <2>5, <2>6, <2>7, <2>8, SafeAccept
<1>4. ASSUME NEW t \in Threads, Touch(t) PROVE SafeInv'
  <2>1. PICK k \in Keys : k = arg[t].key /\ entries[k] \in Entry
    BY <1>4 DEF Touch, Ownership, Guarding
  <2>2. /\ entries' = [entries EXCEPT ![k] = [entries[k] EXCEPT !.at = now]]
        /\ pc' = [pc EXCEPT ![t] = "idle"]
    BY <1>4, <2>1 DEF Touch
  <2>3. LET e == [entries[k] EXCEPT !.at = now]
        IN  e \in Entry /\ e.seq = entries[k].seq /\ e.at = now
    BY <2>1 DEF Entry
  <2>4. StampInv'
    BY <1>4 DEF Touch, SafeInv, StampInv
  <2>5. ASSUME NEW j \in Keys, admitted'[j] # NoEntry
        PROVE  /\ admitted'[j].at <= now
               /\ Remembered(j)' \/ now - admitted'[j].at > TTL
    <3>1. /\ admitted'[j] = admitted[j] /\ admitted[j].at <= now
          /\ Remembered(j) \/ now - admitted[j].at > TTL
      BY <1>4, <2>5 DEF Touch, SafeInv, FreshInv
    <3>2. CASE j = k
      <4>1. /\ entries'[j] \in Entry /\ entries'[j].seq = entries[j].seq
            /\ entries'[j].at = now
        BY <2>1, <2>2, <2>3, <3>2
      <4> QED
        BY <3>1, <4>1, NoEntryAssumption DEF Remembered
    <3>3. CASE j # k
      <4>1. entries'[j] = entries[j]
        BY <2>2, <3>3
      <4>2. Remembered(j) => Remembered(j)'
        BY <1>4, <2>1, <3>1, <3>3, <4>1 DEF Touch, Remembered
      <4> QED
        BY <3>1, <4>2
    <3> QED
      BY <3>2, <3>3
  <2> QED
    BY <1>4, <2>4, <2>5 DEF Touch, SafeInv, FreshInv
<1>5. ASSUME NEW t \in Threads,
             InsertNewer(t) \/ InsertOlder(t) \/ Restore(t)
      PROVE  FALSE
  BY <1>5 DEF InsertNewer, InsertOlder, Restore, SerialInv
<1>6. ASSUME NEW t \in Threads, NEW s \in Shards, SweepShard(t, s)
      PROVE  SafeInv'
  BY <1>6, SafeRemove DEF SweepShard, Writable, Present, InShard
<1>7. ASSUME NEW t \in Threads, NEW s \in Shards, ClearShard(t, s)
      PROVE  SafeInv'
  BY <1>7, SafeRemove DEF ClearShard
<1>8. ASSUME NEW k \in Keys, Remove(k) PROVE SafeInv'
  BY <1>8, SafeRemove DEF Remove
<1>9. CASE Tick
  <2>1. StampInv'
    BY <1>9 DEF Tick, SafeInv, StampInv, Ownership, Entry
  <2>2. ASSUME NEW k \in Keys, admitted[k] # NoEntry
        PROVE  /\ admitted[k].at <= now'
               /\ Remembered(k)' \/ now' - admitted[k].at > TTL
    <3>1. admitted[k].at \in Nat /\ now \in Nat /\ TTL \in Nat
      BY <2>2, TTLAssumption DEF Entry
    <3>2. (Remembered(k)' <=> Remembered(k)) /\ now' = now + 1
      BY <1>9 DEF Tick, Remembered
    <3> QED
      BY <2>2, <3>1, <3>2 DEF SafeInv, FreshInv
  <2> QED
    <3>1. admitted' = admitted
      BY <1>9 DEF Tick
    <3>2. FreshInv'
      BY <2>2, <3>1 DEF FreshInv
    <3> QED
      BY <2>1, <3>2 DEF SafeInv
<1>10. CASE UNCHANGED vars
  BY <1>10, SafeFrame DEF vars
<1> QED
  BY <1>1, <1>2, <1>3, <1>4, <1>5, <1>6, <1>7, <1>8, <1>9, <1>10
  DEF Next, Progress

\* A thread that accepts a frame has found no entry for its source, or an
\* entry with a smaller number.
LEMMA AcceptsAreFresh ==
    ASSUME Serial, TypeInv, SerialInv, SafeInv, Next,
           NEW t \in Threads, Accepts(t)
    PROVE  Fresh(t)
<1> DEFINE k == arg[t].key
<1>1. \/ entries[k] = NoEntry
      \/ arg[t].seq > entries[k].seq
  BY DEF Accepts, SerialInv
<1>2. k \in Keys /\ now \in Nat /\ TTL \in Nat
  BY TTLAssumption DEF TypeInv, TypeOK
<1>3. ASSUME admitted[k] # NoEntry, now - admitted[k].at <= TTL
      PROVE  arg[t].seq > admitted[k].seq
  <2>1. admitted[k].at \in Nat
    BY <1>2, <1>3 DEF TypeInv, TypeOK, Entry
  <2>2. Remembered(k)
    BY <1>2, <1>3, <2>1 DEF SafeInv, FreshInv
  <2> QED
    BY <1>1, <2>2 DEF Remembered
<1> QED
  BY <1>3 DEF Fresh

\* For serialised callers no frame is accepted again, and no older frame
\* after a newer one, within the TTL, whatever expires, is cleared or removed
\* meanwhile.
THEOREM NoReplaySerial == Serial => (Spec => NoReplay)
<1> SUFFICES ASSUME Serial PROVE Spec => NoReplay
  OBVIOUS
<1>1. TypeInv /\ SerialInv /\ [Next]_vars => SerialInv'
  BY StepSerial
<1>2. TypeInv /\ SerialInv /\ SafeInv /\ [Next]_vars => SafeInv'
  BY StepSafe
<1>3. TypeInv /\ SerialInv /\ SafeInv /\ [Next]_vars
        => [\A t \in Threads : Accepts(t) => Fresh(t)]_vars
  BY AcceptsAreFresh
<1> QED
  BY <1>1, <1>2, <1>3, InitTypeInv, StepTypeInv, InitSerial, InitSafe, PTL
  DEF Spec, NoReplay

\* Lines 152 to 154 hold for serialised callers: a frame of a known source
\* that is accepted is newer than the last one.
THEOREM SerialKnownSource == Serial => (Spec => OnlyRegistrationRaces)
<1> SUFFICES ASSUME Serial PROVE Spec => OnlyRegistrationRaces
  OBVIOUS
<1>1. [\A t \in Threads : Accepts(t) => Fresh(t)]_vars
        => [\A t \in Threads :
              pc[t] = "store" /\ pc'[t] = "touch" => Fresh(t)]_vars
  BY DEF Accepts
<1>2. Spec => NoReplay
  BY NoReplaySerial
<1> QED
  BY <1>1, <1>2, PTL DEF NoReplay, OnlyRegistrationRaces
============================================================================
