---------------------------- MODULE ReplayCache ----------------------------
(***************************************************************************)
(* The anti-replay cache of src/src/replay_cache.rs: a DashMap from        *)
(* ReplayKey to ReplayEntry, shared by threads that call check_and_update, *)
(* cleanup_expired, clear and remove concurrently.                         *)
(*                                                                         *)
(* Granularity.  One step of the model is one access to shared memory:     *)
(*   - DashMap::get returns a guard that holds the READ lock of the key's  *)
(*     shard until it is dropped; several readers may hold it at once, so  *)
(*     the load of last_seq and its store are two steps, between which     *)
(*     other readers of the same entry run (lines 157-163);                *)
(*   - DashMap::insert and remove take the WRITE lock of one shard for one *)
(*     step, and wait for the readers of that shard;                       *)
(*   - DashMap::len, retain and clear visit the shards one after the       *)
(*     other, locking one at a time: each visit is a step, so what they    *)
(*     see is no snapshot of the map.                                      *)
(***************************************************************************)
EXTENDS Integers, FiniteSets

CONSTANTS
    Threads,    \* the threads that share the cache
    Keys,       \* ReplayKey: pairs (tenant, source), told apart by equality
    Shards,     \* the DashMap's shards
    ShardOf,    \* the shard a key hashes to
    MaxSeq,     \* the largest Seq-Counter (65535 in the code)
    Cap,        \* REPLAY_CACHE_MAX_CAPACITY (100000 in the code)
    TTL,        \* the ttl field, in ticks of the clock
    NoEntry,    \* "the map has no such key" (None)
    Serial,     \* TRUE: callers never overlap two check_and_update of one key
    MaxTime,    \* bound: the clock stops here
    MaxCalls    \* bound: number of calls made

Seqs == 0 .. MaxSeq

\* ReplayEntry: last_seq and the tick of last_update.
Entry == [seq : Seqs, at : Nat]

ASSUME ThreadsAssumption == IsFiniteSet(Threads)
ASSUME KeysAssumption == IsFiniteSet(Keys)
ASSUME ShardsAssumption == IsFiniteSet(Shards)
ASSUME ShardOfAssumption == ShardOf \in [Keys -> Shards]
ASSUME MaxSeqAssumption == MaxSeq \in Nat
ASSUME CapAssumption == Cap \in Nat \ {0}
ASSUME TTLAssumption == TTL \in Nat
ASSUME NoEntryAssumption == NoEntry \notin Entry
ASSUME SerialAssumption == Serial \in BOOLEAN
ASSUME BoundsAssumption == MaxTime \in Nat /\ MaxCalls \in Nat

VARIABLES
    entries,    \* the DashMap: an Entry, or NoEntry, for each key
    pc,         \* where each thread is in the method it runs
    arg,        \* the key and seq of a thread's (last) check_and_update
    held,       \* the ReplayEntry a thread owns: the new one, or old_entry
    unread,     \* the shards a len / retain / clear has still to visit
    seen,       \* the keys a len has counted so far
    base,       \* the keys counted by the first len of cleanup_expired
    swept,      \* history: the keys removed by a running cleanup_expired
    now,        \* Instant::now(), in ticks
    calls,      \* number of calls made so far
    accepted,   \* history: every <<key, seq>> a call returned Allowed for
    admits,     \* history: the number of calls that returned Allowed
    admitted    \* history: the last Entry accepted for each key since the
                \* key was explicitly removed; NoEntry when there is none

vars == <<entries, pc, arg, held, unread, seen, base, swept, now, calls,
          accepted, admits, admitted>>
locals == <<held, unread, seen, base, swept>>

\* Places inside check_and_update; the other places belong to
\* cleanup_expired (before, sweep, after) and clear.
CallPcs == {"get", "store", "touch", "len", "insert", "restore"}
LenPcs  == {"len", "before", "after"}
Pcs == CallPcs \cup LenPcs \cup {"idle", "sweep", "clear"}

TypeOK ==
    /\ entries \in [Keys -> Entry \cup {NoEntry}]
    /\ pc \in [Threads -> Pcs]
    /\ arg \in [Threads -> [key : Keys, seq : Seqs]]
    /\ held \in [Threads -> Entry \cup {NoEntry}]
    /\ unread \in [Threads -> SUBSET Shards]
    /\ seen \in [Threads -> SUBSET Keys]
    /\ base \in [Threads -> SUBSET Keys]
    /\ swept \in [Threads -> SUBSET Keys]
    /\ now \in Nat
    /\ calls \in Nat
    /\ accepted \in SUBSET (Keys \X Seqs)
    /\ admits \in Nat
    /\ admitted \in [Keys -> Entry \cup {NoEntry}]

----------------------------------------------------------------------------
Present == {k \in Keys : entries[k] # NoEntry}
InShard(s) == {k \in Keys : ShardOf[k] = s}

\* ReplayEntry::is_expired
Mutant_Expired_AtTTL(e) == now - e.at >= TTL
Expired(e) == now - e.at > TTL

\* A thread holds the read lock of its key's shard from the hit of get to
\* the drop of the guard at the end of update_seq.
Mutant_Guarding_ThroughInsert(t) == pc[t] \in {"store", "touch", "insert"}
Guarding(t) == pc[t] \in {"store", "touch"}
Writable(s) == \A t \in Threads : Guarding(t) => ShardOf[arg[t].key] # s

Goto(t, place) == pc' = [pc EXCEPT ![t] = place]

\* The call returns Allowed for (k, s); the entry carries timestamp at.
Accept(k, s, at) ==
    /\ accepted' = accepted \cup {<<k, s>>}
    /\ admits' = admits + 1
    /\ admitted' = [admitted EXCEPT ![k] = [seq |-> s, at |-> at]]

Init ==
    /\ entries = [k \in Keys |-> NoEntry]
    /\ pc = [t \in Threads |-> "idle"]
    /\ \E k \in Keys : arg = [t \in Threads |-> [key |-> k, seq |-> 0]]
    /\ held = [t \in Threads |-> NoEntry]
    /\ unread = [t \in Threads |-> {}]
    /\ seen = [t \in Threads |-> {}]
    /\ base = [t \in Threads |-> {}]
    /\ swept = [t \in Threads |-> {}]
    /\ now = 0
    /\ calls = 0
    /\ accepted = {}
    /\ admits = 0
    /\ admitted = [k \in Keys |-> NoEntry]

----------------------------------------------------------------------------
(* check_and_update *)

\* A thread calls check_and_update(k, s).
Call(t, k, s) ==
    /\ pc[t] = "idle"
    /\ calls < MaxCalls
    /\ Serial => \A u \in Threads : pc[u] \in CallPcs => arg[u].key # k
    /\ calls' = calls + 1
    /\ arg' = [arg EXCEPT ![t] = [key |-> k, seq |-> s]]
    /\ Goto(t, "get")
    /\ UNCHANGED <<entries, locals, now, accepted, admits, admitted>>

\* Phase 1: get hits, seq <= last_seq: Rejected, the guard is dropped.
Mutant_Rejected_SerialArithmetic(t) ==
    LET k == arg[t].key IN
    /\ pc[t] = "get"
    /\ entries[k] # NoEntry
    /\ (entries[k].seq - arg[t].seq) % (MaxSeq + 1) <= MaxSeq \div 2
    /\ Goto(t, "idle")
    /\ UNCHANGED <<entries, arg, locals, now, calls, accepted, admits,
                   admitted>>

Rejected(t) ==
    LET k == arg[t].key IN
    /\ pc[t] = "get"
    /\ entries[k] # NoEntry
    /\ arg[t].seq <= entries[k].seq
    /\ Goto(t, "idle")
    /\ UNCHANGED <<entries, arg, locals, now, calls, accepted, admits,
                   admitted>>

\* Phase 1: get hits, seq > last_seq: the guard is kept for update_seq.
Mutant_Newer_OrEqual(t) ==
    LET k == arg[t].key IN
    /\ pc[t] = "get"
    /\ entries[k] # NoEntry
    /\ arg[t].seq >= entries[k].seq
    /\ Goto(t, "store")
    /\ UNCHANGED <<entries, arg, locals, now, calls, accepted, admits,
                   admitted>>

Newer(t) ==
    LET k == arg[t].key IN
    /\ pc[t] = "get"
    /\ entries[k] # NoEntry
    /\ arg[t].seq > entries[k].seq
    /\ Goto(t, "store")
    /\ UNCHANGED <<entries, arg, locals, now, calls, accepted, admits,
                   admitted>>

\* update_seq: the store of last_seq.
Mutant_Store_NextExpected(t) ==
    LET k == arg[t].key IN
    /\ pc[t] = "store"
    /\ entries' = [entries EXCEPT ![k].seq = arg[t].seq + 1]
    /\ Accept(k, arg[t].seq, now)
    /\ Goto(t, "touch")
    /\ UNCHANGED <<arg, locals, now, calls>>

Store(t) ==
    LET k == arg[t].key IN
    /\ pc[t] = "store"
    /\ entries' = [entries EXCEPT ![k].seq = arg[t].seq]
    /\ Accept(k, arg[t].seq, now)
    /\ Goto(t, "touch")
    /\ UNCHANGED <<arg, locals, now, calls>>

\* update_seq: the timestamp; then the guard is dropped: Allowed.
Touch(t) ==
    /\ pc[t] = "touch"
    /\ entries' = [entries EXCEPT ![arg[t].key].at = now]
    /\ Goto(t, "idle")
    /\ UNCHANGED <<arg, locals, now, calls, accepted, admits, admitted>>

\* Phase 1: get misses; phase 2 begins to count the entries.
Miss(t) ==
    /\ pc[t] = "get"
    /\ entries[arg[t].key] = NoEntry
    /\ Goto(t, "len")
    /\ unread' = [unread EXCEPT ![t] = Shards]
    /\ seen' = [seen EXCEPT ![t] = {}]
    /\ UNCHANGED <<entries, arg, held, base, swept, now, calls, accepted,
                   admits, admitted>>

\* DashMap::len counts one shard; len is the number of keys in seen[t] once
\* every shard is read (a key is in one shard, so it is counted once).
ReadShard(t, s) ==
    /\ pc[t] \in LenPcs
    /\ s \in unread[t]
    /\ unread' = [unread EXCEPT ![t] = @ \ {s}]
    /\ seen' = [seen EXCEPT ![t] = @ \cup (Present \cap InShard(s))]
    /\ UNCHANGED <<entries, pc, arg, held, base, swept, now, calls,
                   accepted, admits, admitted>>


\* Phase 2: len() >= capacity: CacheFull.
CacheFull(t) ==
    /\ pc[t] = "len"
    /\ unread[t] = {}
    /\ Cardinality(seen[t]) >= Cap
    /\ Goto(t, "idle")
    /\ seen' = [seen EXCEPT ![t] = {}]
    /\ UNCHANGED <<entries, arg, held, unread, base, swept, now, calls,
                   accepted, admits, admitted>>

\* Phase 2 passed: ReplayEntry::new(seq) is built, stamped before the insert.
Mutant_HasRoom_OffByOne(t) ==
    /\ pc[t] = "len"
    /\ unread[t] = {}
    /\ Cardinality(seen[t]) <= Cap
    /\ Goto(t, "insert")
    /\ held' = [held EXCEPT ![t] = [seq |-> arg[t].seq, at |-> now]]
    /\ seen' = [seen EXCEPT ![t] = {}]
    /\ UNCHANGED <<entries, arg, unread, base, swept, now, calls, accepted,
                   admits, admitted>>

HasRoom(t) ==
    /\ pc[t] = "len"
    /\ unread[t] = {}
    /\ Cardinality(seen[t]) < Cap
    /\ Goto(t, "insert")
    /\ held' = [held EXCEPT ![t] = [seq |-> arg[t].seq, at |-> now]]
    /\ seen' = [seen EXCEPT ![t] = {}]
    /\ UNCHANGED <<entries, arg, unread, base, swept, now, calls, accepted,
                   admits, admitted>>

\* Phase 3: insert returns None: the source is registered, Allowed.
InsertNew(t) ==
    LET k == arg[t].key IN
    /\ pc[t] = "insert"
    /\ Writable(ShardOf[k])
    /\ entries[k] = NoEntry
    /\ entries' = [entries EXCEPT ![k] = held[t]]
    /\ Accept(k, held[t].seq, held[t].at)
    /\ held' = [held EXCEPT ![t] = NoEntry]
    /\ Goto(t, "idle")
    /\ UNCHANGED <<arg, unread, seen, base, swept, now, calls>>

\* Phase 3: insert returns Some(old_entry) with a smaller seq: Allowed, the
\* new entry stays.
InsertNewer(t) ==
    LET k == arg[t].key IN
    /\ pc[t] = "insert"
    /\ Writable(ShardOf[k])
    /\ entries[k] # NoEntry
    /\ held[t].seq > entries[k].seq
    /\ entries' = [entries EXCEPT ![k] = held[t]]
    /\ Accept(k, held[t].seq, held[t].at)
    /\ held' = [held EXCEPT ![t] = NoEntry]
    /\ Goto(t, "idle")
    /\ UNCHANGED <<arg, unread, seen, base, swept, now, calls>>

\* Phase 3: insert returns Some(old_entry) with seq <= last_seq: the new
\* entry is in the map until the old one is put back.
InsertOlder(t) ==
    LET k == arg[t].key IN
    /\ pc[t] = "insert"
    /\ Writable(ShardOf[k])
    /\ entries[k] # NoEntry
    /\ held[t].seq <= entries[k].seq
    /\ entries' = [entries EXCEPT ![k] = held[t]]
    /\ held' = [held EXCEPT ![t] = entries[k]]
    /\ Goto(t, "restore")
    /\ UNCHANGED <<arg, unread, seen, base, swept, now, calls, accepted,
                   admits, admitted>>

Mutant_Restore_Retries(t) ==
    LET k == arg[t].key IN
    /\ pc[t] = "restore"
    /\ Writable(ShardOf[k])
    /\ entries' = [entries EXCEPT ![k] = held[t]]
    /\ held' = [held EXCEPT ![t] = NoEntry]
    /\ Goto(t, "get")
    /\ UNCHANGED <<arg, unread, seen, base, swept, now, calls, accepted,
                   admits, admitted>>

\* The second insert puts old_entry back, whatever the map holds by then:
\* Rejected.
Restore(t) ==
    LET k == arg[t].key IN
    /\ pc[t] = "restore"
    /\ Writable(ShardOf[k])
    /\ entries' = [entries EXCEPT ![k] = held[t]]
    /\ held' = [held EXCEPT ![t] = NoEntry]
    /\ Goto(t, "idle")
    /\ UNCHANGED <<arg, unread, seen, base, swept, now, calls, accepted,
                   admits, admitted>>

----------------------------------------------------------------------------
(* cleanup_expired *)

\* A thread calls cleanup_expired: before = entries.len().
Cleanup(t) ==
    /\ pc[t] = "idle"
    /\ calls < MaxCalls
    /\ calls' = calls + 1
    /\ Goto(t, "before")
    /\ unread' = [unread EXCEPT ![t] = Shards]
    /\ seen' = [seen EXCEPT ![t] = {}]
    /\ UNCHANGED <<entries, arg, held, base, swept, now, accepted, admits,
                   admitted>>

\* before is known; retain begins.
StartSweep(t) ==
    /\ pc[t] = "before"
    /\ unread[t] = {}
    /\ base' = [base EXCEPT ![t] = seen[t]]
    /\ seen' = [seen EXCEPT ![t] = {}]
    /\ unread' = [unread EXCEPT ![t] = Shards]
    /\ swept' = [swept EXCEPT ![t] = {}]
    /\ Goto(t, "sweep")
    /\ UNCHANGED <<entries, arg, held, now, calls, accepted, admits,
                   admitted>>

\* retain drops the expired entries of one shard.
SweepShard(t, s) ==
    LET gone == {k \in Present \cap InShard(s) : Expired(entries[k])} IN
    /\ pc[t] = "sweep"
    /\ s \in unread[t]
    /\ Writable(s)
    /\ entries' = [k \in Keys |-> IF k \in gone THEN NoEntry ELSE entries[k]]
    /\ swept' = [swept EXCEPT ![t] = @ \cup gone]
    /\ unread' = [unread EXCEPT ![t] = @ \ {s}]
    /\ UNCHANGED <<pc, arg, held, seen, base, now, calls, accepted, admits,
                   admitted>>

\* retain is done; the second len begins.
EndSweep(t) ==
    /\ pc[t] = "sweep"
    /\ unread[t] = {}
    /\ unread' = [unread EXCEPT ![t] = Shards]
    /\ Goto(t, "after")
    /\ UNCHANGED <<entries, arg, held, seen, base, swept, now, calls,
                   accepted, admits, admitted>>

\* cleanup_expired returns before - len().
CleanupCount(t) == Cardinality(base[t]) - Cardinality(seen[t])
EndCleanup(t) ==
    /\ pc[t] = "after"
    /\ unread[t] = {}
    /\ Goto(t, "idle")
    /\ seen' = [seen EXCEPT ![t] = {}]
    /\ base' = [base EXCEPT ![t] = {}]
    /\ swept' = [swept EXCEPT ![t] = {}]
    /\ UNCHANGED <<entries, arg, held, unread, now, calls, accepted, admits,
                   admitted>>

----------------------------------------------------------------------------
(* clear, remove, time *)

\* A thread calls clear().
Clear(t) ==
    /\ pc[t] = "idle"
    /\ calls < MaxCalls
    /\ calls' = calls + 1
    /\ Goto(t, "clear")
    /\ unread' = [unread EXCEPT ![t] = Shards]
    /\ UNCHANGED <<entries, arg, held, seen, base, swept, now, accepted,
                   admits, admitted>>

\* DashMap::clear empties one shard; its keys are forgotten on request.
ClearShard(t, s) ==
    /\ pc[t] = "clear"
    /\ s \in unread[t]
    /\ Writable(s)
    /\ entries' = [k \in Keys |-> IF k \in InShard(s) THEN NoEntry
                                                      ELSE entries[k]]
    /\ admitted' = [k \in Keys |-> IF k \in InShard(s) THEN NoEntry
                                                       ELSE admitted[k]]
    /\ unread' = [unread EXCEPT ![t] = @ \ {s}]
    /\ UNCHANGED <<pc, arg, held, seen, base, swept, now, calls, accepted,
                   admits>>

EndClear(t) ==
    /\ pc[t] = "clear"
    /\ unread[t] = {}
    /\ Goto(t, "idle")
    /\ UNCHANGED <<entries, arg, locals, now, calls, accepted, admits,
                   admitted>>

\* remove(k), one write-locked step; some idle thread calls it.
Remove(k) ==
    /\ \E t \in Threads : pc[t] = "idle"
    /\ Writable(ShardOf[k])
    /\ entries' = [entries EXCEPT ![k] = NoEntry]
    /\ admitted' = [admitted EXCEPT ![k] = NoEntry]
    /\ UNCHANGED <<pc, arg, locals, now, calls, accepted, admits>>

Tick ==
    /\ now < MaxTime
    /\ now' = now + 1
    /\ UNCHANGED <<entries, pc, arg, locals, calls, accepted, admits,
                   admitted>>

\* The steps a thread takes inside a method it has called.
Progress(t) ==
    \/ Rejected(t) \/ Newer(t) \/ Store(t) \/ Touch(t) \/ Miss(t)
    \/ \E s \in Shards : ReadShard(t, s)
    \/ CacheFull(t) \/ HasRoom(t)
    \/ InsertNew(t) \/ InsertNewer(t) \/ InsertOlder(t) \/ Restore(t)
    \/ StartSweep(t) \/ EndSweep(t) \/ EndCleanup(t)
    \/ \E s \in Shards : SweepShard(t, s)
    \/ \E s \in Shards : ClearShard(t, s)
    \/ EndClear(t)

Next ==
    \/ \E t \in Threads :
        \/ \E k \in Keys, s \in Seqs : Call(t, k, s)
        \/ Cleanup(t)
        \/ Clear(t)
        \/ Progress(t)
    \/ \E k \in Keys : Remove(k)
    \/ Tick

Spec == Init /\ [][Next]_vars

\* A thread inside a method keeps running; nothing obliges it to call one.
FairSpec == Spec /\ \A t \in Threads : WF_vars(Progress(t))
----------------------------------------------------------------------------
(* Properties *)

\* The steps at which check_and_update decides to return Allowed, Rejected.
Accepts(t) == \/ pc[t] = "store" /\ pc'[t] = "touch"
              \/ pc[t] = "insert" /\ pc'[t] = "idle"
Rejects(t) == \/ pc[t] = "get" /\ pc'[t] = "idle"
              \/ pc[t] = "insert" /\ pc'[t] = "restore"

\* The frame of thread t is newer than the last one accepted for its source,
\* unless that one is older than the TTL (or was removed on request).
Fresh(t) ==
    LET last == admitted[arg[t].key] IN
    last # NoEntry /\ now - last.at <= TTL => arg[t].seq > last.seq

\* When no two calls for one source overlap, no frame is accepted twice and
\* no older frame is accepted after a newer one within the TTL, however the
\* calls of other sources, cleanup_expired, clear and remove interleave with
\* them (check_and_update, header rule 4).
NoReplay == [][\A t \in Threads : Accepts(t) => Fresh(t)]_vars

\* Whatever the interleaving, a frame is rejected as a replay only when a
\* frame of the SAME source with an equal or higher seq has been accepted:
\* neither the traffic of another tenant or source, nor the short-lived entry
\* of a lost registration race, ever blocks a source (check_and_update).
NoFalseReject ==
    [][\A t \in Threads : Rejects(t) =>
          \E s \in Seqs : /\ <<arg[t].key, s>> \in accepted
                          /\ s >= arg[t].seq]_vars

\* The capacity check (a shard-by-shard len) and the insert are separate
\* steps, so the map can exceed Cap; but never by more than one entry for
\* each thread but one, however many calls and removals interleave with the
\* counting.
CapacityBound == Cardinality(Present) <= Cap - 1 + Cardinality(Threads)

\* Threads inside the len of phase 2, and threads past it that may still add
\* an entry.
Counting == {t \in Threads : pc[t] = "len"}
Inserting == {t \in Threads : pc[t] \in {"insert", "restore"}}

\* What the len of thread t would add up to if nobody else moved.
View(t) == seen[t] \cup {k \in Present : ShardOf[k] \in unread[t]}

\* Why CapacityBound holds although a len is no snapshot: for every set S of
\* threads that are counting, the entries in the map and those still to come
\* leave room for one more per member of S, or else some member of S is going
\* to count enough of them.  (A removal that lowers what a thread will count
\* lowers the number of entries too.)
CapacityInv ==
    \A S \in SUBSET Counting :
        LET load == Cardinality(Present) + Cardinality(Inserting)
            rest == Cardinality(Threads) - Cardinality(S)
        IN  \/ load <= Cap - 1 + rest
            \/ \E t \in S : load <= Cardinality(View(t)) + rest

\* With serialised callers the cache is a ReplayGuard: the store, the insert
\* and the removal of an entry are the points where a call takes effect.
Guard == INSTANCE ReplayGuard WITH
    None <- NoEntry,
    last <- [k \in Keys |-> IF entries[k] = NoEntry THEN NoEntry
                                                    ELSE entries[k].seq]

\* check_and_update, cleanup_expired, clear and remove together implement the
\* atomic ReplayGuard when no two calls for one source overlap.
ImplementsGuard == Guard!Spec

\* Lines 152-154: only two threads registering a NEW source can race; so a
\* frame accepted on the path of a known source is newer than the last one.
OnlyRegistrationRaces ==
    [][\A t \in Threads :
          pc[t] = "store" /\ pc'[t] = "touch" => Fresh(t)]_vars

\* Line 217: cleanup_expired returns the number of entries it cleaned.  That
\* is so while no other thread registers a source between the two counts.
CleanupCountExact ==
    [][\A t \in Threads : pc[t] = "after" /\ pc'[t] = "idle" =>
          CleanupCount(t) = Cardinality(swept[t])]_vars

\* How often a thread can still touch shared memory, or move on between two
\* visits of the shards, before its call returns.
StepsFrom(place, toVisit) ==
    LET visit == Cardinality(Shards)
    IN  CASE place = "idle" -> 0
          [] place \in {"touch", "restore"} -> 1
          [] place \in {"store", "insert"} -> 2
          [] place = "len" -> toVisit + 3
          [] place = "get" -> visit + 4
          [] place \in {"clear", "after"} -> toVisit + 1
          [] place = "sweep" -> toVisit + visit + 2
          [] place = "before" -> toVisit + 2 * visit + 3

StepsLeft(t) == StepsFrom(pc[t], Cardinality(unread[t]))

\* However other threads interfere, whatever is lost to them is not tried
\* again: each step of a call leaves fewer, so that a call takes a number of
\* steps that only the shards bound (get + insert instead of a loop, lines
\* 152 to 156).
CallsAreBounded ==
    [][\A t \in Threads :
          pc[t] # "idle" => \/ UNCHANGED <<pc[t], unread[t]>>
                           \/ StepsLeft(t)' < StepsLeft(t)]_vars

\* Every call returns: a writer waits only for readers, and a reader waits
\* for nobody (get + insert in place of the entry API, line 152).
CallsReturn == \A t \in Threads : pc[t] # "idle" ~> pc[t] = "idle"
============================================================================
