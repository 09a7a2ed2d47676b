# A verification of BIND-19 in TLA+

BIND-19 is a Rust crate (`src/src/`) that carries intents over a byte
transport: frames with a physical-feature extension (PFP) and a security
extension (SAP), an anti-replay cache shared by threads, a key-rotation state
machine and an event bus with an audit log for catastrophic overrides. These
modules model what of it has behaviour: shared state, protocols, failure. TLC
checks them on small instances, TLAPS proves the main properties for every
value of the constants. `PROJECT.json` lists the runs, the mutants that show
that each property can fail, the source lines of every definition, the
disagreements found between code and documents, the hazards and the theorems.

## 1. Inventory

| Part (source) | State | Operations | What is hard |
|---|---|---|---|
| Replay cache (`replay_cache.rs`) | a DashMap from (tenant, source) to last number and time stamp; the ttl | `check_and_update`, `check_only`, `cleanup_expired`, `remove`, `clear`, `last_seq`, `len` | called by many threads; get, len and insert lock separately; expiry runs in between; capacity; 16-bit numbers |
| Frame processor (`processor.rs`) | its replay cache, its tenant | `process_frame`, `check_frame`, `cleanup_expired`, `remove_source` | what `check_frame` said is old when it is used; `remove_source` races data of the old session |
| Key rotation (`rotation.rs`, the counter of `sap.rs`) | Idle / Pending(retries) / Rotated / Failed, pending payload | `should_rotate`, `start_rotation`, `handle_ack`, `handle_timeout`, `manual_reset`, `complete_rotation` | lost, late and repeated KEY_ROTATION and ACK frames; timeouts against ACKs; wrap of the counter while waiting, and after a failure |
| Audit log (`catastrophic.rs`) | the newest entries of a hash chain, next number, last hash, count | `append`, `verify_chain`, `clear` | rotation at the limit; what verification notices |
| Catastrophic manager and event bus (`catastrophic.rs`) | the mpsc channel, the shared log | `handle_frame`, `send`, `recv` | threads interleave between send and append, of one source too; the receiver may be gone; nothing may be lost |
| Frame, PFP, SAP codecs (`frame.rs`, `pfp.rs`, `sap.rs`) | none | `encode`, `decode`, `BindFrame::new`, risk and override decisions | lengths and flags at their limits; what is lost on re-encoding |
| Configuration (`config.rs`) | one OnceLock | `global`, `set_global`, `from_env` | what the library's OnceLock promises |
| Cryptography (`crypto.rs`) | none | sign, verify, hash | stateless library calls, used by no other part |
| Tuck gate (`examples/tuck_integration.rs`) | a processor and a manager | `decide` | the override is handled before the replay check; its event has no receiver; every event has one source |

How they interact: a sender numbers its frames with the counter of the SAP; the
receiver decodes a frame, a gate asks the catastrophic manager first and then the
frame processor, which asks the replay cache. Near the end of the numbers the
sender's rotation machine sends KEY_ROTATION; the receiver takes the key, calls
`remove_source` and answers with KEY_ROTATION_ACK; the caller's timer drives
`handle_timeout`. Clones of the manager in several threads share the bus and the
log.

Correctness, by part: no replay is let through and no frame is refused without a
reason (cache); the map stays bounded (cache); both sides agree on the key, and the
receiver's new session is not refused for the old one (rotation); no number is used
twice under one key (rotation); the log is one chain and every override is signalled,
then recorded, once, and not further out of order than threads can overtake each other
(manager, log); who knows the last hash of the log knows what it holds (log); an
override or an unchecked frame uses up no number, and what is answered as an override
is recorded (gate); what is encoded is what is decoded, at every relay (codecs).
Section 3 says which of these the code does not keep.

## 2. Modules

| Module | Models | Kind |
|---|---|---|
| `ReplayGuard` | what an anti-replay check promises: one atomic step per frame | abstract specification |
| `ReplayCache` | the concurrent cache, one step per access to shared memory | detailed specification |
| `ReplayCacheProofs`, `ReplaySerialProofs` | theorems about `ReplayCache` | proofs |
| `KeyRotation` | the state machine, one operator per method | component |
| `KeyAgreement` | what a rotation promises: offer, take, switch | abstract specification |
| `RotationSession` | sender, receiver, network and timer around `KeyRotation` | composition |
| `RotationProofs`, `CounterProofs` | theorems about `RotationSession` | proofs |
| `AuditLog` | the hash chain in memory | component |
| `AuditReader` | a reader who was told the last hash and is shown a log | component |
| `OverrideLedger` | what the manager promises: an override is told, then entered | abstract specification |
| `CatastrophicManager` | threads, bus and receiver around `AuditLog` | composition |
| `CatastrophicProofs`, `SignalProofs` | theorems about both | proofs |
| `FrameProcessor` | the processor's decisions, and the cache's update as a step of its own | component |
| `TuckGate` | threads in `decide` around `CatastrophicManager` and `FrameProcessor` | composition |
| `GateProofs` | theorems about `TuckGate` | proofs |
| `FrameCodec` | encode and decode as operators | algorithms |
| `FrameRelay` | bytes arrive, are decoded and sent on | composition |
| `CodecProofs` | theorems about `FrameRelay` | proofs |
| `MC*` | instances for TLC | |

### ReplayCache

Each thread has a place (`pc`) in the method it runs and its local values.
`Rejected`, `Newer`, `Store`, `Touch` are the hit path of `check_and_update` (load;
compare; store of the number; time stamp); `Miss`, `ReadShard`, `CacheFull`,
`HasRoom` its capacity check; `InsertNew`, `InsertNewer`, `InsertOlder`, `Restore`
its insertion. `Cleanup` .. `EndCleanup` are `cleanup_expired` (len, retain, len),
`Clear` .. `EndClear` are `clear`, `Remove` is `remove`. The grain follows
DashMap, which is external and modelled from its documented locking: `get` keeps
the READ lock of a shard until its guard is dropped, so several threads may be
between load and store of the same entry; `insert` and `remove` need the WRITE
lock, and so wait for readers; `len`, `retain` and `clear` visit one shard at a
time. `Serial` restricts callers to one `check_and_update` per source at a time
(one transport thread per source); where it is FALSE everything interleaves.
`accepted`, `admits` and `admitted` are history; `ReplayGuard` counts what it lets
through as well, so that letting the same frame through again is not a stutter. Load and compare are one step: the
comparison is local to the thread.

### KeyRotation, RotationSession and KeyAgreement

The operators of `KeyRotation` are the methods. `RotationSession` adds the caller:
a sender that sends data, starts a rotation when `should_rotate` says so, and
switches keys after the ACK; a receiver that takes the key, calls `remove_source`
and confirms; and a network in which every frame may be lost (never received),
repeated (data, a KEY_ROTATION or an ACK stays in flight) and reordered. A data frame
that was sent (`sent`) may arrive at any later time, whatever the keys are by then:
`process_frame` does not look at them, and the sender goes on with the old key while
a rotation is `Pending`. `Late` says whether a KEY_ROTATION or its ACK may arrive after
its rotation is over. `SendData` has the guards of the code and no other,
`can_send_data` and `should_rotate`: the counter may pass the threshold and wrap
during a rotation, and after one that failed and was reset. `Guarded` says when
`should_rotate` does stop the counter, and `over` counts the frames sent under a key
when it does not (history, up to `Reserve`, the two numbers from the threshold on).
`ColdStart` is the set of numbers a sender may begin with: `SapHeader::new` takes any.

`KeyAgreement` knows three keys, the newest that was offered, the receiver's and
the sender's, and three steps. `ImplementsAgreement` maps them to `round`,
`recvKey` and `key`: the sender switches only to the newest key, and only while the
receiver holds it.

### AuditLog, AuditReader, CatastrophicManager and OverrideLedger

The log is the Vec of entries with its counters. A digest is the term it is
computed from (SHA-256 without collisions), and the input of an event's digest is
what the code feeds it. `handle_frame` is `Trigger` (event created), `Send`
(on the bus, or nowhere when the receiver was dropped) and `Audit` (appended under
the mutex); `Ignore` is the frame that is no override. `created`, `recorded` and
`received` are history. `src` is a free argument of `handle_frame`: any thread may pass
any source, and several the same. `at` orders events by creation; that two time stamps may
be equal plays no part. A poisoned mutex is left out: nothing panics under it.

`verify_chain` sees only that a log agrees with itself; the tamper test of
`catastrophic.rs` (495 to 522) appends an altered event anew, expects that log to
verify too, and calls the hash of the last entry the real detection. `AuditReader` says
what that detection is worth: `Shown` is the set of logs
a reader may be shown, and `LastHashCommits` that one which verifies and ends with
the last hash has the entries that were appended, the evicted ones counted.

`OverrideLedger` has an override happen, be told (to the mail of a listener, if there
is one) and be entered in the record. `ImplementsLedger` maps `open` and `told` to the
events that threads hold before and after `Send`, the mail to `received` and the bus.
Overrides that are open at once are told and entered in any order, of one source too.
How far from the order of time that leads, `SignalledInOrder` says: an override gets
ahead of at most one older override of each other thread, because a thread holds one
event at a time; the log and the bus may differ from the time stamps and from each
other.

### FrameProcessor and TuckGate

`FrameProcessor` has the decisions of `process_frame` and `check_frame` (`NoSap`,
`Allowed`, `RejectedReplay`, `RejectedCacheFull`) and the update of the cache
(`Update`), which is a step of its own: between the two other threads register and
forget other sources. `ReplayCache` has what else happens in between, and
`ImplementsGuard` says that calls for one source that do not overlap have the effect of
these steps. That they do not overlap is an assumption about the callers (`Alone`); the
code does not see to it. Expiry and `remove_source` are one action, `Forget`, of any set
of sources whose entries are not guarded: which ones the clock picks is the business
of `ReplayCache`. Every processor has a cache of its own, so one tenant is enough.

A call of `decide` is `DecideNoPfp` (answered at once), or `DecideOverride`, the
steps `Send` and `Audit` of the manager and `AnswerOverride`, or `DecideCheck` and
`Check`, or `DecideCheck`, `Pass` and `Store`. The gate starts without a receiver
(`alive` FALSE), since `TuckGate::new` drops it, and gives one `DecisionSource` to all
events, as `tuck_integration.rs` 71 does. `mine` is history: which event the call of a
thread created. The four answers of `decide` themselves are not kept: they are what the
actions' guards say. Its step 4 computes an effective risk and throws it away.

### FrameCodec and FrameRelay

`FrameCodec` has an operator per function, with the checks of `decode` in their
order, and the payload of a KEY_ROTATION. `FrameRelay` builds a frame (or takes a
buffer of another implementation), lets its bytes arrive one by one, decodes what
there is after each, and encodes and forwards what it decoded.

## 3. Runs

Passing runs; bounds in parentheses.

- **ReplaySerial** (2 threads, 2 sources in different shards, numbers 0..2, TTL 1,
  clock to 2, 3 calls): `NoReplay`, `ImplementsGuard`. Two threads, because a second
  caller on another source, a cleaner or a remover is one thread; the clock passes
  the TTL, so that expiry falls between any two steps.
- **ReplayRace** (2 threads on the same 3 sources in 2 shards, numbers 0..2,
  capacity 1, 3 calls): `TypeOK`, `CapacityBound` with the inductive `CapacityInv`
  behind it, `NoFalseReject`, `CallsAreBounded`, `CallsReturn`. Both orders of a registration race and
  the restore occur within 2 calls; the third meets what they left. The bound is 2
  entries and there are 3 sources, so that one entry too many would show.
  `CallsReturn` assumes
  weak fairness of each thread's steps inside a method (a thread is scheduled and
  a lock that is free is got). `MaxCalls` bounds the calls, so that a call is not
  overtaken for ever by new ones: starvation of a writer by an unending sequence of
  new readers is left to the lock library.
- **Rotation** (2 rotations, 3 retries as in the code, counter modulo 6 from any
  start, `Late` FALSE): `TypeOK`, `PayloadIffPending`, `GivesUpAfterAllRetries`,
  `AckConfirmsKey`, `ApartOnlyAfterFailure`, `ImplementsAgreement`, `NoSeqReuse`,
  `RotationResolves`. Modulo 6 leaves four numbers below the threshold and the two
  from it on, so that a counter that wraps has numbers to go through before it repeats
  one; the second rotation meets what a failed one left behind. Data frames are not
  bounded: the set of those sent is. `RotationResolves` assumes weak fairness of
  the caller's timer, which `ACK_TIMEOUT` demands, and nothing of the network.
- **AuditLog** (3 entries kept, 5 events, clear at any time; a reader is shown any log
  of up to 4 events in the order of time, numbered from 0 or 1): `ChainInv`,
  `VerifiesUntilEviction`, `ChainDetectsEdits`, `LastHashCommits`. A shown log may be
  longer than what is kept, so that it can agree with a log that has evicted.
- **Catastrophic** (2 threads that pass one source, 3 events, 2 entries kept, every
  override and replay flag): `TypeOK`, `NothingLost`, `SignalledInOrder`, `ImplementsLedger`, and
  `EveryOverrideAnswered`
  under weak fairness of each thread inside `handle_frame` and of a receiver that
  blocks in `recv`.
- **FrameRelay** (all 2048 PFPs without reserved bits and none, SAP numbers at the
  byte boundaries, an unknown type and KEY_ROTATION, payloads of 0, 1 and 4 bytes
  with a limit of 3 and a nonce of 2, so that a key is empty, has one byte or lacks a
  byte of the nonce, foreign flags, magics, reserved bits and
  trailing bytes; the opaque proof is one byte): `NoEarlyFrame`,
  `BuiltFrameSurvives`, `RotationKeySurvives`, `DecodedIsConsistent`,
  `RelayLosesOnlyReserved`.
- **TuckGate** (2 threads, 2 senders, one source for all events, numbers 0 to 2, a
  cache of 1 entry, 3 overrides, a log of 1 entry; threads and senders are
  symmetric): `GateTypeOK`, `AnsweredIsRecorded`, `GateCheckedOnce`,
  `GateRefusalsExplained`. A second sender makes the cache full, two that register at
  once exceed its limit, and a third override finds a log that has evicted.

`CHECK_DEADLOCK FALSE` is set only where the system may stop: all events handled,
all bytes arrived, no more rotations to start.

Runs that are violated, each by what the code does against what a document,
comment or test says (`findings` quotes it):

| Run | What TLC shows |
|---|---|
| ReplayKnownRace | two threads accept one number of a known source |
| ReplayCleanup | `cleanup_expired` counts 0 - 1 when a source registers meanwhile |
| RotationLateAck | an ACK of a failed rotation confirms the next |
| AuditVerify | after an eviction `verify_chain` rejects an untouched log |
| RotationBlocks | old-key data sent while Pending arrives after `remove_source` and blocks the new session |

Further disagreements, met while modelling and visible in the models, that no run
is spent on.

Replay check and rotation:

- A KEY_ROTATION that arrives again in the new session makes the receiver call
  `remove_source` again, and frames of that session pass a second time
  (`ReceiveRotation`, which the model allows in run Rotation too: while a rotation
  lasts, whatever passed before it was repeated may pass again). The reset of
  `docs/v2.0-upgrade-plan.md` 182 does not ask whether the key is new.
- The counter can wrap under the old key: during a rotation `can_send_data` stays true
  and `should_rotate` is false, so that a third data frame past the threshold may
  repeat a number; and after a failed rotation and `manual_reset` the counter may have
  wrapped already, so that `should_rotate` is false and the numbers run through again
  under the old key. `NoSeqReuse` is what is left: no repetition before two frames were
  sent without that guard, the reserve of `docs/v2.0-upgrade-plan.md` 176.
- When calls for one source overlap, a store that comes late lowers `last_seq`
  (`replay_cache.rs` 157 to 163), and a frame that `check_frame` has refused may pass
  afterwards; `ImplementsGuard` needs `Serial` for this reason too.
- After a failed rotation `manual_reset` goes back to Idle with the old key, and data
  frames flow again under it; `docs/decisions/0005-ci144-v2-key-rotation-ack.md` 15
  and `docs/spec/sap-xcf14.md` 189 forbid to go back to the old key.
- The capacity of `replay_cache.rs` 13 is exceeded when threads register together;
  `CapacityBound` is by how much.
- The audit entry REJECTED_REPLAY that `processor.rs` 6 announces, and the
  REPLAY_DISABLED of `docs/spec/sap-xcf14.md` 199, are written nowhere; neither is
  the PAH verified, which the same section demands of frames with Replay-Enable 0.

Overrides and the gate:

- A frame with Replay-Enable 0 triggers the hard override (`IsCatastrophicOverride` of
  `CatastrophicManager` looks at Risk-Level and Override-Flag only), while
  `docs/spec/sap-xcf14.md` 197 says that such a frame never can.
- `TuckGate::new` drops the receiver, so that the event of an override goes nowhere,
  although `tuck_integration.rs` 66 says that `handle_frame` sends it and `main`
  prints so (141). It is recorded all the same (`AnsweredIsRecorded`).
- An override is handled before the replay check even with Replay-Enable 1: the
  same frame, delivered again, triggers and is recorded again.
- `decide` answers `NoSap` for a frame without a PFP and leaves its SAP unchecked; a
  frame with a PFP and no SAP it allows.
- `decide` takes the risk from the PFP, which ignores the debug mode;
  `BindFrame::effective_risk_level` asks the configuration, and sets it by asking.
- `has_receivers` is always true (`catastrophic.rs` 248).
- `CatastrophicEvent::hash` feeds two zero bytes for a missing Seq-Counter as for the
  number 0, so that `verify_chain` does not tell the two apart (`HashEvent`); sensor
  context and source are fed without their lengths, so that bytes may move from one
  to the other.

Codecs:

- `decode` accepts a SAP without a PFP, which `BindFrame::new` refuses (`frame.rs` 228).
- `decode` answers IncompleteFrame for an oversized payload until all of it has
  arrived; `spec/BIND-19.md` 177 refuses it from the header alone.
- Reserved PFP bits are decoded without a complaint and encoded as zeros:
  `docs/spec/pfp-xcf14.md` 176 has a receiver start a version negotiation on them,
  which nobody behind a relay can (`RelayLosesOnlyReserved`). The upper half of the
  SAP's version byte is dropped in the same way.
- `verify_truncated` of `crypto.rs` answers false whatever it is given.

## 4. Proofs

Each theorem holds for all values of the constants that the named assumptions of
its module allow: any finite set of threads, keys and sources, any number of
shards, any limits, any length of log and of payload.

Replay cache (`ReplayCacheProofs`, `ReplaySerialProofs`):

- `TypeCorrect`: `TypeOK` of the cache. It needs lock ownership: a thread between
  load and store keeps writers of its shard out, so the entry it stores to exists.
- `RejectsAreJustified`: `NoFalseReject`. The inductive invariant (`BackedInv`)
  says that every number in the map, and in an entry a thread holds to put back or
  to insert, is backed by an accepted number of the same source at least as high,
  or will be accepted by the thread that is inserting it.
- `CapacityOvershoot`, `CapacityCounted`: `CapacityBound` and `CapacityInv`, which is
  inductive: for every set
  of counting threads, the entries present and announced leave room for one more
  per member, or one member is going to count enough. The quantification over sets
  is needed because a removal lowers what several threads will count at once.
- `CacheImplementsGuard`, `NoReplaySerial`: under `Serial`, every step of the cache
  is a step of `ReplayGuard` or a stutter, and `NoReplay`. The invariant relates
  the map to `admitted`: what was admitted within the TTL is still in the map.
- `SerialKnownSource`: under `Serial` also `OnlyRegistrationRaces`, so that what run
  ReplayKnownRace shows needs calls for one source that overlap.
- `CleanupExactAlone`: with one thread, `CleanupCountExact`. The invariant
  (`AloneInv`) says that what is still in the map and what was swept are together
  what the first count found, and that a count has the shards it visited right. Run ReplayCleanup shows that one thread is
  needed.
- `BoundedCalls`: `CallsAreBounded`. `StepsLeft` counts the steps a call can still
  take; a step of the call lowers it and a step of another thread leaves it
  (`ProgressShortens`). This is the part of `CallsReturn` that is no liveness: a call
  that goes on getting its turn, and its locks, returns.

Rotation (`RotationProofs`, `CounterProofs`):

- `PayloadAtHand`, `AllRetriesUsed`: the sender's bookkeeping, by a joint invariant
  (`SenderInv`) of state, retries, payload and number of transmissions.
- `SessionTypeCorrect`: `TypeOK` of sender, receiver and network (`WireType`).
- `AckConfirms`: `~Late` implies `AckConfirmsKey`; `NetInv` says that only
  frames of the waiting rotation are in flight and that an ACK in flight tells the
  receiver's key. The assumption is necessary: run RotationLateAck.
- `ApartAfterFailure`, `RotationAgrees`: under `~Late`, `ApartOnlyAfterFailure` and the
  refinement of `KeyAgreement`. They rest on `TimelyInv`, which adds to the above that
  the sender's key is never ahead of the receiver's nor that of the last offer
  (`KeyInv`), and that the two are apart in Idle only after all transmissions
  (`ApartInv`).
- `NumbersUsedOnce`: `NoSeqReuse`, whatever the network does, however late frames are
  and however often a rotation fails. `CountInv` follows the wrap: until two frames
  were sent without a guard, all numbers sent under the key are below the counter, or
  the counter has wrapped with one such frame, and then the last number is the only
  one sent. The invariant also says that a session in Rotated has counted its frames
  from 0 (`seq = over`), and that a rotation that failed leaves the offered key apart
  from the key in use.

Manager and log (`CatastrophicProofs`, `SignalProofs`):

- `LogChained`, `AuditChained`: `ChainInv` is inductive as it stands.
- `LogVerifies`: `VerifiesUntilEviction`; until the first eviction the log begins
  with the entry whose predecessor is the zero hash (`HeadInv`).
- `EditsAreDetected`: `ChainDetectsEdits`, because a digest is the term it is computed
  from and an entry tells its own number (`EntryInv`): an altered event shows, and
  entries taken in any order and number verify only as a beginning of the log.
- `LastHashStandsForAll`: `LastHashCommits`. The log alone says nothing of
  what was evicted, so the invariant (`WholeAlways`) says that there is a whole log,
  from the zero hash on, of which the log in memory is the end; two whole logs with
  one last hash agree from the end to the beginning (`SameHashSameLog`). This is
  induction over the length, for which the library's theorems cannot be used; the
  lemma `Least` (a set of numbers that is not empty has a least one) takes their
  place. `AuditStandsForAll` carries it to the manager's threads.
- `OverridesRecorded`: `NothingLost`, together with `ChainInv` (`ConserveInv`): created
  events are recorded or held by exactly one thread, counted with the library's
  theorems on finite sets.
- `ManagerTypeCorrect`, `SignalsPrecedeRecords`: `TypeOK` and `SignalledInOrder`.
  `OrderInv` says that every event is recorded or in the hands of one thread
  (`Accounted`), and sent or about to be while there is a receiver (`Signalled`); so
  what is appended gets ahead only of what other threads hold (`Bounded`).
- `ManagerImplementsLedger`: `ImplementsLedger`, one lemma per kind of step
  (`TriggerHappens`, `SendTells`, `AuditEnters`, `ReceiverTakesOrLeaves`). That a
  new event is later than all others is what they need of the invariants above.

Gate (`GateProofs`):

- `GateChecksOnce`, `GateRefusesForAReason`: what a source has used up is what its
  Last-Seen-Seq bounds, and that number itself was let through (`CheckInv`); a thread
  between its look and its store has the source to itself, and its number is above
  Last-Seen-Seq still (`StoreInv`). That calls for one source do not overlap is in the
  specification (`Alone`).
- `OverridesAnsweredAreRecorded`: a thread in `handle_frame` holds the event that its
  call created, of the frame it decides, and then it is in the record (`RecordInv`).
- `GateUsesManager`: every step of the gate is a step of `CatastrophicManager` or
  leaves it alone, so the theorems about the manager hold in the gate:
  `GateKeepsRules` draws them together, the ledger and the last hash included. It needs
  no more of the sources than that the one of `decide` is a source
  (`DecisionSourceAssumption`).
- `GateTypeCorrect`: `GateTypeOK`, from the manager's type and the invariants above.

Codec (`CodecProofs`), all from one invariant, `WireInv`: the wire holds bytes, and of
a frame that was built the bytes are its encoding.

- `WaitsForTheFrame`, `FramesSurvive`, `KeysSurvive`: `NoEarlyFrame`,
  `BuiltFrameSurvives`, `RotationKeySurvives`. The lemmas say where each part of
  an encoding stands (`FrameParts`) and that header, PFP, SAP and payload come back
  as they were (`HeaderRoundTrip` and others); `DecodeEncode` puts them together.
- `AcceptedIsConsistent`: `DecodedIsConsistent`, for every sequence of bytes
  (`DecodedIsFrame`).
- `RelaysLoseOnlyReserved`: `RelayLosesOnlyReserved`; what decode and encode lose is the
  reserved bits, and what `Decision` holds does not depend on them (`CleanDecides`).

- `FramesAreSelfDelimiting`: frames on a stream are read one way only. By
  `EarlyAnswer` and `DecodeEncode` no encoding is the beginning of another
  (`NoFrameBeginsAnother`), so that two frames with whatever bytes after them are the
  same bytes only if they are the same frame, reserved bits aside.

They assume that the payload limit fits in the four bytes of its field.

Only model-checked: liveness (`CallsReturn`, `RotationResolves`,
`EveryOverrideAnswered`), which the prover does not do under fairness.
`OwnLogVerifies` and `SessionFlows` are violated; so are `OnlyRegistrationRaces` when
calls for one source overlap, `CleanupCountExact` when a second thread registers, and
`AckConfirmsKey` with `Late`, and each of these three is proved for the case in which it
holds.

## 5. Not modelled

- Cryptography: stateless library calls that no other part of `src/src` makes; in the
  models a digest has no collisions and a key is a number.
- `len` and `is_empty` of the cache, and the accessors that only read a field.
- Events that a caller puts on the bus itself (`event_bus().send`), and the sensor
  context of an event.
- The configuration's OnceLock and `from_env`: that all readers see one value is the
  library's promise. What debug mode does to the risk is in `FrameCodec`.
- Several tenants: a processor and its cache belong to one, nothing is shared.
- The printing examples, the test-vector
  generator, the benches.
- Memory ordering of the atomics (all SeqCst, in the code too); a poisoned mutex
  (nothing panics under it).
- DashMap and mpsc beyond their documented behaviour.

## 6. Plan

Done, in this order: ReplayCache with its abstract specification and proofs,
KeyRotation and RotationSession with KeyAgreement and proofs, AuditLog and
CatastrophicManager with AuditReader, OverrideLedger and proofs, FrameCodec and FrameRelay with proofs,
FrameProcessor and TuckGate with proofs.

Next, should the code grow that way:

1. The gate on `ReplayCache` itself, for calls that overlap on one source.
2. A receiver that tells old-key data and repeated KEY_ROTATIONs from new ones, with
   `SessionFlows` as a property that holds.
3. The two-layer PAH check, once `process_frame` or the gate calls `crypto.rs`.
