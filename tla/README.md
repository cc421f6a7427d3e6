# DoLogger in TLA+

Specifications of DoLogger's core (`core/src`) and of the `dologctl` commands
that keep state (`cli/src`), the TLC configurations that check them on small
instances, and TLAPS proofs. Paths are relative to the root of the repository.

## The system

An application thread calls `dologger_log`. It takes a record from a lock-free
pool, fills it and pushes it to a lock-free ring; an AUDIT record goes to a ring
of its own. One consumer thread drains the ring in batches, runs the stages and
writes to the sinks. A second one writes audit records to three files that are
chained by hashes. Around this path: the configuration and its reload, the
control plane, the mirror to shared memory that other processes read, plugins
that the stages call, and the tools that verify and replay what was written.

| Component | State | Operations | Interacts with | Hard behaviour | What makes it correct |
|---|---|---|---|---|---|
| ring buffer (`buffer/ring_buffer.rs`) | slots with sequence numbers, two cursors | `try_push`, `drain`, `drain_helping`, `len` | every producer, the consumer | lock-free claims by many producers and several drainers; items claimed and not published | a bounded FIFO; one user of a slot at a time; no item stays for ever |
| record pool (`buffer/object_pool.rs`) | stack of free indices | `alloc`, `free` | every producer and drainer | compare-and-swap on a bare index | a record has one owner |
| WORM sink (`sink/worm.rs`) | file, buffer, last LSN and hash, reorder buffer and its window | `write_worm_record`, gap markers, `rotate`, `flush`, `close` | audit pipeline, file system | records out of order, faults, loss of power | a trail without holes, in order, nothing forgotten, sealed files durable |
| audit pipeline (`security/audit.rs`, `sink/security.rs`) | queue, two flags, chain, three files | `push_audit`, consumer loop, `shutdown` | `dologger_log`, WORM sink | blocked producers, failure between two files, stop | a prefix of the accepted records is persisted; files agree; calls return |
| log path (`ffi.rs`, `lib.rs`, `pipeline/*`) | pool, ring, batch, counters | `dologger_log`, `try_help`, `consumer_loop`, `Engine::shutdown` | all of the above | helpers next to the consumer, stale cursors, shutdown | records conserved, delivered once and in order; counters add up |
| I/O pool (`pipeline/scheduler.rs`, `sys/thread_pool.rs`) | bounded channel, job, handles of the pool | send, worker loop, joins | consumer thread | who holds the last handle, who joins whom | shutdown ends, the sink has everything before it is closed |
| rate limit (`pipeline/policy.rs`), record identifiers (`sys/time.rs`) | tokens, time of the last refill; millisecond and sequence | `evaluate`; `next_id` | every producer | load and swap of several callers; overflow within a millisecond | no more than the rate; no identifier twice |
| reload (`config/watcher.rs`, `config/hot_reload.rs`, `lib.rs`, `sys/control_plane.rs`) | pending configuration, requests, epochs, level held twice, sinks | `reload_config`, `poll_config_reload`, watcher and listener threads | pipeline, file system | requests that overtake one another, partial failure, files replaced | whole reloads; what is reported is what runs; the last write is applied |
| configuration files (`config/settings.rs`, `config/domain.rs`) | layers, profile, overrides; domains | load, apply; add, resolve | engine | order of the layers, replaced parents, batch sizes nobody checks | one file with one profile; a child tightens what its parent says |
| shared memory (`sink/shm.rs`, `dologger_shm.h`, `shm clear`) | cursors, slots, header, the object's path | `write`, readers, create, `close`, clear | reader processes, engine shutdown | several writers at a full ring, crashes, a tool that unlinks | watermark kept; nobody writes to an unmapped region |
| resilience (`pipeline/circuit_breaker.rs`, `canary.rs`, `backpressure.rs`, `buffer/emergency_buffer.rs`) | breaker state, probers, level and flag, spill file | requests and reports, probes, checks, push, drain | sinks (the engine does not call them yet) | fields that are separate atomics; torn writes; keys that change | protection ends with its cause; nothing spilled comes back twice |
| replay guard, key rotation, anchor (`security/`) | window, keys and events, hashes and batches | `observe`; initiate, complete, cancel, revoke; accumulate, anchor | audit consumer, verification | eviction, grace periods, failed writes | nothing accepted twice; signatures verify; the chain is covered |
| file and remote sinks (`sink/*`) | file, rotated files; batches, connections | write, rotate, flush, close | disk, network | lost answers, failed rotation, durability levels | acknowledged records are kept, in order |
| records and frames (`record/*`, `sif/codec.rs`) | fields, process-wide tag tables, a stream's buffer | set, get, encode, decode, scan | hosts, plugins, readers | tags that mean different names in two processes; frames cut anywhere | what was set is what is read |
| plugins (`plugin/*`, `commands/plugin.rs`) | libraries, registry, dispatch table, states; files and keys | discover, admit, initialise, dispatch, unload, migrate; sign, install, verify | consumer thread | dispatch without a lock, trust that changes, two commands at once | the consumer is never in an unmapped library; what was signed stays signed |
| verification and recording (`commands/verify.rs`, `record.rs`, `run.rs`) | trails and sidecars; frame files; engine behind a mutex | verify, recovery, replay; record; run | what the pipeline writes | damage between runs, a full disk, signals | a trail that passes is intact; readers agree |
| system services, cryptography, text codecs, views, adapters, official plugins | - | formatting and I/O | - | none across threads | not modelled, see below |

## Modules

| Module | Models |
|---|---|
| `BoundedFifo` | abstract: a FIFO of bounded size whose items are claimed once |
| `RingBuffer`, `RingBufferProofs` | the ring, one action per atomic access (implements `BoundedFifo`); theorems |
| `RecordSet` | abstract: a set of free records |
| `RecordPool` | the pool, one action per atomic access (implements `RecordSet`) |
| `LogFile` | external: an entry of a file is in the process's buffer, in the operating system, or on the device |
| `WormSink` | the WORM sink, as operators that a caller composes; lemmas on its file operations |
| `WormOrder` | the sink with a caller that delivers LSNs in any order and more than once; theorems |
| `AuditLog` | abstract: records are accepted, and a prefix of them persisted |
| `AuditPipeline` | `push_audit`, the consumer and its three files, composed with `WormSink` (implements `AuditLog`); theorems |
| `LogDelivery` | abstract: the sinks are handed accepted records, in order, each once |
| `LogPath`, `LogPathProofs` | from `dologger_log` to the sinks, with helping and shutdown (implements `LogDelivery`); theorems |
| `ConfigWatcher` | the file, its writers, the watcher thread with both backends, the pending slot |
| `ControlPlane` | the listener's requests and answers |
| `ConfigReload` | the engine's owner that polls, composed with the two; theorems |
| `ConfigLoad`, `DomainTree` | the ladder of configuration layers; domains and their inheritance |
| `RateLimit`, `RecordId` | token bucket; record identifiers; one action per atomic access |
| `Backpressure`, `CircuitBreaker`, `Canary`, `EmergencySpill` | the resilience components, each with its threads |
| `ShmRing` | writers and readers of the shared ring, one action per atomic access |
| `ShmRegion` | the life of the shared object over processes and crashes, within `Engine::shutdown` |
| `FileSink`, `RemoteSinks` | the file sink; OTel, webhook, Kafka, syslog over TCP, SQLite |
| `SinkDispatch` | writing through an I/O pool |
| `ReplayGuard` | the guard with messages that arrive in any order, twice, altered |
| `KeyRotation`, `ExternalAnchor` | signing keys over rotations; hashes, roots and anchors |
| `AuditVerify` | trails as the stages write them, damaged, and the commands that verify them |
| `PluginHost`, `PluginMigration`, `DependencyCheck` | the plugin manager under the engine; state handed over on reload; search for cycles |
| `PluginStore` | `dologctl plugin` |
| `SifCodec` | fields, tags and frames between processes; the stream scanner |
| `RecordFile`, `EngineRun` | `dologctl record` and its readers; `dologctl run` |
| `ComponentProofs`, `ReadBackProofs` | theorems on the components that `MCComponents` checks; the second has those on what one process writes and another reads: shared ring, codec, record files |

`MCRingBuffer`, `MCLogPath` and `MCConfigReload` give the constants their values,
and `MCComponents` puts the components that do not interact side by side. It
extends `ComponentProofs` and `ReadBackProofs`, so that what is checked and what is proved are the
same definitions and TLC evaluates the assumptions of the proofs. In every module with threads a variable of program
counters holds where each thread is, and an action is what the code does between
two accesses to shared state. Names follow the code.

Correspondences worth knowing:

- `RingBuffer`: `seq` is the slots' sequence numbers, `cell` their contents, and
  the locals of a call are variables indexed by thread. A thread helps only from
  within a failed push (`Helpers`). `Published` and `Recheck` are the branch in
  `drain` that looks again when a slot has been claimed and not published.
- `RecordPool`: the head and the links are indices, as in the code; there is no
  tag, which is why `record_pool_aba` fails. The counters of the pool are left out.
- `WormSink`: `call` is the call that is being executed. The hash
  of a content and an LSN is the pair of the two.
  The reorder window is a flag that may expire at any time once set; the second
  in the names of rotated files is a counter (`MaxSecond`).
- `AuditPipeline`: `ring` is a sequence (what `RingBuffer` implements). Loss of
  power is a state predicate and no action: `CleanStopIsDurable` and
  `CommittedIsDurable` say what would be found on the device.
- `LogPath`: the ring is a pair of counters and the pool the number of free
  records. The two loads of the cursors are kept apart, so that stale values
  occur. `fate` and `out` are histories: what became of each record, and what
  the sinks were handed.
- `ConfigReload`: `opc` is where the owner is within `poll_config_reload`,
  `wpc` the watcher, `cpc` the listener. `sink` is what the pipeline writes to
  and `opened` every sink set not closed yet. `overlap` marks that a level
  request and a reload ran at once.
- `ShmRing`: frames are numbers. A copy of a slot that is being written is the
  old frame, the new one or `Torn`, since the code's copy is not synchronised.
- `ShmRegion`: a region is named after the process that created it, a path holds
  at most one, and a crash leaves it as it is.
- `SifCodec`: a field is a slot with a tag; `vendor_tags` is the table of each
  process, which exists (`created`) from the first time the process asks for a
  vendor name on: a decoder enters names into a table that exists and into no
  other. `truth` is a history, what each field was given, by `field_set` or in the
  frame decoded last, and `unentered` one of the vendor names among them that a
  process without a table was sent. A byte of the stream is its frame's number and
  its place in the frame.
- `EmergencySpill`: a record goes by the sequence number of its identifier; what
  `drain_all` compares is that number's place in a turn (`IdLo`).
- `WormOrder`: `doubled` marks that a record came again, in order, while its copy
  waited.
- `RecordFile`: the three readers are one loop, one action per turn of it:
  `replayed` is what `replay` and `verify` decode, `counted` what
  `replay --json` counts.
- `AuditVerify`: `trail` and `sidecar` are what the files hold after damage,
  `issued` what each run signed; hashes and signatures are terms.
- Time, wherever it decides, is a flag that may be set at any step (debounce,
  breaker timeout, canary interval, 5 s of emergency, grace periods) or a small
  counter (`RateLimit`, `RecordId`).

## Runs

| Run | Instance | Shows |
|---|---|---|
| `ring_buffer` | 2 producers that help, 1 consumer, 2 slots, 3 items | `NoUnderflow`, `ExclusiveSlot`, refinement of `BoundedFifo`, `EveryItemIsClaimed`, `NoProducerSpinsForEver` |
| `record_pool_aba` | 2 allocating threads | violates `ExclusiveOwner` |
| `worm_order` | 3 LSNs in any order, two of them repeated or one twice, faults, rotation | `SinkInv` (types, `BufferIsAhead`, `TrailIsContiguous`, `TrailHasNoHole`), `NothingVanishes`, `ClosedIsDurable` |
| `worm_gap_marker` | 4 LSNs, one repeat | violates `GapsAreMissing` |
| `audit_pipeline` | 2 producers with 2 pushes each, 1 slot, signed | `TrailsInv` (types, `FilesAgree`, `ChainIsUnbroken`), `CleanStopIsDurable`, refinement of `AuditLog`, `EveryPushReturns`, `StopCompletes` |
| `audit_stranded` | the same, 2 slots | violates `AcceptedAreDrained` |
| `audit_durability` | the same, 2 slots | violates `CommittedIsDurable` |
| `log_path` | 2 producers, 3 calls, 2 slots, 1 audit slot | `RecordsConserved`, `FullIsSpurious`, `CountersBalance`, refinement of `LogDelivery`, `EveryCallReturns`, `EveryRecordSettles`, `ShutdownCompletes` |
| `config_reload` | 2 writes of 3 configurations or garbage, both backends, 1 request of each kind | `ReloadIsAllOrNothing`, `ReportedLevelIsReal`, `EveryReloadIsRecorded`, `LastWriteIsApplied` |
| `inotify_replaced` | the same | violates `UniformBackends` |
| `verify_worm` | a WORM trail of one run, no damage needed | violates `UndamagedTrailPasses` |
| `components` | 26 components, one at a time, see below | fifteen properties of them |

### The components run

26 components have no step in common with one another. `MCComponents` is their
sum: `part` is chosen in the initial state and never changes, and a step is one
of the component it names, the variables of the others keeping one value. The
state space is the disjoint union of theirs (about 670,000 states), so that each
is explored as it would be alone, with its own bounds. A property of
the sum is the conjunction of those of components of a kind:

| Property | Says | Components |
|---|---|---|
| `ImplementsRecordSet` | a record is free, owned or on its way back (refinement of `RecordSet`, one thread that allocates, three that return) | record pool |
| `WatermarkHolds` | the ring is never more than its slots ahead of what its consumer was told, and the counters add up | shared memory ring |
| `NoWriterRacesTheClose` | no write to an unmapped region; closed means marked | shared memory region |
| `AcceptedOnce` | no LSN is accepted twice, none before its predecessor | replay guard |
| `AdmissionIsBounded` | tokens per interval, probes per half-open period, identifiers per turn of the sequence | rate limit, circuit breaker, identifiers |
| `ResilienceRecovers` | half-open ends, emergency ends with its cause, a failing sink is declared dead | circuit breaker, backpressure, canary |
| `EmergencyIsEarned` | emergency begins only after an overload no check saw relieved | backpressure |
| `DrainIsExact` | a drain of the spill returns each written record once, but for records with one `id_lo` | emergency spill |
| `SinksKeepRecords` | acknowledged records are in the files in order; what is sent is in order but for retries | file sink, remote sinks |
| `DispatchStops` | a shutdown ends, the sink closed after the last record | sink dispatch |
| `KeysAndAnchorsHold` | signatures verify, grace is respected, anchors cover the chain | key rotation, external anchor |
| `PassMeansIntact` | a trail that passes is the beginning of what one run signed | log verification |
| `PluginsAreSafe` | cycles found; dispatch live; signed stays signed; state from before the reload | dependencies, host, store, migration |
| `RecordsReadBack` | fields under their names, but for vendor names sent to a process without a table; whole frames; readers agree | wire records, frame stream, record files |
| `ConfigurationHolds` | one file with one profile, a batch size of 0 under `dev` alone; children tighten what their parent says; `--shm` stays | configuration files, domains, engine run |

Each conjunct can fail: a change to the operator it rests on violates the
combined property in the state space of that component.

### Why the bounds are enough

In `ring_buffer` three items through two slots make a producer lap the consumer
and wait for a slot that is being emptied; helpers and the consumer race for
each item. In the pool a returned record is taken again while another return is
in progress. In `worm_order` three LSNs are enough for a record to wait behind a gap
and another behind it, or behind a marker for the first; two repeats (`MaxRepeats`)
let a record come again while its copy waits and once more after it was written
twice, or two records once each. In `audit_pipeline` one
slot makes a producer block, and the records behind the second follow a failure. In
`log_path` a producer is overtaken between its two loads, so that it sees a full
ring and helps; 90% of two slots is no whole number, and the threshold `HelpAt`
is 1, so that helpers run.

In `config_reload` two writes are the least with which the second meets the
first anywhere: in the debounce window, in the callback, in the pending slot and
in the middle of a reload; one request of each kind meets both. In the shared
ring three frames pass two slots with two writers and a reader, so that a slot
is overwritten while it is read. `RateLimit` counts time in halves of the refill
interval, over two intervals. `RecordId` has a sequence of four numbers and
callers that can take six, so that it wraps. The breaker's threshold is 2 with
two callers, so that a failure counted late meets a success. The replay guard's
window of 3 is passed by 8 LSNs. Two plugins in two libraries share a mapping or
do not; three plugins form every cycle up to three, and one of them may need
what nobody provides. Two runs of two records and
two damages reach repeated LSNs and spliced trails. Two vendor names, one of them refused,
with two slots in a record: both in one record, one each in two, entered by the
reader in either order, before and after it has a table. A turn of the sequence
is two numbers long for the spill (`IdSpan`), and records have the numbers 0 to 3,
so that two of them share an `id_lo`, in one drain or in two, and any may be
pushed twice. One configuration file has a batch of 0 under `dev`, one a negative
one under the default profile, which `UsizeSize` makes large; the environment
brings two other profiles, the host a batch of its own or 0. `EmergencySpill`,
`FileSink` and `RecordFile` have files of two to five pieces, so that a rotation, a torn write
and a lost piece all fall between two acknowledged ones.

`CHECK_DEADLOCK FALSE` is set where the system may stop for good: everything
bounded has been logged, or it has been shut down.

## Fairness

Weak fairness of each thread's steps: the operating system schedules threads,
and no step of a thread is disabled for ever by others except where the code
waits. The consumer loops until it is stopped, so its next call to `drain` is
fair as well; a call of `dologger_log`, a fault, a stop, an expired window and
a stage's decision are never forced. Fairness is on the disjunction of a
thread's steps, not on each of them, so that no outcome of a choice is forced.
One assumption is stronger: in `AuditPipeline` a producer that finds the queue
not full time and again gets its record in (`SF_vars(TryPush(p))`). The ring does
not promise it, since others may always be faster; the number of contenders and
the pace of the consumer make it so.

`ConfigReload`: the watcher thread (a loop with a sleep), the passing of the
debounce window and the owner, who is expected to poll (`core/src/lib.rs:833`,
`docs/en_US/guides/OperationsManual.md:554`); writers of the file and
clients of the control plane are not fair. `MCComponents`: a caller the breaker
let through reports and asks again; the host goes on calling
`check_emergency`; the canary's timer thread runs, intervals pass and a reset
that has begun ends; the threads of the I/O pool run. Nothing else is fair.

## Findings

- `record_pool_aba`: with two threads that log, `RecordPool::alloc` can hand one
  record to two owners.
- `worm_gap_marker`: the record that fills a gap leaves its successors in the
  reorder buffer, and a marker for an empty range is written later.
- `audit_stranded`: after a failure, an audit record can be accepted behind the
  final drain and is never taken.
- `audit_durability`: `WormSink::fsync` does not flush the buffer first, so
  that an acknowledged record may be lost with the process.
- `inotify_replaced`: a configuration file replaced by a rename is no longer
  watched under inotify; polling applies it.
- `verify_worm`: `verify-log` reads the WORM file, which is lines of text, as
  frames, and refuses every intact one.

## What else reading and modelling turned up

Properties stated in a module with what a document promises, which the code does
not keep and no run checks: `LogPath!HelpsBeforeFailing` (pool and ring have one
capacity, `lib.rs:305`, so that on a full ring `alloc` fails first and nobody
helps; `docs/en_US/ArchitectureReference.md:484`), `ShmRing!ReadsAreCurrent` (a
slot is overwritten between a reader's check and its copy),
`ShmRegion!ClearSparesTheLiving` (the tool looks and unlinks in two steps),
`FileSink!MediaIsPerWrite` (a record is synchronised beneath a buffer that was
not flushed, as in the WORM sink), `Canary!TheWorkingAreAlive` (a dead sink is
never probed again, only a reset revives it), and four whose exceptions the
checked properties name:

- `WormOrder!NothingIsWrittenTwice` ("Duplicate, remove silently",
  `sink/worm.rs:209`): LSN 2 waits, 1 is written, and 2 comes again, now in order.
  `flush_reorder_buffer` (line 169) writes the copy, line 170 writes the record
  once more and sets the last LSN back to it. `TrailIsContiguous` holds until then
  (`doubled`), `TrailHasNoHole` and `NothingVanishes` also afterwards. The audit
  pipeline delivers each LSN once.
- `SifCodec!FieldsSurviveDecoding` (the round trip of `sif/codec.rs:1011-1025`,
  which runs in the process that set the fields): in a process without a
  vendor table `register_vendor_tag` (`sif/codec.rs:657-666`) enters nothing, so
  that the vendor fields of a decoded frame are in the record and `field_get` does
  not find them. `FieldsReadBack` excepts those names of that record
  (`unentered`).
- `EmergencySpill!EveryRecordComesBack` ("globally unique 128-bit Snowflake ID",
  `buffer/emergency_buffer.rs:436`): `extract_record_id` returns `id_lo` alone,
  the process and a sequence number of 22 bits without the millisecond. Every
  record of the engine counts in it, so that a record spilled 4,194,304 records
  after one that was drained is taken for that one and skipped, also in a later
  emergency. `DrainIsExact` says no other is.
- `DomainTree!ChildrenNeverLoosen` ("children can only tighten, never loosen",
  `config/domain.rs:5`): `add_domain` compares a child with what its parent says,
  not with what it resolves to, so that a middle domain that leaves a setting
  unset lets the next one loosen it. `ChildrenTighten` is about what the parent
  itself says.

Behaviour that a maintainer may want to know of. The models follow the code in
each case; where a property depends on it, it says so.

Log path and engine:
- a processor that aborts a record after its LSN was assigned leaves a hole in
  the numbers;
- a callback that logs from the consumer thread into a full ring waits for itself;
- `Engine` and `Pipeline` have no `Drop`: what is not shut down is not flushed;
- the snapshot of the counters loads them one by one, and is not of one moment;
- a record the mirror to shared memory refuses counts as dropped and as processed;
- the rate limiter permits 10 records per second for any rate from 1 to 9, rounds
  others down to multiples of 10, and a refill discards what is left of the interval;
- identifiers: only the caller that meets the overflow waits, and a call descheduled
  between clock and counter can repeat an identifier.

Reload and configuration:
- the first reload reuses epoch 1 (`next_epoch` returns the old value);
- a change between loading the file and the start of the watcher is not noticed;
- a level request that overlaps a reload leaves policy and reported level different;
- `POST /reload` is consumed by whatever older configuration is pending;
- `dologger_config_load_from_string` (`ffi.rs:528-564`) replaces the stored
  configuration alone: sinks, level and epoch stay, and are behind it until the
  next reload; it is not among the steps of `ConfigReload`;
- under `dologctl run` nothing polls, the watcher is not joined, and a reload that
  comes after the shutdown opens sinks again;
- each configuration file replaces the whole configuration; `DO_LOG_CONFIG_FILE`
  is read last and discards the other variables; `balanced` leaves audit on when
  an earlier profile turned it on; a `batch_size` of 0 survives under `dev` (the
  consumer drains nothing until the shutdown), a negative one under `perf` (it
  reserves room for as many records as the cast makes of it), unless the host asks
  for another;
- domains: a child can be loosened by replacing its parent, or through a middle
  domain that leaves a setting unset; a `default` that inherits from itself never
  resolves.

Shared memory:
- a region left by a crash, or with `auto_cleanup = false`, makes the next open fail;
- two writers that drop the oldest can drift apart further than the slots;
- `dologger_shm.h` has consumers open read-only what they then compare-and-swap;
- the text form of `shm clear` treats pid 0 as dead, its JSON form as alive.

Resilience:
- a success that belongs to the closed era closes a half-open breaker, and
  `half_open_max_requests = 0` leaves it half open for ever;
- emergency mode may begin on a timestamp another checker left, and
  `check_emergency` returns the old flag when it deactivates;
- after a torn write the spill loses what follows it; enabling encryption twice
  makes earlier frames unreadable.

Security:
- the replay guard without `reject_gaps` accepts an LSN again inside its window;
- revoking a key during its rotation leaves the event in progress, and cancelling
  makes what was signed with the new key unverifiable;
- hashes that wait for an anchor at shutdown are never anchored;
- `verify-log` does not see that files are in the wrong order, that the last
  records and their signatures are missing, or, for a record whose hash is wrong,
  tampering rather than a skip; after a restart LSN and chain begin again in the
  same file; `scheduler.rs:118` passes no sidecar, so the ordinary pipeline writes
  none.

Sinks:
- two rotations within a second overwrite the rotated file; a rotation renames
  without synchronising; the pipeline does not flush a sink before it stops;
- OTel clears its batch before it is sent; syslog over TCP does not reconnect, and
  a write without a socket succeeds; a Kafka key repeats after a failure; SQLite
  prunes in one of its two ways to write.

Plugins, records, commands:
- a plugin is initialised also when its entry point reports a failure, and is
  dispatched to; a bundle that fails leaves its first members registered;
- a saved plugin state is removed by a rollback, and an older one may replace a
  newer one;
- two names may share a vendor tag once a process that sets vendor fields has
  decoded a foreign frame, as the names entered do not move the next tag; `environment`
  and `labels` encode and do not decode; a short text ends at its first NUL;
- the stream scanner stays at a bad frame until it is reset;
- `plugin install` does not bring the `.sig` along, `remove` leaves it behind;
- `record` ignores write errors, so that a full disk leaves a misaligned file.

## Proofs

`RingBufferProofs` proves of `RingBuffer!Spec`, for any sets of producers,
consumers and helpers and any bounds on the pushes:

- `TypeCorrect`: the type invariant;
- `LenNeverUnderflows`: `NoUnderflow`, so that unsigned differences of cursors
  never wrap;
- `RingIsAFifo`: the refinement of `BoundedFifo`, if `Capacity > 1`;
- `SlotsAreExclusive`: `ExclusiveSlot` if `Capacity > 1`. With capacity 1 it is
  false: a slot's "published" and "free" numbers coincide. The configuration
  requires at least 1024 (`config/settings.rs:879`), audit at least
  `MIN_AUDIT_SLOTS` (`security/audit.rs:28`).

Exclusiveness is not inductive. `IInv` adds which sequence number a slot has
between the claim, the publication and the release, that a cursor a thread has
loaded is at most the real one, and that two threads between claim and release
have claimed different positions. Two positions that share a slot are a multiple
of `Capacity` apart, and the second owner has waited for the first to release:
this is the step where the capacity matters. `Invariance` is the inductive
proof, one step per action.

For the refinement the abstract queue is what lies between the cursors: a swap
of the producers' cursor appends, one of the consumers' cursor takes the head,
and every other step leaves the queue alone. `FifoInv` adds what the head
needs to be the item that was pushed: an item that waits is in its slot, or in
the hands of the one producer that has claimed the slot and will write it, and
the thread that publishes has written the item of its call.

`LogPathProofs` proves of `LogPath!Spec`, for any finite set of producers, any
capacities and any number of calls:

- `RecordsAreConserved`: `RecordsConserved`, each record of the pool is in one
  place;
- `FullRingIsSpurious`: `FullIsSpurious`, a caller that holds a record finds
  room for it in the ring. It follows from the first by counting, since
  `Engine::init` gives pool and ring one size;
- `RecordsAreDelivered`: the refinement of `LogDelivery`, each record accepted
  meets one fate, once, and the sinks are handed records in the order of
  acceptance;
- `CountersAddUp`: `CountersBalance`, return codes, counters and fates agree once
  the consumer has stopped.

Here `IInv` is `RecordsConserved` and the types that counting needs. How a step
changes the two cardinalities is in the `*Counts` lemmas; a step is
then one of four kinds (a producer moves, nobody moves, a claim, the end of a
callback), each with a lemma, and the actions are instances of these.

`FateInv` says where a record without a fate is: with one thread, or pending in
the consumer's batch, and that what was written last, what is pending and what
the consumer holds ascend in this order. A helper settles a record itself and
never hands it to the sinks, so that it cannot overtake one. `CountInv` adds the
accounts at every moment: a counter and the calls, batches and helpers that have
still to add to it make up the number of records with such a fate. The property
is what remains once nothing is under way; it follows with `NoneForgotten`, that
a consumer that has stopped left no record behind.

`ComponentProofs` proves of `ReplaySpec`, for every window, every set of hashes and
any number of LSNs, `EvidenceIsFresh`: under the production policy
(`reject_gaps`) no LSN is accepted twice, also after it has left the window. The
window alone does not say this: an LSN that is not retained might have been
evicted. `GuardInv` adds that what is retained is the last LSNs without a hole
(lemma `HeldIsWindow`), so that an LSN that is not retained is the next one or
one that `observe` refuses as too old (`OnlyTheNext`). Without the policy the
theorem is false, which is why it assumes it.

`WormSink` states what each file operation does to the file, for any contents
(`Alike`: entries change in place, from one layer to the next or to another
file; `Extends`: one entry is appended to such a file). The two modules that
compose the sink with a caller rest on these lemmas.

`WormOrder` proves of `WormOrder!Spec`, for any number of LSNs in any order, each
any number of times, and any faults:

- `TrailIsOrdered`: `SinkInv`, with `BufferIsAhead`, `TrailIsContiguous` (until a
  record comes again, in order, while its copy waits) and `TrailHasNoHole`
  (in any case);
- `RecordsAreAccounted`: `NothingVanishes`;
- `ClosedFilesAreDurable`: `ClosedIsDurable`, for each durability level.

`OrderIInv` adds that the record of a call is at most the next LSN and, as long
as nothing is doubled, is the next one and does not wait as well; that a gap is
marked only while something waits; that there is a writer while the sink is open
and nothing has failed; that each LSN up to the last one written lies in some
entry; and that the file is sealed after a close. The reorder buffer is flushed from its least key,
whose existence (`SmallestExists`) is proved by counting: were there none, the
naturals below the set would be finite and closed under successor.

`AuditPipeline` proves of `AuditPipeline!Spec`, for any producers and pushes,
any size of the queue, with and without rotation and signatures:

- `TrailsAgree`: `TrailsInv`, the files number their records alike, none lags by
  more than the record in process, and the chain of hashes is unbroken;
- `PipelineIsALog`: the refinement of `AuditLog`, what is persisted is a prefix
  of what was accepted;
- `CleanStopPersists`: `CleanStopIsDurable`, with the hypothesis `~Rotates`.

`TrailsIInv` says where in the processing of a record each file has it, and that
the sink's last LSN and hash follow the consumer's, so that in this composition
no record is early, late or unlinked and the reorder buffer stays empty: the
branches of the sink for records out of order are unreachable behind the
pipeline. After a failure no record is written any more. For the refinement
`StopInv` adds that a healthy pipeline closes its files only when the ring is
empty: no push is under way when it is shut down, as `shutdown` takes
`&mut self`. `CleanStopPersists` needs its hypothesis: `CleanStopIsDurable` is
false with `Rotates = TRUE`, as a file that is rotated is not synchronised.
`LayersInv` follows the layers of the three files through the closing steps: all
entries are in the one file that is open, a healthy pipeline has its writer until
that file is closed, and each closing step that succeeds brings its file one
layer on, whatever the flushes before it did.

`ConfigReload` proves of `ReloadSpec`, for any contents of the file, any number
of writers' steps and of requests, and both backends:

- `ReloadsAreWhole`: `ReloadIsAllOrNothing`;
- `ReloadsAreRecorded`: `EveryReloadIsRecorded`;
- `LevelsAgree`: `ReportedLevelIsReal`.

`ReloadInv` adds what a reload half done has prepared: its epoch is the last one
allocated and newer than that of the sinks in use, so that the sinks opened and
those closed are never confused; what waits to be applied is a whole
configuration; the history holds the epochs 1, 2, ... without the one under way.

`ComponentProofs` proves of the components of the run of that name, each for its
own specification:

- `PoolIsASet`: the refinement of `RecordSet`, and `OneOwner`: `ExclusiveOwner`
  and that no record is lost. Both assume one thread that allocates
  (`Allocators = {a}`) and any number that return records, and both are false
  with two, which is what `record_pool_aba` shows. `PoolInv` says what is still
  true of what a thread remembers: between its reads and its swap the allocator's
  head stays on the stack and keeps its link, since only it could take that
  record off. That a compare-and-swap on a bare index is then sound is this
  conjunct (`ThreadInv`). The stack is the set of indices reachable from the
  head; `Reachable` is the least set closed under links, and the lemmas before
  the theorem say what a push and a pop do to it.
- `IdsKeep`: equal identifiers only if one of two calls was outrun by nearly a
  turn of the sequence. `AgeInv` bounds how far the sequence has run since a stamp
  was read.
- `RateKeeps`: the limiter lets through no more than its burst and the tokens of
  the time passed. `TokensInv` charges tokens left and tokens taken to the
  refills up to `last_refill`, whoever wins the swap on it.
- `ProbesKeep`: a half-open breaker lets no more through than its probes. With
  the two before it this is `AdmissionStaysBounded`: `AdmissionIsBounded`.
- `EmergencyIsJustified`: `EmergencyIsEarned`, with one thread that polls
  `check_emergency` (`Checkers = {c}`), as in the run. With two it is false: one
  may enter emergency mode on a time stamp the other is about to clear.
  `StampInv` says that a stamp stands for an overload at least as old, unless the
  checker is on its way to clear it.
- `WriterIsJoined`: `NoWriterRacesTheClose`, for any number of processes, over
  crashes, restarts and calls of the clear tool. `RegionInv` relates where
  the shutdown is to the sink and the consumer: unmapping comes after the join.
- `CyclesAreAlwaysFound`: the search for dependency cycles reports one exactly if
  there is one, for every graph and every order of the walk. `FinishedInv` says
  that, until a cycle is met, what the search has left behind depends only on
  such plugins, and no set of them needs one another. When it has all plugins and
  no cycle was met, none is anywhere; conversely a chain reported is a cycle
  (`ChainsInv`), which is such a set.
- `DispatchStaysLive`, `SignaturesStay`, `StatesComeBefore`: the other three parts
  of `PluginsAreSafe`, and `PluginsStaySafe` all four. `HostInv` is that what the
  consumer thread may call is registered until it has been joined, and
  registered only after it was admitted.
- `RotationsKeep`: the file sink, over rotations that end well, fail at any of
  their steps and are tried again. `FileInv` says, until two rotations share a
  second, that no file has the name of a second to come and that the ids in all
  files ascend up to the last one given to `write`, so that a rotation moves the
  current file behind every other.
- `ExportsStayOrdered`: the remote sinks. `ArrivedInv` is the inductive form of
  "nothing is reordered": a request under way has arrived as a whole or is later
  than all that has, so that a retry never puts a record before a new one;
  `RepeatsInv` charges each copy of a record to an attempt, and `PendingInv` puts
  batch and request behind all that was answered, which is why adding the length
  of a payload counts records once. With the one before: `SinksAlwaysKeep`,
  `SinksKeepRecords`.
- `KeysKeepVerifying`, `AnchorsCover`: the parts of `KeysAndAnchorsHold`, and
  `KeysAndAnchorsStay` all of it. `KeyInv` says that one key is active or two,
  neither revoked, and, since a revocation leaves the event of the rotation it
  breaks off in progress, that the event recorded last is the one of the
  primary: it is the one a completion reads. `AnchorInv` is that the last LSN
  anchored is no later than the last one committed.
- `DrainsAreExact`: `DrainIsExact`, the emergency spill, for any length of a turn
  of the sequence and any records, pushed once or again. `SpillInv` says, until a
  key is replaced, a write fails or the seen records are forgotten, that the file
  has whole frames with the cursor behind the last, all opening under the key in
  use; that it holds each record written since the activation; and that what was
  seen are the `id_lo` of what was handed back, each once. Of the frames with one
  `id_lo` there is a first (`FirstOfItsKind`), which a drain hands back unless the
  `id_lo` was seen.
- `OneFileIsLoaded`: `OneFileOneProfile`, the ladder of configuration layers.
  `LoadInv` gives the configuration at each rung as that of one file and what
  was changed in it since, and `BatchFits` what a profile makes of a batch size. `CommandLineStays`: `CommandLineHolds`, the threads of
  `dologctl run`. `RunInv` adds that whoever reloads or shuts down has the mutex,
  and what the callback has parsed already has the path of `--shm`.
- `ChildrenAlwaysTighten`: `ChildrenTighten`, the domains: a child tightens what
  its parent says, not always what that one inherits. `DomainInv` gives each
  domain under which nothing was replaced a depth, one more than its parent's,
  so that the way up ends before it has seen as many domains as there are
  (`ChainClimbs`, a pigeonhole argument); such a parent was checked against the
  child and not changed since. `ResolvesOverItsParent` then says what the loop
  over the chain computes: the chain of a parent is the beginning of the child's,
  and two folds that start alike and take the same steps agree. With the two
  before: `ConfigurationAlwaysHolds`, `ConfigurationHolds`.

- `PassingMeansIntact`: `PassMeansIntact`, log verification, for any number of
  runs, records and damages. `VerifyInv` says what no damage can make: a record
  that decodes and has a hash is one that was signed, and a signature still in
  the sidecar was made over such a record and the one before it. A record names
  its run and number in its hash, so a signature that holds belongs to the record
  it is found with (`SignedWhereMade`); its predecessor is then bound too, and by
  counting the records left are the first of one run (`ChainOfOneRun`). What
  reading and sorting the file return is said by `PickedThose` and `SortedThose`.

`ReadBackProofs` proves of what one process writes and another reads:

- `WatermarkIsKept`: `WatermarkHolds`, for any writers, readers and slots.
  `CursorsInv` bounds what each thread has loaded by what is, `FlightInv` the
  frames in flight where writers may not overwrite or one of them does, and
  `AccountsInv` counts the calls that have claimed a number and not yet counted
  it.
- `WireReadBack`: `FieldsReadBack`, for any core names, vendor names, readers and
  widths of the tag space, when one process sets vendor fields
  (`Writers = {writer}`), as in the run, and but for the vendor names of a frame
  that a process decoded before it had a table (`unentered`). With two it is false: each counts tags
  from 64 on, so that a process that sets fields and decodes the other's frames
  has two names with one tag. `WireInv` says that the writer's table gives a tag
  to one name, that every other table is a part of it, and that the slots of a
  record, and of the frame on its way, are those of the names that were set. A
  frame refused at some field has entered the names before it all the same, and
  they too are part of the writer's.
- `FramesReturned`: `FramesAreWhole`, the stream scanner, for any lengths, chunks
  and moments at which it compacts. `StreamInv` says that what has not been
  returned, in the buffer from the cursor on and still to be fed, is a row of
  whole frames in the order they were encoded (`RowOfFrames`), up to the last one;
  it says so for each byte, about the frame around it, so that a cut at the end of
  a frame leaves a row and no sum over frames is needed.
- `RecordFileRead`: `ReadersAgree`, whatever the disk refuses and whatever a torn
  length reads as (`garbage`, up to a length that is refused). `ContentsInv` says that cells on disk and in the buffer are in
  the order they were generated, lost ones apart, and, when none was lost, each
  piece where those before it end; `Replayed` that each record shown has its first
  cell behind the one shown before it. No cell is read twice, so that a misaligned
  file may lose records and never repeats or reorders one.
- `RecordsAreReadBack`: `RecordsReadBack`, the three together, with the exception
  of the first.

The library's induction theorems take an operator as a parameter, which no
installed prover can instantiate. `ComponentProofs` begins with three lemmas that
do without: a set of numbers that has 0 and successors is all of them
(`CountingUp`), a step that stays in a set can be taken any number of times
(`StepsCanBeTaken`), and two functions that take the same steps agree
(`StepsAgree`). They are what makes a recursive function over a list provable.

Assumptions are those of the modules, named there: capacities and the bound on
the clock that names files are positive; consumers and producers are different
threads, a window has an entry, there is a process; thresholds, bursts, fill
levels, retries, rows and the bounds on calls and LSNs are naturals; `None` is
no record and `Nothing` no version; a file that parses is a whole configuration
(`ContentsAssumption`); callers of the limiter and writers of the shared ring
are finitely many (they are counted); a field that nobody provides is none of
the plugins (`DependencyAssumption`); a torn frame is no frame, a configuration
that does not parse is none, profiles are those of the code, a `usize` holds
more than 256. `SpillAssumption` keeps the records pushed below the million
(`MaxSeen`) at which `drain_all` starts to forget identifiers.

Only model-checked:

- everything under fairness (`EveryItemIsClaimed`, `NoProducerSpinsForEver`,
  `EveryPushReturns`, `StopCompletes`, `EveryCallReturns`, `EveryRecordSettles`,
  `ShutdownCompletes`, `LastWriteIsApplied`, `ResilienceRecovers`,
  `DispatchStops`): liveness and `ENABLED` are out of the prover's reach.

Every invariant and every refinement that a passing run checks is proved, under
the hypotheses named above.

## Assumptions and what is left out

- Memory is sequentially consistent. The code uses acquire and release on the
  cursors and slots; reorderings that these allow beyond that are not modelled.
- Unsigned counters do not wrap: 2^64 pushes are out of reach. Where a width
  matters it is kept (record identifiers, vendor tags, frame lengths).
- Cryptography, formats, file names and diagnostics are abstracted.
- `LogPath` has no I/O pool, as the engine passes `None` (`SinkDispatch` has
  it), no mirror to shared memory (`ShmRing`) and no reload (`ConfigReload`).
- Modification times differ between any two writes; pids are not reused.

Not modelled:

- cryptography, text matching (`security/secret_detector`), host information,
  TPM, localisation, diagnostics: no state that a property needs;
- text codecs, views, FlatBuffers: formatting without state across calls;
- fan-out, registry, callback sink: a loop, a map built before the start, and a
  call of the host;
- sandbox and quota: system calls; and `QuotaManager::get` always returns `None`,
  so that no quota is consulted;
- official plugins: stateless text processing;
- other commands and the adapters for other languages: front ends over the C
  interface, and measurements.

## What is left

Models: `Engine::init` composed with the log
path, and the stages' work on a record between the pre-filter and the sinks.
