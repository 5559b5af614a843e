# A verification project for gosmokeping

gosmokeping measures latency and loss from one or more nodes, stores the cycles
in ClickHouse, draws them and raises alerts. A *slave* probes its targets and
pushes its cycles to a *master*; the master stores them next to its own. This
directory holds TLA+ models of the parts of the program where steps of several
goroutines, machines or restarts meet, the TLC configurations that check them on
small instances, and proofs, checked by TLAPS, of what matters most about them
for every size.

Every definition is written from the Go source. `PROJECT.json` maps each to the
lines it stands for; a comment on each definition names the function.

## The system

| Part (source) | State it keeps | Operations | What is hard | What makes it correct |
|---|---|---|---|---|
| Push buffer (`cluster/slave/pushsink.go`) | a ring of cycles, its byte account, the strip index, the master's hop-marker bit | `OnCycle`, `Drain`, `Requeue`, `SetHopMarkers`, shedding, growth, shrinking | probes and the push loop interleave; a requeue goes to the front of a ring that has moved on; the array counts against its own budget | exact account, order, budget, nothing lost without being counted, path history shed before measurements |
| Slave runner and client (`runner.go`, `client.go`) | the drained batch, whether the slave is registered | register, pull config, push, re-register, final flush | lost and late answers, timeouts, a master that restarts, refused bodies | each cycle in one place; an acknowledged cycle is stored; every cycle leaves |
| Master ingest (`master/server.go`, `inbound.go`) | none of its own | authenticate, touch the source, filter, admit, deliver | handlers of the same slave overlap after a client gave up | redeliveries are recognised |
| Redelivery guard (`master/dedup.go`) | per source, a positional ring of identities and a map into it | `admit`, `evictLRU`, `forget`, `forgetSource` | eviction asks a registry with another lock; a sweep reports late; a delivery fails after its slot moved on | a window behaves as the last N identities |
| Registry (`master/registry.go`) | names, advertised addresses, the owner of each address | `Touch`, `Sweep`, `Peers`, reads the pins of the live config | two maps that must say one thing while pins change under them | one owner per address; pins win; changes announced |
| Config store (`config/reload.go`) | the current config, one-place wakeup channels | `Reload` from SIGHUP and from the file watcher | reloads overlap; wakeups coalesce | the file is in force at rest |
| Configuration (`config/config.go`) | the file | load, `Validate` | every later part relies on what it refuses | what is accepted can be built and run on every node |
| Cluster configuration and health mesh (`master/config.go`, `slavehealth`, `slave/configshim.go`) | none: functions of config and registry | `BuildClusterConfig`, `buildShim`, `NewSet` | master, slaves, ingest and API each derive who probes whom | one view of who probes what |
| Scheduler fingerprint (`scheduler/fingerprint.go`) | none | `Fingerprint` | two configs that differ must not hash the same bytes | a change is rebuilt |
| Scheduler lifecycle (`scheduler/lifecycle.go`, `supervisor.go`, `cmd/gosmokeping`) | the running scheduler, the fingerprint it was built at | fingerprint, `Build`, swap, retry | config and mesh are read at several moments | the scheduler catches up |
| Scheduler loop, fanout (`scheduler.go`, `fanout.go`) | none between cycles | a probe per tick; each sink isolated | failed probe or shutdown; sink panics; deadlines | no fabricated data, no target lost |
| Probes (`probe/`) | sockets of one cycle | batches of pings, requests, the TTL walk | foreign, late and look-alike datagrams; budgets cut by the deadline; a walk beside the batch | what is recorded was measured |
| Statistics (`stats/`) | none | percentiles | rank arithmetic at the ends | order statistics |
| Wire form (`cluster/protocol.go`) | none | `FromCycle`, `Validate`, `ToCycle` | a batch is refused for one cycle out of bounds | what a slave records the master stores as it is |
| Alert evaluator, dispatcher (`alert/`) | per target, alert and source: state, hit count, replay marks; aggregates; delivery shards; delayed resolves | `OnCycle`, refresh, pruning, delivery, `Close` | replays, clock skew, quorum with sources that go quiet, refused notifications | no phantom and no lost page |
| Alert conditions (`alert/condition.go`) | none | `Eval` | a cycle without RTTs | a latency alert needs a latency |
| ClickHouse writer (`storage/clickhouse/writer.go`) | four bounded channels, each with a pending batch | `offer`, flush, `Close` | drop-oldest is several steps; outages; shutdown | each row stored or counted |
| Reader and API views (`reader.go`, `overview.go`, `backend.go`, `internal/api`) | the stored rows | cycle, pinned, timeline and overview queries; step ladders | several queries and fallbacks show the same cycles | views agree; grids fit |
| Query cache (`storage/cache.go`) | an LRU, the queries in flight | lookup, lead, wait, store | detached leaders, expiry, overload, stale service | one query per key; never an error masked for good |
| Schema, credentials, converter, UI | none, or a database's | | I/O, parsing, formatting | |

Cycles flow probe → scheduler → sinks (writer, evaluator; on a slave the push
buffer) and push buffer → runner → HTTP → ingest → dedup → fanout → the master's
sinks. Control flows config file → store → lifecycle, and slave → registry →
`onChange` → debounce → lifecycle. The API reads stored rows through the cache, and the
list of targets and sources from store and registry. `PROJECT.json` lists every component and, under
`hazards`, each place where the above can go wrong.

## Modules

| Module | Models | Lines read |
|---|---|---|
| `ShedQueue` | what the push buffer promises: shed hop rows oldest first, lose a whole cycle only when none is left | contract |
| `PushSink` | the push buffer, one action per critical section and per turn of `makeRoom`'s loop | all of `pushsink.go` but logging |
| `PushRing` | its backing array, `head`, `size` and the modulo arithmetic | the same, as slots |
| `RecentWindow` | what a dedup window promises | contract |
| `CycleDedup`, `MCCycleDedup` | the windows, the handlers and the registry events around them | `dedup.go`, `inbound.go`, parts of `server.go`, `registry.go` |
| `ClusterDelivery` | one slave's runner, the path and the master's handlers | `runner.go`, `client.go`, `server.go` |
| `SlaveRegistry` | advertised addresses, pins and peers | `registry.go` |
| `Schedule`, `ConfigGate` | which schedules, and which files, `Validate` accepts | `config.go` |
| `ClusterMesh`, `MCClusterMesh` | registry and reloads, and what master, slaves, ingest and API derive from them; fingerprints | `master/config.go`, `inbound.go`, `slavehealth.go`, `configshim.go`, `fingerprint.go`, `api.go` |
| `SchedulerLifecycle`, `MCSchedulerLifecycle` | file, reloaders, store, registry's claims, debounce, rebuild loop | `reload.go`, `lifecycle.go`, `supervisor.go`, `run_node.go`, `health_signal.go`, `Registry.Peers` |
| `AlertEvaluator`, `MCAlertEvaluator` | one target and one alert: replay marks, state, quorum, pruning, reload (the MC module adds the symmetry of the sources) | `evaluator.go` up to the queue |
| `AlertDelivery`, `MCAlertDelivery` | the states of several sources and alerts on one delivery shard, its worker, the delayed resolves, both `Close` calls | `evaluator.go`, `dispatcher.go` |
| `RowWriter` | one table of the ClickHouse writer | `writer.go` |
| `QueryCache` | one of the two caches of the read API | `cache.go` |
| `CycleContext` | the context of one cycle: its deadline, time, shutdown | `scheduler.go` |
| `EchoBatch` | the batch of pings, dials, lookups or requests of the five probes | `icmp.go`, `mtr.go`, `tcp.go`, `dns.go`, `http.go` |
| `TtlWalk` | the traceroute beside it and the rows it makes | `trace.go`, `mtr.go`, `icmp.go` |
| `TargetLoop` | one target's loop with its sinks, over the three above | `scheduler.go`, `fanout.go` |
| `Listing` | a list filtered or sorted, as operators a proof can expand | `ORDER BY`, `slices.Sort` |
| `Statistics` | the summary of a cycle | `stats/` |
| `CycleProtocol` | a cycle's wire form and its bounds | `protocol.go` |
| `StoredViews` | the queries over stored cycles and what the API makes of them | `writer.go`, `reader.go`, `overview.go`, `internal/api` |
| `TimeGrid` | steps, windows and overrides | `backend.go`, `api.go` |
| `AlertCondition` | what an alert reads of a cycle | `condition.go` |
| `MeasurementPath`, `MCMeasurementPath` | all of these composed: a cycle from the probe to what is shown of it | |
| `NumberLemmas` | lemmas on numbers, sums and ordered lists; proofs about `Statistics` | |
| `PushSinkProofs` (with `PushRing`), `CycleDedupProofs`, `ClusterDeliveryProofs`, `SlaveRegistryProofs` (with `ClusterMesh`), `AlertEvaluatorProofs` (with `AlertDelivery`) | proofs | |
| `StorageProofs` | proofs about `RowWriter` and `QueryCache` | |
| `SchedulerProofs` | proofs about `SchedulerLifecycle` and `MeasurementPath` with what it extends | |

`PushSink` implements `ShedQueue`, `PushRing` implements `PushSink`, `CycleDedup`
implements `RecentWindow`; `ClusterDelivery` is built on what the two contracts
promise, with room counted in cycles, and not on their implementations.
`ClusterMesh` extends `SlaveRegistry` with the live config; `MeasurementPath` extends
`TargetLoop` with everything a cycle passes afterwards.

Every component module has one invariant `Inv`: the type invariant `TypeOK` and
the structural parts the component's data must keep, each a definition with its
own name and comment. `AlertDelivery`, `QueryCache` and `TargetLoop`, which a module of
proofs extends beside another component, call theirs `ShardInv`, `CacheInv` and
`LoopInv`, and their specifications `ShardSpec`, `CacheSpec` and `LoopSpec`. Definitions named `X_Mistake` are `X` with one plausible mistake. No
behaviour uses them; each is there to show that a property would notice.

### How state and actions correspond

**PushSink.** `ring` is the live part of `buf`, oldest first; `heap`, `stripIdx`,
`capacity` (`len(buf)`), `hopMarkers` are the fields. `mode` says which operation
holds `mu` and is in `makeRoom`; each turn of its loop is an action
(`StripOldestHops`, `DropOldest`, `DropNewest`), so a loop that would not end shows. `inflight`
is the batch the runner holds. A cycle is an identity and a number of hop rows,
and its bytes are a function of the rows (`PayloadHeapBytes`). `PushRing`
refines the ring to slots.

**CycleDedup.** `bySource` maps a source to a `sourceWindow` (`seen`, `ring`,
`inserted`, `used`). An operation under `d.mu` is one action except where it asks the
registry: `evictLRU`'s walk is one action per window (`EvictBegin`, `EvictLook`,
`EvictDone`) and `forgetSource` is two. `fresh` and `disturbed` are history variables for
the properties. The interned target names are left out.

**ClusterDelivery.** Cycles are the numbers in which the slave measured them.
Requests in the path carry a batch; the slave's client may give up while the
handler goes on (`GiveUpWaiting` leaves a straggler). `Arrive`, `Ingest` (one
cycle of `ingestBatch`) and `Finish` are the handler's steps; an answer is one of
the classes `client.go` distinguishes. `overtaken`, `late` and `forgotten` are
history: how many later requests began behind a straggler, which requests
ingested anything after the slave had sent another, whether the master lost its
window.

**SlaveRegistry.** `slaves` maps a name to its advertised address, `byAddr` an
address to its owner. `Touch` is the whole request, with the eviction of a
squatter inside it.

**ClusterMesh.** The steps are the registry's (`RegistryStep`; no request is
authenticated while the config has no token) and the reloads (`Reload`: any file
that `Validate` accepts). Everything else is a function of the config and of the
peers: `LocalTargets`, `BuildClusterConfig`, `BuildShim`, `IngestTargets`,
`ListTargets`, `SourcesFor`. A fingerprint is the sequence of fields and separators
the code hashes, in its order, so that two views with equal bytes are two
equal sequences. A file is a record of what `Validate` reads: names, references,
lists, a schedule in ticks of `MinPingBudget`. `Runnable` is what `Build` accepts.

**SchedulerLifecycle.** `file`, `cur` (`Store.cur`), `running`, `fp` (the recorded
fingerprint), `signals` (the one-place channel) and the debounce's `raw` and `armed` are
the code's; `reload` is what each reloader holds between `Load` and `Notify`, `pc` where
`RunLifecycle` is. The mesh is not one value. A config carries the names of the alerts
and the pins, `claims` is what the slaves advertise, and the peers are a function of
claims and pins. `healthSet` reads the alerts from the store (`HealthAlerts`, kept in
`heard`) and later the peers (in `Fingerprint` or `Build`), and a rebuild calls it
twice; reloads and requests come in between, so a fingerprint may join the alerts of one
mesh to the peers of another. `Registry.Peers` reads claims and pins under the
registry's lock, where a claim cannot change. `been`, `returned` and `overlapped` are history.

**AlertEvaluator.** `states`, `agg`, `warmup` are the maps of the same names, at one
key. `OnCycleAlone` and `OnCycleQuorum` are the two halves of `evaluate` under `e.mu`;
`Reload` publishes a config, which `evaluate` reads at once, while `Refresh` and
`PruneDeparted` are the later hooks. `clock` is the receive clock, a stamp is the
slave's and may be ahead. Whether the delivery queue takes an event, and what a
condition says of a cycle, are inputs. `applied`, `genuine`, `evicted`, `heard`,
`told`, `toldAgg` and `flipped` are history.

**AlertDelivery.** A state is a key, the pair of target and alert, with an origin: one of
the sources of an alert without quorum, or all of them together under one. `committed` is
the last transition of each, and goes untold when the config drops the pair (`Depart`).
Shard and pending resolves belong to the key (`webhookKey`), so a firing of one source
takes off the map what waits for the others. `pending` is the shard's channel, `queuedBytes` its
reservation, `worker` the program counter of `deliverLoop` and of the dispatch
it calls; `resolves` are the goroutines of `delayWebhook`, `listed` those still in
`d.pending`. The calls of `cancel` come after the unlock and are steps of their own. `posted` and
`paged` are the last transition of a state, and the last firing of a key, that a POST was
*begun* for: what becomes of a POST is the network's, and a firing that comes while a
resolve is being posted cuts that POST short.

**RowWriter.** `rows` is the table's channel; each channel operation of `offer` is a
step (`offering` is the producer's program counter), so that the drop-oldest
dance of several producers interleaves. `Receive`, `Tick`, `Shutdown` are the cases of
`runTable`'s `select`. A flush that fails may have reached the server.

**QueryCache.** `items` and `order` are the LRU, `inflight` the flight table,
`calls` the leaders. A critical section is an action. Rows are the version of the
data a query read.

**CycleContext, EchoBatch, TtlWalk, TargetLoop.** Time is in ticks, and a tick
passes only when nothing is due (`BatchDue`, `WalkDue`), so the code itself takes no time; whichever
of two things due at one instant comes first is open. `stage` is where the
attempt loop is: asleep until a slot, waiting in a read, or ended. A read may return any
datagram its socket sees (`EchoWire`, `WalkWire`): the answer, an answer to an
earlier ping, one from elsewhere, an error that quotes another packet, one that quotes
nothing; `matchEchoReply` and the walk's matching decide, by identifier, sequence
number (modulo `SeqSpace`) and address. Batch and walk have drawn the same
identifier. `fate` records what became of each ping, from the network's side, and is
history, as is `misled`. `loop` and `given` are the target's goroutine and the
sink it is in. Each probe and each sink may panic.

**MeasurementPath.** After the loop a cycle is handled by functions: the
record, its wire form, the verdict of `Validate`, the rebuilt cycle, the row, what an
alert condition says of it. `RecordArrives` evaluates them on every cycle the loop
can record. `ViewsAgree` and `GridsFit` are statements about all tables and
windows of the instance; nothing of a run changes those, so they are looked at
in a state before the loop begins (`AtTheStart`). `TableAssumption` says what a table
is (`IsTable`).

## What the runs check

| Run | Bounds | Distinct states | Shows |
|---|---|---|---|
| `push_buffer` | two targets (one of the health mesh), 5 cycles of 0 or 2 hop rows, a budget of 7, an initial array of 1, batches of 2 | 199k | exact account, budget (`BudgetKept`), health paths withheld until the master marks them (`HealthHopsWithheld`), the lock released (`MutexReleased`); refinement of `PushSink` and `ShedQueue` across wrap-around, growth and shrinking |
| `redelivery_guard` | 3 slaves over 2 windows of 2, 2 identities, one handler, 3 admissions | 338k | slot reuse, forgetting, re-registration, eviction against registrations and sweeps (`RegisteredKeepWindows`); refinement of `RecentWindow` |
| `delivery` | 5 cycles in batches of 2, room for 3, window 4, 2 faults | 792k | no cycle lost without account, acknowledged means stored, order, what a duplicate takes (`RedeliveryIsSafe`), every cycle leaves (`EveryCycleLeaves`) |
| `mesh` | 3 names, 3 addresses, 2 slaves at a time, every pin table, 19 files, accepted, refused or at an edge | 26k | ownership under every pin table (`Inv`, `ClaimsSettled`), every change announced (`ChangeAnnounced`), one view of who probes what and every node able to run it (`OneView`), fingerprints that tell views apart (`RebuildSeesChange`) |
| `health_hops_rebuild` | 2 names, 1 address | violation | a comment the code does not keep |
| `lifecycle` | 3 edits, 4 configs over 2 shapes (one unbuildable), 2 lists of alerts, pins or none, 2 claims, 2 reloaders | 0.9M | no lost wakeup, the file in force unless reloads overlapped (`Inv`), convergence unless a part of the mesh came back (`SchedulerCatchesUp`) |
| `alert_evaluator` | 2 sources, intervals 1 and 2, clock to 4, stamps 1 ahead, 3 cycles, 1 reload, 2 cycles to fire | 738k | replays (`ReplaysRefused`), what the operator was told (`ToldWhatIs`), majorities (`MajorityPages`) |
| `alert_recovery_is_told` | the same, 1 cycle to fire | violation | a comment the code does not keep |
| `alert_delivery` | 2 sources of an alert and another alert's quorum, 4 transitions of weight 1 or 4, a shard of depth 2 and 3 bytes | 1.0M | order of notifications (`PostedInOrder`), what was told of each state (`ShardInv`), draining (`Drains`) |
| `row_writer` | 2 producers of 2 rows, a channel of 1, batches of 2, 2 failures | 94k | each row accounted for, order, `Close` (`NothingWaits`) |
| `query_cache` | 2 keys, 2 callers, 3 requests, 1 entry, 1 leader, 2 writes | 323k | single flight, nobody sent back in time, everyone answered |
| `probing` | the five probes, 2 pings with a timeout and a gap of 1 in an interval of 4, 2 rounds of 2 steps, 2 sinks; tables of up to 3 rows, 2 sources, 3 times, 6 shapes of cycle; windows and intervals at every tier's edges | 241k | `MeasuredOnly`, `PathIsReal`, `LoopLives`; recorded cycles cross the wire, are stored and alerted on as they are (`RecordArrives`); the views agree (`ViewsAgree`) and the grids fit (`GridsFit`) |

The bounds are small and sufficient for the same reason: what can go wrong
involves two actors and one reuse of a slot, name, address, flag or key. In
`delivery` the window is two batches and three are needed to pass a straggler, as
room for three cycles and five measured allow; in `alert_evaluator` a source that
is quiet, one that fires and a change of interval fit before the clock ends; in
`probing` the second ping's slot, its timeout and the cycle's deadline fall on each side
of each other, and the sequence numbers of batch and walk meet. In `mesh` one name
is both a slave and an alert, which is the collision a missing separator in a
fingerprint would need, and the schedules stand at both sides of the edge that
`HasPingBudget` draws. Where a size is a constant of the program (window 1024, budget
256 MiB, 512 slaves), the proofs cover every value. `redelivery_guard` has one
handler beside the registry's steps: that handlers of a slave overlap multiplies its states past what a
run can visit, and all its properties are proved for any number of them.

**Fairness.** Nothing is assumed of anyone who may choose not to act: operators,
slaves that report, files that are edited, requests that begin.
`delivery` assumes that the push loop's own steps are taken (its ticker runs as long
as the process does) and that a request the slave waits for is handled while its
master lives, and of the network only that faults are finite. `lifecycle`
assumes that goroutines with work run: a reloader that has loaded, the debounce
timer, the rebuild loop with a signal to take. `alert_delivery` assumes that the
worker and the resolve goroutines run, that a POST ends (its client has a timeout)
and that a grace period does. `row_writer` assumes strong fairness of two cases of
`runTable`'s `select`, because a `select` picks among ready cases at random, and
that the server answers again after `MaxFailures` refusals. `query_cache` assumes
that a request runs and that a query ends, by its own five-minute deadline at the
latest. `push_buffer`'s `MutexReleased` needs only that the goroutine in the lock runs.
`probing` assumes that the goroutines of a target run and that time passes, and strong
fairness of one step, the loop's `Exit`: a `select` that finds its ticker and its
done context both ready again and again takes the context in the end.

**Deadlock** is checked except where the process may rightly stop: a slave that
exited (`ClusterDelivery`), a writer or an evaluator that was closed
(`RowWriter`, `AlertDelivery`), a target loop that exited
(`TargetLoop`), and inputs that are bounded (`SchedulerLifecycle`, `AlertEvaluator`,
`QueryCache`).

## What is proved

For every value of the constants, from the assumption its module makes of them
(`SizesAssumption` of `PushSink`, `DedupAssumption` of `CycleDedup` and so on).
`StorageProofs`, `SchedulerProofs` and `AlertEvaluatorProofs` each extend two components
that share no variable; every theorem is about one of them.

* **Push buffer** (`PushSinkProofs`: `BufferIsSound`, `HeapIsExact`, `BudgetIsKept`,
  `HealthHopsAreWithheld`, `ImplementsPromise`). The inductive invariant `IInv` joins the types,
  the exact account (`HeapExact`, a sum over a sequence that grows and shrinks at both
  ends), the strip prefix, and the capacity facts the budget rests on. `HeapExact`
  alone is not inductive: that `makeRoom` ends inside the budget needs that the
  bytes it compares are the true ones, and that the operation in the lock has
  already added what it holds outside the ring. From `IInv` follow `Inv`, the account,
  `BudgetKept` and the refinement of `ShedQueue`.
* **Its array** (the same module: `ArrayBacksTheRing`, `ArrayIsSound`,
  `ArrayImplementsSink`). `PushRing`'s `buf`, `head` and `size` carry the sink's own view
  beside them, and the invariant is that the array is `Laid` out from it: entry `p` at
  slot `(head + p) % len` and every other slot cleared. One lemma per operation on the
  array (put at the end, put in front, clear a prefix, clear the tail, regrow) says
  which sequence its result is the layout of, from the modulo lemmas of
  `NumberLemmas`. `head` and `size` alone would not be inductive: that the slot to be
  written is free is a fact about the layout. What follows is `ArrayInv` and the
  refinement of `PushSink`, so that the budget and the account hold of the array too.
* **Redelivery guard** (`CycleDedupProofs`: `TableIsSound`, `ReregisteredIsKept`,
  `RegisteredIsSpared`, `RegisteredKeepTheirs`, `WindowsKeepThePromise`). A window is `Sound` when it is full or
  filled from the front and every remembered identity stands at its own slot; two
  live positions then never share a slot (`SlotsApart`, from the modulo lemmas of
  `NumberLemmas`), which is what makes one insertion forget at most one identity.
  `IInv` adds the ceiling on windows and names and what the two operations in the
  middle of the lock know (`WalkSound`, `WalkFair`, `ForgetSound`). From it follow `Inv`,
  the action properties and the refinement of `RecentWindow`.
* **Cluster delivery** (`ClusterDeliveryProofs`: `DeliveryIsSound`, `OrderIsKept`,
  `RedeliveryIsSound`), from `DeliveryAssumption`, for any number of cycles, faults, restarts and
  stragglers. `Core` is what runner, requests and master know of each other: every
  measured cycle is in one place (`Placed`), what the awaited request no longer carries
  of the batch has been stored or has no target (`Covered`), and the window is the
  tail of what was stored (`RecentIsTail`). The order is `OrderInv`: whatever was handed
  out and may be sent again fits into one batch at the front of the queue
  (`FrontCovers`), no request skips an older cycle that can still come (`NoGap`), and
  what can still come is remembered or younger than all that is stored
  (`OrderKept`); two batches of window are enough because only the front is ever sent again.
  `RedeliveryIsSafe`, how many stragglers a duplicate takes, needs a `Ledger` that
  books every stored cycle to the request and the place that stored it: between a cycle
  and its second storing lie `Window` others, a request stores at most
  `BatchLimit`, so that many requests took part.
* **Registry** (`SlaveRegistryProofs`: `RegistryIsSound`, `PinsAlwaysWin`,
  `PeersHoldTheirPlace`, `ClaimsAreSettled`, `ChangesAreAnnounced`). `Ownership` (types and the one fact in
  two maps) is inductive; the action properties follow from it step by step.
* **Mesh** (the same module: `ClusterHasOneView`, `RebuildsFollowChanges`), from `RegistryAssumption`,
  `MeshAssumption`, `FilesAssumption` and `ScheduleAssumption`, for any files and any
  number of names. `MeshIInv` adds to `Ownership` that the config was accepted, and is inductive at
  once; the rest is about operators. A filtered list of groups has the targets that
  were kept and no others (`KeptFacts`, from `PickedFacts`), peers make a health group
  with each of them once (`HealthGroupFacts`), so a node's view holds the config's
  targets that it may see and the peers but itself (`LocalView`, `SlaveView`), which is
  what the API and ingest compute from the other end (`RunsByIdentity`, `MeshTargets`).
  That an accepted config builds for everybody (`ViewsAreRunnable`) needs that `Validate`
  keeps the reserved names out of the files.
  `RebuildSeesChange` is that a fingerprint can be read back. Segments that end with a mark and have
  no other are found again in what they make up (`SegmentsAreFound`, from `LastCut`:
  whatever follows the last mark is cut off first); a target is the entry between two
  marks with one more between its lists (`TargetIsRead`), a group a block of entries
  (`GroupIsRead`), a view a preamble and its blocks (`FingerprintIsRead`). The master's
  ends with the mesh's part, which gives back peering and alerts
  (`MasterFingerprintIsRead`), and its view is made of those but for `health_hops`
  (`LocalTargetsAgree`).
* **Writer** (`StorageProofs`: `WriterIsSound`, `RowsAreAccounted`, `RowsKeepTheirOrder`),
  from `WriterAssumption`. The bounds need that a full batch never waits in the select
  (`SelectHasRoom`) and that behind the last drain only offers in progress reach the channel
  (`OnTheirWay`). The order needs that the server's rows, the batch and the channel are one
  line (`Line`), and that no row in the line is one a producer has yet to send
  (`Numbered`); every step then appends at the end, moves a row up, or drops a front
  (`LineSteps`).
* **Alert evaluator** (`AlertEvaluatorProofs`: `EvaluatorIsSound`, `ReplaysAreRefused`,
  `OperatorIsTold`, `MajorityIsLiving`), from `EvaluatorAssumption`, which asks that the
  sources are finitely many. `ReplaysRefused` is not inductive: it says nothing
  of entries that were pruned, nor of a stamp the two marks cover only together.
  `IInv` says that every applied stamp is behind both marks, remembered by itself, or
  too old for the longest interval (`MarksCover`), that the marks invent nothing
  (`MarksAreApplied`), and that an entry's `lastSeen` is when its source was heard
  (`HeardOf`). A pruned entry is `Spent`, so what it covered is too old, and stays so.
* **Alert delivery** (the same module: `ShardDelivers`,
  `NotificationsKeepOrder`), from `DeliveryAssumption`. `ShardIInv` has one part per
  resource. `BytesAdd`: a running total over the queue, the event in hand first, ends in the bytes
  reserved, so an empty idle shard has reserved nothing. `QueueOrder`: the event in hand is
  older than the queue, and whatever was posted or delayed is older than both.
  `ResolvesFound`: a resolve that may still post is in `d.pending` or with somebody about
  to cancel it, is the only one of its state, and is newer than what was last posted of the
  state and than the last firing posted of the key. That it is the only one, although a key
  may have as many as it has sources, is the work of `Recoveries`: before a recovery stands a
  firing of the same key, of that source or of another, which will have silenced every earlier
  resolve of the state when the recovery is delivered (`Guarded`; the pair may have left
  the config and come back in between). `Commits` ties queue and resolves to the transition that is
  kept, and `OperatorTold` is `ShardInv`'s `OperatorKnows` before it comes to rest: what was
  delivered is posted, or waits, or gave way to a firing of its key that was posted or is on
  its way. `PostedInOrder` excepts the moments in which `Close` holds resolves it has
  yet to cancel, as the run does.
* **Scheduler lifecycle** (`SchedulerProofs`: `NoWakeupIsLost`,
  `RestRunsTheCurrentView`), from `LifecycleAssumption`. `WakeupKept` says, for every place
  the lifecycle can be at, what it must know unless a wakeup is on its way; `LoadsAreCurrent`
  the same of the reloaders and the file. `Inv` speaks of the state at rest
  only. `RestRunsTheCurrentView` adds what is running: it is built from the current view unless the
  last `Build` failed or a part of the mesh came back. Fingerprint and scheduler are
  compared part by part (`BuiltFor`): where the two reads of the alerts, or of the peers, saw
  different things, the part in the fingerprint has been there and was gone (`Left`), and
  when it matches again it has returned.
* **Query cache** (`StorageProofs`: `CacheIsSound`, `NobodyGoesBack`), from
  `CacheAssumption`. The flight table is the map from a key to its one running query
  (`FlightTable`), list and map hold the same keys (`ListIsMap`), and every request that may
  still lead has a number left (`NumbersLast`, a count of callers against calls).
  `NeverBackInTime` is not inductive: a request that waits is told what a query read
  before it came. `NothingIsNewer` bounds every version of a key that was told, or that a finished
  query or a woken caller carries, by what is cached and by what the running query has read,
  and `FloorsHold` carries that to each caller.
* **Target loop** (`SchedulerProofs`: `LoopIsSound`, `OnlyWhatWasMeasured`, `PathIsTaken`), from the
  assumptions of `CycleContext`, `EchoBatch`, `TtlWalk` and `TargetLoop`. `LoopIInv` says of
  the batch where it is (`BatchPlace`), that a read ends inside its share of the cycle
  (`BatchTimes`) and that the result so far is what became of the attempts
  (`BatchAccount`: `sent`, `lost` and `rtts` against the history `fate`, counted as
  cardinalities); of the walk where it is, and that it was never misled. That a reply
  is the answer to its own attempt rests on the sequence numbers: those of the pings lie
  above those of the walk and do not wrap (`PingSeqs`), every step has one of its own
  (`WalkSeqs`), so what matches an attempt answers it (`MatchIsAnswer`) and what a step
  accepts is about that step (`ClassifiedIsAnswer`), although both sockets see the
  datagrams of both and of others. The cycle is over by its deadline because
  whatever a probe waits for is due by then (`TickKeeps`). For the path, `PathInv` adds that
  the rows of a TTL and the step under way there are the rounds that came to it
  (`StepsBooked`), which needs that rounds are walked one after the other and each from the
  first TTL (`RoundsInOrder`), and that no two rows are alike (`RowsApart`): an answer or
  a loss is then one share more in one row (`ShareAdded`). `Hops` is a block for each TTL
  (`HopsInBlocks`), and a sum over a block is its number of shares (`SumCountsShares`).
* **Grids** (`SchedulerProofs`: `GridsAreBounded`), from `SecondAssumption` and
  `GridAssumption`: `GridsFit` for every window, interval and override. The ladders of
  steps are finite, so what is left are quotients: a span no longer than a tier's has
  no more slots of the tier's step than the coarsest grid has of its own
  (`SlotsWithin`), also when the step is rounded up to whole seconds (`HopStepFacts`).
* **Record** (`SchedulerProofs`: `RecordsArrive`), from `ConfigAssumption` and
  `ProtocolAssumption`: `RecordArrives` for every cycle the loop can finish, any transit and
  any skew. What is proved of the loop bounds the cycle (`CycleFacts`), what is proved of
  the path bounds its rows (`HopsWithin`: a row for each round and TTL at most, of rounds that
  fit a counter), and a summary lies within its samples (`SummaryWithin`); so each part
  of the record passes its check at ingest (`HopValid`, `SamplesValid`, `RecordValid`) and is
  rebuilt as it was. The stored row is one point with the attempts and losses of the cycle
  (`RecordPoints`), and an alert reads its loss as the page shows it (`LossIsShown`,
  `SilentIsLost`). The assumption on the limits now names two that the constants of
  `cluster/` satisfy and the run could not tell: a batch holds a cycle, and a hop's rounds fit its
  counters.
* **Views** (`SchedulerProofs`: `EveryTableAgrees`): `ViewsAgree` for every table, of any
  length, sources and times, from `StoreAssumption` and `TableAssumption`. The latter
  says of a row that no more is lost than was sent, that a latency is of an attempt
  that was not lost and that no round trip rounds to 0 µs, and that a cycle stored
  twice is the same cycle: `runCycle` and `ToCycle` take the counters and the summary from
  the same round trips. Successes that nobody measured, of an older writer, are
  allowed, as are cycles stored more than once. Each view is four statements:
  `LossIsOne`, sums over a partition (`PointsAddUp`; the buckets' rows that sent nothing count
  for nothing, `BucketsAreTimeline`); `LatencyWasMeasured`, where leaving out the rows
  without a latency changes no quantile (`QuantileAlike`), so no bucket's band
  (`BandsAreMeasured`) and no overview row (`RowsShow`), and the collapsed row is made of
  those (`CollapsedShows`); `PathsArePaired`, over `TrimmedFacts` (the keys past the budget
  are the oldest) and `CountersFacts`; `StatusIsNewest`, since trimming a series keeps its
  end (`TrimIsSuffix`), so the sources with the newest points are the same before and
  after it (`TrimKeepsNewest`, `KeptAreNewest`).
* **Statistics** (`NumberLemmas`: `SummariesAreOrdered`): `SummaryIsOrdered` for every
  list of round trips, where the run has lists of two. A sorted list is the list read
  in an order of its places (`ByKeyIsOrder`, `SortedFacts`); a percentile lies between the
  samples of two neighbouring ranks (`PercentileBetween`), which gives its rank
  (`PercentileRank`) and that the band ascends across ranks (`PercentilesAscend`); the
  deviation exists and stays within the spread because the mean square does
  (`VarianceBounds`, `RootExists`), with sums by induction over finite sets (`SumFacts`).

Model-checked only: all liveness (`EveryCycleLeaves`, `SchedulerCatchesUp`, `Drains`, `NothingWaits`,
`EveryCallerAnswered`, `MutexReleased`, `LoopLives`: fairness and `ENABLED` are beyond the
prover). What a recursive definition computes for every input is not proved either; the
sums of `PushSinkProofs` are recursive functions whose unfolding is proved by induction
from the well-ordering in `NumberLemmas`.

## Where the code and its documentation differ

The run `alert_recovery_is_told` expects a violation: while quorum is on, a source's
own transitions change its state and are not dispatched, so a source paged for by
itself that recovers after a reload switched quorum on is resolved by nobody; a
comment on `pruneStaleAggregates` (`evaluator.go` 596 to 602) says the resolve is sent.

The run `health_hops_rebuild` expects another: the master fingerprints its stored
config, where the health probe is not, and the mesh's own fingerprint covers peers and
alerts (`lifecycle.go` 44 to 51, `slavehealth.go` 182). A reload that edits `cluster.health_hops`
alone leaves both as they were; `fingerprint.go` 69 says such an edit takes effect at SIGHUP.

Seen while modelling, and part of what the modules do rather than findings of a run:

* `Requeue` drops measurements at the tail while older cycles keep their hop rows
  (`PushSink`; `ShedQueue` promises only what the code does).
* `forget` releases an identity by value, so a late failure of one handler may
  release the reservation of another that admitted it since (`CycleDedup`).
* Two overlapping reloads may publish in the opposite order of their reads, and the
  older config stays in force until the next event (`SchedulerLifecycle`).
* A mesh that changes and changes back around one rebuild leaves the scheduler built
  from the one in between running until the fingerprint changes again. It takes less: `healthSet`
  reads alerts and peers at two moments, so a fingerprint may join the alerts of one mesh to the
  peers of the next, over a scheduler built from the second, and a later reload that restores the
  alerts alone finds it unchanged. The comment at `lifecycle.go` 66 to 75 thinks of a
  mesh that stays changed (`SchedulerLifecycle`).
* Without a quorum every source of an alert has a state, and all share one webhook key. A firing of
  one cancels the resolve of another that waits out its grace period, and that recovery is
  never told by webhook. The resolves of two sources may be posted in either order. The last
  POST of a key may be one source's resolve while another still fires: the payload names
  the source, the key does not (`AlertDelivery`; `OperatorKnows` says what remains true).
* The states of a pair the config no longer names are dropped, and nobody is sent a resolve for
  those that fired (`AlertDelivery`).
* A reload that empties `cluster.token` lets `Validate` accept a schedule too tight for
  `icmp` while the mesh's peers stay in the registry for up to a day: the master still adds
  the health probe, `Build` refuses, and the old scheduler goes on (`ClusterMesh`; the
  comment at `config.go` 842 to 845 thinks of the token as the mesh's switch).
* `Validate` does not check a probe's type, only `Build` does (`ConfigGate`, `Runnable`).
* `mtr` returns an empty result that is not nil for a name that does not resolve, so
  that outage is a gap and not a full loss, unlike the other probes (`TargetLoop`;
  `probe/nomeasurement_test.go` 71 to 74 says what the others do).
* The last ping of `icmp` under total loss is taken back when the cycle's deadline cuts
  its budget; with one ping per cycle and an interval no longer than the timeout a dead
  target is a gap (`EchoBatch`).

## Not modelled

* `AlertEvaluator`: a receive clock that steps back, an alert removed from the config
  while its target stays, rate-limited log lines. `AlertDelivery`: an alert has one
  webhook action; log, discord and exec actions are sent in line and keep no state. An alert
  whose quorum is switched on or off is `AlertEvaluator`'s subject.
* `RowWriter`: the connection its four tables share. `QueryCache`: hit counters and the
  quantised keys. `ClusterDelivery`: the buffer's bytes (`PushSink`'s subject), the
  content of `GET /config` (`ClusterMesh`'s) and its ETag. `ClusterMesh`: tokens' values, log
  deduplication, UI listings. A target is the pair of its group and its name there, where the code
  joins the two with a slash: that `Validate` refuses a file in which two pairs join to one
  string is left out.
* `TargetLoop` and the modules below it: the points at which a probe may
  give up early, on a socket that fails or a context that is done, are somewhat fewer than in the code.
* `ConfigGate`: JSON, environment placeholders, defaults, the storage block and
  retention, families, a slave's own file. `AlertCondition`: the parser.
* Probes: marshalling, socket options, HTTP redirects, cookies and client pools, error texts.
* `StoredViews`: the hop grid's cells, the RTT and HTTP sample reads, SQL text and row
  decoding, the schema. API: time parameters, redaction, batch concurrency, DTOs.
* The watcher's quiet period and its event filter, flags, logger, order of shutdown.
* The smokeping converter and the UI: a text translation, and a client of the API.

What is left out is either formatting and parsing, decided outside the program (SQL, HTTP,
sockets), or has no state that two steps could disagree on.

## The plan

Every safety property of the passing runs is a theorem. What is left is to model: several
actions per alert in `AlertDelivery` with the time each is given; the quantised keys of
`QueryCache` against the grids of `TimeGrid`.
