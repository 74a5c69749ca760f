# A TLA+ verification project for IoT Edge

IoT Edge is a Go server that polls field devices over Modbus TCP, turns the raw
registers into typed tag values, keeps the latest value of every tag, logs
values on a schedule into PostgreSQL, runs plugins (energy accounting) over the
logged batches, and publishes values over MQTT and HTTP. Most of what can go
wrong in it is concurrency: long-lived goroutines that are reconciled against
the database, bounded channels between them, timers, and shutdown, and requests
of several browsers over the same rows.

This directory holds TLA+ modules translated from that code, the TLC
configurations that check them on small instances, and TLAPS proofs.

## Inventory

All paths are under `src/backend/internal/` unless they say otherwise.

| Component | State it keeps | Operations | Hard behaviour | What makes it correct |
|---|---|---|---|---|
| Tag value store (`tag/value_store.go`, `tag/persistent_value_store.go`, `tag/postgres/latest_value_repository.go`) | latest value and short history per tag, a global sequence number, subscribers, the pending write-behind map; the table `tag_values_latest` | Put, Start/RestoreLatest, flush/requeue, Stop/finish, Subscribe, SubscribeValues | writes racing a flush in progress, failed upserts, crash and restart, lagging subscribers | the latest value is always in the table or still queued; rows never go back; streams have no gaps |
| Tag acquisition (`tag/acquisition.go`) | one device subscription per datasource, constants, calculated tag triggers | Reconcile, consume, cascade of calculated tags, Stop | subscriptions that die while a reconcile runs, event queue limits | every enabled datasource is subscribed; a value change reaches its dependants in order |
| Tag and device services (`tag/service.go`, `tag/expression.go`, `tag/converter.go`, `device/service.go`) | rows of devices, datasources, tags and dependencies; samples of datasources | create, update, delete, preview, evaluate | requests that overlap between their reads and their writes | nothing refers to what is gone; an expression means what its grammar says |
| Device monitor (`device/monitor.go`) | one polling goroutine per datasource, its subscribers, a grace timer | Subscribe, unsubscribe, poll, update and delete | grace timer against a new subscriber, update against a running poll | one poller per datasource; every subscriber is closed exactly once |
| Virtual gateways (`vgateway/`) | one protocol client per gateway, connection status | Connect, Disconnect, Update, Delete, status, startup reconcile | stale reads before the operation lock | the status is what the client does |
| Modbus driver (`protocol/modbus/`) | one TCP connection per monitor or preview | Connect, Read, Disconnect | time-outs and late answers, exceptions, reconnects | a good tag shows what the device held when it was read |
| Data logger runtime (`datalogger/runtime.go`) and schedulers (`interval_scheduler.go`, `calendar_scheduler.go`) | one job per enabled logger with its fingerprint; when it captures next | Start, Reconcile, Stop, run | reconcile against stop, configuration changes; hours that a time zone skips or repeats, late timers | never two jobs for one logger; after Stop no job runs; captures at the times of the schedule only |
| Logger history (`datalogger/service.go`, `datalogger/postgres/`, `committed_batches.go`, `retention_runtime.go`) | rows of `tag_values_raw`, storage accounting, broker subscribers | WriteBatch, enforceRetention, CleanupRetention, publish | retention inside the write transaction, updates in several transactions, lagging subscribers | accounting equals the rows; the newest batches survive; the limit is restored |
| Publisher manager (`publisher/manager.go`, `runtime_status.go`) | one job per enabled publisher, statuses, listener claims | Start, reconcile, Restart, Stop, runJob | a cancelled wait, an old job that ends late | one job per publisher; the status is that of the current job |
| Publisher source feed (`publisher/source_feed.go`) | two upstream subscriptions, a merged channel, a cursor per source | Subscribe, the stream goroutines, Close | values that come by two ways, lag in the middle of a batch | in order, complete, or ended with a reason |
| Publisher service and templates (`publisher/service.go`, `definition.go`, `trigger.go`, `json_payload.go`, `mqtt_config.go`, `http_config.go`) | rows of publishers and their sources | create, update, enable, delete, render | checks made at different times of rows that change | what was accepted can run |
| Publisher transports (`mqtt_transport.go`, `http_transport.go`) | message queue and broker connection; HTTP connections and the snapshot | Publish, Close, callbacks, requests | reconnects, a full queue, closes from both ends | every message is accounted for; a payload goes to who may have it |
| Credentials and secrets (`credential/`, `publisher/secret*.go`) | profiles and their encrypted secrets, rotation events | put, delete, resolve, rotate | a rotation while a transport reads its secrets, lost events, another key after a restart | a publisher runs with the secrets that are stored |
| Plugin manager and outputs (`plugin/manager.go`, `service.go`, `output_store.go`, `output.go`) | one job per enabled plugin, latest outputs, broker | as the publisher manager; Publish, Latest | as above; outputs out of order | status and job agree; outputs never go back in time |
| Energy plugin (`plugin/energy/`) | period accumulators, live hub, measurement runs | observe, build outputs, dashboards, runs, export | batch replay at start, restarts, runs that overlap | every batch is counted once; runs tile the time |
| Auth (`auth/`) | users, refresh sessions, lock-out counters | Setup, Login, Refresh, Logout, ChangePassword | a login that overlaps a password change | a password change ends every session |
| Assets (`asset/`) | the tree, measurement bindings, live streams | create, move, delete, bind; snapshot and stream | triggers that see committed rows only; three goroutines in a chain | a tree without cycles, one main meter; a stream without gaps |
| Reports (`report/`, `datalogger/postgres/query_repository.go`) | saved columns | save, query, export | pages by offset over a table that changes | rows that were there all along appear in order, and once unless rows before the offset come or go |
| Utilities (`utility/`) | none | integrate, compare, series, calculators | clock changes, resets, signals of different coverage | what is divided is of the same hours; windows tile |
| Migrations (`src/backend/migrations/runner.go`) | `schema_migrations` | Up | crash between two migrations, two runners | applied migrations are a prefix, each applied once |
| Maintenance, hosting and UI (`dbmaintenance/`, `winservice/`, `rotatinglog/`, `src/backend/cmd/`, `src/frontend/`) | files, services, browser state | backup, restore, rotation, pages | | |

How the parts interact. `cmd/server/main.go` builds them and starts them in the
order value store, acquisition, data loggers, plugins, publishers, and stops them in
the reverse order; only the two managers are stopped under a deadline.
At run time values travel down one pipeline: the **device monitor** polls a
datasource through the **Modbus driver** and sends samples on a channel per
subscriber; **acquisition** decodes a sample into the datasource's tags, puts each
into the **value store** and announces it on its bounded `events` channel, from which
one goroutine evaluates the calculated tags that it triggers; the value store queues the
latest value of each tag for its write-behind goroutine and fans every value
out to subscribers; a **source subscription** merges the streams of tags and of
plugin outputs, for one publisher or for the live view of an asset; the
**publisher manager** runs one job per publisher that renders what such a
subscription gives and hands it to a **transport**. The **data logger runtime** reads
the value store on a schedule and writes batches; committed batches feed the
**energy plugin**, whose outputs are sources again. Reports, runs, asset pages and
utilities read the history. Only PostgreSQL is shared beside these channels:
managers notice edits by listing and comparing fingerprints.

## Modules

The values of tags, from the device to the table:

| Module | Code | What is in it |
|---|---|---|
| `DeviceMonitor` | `device/monitor.go`, `device/service.go`, `vgateway/crud.go` | the monitors of one datasource, clients, the grace timer's three steps, the polling goroutine's steps, updates of datasource, device and gateway |
| `ModbusReading` | `protocol/modbus/`, `tag/converter.go`, `decoder.go`, `transform.go` | monitors and previews that share a gateway, requests and late answers, byte and word orders, coils, scaling and coercion |
| `AcquisitionRuntime` | `tag/acquisition.go` | subscriptions and consumers, the `events` channel, the cascade, Reconcile step by step, Stop, faults |
| `TagExpression` | `tag/expression.go` | the parser as the code has it, dependencies, evaluation; beside it the grammar, by which it is judged |
| `PersistentValueStore` | `tag/persistent_value_store.go`, `tag/postgres/latest_value_repository.go` | the goroutine and its wake token, `latest`, `pending`, the batch in flush's hands, and the table with data types and existing tags |
| `DurableLatest` | (what the value store promises) | a current and a durable value per tag; no queue, goroutine or retry |
| `MemoryValueStore` | `tag/value_store.go` | the log of values, history, both kinds of subscribers and their channels |

Loggers and plugins:

| Module | Code | What is in it |
|---|---|---|
| `DataLoggerRuntime` | `datalogger/runtime.go` | jobs, Reconcile in its sections, Stop, edits |
| `Schedules` | `datalogger/interval_scheduler.go`, `calendar_scheduler.go` | the next run of one job, over a zone that skips and repeats minutes |
| `LoggerHistory` | `datalogger/postgres/history_repository.go`, `service.go`, `retention_runtime.go`, `committed_batches.go` | rows and accounts, transactions as single actions, what runs between them, the broker |
| `PluginManager` | `plugin/manager.go`, `service.go`, `http/handler.go` | instances, requests, reconciliation under `reconcileMu`, jobs, Stop |
| `EnergyPlugin` (extends `LoggerHistory`) | `plugin/energy/runtime.go`, `outputs.go`, `live.go`, `plugin/output_store.go` | the runtime on committed batches, its periods, the row of outputs, the live hub and a dashboard |
| `EnergyOutputs` | `plugin/energy/calculator.go`, `outputs.go`, `plugin/output.go`, `output_store.go` | demand, energy, cost and COP with quality and issues, and the rules by which the store takes them |
| `MeasurementRuns` | `plugin/energy/service.go`, `measurement_run.go`, `postgres/measurement_run_repository.go` | starts, resets, archives and exports that overlap |
| `Reports` | `report/`, `datalogger/postgres/query_repository.go` | saving, querying and exporting while the logger writes, removes and is edited |
| `UtilityAnalytics` | `utility/analytics/engine.go`, helpers of `query.go` | integrals, calendars and series as operators; beside them the same said hour by hour |
| `UtilityQueries`, `UtilityCalculators` (extend it) | `utility/query.go`, `history/`, `outputschema/`; `electrical/`, `thermal/`, `compressedair/` | queries that read source by source while batches are written; the calculators |

Publishers and assets:

| Module | Code | What is in it |
|---|---|---|
| `PublisherService` | `publisher/service.go`, `definition.go`, `trigger.go`, `mqtt_config.go`, `http_config.go` | saves in their steps, every check, tags that change type |
| `JSONPayload` | `publisher/json_payload.go` | templates of tokens: compiling, accepting, rendering |
| `PublisherManager` | `publisher/manager.go` | jobs, statuses, the call that holds `reconcileMu`, Stop |
| `PublisherCredentials` | `credential/`, `publisher/secret*.go`, parts of `service.go` and `manager.go` | profiles, secrets and keys, rotation events, the reads of a reconciliation |
| `SourceSubscription` | `publisher/source_feed.go` | the two upstreams, the merged channel, cursors, goroutines and what one holds in its hand |
| `MQTTTransport`, `HTTPSnapshot` | `publisher/mqtt_transport.go`, `http_transport.go` | queue, goroutine and callbacks; connections, their limit and the snapshot |
| `MeasurementStream` | `asset/measurement.go`, `asset/live/reader.go`, `asset/http/handler.go` | the chain of goroutines behind an asset page |
| `Assets` | `asset/service.go`, `aggregation.go`, migration 000019 | the tree and its bindings; requests read, then run one statement whose commit comes later |

Configuration and access: `Catalog` (`device/service.go`, `tag/service.go` and
their repositories: rows, foreign keys, overlapping saves), `Gateway` (`vgateway/`)
and `Sessions` (`auth/`).

A module's steps are the critical sections of the code, or its statements and
transactions, so that everything between two of them interleaves. Where the
code holds two locks one after the other with nothing observable in between,
the two are one step; the comment at the action says so.

Data is abstracted to what the properties tell apart. A value is its sequence
number; in `AcquisitionRuntime` it is a quality and the set of samples it was
computed from, so that a calculated value built from two different samples of
one trigger can be recognised; a cell of a report is the set of its batches.
Configurations are model values, fingerprints are the parts of a configuration
that the code compares. Definitions headed "Faulty variant" are not part of any
specification: each replaces one definition by a plausible mistake, and shows
that a property notices it.

`MC...` modules give the constants of one of these small values. Three of them
hold several parts, which share no state that one would change under another, so
a behaviour has one of them: the variable `part` says which, the others stand
still. The constant `Parts` chooses the parts; with one name in it a part can be
looked at alone.

- `MCServices` runs the services that compute and keep data. The history of a logger, the
  catalog, the measurement runs and the assets are extended and have their own
  variables, so that what the theorems name is what the run checks; the state of the
  other parts is in the slots `x1`, `x2`, ... (each instance maps its variables to them).
- `MCDelivery` runs the services that connect, deliver and authenticate. Sessions,
  the MQTT and HTTP transports, the gateways, the two managers, the credentials,
  the feeds and the values are extended; templates, publishers and streams are in slots.
- `MCRuntimes` holds the parts with goroutines that must end or
  come to a result. Its fairness has one conjunct for one condition of each part,
  which is the same as the fairness of the part a behaviour has.

What connects the parts is modelled on both sides of the connection:
`EnergyPlugin` runs on the actions of `LoggerHistory`, `MeasurementStream` on
what `SourceSubscription` is checked to promise, `DataLoggerRuntime` on
schedulers that end when they are cancelled, as those of `Schedules` do.

## Runs

| Run | Question | Bounds, and why they are enough |
|---|---|---|
| `value_store` | Can a latest value be lost between Put, flush, requeue, restart and Stop? Does the table catch up, does the goroutine end? Is it the abstract register? `NothingLost`, `UpsertNeverRefused`, `StopFlushes`, `RowMonotone`, `KeepsPromise`, `Progress` | two tags (numbers of different tags can clash), two puts (one during a flush of the other), one failure, two restarts, one change of data type, after which values of the old type may go on arriving: acquisition puts what it loaded at its last reconcile. The clash and requeue races need two values at most; the proofs remove the bounds from the safety part |
| `acquisition_runtime` | One consumer per datasource, calculated values that follow their trigger and mix no samples, no blocking on the channel, a clean Stop. `OneConsumer`, `FollowsTrigger`, `NoMixedSamples`, `Settles`, `Propagates` | one datasource and reading, three calculated tags (one reads another with the same trigger, one is triggered by another), a constant, one place in the channel (every send can block), cascades of two values (so that the third tag is cut off while the second is enabled), two samples, two outside events (an edit, a fault, a shutdown). Tags in a cycle are not in the run; the proofs allow them |
| `device_monitor` | One poller? Does a subscriber wait for ever? Does polling end? `OnePoller`, `NoStrandedSubscriber`, `PollingEnds` | two clients (one leaves while one joins), two monitor objects (an old one ends while its successor runs), one update |
| `publisher_manager_stop` | Does Stop end, at any moment, and does everything it can see end with it? Do the jobs converge? `StopLeavesNothingRunning`, `Settles` | one publisher, two job objects, one edit, one restart: Stop meets a reconcile in each of its sections. Two publishers that claim one address are in the part `manager` below |
| `runtimes` | What must eventually happen (and one job per logger). `OneJobPerLogger`, `RuntimesConverge`, `EverythingEnds`, `NewestReached`, `LimitRestored` | two loggers with two configurations, two edits and two job objects each; two plugin instances; three ticks of history with one crash; two values per source and channels of one place, so that each fills up |
| `data_services` | The services that compute and keep data, part by part (next table) | |
| `delivery_services` | The services that connect, deliver and authenticate, part by part (next table) | |
| `value_store_stale_row`, `device_monitor_paused`, `credential_switch`, `asset_boundary`, `stream_close` | see Findings | as small as shows it |

| Property | Part: bounds |
|---|---|
| `HistoryKept` | `history`: two tags, two policies, batches one at a time, a limit of one per cleanup, so that a cleanup takes several transactions |
| `EnergyInOrder` | `energy`: three batches, a day that starts in between, a crash and a restart, one place in each buffer |
| `OutputsCovered` | `outputs`: five ticks, two days and two months, two issues at most, a restart. `queries`: four hours, zones that repeat or skip an hour, two sources, three points. `calculators`: batches with bad samples, a counter reset, missing rates. `reports`: two tags, pages of one row, two batches, and either one save with three edits, which is what it takes until the deletion of a tag between two pages makes one of them skip a row, or two saves with one edit |
| `RunsSound` | `runs`: two clients, three runs, two requests, pages of one row, two configurations whose zones put the windows on different grids |
| `CapturesTheSchedule` | `schedules`: days of four minutes, five schedules of all kinds, a zone that skips and repeats a minute, a restart |
| `CatalogSound` | `catalog`: a gateway, a device and a datasource in a chain, three tags, two callers, five requests (a cycle takes four) |
| `AssetsSound` | `assets`: a site, a building with a meter below it and another meter; two callers, three requests |
| `TagsMean` | `expression`: every text of up to five tokens of six kinds. `modbus`: a monitor and a preview, registers of four bits, three registers, both word orders, two writes |
| `StatusTruthful` | `gateway`: two callers, two versions, two requests |
| `SessionsEnd` | `sessions`: two browsers, three passwords, four requests, lock-out after one failure |
| `DeliveryAccounted` | `mqtt`: a queue of two, three messages, two connections, two failures |
| `SnapshotServed` | `http`: two clients, a limit of one, requests that are wrong in each way |
| `RotationApplied` | `credentials`: two callers, two materials per run, two keys, one place for events |
| `AcceptedCanRun` | `payload`: templates of three parts out of eight texts and eleven calls, a tag whose data type changes, strings that are too long, outputs of an older schema. `publishers`: two publishers, two tags, two requests and one tag change |
| `PublishersManaged` | `manager`: two publishers that may claim the same address, three job objects, an edit and a restart |
| `PluginsManaged` | `plugins`: two instances, two requests, two configurations |
| `ValuesAreWhole` | `values`: two tags, three values, a history of one |
| `StreamsAreWhole` | `stream`: two values, a change of type, one place per channel |
| `FeedSound` | `feed`: a tag and two outputs, no spare place |

The type invariant of each part is a conjunct of its property, those of the two
managers in `PublishersManaged` and `PluginsManaged`; in `acquisition_runtime` and
`device_monitor` it is one of `OneConsumer` and `OnePoller`. Those of the value
store, the data logger runtime, and of all parts that are extended, are proved. Such an invariant bounds the
channels by their capacity and says of a closed channel that nothing is sent on
it. Deadlock is checked except where the system really may stop, and the cfg says
so. The modules with a `Rest` action allow a system to rest only after it was
started or has stopped, so a run that gets stuck shows as a violated
liveness property.

## Fairness

The fairness formulas are in each module. They assume:

- a goroutine that can take a step takes one in the end (weak fairness on each
  goroutine's steps, Go's scheduler is preemptive);
- a ticker ticks again (`flushInterval`, `reconcileInterval`, the interval of the
  retention), a timer that was armed fires;
- a goroutine that waits for a mutex, or for one of several ready cases of a
  `select`, gets its turn although others use it as well (strong fairness; Go's
  mutexes hand over to a waiter after one millisecond, and `select` picks a
  ready case at random);
- a scheduler, driver, plugin or transport whose context was cancelled returns;
- where a property is about convergence, the database answers again and again
  (strong fairness on the successful list). Single calls may fail at any time;
- a process that is told to stop calls Stop, as `main.go` does.

No environment action is fair otherwise: puts, edits, samples, failures, crashes and
readers that leave may never happen. The one reader assumption is in
`SourceSubscription`: `NewestArrives`, a part of `NewestReached`, is about a reader
that goes on reading.

## Proofs

TLAPS checks the theorems that PROJECT.json lists (and the lemmas they rest on)
for all values of the constants, without the bounds of the runs (in the modules
the bounds are guards with arbitrary natural numbers). They are in eight modules.
None of the safety properties below is inductive; what had to be added to it says
why the code is right, and is told here for each. TLC checked the added invariants
on the run of the component before they were proved.

`DataLoggerRuntimeProofs` proves `TypeOK`, `OneJobPerLogger` and
`StoppedForGood`. `OneJobPerLogger` is not inductive: that a logger has one
running job depends on where a reconcile stands. The inductive invariant
`IInv` adds *Known* (a running job is in the map, or the reconcile is waiting
for it), *Waiting* (jobs waited for are out of the map, one per logger),
*Missing* (a logger about to be started has no job in the map and is enabled), *Mapped*
(a job in the map is an object) and *Quiet* (what holds of Stop). One lemma per
action that disturbs them shows the step; `NextInv` puts them together.

`PersistentValueStoreProofs` proves `TypeOK`, `NothingLost`,
`UpsertNeverRefused`, `StopFlushes` and `RowMonotone`. The invariant says of
each tag that its four copies (latest, pending, batch, row) are of its type and
numbered below `sequence` (*WellFormed*), that acquisition has loaded no type
but the tag's (*CurrentTypes*), and that the copies agree on which is newest
(*Coherent*: pending is absent or the latest; a batch value that is not the latest
has its successor in pending); of two tags that no number is shared (*Apart*,
which is what makes `UNIQUE (sequence)` harmless and is the reason why a
restart must number from the highest restored row); and where the goroutine
stands (*Control*). It holds as long as no tag has changed its data type, and
so do the three theorems that rest on it: after such a change it is false (see
findings). `RowMonotone` needs `TypeOK` only and holds without that condition.

The second part of `PersistentValueStoreProofs` proves the refinement: `PersistentValueStore` implements
`DurableLatest` under the mapping in `PersistentValueStore` (`KeepsPromise`),
for every set of tags and whatever types they change to. The abstract register
has a current and a durable value per tag; every step of the store is one of its
steps or a stutter, `StepImplements` shows which. Neither `IInv` nor a condition on
types is needed for that; the inductive invariant `RInv` is the weaker *Numbered*
(absent values are equal, nothing in memory is numbered past `sequence`) and
*Queued* (what is queued or in flight is the latest value or has been replaced
by it, and a latest value in neither place is written or has a newer row in its
way), with *Control*.

`DeviceMonitorProofs` proves `OnePoller`, `NoStrandedSubscriber` and that the
monitor of the map can be joined (*Current*). Two running monitors would need one
outside of the map that no update is about to cancel (*Polls* excludes it); a
stranded subscriber would need one that joined after the channels were closed.
*Joined* and *Held* tie a subscriber to the object it holds, *Taken* says that
the monitor an update took is still that object when the update cancels it. The
attempt to prove the last one showed a flaw of the model: a collected object could be
used again while an update held it, which no Go pointer allows; `Collected`
now keeps it.

`PublisherManagerProofs` proves `PublishersManaged` and its parts, and
`StopLeavesNothingRunning`. The invariant `Core` says of every live job who knows
of it: the map, the call that waits for it, or nobody after a wait was given up
(*Known*, *Waiting*, *GivenUp*); what the call in progress relies on at each of its
points (*Missing*, *Agreed*); that Stop knows every job of the map (*Stopping*); and
where a status comes from (*Shown*, *Truthful*). That no two listeners conflict
rests on `assignListenerClaims`, a recursive function over the publishers' ids.
That such a function exists, and that the owners it gives do not conflict, is
proved by an induction over the ids with sets in place of predicates.

`PluginManagerProofs` proves `PluginsManaged`. *Lease* says that `reconcileMu` has one
holder, who is the process in a section that needs it; *Inserts* does the same for
`createMu` and says that the table is still empty for who is about to insert;
*Waiting* that a job waited for is out of the map, so that nothing starts beside it;
*Shown* what the status of every instance is, also in the middle of a
reconciliation; *Life* that nothing is reconciled before the start and after Stop.

`AcquisitionRuntimeProofs` proves `OneConsumer`, `StoppedForGood`, `FollowsTrigger`
and `NoMixedSamples`. The first two follow from *Core*: who holds an event, how the
reconciler and Stop follow Start, and that the map has the subscriptions that were not
told to end. The others are about values. *Shape* says that what a cascade
works through is triggered by the value at hand and is in order: `orderCalculatedTags`
puts every tag after those it depends on, except tags in a cycle and behind one, and a tag of
`NoMixedSamples` is never among these. No bound on the number of calculated
tags and no acyclic graph is assumed. A cascade that meets its limit drops what is left;
the tags it no longer evaluates leave the history `fresh` until they are
evaluated again, and the two properties are about tags in `fresh` only.
*Followed*, *Later* and *Single* say of a tag that waits for nothing that it agrees
with its trigger, and used no sample but the trigger's.

`ServiceProofs` has a section for each of six services.
- Sessions, `SessionsEnd`: the row's version is the number of changes of the password,
  also after a login that read the row before a change has written it back, and a
  token has the version that the row had when its login began. `SessionsTypeOK` adds
  that the history never holds more than is compared.
- MQTT, `DeliveryAccounted`: acknowledged, in-flight and queued messages are one
  increasing sequence (*Order*), and with the dropped ones they are all that were
  published (*Count*). `MQTTTypeOK` adds that a failed message that is put back
  never lets the queue exceed its capacity.
- Gateways, `StatusTruthful`: a runtime is held by exactly the request that dials or
  deletes it, in the state that this request left it in; one that nobody holds
  tells the truth. `GatewayTypeOK` adds that the lock has one holder.
- HTTP, `SnapshotServed`: the places taken of the limit are the open connections, and the
  gauge counts the registered ones (*Counted*, kept by facts about cardinalities);
  a request past its checks was right in everything, and what it reads is no
  older than it. `HTTPTypeOK` adds that the limit is kept.
- Credentials, `RotationApplied`: revisions tell what a job runs with. *Jobs* says that it
  runs with what is stored unless the publisher was moved or its revision has grown
  since, and *Listing* and *ReadSoFar* say the same of what a reconciliation has listed
  and of the secrets it has read so far; *Undisturbed* that while nothing was written
  since a listing, what was listed is what is stored and the jobs have its
  revisions. `CredentialsTypeOK` adds that requests and reconciliation hold what
  their next step needs.
- The in-memory value store, `ValuesAreWhole`: of the values put since a subscription,
  those the reader has got or will get are all that match it, up to the first that
  found its channel full (*GapFree*); the newest value of each tag is among them
  (*InView*), and what a subscriber has is no newer than the store (*Past*), which is
  why the next value keeps the order. A reader of one tag loses values but not
  their order: the lemma is about a channel from which the reader takes some values
  while Put drops the oldest (*OldestDropped*).

`DataProofs` has a section for each of five parts.
- Catalog, `CatalogSound`: that the edges in `tag_dependencies` are those of the tags
  that are there (*Edges*) rests on ids that are given once (*Given*) and on a tag
  under creation that nothing refers to yet (*Fresh*). For the cycles *Checked* says
  that what a check found still holds of the graph it saw; if no other save came
  between, that graph is the stored one. Reaching is given by a quantifier over closed
  sets, so a new edge is argued about without induction over paths.
- Measurement runs, `RunsSound`: the run that an overlapping request read is either still the
  active one or has an id that was passed (*Known*), so the update with its condition
  on the id archives the active run or nothing. For the exports, every row read so far is
  a whole window of the grid of its page's time zone (*Whole*), and only the last may be cut
  at its beginning (*Cut*); rows of two grids that follow one another in number miss each
  other by less than a window. That needs facts about division, which are lemmas.
- Feed, `FeedSound`: between the subscription and its end no value is missed, none
  comes twice or out of order, and it ends with an error unless the reader closed it.
  Each channel is increasing, and holds nothing that is older than the cursor of its
  source unless the first load gave it already (*TagsOK*, *BatchesOK*); every number
  that was published is delivered, or on its way, or after the end of its channel
  (*TagsCovered*, *BatchesCovered*). TLC checked the conjunction `FeedInv` on bounds
  with 2.9 million states before it was proved.
- Assets, `AssetsSound`: a request that runs alone finds at its commit what it checked
  before (*Found*), so the tree it changes is the tree it looked at; *Placed*, *Leaves* and
  `NoCycle` then say that boundaries are above their meters, that meters are leaves and
  that no asset is above itself. The ancestors are the least set closed under
  parents (`Up`), and the lemmas are about two trees that differ in one place. The
  first attempt failed on a site that was deleted and created again below another
  asset, which the service refuses; `CreateCheck` in the model now does too.
- History, `HistoryKept`: `Accounted` is inductive with the types it holds, and is shown of
  any rows and accounts (*Covers*), since a write inserts, accounts and removes in one
  transaction. `NewestKept` is an action property and rests on what the retention chooses:
  a batch that overflows the size makes every older one overflow, so the candidates
  are the oldest batches, of which a transaction takes the oldest; and the newest
  batch alone does not overflow, or `LimitTooSmall` would have refused. A cleanup judges by
  a time read before, which is never later than the clock. The sum of sizes is a
  recursive choice of the library: that such a function exists and grows
  with the set is proved by an induction over finite sets, with sets in place of
  predicates.

The assumptions are the named `ASSUME`s of the modules: bounds are natural
numbers or positive ones, there is a data type, sets of clients, publishers and
instances are finite, listeners conflict symmetrically, the three kinds of tags are
disjoint, assets begin as a tree below their site, tags of a history and of the value store are finite and a
limit that is not set is no number, triggers are no constants, the types tags have at first are data types,
the zone of a configuration puts the first window less than a window after the origin, what
can be wrong with an HTTP request is one of four things, devices belong to gateways
and datasources to devices, a period begins before it ends, a publisher's type
names the slots it needs, tags and outputs are different sources, and values that stand for
none (`Disabled`, `NoSlot`, `NoUser`, `NoClient`, `NoInstance`, `NoPluginJob`, `Off`)
are not of the set they are beside. TLC evaluates them in every run of the module.

The energy plugin has no theorem, so its assumption is a definition
that `MCServices` asserts of the instance it checks.

Only model-checked:

- Liveness (`Progress`, `Settles`, `Propagates`, `PollingEnds`, `RuntimesConverge`,
  `EverythingEnds`, `NewestReached`, `LimitRestored`), outside the
  prover's reach as is ENABLED.
- What rests on a recursive definition or on an induction over a sequence, for which
  the installed provers cannot use the library's theorems: `TagsMean` (a parser, bits
  and bytes), `CapturesTheSchedule` (calendars), `OutputsCovered` and `EnergyInOrder` (sums
  over neighbours, sorted rows), `AcceptedCanRun` (templates), and `StreamsAreWhole` (a
  stream that is filtered).

## Findings

1. **A value is dropped as stale after a change of data type**
   (`value_store_stale_row`, `LatestIsKept`). `ListLatest` hides rows whose type
   is not their tag's any more (`latest_value_repository.go:37`), so a restart
   may number new values below a hidden row. The upsert compares with the
   hidden row nevertheless, updates nothing, and reports success. The tag's
   values are not persisted until the sequence has passed the hidden number.
   The test `persistent_value_store_test.go:59` states that a value put after a
   restart is persisted.
2. **A paused datasource goes on being polled** (`device_monitor_paused`,
   `PausedIsNotPolled`). A gateway's Update stops no monitor, and a Subscribe
   that read the datasource before an update starts a monitor after it.
   `device/service_test.go:275` says that a disabled gateway, device or
   datasource is paused and refuses monitoring.
3. **A publisher keeps the secrets of its former profile** (`credential_switch`,
   `CredentialApplied`). The fingerprint of a job (`manager.go:919`) leaves out
   the credential profile, so selecting another one restarts nothing. The wizard
   says that the identity is loaded from the selected profile.
4. **A moved asset leaves its meters' boundaries behind** (`asset_boundary`,
   `BoundaryIsAncestor`). Move (`asset/service.go:240`) changes no binding, so
   one may have a boundary that is not above it, which the trigger of the table
   refuses for every binding it sees, and later saves of it fail.
5. **Two calls of Close may panic** (`stream_close`, `ClosedOnce`).
   `asset/live/reader.go:88` looks whether `done` is closed and closes it
   without a lock; the projector and the handler of the request both call it.

Behaviour that the models show and no document denies, so that it is no
finding. A property named here is stated in its module and does not hold; no
run checks it.

- Values. At shutdown a cascade still running evaluates with a cancelled context and
  puts values of bad quality, and a reconcile in progress does the same for
  datasources it cannot subscribe to; they may be persisted as the latest ones.
  A consumer that was removed is not waited for: it may put its sample, or its
  bad value, after the first value of its successor. The tags of a datasource are
  put one by one, so a calculated tag triggered by the first one reads the second as
  of the sample before. A cascade that meets its limit leaves tags behind their trigger until
  its next value. A value of a tag's old type may be put, and persisted, up to a reconcile after its type was
  changed. Sequence numbers given before a crash and not persisted
  are given again.
- Catalog and assets. Two saves of calculated tags at the same time may each pass
  the check for cycles and form one together; two requests on assets may make a
  cycle or give a total two main meters. Saving a data logger deletes its selection and
  inserts it anew, which takes the columns of its reports with it.
- Reports. Pages are read by offset (`query_repository.go:101`). When a tag is deleted whose
  value was the only one of a batch already exported, the next page skips a row
  that was there all along (`ExportMissesNothing` of `Reports`); a batch written under an export
  repeats one.
- Gateways. A Connect that read the gateway before it was disabled connects it
  (`ConnectedAsConfigured` of `Gateway`).
- Publishers. A job that a reconcile took out of the map, and did not wait for
  because its context ended, is invisible to Stop (`abandoned` in
  `PublisherManager`); the properties name the exception. When a selected tag
  is given another data type, a running publisher is not restarted (its fingerprint has the
  sources but not their types) and every later publication fails, because the samples are no longer those its
  template was compiled for; `AcceptedRenders` names this exception, values that overflow
  when rounded, and texts that get too long. A helper inside of a
  JSON string is accepted with the fixtures and may break the string for other
  values (`ValidationIsAuthoritative` of `JSONPayload`). A connection that is lost
  and back between two looks may count as lost until it is lost again
  (`ConnectionIsUsed` of `MQTTTransport`).
- Energy. A batch captured exactly at the start of a day is dropped by the
  period that is extended and counted by one that is hydrated
  (`PeriodsComplete` of `EnergyPlugin`). Every page of an export reads the
  configuration anew; where its time zone was changed in between, the rows have a gap or an overlap
  of less than a window there.
- Auth. A login that overlaps a change of the password writes the old hash back.
- Utilities. A series that begins in a repeated hour may lose an hour, one in a
  zone that changes at midnight has days that begin an hour late, and the bound on
  the points of a series also drops points from its CSV and its heat map. The
  history gives the neighbours of a period that the logger has, also when the tag has
  no sample in them.

## Not modelled

The migration runner is one loop under an advisory lock with a transaction per
migration, in which nothing interleaves; what the tables promise (foreign keys,
unique indexes, triggers) is part of the modules that use them. Hosting,
maintenance and the frontend are wiring, files, child processes and pages. Of the
modelled components these parts are left out: lists and previews that only
read, texts and their limits, exports of the energy plugin by day or week (their windows are those
of a calendar, `MeasurementRuns` has those of a fixed length, on a grid that is a constant of the configuration
where the code takes the offset of the year in which the period begins), the semantics and units of assets and utilities, the
checks of utility configurations, TLS, ciphers and wire formats. Network
libraries, net/http and the devices are external: they deliver, fail or end.
PROJECT.json lists every part with its status, and every hazard with the properties
that would notice it or the reason why none does.

## Plan

The model covers the pipeline of a value from the device to the table, to the
history, and to publishers and pages, the reconcilers, and the services an
engineer edits. The reconcilers, the value store, the feeds and the services
whose requests interleave are proved about; what is left to the model checker is
liveness and what is computed by recursion. What could follow:

1. A proof of `EnergyInOrder`, which would go on from the sums of `DataProofs`: the
   periods are sums over neighbours of what the history keeps.
2. The composition of `AcquisitionRuntime` with `DeviceMonitor` (the external
   subscription becomes the monitor's) for one datasource.
3. The update of assets.
