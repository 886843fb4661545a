# Verification of ui_builder_api

TLA+ models of the backend in `src/`, checked with TLC on small instances and,
where a theorem is listed, proved with TLAPS for every value of the constants.
`PROJECT.json` has the runs, the source lines each definition stands for, the
mutants that show each property can fail, the findings and the hazards.

## The system

A NestJS backend for industrial telemetry. MQTT brokers deliver packets of
values; the service maps them to reading variables, caches and stores them,
evaluates alarms, samples history, and publishes writing variables back.
MySQL is reached through Prisma, queues are BullMQ on Redis, and a cache
(Redis, or the process's memory when there is none) sits next to the database.
One Node process runs everything, so code interleaves only at `await`s, timers
and job slots; each of those is a separate step of the models.

| Part | State | Operations | Talks to | What is hard |
|---|---|---|---|---|
| Alarm evaluation (`alarm-evaluation.service.ts`, `alarm.worker.ts`) | none of its own; reads and writes `alarm_status`, `alarm_history`, cache keys | `handleBatchUpdated`, `evaluateAlarm`, `trigger` | queue `alarm-evaluation`, database, cache, event bus | two slots over one alarm, snapshots older than the write they decide, cache write after commit |
| Alarm API (`alarm-config.service.ts`) | `alarms`, `alarm_status`, `alarm_history` | create, update, remove, acknowledge (one, all, batch), cache warm-up and refresh | database, cache, event bus | races with evaluation, chunked transactions, stale cache fills |
| History storage (`scheduler.worker.ts` 58-206) | two in-memory batches, two flags | `process`, `flushHistory`, `flushUtility`, timer, shutdown hook | queue `history-storage`, database | ten slots, timer and hook around an await; loss and duplication over shutdown and crash |
| History scheduler (`history-scheduler.service.ts`) | `next_run_at`, repeatable job | `processDueVariables` every second | database, cache, queue `history-storage` | several writes in a row that may fail, ticks lost or taken twice |
| Telemetry listener (`telemetry.listener.ts`) | cache hash of live values | `handleTelemetryUpdated` | event bus, cache, two queues, dead letter file | backpressure checked before several awaits, partial failure between two queues |
| Variable update worker (`variable.worker.ts`) | in-memory batch | `process`, `flush`, timer, shutdown hook | queue `variable-update`, database | flushes that overlap and commit out of order |
| Freeze scheduler (`freeze-scheduler.service.ts`, `freeze-configuration.service.ts`) | delayed jobs, original and frozen values | start, end, sync, unsync | database, queue `freeze-scheduler`, MQTT | time windows, retries, rescheduling after failure |
| Reading and writing variables | rows, configuration caches | CRUD, updates by index, bit variables | database, cache, MQTT | read-modify-write of bits, stale caches |
| Data source (`data-source.service.ts`) | MQTT clients, topic map | connect, route, publish, reset and restore | brokers, variables | reconnect while loading, events out of order |
| Global configurations, system configuration | rows, certificates on disk | CRUD, restore, reset, backup, initialization | everything | multi-step restore with side effects outside the transaction |
| Users, authentication, reports, HTTP plumbing | rows | CRUD, tokens, queries | database | nothing concurrent of their own |

What makes each part correct, in short: an alarm's status and its log agree and
events are logged once per flip; a history sample is stored once, in its own
table, unless the process dies; a variable's row ends with its last value; a
frozen writing variable gets its old value back; caches agree with the database
when nothing is in flight or heal by themselves.

## Modules

### Alarms

`AlarmStore` holds what workers and API share: the three tables, the two kinds
of cache keys and the lane a screen shows, with one operator per transaction,
cache access and notification. `AlarmEvaluation` adds the job queue and the
slots of the worker; `pc` names the await a slot is suspended at, and its
actions follow `handleBatchUpdated` from `mget` to `Promise.all`. `AlarmConfig`
adds the requests of the alarm API the same way (`at`), `AlarmSystem` composes
both with key expiry, `clearCache()` and crashes. `AlarmJournal` is the abstract
specification: the status of an alarm moves only together with its log;
`AlarmSystem!JournalSpec` is the refinement (the tables map to themselves,
everything else to nothing).

Abstractions: names, priorities and timestamps are dropped; a history row is its
event type; the rule engine is the comparison it evaluates; an attempt of
`withRetry` that fails leaves nothing behind, so a transaction commits once or
fails for good. `VariableOf` is fixed because `update` cannot move an alarm.
Which awaits reject is the constant `Faults`. A TTL is a set of keys that may
expire at any moment. `ReuseIds` says whether clients name the id of a deleted
alarm when they create one (`CreateAlarmDto.id`).

### History storage

`HistoryStorage` models `HistoryStorageWorker`: its slots, the callbacks of its
6 s timer and the shutdown hook are processes that share the two batches and
their flags. `at` and `lane` say where a process is suspended: polling for the
flag, about to flush, in `createMany`, or after it. A shutdown stops the timer,
waits for the slots and flushes for the last time; `Exit` and `Crash` restart
the process, and each write then in flight has reached the database or has not.
BullMQ hands a stalled job out again or gives it up (`Redeliver`).
`HistoryDelivery` is the abstract specification without slots, timers and flags;
`DeliverySpec` maps the entries of a batch and those of its write in flight to
one buffer per table.

An entry is the identity of a job; a batch is a set, which `HeldOnce` justifies:
nothing is pushed that is already held.

### Telemetry

`VariableUpdate` models `VariableWorker`: its one slot, the callbacks of its
500 ms timer and the shutdown hook are processes that flush one array. There is
no flag, so flushes overlap: `Begin` takes the whole array into `writing[p]`
and the UPDATEs in flight end in any order. Values are named by the number of
the job that brought them, so that "newer" is "greater". `last`, `lost` and
`alone` record what happened to the values; no action reads them in a guard.

`Telemetry` extends it with a handler per MQTT packet, from `routeMessage` to
the end of `handleTelemetryUpdated`: `pc` names the await the handler is
suspended at, and `reply` where `handleMessage` is, which does not wait for the
listener. `Faults` names the awaits that may reject. Its worker is the one of
`VariableUpdate`, through `WorkerStep` and `Add`. The job for the alarm worker is where
`AlarmSystem` begins.

Abstractions: a packet is the set of variables it has values for; that a
variable may be skipped, and how its value is computed, is part of choosing
`Holds`; a packet that yields no values is `Ignore`. The dead letter file takes
what is written to it.

### Decoding and reading variables

`Decoding` has the pure functions a packet passes through: the three decoders,
the registry of derived functions and its parameter counts, every handler, and
`calculateReadingValue`. A float is the word of its four bytes, a text is the
number it spells. Reading a float rounds it by `toFixed(2)`, which leaves a multiple of
a quarter as it is (`Quarters`); what it makes of any other is left open, as any word.
A slice from a negative start counts from the end, as `Array.slice` does (`Slice`).
`ReadingVariables` is what messages, requests, a restore and the removal of a
configuration do to the rows of one configuration and to the cached list that messages
are decoded with: `at` names the await, `stale` records that the list is known to be
outdated (a load that a change overtook, a `del` or `clear` that rejected, a cascade of
the database, which drops no list, a request by an id of another configuration, which
drops that one's list). A message is decoded by `Decoding` with the list it has got, so
that the two are checked together.

### Writing variables

`WritingVariables` has the rows of a configuration, their bits (MBO rows) and the
two in-memory caches. A call is suspended at every await; only `$transaction` is
one step. `CreateTx` stores the bits a request lists, with the numbers and values it
gives them and the variable's value where it gives none; of a byte without a list the
code writes eight rows and deletes them in the same transaction, so that it is left
without bits. `UpdateMbo` is the toggle of a bit, to any number: it writes the bit,
reads all of them, parses what their texts make, and ends in the update of the
variable, three awaits that other calls overlap. `torn`, `missed` and `alone` record
what happened, and no guard reads them.

Abstractions: values are natural numbers of at most ten digits, and null counts as 0; a
list names a sequence number once; `isActive`, addresses and names are left out.

### History scheduler

`HistoryScheduler` models the heartbeat (a repeatable job), `processDueVariables`
from `findMany` to `addBulk`, the updates of `next_run_at` that `Promise.all`
waits for (`landing`, which stay in flight when one of them rejects), changes of
intervals, clearing of jobs, crashes and redelivered heartbeats. Time is in
seconds; a heartbeat may be arbitrarily late. A sample is its variable and its
stamp: what `HistoryStorage` takes from there is a job of its own.

### Freeze scheduler

`FreezeScheduler` composes `FreezeSchedulerService`, its worker and
`FreezeConfigurationService`: delayed jobs per mapping, handlers with their
`finally`, syncs with the immediate freeze, job removal by prefix, initialization
and reset. The clock is the second of the week (`Days` days of `Day` seconds) and
stands while something is in flight: the code takes milliseconds where windows
have minutes. `NextRun` and `InWindow` are `calculateNextRun` and
`isCurrentlyInWindow`. `excused` and `broken` record the known exceptions of the
properties.

Abstractions: whose id begins with whose is the constant `Prefixed`. The awaits that
add the two jobs of a mapping (127-151) are one step, which may reject before it or
after the first of them (`AddFewer`). What a process has read is forgotten when it is
done with it, as its locals are.

### Configurations

`GlobalConfigurations` models create, update, remove and the queries with two
caches and the certificate files. A call is a program, a sequence of steps that
end at an await; a step that throws cuts it short. The programs (`Create`,
`Update`, `Removal`, ...) are the order in which the code awaits, and the steps
say what each does to rows, files and caches. A request carries a broker, paths, and
the contents of certificates: paths go into the row as they are, contents go to disk
under the data source's own directory, and their paths into the row afterwards
(`Returned`, `SetPaths`). `DataSource` adds what a load of the configurations leaves
behind: the rows it was made from, and a client per key, which is a broker with its
credentials and the paths of the certificates. A client of an older load stays if its
address (`BrokerBase`) is some row's; the address of a host with an underscore (`Odd`) is
never found.
`SystemConfig` adds restore (with its transaction, retries and dry run), reset,
backup and `initializeSystem`, which are longer programs over the same steps, and
composes all three. `stale`, `lost` and `dirty` record the known exceptions.

Abstractions: a row is its broker and the paths of its certificates, each to a file of
some data source of the system, to elsewhere, or none; topics, variables, alarms and
freezes of a configuration come and go with its row. What is in a certificate is left
out, and one step writes all files of a request. An id is one of the table's, chosen by
the database or by the client (`Insert` throws on one that is taken); a data source has
its configuration's. A restore's open transaction keeps other writers out, as
`deleteMany` locks every row. A restore is of an uploaded document or of a JSON body,
which the `ValidationPipe` takes without contents of certificates (`Bare`).

## Runs

| Run | Shows |
|---|---|
| `alarm_race` | `StatusMatchesLog`, `CacheNeverInvents` and the refinement `JournalSpec`, with two slots, one alarm, two jobs, all seven API operations, every fault and a crash |
| `alarm_redundant` | violation: `NoRedundantTrigger` fails (finding) with the two slots of `alarm.worker.ts:6`, two batches and one alarm, no call, no fault and no crash |
| `alarm_live` | `StaleStatusHeals` under fairness, with two slots, an acknowledgement, values that may be NaN, and failing transactions and cache writes |
| `history_flush` | `OneFlushPerLane`, `BatchBounded`, `HeldOnce`, `StoredOnce`, the refinement `DeliverySpec` and, under fairness, `EveryEntrySettles` and `ShutdownEnds`, with two slots, failing writes, a shutdown, a crash and redelivery |
| `history_ticks` | `NextFollowsLast`, `StampsIncrease` and, under fairness, `DueIsSampled`: three variables, two intervals, a batch of two, a rejecting query, and a changed interval, cleared heartbeat or crash |
| `telemetry_shown` | `ShownIsKept`, `LastValueKept`, `StoppedEmpty`, `NoStaleOverwrite` and, under fairness, `LastValueSettles`, with every fault, two overlapping callbacks, a shutdown, a crash and a queue at its limit |
| `telemetry_down` | violation: `EveryPacketKept` fails (finding) when an UPDATE fails, with no other fault |
| `reading` | `ListAgrees`, `GoneFallsSilent` and the laws of the decoders and functions (`RoundTrips`, `ReadThrowsFromEnd`), with two messages and two calls or a restore in flight, cascades, requests by an id of another configuration, and a cache that may reject |
| `writing_calls` | `TypeOK`, `BitsAgree`, `ToggleAlone`, `EncodedAgrees` with two calls at a time, lists of bits in creations, any value for a bit, a reader, a reset, a crash, a switched flag and failing queries |
| `freeze_windows` | `TypeOK`, `NextRunIsNext`, `ChainAlive`, `WindowRespected` and, under fairness, `EveryWindowServed`: two mappings, the id of one beginning with the other's, two slots, every request, initialization and reset, and a rejecting query, write or add, or a crash |
| `config_calls` | `TypeOK`, `CachesAgree`, `CertsKept` and `SourcesFollow`: the initialization at the start and two calls overlap, with a rejecting or retried step; clients send contents and paths of certificates and credentials |
| `config_certs` | violation: `CertsOnDisk` fails (finding): a restore removes the certificates it has just written |

The type invariants of the alarm system, the history storage and scheduler, the update
worker, the telemetry path and the reading variables are theorems, and no run repeats
them.

Bounds. Two slots, or a slot and a request, let every pair of actors meet at every
pair of awaits. With one alarm a request has one chunk; that the chunks of a
longer list are transactions of their own is in the model (`ChunkSize`) and
covered for any number of alarms by `ImplementsJournal`. The three entries of
`history_flush` fill a batch of two behind a flush that is in flight, or leave one in the
other batch (`Loads`). Two packets meet at each await of
the listener, and a queue limit of zero makes backpressure occur. Four seconds
are two ticks of one interval of `history_ticks` and one of the other, so that
groups of one heartbeat differ, and a batch of two is smaller than the three
variables that may be due. A week of two days of two seconds has every case of
the window arithmetic: an edge now, later today, on another day, and a week
ahead; windows that touch or overlap are covered by
`NextRunAlwaysNext` and `ChainAlwaysAlive` only, and excepted in `WindowRespected`. Mappings share
nothing but slots and the removal of jobs by prefix, which is why the shorter of two
ids is there only to be unsynced (`SomeChoices`). In
`writing_calls` a byte has two bits, and the value 4 does not fit in it; creations list
no bits, bits that spell the value, bits that do not or name no value (`Default`), and
a bit of two digits behind an offset (`SomeCreates`), numbered below `Places`. The
payloads of `reading` have more than ten elements, digits that do not fill a
byte, and bytes that have their highest bit set; its variable starts three values
before the end of a message, and `ReadThrowsFromEnd` looks at every start of
-12 .. 12 (`MaxStart`), which goes beyond the longest message. `config_calls` has two
configurations and bodies with four brokers: two logins of one address, a host with an
underscore, and a socket on the first address; the bodies name no data source, no
certificate, contents, or a path to elsewhere or to a file of the system. Two calls and
the initialization meet at every await. `MaxJobs`, `MaxRequests`, `MaxCalls`, `MaxFaults`,
`MaxEvents`, `MaxResets`, `MaxCrashes` and `MaxStops` only cap how often the
environment acts. Symmetry is declared over slots, requests or calls, which the
specifications treat alike, and only in runs without liveness properties.
Deadlock is unchecked where calls are capped and the system may come to rest
(`writing_calls`, `config_calls`, `config_certs`, `history_ticks`).

What the instances leave out, and what the code breaks. Three claims of the repository
fail and are runs of their own: that redundant alarm events are prevented
(`alarm_redundant`), that no data is lost when the database is down (`telemetry_down`),
and that a restore writes the certificates (`config_certs`). The passing runs go
through the same situations, and make named exceptions instead: two slots
(`alarm_race`), failing UPDATEs and rejecting awaits of the listener
(`telemetry_shown`), ids that begin with another (`freeze_windows`, where
`freeze-scheduler.service.ts:287` calls the removal of jobs correct and `ChainAlive`
excepts the longer id), bits that a client lists at odds with the value
(`writing_calls`), paths that a client names before the file is there
(`config_calls`). All alarm runs keep `ReuseIds` FALSE: a status cached for a deleted
alarm by a request still in flight would be taken for the new alarm of that id.
`history_flush` has `EveryEntrySettles` except a worker that has stopped: the final
flush returns early while a timer's flush is in flight, and what was pushed meanwhile
stays in the batch. Which exceptions the properties make is said where they are stated,
and each is a hazard in `PROJECT.json` or below.

Fairness. Slots, requests and callbacks are weakly fair because the event loop
runs whatever is ready and an await of the database or of Redis ends, with a
result or an error. Expiry of a key that was set with a TTL is fair; in
`SystemConfig`, where only the store may have a default TTL, it is not. Clients,
telemetry, crashes, shutdowns and failures are never fair. A timer callback is
fair because the interval fires again, and so is the clock of the schedulers; a
packet's handler is fair from its first await on, its arrival is not. The shutdown
hook's final flush is fair like any other await, the call that begins it is not. The process
is restarted after a crash (`FreezeScheduler!Restart`), as the deployment does.
`alarm_live` makes only acknowledge calls: the statuses that `update` and
`initialize` cache have no TTL argument, and a stale one stays.

## What is proved

All theorems hold for any numbers of alarms, variables, intervals, slots, requests,
messages, entries and callbacks, from the named assumptions on the constants, and
where a theorem says so from a condition on them: `~ReuseIds`, without which TLC finds
`CacheNeverInvents` violated (an id used again while a request for the deleted alarm is
in flight), and `Width = 8`, the bits that a byte has.

- `AlarmSystemProofs!TypeCorrect`: `Spec => []TypeOK`. Not inductive alone: an
  acknowledgement writes `rows[r][a]`, which is a status only if the request
  has read one. The inductive invariant `IInv` adds `RowsKnown` (a request knows
  the row of every alarm it still acts on) and `StatusPerAlarm` (a status row
  exists exactly for a live alarm).
- `AlarmSystemProofs!ImplementsJournal`: `Spec => JournalSpec`. Under `IInv` the
  transactions of `trigger()` and of the acknowledge calls are `Journal!Log`
  steps (`TriggerIsLog`, `AckIsLog`), those of create and remove are
  `Journal!Create` and `Journal!Delete`, and every other step stutters.
- `AlarmSystemProofs!JournalMatchesLog` proves of the abstract journal that
  status and log agree; `LastlyInAppend` says what one more entry does to "the
  last such event". `AlarmSystemProofs!StatusAlwaysMatchesLog` transfers it to
  the system through the refinement.
- `AlarmSystemProofs!CacheNeverInventsStatus` assumes `~ReuseIds`: a status cached for
  a deleted alarm by a request still in flight would be taken for the new alarm's.
  Its invariant `BackedInv` says of every copy of a status (cache keys, what slots and
  requests have read, what they are about to cache or to show) that the log bears it
  out, and of the rows through `StatusMatchesLog`; logs only grow, so a copy that was
  right once claims nothing that did not happen.
- `HistoryStorageProofs`: `StorageTypes`, `FlushesExclude`, `EntriesHeldOnce` and
  `EntriesStoredOnce` share one inductive invariant. It adds to the three
  properties that a job is in one place (`OneJob`), that the rows of a stalled
  job's entry were written by lives of the process that have ended
  (`StalledRows`: without it, redelivery could not be bounded by the number of
  crashes), and that an idle slot runs no job and the hook flushes only when all
  slots are idle (`Life`: an orderly exit leaves no job behind to be stalled).
- `HistoryStorageProofs!BatchesBounded` counts: a batch beyond its limit has an entry
  for each call that pushed it there and waits to flush. `ImplementsDelivery`:
  `Spec => DeliverySpec`. Polling for the flag, taking the batch and the end of a
  `createMany` map to steps of one buffer per table or to none; a crash and the
  hand-out that follows map to `HistoryDelivery`'s own.
- `TelemetryProofs`: `UpdateTypes`, `LastValuesKept`, `NothingLeft` and
  `AloneInOrder`. `LastValueKept` is inductive only with `Pushed` (no variable
  has a value anywhere before one was pushed) and `Places` (a flush in flight
  has a batch, the hook flushes after the worker has closed). `NoStaleOverwrite`
  needs `Sorted`: until the first crash the queue is sorted by number, and what
  waits in it is newer than the array, the UPDATEs in flight and the table; and
  `Alone`: a flush that was never overlapped writes newer values than the table
  has. `LatestPushed` says what one more entry does to "the latest entry of a
  variable", over `Max` of the community modules.
- `Telemetry` is built from the steps of `VariableUpdate`, so that its behaviours are
  behaviours of the worker (a lemma, `PathIsWorker`, with which `PathKeepsLastValues`
  carries a theorem over). `TelemetryTypes` and `ShownAlwaysKept` add `OnItsWay`: how
  far a handler at each await has come.
- `HistorySchedulerProofs`: `SchedulerTypes`, `NextAlwaysFollows` and
  `StampsAlwaysIncrease` share one inductive invariant. `NextFollowsLast` speaks of
  the time outside of a heartbeat; within one, `NotYetMoved` says it of every
  variable until the updates begin, `Moved` that afterwards each variable found has
  its new `next_run_at` or an update in flight that brings it, and `Landings` that an
  update nobody waits for concerns excepted variables only. `Found` keeps the stamp
  of a variable ahead of its last sample: `GridBounds`, of the remainder of a
  division, is where it comes from.
- `ReadingVariablesProofs`: `ReadingTypes` and `ListAlwaysAgrees`. `ListAgrees` is
  inductive with the types: a request that changes a row is about to drop the list, and
  a list that is stored behind a change, survives a `del` that rejects, or whose rows a
  cascade or a request for another configuration changed is `stale`.
- `ReadingVariablesProofs!AlwaysRoundTrips` and `ThrowsOnlyFromEnd` are about the decoders and
  handlers, of payloads of any length whose values are bytes (`PayloadAssumption`). The
  order of texts is shown to be a strict order (`PrecedesOrders`) and the digits of a key
  to tell it from others (`TextsApart`, by strong induction over a set), so that every
  place of a sorted array has one key (`RanksApart`): sorting loses nothing, keeps up to
  ten values where they are (`SortedKeepsTen`) and gives the eleventh the third place
  (`SortedMovesEleventh`). Each byte order is its own inverse (`OrdersTurnBack`); a float
  comes back as its bytes where it is a multiple of a quarter (`Quarters`), since
  `toFixed(2)` loses nothing then, and its rounding is otherwise any float. The number of
  values the registry asks for is the handler's own (`CountsAgree`); that a slice from a
  negative start may be shorter (`SliceLength`) is the one way to make a function to read
  throw, and `FateIs` says for which starts it does.
- `FreezeSchedulerProofs`: `FreezeTypes`, `NextRunAlwaysNext`, `ChainAlwaysAlive` and
  `WindowsAlwaysRespected`, for days and weeks of any length. The first part is
  arithmetic without induction: the next run is the nearest edge (`Least`), an edge
  comes one second nearer with each second (`NextRunOfTick`), and what a window calls
  for changes at its edges only (`AtEdge`, `BetweenEdges`, for windows that do not
  meet). `Chained` says that a mapping whose chain may not end has its jobs or a
  process that will add them; `Respected` that the value of an active mapping is the
  one that is due, or a process is about to write it. No theorem assumes anything of ids:
  whichever begin with which (`Prefixed`), a mapping whose jobs went along with those of
  another is `broken` until a handler, a sync or a restart schedules it.
- `WritingVariablesProofs`: `WritingTypes` and `BitsAlwaysAgree` are stated for bytes
  of eight bits, the code's (`Width = 8`): the provers know nothing of powers. A
  transaction writes bits that spell the value (`UpdateKeeps`), or is a creation, whose
  list, of any numbers at any places, either spells it or tears the variable
  (`CreateKeeps`); of what a toggle's bits parse to, be they digits or longer numbers, it
  is enough to know that it is a number.
- `WritingVariablesProofs!EncodedAlwaysAgrees`: `EncodedAgrees` is inductive once
  every call is at an await that there is. That the call which commits then clears
  is `Moves`: no step but `Clear` takes a call away from there.
- `SystemConfigProofs`: `ConfigTypes`, `CachesAlwaysAgree`, `CertsAlwaysKept` and
  `SourcesAlwaysFollow`, for any number of processes, configurations, kinds and brokers. A
  call is a program, so that what it has yet to do is part of the state: `Owes` says what a
  program owes after a step (a change of rows drops the cached list or copy, a commit
  clears the caches, who disconnects connects again), `Keeps` that readers change nothing
  and that a restore commits or rolls back, and `Preceded` that paths are set only behind
  the write of the contents and the change of the row they are about. All survive when
  programs are joined or cut short (`Programs`, `Batches`, `Requested`), so each invariant
  need only say that somebody keeps the rest of such a program. `Base` has the types and
  `Restoring`: whoever has a transaction has only creates and its end before it. `Agree` is
  `CachesAgree` in terms of who owes a drop. `Founded` says that every row, committed or
  in a transaction, names only files that were written or that a client named first
  (`Written`), and that whoever is to set paths has their contents on disk and their
  client's paths named, or is to do both before. `Loaded` says that the sources are known
  to be outdated (`dirty`), or somebody is about to load them, or they follow; a call that
  throws between disconnecting and loading is why `Throw` sets `dirty`.

## What is only model-checked

Liveness (`StaleStatusHeals`, `EveryEntrySettles`,
`ShutdownEnds`, `LastValueSettles`, `DueIsSampled`, `GoneFallsSilent`,
`EveryWindowServed`) is out of the prover's reach and rests on TLC, and so do the
violations (`NoRedundantTrigger`, `EveryPacketKept`, `CertsOnDisk`) and `ToggleAlone`,
which asks what the digits of a text parse back to. Every other property of the passing runs is stated by a theorem. The properties of
`WritingVariables` are proved for bytes of eight bits and checked for bytes of two.

## Hazards

`PROJECT.json` lists the hazards that bear the most on the system's behaviour, with
the properties that would catch them going wrong. These came up as well:

- `alarm-config/alarm-config.service.ts:64`: initialize() and refreshAlarmCache() cache status rows read several awaits earlier, without the TTL argument: a flip in between leaves a stale status that no TTL of their own removes. (That it never heals is the lack of a guarantee; only what such a key may claim is checked.)
- `alarm-config/alarm-evaluation.service.ts:182`: wasAck comes from the snapshot: an acknowledgement that commits between the snapshot and the clearance makes the log say IO where IAO is true. (StatusMatchesLog holds because IO and IAO leave the same flags; the name of the event itself is not pinned down.)
- `alarm-config/alarm-config.service.ts:258`: acknowledgeAll() logs IA for every row it read as active; an alarm that cleared before its chunk's transaction gets an IA while inactive. (The status row stays consistent with the log; IA on an inactive alarm is what the code does.)
- `alarm-config/alarm-config.service.ts:245`: acknowledgeAll() and acknowledgeBatch() commit chunk by chunk: a chunk that fails leaves earlier ones committed and cached but never announced.
- `alarm-config/alarm.worker.ts:6`: With two slots an older batch may be evaluated after a newer one, so the alarm ends in the state of the older value. (No property: the code makes no promise about the order of jobs, and nothing in the job would let a slot tell.)
- `alarm-config/alarm-evaluation.service.ts:106`: A slot that missed caches the row it loaded after remove() has dropped the key: a deleted alarm stays in the cache. (CacheNeverInvents speaks of alarms that still have a row; a re-created id (dto.id) inherits the stale entry, which the run therefore leaves out.)
- `alarm-config/alarm-evaluation.service.ts:193`: The process dies between the commit of a trigger and its cache write: the restarted service must not lose the relation of status and log, and evaluates from the stale cache.
- `alarm-config/alarm.worker.ts:14`: A job or request that never ends would hold one of two slots for ever.
- `scheduler/scheduler.worker.ts:186`: A slot polls the flag every 50 ms: a flush that leaves the flag up would block it, the worker, and worker.close() for ever.
- `main.ts:90`: app.close() races 15 s: a shutdown that waits for a slow flush is cut off by process.exit(1), and active jobs stall and are handed out again.
- `prisma/prisma.service.ts:49`: PrismaService disconnects in onModuleDestroy, which Nest calls before onApplicationShutdown: the final flush runs on a client that has been disconnected. (Prisma reconnects lazily; whether it succeeds is outside the source, so the model only has the failing write.)
- `variables/variable.worker.ts:64`: The array is copied and reset before the await: entries pushed while the UPDATE is in flight must land in the next batch.
- `variables/variable.worker.ts:127`: A batch whose UPDATE failed three times is dropped; writing it later would put older values over newer ones.
- `variables/variable.worker.ts:55`: Fewer entries than BATCH_SIZE reach the table by the timer alone.
- `variables/telemetry.listener.ts:45`: The length of the queue is checked three awaits before the job is added: as many packets as are in flight pass one check. (The limit is a heuristic of the code; it promises no bound on the queue.)
- `variables/telemetry.listener.ts:87`: The first job is added and the second is not: the packet is in the queue and in the dead letter file. A replay of the file would write old values again. (That it is never in both is not promised: nothing in the repository reads the file.)
- `variables/reading-variables.service.ts:161`: Two packets whose variables are not cached load them at once, and a later packet that finds them cached overtakes: the update queue then holds the older values last. (The code orders nothing between packets; LastValueKept counts the order of the queue.)
- `variables/telemetry.listener.ts:34`: The listener turns events away from onModuleDestroy on, while handlers that passed the check go on adding jobs until the queue closes.
- `variables/reading-variables.service.ts:206`: INSTANT and ON_CHANGE entries are collected (206-218) and go nowhere: the event carries historyType, and the listener's historyQueue is never used. (Sequential, and visible by reading: nothing is sampled, so there is nothing to relate.)
- `variables/writing-variables.service.ts:422`: alterFlag is cached for good and no update of the configuration clears it: only RESET and a restart do. (Nothing in the repository says when a changed flag must take effect; the model has the stale flag (SwitchFlag) and its properties hold with either.)
- `variables/writing-variables.service.ts:270`: In a restore the cache is cleared before the transaction commits: a message in between caches the old list; the RESET after the commit clears it. (createWritingVariable with txClient clears at the same place; its RESET is Reset.)
- `variables/writing-variables.service.ts:189`: A creation stores the bits as they are listed, whatever the value (and the eight bits a new byte gets otherwise, 220-242, are deleted by the last statement of the same transaction, 257-259, although the comment at 253-256 says they are generated): byte and bits may say different things until an update commits. (BitsAgree excepts a list that does not spell the value (torn), and checks that nothing else parts the two and that an update mends it.)
- `variables/writing-variables.service.ts:453`: A value of 256 and more has nine digits: the bits take the last eight, BYTE refuses it and the raw value falls back on the decimal text.
- `variables/writing-variables.service.ts:377`: A bit may hold any number (of a plain variable it holds the whole value), so that a toggle joins texts such as '50' and parses them as binary: the digits up to the first that is not 0 or 1, or NaN, which the transaction rejects.
- `history-config/history-config.service.ts:32`: An interval is changed under a next_run_at that was made for the old one: the next sample is due at an old tick and stamped on the new grid, which may be behind the last stamp. (Excepted (excused) until the next sample.)
- `scheduler/history-scheduler.service.ts:133`: Grid and interval at a boundary: a heartbeat exactly on a tick must sample that tick and not the next.
- `scheduler/history-scheduler.service.ts:133`: A heartbeat that comes more than an interval late (a blocked worker has one slot) samples the last tick only; those before it are never made up for. (Stated as the code does it: next_run_at follows the last tick.)
- `scheduler/history-scheduler.service.ts:39`: In a restore RESET's handler is not awaited (system-config.service.ts:183): its clearAllJobs may remove the heartbeat that initializeSystem has just set up. (ClearJobs(FALSE) after Setup; excepted in DueIsSampled for the same reason.)
- `scheduler/scheduler.worker.ts:9`: A heartbeat whose worker died is handed out again to a process that has its own: two heartbeats in one second must not sample a tick twice.
- `history-config/dto/update-history-config.dto.ts:18`: The API documents loggingTime as "Logging time in minutes", the scheduler takes seconds (history-scheduler.service.ts:132), and so says create-reading-variable.dto.ts:97. (A unit in a description; there is no behaviour to check it against.)
- `scheduler/history-scheduler.service.ts:149`: A variable without a live value is sampled with the table's, however old. (The values of samples are not modelled.)
- `scheduler/freeze-scheduler.service.ts:198`: finally reads the mapping once more, outside of any try: if that query or an add rejects, the job fails, is removed (removeOnFail) and nothing reschedules the mapping, although the comment (197) says that rescheduling always happens. (Both faults are in the run; ChainAlive excepts such a mapping (broken) until a handler of its other edge, an update or a restart schedules it.)
- `scheduler/freeze-scheduler.service.ts:274`: The immediate freeze and the scheduling share a try: a value that cannot be written, or a job that cannot be added, leaves the mapping unscheduled, with the error logged only (278-280; at start allSettled goes on with the others, 65-73). (Both faults are in the run. Excepted in ChainAlive (broken), until the next sync, and in WindowRespected (excused) from the next edge on.)
- `common/utils/time-calculation.util.ts:57`: The last second of a window is inside (<=) for the immediate freeze, and outside for the end job that runs in it: a sync in that second freezes what the end has released, until the next end. (Excepted in WindowRespected (excused): the freeze came in no second that calls for it.)
- `scheduler/scheduler.worker.ts:31`: Two slots: where one window ends in the second the next one begins, start and end of a mapping run at once, and the later write wins. (WindowRespected leaves out windows that meet (Apart); the chain survives either order.)
- `freeze-configuration/freeze-configuration.service.ts:174`: An update of the windows adds the jobs of the new ones; the jobs of the old ones stay and fire, and write, at their own time. (WindowRespected excepts the mapping (excused) until an edge of its new windows.)
- `scheduler/freeze-scheduler.service.ts:270`: A configuration that is deactivated inside of its window loses its end job: the variable keeps the start value. (WindowRespected speaks of active mappings; a reactivation outside of the window does not release it before the next end.)
- `scheduler/freeze-scheduler.service.ts:291`: A job that a worker has taken since getJobs is locked: remove() rejects, and the jobs after it in the list stay. (Jobs that stay find their mapping gone or inactive; TakeJob leaves it alone.)
- `scheduler/freeze-scheduler.service.ts:33`: clean() removes a thousand delayed jobs, and no more: with more than 500 mappings some survive a restore that gives their ids to other mappings. (The model clears all of them; its instances are far below a thousand.)
- `freeze-configuration/freeze-configuration.service.ts:147`: An update that lists variables deletes all mappings and creates new ones: the jobs of the old ids are never removed, and nobody releases what the old mappings had frozen. (The new mappings are new elements of Mappings, which Create has; the replacement as one request is left out.)
- `global-configurations/global-configurations.service.ts:84`: Files are no part of the transaction: a dry run, and a restore that fails, overwrite the live certificates with the backup's, although the comment (system-config.service.ts:48-50) promises "No half-finished states!". (CertsKept asks whether a file is there; what is in it is left out.)
- `global-configurations/global-configurations.service.ts:296`: remove() deletes the files of a row it read two awaits before: an update in between writes certificates and finds its row gone, or they are removed under it. (A removal that takes files away under a row is excepted (lost); files that stay behind are only garbage.)
- `global-configurations/global-configurations.service.ts:131`: findAll and findOne cache what they read an await earlier, and name no time to live: a change in between leaves a copy that is wrong until the next change or until the store drops it. (Excepted in CachesAgree (stale), until dropped.)
- `global-configurations/global-configurations.service.ts:106`: create with certificates drops the list only: a reader that asked for the new id between its insert and its paths has cached a configuration without paths. (Excepted in CachesAgree (stale, by SetPaths).)
- `system-config/system-config.service.ts:52`: A restore drops the list inside of its transaction: a reader caches the old list until the commit, and it is the initialization's clear, not this one, that corrects it.
- `global-configurations/global-configurations.service.ts:276`: create, update and remove of a configuration tell DataSourceService nothing: brokers and topics stay those of the last initialization. (Excepted (dirty): no comment promises more.)
- `data-source/data-source.service.ts:72`: disconnectAll ends connected clients only, and forgets all: one that is connecting is ended by nobody and goes on reconnecting. (Whether a client is connected is left out of DataSource.)
- `data-source/data-source.service.ts:162`: The broker of a key is what stands before its first '_': a host name with an underscore is never found again, so its client is stopped as soon as it was taken over; credentials are ignored, so a client with old ones is kept beside the new one. (Excepted in SourcesFollow are the hosts with an underscore; it asks that a client's broker, not its credentials, is some row's.)
- `system-config/system-config.service.ts:41`: A restore holds the locks of every row for up to a minute: whatever fails in it, the transaction must end.
- `data-source/data-source.service.ts:92`: RESTORED, whose listener reloads the configurations, is emitted by nobody. (Dead code; a restore reloads by initializeSystem.)
- `variables/reading-variables.service.ts:118`: The upsert stands when del rejects: the caller gets an error, and the list is stale until its TTL. (ListAgrees excepts such a list (stale), and so does not catch it; GoneFallsSilent bounds it by the TTL.)
- `system-config/system-config.service.ts:75`: In a restore createReadingVariable drops the list before the commit: a message in between caches the old variables; the initialization's clear drops them, unless the process dies before.
- `data-source/decoders/hex.decoder.ts:21`: A digit that is left over is padded at its right, so that 5 becomes 0x50; a limit cuts after whole bytes.
- `const/derived-function-handlers.ts:28`: Reading puts byte i at place order[i], writing takes byte order[i] for place i: the two are inverse only because each of the four orders is its own inverse.
- `const/derived-function-handlers.ts:162`: bytesToFloat hands the texts of its bytes to setUint8, which reads '41' as forty-one and 'C8' as none. (Stated as the code does it: it reads the word only of bytes below ten.)
- `const/derived-function-handlers.ts:125`: The sign of a two-byte number lives in a shift of 32 bits.
- `variables/reading-variables.service.ts:512`: The check for enough values and the handler's own check of their number must agree for every function, start and length; a negative start, which nothing forbids, is counted from the end by slice and not by the check.
- `const/function-registry.ts:77`: BYTE_SWAP takes two values in the registry and one in its handler; HEX_TO_SIGNED_DECIMAL_*, floatToBytes* and two orders of bytesToFloat have handlers but no count, so that variables that name them are skipped; HEX_TO_DECIMAL, BYTE_TO_REAL and HEX_TO_INDEX have counts and no handler. (Modelled as they are (ParameterCount, DerivedFunctions): they are skipped, and do not throw.)

## Not modelled

Users, authentication, consumption reports, DTOs, controllers, gateways, guards,
interceptors and filters: single queries or pure I/O. Of the parts that are
modelled, `PROJECT.json` says under `components` what each leaves out: the state of
an MQTT connection (connecting, reconnecting, subscribed) and periodic publishing,
an update that replaces the variables of a freeze configuration, the delays of
`withRetry`, the shutdown of the Redis client. Real time is not modelled but in the
two schedulers: a timer may fire at any moment, and a TTL may end at any moment.

## Plan

Done: alarms, history storage and scheduler, telemetry path and update worker,
reading and writing variables, decoders and derived functions, freeze scheduler,
configurations with restore, reset and initialization; the theorems of each.

Left, in this order:

1. MQTT connections: a client that is connecting when it is replaced, or when
   RESET disconnects, with topics that are subscribed on connect.
2. The update of a freeze configuration that replaces its mappings.
3. Further questions to the modules there are: an acknowledge-all over two chunks
   with an evaluation in between (`JournalSpec` with two alarms on one variable and
   reused ids), the UPDATE of a timer callback that `process.exit` cuts off, the removal
   of jobs by prefix as a violation of its own (`freeze-scheduler.service.ts:287`).
