# A TLA+ model of pstore_exporter

`pstore_exporter` polls Dell PowerStore arrays in the background and shows what
it found in two ways: Prometheus scrapes it, an OTLP exporter pushes it. The
modules here model the life of the process from boot to exit, the loading and
reloading of its configuration, the collection loop, what it makes of the
answers of an array, and the two readers of the result. TLC checks small
instances; TLAPS proves every safety property that TLC checks, for every
instance. All paths below are relative to `src/`.

## The system

| part | state it keeps | operations | hard because |
|---|---|---|---|
| `Server` (`main.go`) | `clients`, `collector`, `collectCancel` under `s.mu`; `otlp` without a lock | `Start`, `startCollection`, `initOTLP`, `ReloadConfig`, `stopCollection`, `Shutdown` | boot runs on its own goroutine while reloads and shutdown are already possible |
| `SafeConfig` (`models/safe_config.go`) | the configuration `C` | `Get`, `ReloadConfig` | reads the old names without the lock; two reloaders; the swap comes before the rebuild that can fail |
| triggers (`config/watcher.go`) | a channel of one signal; the event queue of fsnotify | `SetupSIGHUPHandler`, `WatchConfigFile` | signals coalesce, two goroutines call the same `ReloadConfig` |
| `Collector` (`powerstore/collector.go`) | `clients`, `onCycle` under a RWMutex | `CollectOnce`, `Run`, `collectAll`, `collectArray`, `SetClients`, `SetOnCycle` | one goroutine per array, deadlines, cancellation, replacement of the clients in mid-cycle |
| `ArrayClient` (`client.go`, `perentity.go`, `bulk.go`, `capability.go`) | the cached `softwareVersion` | `GetTopology`, `BulkCapable`, `BulkMetrics`, `PerEntityMetrics`, `commonMetrics`, `Close` | some failures are fatal, most are logged and skipped; pagination; bounded fan-out |
| `SnapshotStore` (`snapshot.go`) | the current snapshot | `BuildSnapshot`, `Store`, `Load` | read while it is replaced |
| `PromCollector` (`prometheus.go`) | none | `Collect` | emits dynamic names from one loaded snapshot |
| `OTLPExporter` (`otlp.go`) | `registered` under `e.mu` | `EnsureInstruments`, callbacks, `Shutdown` | called from four goroutines; every callback loads the store for itself |
| configuration loading (`models/config.go`, `utils/`) | none; `.env` changes the environment once | decode, `ResolveSecrets`, `Validate`, `LoadDotEnv` | references, defaults and password files meet in one field; a refused file must change nothing |
| sample derivation (`derive_*.go`, `topology.go`, `metrics.go`) | none | `NewTopology`, label sets, `derive*` | two paths and any failed list must agree on what a series is called |
| tracing, logging, build info, dashboards, charts | - | - | - |

Who calls whom: `main` installs the reload triggers after `Start` has returned;
`Start` leaves two goroutines behind, the HTTP server and the boot goroutine
(`startCollection`, then `initOTLP`). The boot goroutine starts the loop
(`Collector.Run`). Either trigger runs `Server.ReloadConfig`, which calls
`SafeConfig.ReloadConfig`, builds clients, swaps them under `s.mu`, and then,
outside it, calls `SetClients`, closes the old clients and calls
`EnsureInstruments`. The loop publishes into the store and then runs the hook
that calls `EnsureInstruments` too. The readers only load the store.

What makes each part correct: a client pool is closed exactly once and not
before its replacement is in the collector's hands; the collector polls the
arrays of the current configuration; a snapshot is the work of one cycle over
one pool; a sick array takes nothing from the others; every cycle ends; a
metric name has exactly one instrument; a scrape is never rejected and shows one
snapshot whole; only usable configurations run, and an edit comes to run; a
shutdown ends and flushes. The list
of hazards, each at its line, is in `PROJECT.json`.

## Modules

| module | what it is |
|---|---|
| `Server` | process life cycle and hot reload: boot goroutine, loop, two reloaders, shutdown |
| `MCServer` | finite instances of it |
| `ServerProofs` | theorems about it |
| `SnapshotFeed` | abstract: what collection promises a reader, without cycles, tasks or deadlines |
| `Collector` | the loop opened up: a goroutine per array, stage by stage; implements `SnapshotFeed` |
| `MCCollector` | finite instances |
| `CollectorProofs` | theorems about it, the refinement included |
| `Replication` | the longest call of an array client: paged enumeration, then a bounded fan-out |
| `MCReplication` | a finite instance |
| `SequenceFacts` | lemmas: induction over sets of numbers, recursive functions, flattening, first occurrences, ranks |
| `ReplicationProofs` | theorems about `Replication` |
| `Export` | `EnsureInstruments` and its four callers; the HTTP server goroutine; every step of `Shutdown` |
| `MCExport` | a finite instance |
| `ExportProofs` | theorems about it |
| `Derive` | pure: inventory, labels and derive functions of both paths |
| `DeriveProofs` | lists, labels and series; a theorem about the samples of both paths |
| `Readers` | cycle by cycle, what a scrape and a push show of it |
| `ReadersProofs` | theorems about it |
| `MCReaders` | a finite instance: two arrays with everything an array can have |
| `ConfigLoad` | pure: from the content of the file to the configuration or an error |
| `ConfigWatch` | boot of `main`, the ways to edit a file, the events they leave, the two reloaders |
| `MCConfig` | finite instances |
| `ConfigProofs` | theorems about it |

Definitions whose comment starts with "Fault:" are not part of the
specification. Each is a plausible slip in the definition that follows it; with
it in that definition's place, TLC finds the property named in
`PROJECT.json` violated, which shows that the property depends on the code.

### Server

`hold` says which variable holds the slice `buildClients` returned:
`hold["server"]` is `s.clients`, `hold["boot"]` the local of `startCollection`,
`hold["main"]` that of `stopCollection`, `hold["sighup"]` and `hold["watcher"]`
the locals of the two `ReloadConfig` calls (`newClients` before the swap,
`oldClients` after it). `collClients` is `Collector.clients` and `loop.pool` the
slice captured by the cycle under way: references that nobody closes. `closes`
counts `Close` calls per pool. (`ArrayClient.Close` does nothing today, its
comment reserves it for cleanup; the properties about closing are about the
life cycle the code implements around it.)

`ReloadConfig` is seven steps, cut where another goroutine can come between:
read the file; read the old names (without the lock); compare and swap the
configuration; build clients; swap pools and read `s.collector` under `s.mu`;
`SetClients`; close. It begins when a reloader takes its trigger (`TakeTrigger`),
which the watcher does only while `main` serves; the file is read later, in a step
of its own. Boot is build, first cycle, `go Run`, publication. Shutdown
is: close the watcher, take the three fields, cancel, close, exit. A file that
does not load is the value `None`. `past` is history: whether a reload ran
before boot was over or beside another reload, whether a rebuild failed, and
(`late`) whether `stopCollection` took the fields while the boot or a reload still
had a pool to install. `Leaked` counts an open pool that no slot holds, and also one
that is in `s.clients` after `stopCollection` was there: nobody closes it. So
`LeakOnlyByOverlap` excludes `late`: a shutdown that meets a reload between
`buildClients` and the swap, or the boot before its publication, leaves the pool
open until the process exits.

### Collector and SnapshotFeed

`task[a]` is the goroutine of array `a`: its stage, the pool of the client it works
on and the cycle it was started in, whether its deadline has
passed, the data fetched so far, and the error (which says whether, not why). A
cycle captures the clients and then starts the goroutines one by one (`Launch`),
while `SetClients` may come between any two of them; a result is labelled with what
its own goroutine was given, not with what the cycle captured. The stages are
`GetCluster`; the
inventory and alert lists (which run side by side); release detection; the bulk
archive; per-entity metrics; the common metrics. A live call of an array may
come back with data; a call may fail when its context is done or when the array
is not one of `Responsive`. Failing to answer at all is not taking a step. A
context is done when the array's deadline has passed, when the group was
cancelled, or when `Run` was cancelled during one of its cycles. The loop is not
bounded: cycle numbers are re-used, `1..MaxCycles` in turn, so a cancelled loop may
take ticks any number of times.

`SnapshotFeed` says: the snapshot on display shows exactly the clients some
cycle captured, and captures are of clients the collector really held. The
refinement mapping pairs each array with its client instance.

### Replication

`Collector` treats what an array's calls do inside as one stage;
`Replication` opens one of them, `replicationMetrics`, which has every form
the others use. The replication rules may fail without consequence. The
sessions come page by page (`Page` is the query: sorted by id, cut by limit and
offset) until a short page, while the array creates and deletes sessions; an
error on any page takes the whole enumeration back. `task[i]` and `per[i]` are
goroutine and sample slot of item `i` of `parallelSamples`: launched in order,
at most `Limit` at a time, joined by `g.Wait` and concatenated. A sample is
named by the volume it is of. Drives and witnesses are paged by the same loop,
appliances, file systems and volume groups fetched by the same fan-out.
`stable` and `removed` are history: the sessions that were there all along, and
whether one was deleted meanwhile.

### Export

`EnsureInstruments` is load (before the lock), lock, one registration per name,
return; a registration may fail and leave the remaining names. Callers are the
boot goroutine, the hook and the `Reloaders`. A snapshot is the set of its
names. `http` is the goroutine of `ListenAndServe`, `errChan` the channel with
room for one error, `main` the program counter of `waitForShutdown` and
`Shutdown`, `expired` says that the one deadline of `Shutdown` has passed.
`past` is history. After it has set `s.otlp`, `initOTLP` reads `s.collector` in a
critical section of `s.mu` (`ReadCollector`) and installs the hook outside it
(`SetOnCycle`); `stopCollection` may come between the two. `s.otlp` is read without
a lock at `main.go:371`; the model lets that read miss a write of the boot goroutine
unless `initOTLP` found the collector: then its critical section came before the one
of `stopCollection`, which comes before the read. The flush may end with an answer,
a refusal or the deadline; its error is only logged (`main.go:373`), so what
`FlushTriedOnceFound` promises is the attempt, never the delivery. `Boot`
begins where `startCollection` has returned; a shutdown before that moment is in
`Server`. What a send on a closed channel does is the outcome `panicked`.

### Derive and Readers

In `Derive` an array is a record of what each of its API calls answers, and
`fails` the set of calls that return an error. `GetTopology` makes the inventory
of it, the label operators carry the names of `metrics.go`, and
`BulkMetrics` and `PerEntityMetrics` are the concatenation of the derive
functions as the client makes it. The field `type` of a session is its
`ResourceType`, `kind` its `Type`. Metrics that one call makes with the same
labels are one metric, named like the first (`powerstore_volume_read_iops`
stands for all the columns of its row): they share every property about series.
A call made per entity fails for all entities or for none. Values are integers;
drive wear is in hundredths. `Answers` is what an answer is taken to be: every
list is a slice, and what is asked of an entity is about that entity.
`ListedTwice` says that a list, the connections of a witness or a file of the
archive has an item twice. Filters are `Keep`, which takes the places to keep,
since a filter by predicate is a second-order operator about which nothing could
be proved.

`Readers` has one step per cycle (which array may answer what is `Inputs`), one
for the hook, and per metric name one step of a scrape or of a push. `Emits` is
the Prometheus collector's rule for samples of one series, the first stays;
`Observed` the rule of the OTLP SDK, the last stays. `reader.torn` is history: a
cycle published during the push. `SameEntities` is the premise of `PathParity`:
the two paths ask different endpoints of the array, and they can agree only where
both answer for the same entities. Every answer of the instance satisfies it.

### ConfigLoad and ConfigWatch

A field is a literal, `${VAR}` or `${VAR:-text}` (`Template`). `Load` is open,
decode, resolve, validate; since any error refuses the whole file, an error is
the one value `Failed` and the order of the checks does not show. What a file
holds when it cannot be decoded is `Missing`. `UsableArrays` is a reference
definition of what the rest of the program takes for granted of the arrays, written
without looking at `Validate`; so is `Expands` for `ResolveSecrets`. It leaves out
the collection period, of which the program takes more for granted than `Validate`
checks: `0s` parses and is accepted, and `time.NewTicker` panics on it.

In `ConfigWatch` the file is edited in place (with a torn moment in between in
which it may be a shorter valid document), by renaming, by removal, by swapping
the link of a mounted ConfigMap, or beside it by changing a password file. Each
leaves the event it leaves in fsnotify if the watcher is installed. `main` goes
from `.env` over `validateConfig` and `Start` to the SIGHUP handler and the
watcher; a SIGHUP before the handler ends the process. `silent`, `stale` and
`swapped` are history: a change left no event that reloads; which reload, or what
runs (`"run"`), is of a read of the file that another reload has read after; the last
edit swapped the link under a watcher. `run`
remembers beside the configuration the content it was loaded from.

`QuietRunsFile` and `LastEditWins` except `"run" \in stale`, because the code does
not keep them then. The file is read before the lock is taken
(`safe_config.go:46-77`), so: a SIGHUP reload reads the file; the file is edited; the
watcher reads the edit and swaps it in; the SIGHUP reload swaps in what it had
read. All is quiet and the old configuration runs, until the next edit or signal.
TLC finds this trace, 13 states long, for `QuietRunsFile` without its exception.

## Runs

Passing:

| run | question | bounds |
|---|---|---|
| `server_close` | Is every pool closed at most once and by its owner, and does anything leak without overlapping reloads? | 1 edit, 1 signal: both reloaders, boot, loop and shutdown interleave |
| `server_reload` | After serialized reloads, do collector, `s.clients` and configuration agree? Does the last edit reach `/metrics`, and the replaced pool leave it? | 2 edits, one flaky array |
| `collector` | Is a snapshot one cycle's work over one pool, although clients are replaced while goroutines start? Does a sick array take anything from a healthy one? Is the bulk path safe across cached versions and upgrades? Does the loop implement `SnapshotFeed`? | 2 arrays (one sick, one with an alert), 2 pools, any number of cycles, 2 cycle numbers |
| `collector_live` | Does every cycle end although calls may hang, and does cancellation end the loop although it may prefer ticks? | 2 arrays, 1 pool, any number of cycles |
| `replication` | Are sessions that stay reported although others come? Is a volume asked for once, are transfers complete and in item order, and does the call return? | 5 sessions on pages of 2, of 3 volumes and a volume group; 2 places |
| `export` | One instrument per name? None missing after a hook, or for ever? Does a shutdown end and try to flush, and when does it panic? | 2 names, 1 reloader, a listener that may fail once, every wait of `Shutdown` may hang |
| `readers` | Is a series unique? Does a scrape show its snapshot, whole and without duplicates? Does an untorn push agree with it? Do both paths name the same series? Do the alert counts add up? | 2 arrays with equal ids; one with 16 different answers; 2 cycles |
| `config` | Are the arrays that run usable and expanded, whatever is edited? Is what runs what the file says when all is quiet, and does the last edit come to run, unless an outdated read was swapped in last? | 5 contents, 2 environments, 2 `.env`, 2 edits of 5 kinds, 1 signal |

Runs that show a disagreement between the code and its documentation, each a
shortest counterexample:

| run | what happens |
|---|---|
| `server_boot_race` | A reload while the boot goroutine builds finds no collector; `startCollection` then overwrites its pool. The configuration lists other arrays than are polled (and the reload's pool is never closed). |
| `server_two_reloads` | Two reloads swap pools in one order and call `SetClients` in the other; the collector is left polling the pool that was closed. |
| `config_skip` | An array with a `passwordFile` runs with `insecureSkipVerify` as decoded; its `${VAR}` is not looked at, set or not. |
| `config_map` | A mounted ConfigMap changes; the event names `..data`, not the file, and the old configuration stays. |

### Bounds, and why they suffice

- `MaxEdits`, `MaxSignals` (Server): how often the environment edits the file and
  sends SIGHUP. `Pool` has at least one pool more than both together
  (`EnoughPools`, checked by TLC), so running out of pools never blocks a
  rebuild. Two overlapping reloads, a reload against boot and a reload against
  shutdown are the conflicts the code has; each fits.
- `MaxPools` (Collector): two let a cycle start on one pool, publish after another
  was installed, and be followed by a cycle on the new one. `MaxCycles` bounds no
  behaviour, only how many cycles can be told apart: two, the current one from the
  one before it, whose snapshot is the only other one there is.
- Five sessions on pages of two (Replication) make up to three pages, full and
  short last ones, and a creation or deletion on either side of the offset; one
  volume has two sessions, and three volumes contend for two places
  (`SeveralPages`, `MoreItemsThanPlaces`, checked by TLC).
- Two names (Export) let one be registered while another is missing or refused;
  one reloader beside boot and loop is three callers for one lock. Nothing is
  counted there, the loop runs for ever.
- `MaxCycles = 2` (Readers) lets a cycle publish under a scrape or push and change
  what an array answers between the two. `Inputs` has, beside the sound array,
  every list failing that another call depends on, a failed archive, lists with
  an item twice, an unknown severity, volumes in several groups, and rows of
  volumes that are not in the inventory.
- `MaxEdits = 2`, `MaxSignals = 1` (ConfigWatch): an edit may fall into each window
  of boot or into the reload of another, with a signal on the second goroutine.
  The five contents are one for each way a field can be given, with a repeated
  name that is not beside its like.

`CHECK_DEADLOCK FALSE` is set everywhere because each system may really stop:
`main` exits, the loop is stopped, and Export ends with
the process; `Replication` is one call, which returns; `Readers` has used up its
cycles; in `ConfigWatch` there may be no edit left.

## Fairness

- Server: weak fairness of each goroutine. Every blocking call it makes has a
  deadline (`NewArrayClient` and the API calls time out) and the locks are held
  for a few assignments. No edit, signal or shutdown is owed.
- Collector: the ticker and the deadlines fire, goroutines run on, and a call
  returns when its context is done or when its array is responsive. A live call
  of any other array may hang for ever; only `Expire` helps then. `Stop` is owed
  strong fairness: a `select` with both cases ready may take the tick of a done
  context, and the cycle that follows disables `Stop`, so weak fairness would let the
  loop go on for ever. Go picks among ready cases at random, so the done context is
  not passed over each time.
- Replication: every call returns, at the latest when its context's deadline has
  passed, and goroutines run on. Sessions need not come or go.
- Export: the goroutines run on, the ticker ticks, and a `sync.Mutex` is
  eventually handed to a waiter that keeps waiting (Go's mutex has a starvation
  mode for this; strong fairness is asked for the loop's calls only, since
  `NamesReachOTLP` is about them). A registration is never made to fail, but a
  name that is refused for ever is ruled out. Of the shutdown, only the deadline
  and the steps that cannot block are owed; `HttpShutdown`, the flush and the
  trace exporter are owed nothing before the deadline has passed.
- ConfigWatch: goroutines run, fsnotify delivers what it queued, an editor that
  began to write ends. No edit, signal or shutdown is owed.
- Readers: none, it has no liveness property.

## Proofs

`ServerProofs` (for all sets of arrays and pools and all bounds):

- `TypeCorrect`: `TypeOK`, with the fact that a reload between decode and swap
  holds a validated configuration.
- `PoolsOwned`: `Ownership`, the inductive invariant. `ClosedAtMostOnce` is not
  inductive: one must know that no pool is in two slots, that what is in a slot is
  open, and that a pool not yet built was not closed. Swapping under `s.mu`
  exchanges two slots, a close empties its slot, `buildClients` fills one with a
  pool that was in none. `NoDoubleClose` and `HeldPoolsAreOpen` follow.
- `LeaksNeedOverlap`: `LeakOnlyByOverlap`, with `SlotDiscipline` (a goroutine that
  fills its slot finds it empty unless reloads overlapped) as strengthening.

- `PolledPoolIsOpen`, `QuietlyAgreed` and `SkipIsHarmless`: `CollectorPoolOpen`,
  `QuietAgreement` and `SkippedRebuildIsHarmless`. `Polls` says whose clients the
  collector has at each step while the exporter serves and no reload overlapped:
  the boot goroutine's, then those of `s.clients`, and between the swap and
  `SetClients` the old ones, which the reloader still holds. All of these are
  slots, and slots hold open pools. `Names` says which pool is of the current
  names: none between the swap of the configuration and the rebuild.

They use `NoneAssumption`, `FlakyAssumption` and `BoundAssumption`.

`CollectorProofs` (for all arrays, responsive or not, and all bounds):

- `CollectorTypes` and `BulkNeedsRelease`, from the inductive invariant `IInv`:
  `TypeOK` needs to know that a cycle under way has captured a client set and
  counts from one, `NoBulkOnOldRelease` that no cached release is ahead of the
  array's (`Bookkeeping`). The steps of a goroutine come down to one lemma about
  replacing a task (`TaskStep`).
- `SnapshotsAreOneCycle`: `OneCycle`, by `Launched`: every goroutine past its start
  was given a client of the pool that its cycle captured, and that cycle's number,
  whatever `SetClients` did since. `Publish` stores what the goroutines carry, and
  needs it of all of them.
- `SickArraysAreIsolated`: `Isolation`, by `Healthy`: the group is never
  cancelled, and until the loop is, the task of a responsive array has at each of
  its stages exactly the data of the stages before (`Progress`). A step of one
  array leaves the others' tasks alone (`OthersKeep`), its own calls do not fail
  (`ResponsiveStep`), so a cycle that ends has the data `Isolation` asks for.
- `LaterStagesAreNotFatal`: `OnlyClusterIsFatal`, an action property, since of the
  steps that end a task only `CommonDone` leaves from a later stage.
- `CollectorFeeds`: `Spec => FeedSpec`. Initial states map to initial states; the
  start of a cycle, its publication and `SetClients` to the three actions of
  `SnapshotFeed`, every other step to a stutter. Publication needs from `IInv` that
  a cycle captured a client set, `AllTasksDone` that none of it is left out.

They use `ArrayAssumption` and `BoundAssumption`.

`ExportProofs` (for all names and reloaders):

- `ExportTypes`, and `RegistrationHolds` with its consequence `OneInstrument`.
  `RegisteredOnce` needs to know that whoever registers holds `e.mu`, that the
  names it has left are not registered, and that the boot goroutine and the loop
  are in one call at most; that is `Registration`.
- `HookFindsNames`: `HookCoversCycle`, by what the loop's call knows at each of
  its steps (`LoopCall`): first its names are the store's, then the store is
  covered by what is registered and what it has left, then by what is registered.
  It rests on the store not changing while the hook runs.
- `FlushIsTried`: `FlushTriedOnceFound`, by `Hooked`: who found the collector has
  set `s.otlp`, and then no path through `Shutdown` gets past the flush without
  trying it. That the endpoint took what was sent is not said.
- `PanicNeedsFailure`: `PanicOnlyOnFailure`, by `Channel`, which says what the
  sender and the closer know of each other: the channel is closed only on the way
  out, and `main` leaves `select` without a signal only when the sender is done.

They use `NobodyAssumption` and `ReloaderAssumption`.

`ReplicationProofs` (for all sets of sessions, page sizes and widths):

- `ReplicationTypes`: `TypeOK`; offsets are whole pages, and what a page adds is
  sessions (a query sorts a set of them, `Rank` is the place of one).
- `EnumerationComplete`: `StableSessionsReported`, by `BelowOffset` (while nothing
  was deleted, the sessions that were there all along and have a rank below the
  offset are listed) and `Unlisted` (nothing is reported before the last page). A
  creation moves ranks up, which keeps them; only a deletion moves them down, and
  then nothing is promised. A short page has the last rank, so that nothing is left.
- `TransfersOncePerVolume`: `OneTransferPerVolume`, by `Slots` (the volumes asked
  for are distinct, and the slot of each is empty or has its transfer) as part of
  `FanOut`. `Join` concatenates the slots, and a concatenation of slots of at most
  one element keeps their order.

They use `IdAssumption`, `VolumeAssumption` and `SizeAssumption`.

`DeriveProofs` (for all answers and all sets of failed calls) proves `SamplesSound`:
the samples of a metric have the same label names on both paths, the array's name
among them, and are of distinct series unless `ListedTwice`. `Sound` says this of
the samples of one derive function, with the metrics it may emit; it is kept by
concatenation when the metrics are others (`SoundConcat`) and by one part per item
when each part carries the key of its item as a label (`SoundKeyed`). Its lemmas
about lists hold for any sequence: a filter keeps what is at the places it
keeps, a concatenation has the elements of its parts.

`ReadersProofs` (for all arrays, answers and numbers of cycles):

- `ReadersTypes`: `TypeOK`, by `Sane`: the snapshot on display and the one the
  reader loaded are whole (`Whole`), with the names of their samples, each once, and
  sound samples.
- `ScrapesExact`: `ScrapeExact`, by `ScrapeSoFar`: what has been emitted are the
  health gauges and the samples of the names so far, each series once. Cycles do
  not touch the snapshot a scrape loaded; two names share no series; of one name
  `Emits` keeps the first of each series and, all having the same label names,
  refuses none.
- `PushesMatch`: `PushMatchesScrape`, by `PushSoFar`: unless torn, what has been
  observed is the same for the names registered so far. A registration during the
  push only appends names.
- `SeriesAreUnique`, `AllAlertsCounted` and `PathsAgree`: `SeriesUnique`,
  `AlertsCounted` and `PathParity`. `Collected` says that the snapshot is what the
  arrays gave in the last cycle, and the rest is about what one array can give:
  `SamplesSound` for the first; for the second `Tally`, which concatenation adds
  up, with the severities as a partition of the active alerts; for the third the
  series of each path as a set (`InRows`, `InAnswers`), where a row of a listed
  volume takes the appliance of the inventory and so has the labels of the other
  path.

They use `ArrayAssumption` and `InputAssumption` (an array gives answers that are
`Answers`).

`ConfigProofs` (for all contents, environments, edits and bounds):

- `ConfigTypes`: `TypeOK`.
- `OnlyLoadsRun`, the inductive invariant that whatever runs or is about to be
  swapped in is a load, not an error, of the content it remembers, in the
  environment that does not change after `.env`. `RunsUsable` and `RunsExpanded`
  follow by what `Load` guarantees of any content.
- `QuietRuns`: `QuietRunsFile`, by `Fresh`: unless a change went unheard or an
  outdated read runs, a reload whose read is not outdated (`InTime`) holds what the
  file says, or, when there is none, that is what runs; or else an event, a writer or
  a reload about to read is still there to notice (`Due`). It is preserved because an
  event that matters is only taken to begin a reload, and because of two reads the
  later one is `InTime`.

They use `MarkAssumption` and `FileAssumption`.

`SequenceFacts` stands below `Replication`, `Derive` and `Readers`. Induction is by
sets there: a set of numbers that has 0, and with n also n + 1, has all of them. It
gives that a recursive function exists and is unique (`RecursionTo`), what
`FlattenSeq` and the collection of first occurrences contain, and that ranks in a
finite set number it.

Only model-checked: the liveness properties (`ReloadTakesEffect`,
`ClosedPoolLeavesStore`, `CycleEnds`, `CancelEndsLoop`, `Returns`,
`NamesReachOTLP`, `ShutdownEnds`, `ServerErrorEnds`, `LastEditWins`), because
fairness rests on ENABLED, which is out of this prover's reach. Every invariant and
every action property of a passing run is a theorem, and so is the refinement of
`SnapshotFeed`. The four runs that show a disagreement are counterexamples, which
only TLC gives.

## Abstractions and what is left out

- A collection cycle is two steps in `Server` and opened in `Collector`; the hook
  and `EnsureInstruments` are only in `Export`.
- In `Server` a configuration is what `ConfigLoad` makes of a file: beside an
  array's name, everything an entry holds is one value of `Creds`, and every edit
  leaves an event. `ConfigWatch` takes that up where it is not so.
- YAML is not modelled: a file is the record it decodes to, or does not decode.
  Events that fsnotify loses in an overflow, and its error channel, are left out.
- In `Collector` the calls of `commonMetrics` are one stage: none of their
  failures changes the outcome. Values and labels are in `Derive`.
- The read of `s.otlp` in `ReloadConfig` is the choice whether `ReloadTail` runs.
- The archive of the bulk path (tar.gz of CSV files) is the rows it holds.
- Not modelled: `/livez` and `/readyz` answer 200 whatever happens, and `/health`
  prints `PerArray` of one loaded snapshot, so nothing can go wrong there that
  `Collector` and `Readers` do not show; `--once` is the first cycle of
  `Collector` followed by a shutdown with nothing to wait for; tracing is its
  shutdown only; logging, build info and deployment files keep no state.

Seen while modelling and not made a run: after a boot at which no client can be
built the process serves without a collector for ever (`main.go:143`, although
`main.go:245` says that startup fails); a shutdown between `go collector.Run`
and the assignment of `s.collectCancel` does not cancel the loop
(`main.go:200`); `powerstore_up` is 1 when every call after `GetCluster` failed
(`perentity.go:39`); a rebuild that fails after the configuration was swapped is
not made up for by reloading the same file again (`main.go:299`); an array whose
client could not be built stays away until the array set changes (`main.go:250`); a
reload that read the file before an edit may be swapped in after the edit was, and
stays (`safe_config.go:78`, above); a pool installed after `stopCollection` is never
closed (`main.go:203`, `main.go:304`); the alert
pages are requested without an order, so nothing follows about an alert between
two of them (`client.go:108`); a deletion between two pages can hide a session
for a cycle, and a creation can list one twice (`client.go:511`);
`powerstore_array_bulk_api` stays 1 in a cycle that fell
back (`collector.go:121`); an array in error has no samples rather than stale
ones (`collector.go:115`); a cycle that a shutdown cancels publishes its arrays
as down, and that may be what the last push sends (`collector.go:80`); edits that
keep the array names reach no client, as `docs/adr/0010-config-hot-reload.md:55`
says; a listed volume without an appliance gets the one of its row on the bulk path
and none on the other (`derive_bulk.go:47`); if only the alert list fails, the
alert series read zero, where `docs/metrics.md:139` speaks of no alerts (`client.go:214`); a push may mix two
snapshots although `docs/opentelemetry.md:19` speaks of the same one
(`otlp.go:83`), and of an item that was listed twice with different values a
scrape shows the first and a push the last (`prometheus.go:72`); a volume or
appliance list that fails takes the names out of the labels, so the series of
that cycle are new ones (`client.go:161`); an interval of `0s` passes
`Validate` and panics `time.NewTicker` (`config.go:199`); a listener error that
loses the race against a signal sends on a closed channel (`main.go:383`).

## Plan

What would come next, in order of worth:

1. `Server` with a cycle split into capture and publication at boot too, so that
   it implements `SnapshotFeed` as `Collector` does.
2. `ConfigWatch` composed with `Server`, so that a lost event and a lost hand-over meet.
3. `Replication` as one stage of `Collector`: that the call it opens implements the
   step it is there, samples and error included.
4. The derive functions as they treat values: which of two rows of one entity a
   sample has, on either path.
