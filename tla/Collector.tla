----------------------------- MODULE Collector ------------------------------
(***************************************************************************)
(* The collection loop (internal/powerstore/collector.go) opened up: every *)
(* cycle runs one goroutine per array client, each a sequence of API calls *)
(* under its own deadline, and publishes one snapshot when all are back.   *)
(*                                                                         *)
(* The calls of ArrayClient (client.go, perentity.go, bulk.go) are grouped *)
(* by what their failure does: GetCluster decides whether the array is up, *)
(* everything after it is logged and skipped.  A group of calls is a stage *)
(* of the array's task; while the context is live a call may come back     *)
(* with data, at any moment the rest of the stage may fail.                *)
(***************************************************************************)
EXTENDS Naturals

CONSTANTS
    Array,        \* the array names
    Responsive,   \* the arrays that answer every call in time
    Alerting,     \* the arrays that have an active alert all along
    MaxPools,     \* bound: client sets installed, the first one included
    MaxCycles     \* cycles are told apart modulo this number

ASSUME ArrayAssumption == Responsive \subseteq Array /\ Alerting \subseteq Array
ASSUME BoundAssumption == MaxPools \in Nat \ {0} /\ MaxCycles \in Nat \ {0}

VARIABLES
    clients,      \* Collector.clients: which instances, and their names
    version,      \* ArrayClient.softwareVersion of each instance
    os,           \* environment: what each array really runs
    pc,           \* where CollectOnce and then Run are
    captured,     \* the client slice of the cycle under way
    task,         \* the goroutine of each array in the cycle under way
    group,        \* gctx was cancelled by the error group
    cancelled,    \* the context of Run was cancelled by stopCollection
    cycle,        \* number of the current or last cycle, re-used in turn
    store         \* Snapshot.PerArray of the published snapshot

vars == <<clients, version, os, pc, captured, task, group, cancelled, cycle,
          store>>

PoolId == 1..MaxPools
ClientSet == [pool : PoolId, names : (SUBSET Array) \ {{}}]
NoClients == [pool |-> 0, names |-> {}]

Stage == {"start", "cluster", "lists", "detect", "bulk", "entity", "common",
          "done"}

\* Data a task has fetched: the inventory lists, the alerts, the performance
\* of appliances and volumes by archive or by entity.  What commonMetrics asks
\* for itself decides nothing and is left out.
Kind == {"inventory", "alerts", "archive", "entity"}

\* Why a call failed is in the text of its error only.
Error == {"none", "failed"}

\* A goroutine has the client it was launched with, of a pool and for a cycle.
Task == [stage : Stage \cup {"idle"}, pool : PoolId \cup {0},
         cycle : 0..MaxCycles, expired : BOOLEAN, got : SUBSET Kind,
         bulk : BOOLEAN, err : Error]

IdleTask == [stage |-> "idle", pool |-> 0, cycle |-> 0, expired |-> FALSE,
             got |-> {}, bulk |-> FALSE, err |-> "none"]

ArraySnapshot ==
    [pool : PoolId, cycle : 1..MaxCycles, up : BOOLEAN, bulk : BOOLEAN,
     samples : SUBSET Kind, alerts : {"counted", "zero"}]

TypeOK ==
    /\ clients \in ClientSet
    /\ version \in [PoolId -> [Array -> {"unknown", "old", "bulk"}]]
    /\ os \in [Array -> {"old", "bulk"}]
    /\ pc \in {"boot", "bootcycle", "select", "cycle", "stopped"}
    /\ captured \in ClientSet \cup {NoClients}
    /\ task \in [Array -> Task]
    /\ group \in BOOLEAN
    /\ cancelled \in BOOLEAN
    /\ cycle \in 0..MaxCycles
    /\ DOMAIN store \subseteq Array
    /\ \A a \in DOMAIN store : store[a] \in ArraySnapshot

\* NewCollector over the clients of the first pool; the store is empty.
Init ==
    /\ \E S \in (SUBSET Array) \ {{}} : clients = [pool |-> 1, names |-> S]
    /\ version = [p \in PoolId |-> [a \in Array |-> "unknown"]]
    /\ os \in [Array -> {"old", "bulk"}]
    /\ pc = "boot"
    /\ captured = NoClients
    /\ task = [a \in Array |-> IdleTask]
    /\ group = FALSE
    /\ cancelled = FALSE
    /\ cycle = 0
    /\ store = [a \in {} |-> IdleTask]

Collecting == pc \in {"bootcycle", "cycle"}

-----------------------------------------------------------------------------
(* The loop.                                                               *)

\* collectAll: the clients are read once under the read lock, and every one
\* of them is to get a goroutine.
BeginCycle(next) ==
    /\ cycle' = IF cycle = MaxCycles THEN 1 ELSE cycle + 1
    /\ captured' = clients
    /\ task' = [a \in Array |->
                  IF a \in clients.names THEN [IdleTask EXCEPT !.stage = "start"]
                                         ELSE IdleTask]
    /\ group' = FALSE
    /\ pc' = next
    /\ UNCHANGED <<clients, version, os, cancelled, store>>

\* CollectOnce on the boot goroutine, before Run.
FirstCycle == pc = "boot" /\ BeginCycle("bootcycle")

\* <-ticker.C; a done context does not keep select from taking this case.
Tick == pc = "select" /\ BeginCycle("cycle")

\* Fault: a break that leaves the select and not the loop.
BreakSelect == pc = "select" /\ cancelled /\ UNCHANGED vars

\* <-ctx.Done()
Stop ==
    /\ pc = "select"
    /\ cancelled
    /\ pc' = "stopped"
    /\ UNCHANGED <<clients, version, os, captured, task, group, cancelled,
                   cycle, store>>

\* deriveAlerts emits every severity, at zero where no alert was fetched.
AlertsOf(a) ==
    IF "alerts" \in task[a].got /\ a \in Alerting THEN "counted" ELSE "zero"

\* The fetched data that reaches as.Samples.
SamplesOf(a) ==
    IF task[a].err = "none" THEN task[a].got \ {"alerts"} ELSE {}

\* The ArraySnapshot collectArray returned for a.
ResultOf(a) ==
    [pool |-> task[a].pool, cycle |-> task[a].cycle, up |-> task[a].err = "none",
     bulk |-> task[a].bulk, samples |-> SamplesOf(a),
     alerts |-> AlertsOf(a)]

\* Fault: the results are used without g.Wait().
AnyTaskDone == \E a \in captured.names : task[a].stage = "done"

\* g.Wait()
AllTasksDone == \A a \in captured.names : task[a].stage = "done"

Finished == {a \in captured.names : task[a].stage = "done"}

\* BuildSnapshot: one entry per result, results that are nil are skipped.
PerArray == [a \in Finished |-> ResultOf(a)]

\* store.Store, whether or not the context was cancelled.
Publish ==
    /\ Collecting
    /\ AllTasksDone
    /\ store' = PerArray
    /\ pc' = "select"
    /\ captured' = NoClients
    /\ task' = [a \in Array |-> IdleTask]
    /\ group' = FALSE
    /\ UNCHANGED <<clients, version, os, cancelled, cycle>>

-----------------------------------------------------------------------------
(* One array's goroutine.                                                  *)

At(a, stage) == Collecting /\ task[a].stage = stage

\* The goroutine of a starts, with the given pool's client for a; launches
\* come in no order, beside the calls of goroutines that already run.
LaunchWith(a, pool) ==
    /\ At(a, "start")
    /\ task' = [task EXCEPT ![a].stage = "cluster", ![a].pool = pool,
                           ![a].cycle = cycle]
    /\ UNCHANGED <<clients, version, os, pc, captured, group, cancelled, cycle,
                   store>>

\* Fault: the client is looked up in c.clients again.
LaunchOnCurrent(a) == LaunchWith(a, clients.pool)

\* The client is the one of the slice that collectAll read; its deadline
\* starts to run.
Launch(a) == LaunchWith(a, captured.pool)

\* The context the calls of a are made with is not done.
Live(a) ==
    /\ ~task[a].expired
    /\ ~group
    /\ ~(pc = "cycle" /\ cancelled)

\* A call of a may fail: its context is done, or the array is to blame.
MayFail(a) == Live(a) => a \notin Responsive

\* Fault: the goroutine returns its error to the group.
ReturnsError(e) == e # "none"

\* The goroutine returns nil to the group, whatever happened to the array.
CancelsGroup(e) == FALSE

Goto(a, stage) == task' = [task EXCEPT ![a].stage = stage]

\* The goroutine is done, with error e or with its samples.
Return(a, e) ==
    /\ task' = [task EXCEPT ![a].stage = "done", ![a].err = e]
    /\ group' = (group \/ CancelsGroup(e))

taskOnly == <<clients, version, os, pc, captured, cancelled, cycle, store>>

\* Fault: the array's context has no deadline of its own.
NoDeadline == FALSE

\* context.WithTimeout(ctx, c.timeout)
HasDeadline == TRUE

\* The deadline of a passes; an array that answers in time never meets it.
Expire(a) ==
    /\ HasDeadline
    /\ Collecting
    /\ task[a].stage \in Stage \ {"start", "done"}
    /\ a \notin Responsive
    /\ ~task[a].expired
    /\ task' = [task EXCEPT ![a].expired = TRUE]
    /\ UNCHANGED <<group, taskOnly>>

\* GetTopology: GetCluster answers.
ClusterAnswers(a) ==
    /\ At(a, "cluster")
    /\ Live(a)
    /\ Goto(a, "lists")
    /\ UNCHANGED <<group, taskOnly>>

\* GetTopology returns an error, and the array is down.
ClusterFails(a) ==
    /\ At(a, "cluster")
    /\ MayFail(a)
    /\ Return(a, "failed")
    /\ UNCHANGED taskOnly

\* What the calls of a stage can bring back.  Per-entity metrics are asked
\* for the appliances and volumes of the topology only.
Fetches(a) ==
    CASE task[a].stage = "lists"  -> {"inventory", "alerts"}
      [] task[a].stage = "entity" -> IF "inventory" \in task[a].got
                                     THEN {"entity"} ELSE {}
      [] OTHER -> {}

\* One of them does; the goroutines of GetTopology run side by side.
Fetch(a) ==
    /\ Collecting
    /\ Live(a)
    /\ \E k \in Fetches(a) \ task[a].got :
         task' = [task EXCEPT ![a].got = @ \cup {k}]
    /\ UNCHANGED <<group, taskOnly>>

\* Every call of the stage has returned, with data or with a logged error.
StageOver(a) == MayFail(a) \/ Fetches(a) \subseteq task[a].got

ListsDone(a) ==
    /\ At(a, "lists")
    /\ StageOver(a)
    /\ Goto(a, "detect")
    /\ UNCHANGED <<group, taskOnly>>

\* collectArray chooses the path by what BulkCapable said.
ChoosePath(a, capable) ==
    task' = [task EXCEPT ![a].bulk = capable,
                         ![a].stage = IF capable THEN "bulk" ELSE "entity"]

\* BulkCapable with the version cached from an earlier cycle.
VersionCached(a) ==
    /\ At(a, "detect")
    /\ version[task[a].pool][a] # "unknown"
    /\ ChoosePath(a, version[task[a].pool][a] = "bulk")
    /\ UNCHANGED <<group, taskOnly>>

\* BulkCapable asks the array and keeps the answer in the instance.
VersionAnswers(a) ==
    /\ At(a, "detect")
    /\ version[task[a].pool][a] = "unknown"
    /\ Live(a)
    /\ version' = [version EXCEPT ![task[a].pool][a] = os[a]]
    /\ ChoosePath(a, os[a] = "bulk")
    /\ UNCHANGED <<group, clients, os, pc, captured, cancelled, cycle, store>>

\* Fault: an undetected array is taken to be capable.
CapableIfUnknown == TRUE

\* Detection failed: the per-entity path, and nothing is cached.
CapableIfUndetected == FALSE

VersionFails(a) ==
    /\ At(a, "detect")
    /\ version[task[a].pool][a] = "unknown"
    /\ MayFail(a)
    /\ ChoosePath(a, CapableIfUndetected)
    /\ UNCHANGED <<group, taskOnly>>

\* BulkMetrics got and parsed the archive.
BulkAnswers(a) ==
    /\ At(a, "bulk")
    /\ Live(a)
    /\ task' = [task EXCEPT ![a].got = @ \cup {"archive"}, ![a].stage = "common"]
    /\ UNCHANGED <<group, taskOnly>>

\* Fault: a bulk error is returned instead of trying the other path.
BulkFailsForGood(a) ==
    /\ At(a, "bulk")
    /\ MayFail(a)
    /\ Return(a, "failed")
    /\ UNCHANGED taskOnly

\* Enable, download or parse failed: per-entity, in what is left of the time.
BulkFails(a) ==
    /\ At(a, "bulk")
    /\ MayFail(a)
    /\ Goto(a, "entity")
    /\ UNCHANGED <<group, taskOnly>>

EntityDone(a) ==
    /\ At(a, "entity")
    /\ StageOver(a)
    /\ Goto(a, "common")
    /\ UNCHANGED <<group, taskOnly>>

\* Both paths end in commonMetrics and neither returns an error from here.
CommonDone(a) ==
    /\ At(a, "common")
    /\ StageOver(a)
    /\ Return(a, "none")
    /\ UNCHANGED taskOnly

\* What the goroutine of a does when a call returns.
Step(a) ==
    \/ ClusterAnswers(a) \/ ClusterFails(a)
    \/ Fetch(a) \/ ListsDone(a)
    \/ VersionCached(a) \/ VersionAnswers(a) \/ VersionFails(a)
    \/ BulkAnswers(a) \/ BulkFails(a)
    \/ EntityDone(a) \/ CommonDone(a)

-----------------------------------------------------------------------------
(* The rest of the process, and the arrays.                                *)

\* Fault: an empty client slice is installed.
SetClientsEvenEmpty ==
    /\ pc \notin {"boot", "bootcycle"}
    /\ clients.pool < MaxPools
    /\ \E S \in SUBSET Array :
         clients' = [pool |-> clients.pool + 1, names |-> S]
    /\ UNCHANGED <<version, os, pc, captured, task, group, cancelled, cycle,
                   store>>

\* ReloadConfig hands over new instances once the collector is published.
SetClients ==
    /\ pc \notin {"boot", "bootcycle"}
    /\ clients.pool < MaxPools
    /\ \E S \in (SUBSET Array) \ {{}} :
         clients' = [pool |-> clients.pool + 1, names |-> S]
    /\ UNCHANGED <<version, os, pc, captured, task, group, cancelled, cycle,
                   store>>

\* stopCollection calls collectCancel; it does not wait for the loop.
Cancel ==
    /\ pc \in {"select", "cycle"}
    /\ ~cancelled
    /\ cancelled' = TRUE
    /\ UNCHANGED <<clients, version, os, pc, captured, task, group, cycle,
                   store>>

\* An array is upgraded to a release that has the bulk API.
Upgrade(a) ==
    /\ os[a] = "old"
    /\ os' = [os EXCEPT ![a] = "bulk"]
    /\ UNCHANGED <<clients, version, pc, captured, task, group, cancelled,
                   cycle, store>>

-----------------------------------------------------------------------------
Next ==
    \/ FirstCycle \/ Tick \/ Stop \/ Publish
    \/ \E a \in Array : Launch(a) \/ Step(a) \/ Expire(a) \/ Upgrade(a)
    \/ SetClients \/ Cancel

Spec == Init /\ [][Next]_vars

\* Timers fire, goroutines run once the call they wait for has returned, and
\* a call returns when its context is done or when its array is responsive.
\* Any other call may hang for ever.  A select whose two cases are ready may
\* take the tick although the context is done, and the next cycle disables
\* Stop: only because Go picks among ready cases at random does it not do so
\* for ever, which is strong fairness of Stop and not more.
Fairness ==
    /\ WF_vars(FirstCycle) /\ WF_vars(Tick) /\ SF_vars(Stop) /\ WF_vars(Publish)
    /\ \A a \in Array :
         /\ WF_vars(Launch(a))
         /\ WF_vars(Expire(a))
         /\ WF_vars(Step(a) /\ (Live(a) => a \in Responsive))

LiveSpec == Spec /\ Fairness

-----------------------------------------------------------------------------
(* Properties.                                                             *)

\* A responsive array is up in every snapshot that reports it, with all its
\* data and by the path its gauge tells, however slow, broken or silent the
\* others are, until the loop is cancelled: no error or deadline of a sibling
\* reaches its context ("does not affect other arrays", collector.go:100).
Isolation ==
    \A a \in DOMAIN store \cap Responsive : ~cancelled =>
        /\ store[a].up
        /\ store[a].samples =
             {"inventory", IF store[a].bulk THEN "archive" ELSE "entity"}
        /\ a \in Alerting => store[a].alerts = "counted"

\* A snapshot is the work of one cycle and one client set, although a reload
\* may replace the clients between the start of one goroutine and the next:
\* each works on the client captured for it (collector.go:91, 98), and no
\* result of an earlier cycle is merged in.
OneCycle ==
    \A a, b \in DOMAIN store :
        store[a].cycle = store[b].cycle /\ store[a].pool = store[b].pool

\* The bulk endpoint is never called on an array whose release lacks it, with
\* the version cached per instance across cycles, reloads and upgrades.
NoBulkOnOldRelease ==
    \A a \in Array : task[a].stage = "bulk" => os[a] = "bulk"

\* Only GetCluster can bring an array down: whatever fails later in the cycle,
\* the bulk download and an expired deadline included, the task ends well.
OnlyClusterIsFatal ==
    [][\A a \in Array :
         /\ task[a].stage \in Stage \ {"start", "cluster", "done"}
         /\ task'[a].stage = "done"
         => task'[a].err = "none"]_vars

\* A hanging array delays a cycle by its deadline and no longer: every cycle
\* ends and its snapshot replaces the one before.
CycleEnds == Collecting ~> ~Collecting

\* A cancelled loop ends, even out of a cycle with hanging calls and although
\* the select may prefer ticks to the done context any number of times
\* (collector.go:77).
CancelEndsLoop == cancelled ~> pc = "stopped"

\* Each snapshot shows exactly the clients its cycle captured.
Feed == INSTANCE SnapshotFeed WITH
    Client  <- PoolId \X Array,
    clients <- {clients.pool} \X clients.names,
    capture <- {captured.pool} \X captured.names,
    shown   <- {<<store[a].pool, a>> : a \in DOMAIN store}

FeedSpec == Feed!Spec
=============================================================================
