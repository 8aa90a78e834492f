--------------------------- MODULE CollectorProofs ---------------------------
(* For every set of arrays, responsive or not, and any number of client    *)
(* sets and cycles: what one sick array cannot do to another, which path   *)
(* an array is asked by, and that the loop implements SnapshotFeed.        *)
EXTENDS Collector, TLAPS

\* What a cycle under way knows of itself, and what is cached of a release.
Bookkeeping ==
    /\ IF Collecting THEN captured \in ClientSet /\ cycle \in 1..MaxCycles
                     ELSE captured = NoClients
    /\ \A a \in Array : task[a].stage # "done" => task[a].err = "none"
    /\ \A p \in PoolId, a \in Array : version[p][a] = "bulk" => os[a] = "bulk"

\* A goroutine works on the client the cycle under way captured for it.
Launched ==
    \A a \in Array : task[a].stage \notin {"idle", "start"} =>
        Collecting /\ task[a].pool = captured.pool /\ task[a].cycle = cycle

IInv == TypeOK /\ Bookkeeping /\ Launched /\ NoBulkOnOldRelease

LEMMA NoClientsIsNone == NoClients \notin ClientSet
  BY DEF NoClients, ClientSet, PoolId

LEMMA InitIInv == Init => IInv
<1> SUFFICES ASSUME Init PROVE IInv
  OBVIOUS
<1>1. PICK S \in (SUBSET Array) \ {{}} : clients = [pool |-> 1, names |-> S]
  BY DEF Init
<1>2. clients \in ClientSet
  BY <1>1, BoundAssumption DEF ClientSet, PoolId
<1>3. task \in [Array -> Task]
  BY BoundAssumption DEF Init, IdleTask, Task, Error
<1>4. DOMAIN store = {}
  BY DEF Init
<1>5. TypeOK
  <2>1. version \in [PoolId -> [Array -> {"unknown", "old", "bulk"}]]
    BY DEF Init
  <2>2. /\ os \in [Array -> {"old", "bulk"}] /\ pc = "boot"
        /\ captured = NoClients
    BY DEF Init
  <2>3. group \in BOOLEAN /\ cancelled \in BOOLEAN
    BY DEF Init
  <2>4. cycle \in 0..MaxCycles
    BY BoundAssumption DEF Init
  <2>5. DOMAIN store \subseteq Array
        /\ \A a \in DOMAIN store : store[a] \in ArraySnapshot
    BY <1>4
  <2> QED
    BY <1>2, <1>3, <2>1, <2>2, <2>3, <2>4, <2>5 DEF TypeOK
<1>6. Bookkeeping /\ Launched /\ NoBulkOnOldRelease
  BY DEF Init, Bookkeeping, Launched, NoBulkOnOldRelease, Collecting, IdleTask
<1> QED
  BY <1>5, <1>6 DEF IInv

-----------------------------------------------------------------------------
(* The steps of an array's goroutine.  Each changes the task of its array  *)
(* alone, and all but VersionAnswers change nothing else.                  *)

LEMMA TaskStep ==
    ASSUME IInv, NEW a \in Array, NEW new \in Task,
           task' = [task EXCEPT ![a] = new],
           new.stage # "done" => new.err = "none",
           new.stage = "bulk" => os[a] = "bulk",
           Collecting, new.pool = captured.pool, new.cycle = cycle,
           group' \in BOOLEAN,
           UNCHANGED <<clients, os, pc, captured, cancelled, cycle, store>>,
           version' \in [PoolId -> [Array -> {"unknown", "old", "bulk"}]],
           \A p \in PoolId, b \in Array :
               version'[p][b] = "bulk" => os[b] = "bulk"
    PROVE  IInv'
<1> USE DEF IInv, TypeOK
<1>1. /\ task' \in [Array -> Task]
      /\ task'[a] = new
      /\ \A b \in Array \ {a} : task'[b] = task[b]
  OBVIOUS
<1>2. TypeOK'
  BY <1>1
<1>3. Bookkeeping'
  BY <1>1 DEF Bookkeeping, Collecting
<1>4. NoBulkOnOldRelease'
  BY <1>1 DEF NoBulkOnOldRelease
<1>5. Launched'
  BY <1>1 DEF Launched, Collecting
<1> QED
  BY <1>2, <1>3, <1>4, <1>5

\* A step sends the task to another stage, ends it, chooses its path or fetches.
LEMMA ArrayStep ==
    ASSUME IInv, NEW a \in Array, Launch(a) \/ Step(a) \/ Expire(a)
    PROVE  IInv'
<1> USE DEF IInv
<1>1. /\ task \in [Array -> Task] /\ task[a] \in Task
      /\ version \in [PoolId -> [Array -> {"unknown", "old", "bulk"}]]
      /\ os \in [Array -> {"old", "bulk"}]
      /\ group \in BOOLEAN
      /\ \A p \in PoolId, b \in Array : version[p][b] = "bulk" => os[b] = "bulk"
      /\ task[a].stage # "done" => task[a].err = "none"
  BY DEF TypeOK, Bookkeeping
<1>2. /\ Collecting => captured.pool \in PoolId /\ cycle \in 1..MaxCycles
      /\ task[a].stage \notin {"idle", "start"} =>
           /\ Collecting /\ task[a].pool = captured.pool
           /\ task[a].cycle = cycle
  BY DEF Bookkeeping, Launched, ClientSet
<1>3. ASSUME NEW s \in Stage \ {"bulk", "done"}, Goto(a, s),
             task[a].stage \notin {"idle", "start", "done"},
             UNCHANGED <<group, taskOnly>>
      PROVE  IInv'
  <2> DEFINE new == [task[a] EXCEPT !.stage = s]
  <2>1. /\ new \in Task /\ new.stage = s /\ new.err = "none"
        /\ Collecting /\ new.pool = captured.pool /\ new.cycle = cycle
    BY <1>1, <1>2, <1>3 DEF Task
  <2>2. task' = [task EXCEPT ![a] = new]
    BY <1>1, <1>3 DEF Goto
  <2> HIDE DEF new
  <2> QED
    BY <1>1, <1>3, <2>1, <2>2, TaskStep DEF taskOnly
<1>4. ASSUME NEW e \in Error, Return(a, e), UNCHANGED taskOnly,
             task[a].stage \notin {"idle", "start"}
      PROVE  IInv'
  <2> DEFINE new == [task[a] EXCEPT !.stage = "done", !.err = e]
  <2>1. /\ new \in Task /\ new.stage = "done"
        /\ Collecting /\ new.pool = captured.pool /\ new.cycle = cycle
    BY <1>1, <1>2, <1>4 DEF Task, Stage
  <2>2. task' = [task EXCEPT ![a] = new] /\ group' \in BOOLEAN
    BY <1>1, <1>4 DEF Return, CancelsGroup
  <2> HIDE DEF new
  <2> QED
    BY <1>1, <1>4, <2>1, <2>2, TaskStep DEF taskOnly
<1>5. ASSUME NEW c \in BOOLEAN, ChoosePath(a, c), c => os[a] = "bulk",
             task[a].stage = "detect",
             version' \in [PoolId -> [Array -> {"unknown", "old", "bulk"}]],
             \A p \in PoolId, b \in Array :
                 version'[p][b] = "bulk" => os[b] = "bulk",
             UNCHANGED <<group, clients, os, pc, captured, cancelled, cycle,
                         store>>
      PROVE  IInv'
  <2> DEFINE new == [task[a] EXCEPT !.bulk = c,
                                    !.stage = IF c THEN "bulk" ELSE "entity"]
  <2>1. /\ new \in Task /\ new.stage # "done" /\ new.err = "none"
        /\ new.stage = "bulk" => os[a] = "bulk"
        /\ Collecting /\ new.pool = captured.pool /\ new.cycle = cycle
    BY <1>1, <1>2, <1>5 DEF Task, Stage
  <2>2. task' = [task EXCEPT ![a] = new]
    BY <1>1, <1>5 DEF ChoosePath
  <2> HIDE DEF new
  <2> QED
    BY <1>1, <1>5, <2>1, <2>2, TaskStep
<1>6. CASE ClusterAnswers(a) \/ ListsDone(a) \/ BulkFails(a) \/ EntityDone(a)
  BY <1>3, <1>6 DEF ClusterAnswers, ListsDone, BulkFails, EntityDone, At, Stage
<1>7. CASE ClusterFails(a)
  BY <1>4, <1>7 DEF ClusterFails, At, Error
<1>8. CASE CommonDone(a)
  BY <1>4, <1>8 DEF CommonDone, At, Error
<1>9. CASE VersionCached(a)
  <2>1. Collecting /\ task[a].stage = "detect"
        /\ ChoosePath(a, version[task[a].pool][a] = "bulk")
    BY <1>9 DEF VersionCached, At
  <2>2. version[task[a].pool][a] = "bulk" => os[a] = "bulk"
    BY <1>1, <1>2, <2>1
  <2> QED
    BY <1>1, <1>5, <1>9, <2>1, <2>2 DEF VersionCached, taskOnly
<1>10. CASE VersionAnswers(a)
  <2>1. /\ Collecting /\ task[a].stage = "detect"
        /\ version' = [version EXCEPT ![task[a].pool][a] = os[a]]
        /\ ChoosePath(a, os[a] = "bulk")
    BY <1>10 DEF VersionAnswers, At
  <2>2. version' \in [PoolId -> [Array -> {"unknown", "old", "bulk"}]]
    BY <1>1, <1>2, <2>1
  <2>3. \A p \in PoolId, b \in Array : version'[p][b] = "bulk" => os[b] = "bulk"
    BY <1>1, <1>2, <2>1
  <2> QED
    BY <1>1, <1>5, <1>10, <2>1, <2>2, <2>3 DEF VersionAnswers
<1>11. CASE VersionFails(a)
  BY <1>1, <1>5, <1>11 DEF VersionFails, At, CapableIfUndetected, taskOnly
<1>12. CASE Fetch(a)
  <2>1. PICK k \in Fetches(a) \ task[a].got :
           task' = [task EXCEPT ![a].got = @ \cup {k}]
    BY <1>12 DEF Fetch
  <2>2. k \in Kind /\ task[a].stage \in {"lists", "entity"}
    BY <2>1 DEF Fetches, Kind
  <2> DEFINE new == [task[a] EXCEPT !.got = @ \cup {k}]
  <2>3. /\ new \in Task /\ new.stage \in {"lists", "entity"}
        /\ new.err = "none"
        /\ Collecting /\ new.pool = captured.pool /\ new.cycle = cycle
    BY <1>1, <1>2, <2>2 DEF Task
  <2>4. task' = [task EXCEPT ![a] = new]
    BY <1>1, <2>1
  <2> HIDE DEF new
  <2> QED
    BY <1>1, <1>12, <2>3, <2>4, TaskStep DEF Fetch, taskOnly
<1>13. CASE BulkAnswers(a)
  <2> DEFINE new == [task[a] EXCEPT !.got = @ \cup {"archive"},
                                    !.stage = "common"]
  <2>1. task[a].stage = "bulk"
    BY <1>13 DEF BulkAnswers, At
  <2>2. /\ new \in Task /\ new.stage # "bulk" /\ new.err = "none"
        /\ Collecting /\ new.pool = captured.pool /\ new.cycle = cycle
    BY <1>1, <1>2, <2>1 DEF Task, Kind, Stage
  <2>3. task' = [task EXCEPT ![a] = new]
    BY <1>1, <1>13 DEF BulkAnswers
  <2>4. UNCHANGED <<group, taskOnly>>
    BY <1>13 DEF BulkAnswers
  <2> HIDE DEF new
  <2> QED
    BY <1>1, <2>2, <2>3, <2>4, TaskStep DEF taskOnly
<1>14. CASE Expire(a)
  <2> DEFINE new == [task[a] EXCEPT !.expired = TRUE]
  <2>1. /\ task[a].stage \notin {"idle", "start", "done"}
        /\ task[a].stage = "bulk" => os[a] = "bulk"
    BY <1>14 DEF Expire, NoBulkOnOldRelease, Stage
  <2>2. /\ new \in Task /\ new.stage = task[a].stage /\ new.err = "none"
        /\ Collecting /\ new.pool = captured.pool /\ new.cycle = cycle
    BY <1>1, <1>2, <2>1 DEF Task
  <2>3. task' = [task EXCEPT ![a] = new]
    BY <1>1, <1>14 DEF Expire
  <2> HIDE DEF new
  <2> QED
    BY <1>1, <1>14, <2>1, <2>2, <2>3, TaskStep DEF Expire, taskOnly
<1>15. CASE Launch(a)
  <2> DEFINE new == [task[a] EXCEPT !.stage = "cluster",
                                    !.pool = captured.pool, !.cycle = cycle]
  <2>1. Collecting /\ task[a].stage = "start"
    BY <1>15 DEF Launch, LaunchWith, At
  <2>2. /\ new \in Task /\ new.stage = "cluster" /\ new.err = "none"
        /\ new.pool = captured.pool /\ new.cycle = cycle
    <3>1. "cluster" \in Stage \cup {"idle"} /\ cycle \in 0..MaxCycles
      BY DEF Stage, TypeOK
    <3>2. captured.pool \in PoolId \cup {0} /\ task[a].err = "none"
      BY <1>1, <1>2, <2>1
    <3> QED
      BY <1>1, <3>1, <3>2 DEF Task
  <2>3. task' = [task EXCEPT ![a] = new]
    BY <1>1, <1>15 DEF Launch, LaunchWith
  <2>4. UNCHANGED <<clients, version, os, pc, captured, group, cancelled, cycle,
                    store>>
    BY <1>15 DEF Launch, LaunchWith
  <2> HIDE DEF new
  <2> QED
    BY <1>1, <2>1, <2>2, <2>3, <2>4, TaskStep
<1> QED
  BY <1>6, <1>7, <1>8, <1>9, <1>10, <1>11, <1>12, <1>13, <1>14, <1>15 DEF Step

-----------------------------------------------------------------------------
(* The steps of the loop and of the rest of the process.                   *)

LEMMA BeginStep ==
    ASSUME IInv, FirstCycle \/ Tick
    PROVE  IInv'
<1> USE DEF IInv
<1>1. /\ cycle' = IF cycle = MaxCycles THEN 1 ELSE cycle + 1
      /\ captured' = clients /\ group' = FALSE
      /\ pc' \in {"bootcycle", "cycle"}
      /\ UNCHANGED <<clients, version, os, cancelled, store>>
  BY DEF FirstCycle, Tick, BeginCycle
<1>2. task' = [a \in Array |->
                 IF a \in clients.names THEN [IdleTask EXCEPT !.stage = "start"]
                                        ELSE IdleTask]
  BY DEF FirstCycle, Tick, BeginCycle
<1>3. \A a \in Array : /\ task'[a] \in Task
                       /\ task'[a].stage \in {"start", "idle"}
                       /\ task'[a].err = "none"
  <2> DEFINE started == [IdleTask EXCEPT !.stage = "start"]
  <2>1. IdleTask \in Task /\ IdleTask.stage = "idle" /\ IdleTask.err = "none"
    BY BoundAssumption DEF Task, IdleTask, Error
  <2>2. started \in Task /\ started.stage = "start" /\ started.err = "none"
    <3>1. "start" \in Stage \cup {"idle"}
      BY DEF Stage
    <3> QED
      BY <2>1, <3>1 DEF Task, IdleTask
  <2>3. task' = [a \in Array |->
                   IF a \in clients.names THEN started ELSE IdleTask]
    BY <1>2
  <2> HIDE DEF started
  <2> QED
    BY <2>1, <2>2, <2>3
<1>4. task' \in [Array -> Task]
  BY <1>2, <1>3
<1>5. cycle' \in 1..MaxCycles
  BY <1>1, BoundAssumption DEF TypeOK
<1>6. TypeOK'
  <2>1. cycle' \in 0..MaxCycles
    BY <1>5, BoundAssumption
  <2> QED
    BY <1>1, <1>4, <2>1 DEF TypeOK
<1>7. Bookkeeping'
  BY <1>1, <1>3, <1>5 DEF TypeOK, Bookkeeping, Collecting
<1>8. NoBulkOnOldRelease' /\ Launched'
  BY <1>3 DEF NoBulkOnOldRelease, Launched
<1> QED
  BY <1>6, <1>7, <1>8

LEMMA PublishStep ==
    ASSUME IInv, Publish
    PROVE  IInv'
<1> USE DEF IInv
<1>1. /\ Collecting /\ store' = PerArray /\ pc' = "select"
      /\ captured' = NoClients /\ group' = FALSE
      /\ task' = [a \in Array |-> IdleTask]
      /\ UNCHANGED <<clients, version, os, cancelled, cycle>>
  BY DEF Publish
<1>2. captured \in ClientSet /\ cycle \in 1..MaxCycles
  BY <1>1 DEF Bookkeeping
<1>3. IdleTask \in Task /\ IdleTask.stage = "idle" /\ IdleTask.err = "none"
  BY BoundAssumption DEF Task, IdleTask, Error
<1>4. DOMAIN store' = Finished /\ Finished \subseteq Array
  BY <1>1, <1>2 DEF PerArray, Finished, ClientSet
<1>5. ASSUME NEW a \in Finished PROVE store'[a] \in ArraySnapshot
  <2>1. /\ task[a] \in Task
        /\ task[a].pool = captured.pool /\ task[a].cycle = cycle
    BY <1>4 DEF TypeOK, Launched, Finished
  <2>2. SamplesOf(a) \in SUBSET Kind /\ AlertsOf(a) \in {"counted", "zero"}
    BY <2>1 DEF SamplesOf, AlertsOf, Task
  <2>3. ResultOf(a) \in ArraySnapshot
    BY <1>2, <2>1, <2>2 DEF ResultOf, ArraySnapshot, Task, ClientSet
  <2> QED
    BY <1>1, <2>3 DEF PerArray
<1>6. TypeOK'
  BY <1>1, <1>3, <1>4, <1>5 DEF TypeOK
<1>7. Bookkeeping'
  BY <1>1, <1>3 DEF Bookkeeping, Collecting
<1>8. NoBulkOnOldRelease' /\ Launched'
  BY <1>1, <1>3 DEF NoBulkOnOldRelease, Launched
<1> QED
  BY <1>6, <1>7, <1>8

LEMMA OtherStep ==
    ASSUME IInv, Stop \/ SetClients \/ Cancel \/ \E a \in Array : Upgrade(a)
    PROVE  IInv'
<1> USE DEF IInv
<1>1. CASE Stop
  BY <1>1 DEF Stop, TypeOK, Bookkeeping, Launched, Collecting, NoBulkOnOldRelease
<1>2. CASE SetClients
  <2>1. clients' \in ClientSet
    BY <1>2, BoundAssumption DEF SetClients, TypeOK, ClientSet, PoolId
  <2> QED
    BY <1>2, <2>1
       DEF SetClients, TypeOK, Bookkeeping, Launched, Collecting, NoBulkOnOldRelease
<1>3. CASE Cancel
  BY <1>3 DEF Cancel, TypeOK, Bookkeeping, Launched, Collecting, NoBulkOnOldRelease
<1>4. ASSUME NEW a \in Array, Upgrade(a) PROVE IInv'
  <2>1. os' \in [Array -> {"old", "bulk"}]
        /\ \A b \in Array : os[b] = "bulk" => os'[b] = "bulk"
    BY <1>4 DEF Upgrade, TypeOK
  <2> QED
    BY <1>4, <2>1
       DEF Upgrade, TypeOK, Bookkeeping, Launched, Collecting, NoBulkOnOldRelease
<1> QED
  BY <1>1, <1>2, <1>3, <1>4

LEMMA NextIInv == IInv /\ [Next]_vars => IInv'
<1> SUFFICES ASSUME IInv, [Next]_vars PROVE IInv'
  OBVIOUS
<1>1. CASE UNCHANGED vars
  BY <1>1 DEF vars, IInv, TypeOK, Bookkeeping, Launched, Collecting, NoBulkOnOldRelease
<1> QED
  BY <1>1, ArrayStep, BeginStep, PublishStep, OtherStep DEF Next

\* Every reachable state of the loop and of its tasks is well typed; every
\* published result is of a client set and a cycle that there were.
THEOREM CollectorTypes == Spec => []TypeOK
  BY InitIInv, NextIInv, PTL DEF Spec, IInv

\* The cached release is never ahead of the array's, since it is asked of the
\* array and arrays are only upgraded: no array without the bulk endpoint is
\* asked for an archive (client.go:543).
THEOREM BulkNeedsRelease == Spec => []NoBulkOnOldRelease
  BY InitIInv, NextIInv, PTL DEF Spec, IInv

\* Every goroutine launched in a cycle works on the client captured for it,
\* whatever is installed between two launches (Launched); so all entries of a
\* snapshot are of one cycle and one client set (collector.go:90, 98).
THEOREM SnapshotsAreOneCycle == Spec => []OneCycle
<1>1. Init => OneCycle
  BY DEF Init, OneCycle
<1>2. ASSUME IInv, OneCycle, [Next]_vars PROVE OneCycle'
  <2>1. CASE Publish
    <3>1. \A a \in DOMAIN store' :
            store'[a].cycle = cycle /\ store'[a].pool = captured.pool
      <4>1. captured \in ClientSet
        BY <1>2, <2>1 DEF Publish, IInv, Bookkeeping
      <4>2. \A a \in Finished :
              task[a].pool = captured.pool /\ task[a].cycle = cycle
        BY <1>2, <4>1 DEF IInv, Launched, Finished, ClientSet
      <4> QED
        BY <2>1, <4>2 DEF Publish, PerArray, ResultOf
    <3> QED
      BY <3>1 DEF OneCycle
  <2>2. UNCHANGED store \/ Publish
    BY <1>2 DEF Next, vars, FirstCycle, Tick, BeginCycle, Stop, Launch,
       LaunchWith, Step,
       ClusterAnswers, ClusterFails, Fetch, ListsDone, VersionCached,
       VersionAnswers, VersionFails, BulkAnswers, BulkFails, EntityDone,
       CommonDone, Expire, Upgrade, SetClients, Cancel, taskOnly
  <2> QED
    BY <1>2, <2>1, <2>2 DEF OneCycle
<1>3. IInv /\ OneCycle /\ [Next]_vars => OneCycle'
  BY <1>2
<1> QED
  BY <1>1, <1>3, InitIInv, NextIInv, PTL DEF Spec

-----------------------------------------------------------------------------
(* A responsive array, as long as the loop is not cancelled.               *)

\* What the goroutine of a responsive array has fetched at each stage.
Progress(a) ==
    LET t == task[a]
        lists == {"inventory", "alerts"}
    IN  /\ ~t.expired
        /\ t.err = "none"
        /\ t.stage \in {"start", "cluster", "lists"} => t.got \subseteq lists
        /\ t.stage \in {"detect", "bulk", "entity", "common", "done"} =>
             lists \subseteq t.got
        /\ t.stage \in {"detect", "bulk"} => t.got = lists
        /\ t.stage = "bulk" => t.bulk
        /\ t.stage = "entity" => ~t.bulk /\ t.got \subseteq lists \cup {"entity"}
        /\ t.stage \in {"common", "done"} =>
             t.got = lists \cup {IF t.bulk THEN "archive" ELSE "entity"}

Healthy ==
    /\ ~group
    /\ ~cancelled => \A a \in Responsive : Progress(a)
    /\ Isolation

LEMMA InitHealthy == Init => Healthy
  BY ArrayAssumption DEF Init, Healthy, Progress, IdleTask, Isolation

\* A step of one goroutine leaves the others alone, and never cancels the group.
LEMMA OthersKeep ==
    ASSUME IInv, Healthy, NEW a \in Array,
           Launch(a) \/ Step(a) \/ Expire(a)
    PROVE  /\ ~group'
           /\ \A b \in Array \ {a} : task'[b] = task[b]
           /\ UNCHANGED <<store, cancelled>>
<1>1. task \in [Array -> Task]
  BY DEF IInv, TypeOK
<1>2. \A b \in Array \ {a} : task'[b] = task[b]
  BY <1>1 DEF Step, ClusterAnswers, ClusterFails, Fetch, ListsDone,
     VersionCached, VersionAnswers, VersionFails, BulkAnswers, BulkFails,
     EntityDone, CommonDone, Expire, Launch, LaunchWith, Goto, Return,
     ChoosePath
<1>3. ~group
  BY DEF Healthy
<1>4. CASE ClusterFails(a) \/ CommonDone(a)
  <2>1. UNCHANGED <<store, cancelled>>
    BY <1>4 DEF ClusterFails, CommonDone, taskOnly
  <2>2. \E e : group' = (group \/ CancelsGroup(e))
    BY <1>4, Zenon DEF ClusterFails, CommonDone, Return
  <2>3. ~group'
    BY <1>3, <2>2, Zenon DEF CancelsGroup
  <2> QED
    BY <1>2, <2>1, <2>3
<1>5. CASE \/ ClusterAnswers(a) \/ Fetch(a) \/ ListsDone(a)
           \/ VersionCached(a) \/ VersionAnswers(a) \/ VersionFails(a)
           \/ BulkAnswers(a) \/ BulkFails(a) \/ EntityDone(a) \/ Expire(a)
           \/ Launch(a)
  <2>1. UNCHANGED <<group, store, cancelled>>
    BY <1>5 DEF ClusterAnswers, Fetch, ListsDone, VersionCached,
       VersionAnswers, VersionFails, BulkAnswers, BulkFails, EntityDone,
       Expire, Launch, LaunchWith, taskOnly
  <2>2. ~group'
    BY <1>3, <2>1
  <2> QED
    BY <1>2, <2>1, <2>2
<1> QED
  BY <1>4, <1>5 DEF Step

\* A call of a responsive array does not fail, so its stages are the good ones.
LEMMA ResponsiveStep ==
    ASSUME IInv, Healthy, ~cancelled, NEW a \in Responsive,
           Launch(a) \/ Step(a) \/ Expire(a)
    PROVE  Progress(a)'
<1>1. a \in Array /\ task \in [Array -> Task] /\ task[a] \in Task
  BY ArrayAssumption DEF IInv, TypeOK
<1>2. Progress(a) /\ Live(a) /\ ~MayFail(a)
  BY DEF Healthy, Progress, Live, MayFail
<1> USE DEF Progress, Task, Kind
<1>3. CASE ClusterAnswers(a)
  BY <1>1, <1>2, <1>3 DEF ClusterAnswers, At, Goto
<1>4. CASE ListsDone(a)
  BY <1>1, <1>2, <1>4 DEF ListsDone, At, Goto, StageOver, Fetches
<1>5. CASE VersionCached(a)
  BY <1>1, <1>2, <1>5 DEF VersionCached, At, ChoosePath
<1>6. CASE VersionAnswers(a)
  BY <1>1, <1>2, <1>6 DEF VersionAnswers, At, ChoosePath
<1>7. CASE BulkAnswers(a)
  BY <1>1, <1>2, <1>7 DEF BulkAnswers, At
<1>8. CASE EntityDone(a)
  BY <1>1, <1>2, <1>8 DEF EntityDone, At, Goto, StageOver, Fetches
<1>9. CASE CommonDone(a)
  BY <1>1, <1>2, <1>9 DEF CommonDone, At, Return
<1>10. CASE Fetch(a)
  <2>1. PICK k \in Fetches(a) \ task[a].got :
           task' = [task EXCEPT ![a].got = @ \cup {k}]
    BY <1>10 DEF Fetch
  <2>2. \/ task[a].stage = "lists" /\ k \in {"inventory", "alerts"}
        \/ task[a].stage = "entity" /\ k = "entity"
    BY <2>1 DEF Fetches
  <2> QED
    BY <1>1, <1>2, <2>1, <2>2
<1>11. CASE ClusterFails(a) \/ VersionFails(a) \/ BulkFails(a) \/ Expire(a)
  BY <1>2, <1>11 DEF ClusterFails, VersionFails, BulkFails, Expire
<1>12. CASE Launch(a)
  BY <1>1, <1>2, <1>12 DEF Launch, LaunchWith, At
<1> QED
  BY <1>3, <1>4, <1>5, <1>6, <1>7, <1>8, <1>9, <1>10, <1>11, <1>12 DEF Step

LEMMA HealthyStep ==
    ASSUME IInv, Healthy, [Next]_vars
    PROVE  Healthy'
<1>1. ASSUME NEW a \in Array, Launch(a) \/ Step(a) \/ Expire(a)
      PROVE  Healthy'
  <2>1. ASSUME ~cancelled', NEW b \in Responsive PROVE Progress(b)'
    <3>1. ~cancelled /\ b \in Array
      BY <1>1, <2>1, OthersKeep, ArrayAssumption
    <3>2. CASE b = a
      BY <1>1, <3>1, <3>2, ResponsiveStep
    <3>3. CASE b # a
      BY <1>1, <3>1, <3>3, OthersKeep DEF Healthy, Progress
    <3> QED
      BY <3>2, <3>3
  <2>2. Isolation'
    BY <1>1, OthersKeep DEF Healthy, Isolation
  <2> QED
    BY <1>1, <2>1, <2>2, OthersKeep DEF Healthy
<1>2. CASE FirstCycle \/ Tick
  <2>1. /\ ~group' /\ UNCHANGED <<store, cancelled>>
        /\ task' = [a \in Array |->
                      IF a \in clients.names
                      THEN [IdleTask EXCEPT !.stage = "start"] ELSE IdleTask]
    BY <1>2 DEF FirstCycle, Tick, BeginCycle
  <2>2. \A a \in Responsive : Progress(a)'
    BY <2>1, ArrayAssumption DEF Progress, IdleTask
  <2> QED
    BY <2>1, <2>2 DEF Healthy, Isolation
<1>3. CASE Publish
  <2>1. /\ ~group' /\ UNCHANGED cancelled /\ store' = PerArray
        /\ task' = [a \in Array |-> IdleTask]
    BY <1>3 DEF Publish
  <2>2. \A a \in Responsive : Progress(a)'
    BY <2>1, ArrayAssumption DEF Progress, IdleTask
  <2>3. ASSUME ~cancelled, NEW a \in Finished \cap Responsive
        PROVE  /\ store'[a].up
               /\ store'[a].samples =
                    {"inventory", IF store'[a].bulk THEN "archive" ELSE "entity"}
               /\ a \in Alerting => store'[a].alerts = "counted"
    <3>1. Progress(a) /\ task[a].stage = "done"
      BY <2>3 DEF Healthy, Finished
    <3>2. store'[a] = ResultOf(a)
      BY <2>1 DEF PerArray
    <3>3. task[a].err = "none"
          /\ task[a].got = {"inventory", "alerts"}
                             \cup {IF task[a].bulk THEN "archive" ELSE "entity"}
      BY <3>1 DEF Progress
    <3>4. SamplesOf(a) =
            {"inventory", IF task[a].bulk THEN "archive" ELSE "entity"}
      BY <3>3 DEF SamplesOf
    <3>5. a \in Alerting => AlertsOf(a) = "counted"
      BY <3>3 DEF AlertsOf
    <3>6. store'[a].bulk = task[a].bulk
      BY <3>2 DEF ResultOf
    <3>7. /\ store'[a].samples = SamplesOf(a)
          /\ store'[a].alerts = AlertsOf(a)
      BY <3>2 DEF ResultOf
    <3>8. store'[a].up
      <4>1. ResultOf(a).up = (task[a].err = "none")
        BY Zenon DEF ResultOf
      <4>2. store'[a].up = (task[a].err = "none")
        BY <3>2, <4>1, Zenon
      <4>3. (task[a].err = "none") = TRUE
        BY <3>3
      <4>4. store'[a].up = TRUE
        BY <4>2, <4>3, Zenon
      <4> QED
        BY <4>4, Zenon
    <3>9. store'[a].samples =
            {"inventory", IF store'[a].bulk THEN "archive" ELSE "entity"}
      BY <3>4, <3>6, <3>7, Zenon
    <3>10. a \in Alerting => store'[a].alerts = "counted"
      BY <3>5, <3>7, Zenon
    <3> QED
      BY <3>8, <3>9, <3>10, Zenon
  <2>4. DOMAIN store' = Finished
    BY <2>1 DEF PerArray
  <2>5. Isolation'
    BY <2>1, <2>3, <2>4 DEF Isolation
  <2> QED
    BY <2>1, <2>2, <2>5 DEF Healthy
<1>4. CASE Stop \/ SetClients \/ (\E a \in Array : Upgrade(a))
  BY <1>4 DEF Stop, SetClients, Upgrade, Healthy, Progress, Isolation
<1>5. CASE Cancel
  BY <1>5 DEF Cancel, Healthy, Isolation
<1>6. CASE UNCHANGED vars
  BY <1>6 DEF vars, Healthy, Progress, Isolation
<1> QED
  BY <1>1, <1>2, <1>3, <1>4, <1>5, <1>6 DEF Next

\* No array, by failing or by hanging, takes a sample from a responsive one
\* or sends it to the other path (collector.go:100).
THEOREM SickArraysAreIsolated == Spec => []Isolation
<1>1. Healthy => Isolation
  BY DEF Healthy
<1>2. IInv /\ Healthy /\ [Next]_vars => Healthy'
  BY HealthyStep
<1> QED
  BY <1>1, <1>2, InitIInv, InitHealthy, NextIInv, PTL DEF Spec

\* After GetCluster nothing a call does makes the array count as down
\* (perentity.go:13, client.go:556): a later stage ends without an error.
THEOREM LaterStagesAreNotFatal == Spec => OnlyClusterIsFatal
<1>1. ASSUME IInv, Next, NEW a \in Array,
             task[a].stage \in Stage \ {"start", "cluster", "done"},
             task'[a].stage = "done"
      PROVE  task'[a].err = "none"
  <2>1. task \in [Array -> Task]
    BY <1>1 DEF IInv, TypeOK
  <2>2. CASE \E b \in Array : Launch(b) \/ Step(b) \/ Expire(b)
    <3>1. PICK b \in Array : Launch(b) \/ Step(b) \/ Expire(b)
      BY <2>2
    <3>2. CASE b # a
      BY <1>1, <2>1, <3>1, <3>2 DEF Step, ClusterAnswers, ClusterFails, Fetch,
         ListsDone, VersionCached, VersionAnswers, VersionFails, BulkAnswers,
         BulkFails, EntityDone, CommonDone, Expire, Launch, LaunchWith, Goto,
         Return, ChoosePath
    <3>3. CASE b = a /\ CommonDone(a)
      BY <2>1, <3>3 DEF CommonDone, Return
    <3>4. ~ClusterFails(a)
      BY <1>1 DEF ClusterFails, At
    <3>5. CASE /\ b = a
               /\ \/ ClusterAnswers(a) \/ ListsDone(a) \/ BulkAnswers(a)
                  \/ BulkFails(a) \/ EntityDone(a)
      BY <1>1, <2>1, <3>5 DEF ClusterAnswers, ListsDone, BulkAnswers,
         BulkFails, EntityDone, Goto, Task
    <3>6. CASE b = a /\ (Fetch(a) \/ Expire(a))
      BY <1>1, <2>1, <3>6 DEF Fetch, Expire, Task
    <3>7. CASE /\ b = a
               /\ VersionCached(a) \/ VersionAnswers(a) \/ VersionFails(a)
      <4>1. \E c : ChoosePath(a, c)
        BY <3>7 DEF VersionCached, VersionAnswers, VersionFails
      <4>2. task'[a].stage \in {"bulk", "entity"}
        BY <2>1, <4>1 DEF ChoosePath, Task
      <4> QED
        BY <1>1, <4>2
    <3>8. ~Launch(a)
      BY <1>1 DEF Launch, LaunchWith, At
    <3> QED
      BY <3>1, <3>2, <3>3, <3>4, <3>5, <3>6, <3>7, <3>8 DEF Step
  <2>3. CASE FirstCycle \/ Tick \/ Publish
    BY <1>1, <2>3 DEF FirstCycle, Tick, BeginCycle, Publish, IdleTask
  <2>4. CASE Stop \/ SetClients \/ Cancel \/ (\E b \in Array : Upgrade(b))
    BY <1>1, <2>4 DEF Stop, SetClients, Cancel, Upgrade
  <2> QED
    BY <1>1, <2>2, <2>3, <2>4 DEF Next
<1>2. IInv /\ [Next]_vars
        => [\A a \in Array :
              /\ task[a].stage \in Stage \ {"start", "cluster", "done"}
              /\ task'[a].stage = "done"
              => task'[a].err = "none"]_vars
  BY <1>1
<1> QED
  BY <1>2, InitIInv, NextIInv, PTL DEF Spec, OnlyClusterIsFatal

-----------------------------------------------------------------------------
(* Refinement.                                                             *)

LEMMA FeedInit == Init => Feed!Init
<1> SUFFICES ASSUME Init PROVE Feed!Init
  OBVIOUS
<1>1. PICK S \in (SUBSET Array) \ {{}} : clients = [pool |-> 1, names |-> S]
  BY DEF Init
<1>2. {clients.pool} \X clients.names \in SUBSET (PoolId \X Array)
  BY <1>1, BoundAssumption DEF PoolId
<1>3. {captured.pool} \X captured.names = {}
  BY DEF Init, NoClients
<1>4. {<<store[a].pool, a>> : a \in DOMAIN store} = {}
  BY DEF Init
<1> QED
  BY <1>2, <1>3, <1>4 DEF Feed!Init

LEMMA FeedStep ==
    ASSUME IInv, [Next]_vars
    PROVE  [Feed!Next]_Feed!feedVars
<1> USE DEF Feed!feedVars
<1>1. clients \in ClientSet /\ clients.names # {}
  BY DEF IInv, TypeOK, ClientSet
<1>2. CASE FirstCycle \/ Tick
  <2>1. /\ captured = NoClients /\ captured' = clients
        /\ UNCHANGED <<clients, store>>
    BY <1>2 DEF IInv, Bookkeeping, Collecting, FirstCycle, Tick, BeginCycle
  <2>2. {captured.pool} \X captured.names = {}
    BY <2>1 DEF NoClients
  <2>3. {clients.pool} \X clients.names # {}
    <3>1. PICK n : n \in clients.names
      BY <1>1
    <3>2. <<clients.pool, n>> \in {clients.pool} \X clients.names
      BY <3>1
    <3> QED
      BY <3>2
  <2>4. Feed!Begin
    BY <2>1, <2>2, <2>3 DEF Feed!Begin
  <2> QED
    BY <2>4 DEF Feed!Next
<1>3. CASE Publish
  <2>1. /\ store' = PerArray /\ captured' = NoClients /\ UNCHANGED clients
        /\ Finished = captured.names /\ captured \in ClientSet
    BY <1>3 DEF Publish, AllTasksDone, Finished, IInv, Bookkeeping
  <2>2. {captured'.pool} \X captured'.names = {}
    BY <2>1 DEF NoClients
  <2>3. captured.names # {}
    BY <2>1 DEF ClientSet
  <2>4. {captured.pool} \X captured.names # {}
    <3>1. PICK n : n \in captured.names
      BY <2>3
    <3>2. <<captured.pool, n>> \in {captured.pool} \X captured.names
      BY <3>1
    <3> QED
      BY <3>2
  <2>5. DOMAIN store' = captured.names
        /\ \A a \in captured.names : store'[a].pool = captured.pool
    <3>1. \A a \in Finished :
            a \in Array /\ task[a].stage = "done"
      BY <2>1 DEF Finished, ClientSet
    <3>2. \A a \in Finished : task[a].pool = captured.pool
      BY <3>1 DEF IInv, Launched
    <3> QED
      BY <2>1, <3>2 DEF PerArray, ResultOf
  <2>6. {<<store'[a].pool, a>> : a \in DOMAIN store'}
          = {captured.pool} \X captured.names
    BY <2>5
  <2>7. Feed!Publish
    BY <2>1, <2>2, <2>4, <2>6 DEF Feed!Publish
  <2> QED
    BY <2>7 DEF Feed!Next
<1>4. CASE SetClients
  <2>1. clients' \in ClientSet /\ UNCHANGED <<captured, store>>
    BY <1>4, BoundAssumption DEF SetClients, IInv, TypeOK, ClientSet, PoolId
  <2>2. {clients'.pool} \X clients'.names \in SUBSET (PoolId \X Array)
    BY <2>1 DEF ClientSet
  <2>3. Feed!Install
    BY <2>1, <2>2 DEF Feed!Install
  <2> QED
    BY <2>3 DEF Feed!Next
<1>5. ASSUME UNCHANGED <<clients, captured, store>>
      PROVE  UNCHANGED Feed!feedVars
  BY <1>5
<1>6. CASE \/ Stop \/ Cancel
           \/ \E a \in Array :
                Launch(a) \/ Step(a) \/ Expire(a) \/ Upgrade(a)
  BY <1>5, <1>6 DEF Stop, Cancel, Launch, LaunchWith, Step, ClusterAnswers, ClusterFails, Fetch,
     ListsDone, VersionCached, VersionAnswers, VersionFails, BulkAnswers,
     BulkFails, EntityDone, CommonDone, Expire, Upgrade, taskOnly
<1>7. CASE UNCHANGED vars
  BY <1>5, <1>7 DEF vars
<1> QED
  BY <1>2, <1>3, <1>4, <1>6, <1>7 DEF Next

\* The loop implements SnapshotFeed: what is on display is whole and of clients
\* that some cycle captured, for any number of arrays, reloads and cycles.
THEOREM CollectorFeeds == Spec => FeedSpec
<1>1. IInv /\ [Next]_vars => [Feed!Next]_Feed!feedVars
  BY FeedStep
<1> QED
  BY <1>1, FeedInit, InitIInv, NextIInv, PTL DEF Spec, FeedSpec, Feed!Spec
=============================================================================
