------------------------------- MODULE Server -------------------------------
(***************************************************************************)
(* The life cycle of the exporter process (main.go): the boot goroutine    *)
(* that builds the first client pool, the collection loop, the two         *)
(* goroutines that run Server.ReloadConfig (SIGHUP and the file watcher),  *)
(* and the main goroutine that shuts everything down.                      *)
(*                                                                         *)
(* A client pool is the slice buildClients returns.  It is one value of    *)
(* Pool, so that who may close it can be told apart from who still uses    *)
(* it: `hold' says which variable of the program the slice is in at the    *)
(* moment (s.clients, or a local of one goroutine), `collClients' and      *)
(* loop.pool are the Collector's own references to it.                     *)
(*                                                                         *)
(* A whole collection cycle is one capture and one publication here;       *)
(* Collector.tla opens it.  The OTLP tail of ReloadConfig, initOTLP and    *)
(* the exporters touch no variable of this module; see Export.tla.         *)
(***************************************************************************)
EXTENDS Naturals

CONSTANTS
    Arrays,      \* array names a configuration may list
    Flaky,       \* the arrays whose login may fail when a client is built
    Creds,       \* what else an entry holds: endpoint, user, password
    Pool,        \* identities of client pools; its size bounds the rebuilds
    None,        \* nil slice, pool never built, file that does not load
    MaxEdits,    \* bound: how often the configuration file is edited
    MaxSignals   \* bound: how often SIGHUP is sent

\* A configuration as Validate accepts it: at least one array, unique names.
Config == UNION {[S -> Creds] : S \in (SUBSET Arrays) \ {{}}}

BuiltPool == [from : Config, usable : (SUBSET Arrays) \ {{}}]

ASSUME NoneAssumption ==
    /\ None \notin Pool
    /\ None \notin Config
    /\ None \notin BuiltPool

ASSUME FlakyAssumption == Flaky \subseteq Arrays

ASSUME BoundAssumption == MaxEdits \in Nat /\ MaxSignals \in Nat

\* The goroutines that call Server.ReloadConfig.
Reloaders == {"sighup", "watcher"}

\* Where a pool can be held: s.clients, and a local variable of the boot
\* goroutine, of stopCollection, and of each ReloadConfig call.
Slot == {"server", "boot", "main"} \cup Reloaders

VARIABLES
    file,         \* what the configuration file holds: a Config, or None
    cfg,          \* SafeConfig.C
    built,        \* what each pool was built from, None before it is
    hold,         \* Slot -> the pool held there, or None
    closes,       \* how often the clients of each pool have been closed
    collector,    \* s.collector and s.collectCancel are set
    collClients,  \* Collector.clients
    loop,         \* the goroutine in Collector.Run
    boot,         \* the goroutine in startCollection
    reload,       \* the ReloadConfig call of each reloader
    main,         \* the main goroutine
    store,        \* the pool the current snapshot was collected from
    pending,      \* reload triggers not yet taken up
    budget,       \* edits and signals the environment may still make
    past          \* history: reloads that overlapped, failed or came late

vars == <<file, cfg, built, hold, closes, collector, collClients, loop, boot,
          reload, main, store, pending, budget, past>>

poolVars == <<built, hold, closes>>
envVars  == <<file, pending, budget>>

Idle == [pc |-> "idle", new |-> None, names |-> {}, pool |-> None,
         running |-> FALSE]

LoopState == [pc : {"absent", "select", "cycle", "stopped"},
              pool : Pool \cup {None}, cancelled : BOOLEAN]

BootState == [pc : {"build", "cycle", "launch", "publish", "done", "failed"},
              cfg : Config]

ReloadCall == [pc : {"idle", "read", "compare", "swapcfg", "rebuild", "swappool",
                     "handover", "close"},
               new : Config \cup {None}, names : SUBSET Arrays,
               pool : Pool \cup {None}, running : BOOLEAN]

MainState == [pc : {"serve", "stop", "cancel", "close", "exporters", "exited"},
              cancel : BOOLEAN]

\* Between the decode and the swap, newCfg is a validated configuration.
HoldsNewConfig ==
    \A r \in Reloaders :
        reload[r].pc \in {"compare", "swapcfg"} => reload[r].new # None

TypeOK ==
    /\ file \in Config \cup {None}
    /\ cfg \in Config
    /\ built \in [Pool -> BuiltPool \cup {None}]
    /\ hold \in [Slot -> Pool \cup {None}]
    /\ closes \in [Pool -> Nat]
    /\ collector \in BOOLEAN
    /\ collClients \in Pool \cup {None}
    /\ loop \in LoopState
    /\ boot \in BootState
    /\ reload \in [Reloaders -> ReloadCall]
    /\ HoldsNewConfig
    /\ main \in MainState
    /\ store \in Pool \cup {None}
    /\ pending \in [Reloaders -> Nat]
    /\ budget \in [edits : 0..MaxEdits, signals : 0..MaxSignals]
    /\ past \in [overlap : BOOLEAN, failed : BOOLEAN, late : BOOLEAN]

\* main() validates the file it starts from; Start has captured cfg and
\* returned, and main has installed both reload triggers.
Init ==
    /\ cfg \in Config
    /\ file = cfg
    /\ built = [p \in Pool |-> None]
    /\ hold = [s \in Slot |-> None]
    /\ closes = [p \in Pool |-> 0]
    /\ collector = FALSE
    /\ collClients = None
    /\ loop = [pc |-> "absent", pool |-> None, cancelled |-> FALSE]
    /\ boot = [pc |-> "build", cfg |-> cfg]
    /\ reload = [r \in Reloaders |-> Idle]
    /\ main = [pc |-> "serve", cancel |-> FALSE]
    /\ store = None
    /\ pending = [r \in Reloaders |-> 0]
    /\ budget = [edits |-> MaxEdits, signals |-> MaxSignals]
    /\ past = [overlap |-> FALSE, failed |-> FALSE, late |-> FALSE]

\* Nothing runs once main has returned.
Alive == main.pc # "exited"

\* The identity of the next slice buildClients returns; which one is no matter.
Unbuilt == {p \in Pool : built[p] = None}

NextPool == CHOOSE p \in Unbuilt : TRUE

\* Fault: the check that at least one client was built is missing.
BuildsEvenEmpty(c, s) ==
    /\ Unbuilt # {}
    /\ \E usable \in SUBSET DOMAIN c :
         /\ DOMAIN c \ Flaky \subseteq usable
         /\ built' = [built EXCEPT ![NextPool] = [from |-> c, usable |-> usable]]
    /\ hold' = [hold EXCEPT ![s] = NextPool]

\* buildClients(c) returns a new slice into slot s: NewArrayClient worked for
\* the arrays of usable, the others were logged and skipped.
Builds(c, s) ==
    /\ Unbuilt # {}
    /\ \E usable \in (SUBSET DOMAIN c) \ {{}} :
         /\ DOMAIN c \ Flaky \subseteq usable
         /\ built' = [built EXCEPT ![NextPool] = [from |-> c, usable |-> usable]]
    /\ hold' = [hold EXCEPT ![s] = NextPool]

\* buildClients(c) returns an error: no client could be built.
BuildFails(c) == DOMAIN c \subseteq Flaky

\* Fault: only added names count.
NameSetsCovered(a, b) == b \subseteq a

\* The array set is compared by name, whatever else the entries hold.
NameSetsEqual(a, b) == a = b

\* Fault: the slice is dropped and not closed.
ClosesNothing(s) ==
    /\ closes' = closes
    /\ hold' = [hold EXCEPT ![s] = None]

\* for _, c := range clients { c.Close() }, over the slice held in slot s.
Closes(s) ==
    /\ closes' = [p \in Pool |-> IF p = hold[s] THEN closes[p] + 1
                                                ELSE closes[p]]
    /\ hold' = [hold EXCEPT ![s] = None]

-----------------------------------------------------------------------------
(* The environment edits the file and sends SIGHUP.                        *)

\* Every write leaves an event for the watcher; a half-written, missing or
\* invalid file is None.
EditFile ==
    /\ Alive
    /\ budget.edits > 0
    /\ \E f \in (Config \cup {None}) \ {file} : file' = f
    /\ budget' = [budget EXCEPT !.edits = @ - 1]
    /\ pending' = [pending EXCEPT !["watcher"] = @ + 1]
    /\ UNCHANGED <<cfg, poolVars, collector, collClients, loop, boot, reload,
                   main, store, past>>

\* signal.Notify never blocks: the channel holds one signal, others are lost.
SendSighup ==
    /\ Alive
    /\ budget.signals > 0
    /\ budget' = [budget EXCEPT !.signals = @ - 1]
    /\ pending' = [pending EXCEPT !["sighup"] = 1]
    /\ UNCHANGED <<file, cfg, poolVars, collector, collClients, loop, boot,
                   reload, main, store, past>>

-----------------------------------------------------------------------------
(* The boot goroutine: startCollection on the configuration Start captured. *)

\* buildClients and NewCollector.
BootBuild ==
    /\ Alive
    /\ boot.pc = "build"
    /\ Builds(boot.cfg, "boot")
    /\ collClients' = NextPool
    /\ boot' = [boot EXCEPT !.pc = "cycle"]
    /\ UNCHANGED <<cfg, closes, collector, loop, reload, main, store, past,
                   envVars>>

\* buildClients failed: Start's goroutine logs the error and returns.
BootFail ==
    /\ Alive
    /\ boot.pc = "build"
    /\ BuildFails(boot.cfg)
    /\ boot' = [boot EXCEPT !.pc = "failed"]
    /\ UNCHANGED <<cfg, poolVars, collector, collClients, loop, reload, main,
                   store, past, envVars>>

\* The initial synchronous CollectOnce.
BootCycle ==
    /\ Alive
    /\ boot.pc = "cycle"
    /\ store' = collClients
    /\ boot' = [boot EXCEPT !.pc = "launch"]
    /\ UNCHANGED <<cfg, poolVars, collector, collClients, loop, reload, main,
                   past, envVars>>

\* go collector.Run(loopCtx)
BootLaunch ==
    /\ Alive
    /\ boot.pc = "launch"
    /\ loop' = [loop EXCEPT !.pc = "select"]
    /\ boot' = [boot EXCEPT !.pc = "publish"]
    /\ UNCHANGED <<cfg, poolVars, collector, collClients, reload, main, store,
                   past, envVars>>

\* s.clients, s.collector and s.collectCancel are assigned under s.mu, over
\* whatever they held.
BootPublish ==
    /\ Alive
    /\ boot.pc = "publish"
    /\ hold' = [hold EXCEPT !["server"] = hold["boot"], !["boot"] = None]
    /\ collector' = TRUE
    /\ boot' = [boot EXCEPT !.pc = "done"]
    /\ UNCHANGED <<cfg, built, closes, collClients, loop, reload, main, store,
                   past, envVars>>

Boot == BootBuild \/ BootFail \/ BootCycle \/ BootLaunch \/ BootPublish

-----------------------------------------------------------------------------
(* The collection loop.                                                    *)

\* Fault: Run captures the clients once, before its loop.
TickOnFirstPool ==
    /\ Alive
    /\ loop.pc = "select"
    /\ loop' = [loop EXCEPT !.pc = "cycle", !.pool = store]
    /\ UNCHANGED <<cfg, poolVars, collector, collClients, boot, reload, main,
                   store, past, envVars>>

\* The ticker fires; select may take it even when the context is done too.
\* collectAll reads Collector.clients once, under the read lock.
Tick ==
    /\ Alive
    /\ loop.pc = "select"
    /\ loop' = [loop EXCEPT !.pc = "cycle", !.pool = collClients]
    /\ UNCHANGED <<cfg, poolVars, collector, collClients, boot, reload, main,
                   store, past, envVars>>

\* The cycle is over and its snapshot stored, cancelled or not.
PublishCycle ==
    /\ Alive
    /\ loop.pc = "cycle"
    /\ store' = loop.pool
    /\ loop' = [loop EXCEPT !.pc = "select", !.pool = None]
    /\ UNCHANGED <<cfg, poolVars, collector, collClients, boot, reload, main,
                   past, envVars>>

\* <-ctx.Done()
LoopStop ==
    /\ Alive
    /\ loop.pc = "select"
    /\ loop.cancelled
    /\ loop' = [loop EXCEPT !.pc = "stopped"]
    /\ UNCHANGED <<cfg, poolVars, collector, collClients, boot, reload, main,
                   store, past, envVars>>

Loop == Tick \/ PublishCycle \/ LoopStop

-----------------------------------------------------------------------------
(* Server.ReloadConfig, run by reloader r.                                 *)

\* r works on a configuration it has read.
Reloading(r) == reload[r].pc \notin {"idle", "read"}

\* r may still put a pool into s.clients.
MayInstall(r) == reload[r].pc \in {"compare", "swapcfg", "rebuild", "swappool"}

\* So may the boot goroutine.
Booting == boot.pc \notin {"done", "failed"}

\* stopCollection has taken what it will close.
Stopped == main.pc \notin {"serve", "stop"}

\* <-sighup, or <-watcher.Events.  Shutdown closes the watcher, and a closed
\* one delivers nothing; what was delivered before is still reloaded.
TakeTrigger(r) ==
    /\ Alive
    /\ reload[r].pc = "idle"
    /\ pending[r] > 0
    /\ r = "watcher" => main.pc = "serve"
    /\ pending' = [pending EXCEPT ![r] = @ - 1]
    /\ reload' = [reload EXCEPT ![r] = [Idle EXCEPT !.pc = "read"]]
    /\ UNCHANGED <<file, cfg, poolVars, collector, collClients, loop, boot,
                   main, store, budget, past>>

\* r reads the file: stat, open, decode, resolve, validate.  A file that does
\* not load ends the call.
LoadFile(r) ==
    /\ Alive
    /\ reload[r].pc = "read"
    /\ reload' = [reload EXCEPT ![r] =
                    IF file = None THEN Idle
                    ELSE [Idle EXCEPT !.pc = "compare", !.new = file]]
    /\ past' = [past EXCEPT
         !.overlap = \/ @
                     \/ file # None /\ \/ boot.pc # "done"
                                       \/ \E q \in Reloaders : Reloading(q),
         !.late = @ \/ (file # None /\ Stopped)]
    /\ UNCHANGED <<cfg, poolVars, collector, collClients, loop, boot, main,
                   store, envVars>>

\* Fault: the old names are read when the new configuration is already in.
CompareNamesAfterSwap(r) ==
    /\ Alive
    /\ reload[r].pc = "compare"
    /\ reload' = [reload EXCEPT ![r].pc = "swapcfg",
                                ![r].names = DOMAIN reload[r].new]
    /\ UNCHANGED <<cfg, poolVars, collector, collClients, loop, boot, main,
                   store, past, envVars>>

\* The old names are read from sc.C before the lock is taken.
CompareNames(r) ==
    /\ Alive
    /\ reload[r].pc = "compare"
    /\ reload' = [reload EXCEPT ![r].pc = "swapcfg", ![r].names = DOMAIN cfg]
    /\ UNCHANGED <<cfg, poolVars, collector, collClients, loop, boot, main,
                   store, past, envVars>>

\* Under the lock the configuration is swapped in, whatever the comparison
\* says; the call ends here when the names are the same.
SwapConfig(r) ==
    /\ Alive
    /\ reload[r].pc = "swapcfg"
    /\ cfg' = reload[r].new
    /\ reload' = [reload EXCEPT ![r] =
                    IF NameSetsEqual(reload[r].names, DOMAIN reload[r].new)
                    THEN Idle ELSE [Idle EXCEPT !.pc = "rebuild"]]
    /\ UNCHANGED <<poolVars, collector, collClients, loop, boot, main, store,
                   past, envVars>>

\* buildClients(s.cfg.Get())
RebuildPool(r) ==
    /\ Alive
    /\ reload[r].pc = "rebuild"
    /\ Builds(cfg, r)
    /\ reload' = [reload EXCEPT ![r].pc = "swappool", ![r].pool = NextPool]
    /\ UNCHANGED <<cfg, closes, collector, collClients, loop, boot, main,
                   store, past, envVars>>

\* No client could be built: the error returns, cfg stays swapped.
RebuildFail(r) ==
    /\ Alive
    /\ reload[r].pc = "rebuild"
    /\ BuildFails(cfg)
    /\ reload' = [reload EXCEPT ![r] = Idle]
    /\ past' = [past EXCEPT !.failed = TRUE]
    /\ UNCHANGED <<cfg, poolVars, collector, collClients, loop, boot, main,
                   store, envVars>>

\* Fault: s.clients is not assigned.
SwapPoolKeepsOld(r) ==
    /\ Alive
    /\ reload[r].pc = "swappool"
    /\ hold' = [hold EXCEPT ![r] = hold["server"]]
    /\ reload' = [reload EXCEPT ![r].pc = "handover", ![r].running = collector]
    /\ UNCHANGED <<cfg, built, closes, collector, collClients, loop, boot, main,
                   store, past, envVars>>

\* Under s.mu: newClients goes into s.clients, the old slice comes out, and
\* s.collector is read.
SwapPool(r) ==
    /\ Alive
    /\ reload[r].pc = "swappool"
    /\ hold' = [hold EXCEPT !["server"] = hold[r], ![r] = hold["server"]]
    /\ reload' = [reload EXCEPT ![r].pc = "handover", ![r].running = collector]
    /\ UNCHANGED <<cfg, built, closes, collector, collClients, loop, boot, main,
                   store, past, envVars>>

\* Fault: the collector is not told.
HandOverSkipped(r) ==
    /\ Alive
    /\ reload[r].pc = "handover"
    /\ reload' = [reload EXCEPT ![r].pc = "close"]
    /\ UNCHANGED <<cfg, poolVars, collector, collClients, loop, boot, main,
                   store, past, envVars>>

\* collector.SetClients(newClients), if there was a collector.
HandOver(r) ==
    /\ Alive
    /\ reload[r].pc = "handover"
    /\ collClients' = IF reload[r].running THEN reload[r].pool ELSE collClients
    /\ reload' = [reload EXCEPT ![r].pc = "close"]
    /\ UNCHANGED <<cfg, poolVars, collector, loop, boot, main, store, past,
                   envVars>>

\* The old clients are closed and the call returns.
CloseOld(r) ==
    /\ Alive
    /\ reload[r].pc = "close"
    /\ Closes(r)
    /\ reload' = [reload EXCEPT ![r] = Idle]
    /\ UNCHANGED <<cfg, built, collector, collClients, loop, boot, main, store,
                   past, envVars>>

Reload(r) ==
    \/ TakeTrigger(r) \/ LoadFile(r) \/ CompareNames(r) \/ SwapConfig(r)
    \/ RebuildPool(r) \/ RebuildFail(r) \/ SwapPool(r)
    \/ HandOver(r) \/ CloseOld(r)

-----------------------------------------------------------------------------
(* Server.Shutdown, on the main goroutine.                                 *)

\* A signal, or an error of the HTTP server: the watcher and the HTTP server
\* are shut down.
BeginShutdown ==
    /\ main.pc = "serve"
    /\ main' = [main EXCEPT !.pc = "stop"]
    /\ UNCHANGED <<cfg, poolVars, collector, collClients, loop, boot, reload,
                   store, past, envVars>>

\* Fault: s.clients is not set to nil.
StopCollectionKeepsClients ==
    /\ main.pc = "stop"
    /\ hold' = [hold EXCEPT !["main"] = hold["server"]]
    /\ collector' = FALSE
    /\ main' = [pc |-> "cancel", cancel |-> collector]
    /\ UNCHANGED <<cfg, built, closes, collClients, loop, boot, reload, store,
                   past, envVars>>

\* stopCollection takes the three fields under s.mu and leaves them nil.
StopCollection ==
    /\ main.pc = "stop"
    /\ hold' = [hold EXCEPT !["main"] = hold["server"], !["server"] = None]
    /\ collector' = FALSE
    /\ main' = [pc |-> "cancel", cancel |-> collector]
    /\ past' = [past EXCEPT !.late =
                  @ \/ Booting \/ \E r \in Reloaders : MayInstall(r)]
    /\ UNCHANGED <<cfg, built, closes, collClients, loop, boot, reload, store,
                   envVars>>

CancelLoop ==
    /\ main.pc = "cancel"
    /\ loop' = [loop EXCEPT !.cancelled = @ \/ main.cancel]
    /\ main' = [main EXCEPT !.pc = "close"]
    /\ UNCHANGED <<cfg, poolVars, collector, collClients, boot, reload, store,
                   past, envVars>>

CloseClients ==
    /\ main.pc = "close"
    /\ Closes("main")
    /\ main' = [main EXCEPT !.pc = "exporters"]
    /\ UNCHANGED <<cfg, built, collector, collClients, loop, boot, reload, store,
                   past, envVars>>

\* The OTLP and trace exporters are flushed, and main returns.
Exit ==
    /\ main.pc = "exporters"
    /\ main' = [main EXCEPT !.pc = "exited"]
    /\ UNCHANGED <<cfg, poolVars, collector, collClients, loop, boot, reload,
                   store, past, envVars>>

Shutdown == StopCollection \/ CancelLoop \/ CloseClients \/ Exit

-----------------------------------------------------------------------------
Next ==
    \/ EditFile \/ SendSighup
    \/ Boot \/ Loop
    \/ \E r \in Reloaders : Reload(r)
    \/ BeginShutdown \/ Shutdown

Spec == Init /\ [][Next]_vars

\* Every goroutine that can run is scheduled; each blocking call it makes has
\* a deadline.  Nobody owes the program an edit, a signal or a shutdown.
Fairness ==
    /\ WF_vars(Boot)
    /\ WF_vars(Loop)
    /\ \A r \in Reloaders : WF_vars(Reload(r))
    /\ WF_vars(Shutdown)

LiveSpec == Spec /\ Fairness

-----------------------------------------------------------------------------
(* Properties.                                                             *)

Serving == main.pc = "serve"

\* Collection runs, no reload is under way and none is due.
Quiet ==
    /\ Serving
    /\ boot.pc = "done"
    /\ \A r \in Reloaders : reload[r].pc = "idle" /\ pending[r] = 0

\* No client is closed twice, by whichever of ReloadConfig and stopCollection
\* gets to its pool (main.go:313, main.go:341).
ClosedAtMostOnce == \A p \in Pool : closes[p] <= 1

\* The clients in s.clients, and those a goroutine is still about to install
\* or to close, are open: the swap under s.mu gives each pool one owner.
HeldPoolOpen ==
    \A s \in Slot : hold[s] \in Pool =>
        built[hold[s]] # None /\ closes[hold[s]] = 0

\* Why the two hold: no pool is in two slots, so a Close consumes the only
\* claim to it; a pool handed out by buildClients is in none.
SoleOwner == \A s, t \in Slot : hold[s] \in Pool /\ hold[s] = hold[t] => s = t
UnbuiltNotClosed == \A p \in Pool : built[p] = None => closes[p] = 0
Ownership == SoleOwner /\ HeldPoolOpen /\ UnbuiltNotClosed /\ ClosedAtMostOnce

\* Which slots may be occupied when: a goroutine that is about to put a pool
\* into its slot finds it empty, and s.clients too unless a reload overlapped.
SlotDiscipline ==
    /\ hold["boot"] # None => boot.pc \in {"cycle", "launch", "publish"}
    /\ hold["main"] # None => main.pc \in {"cancel", "close"}
    /\ \A r \in Reloaders :
         hold[r] # None => reload[r].pc \in {"swappool", "handover", "close"}
    /\ hold["server"] # None /\ boot.pc # "done" => past.overlap
    /\ \A r \in Reloaders : Reloading(r) /\ boot.pc # "done" => past.overlap
    /\ Stopped /\ (Booting \/ \E r \in Reloaders : MayInstall(r)) => past.late
    /\ Stopped /\ hold["server"] # None => past.late

\* A pool that is open and in nobody's hands is never closed, and neither is
\* one that comes into s.clients when stopCollection has been there.
Leaked(p) ==
    /\ built[p] # None
    /\ closes[p] = 0
    /\ \A s \in Slot : hold[s] = p => s = "server" /\ Stopped

\* Clients leak only when a reload ran before startCollection had published
\* its pool, when two reloads ran at once, or when the boot or a reload still
\* had its pool to install as stopCollection took the fields.  A shutdown that
\* meets a reload after that leaks nothing: each closes one of the two pools.
LeakOnlyByOverlap ==
    ~past.overlap /\ ~past.late => \A p \in Pool : ~Leaked(p)

\* After any sequence of reloads that do not overlap and do not fail, the
\* collector polls the pool in s.clients and that pool was built from the
\* array names of the current configuration.
QuietAgreement ==
    Quiet /\ ~past.overlap /\ ~past.failed =>
        /\ collClients = hold["server"]
        /\ DOMAIN built[collClients].from = DOMAIN cfg

\* ReloadConfig reports an unchanged array set to its caller.
UnchangedReload(r) ==
    reload[r].pc = "swapcfg" /\ ~Reloading(r)' /\ boot.pc = "done" /\ Serving

\* A reload that skips the rebuild finds the pool already built for the array
\* set of the file it read.
SkippedRebuildIsHarmless ==
    [][\A r \in Reloaders :
         UnchangedReload(r) /\ ~past.overlap /\ ~past.failed =>
            DOMAIN built[collClients].from = DOMAIN cfg']_vars

\* While the exporter serves, the collector is never left with clients that
\* were closed: SetClients comes before the close.  A cycle already under way
\* may hold the old ones.
CollectorPoolOpen ==
    Serving /\ ~past.overlap /\ collClients # None => closes[collClients] = 0

\* The last edit wins: unless reloads overlap or a build fails, the running
\* configuration and the array set shown by /metrics become those of the file,
\* for as long as the exporter serves.
ReloadTakesEffect ==
    <>[](\/ ~Serving \/ past.overlap \/ past.failed
         \/ boot.pc = "failed" \/ file = None
         \/ /\ cfg = file
            /\ store # None /\ DOMAIN built[store].from = DOMAIN file)

\* A snapshot collected with clients since closed does not stay on /metrics.
ClosedPoolLeavesStore ==
    \A p \in Pool :
        closes[p] > 0 ~> (store # p \/ ~Serving \/ past.overlap)

-----------------------------------------------------------------------------
(* What the documentation says and the code does not keep.                 *)

\* "When the set of arrays changes, the client pool is rebuilt", however the
\* reload fell in time.
PoolFollowsArraySet ==
    Quiet /\ ~past.failed => DOMAIN built[collClients].from = DOMAIN cfg

\* ADR-0010: the old clients are closed only after the new ones were handed
\* to the collector, so it is not left polling closed ones.
NeverLeftOnClosedPool == Quiet => closes[collClients] = 0
=============================================================================
