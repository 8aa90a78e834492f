------------------------------- MODULE Export -------------------------------
(***************************************************************************)
(* The OTLP path from its set-up to its last push, and the shutdown of the *)
(* process around it (main.go, otlp.go).                                   *)
(*                                                                         *)
(* EnsureInstruments is called from four goroutines: initOTLP on the boot  *)
(* goroutine, the collection loop's hook, and the tail of ReloadConfig on  *)
(* either reloader.  The main goroutine waits for a signal or an error of  *)
(* the HTTP server goroutine, then shuts the parts down one by one under   *)
(* one deadline.  A snapshot is the set of its metric names; what the      *)
(* readers make of one is in Readers, the client pool in Server.           *)
(***************************************************************************)
EXTENDS Naturals

CONSTANTS
    Name,         \* metric names
    Reloaders,    \* the goroutines that run ReloadConfig
    Nobody        \* e.mu is free

Callers == {"boot", "loop"} \cup Reloaders

ASSUME ReloaderAssumption == Reloaders \cap {"boot", "loop"} = {}
ASSUME NobodyAssumption == Nobody \notin Callers

VARIABLES
    store,        \* the metric names of the published snapshot
    registered,   \* OTLPExporter.registered
    created,      \* how often an instrument was created for each name
    lock,         \* who holds OTLPExporter.mu
    call,         \* the EnsureInstruments call of each caller
    boot,         \* where initOTLP is
    otlp,         \* s.otlp is set
    hook,         \* Collector.onCycle is set
    loop,         \* where the collection loop is
    main,         \* where the main goroutine is
    http,         \* the goroutine of ListenAndServe
    errChan,      \* serverErrChan, with its buffer of one
    expired,      \* the deadline of Shutdown has passed
    past          \* history: signalled, broken, panicked, flush tried

exportVars == <<store, registered, created, lock, call, boot, otlp, hook, loop>>
processVars == <<main, http, errChan, expired, past>>
vars == <<exportVars, processVars>>

Call == [pc : {"idle", "load", "lock", "register"}, names : SUBSET Name,
         ok : BOOLEAN]

\* A call that is over, with its result; a failed one is as good as none.
Ended(ok) == [pc |-> "idle", names |-> {}, ok |-> ok]
NoCall == Ended(FALSE)

\* e.mu is held only between Lock and the deferred Unlock.
HolderInside == lock # Nobody => call[lock].pc = "register"

TypeOK ==
    /\ store \subseteq Name
    /\ registered \subseteq Name
    /\ created \in [Name -> Nat]
    /\ lock \in Callers \cup {Nobody}
    /\ HolderInside
    /\ call \in [Callers -> Call]
    /\ boot \in {"init", "ensure", "hook", "found", "done", "off"}
    /\ otlp \in BOOLEAN
    /\ hook \in BOOLEAN
    /\ loop \in [pc : {"select", "stored", "hook", "ended"},
                 hooked : BOOLEAN]
    /\ main \in {"serve", "http", "stop", "otlp", "flush", "telemetry",
                 "close", "returning", "exited"}
    /\ http \in {"serving", "failing", "done"}
    /\ errChan \in {"empty", "full", "closed"}
    /\ expired \in BOOLEAN
    /\ past \in [signalled : BOOLEAN, broken : BOOLEAN, panicked : BOOLEAN,
                 flushed : BOOLEAN]

\* startCollection has returned: the first cycle is published, the loop runs
\* and initOTLP is about to create the exporter; the server has been started.
Init ==
    /\ store \in SUBSET Name
    /\ registered = {}
    /\ created = [n \in Name |-> 0]
    /\ lock = Nobody
    /\ call = [c \in Callers |-> NoCall]
    /\ boot = "init"
    /\ otlp = FALSE
    /\ hook = FALSE
    /\ loop = [pc |-> "select", hooked |-> FALSE]
    /\ main = "serve"
    /\ http = "serving"
    /\ errChan = "empty"
    /\ expired = FALSE
    /\ past = [signalled |-> FALSE, broken |-> FALSE, panicked |-> FALSE,
               flushed |-> FALSE]

Alive == main # "exited" /\ ~past.panicked

\* stopCollection has cancelled the loop and taken the collector away.
Stopped == main \notin {"serve", "http", "stop"}

-----------------------------------------------------------------------------
(* EnsureInstruments, by caller c.                                         *)

Calling(c) == call[c].pc # "idle"

\* The call begins.
Enter(c) == call' = [call EXCEPT ![c] = [NoCall EXCEPT !.pc = "load"]]

callVars == <<registered, created, lock, call>>

\* snap := e.store.Load(), before the lock.
LoadNames(c) ==
    /\ Alive
    /\ call[c].pc = "load"
    /\ call' = [call EXCEPT ![c].pc = "lock", ![c].names = store]
    /\ UNCHANGED <<store, registered, created, lock, boot, otlp, hook, loop,
                   processVars>>

\* Fault: e.mu is not taken.
TakesNoLock(c) == lock' = lock

\* e.mu.Lock()
Takes(c) == lock = Nobody /\ lock' = c

\* Fault: instruments are created by the first call that finds names only.
TakeLockOnce(c) ==
    /\ Alive
    /\ call[c].pc = "lock"
    /\ Takes(c)
    /\ call' = [call EXCEPT ![c].pc = "register",
                            ![c].names = IF registered = {} THEN @ ELSE {}]
    /\ UNCHANGED <<store, registered, created, boot, otlp, hook, loop,
                   processVars>>

\* Under the lock the names that have an instrument are skipped.
TakeLock(c) ==
    /\ Alive
    /\ call[c].pc = "lock"
    /\ Takes(c)
    /\ call' = [call EXCEPT ![c].pc = "register",
                            ![c].names = @ \ registered]
    /\ UNCHANGED <<store, registered, created, boot, otlp, hook, loop,
                   processVars>>

\* An instrument is created for one of the names left, and remembered.
RegisterName(c) ==
    /\ Alive
    /\ call[c].pc = "register"
    /\ \E n \in call[c].names :
         /\ created' = [created EXCEPT ![n] = @ + 1]
         /\ registered' = registered \cup {n}
         /\ call' = [call EXCEPT ![c].names = @ \ {n}]
    /\ UNCHANGED <<store, lock, boot, otlp, hook, loop, processVars>>

\* Fault: the lock is not released on the error path.
RegisterFailsLocked(c) ==
    /\ Alive
    /\ call[c].pc = "register"
    /\ call[c].names # {}
    /\ call' = [call EXCEPT ![c] = NoCall]
    /\ UNCHANGED <<store, registered, created, lock, boot, otlp, hook, loop,
                   processVars>>

\* The meter refuses a name: the call returns and leaves the others out.
RegisterFails(c) ==
    /\ Alive
    /\ call[c].pc = "register"
    /\ call[c].names # {}
    /\ lock' = Nobody
    /\ call' = [call EXCEPT ![c] = NoCall]
    /\ UNCHANGED <<store, registered, created, boot, otlp, hook, loop,
                   processVars>>

\* The loop over the names is over: unlock and return nil.
ReturnOk(c) ==
    /\ Alive
    /\ call[c].pc = "register"
    /\ call[c].names = {}
    /\ lock' = Nobody
    /\ call' = [call EXCEPT ![c] = Ended(TRUE)]
    /\ UNCHANGED <<store, registered, created, boot, otlp, hook, loop,
                   processVars>>

Proceed(c) == LoadNames(c) \/ TakeLock(c) \/ RegisterName(c) \/ ReturnOk(c)

-----------------------------------------------------------------------------
(* Its callers.                                                            *)

\* initOTLP: the exporter is created with its reader, or the path is disabled
\* by configuration or by an error.
InitOTLP ==
    /\ Alive
    /\ boot = "init"
    /\ \/ boot' = "ensure" /\ Enter("boot")
       \/ boot' = "off" /\ UNCHANGED call
    /\ UNCHANGED <<store, registered, created, lock, otlp, hook, loop,
                   processVars>>

\* s.otlp = exp, or exp.Shutdown when the first EnsureInstruments failed.
PublishOTLP ==
    /\ Alive
    /\ boot = "ensure"
    /\ ~Calling("boot")
    /\ IF call["boot"].ok
       THEN otlp' = TRUE /\ boot' = "hook"
       ELSE UNCHANGED otlp /\ boot' = "off"
    /\ UNCHANGED <<store, callVars, hook, loop, processVars>>

\* collector := s.collector under s.mu; stopCollection may have taken it away.
ReadCollector ==
    /\ Alive
    /\ boot = "hook"
    /\ boot' = IF Stopped THEN "done" ELSE "found"
    /\ UNCHANGED <<store, callVars, otlp, hook, loop, processVars>>

\* collector.SetOnCycle; by now stopCollection may have run.
SetOnCycle ==
    /\ Alive
    /\ boot = "found"
    /\ hook' = TRUE
    /\ boot' = "done"
    /\ UNCHANGED <<store, callVars, otlp, loop, processVars>>

\* A collection cycle publishes its snapshot.
StoreSnapshot ==
    /\ Alive
    /\ loop.pc = "select"
    /\ store' \in SUBSET Name
    /\ loop' = [pc |-> "stored", hooked |-> FALSE]
    /\ UNCHANGED <<callVars, boot, otlp, hook, processVars>>

\* runOnCycle
RunHook ==
    /\ Alive
    /\ loop.pc = "stored"
    /\ IF hook THEN /\ Enter("loop")
                    /\ loop' = [loop EXCEPT !.pc = "hook"]
               ELSE /\ loop' = [loop EXCEPT !.pc = "select"]
                    /\ UNCHANGED call
    /\ UNCHANGED <<store, registered, created, lock, boot, otlp, hook,
                   processVars>>

\* The hook drops the error of EnsureInstruments.
HookDone ==
    /\ Alive
    /\ loop.pc = "hook"
    /\ ~Calling("loop")
    /\ loop' = [pc |-> "select", hooked |-> call["loop"].ok]
    /\ UNCHANGED <<store, callVars, boot, otlp, hook, processVars>>

\* <-ctx.Done(), once stopCollection has cancelled the loop's context.
LoopStop ==
    /\ Alive
    /\ loop.pc = "select"
    /\ Stopped
    /\ loop' = [loop EXCEPT !.pc = "ended"]
    /\ UNCHANGED <<store, callVars, boot, otlp, hook, processVars>>

\* Fault: the hook runs first and the snapshot is stored when it is done.
LoopHookFirst ==
    \/ /\ Alive
       /\ loop.pc = "select"
       /\ loop' = [pc |-> "stored", hooked |-> FALSE]
       /\ UNCHANGED <<store, callVars, boot, otlp, hook, processVars>>
    \/ RunHook
    \/ /\ Alive
       /\ loop.pc = "hook"
       /\ ~Calling("loop")
       /\ loop' = [pc |-> "select", hooked |-> call["loop"].ok]
       /\ store' \in SUBSET Name
       /\ UNCHANGED <<callVars, boot, otlp, hook, processVars>>

Loop == StoreSnapshot \/ RunHook \/ HookDone \/ LoopStop

\* The tail of ReloadConfig: if s.otlp != nil { s.otlp.EnsureInstruments() }.
ReloadTail(r) ==
    /\ Alive
    /\ otlp
    /\ ~Calling(r)
    /\ Enter(r)
    /\ UNCHANGED <<store, registered, created, lock, boot, otlp, hook, loop,
                   processVars>>

-----------------------------------------------------------------------------
(* The HTTP server goroutine.                                              *)

\* The listener fails: the port is taken, or the socket breaks later.
ListenFails ==
    /\ Alive
    /\ http = "serving"
    /\ http' = "failing"
    /\ past' = [past EXCEPT !.broken = TRUE]
    /\ UNCHANGED <<exportVars, main, errChan, expired>>

\* Fault: the error is logged, and the goroutine ends.
LogError ==
    /\ Alive
    /\ http = "failing"
    /\ http' = "done"
    /\ UNCHANGED <<exportVars, main, errChan, expired, past>>

\* s.serverErrChan <- err: there is room, or the channel is closed and the
\* process panics.
SendError ==
    /\ Alive
    /\ http = "failing"
    /\ errChan # "full"
    /\ http' = "done"
    /\ IF errChan = "closed"
       THEN /\ past' = [past EXCEPT !.panicked = TRUE]
            /\ UNCHANGED errChan
       ELSE /\ errChan' = "full"
            /\ UNCHANGED past
    /\ UNCHANGED <<exportVars, main, expired>>

\* Fault: http.ErrServerClosed is an error like others.
ServerClosedSends ==
    /\ Alive
    /\ http = "serving"
    /\ main # "serve"
    /\ http' = "failing"
    /\ UNCHANGED <<exportVars, main, errChan, expired, past>>

\* Shutdown makes ListenAndServe return http.ErrServerClosed, which is dropped.
ServerClosed ==
    /\ Alive
    /\ http = "serving"
    /\ main # "serve"
    /\ http' = "done"
    /\ UNCHANGED <<exportVars, main, errChan, expired, past>>

-----------------------------------------------------------------------------
(* The main goroutine: waitForShutdown and Shutdown.                       *)

Goto(from, to) == Alive /\ main = from /\ main' = to

TakeSignal ==
    /\ Goto("serve", "http")
    /\ past' = [past EXCEPT !.signalled = TRUE]
    /\ UNCHANGED <<exportVars, http, errChan, expired>>

TakeError ==
    /\ errChan = "full"
    /\ Goto("serve", "http")
    /\ errChan' = "empty"
    /\ UNCHANGED <<exportVars, http, expired, past>>

\* Fault: Shutdown waits with a context that has no deadline.
NoDeadline == FALSE

\* context.WithTimeout(context.Background(), shutdownTimeout)
HasDeadline == TRUE

Deadline ==
    /\ HasDeadline
    /\ Alive
    /\ main \in {"http", "stop", "otlp", "flush", "telemetry"}
    /\ ~expired
    /\ expired' = TRUE
    /\ UNCHANGED <<exportVars, main, http, errChan, past>>

\* httpSrv.Shutdown waits for the requests that are being served, or until the
\* deadline.
HttpShutdown ==
    /\ Goto("http", "stop")
    /\ UNCHANGED <<exportVars, http, errChan, expired, past>>

StopCollection ==
    /\ Goto("stop", "otlp")
    /\ UNCHANGED <<exportVars, http, errChan, expired, past>>

\* initOTLP found the collector: its critical section of s.mu came before the
\* one of stopCollection.
FoundCollector == boot = "found" \/ hook

\* if s.otlp != nil, without a lock.  If initOTLP found the collector, the
\* critical sections of s.mu order the write before this read; if not, the
\* read may miss it.
CheckOTLP ==
    /\ \E sees \in IF FoundCollector THEN {otlp} ELSE {otlp, FALSE} :
         Goto("otlp", IF sees THEN "flush" ELSE "telemetry")
    /\ UNCHANGED <<exportVars, http, errChan, expired, past>>

\* otlp.Shutdown collects and sends once more.  It returns when the endpoint
\* has answered, has refused or the deadline is past; the error is only logged,
\* so nothing but the attempt is left of it.
FlushOTLP ==
    /\ Goto("flush", "telemetry")
    /\ past' = [past EXCEPT !.flushed = TRUE]
    /\ UNCHANGED <<exportVars, http, errChan, expired>>

\* The spans are flushed, if tracing is on, or until the deadline.
TelemetryShutdown ==
    /\ Goto("telemetry", "close")
    /\ UNCHANGED <<exportVars, http, errChan, expired, past>>

\* close(s.serverErrChan); RunE returns and the process exits.
CloseErrChan ==
    /\ Goto("close", "returning")
    /\ errChan' = "closed"
    /\ UNCHANGED <<exportVars, http, expired, past>>

Exit ==
    /\ Goto("returning", "exited")
    /\ UNCHANGED <<exportVars, http, errChan, expired, past>>

\* Fault: the exporters are shut down before the collection is stopped.
ShutdownFlushFirst ==
    \/ Deadline
    \/ /\ \E sees \in IF FoundCollector THEN {otlp} ELSE {otlp, FALSE} :
            Goto("http", IF sees THEN "flush" ELSE "telemetry")
       /\ UNCHANGED <<exportVars, http, errChan, expired, past>>
    \/ FlushOTLP
    \/ /\ Goto("telemetry", "stop")
       /\ UNCHANGED <<exportVars, http, errChan, expired, past>>
    \/ /\ Goto("stop", "close")
       /\ UNCHANGED <<exportVars, http, errChan, expired, past>>
    \/ CloseErrChan \/ Exit

Shutdown ==
    \/ Deadline \/ HttpShutdown \/ StopCollection \/ CheckOTLP \/ FlushOTLP
    \/ TelemetryShutdown \/ CloseErrChan \/ Exit

-----------------------------------------------------------------------------
Boot == InitOTLP \/ PublishOTLP \/ ReadCollector \/ SetOnCycle
Http == ListenFails \/ SendError \/ ServerClosed

Next ==
    \/ \E c \in Callers : Proceed(c) \/ RegisterFails(c)
    \/ Boot \/ Loop
    \/ \E r \in Reloaders : ReloadTail(r)
    \/ Http
    \/ TakeSignal \/ TakeError \/ Shutdown

Spec == Init /\ [][Next]_vars

\* Goroutines run, a sync.Mutex is handed to a waiter that keeps waiting, the
\* meter does not refuse a name for ever, the ticker ticks for ever and deadlines
\* pass.  Nobody owes the process a signal, what it waits for in Shutdown may
\* never answer, and strong fairness is asked for the loop's calls alone.
Fairness ==
    /\ WF_vars(Loop)
    /\ \A c \in Callers : WF_vars(Proceed(c))
    /\ SF_vars(TakeLock("loop")) /\ SF_vars(RegisterName("loop"))
    /\ WF_vars(SendError) /\ WF_vars(TakeError) /\ WF_vars(Deadline)
    /\ WF_vars(StopCollection \/ CheckOTLP \/ CloseErrChan \/ Exit)
    /\ WF_vars(expired /\ Shutdown)

LiveSpec == Spec /\ Fairness

-----------------------------------------------------------------------------
(* Properties.                                                             *)

\* However the four callers overlap, a metric name gets one instrument: a
\* second one would observe every sample twice (otlp.go:77).
RegisteredOnce == \A n \in Name : created[n] <= 1

\* Why: whoever is registering holds e.mu and has only names without an
\* instrument left, `registered' counts the instruments exactly, and the boot
\* goroutine and the loop are at most in one call each.
Registration ==
    /\ \A c \in Callers : call[c].pc = "register" =>
         lock = c /\ call[c].names \cap registered = {}
    /\ \A n \in Name : created[n] = IF n \in registered THEN 1 ELSE 0
    /\ Calling("boot") => boot = "ensure"
    /\ Calling("loop") => loop.pc = "hook"

\* Between two cycles every metric name on display has its instrument, if the
\* hook ran for the last cycle and the meter took all names (otlp.go:72, the
\* store comes before the hook in collector.go:81).
HookCoversCycle ==
    loop.pc = "select" /\ loop.hooked => store \subseteq registered

\* A process that ends by itself has tried to push once more every OTLP path
\* whose boot found its collector, although s.otlp is read without a lock
\* (main.go:371), the hook may still be on its way, and a part that hangs may
\* use the deadline up first: stopCollection before the read takes s.mu.  That
\* the push reaches the endpoint, nothing promises; its error is only logged.
FlushTriedOnceFound ==
    main = "exited" /\ FoundCollector => past.flushed

\* A send on the closed serverErrChan (main.go:383) takes a listener that fails
\* by itself and a signal that beats its error to the main goroutine.
PanicOnlyOnFailure ==
    past.panicked => past.broken /\ past.signalled

\* While the process serves with the hook installed, it always comes back to a
\* cycle after which every metric name on display has its instrument, although
\* four goroutines compete for e.mu and a name may first appear between the
\* instruments of initOTLP and its hook (main.go:230).
NamesReachOTLP ==
    hook ~> Stopped \/ ~Alive \/ (loop.pc = "select" /\ store \subseteq registered)

\* A shutdown ends, even if a scrape, the OTLP endpoint and the trace endpoint
\* all hang (main.go:359).
ShutdownEnds == main # "serve" ~> ~Alive

\* A process whose HTTP server is gone does not stay (main.go:454).
ServerErrorEnds == past.broken ~> ~Alive
=============================================================================
