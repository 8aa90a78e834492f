---------------------------- MODULE ExportProofs ----------------------------
(* For every set of names and of reloaders: one instrument per metric      *)
(* name, since e.mu serializes the calls of EnsureInstruments; the hook    *)
(* reaches every name of its cycle; and what the unlocked accesses of the  *)
(* shutdown, to s.otlp and to serverErrChan, can still do.                 *)
EXTENDS Export, TLAPS

\* A call that begins does not hold the lock.
LEMMA EnterKeeps ==
    ASSUME TypeOK, Registration, NEW c \in Callers, ~Calling(c), Enter(c),
           UNCHANGED <<registered, created, lock>>
    PROVE  /\ call' \in [Callers -> Call]
           /\ HolderInside'
           /\ \A d \in Callers : call'[d].pc = "register" =>
                lock' = d /\ call'[d].names \cap registered' = {}
           /\ \A n \in Name : created'[n] = IF n \in registered' THEN 1 ELSE 0
           /\ \A d \in Callers \ {c} : call'[d] = call[d]
  BY NobodyAssumption
     DEF TypeOK, HolderInside, Registration, Enter, Calling, NoCall, Ended, Call

\* The two invariants that the proofs below carry through the steps together.
IInv == TypeOK /\ Registration

LEMMA InitIInv == Init => IInv
<1> SUFFICES ASSUME Init PROVE IInv
  OBVIOUS
<1>1. call \in [Callers -> Call]
  BY DEF Init, NoCall, Ended, Call
<1>2. TypeOK
  BY <1>1, NobodyAssumption DEF TypeOK, Init, HolderInside
<1>3. Registration
  BY DEF Init, Registration, Calling, NoCall, Ended, Callers
<1> QED
  BY <1>2, <1>3 DEF IInv

\* The steps of EnsureInstruments itself.
LEMMA CallStep ==
    ASSUME IInv, NEW c \in Callers, Proceed(c) \/ RegisterFails(c)
    PROVE  IInv'
<1> USE DEF IInv, processVars
<1>1. CASE LoadNames(c)
  <2>1. store \in SUBSET Name
    BY DEF TypeOK
  <2>2. /\ call[c].pc = "load"
        /\ call'[c].pc = "lock"
        /\ call' \in [Callers -> Call]
        /\ \A d \in Callers \ {c} : call'[d] = call[d]
    BY <1>1, <2>1 DEF LoadNames, TypeOK, Call
  <2>3. TypeOK'
    BY <1>1, <2>1, <2>2 DEF LoadNames, TypeOK, HolderInside
  <2>4. Registration'
    BY <1>1, <2>2 DEF LoadNames, TypeOK, Registration, Calling, Callers
  <2> QED
    BY <2>3, <2>4
<1>2. CASE TakeLock(c)
  <2>1. /\ call[c].pc = "lock" /\ lock = Nobody /\ lock' = c
        /\ call'[c].pc = "register"
        /\ call'[c].names = call[c].names \ registered
        /\ call' \in [Callers -> Call]
        /\ \A d \in Callers \ {c} : call'[d] = call[d]
    BY <1>2 DEF TakeLock, Takes, TypeOK, Call
  <2>2. TypeOK'
    BY <1>2, <2>1, NobodyAssumption DEF TakeLock, TypeOK, HolderInside
  <2>3. Registration'
    BY <1>2, <2>1, NobodyAssumption
       DEF TakeLock, TypeOK, Registration, Calling, Callers
  <2> QED
    BY <2>2, <2>3
<1>3. CASE RegisterName(c)
  <2>1. PICK n \in call[c].names :
           /\ created' = [created EXCEPT ![n] = @ + 1]
           /\ registered' = registered \cup {n}
           /\ call' = [call EXCEPT ![c].names = @ \ {n}]
    BY <1>3 DEF RegisterName
  <2>2. n \in Name \ registered /\ lock = c
    BY <1>3 DEF RegisterName, TypeOK, Registration, Call
  <2>3. TypeOK'
    BY <1>3, <2>1, <2>2 DEF RegisterName, TypeOK, HolderInside, Call
  <2>4. Registration'
    BY <1>3, <2>1, <2>2 DEF RegisterName, TypeOK, Registration, Calling, Call
  <2> QED
    BY <2>3, <2>4
<1>4. CASE RegisterFails(c) \/ ReturnOk(c)
  <2>1. /\ call[c].pc = "register" /\ lock' = Nobody
        /\ \E b \in BOOLEAN : call' = [call EXCEPT ![c] = Ended(b)]
    BY <1>4 DEF RegisterFails, ReturnOk, NoCall
  <2>2. \A b \in BOOLEAN : Ended(b) \in Call /\ Ended(b).pc = "idle"
    BY DEF Call, Ended
  <2>3. /\ call'[c].pc = "idle"
        /\ \A d \in Callers \ {c} : call'[d] = call[d]
        /\ call' \in [Callers -> Call]
    BY <2>1, <2>2 DEF TypeOK
  <2>4. TypeOK'
    BY <1>4, <2>1, <2>3, NobodyAssumption
       DEF RegisterFails, ReturnOk, TypeOK, HolderInside
  <2>5. lock = c
    BY <2>1 DEF Registration
  <2>6. Registration'
    BY <1>4, <2>1, <2>3, <2>5
       DEF RegisterFails, ReturnOk, TypeOK, Registration, Calling, Callers
  <2> QED
    BY <2>4, <2>6
<1> QED
  BY <1>1, <1>2, <1>3, <1>4 DEF Proceed

\* Its callers: initOTLP, the hook of the loop, and the tail of a reload.
LEMMA CallerStep ==
    ASSUME IInv, Boot \/ Loop \/ \E r \in Reloaders : ReloadTail(r)
    PROVE  IInv'
<1> USE DEF IInv, processVars
<1>1. CASE InitOTLP
  <2>1. CASE boot' = "ensure" /\ Enter("boot")
    <3>1. "boot" \in Callers /\ ~Calling("boot")
      BY <1>1 DEF InitOTLP, Registration, Callers
    <3>2. UNCHANGED <<registered, created, lock>>
      BY <1>1 DEF InitOTLP
    <3>3. TypeOK'
      BY <1>1, <2>1, <3>1, <3>2, EnterKeeps DEF InitOTLP, TypeOK
    <3>4. Registration'
      BY <1>1, <2>1, <3>1, <3>2, EnterKeeps
         DEF InitOTLP, Registration, Calling, Callers
    <3> QED
      BY <3>3, <3>4
  <2>2. CASE boot' = "off" /\ UNCHANGED call
    BY <1>1, <2>2
       DEF InitOTLP, TypeOK, HolderInside, Registration, Calling
  <2> QED
    BY <1>1, <2>1, <2>2 DEF InitOTLP
<1>2. CASE PublishOTLP
  <2>1. otlp' \in BOOLEAN /\ boot' \in {"hook", "off"}
    BY <1>2 DEF PublishOTLP, TypeOK
  <2>3. TypeOK'
    BY <1>2, <2>1 DEF PublishOTLP, TypeOK, callVars, HolderInside
  <2>2. Registration'
    BY <1>2 DEF PublishOTLP, Registration, callVars, Calling
  <2> QED
    BY <2>2, <2>3
<1>3. CASE ReadCollector \/ SetOnCycle
  <2>1. boot' \in {"done", "found"} /\ hook' \in BOOLEAN
    BY <1>3 DEF ReadCollector, SetOnCycle, TypeOK
  <2>2. boot # "ensure" /\ UNCHANGED <<store, callVars, otlp, loop, processVars>>
    BY <1>3 DEF ReadCollector, SetOnCycle
  <2>3. TypeOK'
    BY <2>1, <2>2 DEF TypeOK, callVars, HolderInside
  <2>4. Registration'
    BY <2>2 DEF Registration, callVars, Calling
  <2> QED
    BY <2>3, <2>4
<1>4. CASE StoreSnapshot
  <2>1. store' \in SUBSET Name /\ loop' = [pc |-> "stored", hooked |-> FALSE]
    BY <1>4 DEF StoreSnapshot
  <2>2. TypeOK'
    BY <1>4, <2>1 DEF StoreSnapshot, TypeOK, callVars, HolderInside
  <2>3. Registration'
    BY <1>4 DEF StoreSnapshot, Registration, callVars, Calling
  <2> QED
    BY <2>2, <2>3
<1>5. CASE RunHook
  <2>1. CASE hook
    <3>1. /\ "loop" \in Callers /\ ~Calling("loop") /\ Enter("loop")
          /\ loop' = [loop EXCEPT !.pc = "hook"]
      BY <1>5, <2>1 DEF RunHook, Registration, Callers
    <3>2. UNCHANGED <<registered, created, lock>>
      BY <1>5 DEF RunHook
    <3>3. TypeOK'
      BY <1>5, <3>1, <3>2, EnterKeeps DEF RunHook, TypeOK
    <3>4. Registration'
      BY <1>5, <3>1, <3>2, EnterKeeps
         DEF RunHook, Registration, Calling, Callers, TypeOK
    <3> QED
      BY <3>3, <3>4
  <2>2. CASE ~hook
    BY <1>5, <2>2 DEF RunHook, TypeOK, HolderInside, Registration, Calling
  <2> QED
    BY <2>1, <2>2
<1>6. CASE HookDone
  <2>1. TypeOK'
    BY <1>6 DEF HookDone, TypeOK, callVars, HolderInside, Callers, Call
  <2>2. Registration'
    BY <1>6 DEF HookDone, Registration, callVars, Calling
  <2> QED
    BY <2>1, <2>2
<1>7. CASE LoopStop
  BY <1>7 DEF LoopStop, TypeOK, Registration, callVars, Calling, HolderInside
<1>8. ASSUME NEW r \in Reloaders, ReloadTail(r) PROVE IInv'
  <2>1. r \in Callers /\ r # "boot" /\ r # "loop"
    BY ReloaderAssumption DEF Callers
  <2>2. ~Calling(r) /\ Enter(r) /\ UNCHANGED <<registered, created, lock>>
    BY <1>8 DEF ReloadTail
  <2>3. TypeOK'
    BY <1>8, <2>1, <2>2, EnterKeeps DEF ReloadTail, TypeOK
  <2>4. Registration'
    BY <1>8, <2>1, <2>2, EnterKeeps
       DEF ReloadTail, Registration, Calling, Callers
  <2> QED
    BY <2>3, <2>4
<1> QED
  BY <1>1, <1>2, <1>3, <1>4, <1>5, <1>6, <1>7, <1>8 DEF Boot, Loop

\* The steps of the HTTP server goroutine and of the main goroutine.
Process == Http \/ TakeSignal \/ TakeError \/ Shutdown

LEMMA ProcessKeeps == Process => UNCHANGED exportVars
  BY DEF Process, Http, ListenFails, SendError, ServerClosed, TakeSignal,
         TakeError, Shutdown, Deadline, HttpShutdown, StopCollection, CheckOTLP,
         FlushOTLP, TelemetryShutdown, CloseErrChan, Exit

\* The part of TypeOK that is about them.
ProcessTypes ==
    /\ main \in {"serve", "http", "stop", "otlp", "flush", "telemetry",
                 "close", "returning", "exited"}
    /\ http \in {"serving", "failing", "done"}
    /\ errChan \in {"empty", "full", "closed"}
    /\ expired \in BOOLEAN
    /\ past \in [signalled : BOOLEAN, broken : BOOLEAN, panicked : BOOLEAN,
                 flushed : BOOLEAN]

LEMMA ProcessStep == ASSUME IInv, Process PROVE IInv'
<1>1. UNCHANGED exportVars
  BY ProcessKeeps
<1>2. Registration' /\ HolderInside'
  BY <1>1 DEF exportVars, IInv, TypeOK, Registration, HolderInside, Calling
<1>3. ProcessTypes
  BY DEF IInv, TypeOK, ProcessTypes
<1>4. ProcessTypes'
  <2> USE <1>3 DEF ProcessTypes
  <2>1. CASE Http
    BY <2>1 DEF Http, ListenFails, SendError, ServerClosed
  <2>2. CASE TakeSignal \/ TakeError \/ Deadline
    BY <2>2 DEF TakeSignal, TakeError, Deadline, Goto
  <2>3. CASE CheckOTLP
    <3>1. main' \in {"flush", "telemetry"}
      BY <2>3 DEF CheckOTLP, Goto
    <3> QED
      BY <2>3, <3>1 DEF CheckOTLP
  <2>4. CASE HttpShutdown \/ StopCollection \/ TelemetryShutdown \/ Exit
    BY <2>4 DEF HttpShutdown, StopCollection, TelemetryShutdown, Exit, Goto
  <2>5. CASE FlushOTLP \/ CloseErrChan
    BY <2>5 DEF FlushOTLP, CloseErrChan, Goto
  <2> QED
    BY <2>1, <2>2, <2>3, <2>4, <2>5 DEF Process, Shutdown
<1> QED
  BY <1>1, <1>2, <1>4 DEF IInv, TypeOK, exportVars, ProcessTypes

LEMMA NextIInv == IInv /\ [Next]_vars => IInv'
<1> SUFFICES ASSUME IInv, [Next]_vars PROVE IInv'
  OBVIOUS
<1>1. CASE UNCHANGED vars
  BY <1>1 DEF vars, exportVars, processVars, IInv, TypeOK, Registration,
              HolderInside, Calling
<1> QED
  BY <1>1, CallStep, CallerStep, ProcessStep DEF Next, Process

\* Every reachable state of the two exporters is well typed, and e.mu is held
\* by nobody who is outside EnsureInstruments (otlp.go:73).
THEOREM ExportTypes == Spec => []TypeOK
  BY InitIInv, NextIInv, PTL DEF Spec, IInv

\* Calls of EnsureInstruments register one at a time, and `registered' is the
\* exact set of names with an instrument.
THEOREM RegistrationHolds == Spec => []Registration
  BY InitIInv, NextIInv, PTL DEF Spec, IInv

\* However many goroutines call EnsureInstruments and wherever the calls stop,
\* no metric name gets a second instrument (otlp.go:77).
THEOREM OneInstrument == Spec => []RegisteredOnce
<1>1. ASSUME Registration, NEW n \in Name PROVE created[n] <= 1
  <2>1. created[n] = 1 \/ created[n] = 0
    BY <1>1 DEF Registration
  <2> QED
    BY <2>1
<1>2. Registration => RegisteredOnce
  BY <1>1 DEF RegisteredOnce
<1> QED
  BY <1>2, RegistrationHolds, PTL

-----------------------------------------------------------------------------
(* The hook and the names of its cycle.                                    *)

\* What the loop's call knows of the snapshot it was made for: `store' does
\* not change while the hook runs, and `registered' only grows.
LoopCall ==
    /\ loop.pc \in {"stored", "hook"} => ~loop.hooked
    /\ loop.pc = "hook" =>
         /\ call["loop"].pc = "lock" => call["loop"].names = store
         /\ call["loop"].pc = "register" =>
              store \subseteq registered \cup call["loop"].names
         /\ call["loop"].pc = "idle" /\ call["loop"].ok =>
              store \subseteq registered
    /\ HookCoversCycle

LEMMA LoopCallStep ==
    ASSUME IInv, LoopCall, [Next]_vars
    PROVE  LoopCall'
<1> USE DEF LoopCall, HookCoversCycle
<1>1. "loop" \in Callers /\ "boot" \in Callers /\ "loop" # "boot"
  BY DEF Callers
<1>2. call \in [Callers -> Call] /\ loop \in [pc : {"select", "stored", "hook",
        "ended"}, hooked : BOOLEAN]
  BY DEF IInv, TypeOK
<1>3. ASSUME UNCHANGED <<store, registered, loop>>,
             UNCHANGED call \/ call'["loop"] = call["loop"]
      PROVE  LoopCall'
  BY <1>3
<1>4. ASSUME NEW c \in Callers, Proceed(c) \/ RegisterFails(c) PROVE LoopCall'
  <2>1. CASE LoadNames(c)
    BY <1>1, <1>2, <2>1 DEF LoadNames, Call
  <2>2. CASE TakeLock(c)
    BY <1>1, <1>2, <2>2 DEF TakeLock, Call
  <2>3. CASE RegisterName(c)
    BY <1>1, <1>2, <2>3 DEF RegisterName, Call
  <2>4. CASE RegisterFails(c)
    BY <1>1, <1>2, <2>4 DEF RegisterFails, NoCall, Ended
  <2>5. CASE ReturnOk(c)
    BY <1>1, <1>2, <2>5 DEF ReturnOk, Ended, Call
  <2> QED
    BY <1>4, <2>1, <2>2, <2>3, <2>4, <2>5 DEF Proceed
<1>5. CASE InitOTLP
  BY <1>1, <1>2, <1>3, <1>5 DEF InitOTLP, Enter
<1>6. CASE PublishOTLP \/ ReadCollector \/ SetOnCycle
  BY <1>3, <1>6 DEF PublishOTLP, ReadCollector, SetOnCycle, callVars
<1>7. CASE StoreSnapshot
  BY <1>7 DEF StoreSnapshot
<1>8. CASE RunHook
  <2>1. CASE hook
    BY <1>1, <1>2, <1>8, <2>1 DEF RunHook, Enter, NoCall, Ended
  <2>2. CASE ~hook
    BY <1>2, <1>8, <2>2 DEF RunHook
  <2> QED
    BY <2>1, <2>2
<1>9. CASE HookDone
  BY <1>1, <1>2, <1>9 DEF HookDone, callVars, Calling, Call
<1>10. CASE LoopStop
  BY <1>2, <1>10 DEF LoopStop, callVars
<1>11. ASSUME NEW r \in Reloaders, ReloadTail(r) PROVE LoopCall'
  <2>1. r \in Callers /\ r # "loop"
    BY ReloaderAssumption DEF Callers
  <2> QED
    BY <1>1, <1>2, <1>3, <1>11, <2>1 DEF ReloadTail, Enter
<1>12. CASE Process
  BY <1>3, <1>12, ProcessKeeps DEF exportVars
<1>13. CASE UNCHANGED vars
  BY <1>3, <1>13 DEF vars, exportVars
<1> QED
  BY <1>4, <1>5, <1>6, <1>7, <1>8, <1>9, <1>10, <1>11, <1>12, <1>13
     DEF Next, Boot, Loop, Process

\* The hook's call registers every name of the snapshot it was made for, since
\* the loop publishes nothing before the hook is done (collector.go:81): a
\* cycle whose hook succeeded leaves no name on display without an instrument.
THEOREM HookFindsNames == Spec => []HookCoversCycle
<1>1. Init => LoopCall
  BY DEF Init, LoopCall, HookCoversCycle
<1>2. LoopCall => HookCoversCycle
  BY DEF LoopCall
<1>3. IInv /\ LoopCall /\ [Next]_vars => LoopCall'
  BY LoopCallStep
<1> QED
  BY <1>1, <1>2, <1>3, InitIInv, NextIInv, PTL DEF Spec

-----------------------------------------------------------------------------
(* The shutdown.                                                           *)

\* A boot looks for the collector once it has set s.otlp, and finds it only
\* while the collection is not stopped; from then on the shutdown sees s.otlp.
Hooked ==
    /\ boot \in {"hook", "found"} => otlp
    /\ hook => otlp /\ boot = "done"
    /\ FoundCollector /\ main \in {"telemetry", "close", "returning", "exited"}
         => past.flushed

LEMMA HookedStep ==
    ASSUME IInv, Hooked, [Next]_vars
    PROVE  Hooked'
<1> USE DEF Hooked, FoundCollector
<1>1. past \in [signalled : BOOLEAN, broken : BOOLEAN, panicked : BOOLEAN,
                flushed : BOOLEAN]
  BY DEF IInv, TypeOK
<1>2. ASSUME UNCHANGED <<boot, otlp, hook, processVars>> PROVE Hooked'
  BY <1>2 DEF processVars
<1>3. ASSUME NEW c \in Callers, Proceed(c) \/ RegisterFails(c) PROVE Hooked'
  BY <1>2, <1>3 DEF Proceed, LoadNames, TakeLock, RegisterName, ReturnOk,
                    RegisterFails
<1>4. CASE Loop \/ \E r \in Reloaders : ReloadTail(r)
  BY <1>2, <1>4 DEF Loop, StoreSnapshot, RunHook, HookDone, LoopStop, ReloadTail
<1>5. CASE InitOTLP
  BY <1>5 DEF InitOTLP, processVars
<1>6. CASE PublishOTLP
  BY <1>6 DEF PublishOTLP, processVars
<1>7. CASE ReadCollector \/ SetOnCycle
  BY <1>7 DEF ReadCollector, SetOnCycle, Stopped, processVars
<1>8. CASE Process
  <2>1. UNCHANGED <<boot, otlp, hook>>
    BY <1>8, ProcessKeeps DEF exportVars
  <2>2. CASE Http
    BY <1>1, <2>1, <2>2 DEF Http, ListenFails, SendError, ServerClosed
  <2>3. CASE TakeSignal \/ TakeError \/ Deadline \/ HttpShutdown \/ StopCollection
    BY <1>1, <2>1, <2>3
       DEF TakeSignal, TakeError, Deadline, HttpShutdown, StopCollection, Goto
  <2>4. CASE CheckOTLP
    BY <2>1, <2>4 DEF CheckOTLP, Goto
  <2>5. CASE FlushOTLP
    BY <1>1, <2>1, <2>5 DEF FlushOTLP, Goto
  <2>6. CASE TelemetryShutdown \/ CloseErrChan \/ Exit
    BY <2>1, <2>6 DEF TelemetryShutdown, CloseErrChan, Exit, Goto
  <2> QED
    BY <1>8, <2>2, <2>3, <2>4, <2>5, <2>6 DEF Process, Shutdown
<1>9. CASE UNCHANGED vars
  BY <1>2, <1>9 DEF vars, exportVars
<1> QED
  BY <1>3, <1>4, <1>5, <1>6, <1>7, <1>8, <1>9 DEF Next, Boot, Process

\* Wherever a signal finds the boot, and whatever hangs or fails before: if the
\* boot found its collector, the process does not end without having tried to
\* push once more (main.go:371).
THEOREM FlushIsTried == Spec => []FlushTriedOnceFound
<1>1. Init => Hooked
  BY DEF Init, Hooked, FoundCollector
<1>2. Hooked => FlushTriedOnceFound
  BY DEF Hooked, FlushTriedOnceFound
<1>3. IInv /\ Hooked /\ [Next]_vars => Hooked'
  BY HookedStep
<1> QED
  BY <1>1, <1>2, <1>3, InitIInv, NextIInv, PTL DEF Spec

\* What the two ends of serverErrChan know of each other.
Channel ==
    /\ http = "failing" => past.broken
    /\ errChan = "full" => http = "done"
    /\ errChan = "closed" => main \in {"returning", "exited"}
    /\ main # "serve" /\ ~past.signalled => http = "done"
    /\ PanicOnlyOnFailure

LEMMA ChannelStep ==
    ASSUME IInv, Channel, [Next]_vars
    PROVE  Channel'
<1> USE DEF Channel, PanicOnlyOnFailure
<1>1. past \in [signalled : BOOLEAN, broken : BOOLEAN, panicked : BOOLEAN,
                flushed : BOOLEAN]
  BY DEF IInv, TypeOK
<1>2. ASSUME UNCHANGED processVars PROVE Channel'
  BY <1>2 DEF processVars
<1>3. CASE (\E c \in Callers : Proceed(c) \/ RegisterFails(c)) \/ Boot \/ Loop
           \/ \E r \in Reloaders : ReloadTail(r)
  BY <1>2, <1>3
     DEF Proceed, LoadNames, TakeLock, RegisterName, ReturnOk, RegisterFails,
         Boot, InitOTLP, PublishOTLP, ReadCollector, SetOnCycle, Loop, StoreSnapshot, RunHook,
         HookDone, LoopStop, ReloadTail
<1>4. CASE ListenFails
  BY <1>1, <1>4 DEF ListenFails
<1>5. CASE SendError
  BY <1>1, <1>5 DEF SendError
<1>6. CASE ServerClosed
  BY <1>6 DEF ServerClosed
<1>7. CASE TakeSignal
  BY <1>1, <1>7 DEF TakeSignal, Goto
<1>8. CASE TakeError
  BY <1>8 DEF TakeError, Goto
<1>9. CASE Shutdown
  <2>1. main # "serve" /\ main' # "serve" /\ UNCHANGED http
    BY <1>9 DEF Shutdown, Deadline, HttpShutdown, StopCollection, CheckOTLP,
       FlushOTLP, TelemetryShutdown, CloseErrChan, Exit, Goto
  <2>2. /\ past'.signalled = past.signalled
        /\ past'.broken = past.broken
        /\ past'.panicked = past.panicked
    BY <1>1, <1>9 DEF Shutdown, Deadline, HttpShutdown, StopCollection, CheckOTLP,
       FlushOTLP, TelemetryShutdown, CloseErrChan, Exit
  <2>3. \/ UNCHANGED errChan /\ (main = "returning" => main' = "exited"
                                 \/ UNCHANGED main)
        \/ errChan' = "closed" /\ main' = "returning"
    BY <1>9 DEF Shutdown, Deadline, HttpShutdown, StopCollection, CheckOTLP,
       FlushOTLP, TelemetryShutdown, CloseErrChan, Exit, Goto
  <2>4. errChan = "closed" => main' \in {"returning", "exited"}
    BY <1>9 DEF Shutdown, Deadline, HttpShutdown, StopCollection, CheckOTLP,
       FlushOTLP, TelemetryShutdown, CloseErrChan, Exit, Goto
  <2> QED
    BY <2>1, <2>2, <2>3, <2>4
<1>10. CASE UNCHANGED vars
  BY <1>2, <1>10 DEF vars
<1> QED
  BY <1>3, <1>4, <1>5, <1>6, <1>7, <1>8, <1>9, <1>10 DEF Next, Http

\* The close of serverErrChan panics the process only when a listener that
\* failed by itself lost the race against a signal (main.go:383).
THEOREM PanicNeedsFailure == Spec => []PanicOnlyOnFailure
<1>1. Init => Channel
  BY DEF Init, Channel, PanicOnlyOnFailure
<1>2. Channel => PanicOnlyOnFailure
  BY DEF Channel
<1>3. IInv /\ Channel /\ [Next]_vars => Channel'
  BY ChannelStep
<1> QED
  BY <1>1, <1>2, <1>3, InitIInv, NextIInv, PTL DEF Spec
=============================================================================
