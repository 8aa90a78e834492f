---------------------------- MODULE ServerProofs ----------------------------
(* Type correctness of Server and the ownership of client pools, for every *)
(* set of arrays and pools and every bound.                                *)
EXTENDS Server, TLAPS

\* buildClients allocates: the pool it returns was not built before.
LEMMA NextPoolUnbuilt ==
    ASSUME Unbuilt # {}
    PROVE  NextPool \in Pool /\ built[NextPool] = None
  BY DEF NextPool, Unbuilt

\* A buildClients call keeps the types of the pool table and of the slots.
LEMMA BuildsType ==
    ASSUME TypeOK, NEW c \in Config, NEW s \in Slot, Builds(c, s)
    PROVE  /\ built' \in [Pool -> BuiltPool \cup {None}]
           /\ hold' \in [Slot -> Pool \cup {None}]
           /\ NextPool \in Pool
<1>1. NextPool \in Pool
  BY NextPoolUnbuilt DEF Builds
<1>2. PICK usable \in (SUBSET DOMAIN c) \ {{}} :
         built' = [built EXCEPT ![NextPool] = [from |-> c, usable |-> usable]]
  BY DEF Builds
<1>3. DOMAIN c \subseteq Arrays
  BY DEF Config
<1>4. [from |-> c, usable |-> usable] \in BuiltPool
  BY <1>2, <1>3 DEF BuiltPool
<1>5. built' \in [Pool -> BuiltPool \cup {None}]
  BY <1>1, <1>2, <1>4 DEF TypeOK
<1>6. hold' \in [Slot -> Pool \cup {None}]
  BY <1>1 DEF TypeOK, Builds
<1> QED
  BY <1>1, <1>5, <1>6

\* A close loop keeps the types of the slots and of the counters.
LEMMA ClosesType ==
    ASSUME TypeOK, NEW s \in Slot, Closes(s)
    PROVE  /\ closes' \in [Pool -> Nat]
           /\ hold' \in [Slot -> Pool \cup {None}]
  BY DEF TypeOK, Closes

LEMMA IdleType == Idle \in ReloadCall /\ Idle.pc = "idle"
  BY DEF Idle, ReloadCall

\* Spec keeps the types (the state main.go and safe_config.go can be in).
THEOREM TypeCorrect == Spec => []TypeOK
<1>1. Init => TypeOK
  <2> SUFFICES ASSUME Init PROVE TypeOK
    OBVIOUS
  <2> USE DEF Init
  <2>1. loop \in LoopState /\ boot \in BootState /\ main \in MainState
    BY DEF LoopState, BootState, MainState
  <2>2. reload \in [Reloaders -> ReloadCall]
    BY IdleType
  <2>3. budget \in [edits : 0..MaxEdits, signals : 0..MaxSignals]
    BY BoundAssumption
  <2> QED
    BY <2>1, <2>2, <2>3, IdleType DEF TypeOK, HoldsNewConfig
<1>2. TypeOK /\ [Next]_vars => TypeOK'
  <2> SUFFICES ASSUME TypeOK, [Next]_vars PROVE TypeOK'
    OBVIOUS
  <2> USE DEF Reloaders, BootState, LoopState, MainState
  <2>1. CASE EditFile
    <3>1. budget' \in [edits : 0..MaxEdits, signals : 0..MaxSignals]
      BY <2>1, BoundAssumption DEF EditFile, TypeOK
    <3>2. pending' \in [Reloaders -> Nat] /\ file' \in Config \cup {None}
      BY <2>1 DEF EditFile, TypeOK
    <3> QED
      BY <2>1, <3>1, <3>2 DEF EditFile, TypeOK, HoldsNewConfig, poolVars
  <2>2. CASE SendSighup
    <3>1. budget' \in [edits : 0..MaxEdits, signals : 0..MaxSignals]
      BY <2>2, BoundAssumption DEF SendSighup, TypeOK
    <3>2. pending' \in [Reloaders -> Nat]
      BY <2>2 DEF SendSighup, TypeOK
    <3> QED
      BY <2>2, <3>1, <3>2 DEF SendSighup, TypeOK, HoldsNewConfig, poolVars
  <2>3. CASE BootBuild
    <3>1. boot.cfg \in Config /\ "boot" \in Slot
      BY DEF TypeOK, Slot
    <3>2. Builds(boot.cfg, "boot")
      BY <2>3 DEF BootBuild
    <3> QED
      BY <2>3, <3>1, <3>2, BuildsType DEF BootBuild, TypeOK, HoldsNewConfig, envVars
  <2>4. CASE BootFail
    BY <2>4 DEF BootFail, TypeOK, HoldsNewConfig, poolVars, envVars
  <2>5. CASE BootCycle
    BY <2>5 DEF BootCycle, TypeOK, HoldsNewConfig, poolVars, envVars
  <2>6. CASE BootLaunch
    BY <2>6 DEF BootLaunch, TypeOK, HoldsNewConfig, poolVars, envVars
  <2>7. CASE BootPublish
    BY <2>7 DEF BootPublish, TypeOK, HoldsNewConfig, Slot, envVars
  <2>8. CASE Tick
    <3>1. loop' \in LoopState
      BY <2>8 DEF Tick, TypeOK
    <3> QED
      BY <2>8, <3>1 DEF Tick, TypeOK, HoldsNewConfig, poolVars, envVars
  <2>9. CASE PublishCycle
    <3>1. loop' \in LoopState /\ store' \in Pool \cup {None}
      BY <2>9 DEF PublishCycle, TypeOK
    <3> QED
      BY <2>9, <3>1 DEF PublishCycle, TypeOK, HoldsNewConfig, poolVars, envVars
  <2>10. CASE LoopStop
    BY <2>10 DEF LoopStop, TypeOK, HoldsNewConfig, poolVars, envVars
  <2>25. ASSUME NEW r \in Reloaders, TakeTrigger(r) PROVE TypeOK'
    <3>1. [Idle EXCEPT !.pc = "read"] \in ReloadCall
      BY DEF Idle, ReloadCall
    <3>2. reload' \in [Reloaders -> ReloadCall]
      BY <2>25, <3>1 DEF TakeTrigger, TypeOK
    <3>3. pending' \in [Reloaders -> Nat]
      BY <2>25 DEF TakeTrigger, TypeOK
    <3>4. HoldsNewConfig'
      BY <2>25 DEF TakeTrigger, TypeOK, HoldsNewConfig, Idle
    <3> QED
      BY <2>25, <3>2, <3>3, <3>4 DEF TakeTrigger, TypeOK, poolVars
  <2>11. ASSUME NEW r \in Reloaders, LoadFile(r) PROVE TypeOK'
    <3>1. file # None => [Idle EXCEPT !.pc = "compare", !.new = file] \in ReloadCall
      BY DEF TypeOK, Idle, ReloadCall
    <3>2. reload' \in [Reloaders -> ReloadCall]
      BY <2>11, <3>1, IdleType DEF LoadFile, TypeOK
    <3>3. past' \in [overlap : BOOLEAN, failed : BOOLEAN, late : BOOLEAN]
      BY <2>11 DEF LoadFile, TypeOK
    <3>5. HoldsNewConfig'
      BY <2>11, IdleType DEF LoadFile, TypeOK, HoldsNewConfig, Idle
    <3> QED
      BY <2>11, <3>2, <3>3, <3>5 DEF LoadFile, TypeOK, poolVars, envVars
  <2>12. ASSUME NEW r \in Reloaders, CompareNames(r) PROVE TypeOK'
    <3>1. DOMAIN cfg \subseteq Arrays
      BY DEF TypeOK, Config
    <3> QED
      BY <2>12, <3>1 DEF CompareNames, TypeOK, HoldsNewConfig, ReloadCall, poolVars, envVars
  <2>13. ASSUME NEW r \in Reloaders, SwapConfig(r) PROVE TypeOK'
    <3>1. [Idle EXCEPT !.pc = "rebuild"] \in ReloadCall
      BY DEF Idle, ReloadCall
    <3>2. reload' \in [Reloaders -> ReloadCall]
      BY <2>13, <3>1, IdleType DEF SwapConfig, TypeOK
    <3>3. cfg' \in Config
      BY <2>13 DEF SwapConfig, TypeOK, ReloadCall, HoldsNewConfig
    <3>4. HoldsNewConfig'
      BY <2>13, IdleType DEF SwapConfig, TypeOK, HoldsNewConfig, Idle
    <3> QED
      BY <2>13, <3>2, <3>3, <3>4 DEF SwapConfig, TypeOK, poolVars, envVars
  <2>14. ASSUME NEW r \in Reloaders, RebuildPool(r) PROVE TypeOK'
    <3>1. cfg \in Config /\ r \in Slot
      BY DEF TypeOK, Slot
    <3>2. Builds(cfg, r)
      BY <2>14 DEF RebuildPool
    <3> QED
      BY <2>14, <3>1, <3>2, BuildsType
         DEF RebuildPool, TypeOK, HoldsNewConfig, ReloadCall, envVars
  <2>15. ASSUME NEW r \in Reloaders, RebuildFail(r) PROVE TypeOK'
    <3>1. reload' \in [Reloaders -> ReloadCall]
      BY <2>15, IdleType DEF RebuildFail, TypeOK
    <3>2. past' \in [overlap : BOOLEAN, failed : BOOLEAN, late : BOOLEAN]
      BY <2>15 DEF RebuildFail, TypeOK
    <3>3. HoldsNewConfig'
      BY <2>15, IdleType DEF RebuildFail, TypeOK, HoldsNewConfig
    <3> QED
      BY <2>15, <3>1, <3>2, <3>3 DEF RebuildFail, TypeOK, poolVars, envVars
  <2>16. ASSUME NEW r \in Reloaders, SwapPool(r) PROVE TypeOK'
    BY <2>16 DEF SwapPool, TypeOK, HoldsNewConfig, Slot, ReloadCall, envVars
  <2>17. ASSUME NEW r \in Reloaders, HandOver(r) PROVE TypeOK'
    BY <2>17 DEF HandOver, TypeOK, HoldsNewConfig, ReloadCall, poolVars, envVars
  <2>18. ASSUME NEW r \in Reloaders, CloseOld(r) PROVE TypeOK'
    <3>1. r \in Slot
      BY DEF Slot
    <3> QED
      BY <2>18, <3>1, ClosesType, IdleType
         DEF CloseOld, TypeOK, HoldsNewConfig, envVars
  <2>19. CASE BeginShutdown
    BY <2>19 DEF BeginShutdown, TypeOK, HoldsNewConfig, poolVars, envVars
  <2>20. CASE StopCollection
    <3>1. hold' \in [Slot -> Pool \cup {None}]
      BY <2>20 DEF StopCollection, TypeOK, Slot
    <3>2. main' \in MainState
      BY <2>20 DEF StopCollection, TypeOK
    <3>3. collector' \in BOOLEAN
      BY <2>20 DEF StopCollection
    <3>4. UNCHANGED <<file, cfg, built, closes, collClients, loop, boot,
                      reload, store, pending, budget>>
      BY <2>20 DEF StopCollection, envVars
    <3>5. past' \in [overlap : BOOLEAN, failed : BOOLEAN, late : BOOLEAN]
      BY <2>20 DEF StopCollection, TypeOK
    <3> QED
      BY <3>1, <3>2, <3>3, <3>4, <3>5 DEF TypeOK, HoldsNewConfig
  <2>21. CASE CancelLoop
    BY <2>21 DEF CancelLoop, TypeOK, HoldsNewConfig, poolVars, envVars
  <2>22. CASE CloseClients
    <3>1. "main" \in Slot
      BY DEF Slot
    <3> QED
      BY <2>22, <3>1, ClosesType DEF CloseClients, TypeOK, HoldsNewConfig, envVars
  <2>23. CASE Exit
    BY <2>23 DEF Exit, TypeOK, HoldsNewConfig, poolVars, envVars
  <2>24. CASE UNCHANGED vars
    BY <2>24 DEF vars, TypeOK, HoldsNewConfig, poolVars, envVars
  <2> QED
    BY <2>1, <2>2, <2>3, <2>4, <2>5, <2>6, <2>7, <2>8, <2>9, <2>10, <2>11,
       <2>12, <2>13, <2>14, <2>15, <2>16, <2>17, <2>18, <2>19, <2>20, <2>21,
       <2>22, <2>23, <2>24, <2>25
       DEF Next, Boot, Loop, Reload, Shutdown
<1> QED
  BY <1>1, <1>2, PTL DEF Spec

-----------------------------------------------------------------------------
(* Ownership of the pools.  Only seven actions touch them: two build, three *)
(* move a pool from slot to slot, two close.                                *)

LEMMA BuildsKeepsOwnership ==
    ASSUME TypeOK, Ownership, NEW c \in Config, NEW s \in Slot,
           Builds(c, s), closes' = closes
    PROVE  Ownership'
<1> DEFINE p == NextPool
<1>1. p \in Pool /\ built[p] = None
  BY NextPoolUnbuilt DEF Builds
<1>2. closes[p] = 0 /\ \A t \in Slot : hold[t] # p
  BY <1>1 DEF Ownership, UnbuiltNotClosed, HeldPoolOpen
<1>3. PICK usable :
        built' = [built EXCEPT ![p] = [from |-> c, usable |-> usable]]
  BY DEF Builds
<1>4. hold' = [hold EXCEPT ![s] = p]
  BY DEF Builds
<1>5. built'[p] # None
  <2>1. PICK u \in (SUBSET DOMAIN c) \ {{}} :
          built' = [built EXCEPT ![p] = [from |-> c, usable |-> u]]
    BY DEF Builds
  <2>2. [from |-> c, usable |-> u] \in BuiltPool
    BY <2>1 DEF Config, BuiltPool
  <2> QED
    BY <1>1, <2>1, <2>2, NoneAssumption DEF TypeOK
<1>6. SoleOwner'
  BY <1>1, <1>2, <1>4 DEF Ownership, SoleOwner, TypeOK
<1>7. HeldPoolOpen'
  BY <1>1, <1>2, <1>3, <1>4, <1>5 DEF Ownership, HeldPoolOpen, TypeOK
<1>8. UnbuiltNotClosed'
  BY <1>1, <1>3, <1>5 DEF Ownership, UnbuiltNotClosed, TypeOK
<1>9. ClosedAtMostOnce'
  BY DEF Ownership, ClosedAtMostOnce
<1> QED
  BY <1>6, <1>7, <1>8, <1>9 DEF Ownership

LEMMA ClosesKeepsOwnership ==
    ASSUME TypeOK, Ownership, NEW s \in Slot, Closes(s), built' = built
    PROVE  Ownership'
<1>1. closes' \in [Pool -> Nat] /\ hold' = [hold EXCEPT ![s] = None]
  BY ClosesType DEF Closes
<1>2. \A p \in Pool : closes'[p] = IF p = hold[s] THEN closes[p] + 1
                                                  ELSE closes[p]
  BY DEF Closes
<1>3. \A t \in Slot : hold'[t] \in Pool => t # s /\ hold'[t] = hold[t]
  BY <1>1, NoneAssumption DEF TypeOK
<1>4. SoleOwner'
  BY <1>3 DEF Ownership, SoleOwner
<1>5. HeldPoolOpen'
  BY <1>2, <1>3 DEF Ownership, SoleOwner, HeldPoolOpen
<1>6. UnbuiltNotClosed'
  BY <1>2 DEF Ownership, UnbuiltNotClosed, HeldPoolOpen
<1>7. ClosedAtMostOnce'
  BY <1>2 DEF Ownership, ClosedAtMostOnce, HeldPoolOpen
<1> QED
  BY <1>4, <1>5, <1>6, <1>7 DEF Ownership

\* A step that moves pools between slots without copying any.
LEMMA MoveKeepsOwnership ==
    ASSUME Ownership, built' = built, closes' = closes, SoleOwner',
           \A t \in Slot : hold'[t] \in Pool => \E s \in Slot : hold[s] = hold'[t]
    PROVE  Ownership'
<1>1. HeldPoolOpen'
  BY DEF Ownership, HeldPoolOpen
<1>2. UnbuiltNotClosed' /\ ClosedAtMostOnce'
  BY DEF Ownership, UnbuiltNotClosed, ClosedAtMostOnce
<1> QED
  BY <1>1, <1>2 DEF Ownership

LEMMA SameKeepsOwnership ==
    ASSUME Ownership, UNCHANGED poolVars PROVE Ownership'
  BY DEF Ownership, SoleOwner, HeldPoolOpen, UnbuiltNotClosed,
         ClosedAtMostOnce, poolVars

\* The inductive step: no action of the program copies a pool into a second
\* slot, or closes a pool it leaves in a slot.
LEMMA OwnershipStep ==
    ASSUME TypeOK, Ownership, [Next]_vars PROVE Ownership'
<1> USE DEF Reloaders, Slot
<1>1. CASE EditFile \/ SendSighup
  BY <1>1, SameKeepsOwnership DEF EditFile, SendSighup
<1>2. CASE BootBuild
  <2>1. boot.cfg \in Config
    BY DEF TypeOK, BootState
  <2> QED
    BY <1>2, <2>1, BuildsKeepsOwnership DEF BootBuild
<1>3. CASE BootFail \/ BootCycle \/ BootLaunch
  BY <1>3, SameKeepsOwnership DEF BootFail, BootCycle, BootLaunch
<1>4. CASE BootPublish
  <2>1. SoleOwner'
    BY <1>4, NoneAssumption DEF BootPublish, TypeOK, Ownership, SoleOwner
  <2>2. \A t \in Slot : hold'[t] \in Pool => \E s \in Slot : hold[s] = hold'[t]
    BY <1>4, NoneAssumption DEF BootPublish, TypeOK
  <2> QED
    BY <1>4, <2>1, <2>2, MoveKeepsOwnership DEF BootPublish
<1>5. CASE Loop
  BY <1>5, SameKeepsOwnership DEF Loop, Tick, PublishCycle, LoopStop
<1>6. ASSUME NEW r \in Reloaders,
             \/ TakeTrigger(r) \/ LoadFile(r) \/ CompareNames(r) \/ SwapConfig(r)
             \/ RebuildFail(r) \/ HandOver(r)
      PROVE  Ownership'
  BY <1>6, SameKeepsOwnership
     DEF TakeTrigger, LoadFile, CompareNames, SwapConfig, RebuildFail, HandOver
<1>7. ASSUME NEW r \in Reloaders, RebuildPool(r) PROVE Ownership'
  <2>1. cfg \in Config
    BY DEF TypeOK
  <2> QED
    BY <1>7, <2>1, BuildsKeepsOwnership DEF RebuildPool
<1>8. ASSUME NEW r \in Reloaders, SwapPool(r) PROVE Ownership'
  <2>1. SoleOwner'
    BY <1>8, NoneAssumption DEF SwapPool, TypeOK, Ownership, SoleOwner
  <2>2. \A t \in Slot : hold'[t] \in Pool => \E s \in Slot : hold[s] = hold'[t]
    BY <1>8, NoneAssumption DEF SwapPool, TypeOK
  <2> QED
    BY <1>8, <2>1, <2>2, MoveKeepsOwnership DEF SwapPool
<1>9. ASSUME NEW r \in Reloaders, CloseOld(r) PROVE Ownership'
  BY <1>9, ClosesKeepsOwnership DEF CloseOld
<1>10. CASE BeginShutdown \/ CancelLoop \/ Exit
  BY <1>10, SameKeepsOwnership DEF BeginShutdown, CancelLoop, Exit
<1>11. CASE StopCollection
  <2>1. SoleOwner'
    BY <1>11, NoneAssumption DEF StopCollection, TypeOK, Ownership, SoleOwner
  <2>2. \A t \in Slot : hold'[t] \in Pool => \E s \in Slot : hold[s] = hold'[t]
    BY <1>11, NoneAssumption DEF StopCollection, TypeOK
  <2> QED
    BY <1>11, <2>1, <2>2, MoveKeepsOwnership DEF StopCollection
<1>12. CASE CloseClients
  BY <1>12, ClosesKeepsOwnership DEF CloseClients
<1>13. CASE UNCHANGED vars
  BY <1>13, SameKeepsOwnership DEF vars, poolVars
<1> QED
  BY <1>1, <1>2, <1>3, <1>4, <1>5, <1>6, <1>7, <1>8, <1>9, <1>10, <1>11,
     <1>12, <1>13 DEF Next, Boot, Reload, Shutdown

\* Every pool has one owner: two goroutines never have the same pool to
\* install or to close (the swaps under s.mu in main.go).
THEOREM PoolsOwned == Spec => []Ownership
<1>1. Init => Ownership
  BY NoneAssumption
     DEF Init, Ownership, SoleOwner, HeldPoolOpen, UnbuiltNotClosed,
         ClosedAtMostOnce, Slot
<1>2. TypeOK /\ Ownership /\ [Next]_vars => Ownership'
  BY OwnershipStep
<1> QED
  BY <1>1, <1>2, TypeCorrect, PTL DEF Spec

\* ReloadConfig and stopCollection never close a client twice.
THEOREM NoDoubleClose == Spec => []ClosedAtMostOnce
<1>1. Ownership => ClosedAtMostOnce
  BY DEF Ownership
<1> QED
  BY <1>1, PoolsOwned, PTL

\* The clients in s.clients are open.
THEOREM HeldPoolsAreOpen == Spec => []HeldPoolOpen
<1>1. Ownership => HeldPoolOpen
  BY DEF Ownership
<1> QED
  BY <1>1, PoolsOwned, PTL

-----------------------------------------------------------------------------
(* No leak without an overlap.                                             *)

\* The inductive step of SlotDiscipline.
LEMMA SlotDisciplineStep ==
    ASSUME TypeOK, SlotDiscipline, [Next]_vars PROVE SlotDiscipline'
<1> USE DEF SlotDiscipline, Reloaders, Slot, Reloading, MayInstall, Booting,
            Stopped
<1>1. CASE EditFile \/ SendSighup
  BY <1>1 DEF EditFile, SendSighup, poolVars
<1>2. CASE BootBuild
  BY <1>2 DEF BootBuild, Builds, TypeOK
<1>3. CASE BootFail \/ BootCycle \/ BootLaunch
  BY <1>3 DEF BootFail, BootCycle, BootLaunch, poolVars, TypeOK, BootState
<1>4. CASE BootPublish
  BY <1>4 DEF BootPublish, TypeOK, BootState
<1>5. CASE Loop
  BY <1>5 DEF Loop, Tick, PublishCycle, LoopStop, poolVars
<1>16. ASSUME NEW r \in Reloaders, TakeTrigger(r) PROVE SlotDiscipline'
  BY <1>16 DEF TakeTrigger, Idle, poolVars, TypeOK
<1>6. ASSUME NEW r \in Reloaders, LoadFile(r) PROVE SlotDiscipline'
  BY <1>6 DEF LoadFile, Idle, poolVars, TypeOK
<1>7. ASSUME NEW r \in Reloaders,
             \/ CompareNames(r) \/ SwapConfig(r) \/ HandOver(r)
      PROVE  SlotDiscipline'
  <2>1. CASE CompareNames(r)
    BY <2>1 DEF CompareNames, poolVars, TypeOK, ReloadCall
  <2>2. CASE SwapConfig(r)
    BY <2>2 DEF SwapConfig, Idle, poolVars, TypeOK
  <2>3. CASE HandOver(r)
    BY <2>3 DEF HandOver, poolVars, TypeOK, ReloadCall
  <2> QED
    BY <1>7, <2>1, <2>2, <2>3
<1>8. ASSUME NEW r \in Reloaders, RebuildFail(r) PROVE SlotDiscipline'
  BY <1>8 DEF RebuildFail, Idle, poolVars, TypeOK
<1>9. ASSUME NEW r \in Reloaders, RebuildPool(r) PROVE SlotDiscipline'
  BY <1>9 DEF RebuildPool, Builds, TypeOK, ReloadCall
<1>10. ASSUME NEW r \in Reloaders, SwapPool(r) PROVE SlotDiscipline'
  BY <1>10 DEF SwapPool, TypeOK, ReloadCall
<1>11. ASSUME NEW r \in Reloaders, CloseOld(r) PROVE SlotDiscipline'
  BY <1>11 DEF CloseOld, Closes, Idle, TypeOK
<1>12. CASE BeginShutdown \/ CancelLoop \/ Exit
  BY <1>12 DEF BeginShutdown, CancelLoop, Exit, poolVars, TypeOK, MainState
<1>13. CASE StopCollection
  BY <1>13 DEF StopCollection, TypeOK, MainState
<1>14. CASE CloseClients
  BY <1>14 DEF CloseClients, Closes, TypeOK, MainState
<1>15. CASE UNCHANGED vars
  BY <1>15 DEF vars, poolVars
<1> QED
  BY <1>1, <1>2, <1>3, <1>4, <1>5, <1>6, <1>7, <1>8, <1>9, <1>10, <1>11,
     <1>12, <1>13, <1>14, <1>15, <1>16 DEF Next, Boot, Reload, Shutdown

LEMMA SameKeepsNoLeak ==
    ASSUME LeakOnlyByOverlap, UNCHANGED poolVars, Stopped' => Stopped,
           past.overlap => past'.overlap, past.late => past'.late
    PROVE  LeakOnlyByOverlap'
  BY DEF LeakOnlyByOverlap, Leaked, poolVars

\* buildClients puts its pool into an empty slot.
LEMMA BuildsKeepsNoLeak ==
    ASSUME TypeOK, LeakOnlyByOverlap, NEW c \in Config, NEW s \in Slot,
           Builds(c, s), hold[s] = None, closes' = closes, past' = past,
           main' = main, s # "server"
    PROVE  LeakOnlyByOverlap'
<1>1. NextPool \in Pool
  BY NextPoolUnbuilt DEF Builds
<1>2. \A p \in Pool : p # NextPool => built'[p] = built[p]
  BY <1>1 DEF Builds, TypeOK
<1>3. hold'[s] = NextPool /\ \A t \in Slot : t # s => hold'[t] = hold[t]
  BY <1>1 DEF Builds, TypeOK
<1> QED
  BY <1>1, <1>2, <1>3, NoneAssumption DEF LeakOnlyByOverlap, Leaked, Stopped

\* A closed pool is not leaked, and no other leaves its slot.
LEMMA ClosesKeepsNoLeak ==
    ASSUME TypeOK, LeakOnlyByOverlap, NEW s \in Slot, Closes(s),
           built' = built, past' = past, Stopped' = Stopped
    PROVE  LeakOnlyByOverlap'
<1>1. \A p \in Pool : p = hold[s] => closes'[p] # 0
  BY DEF Closes, TypeOK
<1>2. \A p \in Pool : p # hold[s] => closes'[p] = closes[p]
  BY DEF Closes
<1>3. \A t \in Slot : t # s => hold'[t] = hold[t]
  BY DEF Closes, TypeOK
<1> QED
  BY <1>1, <1>2, <1>3 DEF LeakOnlyByOverlap, Leaked

\* The inductive step: the three slots a pool is moved or built into are empty,
\* s.clients unless a reload overlapped the boot.
LEMMA NoLeakStep ==
    ASSUME TypeOK, SlotDiscipline, LeakOnlyByOverlap, [Next]_vars
    PROVE  LeakOnlyByOverlap'
<1> USE DEF Reloaders, Slot, Stopped
<1>1. CASE EditFile \/ SendSighup
  BY <1>1, SameKeepsNoLeak DEF EditFile, SendSighup
<1>2. CASE BootBuild
  <2>1. boot.cfg \in Config /\ hold["boot"] = None
    BY <1>2 DEF BootBuild, TypeOK, BootState, SlotDiscipline
  <2> QED
    BY <1>2, <2>1, BuildsKeepsNoLeak DEF BootBuild
<1>3. CASE BootFail \/ BootCycle \/ BootLaunch
  BY <1>3, SameKeepsNoLeak DEF BootFail, BootCycle, BootLaunch
<1>4. CASE BootPublish
  <2>1. past.overlap \/ hold["server"] = None
    BY <1>4 DEF BootPublish, SlotDiscipline
  <2>4. Stopped => past.late
    BY <1>4 DEF BootPublish, SlotDiscipline, Booting
  <2>2. hold' = [hold EXCEPT !["server"] = hold["boot"], !["boot"] = None]
    BY <1>4 DEF BootPublish
  <2>3. built' = built /\ closes' = closes /\ past' = past /\ main' = main
    BY <1>4 DEF BootPublish
  <2> QED
    BY <2>1, <2>2, <2>3, <2>4, NoneAssumption
       DEF LeakOnlyByOverlap, Leaked, TypeOK
<1>5. CASE Loop
  BY <1>5, SameKeepsNoLeak DEF Loop, Tick, PublishCycle, LoopStop
<1>6. ASSUME NEW r \in Reloaders, LoadFile(r) PROVE LeakOnlyByOverlap'
  <2>1. (past.overlap => past'.overlap) /\ (past.late => past'.late)
    BY <1>6 DEF LoadFile, TypeOK
  <2> QED
    BY <1>6, <2>1, SameKeepsNoLeak DEF LoadFile
<1>7. ASSUME NEW r \in Reloaders,
             TakeTrigger(r) \/ CompareNames(r) \/ SwapConfig(r) \/ HandOver(r)
      PROVE  LeakOnlyByOverlap'
  BY <1>7, SameKeepsNoLeak DEF TakeTrigger, CompareNames, SwapConfig, HandOver
<1>8. ASSUME NEW r \in Reloaders, RebuildFail(r) PROVE LeakOnlyByOverlap'
  <2>1. (past.overlap => past'.overlap) /\ (past.late => past'.late)
    BY <1>8 DEF RebuildFail, TypeOK
  <2> QED
    BY <1>8, <2>1, SameKeepsNoLeak DEF RebuildFail
<1>9. ASSUME NEW r \in Reloaders, RebuildPool(r) PROVE LeakOnlyByOverlap'
  <2>1. cfg \in Config /\ hold[r] = None
    BY <1>9 DEF RebuildPool, TypeOK, SlotDiscipline
  <2> QED
    BY <1>9, <2>1, BuildsKeepsNoLeak DEF RebuildPool
<1>10. ASSUME NEW r \in Reloaders, SwapPool(r) PROVE LeakOnlyByOverlap'
  <2>1. hold' = [hold EXCEPT !["server"] = hold[r], ![r] = hold["server"]]
    BY <1>10 DEF SwapPool
  <2>2. built' = built /\ closes' = closes /\ past' = past /\ main' = main
    BY <1>10 DEF SwapPool
  <2>3. Stopped => past.late
    BY <1>10 DEF SwapPool, SlotDiscipline, MayInstall
  <2> QED
    BY <2>1, <2>2, <2>3 DEF LeakOnlyByOverlap, Leaked, TypeOK
<1>11. ASSUME NEW r \in Reloaders, CloseOld(r) PROVE LeakOnlyByOverlap'
  BY <1>11, ClosesKeepsNoLeak DEF CloseOld
<1>12. CASE BeginShutdown \/ CancelLoop \/ Exit
  <2>1. Stopped' = Stopped
    BY <1>12 DEF BeginShutdown, CancelLoop, Exit, TypeOK, MainState
  <2> QED
    BY <1>12, <2>1, SameKeepsNoLeak DEF BeginShutdown, CancelLoop, Exit
<1>13. CASE StopCollection
  <2>1. hold["main"] = None
    BY <1>13 DEF StopCollection, SlotDiscipline
  <2>2. hold' = [hold EXCEPT !["main"] = hold["server"], !["server"] = None]
    BY <1>13 DEF StopCollection
  <2>3. built' = built /\ closes' = closes
    BY <1>13 DEF StopCollection
  <2>4. (past.overlap => past'.overlap) /\ (past.late => past'.late)
    BY <1>13 DEF StopCollection, TypeOK
  <2>5. ~Stopped
    BY <1>13 DEF StopCollection
  <2>6. hold'["main"] = hold["server"] /\ hold'["server"] = None
        /\ \A s \in Slot \ {"main", "server"} : hold'[s] = hold[s]
    BY <2>2 DEF TypeOK
  <2> QED
    BY <2>1, <2>3, <2>4, <2>5, <2>6, NoneAssumption
       DEF LeakOnlyByOverlap, Leaked
<1>14. CASE CloseClients
  <2>1. Stopped' = Stopped
    BY <1>14 DEF CloseClients, TypeOK, MainState
  <2> QED
    BY <1>14, <2>1, ClosesKeepsNoLeak DEF CloseClients
<1>15. CASE UNCHANGED vars
  BY <1>15, SameKeepsNoLeak DEF vars, poolVars
<1> QED
  BY <1>1, <1>2, <1>3, <1>4, <1>5, <1>6, <1>7, <1>8, <1>9, <1>10, <1>11,
     <1>12, <1>13, <1>14, <1>15 DEF Next, Boot, Reload, Shutdown

\* As long as no reload overlapped the boot or another reload, and none of them
\* had a pool left to install when stopCollection came, every pool ever built is
\* closed or in the hands of somebody who will close it, through any sequence of
\* failed and successful reloads and beside a reload that has swapped its pool.
THEOREM LeaksNeedOverlap == Spec => []LeakOnlyByOverlap
<1>1. Init => SlotDiscipline /\ LeakOnlyByOverlap
  BY DEF Init, SlotDiscipline, LeakOnlyByOverlap, Leaked, Slot, Reloaders,
         Reloading, MayInstall, Stopped, Idle
<1>2. TypeOK /\ SlotDiscipline /\ LeakOnlyByOverlap /\ [Next]_vars
         => (SlotDiscipline /\ LeakOnlyByOverlap)'
  BY SlotDisciplineStep, NoLeakStep
<1> QED
  BY <1>1, <1>2, TypeCorrect, PTL DEF Spec

-----------------------------------------------------------------------------
(* The collector polls open clients of the configured arrays.              *)

\* What holds as long as the exporter serves and no reload overlapped.
Settled == Serving /\ ~past.overlap

\* One reload at a time, after boot, and whose clients the collector has: those
\* of the boot goroutine, then those of s.clients, and the old ones between the
\* swap under s.mu and SetClients.
Polls ==
    Settled =>
        /\ \A r \in Reloaders : Reloading(r) =>
             boot.pc = "done" /\ \A q \in Reloaders : Reloading(q) => q = r
        /\ boot.pc \in {"build", "failed"} => collClients = None
        /\ boot.pc \in {"cycle", "launch", "publish"} =>
             collClients = hold["boot"] /\ hold["boot"] # None
        /\ boot.pc = "done" => collector /\ hold["server"] # None
        /\ \A r \in Reloaders : reload[r].pc = "swappool" =>
             reload[r].pool = hold[r] /\ hold[r] # None
        /\ \A r \in Reloaders : reload[r].pc = "handover" =>
             /\ reload[r].running
             /\ reload[r].pool = hold["server"]
             /\ collClients = hold[r]
        /\ boot.pc = "done" /\ (\A r \in Reloaders : reload[r].pc # "handover")
             => collClients = hold["server"]

LEMMA PollsStep ==
    ASSUME TypeOK, Polls, [Next]_vars PROVE Polls'
<1> USE DEF Polls, Settled, Serving, Reloaders, Slot, Reloading
<1>1. CASE EditFile \/ SendSighup
  BY <1>1 DEF EditFile, SendSighup, poolVars
<1>2. CASE BootBuild
  <2>1. NextPool \in Pool /\ hold' = [hold EXCEPT !["boot"] = NextPool]
    BY <1>2, NextPoolUnbuilt DEF BootBuild, Builds
  <2> QED
    BY <1>2, <2>1, NoneAssumption DEF BootBuild, TypeOK, BootState
<1>3. CASE BootFail \/ BootCycle \/ BootLaunch
  BY <1>3 DEF BootFail, BootCycle, BootLaunch, poolVars, TypeOK, BootState
<1>4. CASE BootPublish
  BY <1>4 DEF BootPublish, TypeOK, BootState
<1>5. CASE Loop
  BY <1>5 DEF Loop, Tick, PublishCycle, LoopStop, poolVars
<1>16. ASSUME NEW r \in Reloaders, TakeTrigger(r) PROVE Polls'
  BY <1>16 DEF TakeTrigger, Idle, poolVars, TypeOK
<1>6. ASSUME NEW r \in Reloaders, LoadFile(r) PROVE Polls'
  BY <1>6 DEF LoadFile, Idle, poolVars, TypeOK
<1>7. ASSUME NEW r \in Reloaders, CompareNames(r) PROVE Polls'
  <2>1. reload[r].pc = "compare" /\ reload'[r].pc = "swapcfg"
    BY <1>7 DEF CompareNames, TypeOK, ReloadCall
  <2>2. \A q \in Reloaders \ {r} : reload'[q] = reload[q]
    BY <1>7 DEF CompareNames, TypeOK
  <2>3. UNCHANGED <<hold, collector, collClients, boot, main, past>>
    BY <1>7 DEF CompareNames, poolVars
  <2> QED
    BY <2>1, <2>2, <2>3
<1>8. ASSUME NEW r \in Reloaders, SwapConfig(r) PROVE Polls'
  BY <1>8 DEF SwapConfig, Idle, poolVars, TypeOK
<1>9. ASSUME NEW r \in Reloaders, RebuildFail(r) PROVE Polls'
  BY <1>9 DEF RebuildFail, Idle, poolVars, TypeOK
<1>10. ASSUME NEW r \in Reloaders, RebuildPool(r) PROVE Polls'
  <2>1. NextPool \in Pool /\ hold' = [hold EXCEPT ![r] = NextPool]
    BY <1>10, NextPoolUnbuilt DEF RebuildPool, Builds
  <2>2. /\ reload[r].pc = "rebuild" /\ reload'[r].pc = "swappool"
        /\ reload'[r].pool = NextPool
        /\ \A q \in Reloaders \ {r} : reload'[q] = reload[q]
        /\ UNCHANGED <<collector, collClients, boot, main, past>>
    BY <1>10 DEF RebuildPool, TypeOK, ReloadCall
  <2>3. hold'[r] = NextPool /\ \A s \in Slot \ {r} : hold'[s] = hold[s]
    BY <2>1 DEF TypeOK
  <2> QED
    BY <2>1, <2>2, <2>3, NoneAssumption
<1>11. ASSUME NEW r \in Reloaders, SwapPool(r) PROVE Polls'
  <2>1. /\ reload[r].pc = "swappool" /\ reload'[r].pc = "handover"
        /\ reload'[r].pool = reload[r].pool
        /\ reload'[r].running = collector
        /\ \A q \in Reloaders \ {r} : reload'[q] = reload[q]
        /\ UNCHANGED <<collector, collClients, boot, main, past>>
    BY <1>11 DEF SwapPool, TypeOK, ReloadCall
  <2>2. hold'["server"] = hold[r] /\ hold'[r] = hold["server"]
        /\ \A s \in Slot \ {r, "server"} : hold'[s] = hold[s]
    BY <1>11 DEF SwapPool, TypeOK
  <2> QED
    BY <2>1, <2>2
<1>12. ASSUME NEW r \in Reloaders, HandOver(r) PROVE Polls'
  BY <1>12 DEF HandOver, poolVars, TypeOK, ReloadCall
<1>13. ASSUME NEW r \in Reloaders, CloseOld(r) PROVE Polls'
  BY <1>13 DEF CloseOld, Closes, Idle, TypeOK
<1>14. CASE BeginShutdown \/ Shutdown
  BY <1>14 DEF BeginShutdown, Shutdown, StopCollection, CancelLoop,
     CloseClients, Exit, TypeOK, MainState
<1>15. CASE UNCHANGED vars
  BY <1>15 DEF vars
<1> QED
  BY <1>1, <1>2, <1>3, <1>4, <1>5, <1>6, <1>7, <1>8, <1>9, <1>10, <1>11,
     <1>12, <1>13, <1>14, <1>15, <1>16 DEF Next, Boot, Reload

\* Pool p is of the array names of the current configuration.
BuiltFor(p) == DOMAIN built[p].from = DOMAIN cfg

\* Which pool is of the current names: none between the swap of an array set and
\* the rebuild, then the reloader's, and s.clients otherwise.
Names ==
    Settled /\ ~past.failed =>
        /\ boot.pc = "build" => boot.cfg = cfg
        /\ boot.pc \in {"cycle", "launch", "publish"} => BuiltFor(hold["boot"])
        /\ \A r \in Reloaders : reload[r].pc = "swapcfg" =>
             reload[r].names = DOMAIN cfg
        /\ \A r \in Reloaders : reload[r].pc = "swappool" => BuiltFor(hold[r])
        /\ boot.pc = "done"
           /\ (\A r \in Reloaders : reload[r].pc \notin {"rebuild", "swappool"})
             => BuiltFor(hold["server"])

\* buildClients builds for the names it is given, and only the new pool.
LEMMA BuildsFor ==
    ASSUME TypeOK, Ownership, NEW c \in Config, NEW s \in Slot, Builds(c, s)
    PROVE  /\ hold'[s] = NextPool /\ built'[NextPool].from = c
           /\ \A t \in Slot \ {s} : hold'[t] = hold[t]
           /\ \A t \in Slot : hold[t] \in Pool =>
                built'[hold[t]] = built[hold[t]]
<1>1. NextPool \in Pool /\ built[NextPool] = None
  BY NextPoolUnbuilt DEF Builds
<1>2. PICK u : built' = [built EXCEPT ![NextPool] = [from |-> c, usable |-> u]]
  BY DEF Builds
<1>3. hold' = [hold EXCEPT ![s] = NextPool]
  BY DEF Builds
<1>4. built'[NextPool].from = c
  BY <1>1, <1>2 DEF TypeOK
<1>5. \A t \in Slot : hold[t] \in Pool => built'[hold[t]] = built[hold[t]]
  BY <1>1, <1>2 DEF TypeOK, Ownership, HeldPoolOpen
<1> QED
  BY <1>1, <1>3, <1>4, <1>5 DEF TypeOK

LEMMA NamesStep ==
    ASSUME TypeOK, Ownership, Polls, Names, [Next]_vars PROVE Names'
<1> USE DEF Names, Settled, Serving, Reloaders, Slot, BuiltFor
<1>1. CASE EditFile \/ SendSighup
  BY <1>1 DEF EditFile, SendSighup, poolVars
<1>2. CASE BootBuild
  <2>1. boot.cfg \in Config /\ Builds(boot.cfg, "boot")
    BY <1>2 DEF BootBuild, TypeOK, BootState
  <2>2. hold'["boot"] = NextPool /\ built'[NextPool].from = boot.cfg
    BY <2>1, BuildsFor
  <2>3. boot'.pc = "cycle"
        /\ UNCHANGED <<cfg, reload, main, past>>
    BY <1>2 DEF BootBuild, TypeOK, BootState
  <2>4. Settled => \A r \in Reloaders : ~Reloading(r)
    BY <1>2 DEF BootBuild, Polls, Reloading
  <2> QED
    BY <1>2, <2>2, <2>3, <2>4 DEF BootBuild, Reloading
<1>3. CASE BootFail \/ BootCycle \/ BootLaunch
  BY <1>3 DEF BootFail, BootCycle, BootLaunch, poolVars, TypeOK, BootState
<1>4. CASE BootPublish
  BY <1>4 DEF BootPublish, TypeOK, BootState, Polls, Reloading
<1>5. CASE Loop
  BY <1>5 DEF Loop, Tick, PublishCycle, LoopStop, poolVars
<1>16. ASSUME NEW r \in Reloaders, TakeTrigger(r) PROVE Names'
  BY <1>16 DEF TakeTrigger, Idle, poolVars, TypeOK, Reloading
<1>6. ASSUME NEW r \in Reloaders, LoadFile(r) PROVE Names'
  BY <1>6 DEF LoadFile, Idle, poolVars, TypeOK, Reloading
<1>7. ASSUME NEW r \in Reloaders, CompareNames(r) PROVE Names'
  BY <1>7 DEF CompareNames, poolVars, TypeOK, ReloadCall
<1>8. ASSUME NEW r \in Reloaders, SwapConfig(r) PROVE Names'
  BY <1>8 DEF SwapConfig, Idle, poolVars, TypeOK, Polls, Reloading,
     NameSetsEqual
<1>9. ASSUME NEW r \in Reloaders, RebuildFail(r) PROVE Names'
  BY <1>9 DEF RebuildFail, TypeOK
<1>10. ASSUME NEW r \in Reloaders, RebuildPool(r) PROVE Names'
  <2>1. cfg \in Config /\ r \in Slot /\ Builds(cfg, r)
    BY <1>10 DEF RebuildPool, TypeOK
  <2>2. hold'[r] = NextPool /\ built'[NextPool].from = cfg
    BY <2>1, BuildsFor
  <2>3. /\ reload'[r].pc = "swappool"
        /\ \A q \in Reloaders \ {r} : reload'[q] = reload[q]
        /\ UNCHANGED <<cfg, boot, main, past>>
    BY <1>10 DEF RebuildPool, TypeOK, ReloadCall
  <2>4. Settled => /\ boot.pc = "done"
                   /\ \A q \in Reloaders \ {r} : ~Reloading(q)
    BY <1>10 DEF RebuildPool, Polls, Reloading
  <2> QED
    BY <2>2, <2>3, <2>4 DEF Reloading
<1>11. ASSUME NEW r \in Reloaders, SwapPool(r) PROVE Names'
  <2>1. /\ reload[r].pc = "swappool" /\ reload'[r].pc = "handover"
        /\ \A q \in Reloaders \ {r} : reload'[q] = reload[q]
        /\ UNCHANGED <<built, cfg, boot, main, past>>
    BY <1>11 DEF SwapPool, TypeOK, ReloadCall
  <2>2. hold'["server"] = hold[r]
    BY <1>11 DEF SwapPool, TypeOK
  <2>3. Settled => /\ boot.pc = "done"
                   /\ \A q \in Reloaders \ {r} : ~Reloading(q)
    BY <2>1 DEF Polls, Reloading
  <2> QED
    BY <2>1, <2>2, <2>3 DEF Reloading
<1>12. ASSUME NEW r \in Reloaders, HandOver(r) PROVE Names'
  BY <1>12 DEF HandOver, poolVars, TypeOK, ReloadCall
<1>13. ASSUME NEW r \in Reloaders, CloseOld(r) PROVE Names'
  BY <1>13 DEF CloseOld, Closes, Idle, TypeOK, Polls, Reloading
<1>14. CASE BeginShutdown \/ Shutdown
  BY <1>14 DEF BeginShutdown, Shutdown, StopCollection, CancelLoop,
     CloseClients, Exit, TypeOK, MainState
<1>15. CASE UNCHANGED vars
  BY <1>15 DEF vars
<1> QED
  BY <1>1, <1>2, <1>3, <1>4, <1>5, <1>6, <1>7, <1>8, <1>9, <1>10, <1>11,
     <1>12, <1>13, <1>14, <1>15, <1>16 DEF Next, Boot, Reload

LEMMA PollsHolds == Spec => [](Polls /\ Names)
<1>1. Init => Polls /\ Names
  BY DEF Init, Polls, Names, Settled, Reloaders, Reloading, Idle, Slot
<1>2. TypeOK /\ Ownership /\ Polls /\ Names /\ [Next]_vars
        => (Polls /\ Names)'
  BY PollsStep, NamesStep
<1> QED
  BY <1>1, <1>2, TypeCorrect, PoolsOwned, PTL DEF Spec

\* Without overlapping reloads the collector never holds closed clients while
\* the exporter serves: those it has are in a slot, and slots hold open pools.
THEOREM PolledPoolIsOpen == Spec => []CollectorPoolOpen
<1>1. TypeOK /\ Ownership /\ Polls => CollectorPoolOpen
  <2> SUFFICES ASSUME TypeOK, Ownership, Polls, Settled, collClients # None
               PROVE  closes[collClients] = 0
    BY DEF CollectorPoolOpen, Settled
  <2>1. \E s \in Slot : collClients = hold[s]
    BY DEF Polls, Slot, Reloaders, TypeOK, BootState
  <2>2. collClients \in Pool
    BY DEF TypeOK
  <2> QED
    BY <2>1, <2>2 DEF Ownership, HeldPoolOpen
<1> QED
  BY <1>1, TypeCorrect, PoolsOwned, PollsHolds, PTL

\* After any number of reloads that neither overlapped nor failed, the collector
\* polls s.clients, and they are the arrays of the configuration.
THEOREM QuietlyAgreed == Spec => []QuietAgreement
<1>1. Polls /\ Names => QuietAgreement
  BY DEF Polls, Names, QuietAgreement, Quiet, Settled, Serving, Reloading,
     BuiltFor
<1> QED
  BY <1>1, PollsHolds, PTL

\* A reload that reports an unchanged array set leaves the collector with the
\* clients of the file it read (safe_config.go compares names only).
THEOREM SkipIsHarmless == Spec => SkippedRebuildIsHarmless
<1>1. ASSUME TypeOK, Polls, Names, Names', [Next]_vars,
             NEW r \in Reloaders, UnchangedReload(r),
             ~past.overlap, ~past.failed
      PROVE  DOMAIN built[collClients].from = DOMAIN cfg'
  <2> USE DEF UnchangedReload, Reloading
  <2>1. SwapConfig(r)
    BY <1>1 DEF Next, vars, EditFile, SendSighup, Boot, BootBuild, BootFail,
       BootCycle, BootLaunch, BootPublish, Loop, Tick, PublishCycle, LoopStop,
       Reload, TakeTrigger, LoadFile, CompareNames, SwapConfig, RebuildPool, RebuildFail,
       SwapPool, HandOver, CloseOld, BeginShutdown, Shutdown, StopCollection,
       CancelLoop, CloseClients, Exit, TypeOK, Reloaders, Idle
  <2>2. \A q \in Reloaders : q # r => ~Reloading(q)
    BY <1>1 DEF Polls, Settled
  <2>3. collClients = hold["server"] /\ BuiltFor(hold["server"])
    BY <1>1, <2>2 DEF Polls, Names, Settled
  <2>4. reload[r].names = DOMAIN cfg
    BY <1>1 DEF Names, Settled
  <2>5. DOMAIN cfg' = reload[r].names
    BY <1>1, <2>1 DEF SwapConfig, TypeOK, NameSetsEqual
  <2> QED
    BY <2>3, <2>4, <2>5 DEF BuiltFor
<1>2. TypeOK /\ Polls /\ Names /\ Names' /\ [Next]_vars
        => [\A r \in Reloaders :
              UnchangedReload(r) /\ ~past.overlap /\ ~past.failed =>
                DOMAIN built[collClients].from = DOMAIN cfg']_vars
  BY <1>1
<1> QED
  BY <1>2, TypeCorrect, PollsHolds, PTL DEF Spec, SkippedRebuildIsHarmless
=============================================================================
