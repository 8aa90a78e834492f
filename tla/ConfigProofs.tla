----------------------------- MODULE ConfigProofs -----------------------------
(* Whatever a file, an environment and the password files hold: what is    *)
(* loaded can be used and holds no reference, and only what was loaded is  *)
(* ever run.                                                               *)
EXTENDS ConfigWatch, TLAPS

\* A load that succeeds has resolved every array and passed Validate
\* (safe_config.go:52, main.go:437).
LEMMA LoadSucceeds ==
    ASSUME NEW e, NEW d, NEW raw, Load(e, d, raw) # Failed
    PROVE  /\ Load(e, d, raw) = SetDefaults(raw, ResolveSecrets(e, d, raw))
           /\ Valid(Load(e, d, raw))
           /\ \A i \in DOMAIN raw.arrays :
                Resolved(ResolveArray(e, d, raw.arrays[i]))
  BY DEF Load, ResolveSecrets

\* What Validate accepts after the secrets are resolved has usable arrays
\* (config.go:211).
LEMMA LoadUsable ==
    ASSUME NEW e, NEW d, NEW raw, Load(e, d, raw) # Failed
    PROVE  UsableArrays(Load(e, d, raw).arrays)
<1> DEFINE c == Load(e, d, raw)
<1>1. /\ c.arrays = ResolveSecrets(e, d, raw)
      /\ \A i \in DOMAIN c.arrays : Resolved(c.arrays[i])
  BY LoadSucceeds DEF SetDefaults, ResolveSecrets
<1>2. ValidArrays(c.arrays)
  BY LoadSucceeds DEF Valid
<1>3. \A i \in DOMAIN c.arrays :
         {c.arrays[i].endpoint, c.arrays[i].username, c.arrays[i].password}
            \cap {"", Failed} = {}
  BY <1>1, <1>2 DEF ValidArrays, Resolved
<1> HIDE DEF c
<1> QED
  BY <1>2, <1>3 DEF UsableArrays, ValidArrays, c

\* A credential that came through is what its template refers to.
LEMMA SecretExpands ==
    ASSUME NEW e, NEW t \in Template, ExpandEnvSecret(e, t) # Failed
    PROVE  Expands(e, t, ExpandEnvSecret(e, t))
  BY DEF ExpandEnvSecret, ExpandEnv, Expands, IsReference, Template, Text

LEMMA SkipExpands ==
    ASSUME NEW e, NEW b \in EnvBool, Resolve(e, b) # Failed
    PROVE  ExpandsSkip(e, b, Resolve(e, b))
<1> SUFFICES ASSUME IsReference(b.raw)
             PROVE  /\ ExpandEnv(e, b.raw) # Failed
                    /\ Resolve(e, b) = ParseBool(ExpandEnv(e, b.raw))
  BY DEF ExpandsSkip
<1>1. Resolve(e, b) = ParseBool(ExpandEnv(e, b.raw))
  BY DEF Resolve, IsEmpty, IsReference
<1>2. Failed \notin {"true", "false", ""}
  BY MarkAssumption DEF Text
<1> QED
  BY <1>1, <1>2 DEF ParseBool

\* References of all four fields are expanded or refuse the file, unless the
\* array's password comes from a file (env.go:92).
LEMMA LoadExpands ==
    ASSUME NEW e, NEW d, NEW raw \in RawConfig, Load(e, d, raw) # Failed,
           NEW i \in DOMAIN raw.arrays
    PROVE  LET a == raw.arrays[i]
               r == Load(e, d, raw).arrays[i]
           IN  /\ Expands(e, a.endpoint, r.endpoint)
               /\ Expands(e, a.username, r.username)
               /\ ~FromFile(a) =>
                    /\ Expands(e, a.password, r.password)
                    /\ ExpandsSkip(e, a.insecureSkipVerify,
                                   r.insecureSkipVerify)
<1> DEFINE a == raw.arrays[i]
           r == Load(e, d, raw).arrays[i]
<1>1. a \in RawArray
  BY DEF RawConfig
<1>2. r = ResolveArray(e, d, a) /\ Resolved(r)
  BY LoadSucceeds DEF SetDefaults, ResolveSecrets
<1> HIDE DEF a, r
<1>3. /\ r.endpoint = ExpandEnvSecret(e, a.endpoint)
      /\ r.username = ExpandEnvSecret(e, a.username)
      /\ ~FromFile(a) =>
           /\ r.password = ExpandEnvSecret(e, a.password)
           /\ r.insecureSkipVerify = Resolve(e, a.insecureSkipVerify)
  BY <1>2 DEF ResolveArray, Password, SkipVerify
<1>4. /\ a.endpoint \in Template /\ a.username \in Template
      /\ a.password \in Template /\ a.insecureSkipVerify \in EnvBool
  BY <1>1 DEF RawArray
<1>5. ~FromFile(a) => ExpandsSkip(e, a.insecureSkipVerify, r.insecureSkipVerify)
  BY <1>2, <1>3, <1>4, SkipExpands DEF Resolved
<1>6. /\ Expands(e, a.endpoint, r.endpoint)
      /\ Expands(e, a.username, r.username)
      /\ ~FromFile(a) => Expands(e, a.password, r.password)
  BY <1>2, <1>3, <1>4, SecretExpands DEF Resolved
<1> QED
  BY <1>5, <1>6 DEF a, r

-----------------------------------------------------------------------------
\* Configuration x is the outcome of a load of content x.raw.
LoadedFrom(x) ==
    /\ x.raw \in RawConfig
    /\ \E d \in Disk : x.cfg = Load(env, d, x.raw) /\ x.cfg # Failed

\* What the steps of the two reloaders carry through edits and signals.
IInv ==
    /\ disk \in Disk
    /\ file \in RawConfig \cup {Missing}
    /\ writing \in Files \cup {NoConfig}
    /\ main = "dotenv" => run = NoConfig /\ \A r \in Reloader : rel[r] = Idle
    /\ run # NoConfig => LoadedFrom(run)
    /\ rel = [r \in Reloader |-> rel[r]]
    /\ \A r \in Reloader : rel[r].pc = "swap" => LoadedFrom(rel[r].new)

\* A load that succeeds now yields something loaded.
LEMMA LoadedNow ==
    ASSUME IInv, Loaded.cfg # Failed
    PROVE  LoadedFrom(Loaded)
  BY DEF IInv, Loaded, LoadedFrom, Load

\* What an editor leaves on the way is a content like any other.
LEMMA TornContent ==
    ASSUME NEW raw \in Files, NEW f \in Torn(raw)
    PROVE  f \in RawConfig \cup {Missing}
<1>1. raw \in RawConfig /\ raw.arrays \in Seq(RawArray)
  BY FileAssumption DEF RawConfig
<1>2. \A n \in 1..(Len(raw.arrays) - 1) :
         SubSeq(raw.arrays, 1, n) \in Seq(RawArray)
  BY <1>1
<1>3. \A s \in Seq(RawArray) : [raw EXCEPT !.arrays = s] \in RawConfig
  BY <1>1 DEF RawConfig
<1> QED
  BY <1>2, <1>3 DEF Torn

LEMMA InitIInv == Init => IInv
  BY FileAssumption DEF Init, IInv, Idle, Reloader

\* Boot and edits: env changes only while nothing has been loaded.
LEMMA BootEditStep ==
    ASSUME IInv, Boot \/ Shutdown \/ Edit \/ WriteEnds \/ SendSIGHUP
    PROVE  IInv'
<1> USE DEF IInv
<1>1. CASE LoadDotEnv
  BY <1>1 DEF LoadDotEnv, LoadedFrom, Idle
<1>2. CASE ValidateConfig
  <2>1. CASE Loaded.cfg = Failed
    BY <1>2, <2>1 DEF ValidateConfig, LoadedFrom
  <2>2. CASE Loaded.cfg # Failed
    BY <1>2, <2>2, LoadedNow DEF ValidateConfig, LoadedFrom
  <2> QED
    BY <2>1, <2>2
<1>3. CASE SetupSIGHUPHandler \/ WatchConfigFile \/ Shutdown \/ SendSIGHUP
  BY <1>3 DEF SetupSIGHUPHandler, WatchConfigFile, Shutdown, SendSIGHUP,
              LoadedFrom
<1>4. CASE WriteBegins
  <2>1. PICK raw \in Files : writing' = raw /\ file' \in Torn(raw)
    BY <1>4 DEF WriteBegins
  <2>2. file' \in RawConfig \cup {Missing}
    BY <2>1, TornContent
  <2> QED
    BY <1>4, <2>1, <2>2 DEF WriteBegins, process, LoadedFrom
<1>5. CASE WriteEnds \/ RenameOver \/ Remove \/ SwapLink
  <2>1. file' \in RawConfig \cup {Missing}
    BY <1>5, FileAssumption DEF WriteEnds, RenameOver, Remove, SwapLink
  <2> QED
    BY <1>5, <2>1
       DEF WriteEnds, RenameOver, Remove, SwapLink, process, LoadedFrom
<1>6. CASE EditSecret
  BY <1>6 DEF EditSecret, process, LoadedFrom, Disk
<1> QED
  BY <1>1, <1>2, <1>3, <1>4, <1>5, <1>6 DEF Boot, Edit

\* The goroutines of watcher.go and SafeConfig.ReloadConfig.
LEMMA ReloadStep ==
    ASSUME IInv, TakeSignal \/ TakeEvent \/ \E r \in Reloader : Reload(r)
    PROVE  IInv'
<1> USE DEF IInv
<1>1. CASE TakeSignal \/ TakeEvent
  <2>1. rel' = rel \/ \E r \in Reloader : Begin(r)
    BY <1>1 DEF TakeSignal, TakeEvent, Reloader
  <2>2. /\ \A r \in Reloader : rel'[r].pc = "swap" => rel'[r] = rel[r]
        /\ rel' = [r \in Reloader |-> rel'[r]]
    BY <2>1 DEF Begin, Idle
  <2>3. main # "dotenv" /\ UNCHANGED <<env, disk, file, writing, main, run>>
    BY <1>1 DEF TakeSignal, TakeEvent, Live
  <2> QED
    BY <2>2, <2>3 DEF LoadedFrom
<1>2. ASSUME NEW r \in Reloader, ReadFile(r) PROVE IInv'
  <2>1. CASE Loaded.cfg = Failed
    BY <1>2, <2>1 DEF ReadFile, Live, LoadedFrom, Idle
  <2>2. CASE Loaded.cfg # Failed
    <3>1. LoadedFrom(Loaded)
      BY <2>2, LoadedNow
    <3> QED
      BY <1>2, <2>2, <3>1 DEF ReadFile, Live, LoadedFrom
  <2> QED
    BY <2>1, <2>2
<1>3. ASSUME NEW r \in Reloader, Swap(r) PROVE IInv'
  BY <1>3 DEF Swap, Live, LoadedFrom, Idle
<1> QED
  BY <1>1, <1>2, <1>3 DEF Reload

LEMMA NextIInv == IInv /\ [Next]_vars => IInv'
<1> SUFFICES ASSUME IInv, [Next]_vars PROVE IInv'
  OBVIOUS
<1>1. CASE Next
  BY <1>1, BootEditStep, ReloadStep DEF Next
<1>2. CASE UNCHANGED vars
  BY <1>2 DEF IInv, vars, LoadedFrom
<1> QED
  BY <1>1, <1>2

-----------------------------------------------------------------------------
\* In every reachable state the running configuration is the outcome of one
\* load that succeeded: edits, torn writes and racing reloads never mix two
\* contents (safe_config.go:79).
THEOREM OnlyLoadsRun == Spec => []IInv
<1>1. Init => IInv
  BY InitIInv
<1>2. IInv /\ [Next]_vars => IInv'
  BY NextIInv
<1> QED
  BY <1>1, <1>2, PTL DEF Spec

\* The running arrays can be used: distinct names, an endpoint, credentials
\* that are not empty (safe_config.go:63).
THEOREM RunsUsable == Spec => []RunningArraysUsable
<1>1. IInv => RunningArraysUsable
  BY LoadUsable DEF IInv, RunningArraysUsable, LoadedFrom
<1> QED
  BY <1>1, OnlyLoadsRun, PTL

\* And no reference survives in it, beside the exception of env.go:98.
THEOREM RunsExpanded == Spec => []NoReferenceSurvives
<1>1. IInv => NoReferenceSurvives
  BY LoadExpands DEF IInv, NoReferenceSurvives, LoadedFrom
<1> QED
  BY <1>1, OnlyLoadsRun, PTL

-----------------------------------------------------------------------------
(* Types.                                                                  *)

\* What is appended to the queue is an event, and made is counted up to its
\* bounds only.
LEMMA EditTypes ==
    ASSUME TypeOK, Edit \/ WriteEnds
    PROVE  /\ events' \in Seq(Event)
           /\ made' \in [edits : 0..MaxEdits, signals : 0..MaxSignals]
           /\ silent' \in BOOLEAN
<1>1. \A own \in BOOLEAN, op \in {"write", "create", "remove"} :
        [own |-> own, op |-> op] \in Event
  BY DEF Event
<1>2. CASE WriteBegins \/ WriteEnds \/ RenameOver \/ Remove \/ SwapLink
  <2>1. PICK own \in BOOLEAN, op \in {"write", "create", "remove"} :
          \/ events' = events
          \/ events' = Append(events, [own |-> own, op |-> op])
    BY <1>2 DEF WriteBegins, WriteEnds, RenameOver, Remove, SwapLink, Notify
  <2>2. events' \in Seq(Event)
    <3>1. events \in Seq(Event) /\ [own |-> own, op |-> op] \in Event
      BY <1>1 DEF TypeOK
    <3> QED
      BY <2>1, <3>1
  <2>3. silent' \in BOOLEAN
    BY <1>2, Zenon
       DEF WriteBegins, WriteEnds, RenameOver, Remove, SwapLink, Notify
  <2>4. made' = made \/ /\ made.edits < MaxEdits
                        /\ made' = [made EXCEPT !.edits = @ + 1]
    BY <1>2 DEF WriteBegins, WriteEnds, RenameOver, Remove, SwapLink, MayEdit
  <2> QED
    BY <2>2, <2>3, <2>4, BoundAssumption DEF TypeOK
<1>3. CASE EditSecret
  BY <1>3, BoundAssumption DEF EditSecret, MayEdit, TypeOK
<1> QED
  BY <1>2, <1>3 DEF Edit

LEMMA TypeStep ==
    ASSUME TypeOK, IInv, [Next]_vars PROVE TypeOK'
<1>1. CASE LoadDotEnv
  <2>1. PICK cwd \in DotEnvs, beside \in DotEnvs :
          LET found == IF cwd # Missing THEN cwd ELSE beside
          IN  env' = IF found = Missing THEN env
                     ELSE [v \in Var |-> IF env[v] = Unset THEN found[v]
                                         ELSE env[v]]
    BY <1>1 DEF LoadDotEnv
  <2>2. env' \in Environment
    BY <2>1, EnvironmentAssumption DEF TypeOK, Environment
  <2> QED
    BY <1>1, <2>2 DEF LoadDotEnv, TypeOK
<1>2. CASE ValidateConfig
  BY <1>2 DEF ValidateConfig, TypeOK
<1>3. CASE SetupSIGHUPHandler \/ WatchConfigFile \/ Shutdown
  <2>1. \/ main' = "handler" /\ watching' = FALSE
        \/ main' = "run" /\ watching' \in BOOLEAN
        \/ main' = "down" /\ watching' = FALSE
    <3>1. CASE SetupSIGHUPHandler
      BY <3>1 DEF SetupSIGHUPHandler, TypeOK
    <3>2. CASE WatchConfigFile
      BY <3>2 DEF WatchConfigFile
    <3>3. CASE Shutdown
      BY <3>3 DEF Shutdown
    <3> QED
      BY <1>3, <3>1, <3>2, <3>3
  <2>2. UNCHANGED <<env, disk, writing, events, signal, rel, made, silent,
                    stale, swapped>>
    BY <1>3 DEF SetupSIGHUPHandler, WatchConfigFile, Shutdown
  <2> QED
    BY <2>1, <2>2 DEF TypeOK
<1>4. CASE Edit \/ WriteEnds
  <2>1. disk' \in Disk /\ writing' \in Files \cup {NoConfig}
    <3>1. IInv'
      BY <1>4, BootEditStep
    <3> QED
      BY <3>1 DEF IInv
  <2>2. swapped' \in BOOLEAN
    BY <1>4 DEF Edit, WriteBegins, WriteEnds, RenameOver, Remove, SwapLink,
                EditSecret, TypeOK
  <2>3. UNCHANGED <<signal, process>>
    BY <1>4 DEF Edit, WriteBegins, WriteEnds, RenameOver, Remove, SwapLink,
                EditSecret
  <2> QED
    BY <1>4, <2>1, <2>2, <2>3, EditTypes DEF TypeOK, process
<1>5. CASE SendSIGHUP
  <2>1. made' \in [edits : 0..MaxEdits, signals : 0..MaxSignals]
    BY <1>5, BoundAssumption DEF SendSIGHUP, TypeOK
  <2> QED
    BY <1>5, <2>1 DEF SendSIGHUP, TypeOK
<1>6. CASE TakeSignal \/ TakeEvent
  <2>1. \A r \in Reloader : rel'[r].pc \in {"idle", "read", "swap"}
    BY <1>6 DEF TakeSignal, TakeEvent, Begin, Idle, IInv, TypeOK
  <2>2. events' \in Seq(Event) /\ signal' \in BOOLEAN
    <3>1. events \in Seq(Event) /\ signal \in BOOLEAN
      BY DEF TypeOK
    <3>2. \/ events' = events /\ signal' = FALSE
          \/ events # <<>> /\ events' = Tail(events) /\ signal' = signal
      BY <1>6 DEF TakeSignal, TakeEvent
    <3>3. events # <<>> => Tail(events) \in Seq(Event)
      BY <3>1
    <3> QED
      BY <3>1, <3>2, <3>3
  <2> QED
    BY <1>6, <2>1, <2>2 DEF TakeSignal, TakeEvent, TypeOK
<1>7. ASSUME NEW r \in Reloader, Reload(r) PROVE TypeOK'
  <2>1. rel' = [rel EXCEPT ![r] = rel'[r]]
        /\ rel'[r].pc \in {"idle", "swap"}
    <3>1. rel = [q \in Reloader |-> rel[q]]
      BY DEF IInv
    <3>2. CASE ReadFile(r)
      <4>1. PICK x \in {Idle, [pc |-> "swap", new |-> Loaded]} :
              rel' = [rel EXCEPT ![r] = x]
        BY <3>2 DEF ReadFile
      <4> QED
        BY <3>1, <4>1 DEF Idle
    <3>3. CASE Swap(r)
      BY <3>1, <3>3 DEF Swap, Idle
    <3> QED
      BY <1>7, <3>2, <3>3 DEF Reload
  <2>2. \A q \in Reloader : rel'[q].pc \in {"idle", "read", "swap"}
    BY <2>1 DEF IInv, TypeOK
  <2>3. silent' \in BOOLEAN /\ stale' \subseteq Reloader \cup {"run"}
    BY <1>7 DEF Reload, ReadFile, Swap, StaleAfter, TypeOK
  <2>4. UNCHANGED <<env, disk, writing, main, events, watching, signal, made,
                    swapped>>
    BY <1>7 DEF Reload, ReadFile, Swap
  <2> QED
    BY <2>2, <2>3, <2>4 DEF TypeOK
<1>8. CASE UNCHANGED vars
  BY <1>8 DEF vars, TypeOK
<1> QED
  BY <1>1, <1>2, <1>3, <1>4, <1>5, <1>6, <1>7, <1>8 DEF Next, Boot

\* Spec keeps the types: the watcher's queue holds events, and there is a
\* watcher only while main serves (main.go:246).
THEOREM ConfigTypes == Spec => []TypeOK
<1>1. Init => TypeOK
  <2> SUFFICES ASSUME Init PROVE TypeOK
    OBVIOUS
  <2>1. env \in Environment /\ disk \in Disk
    BY EnvironmentAssumption DEF Init
  <2>2. made \in [edits : 0..MaxEdits, signals : 0..MaxSignals]
    BY BoundAssumption DEF Init
  <2>3. \A r \in Reloader : rel[r].pc = "idle"
    BY DEF Init, Idle
  <2>4. events \in Seq(Event)
    BY DEF Init
  <2> QED
    BY <2>1, <2>2, <2>3, <2>4 DEF Init, TypeOK
<1>2. TypeOK /\ IInv /\ [Next]_vars => TypeOK'
  BY TypeStep
<1> QED
  BY <1>1, <1>2, OnlyLoadsRun, PTL DEF Spec

-----------------------------------------------------------------------------
(* What runs when all is quiet.                                            *)

\* A change will still be noticed: its event is queued, its writer is not done,
\* or a reload is about to read the file.
Due ==
    \/ writing # NoConfig
    \/ \E i \in DOMAIN events : Matters(events[i])
    \/ \E r \in Reloader : rel[r].pc = "read"

\* x is what the file says, or the file says nothing that could run.
Current(x) == Loaded.cfg = Failed \/ x.cfg = Loaded.cfg

\* What r holds will be installed over nothing newer.
InTime(r) == rel[r].pc = "swap" /\ r \notin stale

\* Unless a change went unheard, whatever is not current is due to be replaced,
\* or outdated: first what a reloader holds, then what runs.
Fresh ==
    /\ events \in Seq(Event)
    /\ main \in {"dotenv", "validate", "serve"} =>
         \A r \in Reloader : rel[r].pc = "idle"
    /\ main \in {"serve", "handler", "run"} /\ ~silent /\ ~Due =>
         /\ \A r \in Reloader : InTime(r) => Current(rel[r].new)
         /\ (\A r \in Reloader : ~InTime(r)) => "run" \in stale \/ Current(run)

\* A change that is heard leaves an event, or it is in the history.
LEMMA HeardIsDue ==
    ASSUME events \in Seq(Event), NEW op \in {"write", "create"},
           Notify(TRUE, op, TRUE)
    PROVE  events' \in Seq(Event) /\ (silent' \/ Due')
<1> DEFINE e == [own |-> TRUE, op |-> op]
<1>1. e \in Event /\ Matters(e)
  BY DEF Event, Matters
<1>2. CASE watching
  <2>1. events' = Append(events, e)
    BY <1>2 DEF Notify
  <2>2. events' \in Seq(Event) /\ Len(events) + 1 \in DOMAIN events'
        /\ events'[Len(events) + 1] = e
    BY <1>1, <2>1
  <2> QED
    BY <1>1, <2>2 DEF Due
<1>3. CASE ~watching
  <2>1. events' = events
    BY <1>3 DEF Notify
  <2>2. silent'
    BY <1>3, Zenon DEF Notify
  <2> QED
    BY <2>1, <2>2
<1> QED
  BY <1>2, <1>3

LEMMA UnheardIsSilent ==
    ASSUME events \in Seq(Event), NEW own \in BOOLEAN,
           NEW op \in {"create", "remove"}, Notify(own, op, FALSE)
    PROVE  events' \in Seq(Event) /\ silent'
<1>1. [own |-> own, op |-> op] \in Event
  BY DEF Event
<1>2. events' \in Seq(Event)
  BY <1>1 DEF Notify
<1>3. silent'
  BY Zenon DEF Notify
<1> QED
  BY <1>2, <1>3

\* A step that leaves the file and both reloaders alone.
LEMMA SameKeepsFresh ==
    ASSUME Fresh, UNCHANGED <<env, disk, file, writing, run, events, rel, stale>>,
           silent' = silent,
           main' \in {"dotenv", "validate", "serve"} =>
             main \in {"dotenv", "validate", "serve"},
           main' \in {"serve", "handler", "run"} =>
             main \in {"serve", "handler", "run"}
    PROVE  Fresh'
  BY DEF Fresh, Due, Current, Loaded, InTime

LEMMA FreshStep ==
    ASSUME IInv, Fresh, [Next]_vars PROVE Fresh'
<1>0. rel = [r \in Reloader |-> rel[r]]
  BY DEF IInv
<1>1. CASE LoadDotEnv
  BY <1>1 DEF LoadDotEnv, Fresh
<1>2. CASE ValidateConfig
  <2>1. /\ \A r \in Reloader : rel'[r].pc = "idle"
        /\ events' \in Seq(Event)
    BY <1>2 DEF ValidateConfig, Fresh
  <2>2. main' = "serve" => Current(run)'
    BY <1>2 DEF ValidateConfig, Current, Loaded
  <2>3. main' \in {"exit", "serve"}
    BY <1>2 DEF ValidateConfig
  <2> QED
    BY <2>1, <2>2, <2>3 DEF Fresh, InTime
<1>3. CASE SetupSIGHUPHandler \/ WatchConfigFile \/ Shutdown \/ SendSIGHUP
  BY <1>3, SameKeepsFresh
     DEF SetupSIGHUPHandler, WatchConfigFile, Shutdown, SendSIGHUP
<1>4. ASSUME UNCHANGED <<main, rel, stale>>, silent' \/ Due',
             events' \in Seq(Event)
      PROVE  Fresh'
  BY <1>4 DEF Fresh
<1>5. CASE WriteBegins
  <2>1. Due'
    BY <1>5, FileAssumption DEF WriteBegins, Due
  <2>2. events' \in Seq(Event)
    BY <1>5, HeardIsDue DEF WriteBegins, Fresh
  <2> QED
    BY <1>4, <1>5, <2>1, <2>2 DEF WriteBegins, process
<1>6. CASE WriteEnds \/ RenameOver
  BY <1>4, <1>6, HeardIsDue DEF WriteEnds, RenameOver, process, Fresh
<1>7. CASE Remove \/ SwapLink
  BY <1>4, <1>7, UnheardIsSilent DEF Remove, SwapLink, process, Fresh
<1>8. CASE EditSecret
  BY <1>4, <1>8 DEF EditSecret, process, Fresh
<1>9. ASSUME NEW r \in Reloader, Begin(r), rel[r].pc = "idle", Live,
             events' \in Seq(Event), UNCHANGED <<main, stale>>
      PROVE  Fresh'
  <2>1. rel'[r].pc = "read"
        /\ \A q \in Reloader \ {r} : rel'[q] = rel[q]
    BY <1>0, <1>9 DEF Begin, Idle
  <2>2. Due'
    BY <2>1 DEF Due
  <2> QED
    BY <1>9, <2>1, <2>2 DEF Fresh, Live
<1>10. CASE TakeSignal
  BY <1>9, <1>10 DEF TakeSignal, Reloader, Fresh
<1>11. CASE TakeEvent
  <2>1. events' = Tail(events) /\ events' \in Seq(Event) /\ events # <<>>
    BY <1>11 DEF TakeEvent, Fresh
  <2>2. CASE Matters(Head(events))
    BY <1>9, <1>11, <2>1, <2>2 DEF TakeEvent, Reloader
  <2>3. CASE ~Matters(Head(events))
    <3>1. UNCHANGED <<env, disk, file, writing, main, run, rel, stale, silent>>
      BY <1>11, <2>3 DEF TakeEvent
    <3>2. ASSUME NEW i \in DOMAIN events, Matters(events[i])
          PROVE  \E j \in DOMAIN events' : Matters(events'[j])
      <4>1. events \in Seq(Event)
        BY DEF Fresh
      <4>2. i \in 2..Len(events)
        BY <2>3, <3>2, <4>1
      <4>3. i - 1 \in DOMAIN events' /\ events'[i - 1] = events[i]
        BY <2>1, <4>1, <4>2
      <4> QED
        BY <3>2, <4>3
    <3>3. Due => Due'
      BY <3>1, <3>2 DEF Due
    <3> QED
      BY <2>1, <3>1, <3>3 DEF Fresh, Current, Loaded, InTime
  <2> QED
    BY <2>2, <2>3
<1>12. ASSUME NEW r \in Reloader, ReadFile(r) PROVE Fresh'
  <2>1. Loaded' = Loaded
    BY <1>12 DEF ReadFile, Loaded
  <2>2. events' = events /\ main' = main /\ Live
    BY <1>12 DEF ReadFile
  <2>3. CASE Loaded.cfg = Failed
    BY <2>1, <2>2, <2>3 DEF Fresh, Current, Live
  <2>4. CASE Loaded.cfg # Failed
    <3>1. /\ rel'[r].pc = "swap" /\ rel'[r].new = Loaded /\ r \notin stale'
          /\ \A q \in Reloader \ {r} : rel'[q] = rel[q]
          /\ \A q \in Reloader \ {r} : rel[q].pc = "swap" => q \in stale'
      <4> HIDE DEF Loaded
      <4>1. /\ rel' = [rel EXCEPT ![r] = [pc |-> "swap", new |-> Loaded]]
            /\ stale' = (stale \cap {"run"})
                          \cup {q \in Reloader \ {r} : rel[q].pc = "swap"}
        BY <1>12, <2>4 DEF ReadFile
      <4> QED
        BY <1>0, <4>1 DEF Reloader
    <3>2. /\ InTime(r)' /\ Current(rel[r].new)'
          /\ \A q \in Reloader \ {r} : ~InTime(q)'
      <4> HIDE DEF Loaded
      <4> QED
        BY <2>1, <3>1 DEF InTime, Current
    <3> HIDE DEF Loaded
    <3> QED
      BY <2>2, <3>2 DEF Fresh, Live
  <2> QED
    BY <2>3, <2>4
<1>13. ASSUME NEW r \in Reloader, Swap(r) PROVE Fresh'
  <2>1. /\ rel'[r].pc = "idle" /\ run' = rel[r].new /\ rel[r].pc = "swap"
        /\ \A q \in Reloader \ {r} : rel'[q] = rel[q]
    BY <1>0, <1>13 DEF Swap, Idle
  <2>2. Loaded' = Loaded
    BY <1>13 DEF Swap, Loaded
  <2>3. UNCHANGED <<events, main, silent, writing>> /\ Live
    BY <1>13 DEF Swap
  <2>4. Due => Due'
    BY <2>1, <2>3 DEF Due
  <2>5. /\ r \in stale => "run" \in stale'
        /\ \A q \in Reloader \ {r} : InTime(q)' <=> InTime(q)
        /\ ~InTime(r)'
    BY <1>13, <2>1 DEF Swap, StaleAfter, InTime, Reloader
  <2> QED
    BY <2>1, <2>2, <2>3, <2>4, <2>5 DEF Fresh, Current, Live, InTime
<1>14. CASE UNCHANGED vars
  BY <1>14, SameKeepsFresh DEF vars
<1> QED
  BY <1>1, <1>2, <1>3, <1>5, <1>6, <1>7, <1>8, <1>10, <1>11, <1>12, <1>13,
     <1>14 DEF Next, Boot, Edit, Reload

\* When nothing is under way and every change was heard, the process runs what
\* the file says, or the last swap was of an outdated read: events, signals,
\* torn writes and overlapping reloads may come in any order (watcher.go:60,
\* safe_config.go:79).
THEOREM QuietRuns == Spec => []QuietRunsFile
<1>1. Init => Fresh
  BY DEF Init, Fresh, Idle, Reloader
<1>2. IInv /\ Fresh /\ [Next]_vars => Fresh'
  BY FreshStep
<1>3. Fresh => QuietRunsFile
  BY DEF Fresh, QuietRunsFile, Quiet, Due, Current, InTime
<1> QED
  BY <1>1, <1>2, <1>3, OnlyLoadsRun, PTL DEF Spec
=============================================================================
