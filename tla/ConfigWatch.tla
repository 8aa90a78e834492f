------------------------------ MODULE ConfigWatch ------------------------------
(***************************************************************************)
(* How an edit of the configuration reaches the running process: the boot  *)
(* sequence of main (.env, validateConfig, Start, the SIGHUP handler, the  *)
(* file watcher), the ways in which a file is replaced with the events     *)
(* each of them leaves, and the two goroutines that reload.                *)
(*                                                                         *)
(* Server takes what happens from SafeConfig.ReloadConfig on apart further *)
(* and assumes that every edit leaves an event; here that is the question. *)
(***************************************************************************)
EXTENDS ConfigLoad

CONSTANTS
    Files,        \* contents that the file starts with and that edits leave
    Environments, \* environments that the process may be started in
    DotEnvs,      \* contents of the two .env files
    Edits,        \* the kinds of edits made
    NoConfig,     \* validateConfig has not returned
    MaxEdits,     \* bound: changes of the file and of password files
    MaxSignals    \* bound: SIGHUPs sent

ASSUME FileAssumption ==
    /\ Files \subseteq RawConfig
    /\ Missing \notin Files
    /\ NoConfig \notin Files \cup {Missing, Failed}
ASSUME EnvironmentAssumption ==
    /\ Environments \subseteq Environment
    /\ DotEnvs \subseteq Environment \cup {Missing}
ASSUME EditAssumption ==
    Edits \subseteq {"inplace", "rename", "remove", "swap", "secret"}
ASSUME BoundAssumption == MaxEdits \in Nat /\ MaxSignals \in Nat

Reloader == {"sighup", "watcher"}

VARIABLES
    env,          \* the environment of the process
    disk,         \* the password files
    file,         \* what configPath holds
    writing,      \* what an editor is writing in place, or NoConfig
    main,         \* how far main has come
    run,          \* SafeConfig.C, with the file content it was loaded from
    events,       \* what fsnotify has not delivered yet
    watching,     \* the directory watcher is installed
    signal,       \* the channel of one signal is full
    rel,          \* the ReloadConfig of each reloader
    made,         \* how many edits and signals there have been
    silent,       \* history: a change left no event, and no one has read since
    stale,        \* history: whose read of the file, or "run", is outdated
    swapped       \* history: the last edit swapped the link under a watcher

vars == <<env, disk, file, writing, main, run, events, watching, signal, rel,
          made, silent, stale, swapped>>

process == <<env, main, run, watching, rel, stale>>

Event == [own : BOOLEAN, op : {"write", "create", "remove"}]
Idle == [pc |-> "idle", new |-> NoConfig]

TypeOK ==
    /\ env \in Environment
    /\ disk \in Disk
    /\ writing \in Files \cup {NoConfig}
    /\ main \in {"dotenv", "validate", "serve", "handler", "run", "down",
                 "exit", "killed"}
    /\ events \in Seq(Event)
    /\ watching \in BOOLEAN
    /\ watching => main = "run"
    /\ signal \in BOOLEAN
    /\ \A r \in Reloader : rel[r].pc \in {"idle", "read", "swap"}
    /\ made \in [edits : 0..MaxEdits, signals : 0..MaxSignals]
    /\ silent \in BOOLEAN /\ swapped \in BOOLEAN
    /\ stale \subseteq Reloader \cup {"run"}

Init ==
    /\ env \in Environments
    /\ disk \in Disk
    /\ file \in Files
    /\ writing = NoConfig
    /\ main = "dotenv"
    /\ run = NoConfig
    /\ events = <<>>
    /\ watching = FALSE
    /\ signal = FALSE
    /\ rel = [r \in Reloader |-> Idle]
    /\ made = [edits |-> 0, signals |-> 0]
    /\ silent = FALSE
    /\ stale = {}
    /\ swapped = FALSE

-----------------------------------------------------------------------------
(* Boot, in the order of main.                                             *)

\* The first .env that can be loaded sets the variables that are not set.
LoadDotEnv ==
    /\ main = "dotenv"
    /\ \E cwd, beside \in DotEnvs :
         LET found == IF cwd # Missing THEN cwd ELSE beside
         IN  env' = IF found = Missing THEN env
                    ELSE [v \in Var |-> IF env[v] = Unset THEN found[v]
                                        ELSE env[v]]
    /\ main' = "validate"
    /\ UNCHANGED <<disk, file, writing, run, events, watching, signal, rel,
                   made, silent, stale, swapped>>

\* What a load of the file gives now, with the content it came from.
Loaded == [cfg |-> Load(env, disk, file), raw |-> file]

\* validateConfig; an error ends the process.
ValidateConfig ==
    /\ main = "validate"
    /\ IF Loaded.cfg = Failed
       THEN main' = "exit" /\ UNCHANGED run
       ELSE main' = "serve" /\ run' = Loaded
    /\ silent' = FALSE
    /\ UNCHANGED <<env, disk, file, writing, events, watching, signal, rel,
                   made, stale, swapped>>

\* server.Start has returned; signal.Notify replaces the default action.
SetupSIGHUPHandler ==
    /\ main = "serve"
    /\ main' = "handler"
    /\ UNCHANGED <<env, disk, file, writing, run, events, watching, signal,
                   rel, made, silent, stale, swapped>>

\* The watcher is installed, or a warning says that SIGHUP is still available.
WatchConfigFile ==
    /\ main = "handler"
    /\ main' = "run"
    /\ watching' \in BOOLEAN
    /\ UNCHANGED <<env, disk, file, writing, run, events, signal, rel, made,
                   silent, stale, swapped>>

\* Fault: the watcher is not handed to the server, so nobody closes it.
ShutdownKeepsWatcher ==
    /\ main = "run"
    /\ main' = "down"
    /\ UNCHANGED <<env, disk, file, writing, run, events, watching, signal,
                   rel, made, silent, stale, swapped>>

\* Shutdown closes the watcher; reloads under way go on.
Shutdown ==
    /\ main = "run"
    /\ main' = "down"
    /\ watching' = FALSE
    /\ UNCHANGED <<env, disk, file, writing, run, events, signal, rel, made,
                   silent, stale, swapped>>

Boot == LoadDotEnv \/ ValidateConfig \/ SetupSIGHUPHandler \/ WatchConfigFile

-----------------------------------------------------------------------------
(* Edits.  The directory is watched, so every change in it is an event;    *)
(* own says that the event names the configuration file.                   *)

MayEdit(kind) ==
    /\ kind \in Edits
    /\ main \notin {"exit", "killed"}
    /\ made.edits < MaxEdits
    /\ writing = NoConfig
    /\ made' = [made EXCEPT !.edits = @ + 1]

\* heard: the change leaves an event that makes the watcher reload.
Notify(own, op, heard) ==
    /\ events' = IF watching THEN Append(events, [own |-> own, op |-> op])
                 ELSE events
    /\ silent' = (silent \/ ~watching \/ ~heard)

\* What a reader may find while raw is written: a document that ends early.
Torn(raw) ==
    {Missing} \cup {[raw EXCEPT !.arrays = SubSeq(@, 1, n)] :
                      n \in 1..(Len(raw.arrays) - 1)}

WriteBegins ==
    /\ MayEdit("inplace")
    /\ \E raw \in Files : writing' = raw /\ file' \in Torn(raw)
    /\ Notify(TRUE, "write", TRUE)
    /\ swapped' = FALSE
    /\ UNCHANGED <<disk, signal, process>>

WriteEnds ==
    /\ writing # NoConfig
    /\ file' = writing
    /\ writing' = NoConfig
    /\ Notify(TRUE, "write", TRUE)
    /\ UNCHANGED <<disk, signal, made, swapped, process>>

\* A new file is renamed over the old one.
RenameOver ==
    /\ MayEdit("rename")
    /\ file' \in Files
    /\ Notify(TRUE, "create", TRUE)
    /\ swapped' = FALSE
    /\ UNCHANGED <<disk, writing, signal, process>>

Remove ==
    /\ MayEdit("remove")
    /\ file' = Missing
    /\ Notify(TRUE, "remove", FALSE)
    /\ swapped' = FALSE
    /\ UNCHANGED <<disk, writing, signal, process>>

\* Kubernetes updates a mounted ConfigMap: the file is a link through ..data,
\* and ..data is replaced.
SwapLink ==
    /\ MayEdit("swap")
    /\ file' \in Files
    /\ Notify(FALSE, "create", FALSE)
    /\ swapped' = watching
    /\ UNCHANGED <<disk, writing, signal, process>>

\* A password file changes; it may lie in another directory.
EditSecret ==
    /\ MayEdit("secret")
    /\ \E p \in Path, x \in Secrets : disk' = [disk EXCEPT ![p] = x]
    /\ silent' = TRUE
    /\ swapped' = FALSE
    /\ UNCHANGED <<file, writing, events, signal, process>>

\* Before signal.Notify the default action of SIGHUP ends the process.
SendSIGHUP ==
    /\ made.signals < MaxSignals
    /\ made' = [made EXCEPT !.signals = @ + 1]
    /\ IF main \in {"dotenv", "validate", "serve"}
       THEN main' = "killed" /\ UNCHANGED signal
       ELSE signal' = TRUE /\ UNCHANGED main
    /\ UNCHANGED <<env, disk, file, writing, run, events, watching, rel,
                   silent, stale, swapped>>

-----------------------------------------------------------------------------
(* The two goroutines.                                                     *)

Live == main \in {"handler", "run", "down"}

Begin(r) == rel' = [rel EXCEPT ![r] = [Idle EXCEPT !.pc = "read"]]

\* for range sighup
TakeSignal ==
    /\ Live
    /\ rel["sighup"].pc = "idle"
    /\ signal
    /\ signal' = FALSE
    /\ Begin("sighup")
    /\ UNCHANGED <<env, disk, file, writing, main, run, events, watching, made,
                   silent, stale, swapped>>

\* Fault: only writes of the file count.
MattersOnWrite(e) == e.own /\ e.op = "write"

\* The base name is that of the file, and the event is a Write or a Create.
Matters(e) == e.own /\ e.op \in {"write", "create"}

TakeEvent ==
    /\ Live
    /\ watching
    /\ rel["watcher"].pc = "idle"
    /\ events # <<>>
    /\ events' = Tail(events)
    /\ IF Matters(Head(events)) THEN Begin("watcher") ELSE UNCHANGED rel
    /\ UNCHANGED <<env, disk, file, writing, main, run, watching, signal, made,
                   silent, stale, swapped>>

\* SafeConfig.ReloadConfig up to the lock: an invalid file changes nothing.
ReadFile(r) ==
    /\ Live
    /\ rel[r].pc = "read"
    /\ IF Loaded.cfg = Failed
       THEN rel' = [rel EXCEPT ![r] = Idle] /\ UNCHANGED stale
       ELSE /\ rel' = [rel EXCEPT ![r] = [pc |-> "swap", new |-> Loaded]]
            /\ stale' = (stale \cap {"run"})
                          \cup {q \in Reloader \ {r} : rel[q].pc = "swap"}
    /\ silent' = FALSE
    /\ UNCHANGED <<env, disk, file, writing, main, run, events, watching,
                   signal, made, swapped>>

\* Whose read is outdated once r has swapped its own in.
StaleAfter(r) ==
    (stale \ {r, "run"}) \cup (IF r \in stale THEN {"run"} ELSE {})

\* Fault: events that came during the reload are thrown away as repetitions.
SwapDrains(r) ==
    /\ Live
    /\ rel[r].pc = "swap"
    /\ run' = rel[r].new
    /\ rel' = [rel EXCEPT ![r] = Idle]
    /\ events' = <<>>
    /\ stale' = StaleAfter(r)
    /\ UNCHANGED <<env, disk, file, writing, main, watching, signal, made,
                   silent, swapped>>

\* sc.C = &newCfg, under a lock that was not held while the file was read: an
\* outdated configuration may be swapped in over a newer one.
Swap(r) ==
    /\ Live
    /\ rel[r].pc = "swap"
    /\ run' = rel[r].new
    /\ rel' = [rel EXCEPT ![r] = Idle]
    /\ stale' = StaleAfter(r)
    /\ UNCHANGED <<env, disk, file, writing, main, events, watching, signal,
                   made, silent, swapped>>

Reload(r) == ReadFile(r) \/ Swap(r)

-----------------------------------------------------------------------------
Edit == WriteBegins \/ RenameOver \/ Remove \/ SwapLink \/ EditSecret

Next ==
    \/ Boot \/ Shutdown
    \/ Edit \/ WriteEnds
    \/ SendSIGHUP
    \/ TakeSignal \/ TakeEvent
    \/ \E r \in Reloader : Reload(r)

Spec == Init /\ [][Next]_vars

\* Goroutines run, fsnotify delivers, and an editor that began a write ends it.
Fairness ==
    /\ WF_vars(Boot) /\ WF_vars(WriteEnds)
    /\ WF_vars(TakeSignal) /\ WF_vars(TakeEvent)
    /\ \A r \in Reloader : WF_vars(Reload(r))

LiveSpec == Spec /\ Fairness

-----------------------------------------------------------------------------
(* Properties.                                                             *)

\* Whatever is edited, torn or removed, and in whatever order the two
\* reloaders read and swap, the arrays that run are told apart by their names,
\* and each has an endpoint and complete credentials (safe_config.go:63 checks
\* before it swaps).  Of the period nothing is said: Validate takes any duration
\* that parses (config.go:199), and NewTicker panics on 0s.
RunningArraysUsable == run # NoConfig => UsableArrays(run.cfg.arrays)

\* No field of a running array still holds a reference or what an unset
\* variable would give, except the boolean of an array whose password comes
\* from a file (env.go:98).
NoReferenceSurvives ==
    run # NoConfig => \A i \in DOMAIN run.raw.arrays :
        LET a == run.raw.arrays[i]
            r == run.cfg.arrays[i]
        IN  /\ Expands(env, a.endpoint, r.endpoint)
            /\ Expands(env, a.username, r.username)
            /\ ~FromFile(a) =>
                 /\ Expands(env, a.password, r.password)
                 /\ ExpandsSkip(env, a.insecureSkipVerify,
                                r.insecureSkipVerify)

\* Nobody is writing, nothing is under way, and no change went unheard.
Quiet ==
    /\ main = "run" /\ writing = NoConfig
    /\ events = <<>> /\ ~signal
    /\ \A r \in Reloader : rel[r].pc = "idle"
    /\ ~silent

\* When all is quiet, what runs is what the file says, or the file is invalid:
\* torn writes, the order of events and signals, and reloads that overlap leave
\* only one thing behind, which the code does not prevent (safe_config.go:78): a
\* SIGHUP reload reads the file, the file is edited, the watcher reads and swaps
\* the edit in, and the SIGHUP reload swaps its outdated read in after it.
QuietRunsFile ==
    Quiet /\ Loaded.cfg # Failed => run.cfg = Loaded.cfg \/ "run" \in stale

\* The file the last edit leaves comes to run, if the watcher is there, the edit
\* is of a kind that it hears (watcher.go:60), and the swap that is the last is
\* not the outdated one of QuietRunsFile.
LastEditWins ==
    <>[](/\ main = "run" /\ writing = NoConfig /\ ~silent
         /\ "run" \notin stale /\ Loaded.cfg # Failed)
        => <>[](run # NoConfig /\ run.cfg = Loaded.cfg)

-----------------------------------------------------------------------------
(* What the documentation says and the code does not keep.                 *)

\* "${ENV_VAR} references in endpoint, username, password, and
\* insecureSkipVerify are expanded at config load; an unset variable fails
\* startup loudly".
ReferencesExpanded ==
    run # NoConfig => \A i \in DOMAIN run.raw.arrays :
        ExpandsSkip(env, run.raw.arrays[i].insecureSkipVerify,
                    run.cfg.arrays[i].insecureSkipVerify)

\* "Arrays can be added, removed, or re-credentialed with kill -HUP or a
\* ConfigMap update": an update made while the directory is watched comes to
\* run, unless another edit or the end of the process comes first.
ConfigMapUpdateTakesEffect ==
    (swapped /\ watching /\ Loaded.cfg # Failed)
        ~> (run # NoConfig /\ run.cfg = Loaded.cfg) \/ ~swapped \/ ~watching
=============================================================================
