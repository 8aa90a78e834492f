---------------------------- MODULE Replication -----------------------------
(***************************************************************************)
(* ArrayClient.replicationMetrics (client.go): the longest of the calls a  *)
(* collection makes.  The replication sessions are enumerated page by page *)
(* by offset, while the array may create and delete sessions; then the     *)
(* volumes that have one are asked for their transfer rate by a fan-out of *)
(* bounded width (parallelSamples).                                        *)
(*                                                                         *)
(* The same page loop enumerates drives, witnesses and alerts, the same    *)
(* fan-out asks for appliances, file systems and volume groups.            *)
(***************************************************************************)
EXTENDS Integers, SequencesExt

CONSTANTS
    Id,           \* session ids, in the order the array sorts them by
    Volume,       \* volume ids
    NotVolume,    \* no local volume: a session of another resource type
    VolumeOf,     \* the local resource of each session
    PageSize,     \* sessions per page
    Limit         \* maxConcurrency

ASSUME IdAssumption == Id \subseteq Nat /\ IsFiniteSet(Id)
ASSUME VolumeAssumption ==
    NotVolume \notin Volume /\ VolumeOf \in [Id -> Volume \cup {NotVolume}]
ASSUME SizeAssumption == PageSize \in Nat \ {0} /\ Limit \in Nat \ {0}

VARIABLES
    list,         \* environment: the sessions the array has
    stable,       \* history: those it has had since the enumeration began
    removed,      \* history: was a session deleted during the enumeration
    pc,           \* where replicationMetrics is
    offset,       \* of the next page
    all,          \* the sessions listed so far
    volumeIDs,    \* the items of the fan-out
    task,         \* the goroutine of each item
    per,          \* the sample slot of each item
    samples       \* what replicationMetrics returns

vars == <<list, stable, removed, pc, offset, all, volumeIDs, task, per, samples>>

array == <<list, stable, removed>>

Samples == [rules : BOOLEAN, states : Seq(Id), transfers : Seq(Volume)]

TypeOK ==
    /\ list \subseteq Id
    /\ stable \subseteq list
    /\ removed \in BOOLEAN
    /\ pc \in {"rules", "page", "fan", "done"}
    /\ offset \in {k * PageSize : k \in 0..Cardinality(Id)}
    /\ all \in Seq(Id)
    /\ volumeIDs \in Seq(Volume)
    /\ task \in [DOMAIN volumeIDs -> {"todo", "running", "done"}]
    /\ per \in [DOMAIN volumeIDs -> Seq(Volume)]
    /\ samples \in Samples

Init ==
    /\ list \in SUBSET Id
    /\ stable = list
    /\ removed = FALSE
    /\ pc = "rules"
    /\ offset = 0
    /\ all = <<>>
    /\ volumeIDs = <<>>
    /\ task = <<>>
    /\ per = <<>>
    /\ samples = [rules |-> FALSE, states |-> <<>>, transfers |-> <<>>]

-----------------------------------------------------------------------------
(* The array.                                                              *)

\* A session is created; its id may sort anywhere.
Create(s) ==
    /\ pc \in {"rules", "page"}
    /\ s \notin list
    /\ list' = list \cup {s}
    /\ stable' = IF pc = "rules" THEN list' ELSE stable
    /\ UNCHANGED <<removed, pc, offset, all, volumeIDs, task, per, samples>>

Delete(s) ==
    /\ pc \in {"rules", "page"}
    /\ s \in list
    /\ list' = list \ {s}
    /\ stable' = stable \ {s}
    /\ removed' = (removed \/ pc = "page")
    /\ UNCHANGED <<pc, offset, all, volumeIDs, task, per, samples>>

\* How many sessions are sorted before s.
Rank(s) == Cardinality({t \in list : t < s})

\* A query with Order("id"), Limit and Offset.
Page == [k \in {n \in 1..PageSize : offset + n <= Cardinality(list)} |->
            CHOOSE s \in list : Rank(s) = offset + k - 1]

-----------------------------------------------------------------------------
(* The enumeration.                                                        *)

\* The rules are fetched first, and a failure is logged only.
Rules ==
    /\ pc = "rules"
    /\ \E ok \in BOOLEAN : samples' = [samples EXCEPT !.rules = ok]
    /\ pc' = "page"
    /\ UNCHANGED <<array, offset, all, volumeIDs, task, per>>

\* The first short page is the last.
IsLast(page) == Len(page) < PageSize

\* Fault: the sessions of volume groups and file systems are not passed over.
ResourcesOf(sessions) ==
    LET seen[n \in 0..Len(sessions)] ==
          IF n = 0 THEN <<>>
          ELSE IF VolumeOf[sessions[n]] \in ToSet(seen[n - 1]) THEN seen[n - 1]
          ELSE Append(seen[n - 1], VolumeOf[sessions[n]])
    IN  seen[Len(sessions)]

\* The volumes of the volume-type sessions, once each, in first-seen order:
\* seen[n] is the list after n sessions.
replicatedVolumeResources(sessions) ==
    LET seen[n \in 0..Len(sessions)] ==
          IF n = 0 THEN <<>>
          ELSE IF VolumeOf[sessions[n]] \in ToSet(seen[n - 1]) \cup {NotVolume}
          THEN seen[n - 1]
          ELSE Append(seen[n - 1], VolumeOf[sessions[n]])
    IN  seen[Len(sessions)]

\* The states of all sessions are emitted, and the fan-out begins.
Listed(sessions) ==
    /\ samples' = [samples EXCEPT !.states = sessions]
    /\ volumeIDs' = replicatedVolumeResources(sessions)
    /\ task' = [i \in DOMAIN volumeIDs' |-> "todo"]
    /\ per' = [i \in DOMAIN volumeIDs' |-> <<>>]
    /\ pc' = "fan"

PageAnswers ==
    /\ pc = "page"
    /\ LET page == Page IN
         /\ all' = all \o page
         /\ \/ IsLast(page) /\ Listed(all') /\ UNCHANGED offset
            \/ /\ ~IsLast(page)
               /\ offset' = offset + PageSize
               /\ UNCHANGED <<pc, volumeIDs, task, per, samples>>
    /\ UNCHANGED array

\* Fault: what was listed before the error is used.
PageFailsHalfway ==
    /\ pc = "page"
    /\ Listed(all)
    /\ UNCHANGED <<array, offset, all>>

\* An error on any page: only the rules' samples are returned.
PageFails ==
    /\ pc = "page"
    /\ pc' = "done"
    /\ UNCHANGED <<array, offset, all, volumeIDs, task, per, samples>>

-----------------------------------------------------------------------------
(* The fan-out.                                                            *)

Running == {i \in DOMAIN task : task[i] = "running"}

\* Fault: a goroutine does not give its place back.
RoomUsedUp == Cardinality({i \in DOMAIN task : task[i] # "todo"}) < Limit

\* g.Go waits for a free place.
HasRoom == Cardinality(Running) < Limit

\* g.Go, in the order of the items.
Launch(i) ==
    /\ pc = "fan"
    /\ task[i] = "todo"
    /\ \A j \in 1..(i - 1) : task[j] # "todo"
    /\ HasRoom
    /\ task' = [task EXCEPT ![i] = "running"]
    /\ UNCHANGED <<array, pc, offset, all, volumeIDs, per, samples>>

\* Fault: the goroutines share the loop variable.
LoopItem(i) ==
    volumeIDs[CHOOSE k \in DOMAIN task :
                /\ task[k] # "todo"
                /\ \A j \in DOMAIN task : task[j] # "todo" => j <= k]

\* The item goroutine i works on.
Item(i) == volumeIDs[i]

\* fn returns: with the samples of its item, or, after an error, with none.
Finish(i) ==
    /\ pc = "fan"
    /\ task[i] = "running"
    /\ task' = [task EXCEPT ![i] = "done"]
    /\ \/ per' = [per EXCEPT ![i] = <<Item(i)>>]
       \/ UNCHANGED per
    /\ UNCHANGED <<array, pc, offset, all, volumeIDs, samples>>

\* g.Wait()
AllDone == \A i \in DOMAIN task : task[i] = "done"

\* The slots are concatenated in item order.
Join ==
    /\ pc = "fan"
    /\ AllDone
    /\ samples' = [samples EXCEPT !.transfers = FlattenSeq(per)]
    /\ pc' = "done"
    /\ UNCHANGED <<array, offset, all, volumeIDs, task, per>>

-----------------------------------------------------------------------------
Next ==
    \/ \E s \in Id : Create(s) \/ Delete(s)
    \/ Rules \/ PageAnswers \/ PageFails
    \/ \E i \in DOMAIN task : Launch(i) \/ Finish(i)
    \/ Join

Spec == Init /\ [][Next]_vars

\* Every call returns, at the latest at its deadline, and goroutines run on.
Fairness ==
    /\ WF_vars(Rules) /\ WF_vars(PageAnswers \/ PageFails) /\ WF_vars(Join)
    /\ WF_vars(\E i \in DOMAIN task : Launch(i) \/ Finish(i))

LiveSpec == Spec /\ Fairness

-----------------------------------------------------------------------------
(* Properties.                                                             *)

\* Whatever is created while the pages are fetched, sessions that were there
\* all along are all reported or none is (an error on a later page takes back
\* the earlier ones), as long as no session is deleted in between: a deletion
\* moves the rest of the list below the offset (client.go:511).
StableSessionsReported ==
    pc \in {"fan", "done"} /\ ~removed =>
        \/ samples.states = <<>> /\ volumeIDs = <<>>
        \/ stable \subseteq ToSet(samples.states)

\* A volume is asked for once, although it may have several sessions and a
\* session may be listed on two pages: a second sample of it would be an
\* invalid series (derive_replication.go:72).  The transfers are in the order of
\* the sessions whose volumes they are of, and in the end every goroutine that
\* fetched something is in (client.go:391).
OneTransferPerVolume ==
    LET transfers == samples.transfers
    IN  /\ IsInjective(transfers)
        /\ pc = "done" =>
             /\ ToSet(transfers) =
                  {v \in Volume : \E i \in DOMAIN per : per[i] = <<v>>}
             /\ \A j, k \in DOMAIN transfers, m, n \in DOMAIN volumeIDs :
                  transfers[j] = volumeIDs[m] /\ transfers[k] = volumeIDs[n]
                  /\ m < n => j < k

\* The enumeration ends although the list changes under it, and so does the
\* fan-out.
Returns == <>(pc = "done")
=============================================================================
