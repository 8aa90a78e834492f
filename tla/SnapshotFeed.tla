---------------------------- MODULE SnapshotFeed ----------------------------
(***************************************************************************)
(* What collection promises its readers, with no cycle in sight: the       *)
(* snapshot on display was collected by one client set that the collector  *)
(* really held, whole, and client sets are shown in the order in which     *)
(* cycles captured them.  Collector implements it.                         *)
(***************************************************************************)
CONSTANT Client        \* the array clients, as instances

VARIABLES
    clients,           \* the client set the next cycle will use
    capture,           \* the client set of the cycle under way, {} if none
    shown              \* the clients whose results the snapshot holds

feedVars == <<clients, capture, shown>>

Init ==
    /\ clients \in SUBSET Client
    /\ capture = {}
    /\ shown = {}

\* A reload installs other clients; a cycle under way keeps its own.
Install ==
    /\ clients' \in SUBSET Client
    /\ UNCHANGED <<capture, shown>>

\* A cycle starts from the clients of this moment.
Begin ==
    /\ capture = {}
    /\ clients # {}
    /\ capture' = clients
    /\ UNCHANGED <<clients, shown>>

\* Its snapshot covers every client it started from and no other.
Publish ==
    /\ capture # {}
    /\ shown' = capture
    /\ capture' = {}
    /\ UNCHANGED clients

Next == Install \/ Begin \/ Publish

Spec == Init /\ [][Next]_feedVars
=============================================================================
