------------------------------ MODULE MCReaders -----------------------------
(* Two arrays whose entities have the same ids.  The first fails in some   *)
(* calls or answers in one of four ways; the second is small and healthy.  *)
EXTENDS Readers

MCArray == <<"east", "west">>

Alert(state, severity) == [state |-> state, severity |-> severity]
Port(up) == [id |-> "p1", name |-> "port", appliance |-> "A1", up |-> up]

\* v1 moved from A2 to A1 after the archive was written, s1 is a snapshot that
\* the inventory leaves out, g1 is known to the volume only by its id.
Steady == [
    cluster |-> "c1", bulk |-> TRUE,
    volumes |-> <<[id |-> "v1", name |-> "data", appliance |-> "A1",
                   groups |-> <<[id |-> "g1", name |-> "old"]>>],
                  [id |-> "v2", name |-> "", appliance |-> "A1",
                   groups |-> <<>>]>>,
    groups |-> <<[id |-> "g1", name |-> "app", volumes |-> {"v1"}],
                 [id |-> "g2", name |-> "", volumes |-> {"v1", "v2"}]>>,
    nas |-> <<[id |-> "n1", name |-> "nas"]>>,
    fs |-> <<[id |-> "f1", name |-> "home", nas |-> "n1", total |-> 4],
             [id |-> "f2", name |-> "stub", nas |-> "n1", total |-> 0]>>,
    fc |-> <<Port(TRUE)>>, eth |-> <<Port(FALSE)>>,
    alerts |-> <<Alert("ACTIVE", "Major"), Alert("CLEARED", "Major"),
                 Alert("Active", "Odd"), Alert("ACTIVE", "Major")>>,
    appliances |-> <<[id |-> "A1", name |-> "left", tag |-> "T1"],
                     [id |-> "A2", name |-> "right", tag |-> "T2"]>>,
    rules |-> <<[id |-> "r1", rpo |-> "One_Hour", remote |-> "x"],
                [id |-> "r2", rpo |-> "Never", remote |-> "x"]>>,
    sessions |-> <<[id |-> "s1", state |-> "OK", type |-> "volume",
                    role |-> "Source", kind |-> "Metro",
                    resource |-> "v1", remote |-> "x"],
                   [id |-> "s2", state |-> "OK", type |-> "volume",
                    role |-> "Source", kind |-> "Asynchronous",
                    resource |-> "v1", remote |-> "y"],
                   [id |-> "s3", state |-> "OK", type |-> "volume_group",
                    role |-> "Destination", kind |-> "Asynchronous",
                    resource |-> "g1", remote |-> "x"]>>,
    transfer |-> [v1 |-> <<7, 8>>],
    drives |-> <<[id |-> "d1", name |-> "d", appliance |-> "A1",
                  state |-> "Healthy", wear |-> 3],
                 [id |-> "d2", name |-> "d", appliance |-> "A1",
                  state |-> "Failed", wear |-> Null]>>,
    witnesses |-> <<[id |-> "w1", name |-> "w", state |-> "OK",
                     connections |-> <<[state |-> "OK", appliance |-> "A1",
                                        node |-> "N1"],
                                       [state |-> "OK", appliance |-> "A1",
                                        node |-> "N2"]>>]>>,
    volumePerf |-> [v1 |-> <<[id |-> "v1", value |-> 1],
                             [id |-> "v1", value |-> 2]>>, v2 |-> <<>>],
    appliancePerf |-> [A1 |-> <<[id |-> "A1", value |-> 5]>>, A2 |-> <<>>],
    applianceSpace |-> [A1 |-> <<[id |-> "A1", value |-> Null]>>, A2 |-> <<>>],
    fsPerf |-> [f1 |-> <<[bare |-> 0, avg |-> 6]>>],
    groupPerf |-> [g1 |-> <<3>>, g2 |-> <<>>],
    clusterSpace |-> <<9>>,
    archive |-> [
        volumePerf |-> <<[volume_id |-> "v1", appliance_id |-> "A2",
                          avg_read_iops |-> Blank, read_iops |-> 2],
                         [volume_id |-> "s1", appliance_id |-> "A1",
                          avg_read_iops |-> 4]>>,
        appliancePerf |-> <<[appliance_id |-> "A1", avg_read_iops |-> 5],
                            [appliance_id |-> "A2", avg_read_iops |-> 1]>>,
        applianceSpace |-> <<[appliance_id |-> "A1",
                              last_physical_total |-> 8]>>]]

\* A drive and a session moved to the next page while the lists were paged.
Shifted == [Steady EXCEPT
    !.drives = Append(@, [@[1] EXCEPT !.wear = 4]),
    !.sessions = Append(@, @[1])]

\* No alerts, no sessions, and the group is renamed.
Quiet == [Steady EXCEPT !.alerts = <<>>, !.sessions = <<>>,
                        !.groups[1].name = "new"]

\* A file-only array: no volumes, no replication.
FileOnly == [Steady EXCEPT !.volumes = <<>>, !.groups = <<>>, !.fc = <<>>,
                           !.sessions = <<>>, !.rules = <<>>,
                           !.archive.volumePerf = <<>>]

In(w, fails) == [w |-> w, fails |-> fails]

\* Calls whose failure changes labels or the path fail one at a time, some with
\* the archive besides; the others, which only leave samples out, all at once.
Naming == {"volumes", "groups", "appliance", "alerts", "sessions"}

MCInputs ==
    [east |-> {In(Steady, {c}) : c \in Naming \cup PathCalls}
              \cup {In(Steady, {c, "archive"}) :
                        c \in {"volumes", "groups", "appliance"}}
              \cup {In(Steady, (Calls \ Naming) \cup {"archive"})}
              \cup {In(w, {}) : w \in {Steady, Shifted, Quiet, FileOnly}},
     west |-> {In(FileOnly, {})}]
=============================================================================
