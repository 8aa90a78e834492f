------------------------------- MODULE Derive -------------------------------
(***************************************************************************)
(* From what an array answers to samples: the inventory (GetTopology,      *)
(* topology.go), the label sets (metrics.go) and the derive functions of   *)
(* the bulk and the per-entity path.                                       *)
(*                                                                         *)
(* An array is a record w with a field per API call: a sequence for every  *)
(* list, a function from ids to sequences for every call made per entity,  *)
(* oldest entry first.  `fails' is the set of calls that return an error:  *)
(* each is logged, and what it would have given is left out.  Metrics made *)
(* with the same labels by the same call are one metric here, named like   *)
(* the first of them.                                                      *)
(***************************************************************************)
EXTENDS Integers, SequencesExt

CONSTANTS
    Null,         \* a pointer that is nil: the array sent null
    Blank         \* a CSV cell that is empty or no number

Calls == {"volumes", "groups", "nas", "fs", "fc", "eth", "alerts", "appliance",
          "appliancePerf", "applianceSpace", "volumePerf", "rules", "sessions",
          "transfer", "fsPerf", "groupPerf", "clusterSpace", "drives",
          "witnesses"}

Answer(call, fails, answer) == IF call \in fails THEN <<>> ELSE answer

Sample(name, labels, value) ==
    <<[name |-> name, labels |-> labels, value |-> value]>>

\* The series of a sample: what must not occur twice.
Series(s) == [name |-> s.name, labels |-> s.labels]

AllSeries(samples) == {Series(samples[i]) : i \in DOMAIN samples}

\* The concatenation of what F makes of each item (parallelSamples too keeps
\* the order of the items).
Each(items, F(_)) == FlattenSeq([i \in DOMAIN items |-> F(items[i])])

\* The items at some of the places.
Keep(items, places) ==
    FlattenSeq([i \in DOMAIN items |->
                   IF i \in places THEN <<items[i]>> ELSE <<>>])

\* The last item of a sequence with an id, as a sequence of at most one.
Latest(items, id) ==
    LET of == Keep(items, {i \in DOMAIN items : items[i].id = id})
    IN  IF of = <<>> THEN <<>> ELSE <<Last(of)>>

Ids(items) == {items[i].id : i \in DOMAIN items}

latestByID(items) == [id \in Ids(items) |-> Latest(items, id)[1]]

deref(p) == IF p = Null THEN 0 ELSE p

b2f(b) == IF b THEN 1 ELSE 0

\* A slice; its elements need not be alike.
IsList(s) == s \in Seq(ToSet(s))

\* What an array may answer: slices, for every call, and what is asked of an
\* entity is about that entity.
Answers(w) ==
    /\ \A list \in {w.volumes, w.groups, w.nas, w.fs, w.fc, w.eth, w.alerts,
                    w.appliances, w.rules, w.sessions, w.drives, w.witnesses,
                    w.archive.volumePerf, w.archive.appliancePerf,
                    w.archive.applianceSpace} : IsList(list)
    /\ \A i \in DOMAIN w.witnesses : IsList(w.witnesses[i].connections)
    /\ \A id \in Ids(w.volumes) :
          IsList(w.volumePerf[id]) /\ Ids(w.volumePerf[id]) \subseteq {id}
    /\ \A id \in Ids(w.appliances) :
         \A list \in {w.appliancePerf[id], w.applianceSpace[id]} :
             IsList(list) /\ Ids(list) \subseteq {id}
    /\ w.bulk \in BOOLEAN

-----------------------------------------------------------------------------
(* The inventory.  A missing key of a Go map reads as the empty string.    *)

enumerateAppliances(w, fails, lists) ==
    LET used == {lists[i].appliance : i \in DOMAIN lists} \ {""}
    IN  Answer("appliance", fails,
               Each(SetToSeq(used), LAMBDA id : Latest(w.appliances, id)))

GetTopology(w, fails) ==
    LET volumes == Answer("volumes", fails, w.volumes)
        fc == Answer("fc", fails, w.fc)
        eth == Answer("eth", fails, w.eth)
    IN  [cluster |-> w.cluster, volumes |-> volumes, fc |-> fc, eth |-> eth,
         appliances |-> enumerateAppliances(w, fails, volumes \o fc \o eth),
         groups |-> Answer("groups", fails, w.groups),
         nas |-> Answer("nas", fails, w.nas), fs |-> Answer("fs", fails, w.fs),
         alerts |-> Answer("alerts", fails, w.alerts)]

NameOf(items, id) ==
    IF id \in Ids(items) THEN Latest(items, id)[1].name ELSE ""

NameOrId(items, id) ==
    IF NameOf(items, id) = "" THEN id ELSE NameOf(items, id)

ApplianceName(t, id) == NameOf(t.appliances, id)

ApplianceServiceTag(t, id) ==
    IF id \in Ids(t.appliances) THEN Latest(t.appliances, id)[1].tag ELSE ""

NASName(t, id) == NameOf(t.nas, id)

VolumeApplianceID(t, id) ==
    IF id \in Ids(t.volumes) THEN Latest(t.volumes, id)[1].appliance ELSE ""

\* The group of a volume: what the volumes say overwrites what the groups say.
volumeVGID(t, id) ==
    LET byGroup == SelectSeq(t.groups, LAMBDA g : id \in g.volumes)
        byVolume == Each(SelectSeq(t.volumes, LAMBDA v : v.id = id),
                         LAMBDA v : SelectSeq(v.groups, LAMBDA g : g.id # ""))
        all == byGroup \o byVolume
    IN  IF all = <<>> THEN "" ELSE Last(all).id

\* Its name: the list of the groups, or else the first volume that names it.
vgName(t, id) ==
    LET fromVolumes == SelectSeq(Each(t.volumes, LAMBDA v : v.groups),
                                 LAMBDA g : g.id = id /\ id # "")
    IN  IF id \in Ids(t.groups) \/ fromVolumes = <<>>
        THEN NameOf(t.groups, id) ELSE Head(fromVolumes).name

ResourceName(t, type, id) ==
    LET name == CASE type = "volume"       -> NameOf(t.volumes, id)
                  [] type = "volume_group" -> vgName(t, id)
                  [] type = "file_system"  -> NameOf(t.fs, id)
                  [] type = "nas_server"   -> NASName(t, id)
                  [] OTHER                 -> ""
    IN  IF name = "" THEN id ELSE name

-----------------------------------------------------------------------------
(* Label sets.                                                             *)

baseLabels(a, t) == [array |-> a, cluster_id |-> t.cluster]

append(labels, more) ==
    [n \in DOMAIN labels \cup DOMAIN more |->
        IF n \in DOMAIN labels THEN labels[n] ELSE more[n]]

volumeLabels(a, t, id, appliance) ==
    append(baseLabels(a, t),
    [volume_name |-> NameOrId(t.volumes, id), volume_id |-> id,
     appliance_id |-> appliance, appliance_name |-> ApplianceName(t, appliance),
     volume_group_name |-> vgName(t, volumeVGID(t, id)),
     volume_group_id |-> volumeVGID(t, id)])

applianceLabels(a, t, id) ==
    append(baseLabels(a, t),
    [appliance_name |-> ApplianceName(t, id), appliance_id |-> id,
     service_tag |-> ApplianceServiceTag(t, id)])

fileSystemLabels(a, t, name, fs) ==
    append(baseLabels(a, t),
    [file_system_name |-> name, file_system_id |-> fs.id,
     nas_server_name |-> NASName(t, fs.nas), nas_server_id |-> fs.nas])

\* Fault: Ethernet and Fibre Channel ports are not told apart.
portLabelsAnyKind(a, t, p, kind) ==
    append(baseLabels(a, t),
    [port_name |-> p.name, port_id |-> p.id, port_type |-> "port",
     appliance_id |-> p.appliance])

portLabels(a, t, p, kind) ==
    append(baseLabels(a, t),
    [port_name |-> p.name, port_id |-> p.id, port_type |-> kind,
     appliance_id |-> p.appliance])

alertLabels(a, t, severity) == append(baseLabels(a, t), [severity |-> severity])

driveLabels(a, t, d) ==
    append(baseLabels(a, t),
    [drive_id |-> d.id, drive_name |-> d.name, appliance_id |-> d.appliance])

driveStateLabels(a, t, d) == append(driveLabels(a, t, d), [state |-> d.state])

witnessStateLabels(a, t, x) ==
    append(baseLabels(a, t),
    [witness_id |-> x.id, witness_name |-> x.name, state |-> x.state])

witnessConnectionLabels(a, t, x, c) ==
    append(baseLabels(a, t),
    [witness_id |-> x.id, appliance_id |-> c.appliance, node_id |-> c.node,
     state |-> c.state])

volumeGroupLabels(a, t, g) ==
    append(baseLabels(a, t),
    [volume_group_name |-> NameOrId(<<g>>, g.id),
     volume_group_id |-> g.id])

replicationSessionLabels(a, t, s) ==
    append(baseLabels(a, t),
    [session_id |-> s.id, local_resource_id |-> s.resource,
     local_resource_name |-> ResourceName(t, s.type, s.resource),
     resource_type |-> s.type, role |-> s.role, type |-> s.kind,
     remote_system_id |-> s.remote, state |-> s.state])

replicationResourceLabels(a, t, id, type) ==
    append(baseLabels(a, t),
    [resource_id |-> id, resource_name |-> ResourceName(t, type, id),
     resource_type |-> type])

replicationRuleLabels(a, t, r) ==
    append(baseLabels(a, t),
    [rule_id |-> r.id, remote_system_id |-> r.remote])

-----------------------------------------------------------------------------
(* The bulk path: one sample per row of a CSV file.                        *)

Cell(row, column) == IF column \in DOMAIN row THEN row[column] ELSE ""

\* The first of the columns that the row has and that holds a number.
csvFloat(row, columns) ==
    LET usable == SelectSeq(columns, LAMBDA c : c \in DOMAIN row /\ row[c] # Blank)
    IN  IF usable = <<>> THEN 0 ELSE row[Head(usable)]

\* Fault: the row's, which may be older than the inventory.
rowApplianceFirst(t, r) ==
    LET said == Cell(r, "appliance_id")
    IN  IF said = "" THEN VolumeApplianceID(t, Cell(r, "volume_id")) ELSE said

\* The appliance of a volume is the inventory's, or else the row's.
rowAppliance(t, r) ==
    LET known == VolumeApplianceID(t, Cell(r, "volume_id"))
    IN  IF known = "" THEN Cell(r, "appliance_id") ELSE known

deriveBulkVolumePerf(a, t, rows) ==
    Each(rows, LAMBDA r :
        Sample("powerstore_volume_read_iops",
               volumeLabels(a, t, Cell(r, "volume_id"), rowAppliance(t, r)),
               csvFloat(r, <<"avg_read_iops", "read_iops">>)))

deriveBulkAppliancePerf(a, t, rows) ==
    Each(rows, LAMBDA r :
        Sample("powerstore_appliance_read_iops",
               applianceLabels(a, t, Cell(r, "appliance_id")),
               csvFloat(r, <<"avg_read_iops", "read_iops">>)))

deriveBulkApplianceSpace(a, t, rows) ==
    Each(rows, LAMBDA r :
        Sample("powerstore_appliance_physical_total_bytes",
               applianceLabels(a, t, Cell(r, "appliance_id")),
               csvFloat(r, <<"physical_total", "last_physical_total">>)))

-----------------------------------------------------------------------------
(* The per-entity path: the newest entry of a time series.                 *)

deriveVolumePerf(a, t, resp) ==
    Each(SetToSeq(Ids(resp)), LAMBDA id :
        Sample("powerstore_volume_read_iops",
               volumeLabels(a, t, id, VolumeApplianceID(t, id)),
               latestByID(resp)[id].value))

deriveAppliancePerf(a, t, resp) ==
    Each(SetToSeq(Ids(resp)), LAMBDA id :
        Sample("powerstore_appliance_read_iops", applianceLabels(a, t, id),
               latestByID(resp)[id].value))

deriveApplianceSpace(a, t, resp) ==
    Each(SetToSeq(Ids(resp)), LAMBDA id :
        Sample("powerstore_appliance_physical_total_bytes",
               applianceLabels(a, t, id), deref(latestByID(resp)[id].value)))

-----------------------------------------------------------------------------
(* What both paths share.                                                  *)

chartableFileSystem(fs) == fs.total > 0

deriveFileSystemCapacity(a, t) ==
    Each(t.fs, LAMBDA f :
        IF ~chartableFileSystem(f) THEN <<>>
        ELSE Sample("powerstore_file_system_size_total_bytes",
                    fileSystemLabels(a, t, f.name, f), f.total))

derivePortLinkStatus(a, t) ==
    LET Link(kind, p) == Sample("powerstore_port_link_up",
                                portLabels(a, t, p, kind), b2f(p.up))
    IN  Each(t.eth, LAMBDA p : Link("eth", p)) \o
        Each(t.fc, LAMBDA p : Link("fc", p))

knownAlertSeverities == <<"Critical", "Major", "Minor", "Info", "None">>

\* Compared with EqualFold.
IsActive(alert) == alert.state \in {"ACTIVE", "Active"}

\* Fault: only the known ones.
SeveritiesKnown(t) == knownAlertSeverities

\* Every known severity, with zero too, then the others there are.
Severities(t) ==
    LET active == {i \in DOMAIN t.alerts : IsActive(t.alerts[i])}
        seen == {t.alerts[i].severity : i \in active}
    IN  knownAlertSeverities \o SetToSeq(seen \ ToSet(knownAlertSeverities))

deriveAlerts(a, t) ==
    Each(Severities(t), LAMBDA s :
        Sample("powerstore_alert_active", alertLabels(a, t, s),
               Cardinality({i \in DOMAIN t.alerts : IsActive(t.alerts[i])
                                              /\ t.alerts[i].severity = s})))

rpoSeconds == [Zero |-> 0, Five_Minutes |-> 300, Fifteen_Minutes |-> 900,
               Thirty_Minutes |-> 1800, One_Hour |-> 3600, Six_Hours |-> 21600,
               Twelve_Hours |-> 43200, One_Day |-> 86400]

deriveReplicationRules(a, t, rules) ==
    Each(rules, LAMBDA r :
        IF r.rpo \notin DOMAIN rpoSeconds THEN <<>>
        ELSE Sample("powerstore_replication_rpo_seconds",
                    replicationRuleLabels(a, t, r), rpoSeconds[r.rpo]))

deriveReplicationSessions(a, t, sessions) ==
    Each(sessions, LAMBDA s :
        IF s.id = "" THEN <<>>
        ELSE Sample("powerstore_replication_session_state",
                    replicationSessionLabels(a, t, s), 1))

\* seen[n] is what has been seen in n sessions.
replicatedVolumeResources(sessions) ==
    LET seen[n \in 0..Len(sessions)] ==
          IF n = 0 THEN <<>>
          ELSE IF \/ sessions[n].type # "volume"
                  \/ sessions[n].resource \in ToSet(seen[n - 1]) \cup {""}
          THEN seen[n - 1]
          ELSE Append(seen[n - 1], sessions[n].resource)
    IN  seen[Len(sessions)]

deriveReplicationTransfer(a, t, id, series) ==
    IF series = <<>> THEN <<>>
    ELSE Sample("powerstore_replication_transfer_rate_bytes_per_second",
                replicationResourceLabels(a, t, id, "volume"), Last(series))

replicationMetrics(a, t, w, fails) ==
    LET sessions == Answer("sessions", fails, w.sessions)
    IN  deriveReplicationRules(a, t, Answer("rules", fails, w.rules)) \o
        deriveReplicationSessions(a, t, sessions) \o
        Each(replicatedVolumeResources(sessions), LAMBDA id :
            deriveReplicationTransfer(a, t, id,
                Answer("transfer", fails, w.transfer[id])))

preferNonZero(primary, fallback) == IF primary # 0 THEN primary ELSE fallback

deriveFileSystemPerf(a, t, fs, resp) ==
    IF resp = <<>> THEN <<>>
    ELSE Sample("powerstore_file_system_read_iops",
                fileSystemLabels(a, t, NameOrId(<<fs>>, fs.id), fs),
                preferNonZero(Last(resp).bare, Last(resp).avg))

deriveVolumeGroupPerf(a, t, g, resp) ==
    IF resp = <<>> THEN <<>>
    ELSE Sample("powerstore_volume_group_read_iops", volumeGroupLabels(a, t, g),
                Last(resp))

deriveClusterSpace(a, t, resp) ==
    IF resp = <<>> THEN <<>>
    ELSE Sample("powerstore_cluster_physical_total_bytes", baseLabels(a, t),
                deref(Last(resp)))

deriveDrives(a, t, drives) ==
    Each(drives, LAMBDA d : IF d.id = "" THEN <<>> ELSE
        (IF d.state = "" THEN <<>>
         ELSE Sample("powerstore_drive_state", driveStateLabels(a, t, d), 1)) \o
        (IF d.wear = Null THEN <<>>
         ELSE Sample("powerstore_drive_wear_level_ratio", driveLabels(a, t, d),
                     d.wear)))   \* in hundredths

deriveWitness(a, t, witnesses) ==
    LET State(x) == IF x.state = "" THEN <<>>
                    ELSE Sample("powerstore_metro_witness_state",
                                witnessStateLabels(a, t, x), 1)
        Connections(x) ==
            Each(x.connections, LAMBDA c :
                IF c.state = "" THEN <<>>
                ELSE Sample("powerstore_metro_witness_connection_state",
                            witnessConnectionLabels(a, t, x, c), 1))
    IN  Each(witnesses, LAMBDA x :
            IF x.id = "" THEN <<>> ELSE State(x) \o Connections(x))

commonMetrics(a, t, w, fails) ==
    deriveFileSystemCapacity(a, t) \o
    derivePortLinkStatus(a, t) \o
    deriveAlerts(a, t) \o
    replicationMetrics(a, t, w, fails) \o
    Each(t.fs, LAMBDA f :
        IF ~chartableFileSystem(f) THEN <<>>
        ELSE deriveFileSystemPerf(a, t, f,
                 Answer("fsPerf", fails, w.fsPerf[f.id]))) \o
    Each(t.groups, LAMBDA g :
        deriveVolumeGroupPerf(a, t, g,
            Answer("groupPerf", fails, w.groupPerf[g.id]))) \o
    deriveClusterSpace(a, t, Answer("clusterSpace", fails, w.clusterSpace)) \o
    deriveDrives(a, t, Answer("drives", fails, w.drives)) \o
    deriveWitness(a, t, Answer("witnesses", fails, w.witnesses))

BulkMetrics(a, t, w, fails) ==
    deriveBulkAppliancePerf(a, t, w.archive.appliancePerf) \o
    deriveBulkApplianceSpace(a, t, w.archive.applianceSpace) \o
    deriveBulkVolumePerf(a, t, w.archive.volumePerf) \o
    commonMetrics(a, t, w, fails)

PerEntityMetrics(a, t, w, fails) ==
    Each(t.appliances, LAMBDA x :
        deriveAppliancePerf(a, t,
            Answer("appliancePerf", fails, w.appliancePerf[x.id])) \o
        deriveApplianceSpace(a, t,
            Answer("applianceSpace", fails, w.applianceSpace[x.id]))) \o
    Each(t.volumes, LAMBDA v :
        deriveVolumePerf(a, t,
            Answer("volumePerf", fails, w.volumePerf[v.id]))) \o
    commonMetrics(a, t, w, fails)

-----------------------------------------------------------------------------
(* When an item occurs twice.                                              *)

\* A list has an item twice, because it was paged while it changed
\* (client.go:435), or the archive two rows of one entity.
ListedTwice(w) ==
    \/ \E list \in {w.volumes, w.groups, w.fs, w.fc, w.eth, w.rules, w.sessions,
                    w.drives, w.witnesses} :
          ~IsInjective([i \in DOMAIN list |-> list[i].id])
    \/ \E i \in DOMAIN w.witnesses :
         LET conns == w.witnesses[i].connections
         IN  ~IsInjective([j \in DOMAIN conns |->
                 <<conns[j].appliance, conns[j].node, conns[j].state>>])
    \/ \E file \in {<<w.archive.volumePerf, "volume_id">>,
                    <<w.archive.appliancePerf, "appliance_id">>,
                    <<w.archive.applianceSpace, "appliance_id">>} :
          ~IsInjective([i \in DOMAIN file[1] |-> Cell(file[1][i], file[2])])
=============================================================================
