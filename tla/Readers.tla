------------------------------- MODULE Readers ------------------------------
(***************************************************************************)
(* From a collection cycle to what the two readers of the snapshot store   *)
(* show of it: the samples of Derive, BuildSnapshot (snapshot.go), the     *)
(* Prometheus collector (prometheus.go), which loads one snapshot per      *)
(* scrape, and the callbacks of the OTLP exporter (otlp.go), one per       *)
(* metric name, each of which loads the store anew.                        *)
(*                                                                         *)
(* Collector models how a cycle comes to its result and Export how the     *)
(* instruments are created; here a cycle is one step and its hook another. *)
(* Readers only read, so one of them at a time shows all they can do.      *)
(***************************************************************************)
EXTENDS Derive

CONSTANTS
    Array,        \* array names, in the order of the configuration
    Inputs,       \* what each array may answer in a cycle: [w, fails]
    NoInput,      \* no cycle has been collected
    MaxCycles     \* bound: cycles

ASSUME CyclesAssumption == MaxCycles \in Nat \ {0}
ASSUME ArrayAssumption == IsList(Array) /\ IsInjective(Array)
ASSUME InputAssumption ==
    \A a \in ToSet(Array) : \A in \in Inputs[a] : Answers(in.w)

VARIABLES
    input,        \* what each array answered in the last cycle
    store,        \* the published snapshot
    cycles,       \* how many cycles there were
    registered,   \* the names that have an instrument, in that order
    reader        \* the scrape or push that is under way

vars == <<input, store, cycles, registered, reader>>

\* Calls that decide the path: GetCluster, the software version, the archive.
PathCalls == {"cluster", "version", "archive"}

EmptySnapshot == [arrays |-> <<>>, names |-> <<>>]

NoReader == [kind |-> "none", snap |-> EmptySnapshot, at |-> 1, out |-> <<>>,
             torn |-> FALSE]

SamplesOfAll(arrays) == Each(arrays, LAMBDA x : x.samples)

\* snap.byName[name]: samples of all arrays, in order.
SamplesByName(snap, name) ==
    LET all == SamplesOfAll(snap.arrays)
    IN  Keep(all, {i \in DOMAIN all : all[i].name = name})

TypeOK ==
    /\ \A a \in ToSet(Array) : input[a] \in Inputs[a] \cup {NoInput}
    /\ \A i \in DOMAIN store.arrays :
         LET x == store.arrays[i] IN
         /\ x.array = Array[i]
         /\ x.up \in BOOLEAN /\ x.bulk \in BOOLEAN
         /\ ~x.up => x.samples = <<>>
    /\ ToSet(store.names) = {s.name : s \in ToSet(SamplesOfAll(store.arrays))}
    /\ cycles \in 0..MaxCycles
    /\ reader.kind \in {"none", "scrape", "push"}
    /\ reader.at \in 1..(Len(reader.snap.names) + Len(registered) + 1)

Init ==
    /\ input = [a \in ToSet(Array) |-> NoInput]
    /\ store = EmptySnapshot
    /\ cycles = 0
    /\ registered = <<>>
    /\ reader = NoReader

-----------------------------------------------------------------------------
(* A collection cycle.                                                     *)

BulkCapable(in) == "version" \notin in.fails /\ in.w.bulk

TakesBulk(in) == BulkCapable(in) /\ "archive" \notin in.fails

\* The path the array is on, a failed archive falls back.
PathMetrics(a, in) ==
    LET t == GetTopology(in.w, in.fails)
    IN  IF TakesBulk(in) THEN BulkMetrics(a, t, in.w, in.fails)
                         ELSE PerEntityMetrics(a, t, in.w, in.fails)

\* Fault: a failed GetCluster does not end it.
collectArrayGoesOn(a, in) ==
    [array |-> a, up |-> "cluster" \notin in.fails, bulk |-> BulkCapable(in),
     samples |-> PathMetrics(a, in)]

\* Only a failed GetCluster takes the array down.
collectArray(a, in) ==
    IF "cluster" \in in.fails
    THEN [array |-> a, up |-> FALSE, bulk |-> FALSE, samples |-> <<>>]
    ELSE [array |-> a, up |-> TRUE, bulk |-> BulkCapable(in),
          samples |-> PathMetrics(a, in)]

\* Every name, where it occurs first.
BuildSnapshot(arrays) ==
    LET all == SamplesOfAll(arrays)
        names == [i \in DOMAIN all |-> all[i].name]
    IN  [arrays |-> arrays,
         names |-> Keep(names, {i \in DOMAIN names :
                       names[i] \notin {names[j] : j \in 1..(i - 1)}})]

Cycle ==
    /\ cycles < MaxCycles
    /\ \E in \in [ToSet(Array) -> UNION Range(Inputs)] :
         /\ \A a \in ToSet(Array) : in[a] \in Inputs[a]
         /\ input' = in
         /\ store' = BuildSnapshot([i \in DOMAIN Array |->
                                       collectArray(Array[i], in[Array[i]])])
    /\ cycles' = cycles + 1
    /\ reader' = [reader EXCEPT !.torn = (reader.kind # "none")]
    /\ UNCHANGED registered

\* EnsureInstruments, run by the hook after a cycle.
EnsureInstruments ==
    LET new == Keep(store.names, {i \in DOMAIN store.names :
                                     store.names[i] \notin ToSet(registered)})
    IN  /\ new # <<>>
        /\ registered' = registered \o new
        /\ UNCHANGED <<input, store, cycles, reader>>

-----------------------------------------------------------------------------
(* A scrape.                                                               *)

\* The health gauges of the arrays; an array that is down has no time of a
\* last scrape.
HealthGauges(snap) ==
    Each(snap.arrays, LAMBDA x :
        Sample("powerstore_up", [array |-> x.array], b2f(x.up)) \o
        (IF x.up THEN Sample("powerstore_last_scrape_timestamp_seconds",
                             [array |-> x.array], 1) ELSE <<>>) \o
        Sample("powerstore_array_bulk_api", [array |-> x.array], b2f(x.bulk)))

ScrapeStart ==
    /\ reader.kind = "none"
    /\ reader' = [NoReader EXCEPT !.kind = "scrape", !.snap = store,
                                  !.out = HealthGauges(store)]
    /\ UNCHANGED <<input, store, cycles, registered>>

\* A desc has the label names of the first sample; a sample with another number
\* of values is refused.
Fits(samples, s) ==
    Cardinality(DOMAIN s.labels) = Cardinality(DOMAIN samples[1].labels)

\* Fault: no sample is looked up in `seen'.
EmitsAll(samples) == samples

\* Of the samples of one series only the first.
Emits(samples) ==
    Keep(samples, {i \in DOMAIN samples :
        /\ Series(samples[i]) \notin {Series(samples[j]) : j \in 1..(i - 1)}
        /\ Fits(samples, samples[i])})

\* The next metric name of the snapshot that was loaded.
ScrapeName ==
    /\ reader.kind = "scrape"
    /\ reader.at <= Len(reader.snap.names)
    /\ reader' = [reader EXCEPT
         !.at = @ + 1,
         !.out = @ \o Emits(SamplesByName(reader.snap,
                                          reader.snap.names[reader.at]))]
    /\ UNCHANGED <<input, store, cycles, registered>>

ScrapeDone == reader.kind = "scrape" /\ reader.at > Len(reader.snap.names)

-----------------------------------------------------------------------------
(* A push.                                                                 *)

PushStart ==
    /\ reader.kind = "none"
    /\ registered # <<>>
    /\ reader' = [NoReader EXCEPT !.kind = "push"]
    /\ UNCHANGED <<input, store, cycles, registered>>

\* An attribute set holds one value: the last one that was observed.
Observed(samples) ==
    Keep(samples, {i \in DOMAIN samples :
        Series(samples[i]) \notin {Series(samples[j]) : j \in (i + 1)..Len(samples)}})

\* Fault: all callbacks share the loop variable, which has the last name.
CallbackName(i) == registered[Len(registered)]

\* Each callback has its own metric name (metricName := name).
MetricName(i) == registered[i]

\* One callback loads the store.
Observe ==
    /\ reader.kind = "push"
    /\ reader.at <= Len(registered)
    /\ reader' = [reader EXCEPT
         !.at = @ + 1,
         !.out = @ \o Observed(SamplesByName(store, MetricName(reader.at)))]
    /\ UNCHANGED <<input, store, cycles, registered>>

PushDone == reader.kind = "push" /\ reader.at > Len(registered)

ReaderEnds ==
    /\ ScrapeDone \/ PushDone
    /\ reader' = NoReader
    /\ UNCHANGED <<input, store, cycles, registered>>

Next == \/ Cycle \/ EnsureInstruments
        \/ ScrapeStart \/ ScrapeName \/ PushStart \/ Observe \/ ReaderEnds

Spec == Init /\ [][Next]_vars

-----------------------------------------------------------------------------
(* Properties.                                                             *)

Answered(a) == input[a] # NoInput /\ "cluster" \notin input[a].fails

\* No two samples of an array are of one series, whatever failed and whichever
\* path it is on, unless one of its lists had an item twice.
SeriesUnique ==
    \A x \in ToSet(store.arrays) :
        ListedTwice(input[x.array].w)
        \/ Cardinality(AllSeries(x.samples)) = Len(x.samples)

\* A finished scrape shows every series of the snapshot it began with, of every
\* array, and none of one stored meanwhile; each of them once, even of a list
\* that had an item twice: the registry rejects the whole scrape for two metrics
\* of one series (prometheus.go:48).
ScrapeExact ==
    ScrapeDone =>
        /\ AllSeries(reader.out) = AllSeries(HealthGauges(reader.snap)
                                             \o SamplesOfAll(reader.snap.arrays))
        /\ Cardinality(AllSeries(reader.out)) = Len(reader.out)

\* A push during which no cycle published shows, of the names that have an
\* instrument, exactly the series a scrape shows, and the same values,
\* but of a series that has two.
PushMatchesScrape ==
    PushDone /\ ~reader.torn =>
        LET all == SamplesOfAll(store.arrays)
            has == {s \in ToSet(all) : s.name \in ToSet(registered)}
        IN  /\ AllSeries(reader.out) = {Series(s) : s \in has}
            /\ ToSet(reader.out) \subseteq has
            /\ \A s \in has : \/ s \in ToSet(reader.out)
                             \/ \E x \in has : x # s /\ Series(x) = Series(s)

Entities(rows, column) == {Cell(rows[i], column) : i \in DOMAIN rows}

\* The archive has a row of an entity of the inventory if the array answers for
\* that entity, and only then; volumes are on an appliance.
SameEntities(t, w) ==
    /\ \A id \in Ids(t.appliances) :
         /\ w.appliancePerf[id] # <<>>
              <=> id \in Entities(w.archive.appliancePerf, "appliance_id")
         /\ w.applianceSpace[id] # <<>>
              <=> id \in Entities(w.archive.applianceSpace, "appliance_id")
    /\ \A id \in Ids(t.volumes) :
         /\ VolumeApplianceID(t, id) # ""
         /\ w.volumePerf[id] # <<>>
              <=> id \in Entities(w.archive.volumePerf, "volume_id")

Listed(t, s) ==
    IF "volume_id" \in DOMAIN s.labels
    THEN s.labels.volume_id \in Ids(t.volumes)
    ELSE s.labels.appliance_id \in Ids(t.appliances)

\* The paths are interchangeable (derive_bulk.go:31): when both answer for the
\* same entities the bulk path has every series of the per-entity path, so that a
\* fallback renames nothing, and beyond those only rows of what is not in the
\* inventory.
PathParity ==
    reader.kind = "none" => \A a \in ToSet(Array) : Answered(a) =>
        LET w == input[a].w
            fails == input[a].fails
            t == GetTopology(w, fails)
            bulk == AllSeries(BulkMetrics(a, t, w, fails))
            entity == AllSeries(PerEntityMetrics(a, t, w, fails))
        IN  SameEntities(t, w) =>
                /\ entity \subseteq bulk
                /\ fails \cap {"volumePerf", "appliancePerf",
                                "applianceSpace"} = {} =>
                       \A s \in bulk \ entity : ~Listed(t, s)

\* The sum of the values of a metric.
Total(samples, name) ==
    LET upTo[n \in 0..Len(samples)] ==
          IF n = 0 THEN 0
          ELSE upTo[n - 1] +
                   (IF samples[n].name = name THEN samples[n].value ELSE 0)
    IN  upTo[Len(samples)]

\* When the alerts could be listed, the counts of an array add up to its active
\* alerts, of unknown severities too, and no known severity is missing.
AlertsCounted ==
    \A x \in ToSet(store.arrays) :
        x.up /\ "alerts" \notin input[x.array].fails =>
            LET alerts == input[x.array].w.alerts
                counts == {s \in ToSet(x.samples) :
                              s.name = "powerstore_alert_active"}
            IN  /\ Total(x.samples, "powerstore_alert_active")
                     = Cardinality({i \in DOMAIN alerts : IsActive(alerts[i])})
                /\ ToSet(knownAlertSeverities)
                     \subseteq {s.labels.severity : s \in counts}
=============================================================================
