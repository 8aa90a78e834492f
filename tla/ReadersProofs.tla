---------------------------- MODULE ReadersProofs ---------------------------
(* Proofs about the two readers of the snapshot store.                     *)
EXTENDS Readers, DeriveProofs

-----------------------------------------------------------------------------
(* What a reader makes of the samples of a name.                           *)

\* If all samples have the same label names, the first of every series is
\* emitted.
LEMMA EmitsFirst ==
    ASSUME NEW samples, IsList(samples), NEW names,
           \A s \in ToSet(samples) : DOMAIN s.labels = names
    PROVE  /\ IsList(Emits(samples)) /\ Distinct(Emits(samples))
           /\ ToSet(Emits(samples)) \subseteq ToSet(samples)
           /\ AllSeries(Emits(samples)) = AllSeries(samples)
<1> DEFINE New(i) == Series(samples[i]) \notin {Series(samples[j]) : j \in 1..(i - 1)}
           places == {i \in DOMAIN samples : New(i) /\ Fits(samples, samples[i])}
           out == Emits(samples)
<1>1. out = Keep(samples, places)
  BY DEF Emits
<1>2. /\ Len(samples) \in Nat /\ DOMAIN samples = 1..Len(samples)
      /\ \A i \in DOMAIN samples : samples[i] \in ToSet(samples)
  BY ListDomain
<1>3. \A i \in DOMAIN samples : Fits(samples, samples[i])
  <2> TAKE i \in DOMAIN samples
  <2>1. 1 \in DOMAIN samples
    BY <1>2
  <2>2. DOMAIN samples[1].labels = names /\ DOMAIN samples[i].labels = names
    BY <1>2, <2>1
  <2> QED
    BY <2>2 DEF Fits
<1>4. \A i \in DOMAIN samples : i \in places <=> New(i)
  BY <1>3
<1> HIDE DEF places, out
<1>5. /\ IsList(out) /\ ToSet(out) = {samples[i] : i \in DOMAIN samples \cap places}
  BY <1>1, KeepList
<1>6. PICK at : Chosen(out, samples, places, at)
  BY <1>1, KeepList
<1>7. Distinct(out)
  <2> SUFFICES ASSUME NEW k \in DOMAIN out, NEW l \in DOMAIN out,
                      Series(out[k]) = Series(out[l])
               PROVE  k = l
    BY DEF Distinct
  <2>1. /\ at[k] \in 1..Len(samples) /\ at[l] \in 1..Len(samples)
        /\ New(at[k]) /\ New(at[l])
        /\ Series(samples[at[k]]) = Series(samples[at[l]])
    BY <1>2, <1>4, <1>6 DEF Chosen
  <2> HIDE DEF New
  <2>2. ~(at[k] < at[l])
    BY <1>2, <2>1 DEF New
  <2>3. ~(at[l] < at[k])
    BY <1>2, <2>1 DEF New
  <2>4. k \in Nat /\ l \in Nat
    BY <1>5, ListDomain
  <2>5. ~(k < l) /\ ~(l < k)
    BY <1>6, <2>2, <2>3 DEF Chosen
  <2> QED
    BY <2>4, <2>5
<1>8. ToSet(out) \subseteq ToSet(samples)
  BY <1>2, <1>5
<1>9. ASSUME NEW i \in DOMAIN samples
      PROVE  \E k \in DOMAIN samples \cap places :
                Series(samples[k]) = Series(samples[i])
  <2> DEFINE Same == {k \in DOMAIN samples : Series(samples[k]) = Series(samples[i])}
  <2>1. Same \in SUBSET Nat /\ Same # {}
    BY <1>2
  <2>2. PICK k \in Same : \A m \in Same : k <= m
    <3> HIDE DEF Same
    <3> QED
      BY <2>1, LeastNumber
  <2>3. New(k)
    <3> SUFFICES ASSUME NEW j \in 1..(k - 1), Series(samples[j]) = Series(samples[k])
                 PROVE  FALSE
      OBVIOUS
    <3>1. j \in Same /\ j < k
      BY <1>2
    <3> QED
      BY <1>2, <2>2, <3>1
  <2> QED
    BY <1>4, <2>3
<1>10. AllSeries(out) = AllSeries(samples)
  <2>1. AllSeries(out) = {Series(samples[i]) : i \in DOMAIN samples \cap places}
    BY <1>5, SeriesSet
  <2> QED
    BY <1>9, <2>1 DEF AllSeries
<1> QED
  BY <1>5, <1>7, <1>8, <1>10 DEF out

\* The last of every series is observed; one that is alone is.
LEMMA ObservedLast ==
    ASSUME NEW samples, IsList(samples)
    PROVE  /\ IsList(Observed(samples))
           /\ ToSet(Observed(samples)) \subseteq ToSet(samples)
           /\ AllSeries(Observed(samples)) = AllSeries(samples)
<1> DEFINE N == Len(samples)
           Old(i) == Series(samples[i]) \in {Series(samples[j]) : j \in (i + 1)..N}
           places == {i \in DOMAIN samples : ~Old(i)}
           out == Observed(samples)
<1>1. out = Keep(samples, places)
  BY DEF Observed
<1>2. /\ N \in Nat /\ DOMAIN samples = 1..N
      /\ \A i \in DOMAIN samples : samples[i] \in ToSet(samples)
  BY ListDomain
<1> HIDE DEF out, N
<1>3. ASSUME NEW i \in DOMAIN samples
      PROVE  \E k \in DOMAIN samples \cap places :
                Series(samples[k]) = Series(samples[i])
  <2> DEFINE Same == {n \in 0..N : /\ N - n \in DOMAIN samples
                                   /\ Series(samples[N - n]) = Series(samples[i])}
  <2>1. Same \in SUBSET Nat /\ Same # {}
    <3>1. N - i \in 0..N /\ N - (N - i) = i
      BY <1>2
    <3> QED
      BY <3>1
  <2>2. PICK n \in Same : \A m \in Same : n <= m
    <3> HIDE DEF Same
    <3> QED
      BY <2>1, LeastNumber
  <2>3. ~Old(N - n)
    <3> SUFFICES ASSUME NEW j \in ((N - n) + 1)..N,
                        Series(samples[j]) = Series(samples[N - n])
                 PROVE  FALSE
      OBVIOUS
    <3>1. N - j \in 0..N /\ N - (N - j) = j /\ N - j < n /\ j \in DOMAIN samples
      BY <1>2
    <3>2. N - j \in Same
      BY <3>1
    <3> QED
      BY <1>2, <2>2, <3>1, <3>2
  <2> QED
    BY <2>3
<1> HIDE DEF places
<1>4. IsList(out) /\ ToSet(out) = {samples[i] : i \in DOMAIN samples \cap places}
  BY <1>1, KeepList
<1>5. ToSet(out) \subseteq ToSet(samples)
  BY <1>2, <1>4
<1>6. AllSeries(out) = AllSeries(samples)
  <2>1. AllSeries(out) = {Series(samples[i]) : i \in DOMAIN samples \cap places}
    BY <1>4, SeriesSet
  <2> QED
    BY <1>3, <2>1 DEF AllSeries
<1> QED
  BY <1>4, <1>5, <1>6 DEF out

-----------------------------------------------------------------------------
(* Snapshots.                                                              *)

\* What the arrays gave: in the order of the configuration, nothing of one that
\* is down.
SoundArrays(arrays) ==
    /\ IsList(arrays)
    /\ \A i \in DOMAIN arrays :
         /\ i \in DOMAIN Array /\ arrays[i].array = Array[i]
         /\ arrays[i].up \in BOOLEAN /\ arrays[i].bulk \in BOOLEAN
         /\ ~arrays[i].up => arrays[i].samples = <<>>
         /\ Sound(arrays[i].array, FALSE, MetricNames, arrays[i].samples)

\* Every metric name of the samples, once.
Whole(snap) ==
    /\ SoundArrays(snap.arrays)
    /\ IsList(snap.names) /\ IsInjective(snap.names)
    /\ ToSet(snap.names) = {s.name : s \in ToSet(SamplesOfAll(snap.arrays))}

LEMMA AllSamples ==
    ASSUME NEW arrays, SoundArrays(arrays)
    PROVE  /\ IsList(SamplesOfAll(arrays))
           /\ \A s \in ToSet(SamplesOfAll(arrays)) :
                s.name \in DOMAIN LabelNames /\ DOMAIN s.labels = LabelNames[s.name]
<1> DEFINE parts == [i \in DOMAIN arrays |-> arrays[i].samples]
<1>1. SamplesOfAll(arrays) = FlattenSeq(parts)
  BY DEF SamplesOfAll, Each
<1>2. /\ DOMAIN parts = DOMAIN arrays /\ parts = [i \in DOMAIN arrays |-> parts[i]]
      /\ \A i \in DOMAIN arrays :
           Sound(arrays[i].array, FALSE, MetricNames, parts[i])
  BY DEF SoundArrays
<1> HIDE DEF parts
<1>3. IsList(parts)
  <2>1. DOMAIN arrays = 1..Len(arrays) /\ Len(arrays) \in Nat
    BY ListDomain DEF SoundArrays
  <2> QED
    BY <1>2, <2>1, ListFunction
<1>4. /\ IsList(FlattenSeq(parts))
      /\ ToSet(FlattenSeq(parts)) = UNION {ToSet(parts[i]) : i \in DOMAIN parts}
  BY <1>2, <1>3, ListFlatten DEF Sound
<1>5. \A i \in DOMAIN parts : \A s \in ToSet(parts[i]) :
         s.name \in DOMAIN LabelNames /\ DOMAIN s.labels = LabelNames[s.name]
  BY <1>2 DEF Sound, Labelled, MetricNames
<1> QED
  BY <1>1, <1>4, <1>5

LEMMA NamedSamples ==
    ASSUME NEW snap, SoundArrays(snap.arrays), NEW name
    PROVE  /\ IsList(SamplesByName(snap, name))
           /\ ToSet(SamplesByName(snap, name)) =
                {s \in ToSet(SamplesOfAll(snap.arrays)) : s.name = name}
<1> DEFINE all == SamplesOfAll(snap.arrays)
           places == {i \in DOMAIN all : all[i].name = name}
<1>1. IsList(all)
  BY AllSamples
<1>2. SamplesByName(snap, name) = Keep(all, places)
  BY DEF SamplesByName
<1> HIDE DEF all
<1>3. /\ IsList(Keep(all, places))
      /\ ToSet(Keep(all, places)) = {all[i] : i \in DOMAIN all \cap places}
  BY <1>1, KeepList
<1>4. {all[i] : i \in DOMAIN all \cap places} = {s \in ToSet(all) : s.name = name}
  BY DEF ToSet
<1> QED
  BY <1>2, <1>3, <1>4 DEF all

\* What is collected of an array, whatever it answers and whatever fails.
LEMMA ArraySound ==
    ASSUME NEW a \in ToSet(Array), NEW in \in Inputs[a]
    PROVE  LET x == collectArray(a, in)
           IN  /\ x.array = a /\ x.up \in BOOLEAN /\ x.bulk \in BOOLEAN
               /\ ~x.up => x.samples = <<>>
               /\ Sound(a, ~ListedTwice(in.w), MetricNames, x.samples)
<1> DEFINE once == ~ListedTwice(in.w)
<1>1. Answers(in.w)
  BY InputAssumption
<1>2. BulkCapable(in) \in BOOLEAN
  BY DEF BulkCapable
<1>3. Sound(a, once, MetricNames, PathMetrics(a, in))
  BY <1>1, SamplesSound DEF PathMetrics
<1>4. Sound(a, once, MetricNames, <<>>)
  BY SoundNone DEF SoundOf
<1> HIDE DEF once
<1>5. CASE "cluster" \in in.fails
  BY <1>4, <1>5 DEF collectArray, once
<1>6. CASE "cluster" \notin in.fails
  BY <1>2, <1>3, <1>6 DEF collectArray, once
<1> QED
  BY <1>5, <1>6

\* A cycle.
LEMMA CollectedSound ==
    ASSUME NEW in, \A a \in ToSet(Array) : in[a] \in Inputs[a]
    PROVE  SoundArrays([i \in DOMAIN Array |->
                           collectArray(Array[i], in[Array[i]])])
<1> DEFINE arrays == [i \in DOMAIN Array |-> collectArray(Array[i], in[Array[i]])]
<1>1. IsList(arrays)
  <2>1. DOMAIN Array = 1..Len(Array) /\ Len(Array) \in Nat
    BY ArrayAssumption, ListDomain
  <2>2. arrays = [i \in DOMAIN Array |-> arrays[i]]
    OBVIOUS
  <2> HIDE DEF arrays
  <2> QED
    BY <2>1, <2>2, ListFunction
<1>2. ASSUME NEW i \in DOMAIN Array
      PROVE  LET x == collectArray(Array[i], in[Array[i]])
             IN  /\ x.array = Array[i] /\ x.up \in BOOLEAN /\ x.bulk \in BOOLEAN
                 /\ ~x.up => x.samples = <<>>
                 /\ Sound(Array[i], FALSE, MetricNames, x.samples)
  <2>1. Array[i] \in ToSet(Array) /\ in[Array[i]] \in Inputs[Array[i]]
    BY ArrayAssumption, ListDomain
  <2> QED
    BY <2>1, ArraySound DEF Sound
<1> QED
  BY <1>1, <1>2 DEF SoundArrays

LEMMA SnapshotWhole ==
    ASSUME NEW arrays, SoundArrays(arrays)
    PROVE  Whole(BuildSnapshot(arrays))
<1> DEFINE all == SamplesOfAll(arrays)
           names == [i \in DOMAIN all |-> all[i].name]
           First(i) == names[i] \notin {names[j] : j \in 1..(i - 1)}
           places == {i \in DOMAIN names : First(i)}
           kept == Keep(names, places)
<1>1. BuildSnapshot(arrays) = [arrays |-> arrays, names |-> kept]
  BY DEF BuildSnapshot
<1>2. IsList(all) /\ Len(all) \in Nat /\ DOMAIN all = 1..Len(all)
  BY AllSamples, ListDomain
<1> HIDE DEF all
<1>3. /\ IsList(names) /\ DOMAIN names = DOMAIN all
      /\ \A i \in DOMAIN all : names[i] = all[i].name
  <2>1. /\ DOMAIN names = DOMAIN all /\ names = [i \in 1..Len(all) |-> names[i]]
        /\ \A i \in DOMAIN all : names[i] = all[i].name
    BY <1>2
  <2> HIDE DEF names
  <2> QED
    BY <1>2, <2>1, ListFunction
<1> HIDE DEF names, kept
<1>4. ASSUME NEW i \in DOMAIN names
      PROVE  \E k \in DOMAIN names \cap places : names[k] = names[i]
  <2> DEFINE Same == {k \in DOMAIN names : names[k] = names[i]}
  <2>1. Same \in SUBSET Nat /\ Same # {}
    BY <1>2, <1>3
  <2>2. PICK k \in Same : \A m \in Same : k <= m
    <3> HIDE DEF Same
    <3> QED
      BY <2>1, LeastNumber
  <2>3. First(k)
    <3> SUFFICES ASSUME NEW j \in 1..(k - 1), names[j] = names[k]
                 PROVE  FALSE
      OBVIOUS
    <3>1. j \in Same /\ j < k
      BY <1>2, <1>3
    <3> QED
      BY <1>2, <1>3, <2>2, <3>1
  <2> QED
    BY <2>3
<1>5. PICK at : Chosen(kept, names, places, at)
  BY <1>3, KeepList DEF kept
<1>6. IsList(kept) /\ ToSet(kept) = {names[i] : i \in DOMAIN names \cap places}
  BY <1>3, KeepList DEF kept
<1>7. IsInjective(kept)
  <2> SUFFICES ASSUME NEW k \in DOMAIN kept, NEW l \in DOMAIN kept,
                      kept[k] = kept[l]
               PROVE  k = l
    BY DEF IsInjective
  <2>1. /\ at[k] \in 1..Len(all) /\ at[l] \in 1..Len(all)
        /\ First(at[k]) /\ First(at[l]) /\ names[at[k]] = names[at[l]]
    BY <1>2, <1>3, <1>5 DEF Chosen
  <2>2. ~(at[k] < at[l]) /\ ~(at[l] < at[k])
    BY <1>2, <2>1
  <2>3. k \in Nat /\ l \in Nat
    BY <1>6, ListDomain
  <2>4. ~(k < l) /\ ~(l < k)
    BY <1>5, <2>2 DEF Chosen
  <2> QED
    BY <2>3, <2>4
<1>8. ToSet(kept) = {s.name : s \in ToSet(all)}
  <2>1. {names[i] : i \in DOMAIN names \cap places} = {names[i] : i \in DOMAIN names}
    BY <1>4
  <2>2. {names[i] : i \in DOMAIN names} = {s.name : s \in ToSet(all)}
    BY <1>3 DEF ToSet
  <2> QED
    BY <1>6, <2>1, <2>2
<1> QED
  BY <1>1, <1>6, <1>7, <1>8 DEF Whole, all

LEMMA EmptyWhole == Whole(EmptySnapshot)
<1>1. SoundArrays(<<>>)
  BY NoList DEF SoundArrays
<1>2. SamplesOfAll(<<>>) = <<>>
  BY DEF SamplesOfAll, Each, FlattenSeq
<1> QED
  BY <1>1, <1>2, NoList DEF Whole, EmptySnapshot, IsInjective

\* The health gauges are of no metric the samples have, and of one array each.
LEMMA HealthDistinct ==
    ASSUME NEW snap, SoundArrays(snap.arrays)
    PROVE  /\ IsList(HealthGauges(snap)) /\ Distinct(HealthGauges(snap))
           /\ \A s \in ToSet(HealthGauges(snap)) : s.name \notin DOMAIN LabelNames
<1> DEFINE arrays == snap.arrays
           up(x) == Sample("powerstore_up", [array |-> x.array], b2f(x.up))
           last(x) == IF x.up
                      THEN Sample("powerstore_last_scrape_timestamp_seconds",
                                  [array |-> x.array], 1) ELSE <<>>
           bulk(x) == Sample("powerstore_array_bulk_api", [array |-> x.array],
                             b2f(x.bulk))
           parts == [i \in DOMAIN arrays |->
                        up(arrays[i]) \o last(arrays[i]) \o bulk(arrays[i])]
<1>1. HealthGauges(snap) = FlattenSeq(parts)
  BY DEF HealthGauges, Each
<1>2. ASSUME NEW x
      PROVE  LET s == up(x) \o last(x) \o bulk(x) IN
             /\ IsList(s) /\ Distinct(s)
             /\ \A e \in ToSet(s) : /\ e.name \notin DOMAIN LabelNames
                                    /\ e.labels = [array |-> x.array]
  <2>1. ASSUME NEW name, NEW value, name \notin DOMAIN LabelNames
        PROVE  LET s == Sample(name, [array |-> x.array], value) IN
               /\ IsList(s) /\ Distinct(s)
               /\ \A e \in ToSet(s) : /\ e.name = name
                                      /\ e.labels = [array |-> x.array]
    <3> DEFINE e == [name |-> name, labels |-> [array |-> x.array], value |-> value]
    <3>1. Sample(name, [array |-> x.array], value) = <<e>>
      BY DEF Sample
    <3>2. e.name = name /\ e.labels = [array |-> x.array]
      OBVIOUS
    <3> HIDE DEF e
    <3> QED
      BY <3>1, <3>2, OneList DEF Distinct
  <2>2. /\ "powerstore_up" \notin DOMAIN LabelNames
        /\ "powerstore_last_scrape_timestamp_seconds" \notin DOMAIN LabelNames
        /\ "powerstore_array_bulk_api" \notin DOMAIN LabelNames
    BY DEF LabelNames
  <2>3. /\ IsList(up(x)) /\ Distinct(up(x))
        /\ \A e \in ToSet(up(x)) :
              e.name = "powerstore_up" /\ e.labels = [array |-> x.array]
    BY <2>1, <2>2
  <2>4. /\ IsList(bulk(x)) /\ Distinct(bulk(x))
        /\ \A e \in ToSet(bulk(x)) :
              /\ e.name = "powerstore_array_bulk_api"
              /\ e.labels = [array |-> x.array]
    BY <2>1, <2>2
  <2>5. /\ IsList(last(x)) /\ Distinct(last(x))
        /\ \A e \in ToSet(last(x)) :
              /\ e.name = "powerstore_last_scrape_timestamp_seconds"
              /\ e.labels = [array |-> x.array]
    <3>1. CASE x.up
      BY <2>1, <2>2, <3>1
    <3>2. CASE ~x.up
      BY <3>2, NoList DEF Distinct
    <3> QED
      BY <3>1, <3>2
  <2> HIDE DEF up, last, bulk
  <2>6. /\ IsList(up(x) \o last(x)) /\ Distinct(up(x) \o last(x))
        /\ ToSet(up(x) \o last(x)) = ToSet(up(x)) \cup ToSet(last(x))
    <3>1. \A d \in ToSet(up(x)), e \in ToSet(last(x)) : Series(d) # Series(e)
      BY <2>3, <2>5 DEF Series
    <3> QED
      BY <2>3, <2>5, <3>1, DistinctConcat, ListConcat
  <2>7. \A d \in ToSet(up(x) \o last(x)), e \in ToSet(bulk(x)) :
            Series(d) # Series(e)
    BY <2>3, <2>4, <2>5, <2>6 DEF Series
  <2>8. LET s == (up(x) \o last(x)) \o bulk(x) IN
        IsList(s) /\ Distinct(s)
        /\ ToSet(s) = ToSet(up(x)) \cup ToSet(last(x)) \cup ToSet(bulk(x))
    BY <2>4, <2>6, <2>7, DistinctConcat, ListConcat
  <2> QED
    BY <2>2, <2>3, <2>4, <2>5, <2>8
<1> HIDE DEF up, last, bulk
<1>3. /\ DOMAIN arrays = 1..Len(arrays) /\ Len(arrays) \in Nat
      /\ \A i \in DOMAIN arrays : i \in DOMAIN Array /\ arrays[i].array = Array[i]
  BY ListDomain DEF SoundArrays
<1>4. /\ DOMAIN parts = DOMAIN arrays
      /\ parts = [i \in 1..Len(arrays) |-> parts[i]]
      /\ \A i \in DOMAIN arrays :
           /\ IsList(parts[i]) /\ Distinct(parts[i])
           /\ \A e \in ToSet(parts[i]) : /\ e.name \notin DOMAIN LabelNames
                                         /\ e.labels = [array |-> Array[i]]
  BY <1>2, <1>3
<1> HIDE DEF parts, arrays
<1>5. IsList(parts)
  BY <1>3, <1>4, ListFunction
<1>6. \A i, j \in DOMAIN parts : i # j =>
         \A x \in ToSet(parts[i]), y \in ToSet(parts[j]) : Series(x) # Series(y)
  <2> SUFFICES ASSUME NEW i \in DOMAIN parts, NEW j \in DOMAIN parts, i # j,
                      NEW x \in ToSet(parts[i]), NEW y \in ToSet(parts[j]),
                      Series(x) = Series(y)
               PROVE  FALSE
    OBVIOUS
  <2>1. x.labels = [array |-> Array[i]] /\ y.labels = [array |-> Array[j]]
    BY <1>4
  <2>2. x.labels = y.labels
    BY DEF Series
  <2>3. x.labels.array = Array[i] /\ y.labels.array = Array[j]
    BY <2>1
  <2>4. Array[i] = Array[j]
    BY <2>2, <2>3
  <2> QED
    BY <1>3, <1>4, <2>4, ArrayAssumption DEF IsInjective
<1>7. Distinct(FlattenSeq(parts))
  BY <1>4, <1>5, <1>6, DistinctFlatten
<1>8. /\ IsList(FlattenSeq(parts))
      /\ ToSet(FlattenSeq(parts)) = UNION {ToSet(parts[i]) : i \in DOMAIN parts}
  BY <1>4, <1>5, ListFlatten
<1>9. \A s \in ToSet(FlattenSeq(parts)) : s.name \notin DOMAIN LabelNames
  BY <1>4, <1>8
<1> QED
  BY <1>1, <1>7, <1>8, <1>9

-----------------------------------------------------------------------------
(* The invariants.                                                         *)

\* The snapshots that can be seen are whole.
Sane ==
    /\ TypeOK
    /\ Whole(store) /\ Whole(reader.snap)
    /\ IsList(registered)
    /\ reader = [kind |-> reader.kind, snap |-> reader.snap, at |-> reader.at,
                 out |-> reader.out, torn |-> reader.torn]

\* Samples of the names that come before place n.
Before(arrays, names, n) ==
    {s \in ToSet(SamplesOfAll(arrays)) : s.name \in {names[i] : i \in 1..(n - 1)}}

\* A scrape has the health gauges and what the names up to the next one have.
ScrapeSoFar ==
    reader.kind = "scrape" =>
        LET snap == reader.snap IN
        /\ reader.at \in 1..(Len(snap.names) + 1)
        /\ IsList(reader.out) /\ Distinct(reader.out)
        /\ AllSeries(reader.out) =
             AllSeries(HealthGauges(snap)) \cup
             {Series(s) : s \in Before(snap.arrays, snap.names, reader.at)}

\* A push has what the store has of the names up to the next one, as long as
\* the store is the one it began with.
PushSoFar ==
    reader.kind = "push" =>
        /\ reader.at \in 1..(Len(registered) + 1)
        /\ IsList(reader.out)
        /\ ~reader.torn =>
             LET has == Before(store.arrays, registered, reader.at) IN
             /\ AllSeries(reader.out) = {Series(s) : s \in has}
             /\ ToSet(reader.out) \subseteq has

-----------------------------------------------------------------------------
LEMMA SaneInit == Init => Sane
<1> SUFFICES ASSUME Init PROVE Sane
  OBVIOUS
<1>1. SamplesOfAll(<<>>) = <<>>
  BY DEF SamplesOfAll, Each, FlattenSeq
<1>2. ToSet(<<>>) = {}
  BY NoList
<1>3. TypeOK
  BY <1>1, <1>2, CyclesAssumption DEF TypeOK, Init, EmptySnapshot, NoReader
<1> QED
  BY <1>3, EmptyWhole, NoList DEF Sane, Init, NoReader

\* A snapshot that is whole is what the type invariant says of the store.
LEMMA WholeType ==
    ASSUME Whole(store)
    PROVE  /\ \A i \in DOMAIN store.arrays :
                LET x == store.arrays[i] IN
                /\ x.array = Array[i]
                /\ x.up \in BOOLEAN /\ x.bulk \in BOOLEAN
                /\ ~x.up => x.samples = <<>>
           /\ ToSet(store.names) = {s.name : s \in ToSet(SamplesOfAll(store.arrays))}
BY DEF Whole, SoundArrays

LEMMA SaneNext == Sane /\ [Next]_vars => Sane'
<1> SUFFICES ASSUME Sane, [Next]_vars PROVE Sane'
  OBVIOUS
<1> USE DEF Sane
<1>1. /\ Len(reader.snap.names) \in Nat /\ Len(registered) \in Nat
      /\ reader.at \in 1..(Len(reader.snap.names) + Len(registered) + 1)
      /\ reader.kind \in {"none", "scrape", "push"}
      /\ cycles \in 0..MaxCycles
      /\ \A a \in ToSet(Array) : input[a] \in Inputs[a] \cup {NoInput}
  BY ListDomain DEF TypeOK, Whole
<1>2. CASE Cycle
  <2>1. PICK in \in [ToSet(Array) -> UNION Range(Inputs)] :
           /\ \A a \in ToSet(Array) : in[a] \in Inputs[a]
           /\ input' = in
           /\ store' = BuildSnapshot([i \in DOMAIN Array |->
                                         collectArray(Array[i], in[Array[i]])])
    BY <1>2 DEF Cycle
  <2>2. Whole(store')
    BY <2>1, CollectedSound, SnapshotWhole
  <2>3. /\ reader' = [reader EXCEPT !.torn = (reader.kind # "none")]
        /\ registered' = registered /\ cycles' \in 0..MaxCycles
    BY <1>1, <1>2, CyclesAssumption DEF Cycle
  <2>4. /\ reader'.kind = reader.kind /\ reader'.snap = reader.snap
        /\ reader'.at = reader.at /\ reader'.out = reader.out
        /\ reader' = [kind |-> reader'.kind, snap |-> reader'.snap,
                      at |-> reader'.at, out |-> reader'.out,
                      torn |-> reader'.torn]
    BY <2>3
  <2>5. Whole(store)'
    BY <2>2
  <2>6. \A a \in ToSet(Array) : input'[a] \in Inputs[a] \cup {NoInput}
    BY <2>1
  <2>7. TypeOK'
    <3>1. /\ \A i \in DOMAIN store'.arrays :
                LET x == store'.arrays[i] IN
                /\ x.array = Array[i]
                /\ x.up \in BOOLEAN /\ x.bulk \in BOOLEAN
                /\ ~x.up => x.samples = <<>>
          /\ ToSet(store'.names) =
                {s.name : s \in ToSet(SamplesOfAll(store'.arrays))}
      BY <2>2 DEF Whole, SoundArrays
    <3> QED
      BY <1>1, <2>3, <2>4, <2>6, <3>1 DEF TypeOK
  <2> QED
    BY <2>2, <2>3, <2>4, <2>7
<1>3. CASE EnsureInstruments
  <2> DEFINE new == Keep(store.names, {i \in DOMAIN store.names :
                                         store.names[i] \notin ToSet(registered)})
  <2>1. /\ registered' = registered \o new
        /\ UNCHANGED <<input, store, cycles, reader>>
    BY <1>3 DEF EnsureInstruments
  <2>2. IsList(new)
    BY KeepList DEF Whole
  <2> HIDE DEF new
  <2>3. IsList(registered') /\ Len(registered') >= Len(registered)
        /\ Len(registered') \in Nat
    <3>1. Len(new) \in Nat
      BY <2>2, ListDomain
    <3>2. IsList(registered \o new) /\ Len(registered \o new) = Len(registered) + Len(new)
      BY <2>2, ListConcat
    <3> QED
      BY <1>1, <2>1, <3>1, <3>2
  <2>4. reader'.at \in 1..(Len(reader'.snap.names) + Len(registered') + 1)
    <3>1. reader' = reader
      BY <2>1
    <3>2. reader.at \in 1..(Len(reader.snap.names) + Len(registered') + 1)
      BY <1>1, <2>3
    <3> QED
      BY <3>1, <3>2
  <2>5. TypeOK'
    BY <1>1, <2>1, <2>4 DEF TypeOK
  <2> QED
    BY <2>1, <2>3, <2>5
<1>4. ASSUME UNCHANGED <<input, store, cycles, registered>>,
             reader' = [kind |-> reader'.kind, snap |-> reader'.snap,
                        at |-> reader'.at, out |-> reader'.out,
                        torn |-> reader'.torn],
             Whole(reader'.snap),
             reader'.kind \in {"none", "scrape", "push"},
             reader'.at \in 1..(Len(reader'.snap.names) + Len(registered) + 1)
      PROVE  Sane'
  <2>1. TypeOK'
    BY <1>4 DEF TypeOK
  <2> QED
    BY <1>4, <2>1
<1>5. /\ NoReader.snap = EmptySnapshot /\ NoReader.at = 1 /\ NoReader.kind = "none"
      /\ NoReader = [kind |-> NoReader.kind, snap |-> NoReader.snap,
                     at |-> NoReader.at, out |-> NoReader.out,
                     torn |-> NoReader.torn]
  BY DEF NoReader
<1>6. Len(EmptySnapshot.names) = 0
  BY DEF EmptySnapshot
<1>7. CASE ScrapeStart
  <2>1. /\ reader' = [NoReader EXCEPT !.kind = "scrape", !.snap = store,
                                      !.out = HealthGauges(store)]
        /\ UNCHANGED <<input, store, cycles, registered>>
    BY <1>7 DEF ScrapeStart
  <2>2. Len(store.names) \in Nat
    BY ListDomain DEF Whole
  <2>3. /\ reader'.kind = "scrape" /\ reader'.snap = store /\ reader'.at = 1
        /\ reader' = [kind |-> reader'.kind, snap |-> reader'.snap,
                      at |-> reader'.at, out |-> reader'.out,
                      torn |-> reader'.torn]
    BY <2>1 DEF NoReader
  <2>4. reader'.at \in 1..(Len(reader'.snap.names) + Len(registered) + 1)
    BY <1>1, <2>2, <2>3
  <2> QED
    BY <1>4, <2>1, <2>3, <2>4
<1>8. CASE ScrapeName
  <2>1. PICK more : reader' = [reader EXCEPT !.at = @ + 1, !.out = @ \o more]
    BY <1>8 DEF ScrapeName
  <2>2. /\ UNCHANGED <<input, store, cycles, registered>>
        /\ reader.at <= Len(reader.snap.names)
    BY <1>8 DEF ScrapeName
  <2>3. /\ reader'.kind = reader.kind /\ reader'.snap = reader.snap
        /\ reader'.at = reader.at + 1
        /\ reader' = [kind |-> reader'.kind, snap |-> reader'.snap,
                      at |-> reader'.at, out |-> reader'.out,
                      torn |-> reader'.torn]
    BY <2>1
  <2>4. reader'.at \in 1..(Len(reader'.snap.names) + Len(registered) + 1)
    BY <1>1, <2>2, <2>3
  <2> QED
    BY <1>1, <1>4, <2>2, <2>3, <2>4
<1>9. CASE PushStart
  <2>1. /\ reader' = [NoReader EXCEPT !.kind = "push"]
        /\ UNCHANGED <<input, store, cycles, registered>>
    BY <1>9 DEF PushStart
  <2>2. /\ reader'.kind = "push" /\ reader'.snap = EmptySnapshot /\ reader'.at = 1
        /\ reader' = [kind |-> reader'.kind, snap |-> reader'.snap,
                      at |-> reader'.at, out |-> reader'.out,
                      torn |-> reader'.torn]
    BY <2>1 DEF NoReader
  <2>3. reader'.at \in 1..(Len(reader'.snap.names) + Len(registered) + 1)
    BY <1>1, <1>6, <2>2
  <2> QED
    BY <1>4, <2>1, <2>2, <2>3, EmptyWhole
<1>10. CASE Observe
  <2>1. PICK more : reader' = [reader EXCEPT !.at = @ + 1, !.out = @ \o more]
    BY <1>10 DEF Observe
  <2>2. /\ UNCHANGED <<input, store, cycles, registered>>
        /\ reader.at <= Len(registered)
    BY <1>10 DEF Observe
  <2>3. /\ reader'.kind = reader.kind /\ reader'.snap = reader.snap
        /\ reader'.at = reader.at + 1
        /\ reader' = [kind |-> reader'.kind, snap |-> reader'.snap,
                      at |-> reader'.at, out |-> reader'.out,
                      torn |-> reader'.torn]
    BY <2>1
  <2>4. reader'.at \in 1..(Len(reader'.snap.names) + Len(registered) + 1)
    BY <1>1, <2>2, <2>3
  <2> QED
    BY <1>1, <1>4, <2>2, <2>3, <2>4
<1>11. CASE ReaderEnds
  <2>1. reader' = NoReader /\ UNCHANGED <<input, store, cycles, registered>>
    BY <1>11 DEF ReaderEnds
  <2>2. reader'.at \in 1..(Len(reader'.snap.names) + Len(registered) + 1)
    BY <1>1, <1>5, <1>6, <2>1
  <2> QED
    BY <1>4, <1>5, <2>1, <2>2, EmptyWhole
<1>12. CASE UNCHANGED vars
  BY <1>12 DEF vars, TypeOK
<1> QED
  BY <1>2, <1>3, <1>7, <1>8, <1>9, <1>10, <1>11, <1>12 DEF Next

\* The state keeps its types: whatever the arrays answer and whatever fails, an
\* array that is down has no samples, and the names of the published snapshot
\* are those of its samples (snapshot.go:36).
THEOREM ReadersTypes == Spec => []TypeOK
<1>1. Sane => TypeOK
  BY DEF Sane
<1> QED
  BY <1>1, SaneInit, SaneNext, PTL DEF Spec

-----------------------------------------------------------------------------
(* A scrape.                                                               *)

\* The next name adds its series, each once, and none that is there already.
LEMMA ScrapeAdds ==
    ASSUME NEW snap, Whole(snap), NEW n \in 1..Len(snap.names), NEW out,
           IsList(out), Distinct(out),
           AllSeries(out) = AllSeries(HealthGauges(snap)) \cup
               {Series(s) : s \in Before(snap.arrays, snap.names, n)}
    PROVE  LET new == out \o Emits(SamplesByName(snap, snap.names[n])) IN
           /\ IsList(new) /\ Distinct(new)
           /\ AllSeries(new) = AllSeries(HealthGauges(snap)) \cup
                {Series(s) : s \in Before(snap.arrays, snap.names, n + 1)}
<1> DEFINE name == snap.names[n]
           samples == SamplesByName(snap, name)
           all == ToSet(SamplesOfAll(snap.arrays))
           more == Emits(samples)
<1>1. SoundArrays(snap.arrays) /\ IsList(snap.names) /\ IsInjective(snap.names)
  BY DEF Whole
<1>2. DOMAIN snap.names = 1..Len(snap.names) /\ Len(snap.names) \in Nat
  BY <1>1, ListDomain
<1>3. name \in DOMAIN LabelNames
  <2>1. name \in {s.name : s \in all}
    BY <1>2, ListDomain DEF Whole
  <2> QED
    BY <1>1, <2>1, AllSamples
<1>4. IsList(samples) /\ ToSet(samples) = {s \in all : s.name = name}
  BY <1>1, NamedSamples
<1>5. \A s \in ToSet(samples) : DOMAIN s.labels = LabelNames[name]
  BY <1>1, <1>4, AllSamples
<1> HIDE DEF samples
<1>6. /\ IsList(more) /\ Distinct(more) /\ ToSet(more) \subseteq ToSet(samples)
      /\ AllSeries(more) = AllSeries(samples)
  BY <1>4, <1>5, EmitsFirst
<1> HIDE DEF name, more, all
<1>7. \A x \in ToSet(out), y \in ToSet(more) : Series(x) # Series(y)
  <2> SUFFICES ASSUME NEW x \in ToSet(out), NEW y \in ToSet(more),
                      Series(x) = Series(y)
               PROVE  FALSE
    OBVIOUS
  <2>1. y.name = name
    BY <1>4, <1>6
  <2>2. x.name = name
    BY <2>1 DEF Series
  <2>3. Series(x) \in AllSeries(out)
    BY SeriesSet
  <2>4. CASE Series(x) \in AllSeries(HealthGauges(snap))
    <3>1. PICK h \in ToSet(HealthGauges(snap)) : Series(x) = Series(h)
      BY <2>4, SeriesSet
    <3>2. h.name = name
      BY <2>2, <3>1 DEF Series
    <3> QED
      BY <1>1, <1>3, <3>2, HealthDistinct
  <2>5. CASE Series(x) \in {Series(s) : s \in Before(snap.arrays, snap.names, n)}
    <3>1. PICK s \in Before(snap.arrays, snap.names, n) : Series(x) = Series(s)
      BY <2>5
    <3>2. s.name = name
      BY <2>2, <3>1 DEF Series
    <3>3. PICK i \in 1..(n - 1) : snap.names[i] = name
      BY <3>2 DEF Before
    <3>4. i \in 1..Len(snap.names) /\ i # n
      BY <1>2
    <3> QED
      BY <1>1, <1>2, <3>3, <3>4 DEF IsInjective, name
  <2> QED
    BY <2>3, <2>4, <2>5
<1>8. /\ IsList(out \o more) /\ Distinct(out \o more)
      /\ ToSet(out \o more) = ToSet(out) \cup ToSet(more)
  BY <1>6, <1>7, ListConcat, DistinctConcat
<1>9. AllSeries(out \o more) = AllSeries(out) \cup AllSeries(samples)
  BY <1>6, <1>8, SeriesSet
<1>10. Before(snap.arrays, snap.names, n + 1) =
         Before(snap.arrays, snap.names, n) \cup ToSet(samples)
  <2>1. {snap.names[i] : i \in 1..((n + 1) - 1)} =
          {snap.names[i] : i \in 1..(n - 1)} \cup {name}
    <3>1. 1..((n + 1) - 1) = (1..(n - 1)) \cup {n}
      BY <1>2
    <3> QED
      BY <3>1 DEF name
  <2> QED
    BY <1>4, <2>1 DEF Before, all
<1>11. AllSeries(samples) = {Series(s) : s \in ToSet(samples)}
  BY SeriesSet
<1>12. AllSeries(out \o more) = AllSeries(HealthGauges(snap)) \cup
         {Series(s) : s \in Before(snap.arrays, snap.names, n + 1)}
  BY <1>9, <1>10, <1>11
<1> QED
  BY <1>8, <1>12 DEF more, samples, name

LEMMA ScrapeNext == Sane /\ ScrapeSoFar /\ [Next]_vars => ScrapeSoFar'
<1> SUFFICES ASSUME Sane, ScrapeSoFar, [Next]_vars PROVE ScrapeSoFar'
  OBVIOUS
<1>1. ASSUME NEW torn, reader' = [reader EXCEPT !.torn = torn]
      PROVE  ScrapeSoFar'
  <2>1. /\ reader'.kind = reader.kind /\ reader'.snap = reader.snap
        /\ reader'.at = reader.at /\ reader'.out = reader.out
    BY <1>1 DEF Sane
  <2> QED
    BY <2>1 DEF ScrapeSoFar
<1>2. CASE ScrapeStart
  <2>1. /\ reader'.kind = "scrape" /\ reader'.snap = store /\ reader'.at = 1
        /\ reader'.out = HealthGauges(store)
    BY <1>2 DEF ScrapeStart, NoReader
  <2>2. 1 \in 1..(Len(store.names) + 1)
    BY ListDomain DEF Sane, Whole
  <2>3. Before(store.arrays, store.names, 1) = {}
    BY DEF Before
  <2>4. IsList(HealthGauges(store)) /\ Distinct(HealthGauges(store))
    BY HealthDistinct DEF Sane, Whole
  <2> QED
    BY <2>1, <2>2, <2>3, <2>4 DEF ScrapeSoFar
<1>3. CASE ScrapeName
  <2> DEFINE snap == reader.snap
             more == Emits(SamplesByName(snap, snap.names[reader.at]))
  <2>1. /\ reader.kind = "scrape" /\ reader.at <= Len(snap.names)
        /\ reader' = [reader EXCEPT !.at = @ + 1, !.out = @ \o more]
    BY <1>3 DEF ScrapeName
  <2>2. /\ reader'.snap = snap /\ reader'.at = reader.at + 1
        /\ reader'.out = reader.out \o more
    BY <2>1 DEF Sane
  <2>3. /\ reader.at \in 1..(Len(snap.names) + 1)
        /\ IsList(reader.out) /\ Distinct(reader.out)
        /\ AllSeries(reader.out) = AllSeries(HealthGauges(snap)) \cup
             {Series(s) : s \in Before(snap.arrays, snap.names, reader.at)}
    BY <2>1 DEF ScrapeSoFar
  <2>4. Whole(snap) /\ Len(snap.names) \in Nat
    BY ListDomain DEF Sane, Whole
  <2>5. reader.at \in 1..Len(snap.names) /\ reader.at + 1 \in 1..(Len(snap.names) + 1)
    BY <2>1, <2>3, <2>4
  <2>6. /\ IsList(reader.out \o more) /\ Distinct(reader.out \o more)
        /\ AllSeries(reader.out \o more) = AllSeries(HealthGauges(snap)) \cup
             {Series(s) : s \in Before(snap.arrays, snap.names, reader.at + 1)}
    BY <2>3, <2>4, <2>5, ScrapeAdds
  <2> HIDE DEF snap, more
  <2> QED
    BY <2>2, <2>5, <2>6 DEF ScrapeSoFar
<1>4. CASE reader'.kind # "scrape"
  BY <1>4 DEF ScrapeSoFar
<1>5. CASE reader' = reader
  BY <1>5 DEF ScrapeSoFar
<1>6. Cycle => \E torn : reader' = [reader EXCEPT !.torn = torn]
  BY DEF Cycle
<1>7. EnsureInstruments \/ UNCHANGED vars => reader' = reader
  BY DEF EnsureInstruments, vars
<1>8. PushStart => reader'.kind # "scrape"
  BY DEF PushStart, NoReader
<1>9. Observe => reader'.kind # "scrape"
  BY DEF Observe, Sane
<1>10. ReaderEnds => reader'.kind # "scrape"
  BY DEF ReaderEnds, NoReader
<1> QED
  BY <1>1, <1>2, <1>3, <1>4, <1>5, <1>6, <1>7, <1>8, <1>9, <1>10 DEF Next

\* Every scrape is exact: it shows every series of the snapshot it began with,
\* none of another, and none twice, so that the registry never rejects it
\* (prometheus.go:48).
THEOREM ScrapesExact == Spec => []ScrapeExact
<1>1. Init => ScrapeSoFar
  BY DEF Init, NoReader, ScrapeSoFar
<1>2. Sane /\ ScrapeSoFar => ScrapeExact
  <2> SUFFICES ASSUME Sane, ScrapeSoFar, ScrapeDone
               PROVE  LET all == HealthGauges(reader.snap)
                                 \o SamplesOfAll(reader.snap.arrays)
                      IN  /\ AllSeries(reader.out) = AllSeries(all)
                          /\ Cardinality(AllSeries(reader.out)) = Len(reader.out)
    BY DEF ScrapeExact
  <2> DEFINE snap == reader.snap
             samples == SamplesOfAll(snap.arrays)
  <2>1. /\ reader.at \in 1..(Len(snap.names) + 1) /\ reader.at > Len(snap.names)
        /\ IsList(reader.out) /\ Distinct(reader.out)
        /\ AllSeries(reader.out) = AllSeries(HealthGauges(snap)) \cup
             {Series(s) : s \in Before(snap.arrays, snap.names, reader.at)}
    BY DEF ScrapeDone, ScrapeSoFar
  <2>2. /\ Len(snap.names) \in Nat /\ DOMAIN snap.names = 1..Len(snap.names)
        /\ ToSet(snap.names) = {s.name : s \in ToSet(samples)}
        /\ SoundArrays(snap.arrays)
    BY ListDomain DEF Sane, Whole
  <2> HIDE DEF snap, samples
  <2>3. 1..(reader.at - 1) = 1..Len(snap.names)
    BY <2>1, <2>2
  <2>4. {snap.names[i] : i \in 1..(reader.at - 1)} = ToSet(snap.names)
    BY <2>2, <2>3 DEF ToSet
  <2>5. Before(snap.arrays, snap.names, reader.at) = ToSet(samples)
    BY <2>2, <2>4 DEF Before, samples
  <2>6. ToSet(HealthGauges(snap) \o samples) =
          ToSet(HealthGauges(snap)) \cup ToSet(samples)
    BY <2>2, HealthDistinct, AllSamples, ListConcat DEF samples
  <2>7. AllSeries(HealthGauges(snap) \o samples) =
          AllSeries(HealthGauges(snap)) \cup {Series(s) : s \in ToSet(samples)}
    BY <2>6, SeriesSet
  <2>8. Cardinality(AllSeries(reader.out)) = Len(reader.out)
    BY <2>1, DistinctCounted
  <2> QED
    BY <2>1, <2>5, <2>7, <2>8 DEF snap, samples
<1> QED
  BY <1>1, <1>2, SaneInit, SaneNext, ScrapeNext, PTL DEF Spec

-----------------------------------------------------------------------------
(* A push.                                                                 *)

\* The next callback adds the series of its name, with values of the snapshot.
LEMMA PushAdds ==
    ASSUME NEW snap, SoundArrays(snap.arrays), NEW names, NEW n \in Nat \ {0},
           NEW out, IsList(out),
           AllSeries(out) = {Series(s) : s \in Before(snap.arrays, names, n)},
           ToSet(out) \subseteq Before(snap.arrays, names, n)
    PROVE  LET new == out \o Observed(SamplesByName(snap, names[n]))
               has == Before(snap.arrays, names, n + 1)
           IN  /\ IsList(new)
               /\ AllSeries(new) = {Series(s) : s \in has}
               /\ ToSet(new) \subseteq has
<1> DEFINE samples == SamplesByName(snap, names[n])
           all == ToSet(SamplesOfAll(snap.arrays))
           more == Observed(samples)
           has == Before(snap.arrays, names, n + 1)
<1>1. IsList(samples) /\ ToSet(samples) = {s \in all : s.name = names[n]}
  BY NamedSamples
<1> HIDE DEF samples
<1>2. /\ IsList(more) /\ ToSet(more) \subseteq ToSet(samples)
      /\ AllSeries(more) = AllSeries(samples)
  BY <1>1, ObservedLast
<1> HIDE DEF more, all
<1>3. has = Before(snap.arrays, names, n) \cup ToSet(samples)
  <2>1. {names[i] : i \in 1..((n + 1) - 1)} =
          {names[i] : i \in 1..(n - 1)} \cup {names[n]}
    <3>1. 1..((n + 1) - 1) = (1..(n - 1)) \cup {n}
      OBVIOUS
    <3> QED
      BY <3>1
  <2> QED
    BY <1>1, <2>1 DEF Before, all
<1> HIDE DEF has
<1>4. IsList(out \o more) /\ ToSet(out \o more) = ToSet(out) \cup ToSet(more)
  BY <1>2, ListConcat
<1>5. AllSeries(out \o more) = {Series(s) : s \in has}
  <2>1. AllSeries(out \o more) = AllSeries(out) \cup AllSeries(more)
    BY <1>4, SeriesSet
  <2>2. AllSeries(more) = {Series(s) : s \in ToSet(samples)}
    BY <1>2, SeriesSet
  <2> QED
    BY <1>3, <2>1, <2>2
<1>6. ToSet(out \o more) \subseteq has
  BY <1>2, <1>3, <1>4
<1> QED
  BY <1>4, <1>5, <1>6 DEF more, samples, has

LEMMA PushNext == Sane /\ PushSoFar /\ [Next]_vars => PushSoFar'
<1> SUFFICES ASSUME Sane, PushSoFar, [Next]_vars PROVE PushSoFar'
  OBVIOUS
<1>1. Len(registered) \in Nat /\ SoundArrays(store.arrays)
  BY ListDomain DEF Sane, Whole
<1>2. CASE Cycle
  <2>1. /\ reader' = [reader EXCEPT !.torn = (reader.kind # "none")]
        /\ registered' = registered
    BY <1>2 DEF Cycle
  <2>2. /\ reader'.kind = reader.kind /\ reader'.at = reader.at
        /\ reader'.out = reader.out
        /\ reader.kind = "push" => reader'.torn
    BY <2>1 DEF Sane
  <2> QED
    BY <2>1, <2>2 DEF PushSoFar
<1>3. CASE EnsureInstruments
  <2> DEFINE new == Keep(store.names, {i \in DOMAIN store.names :
                                         store.names[i] \notin ToSet(registered)})
  <2>1. /\ registered' = registered \o new /\ store' = store /\ reader' = reader
    BY <1>3 DEF EnsureInstruments
  <2>2. IsList(new) /\ Len(new) \in Nat
    BY KeepList, ListDomain DEF Sane, Whole
  <2> HIDE DEF new
  <2>3. /\ Len(registered') >= Len(registered) /\ Len(registered') \in Nat
        /\ \A i \in 1..Len(registered) : registered'[i] = registered[i]
    <3>1. /\ IsList(registered)
          /\ Len(registered \o new) = Len(registered) + Len(new)
          /\ \A i \in 1..Len(registered) : (registered \o new)[i] = registered[i]
      BY <2>2, ListConcat DEF Sane
    <3> QED
      BY <1>1, <2>1, <2>2, <3>1
  <2> SUFFICES ASSUME reader.kind = "push"
               PROVE  /\ reader.at \in 1..(Len(registered') + 1)
                      /\ IsList(reader.out)
                      /\ ~reader.torn =>
                           LET has == Before(store.arrays, registered', reader.at) IN
                           /\ AllSeries(reader.out) = {Series(s) : s \in has}
                           /\ ToSet(reader.out) \subseteq has
    BY <2>1 DEF PushSoFar
  <2>4. reader.at \in 1..(Len(registered) + 1)
    BY DEF PushSoFar
  <2>5. Before(store.arrays, registered', reader.at) =
          Before(store.arrays, registered, reader.at)
    <3>1. \A i \in 1..(reader.at - 1) : registered'[i] = registered[i]
      BY <1>1, <2>3, <2>4
    <3>2. {registered'[i] : i \in 1..(reader.at - 1)} =
            {registered[i] : i \in 1..(reader.at - 1)}
      BY <3>1
    <3> QED
      BY <3>2 DEF Before
  <2>6. reader.at \in 1..(Len(registered') + 1)
    BY <1>1, <2>3, <2>4
  <2> QED
    BY <2>5, <2>6 DEF PushSoFar
<1>4. CASE PushStart
  <2>1. /\ reader'.kind = "push" /\ reader'.at = 1 /\ reader'.out = <<>>
        /\ registered' = registered
    BY <1>4 DEF PushStart, NoReader
  <2>2. Before(store'.arrays, registered', 1) = {}
    BY DEF Before
  <2>3. AllSeries(<<>>) = {}
    BY DEF AllSeries
  <2>4. 1 \in 1..(Len(registered') + 1)
    BY <1>1, <2>1
  <2> QED
    BY <2>1, <2>2, <2>3, <2>4, NoList DEF PushSoFar
<1>5. CASE Observe
  <2> DEFINE more == Observed(SamplesByName(store, registered[reader.at]))
  <2>1. /\ reader.kind = "push" /\ reader.at <= Len(registered)
        /\ reader' = [reader EXCEPT !.at = @ + 1, !.out = @ \o more]
        /\ store' = store /\ registered' = registered
    BY <1>5 DEF Observe, MetricName
  <2>2. /\ reader'.at = reader.at + 1 /\ reader'.torn = reader.torn
        /\ reader'.out = reader.out \o more
    BY <2>1 DEF Sane
  <2>3. /\ reader.at \in 1..(Len(registered) + 1) /\ IsList(reader.out)
        /\ ~reader.torn =>
             LET has == Before(store.arrays, registered, reader.at) IN
             /\ AllSeries(reader.out) = {Series(s) : s \in has}
             /\ ToSet(reader.out) \subseteq has
    BY <2>1 DEF PushSoFar
  <2>4. reader.at \in Nat \ {0} /\ reader.at + 1 \in 1..(Len(registered) + 1)
    BY <1>1, <2>1, <2>3
  <2>5. ~reader.torn =>
          LET has == Before(store.arrays, registered, reader.at + 1) IN
          /\ AllSeries(reader.out \o more) = {Series(s) : s \in has}
          /\ ToSet(reader.out \o more) \subseteq has
    BY <1>1, <2>3, <2>4, PushAdds
  <2>6. IsList(reader.out \o more)
    BY <1>1, <2>3, NamedSamples, ObservedLast, ListConcat
  <2> HIDE DEF more
  <2> QED
    BY <2>1, <2>2, <2>4, <2>5, <2>6 DEF PushSoFar
<1>6. CASE UNCHANGED vars
  BY <1>6 DEF PushSoFar, vars
<1>7. ScrapeStart => reader'.kind # "push"
  BY DEF ScrapeStart, NoReader
<1>8. ScrapeName => reader'.kind # "push"
  BY DEF ScrapeName, Sane
<1>9. ReaderEnds => reader'.kind # "push"
  BY DEF ReaderEnds, NoReader
<1>10. reader'.kind # "push" => PushSoFar'
  BY DEF PushSoFar
<1> QED
  BY <1>2, <1>3, <1>4, <1>5, <1>6, <1>7, <1>8, <1>9, <1>10 DEF Next

\* A push that no cycle ran into shows, of the names that have an instrument,
\* the series a scrape shows, with a value the snapshot has for each
\* (otlp.go:158).
THEOREM PushesMatch == Spec => []PushMatchesScrape
<1>1. Init => PushSoFar
  BY DEF Init, NoReader, PushSoFar
<1>2. Sane /\ PushSoFar => PushMatchesScrape
  <2> SUFFICES ASSUME Sane, PushSoFar, PushDone, ~reader.torn
               PROVE  LET all == SamplesOfAll(store.arrays)
                          has == {s \in ToSet(all) : s.name \in ToSet(registered)}
                      IN  /\ AllSeries(reader.out) = {Series(s) : s \in has}
                          /\ ToSet(reader.out) \subseteq has
                          /\ \A s \in has : \/ s \in ToSet(reader.out)
                               \/ \E x \in has : x # s /\ Series(x) = Series(s)
    BY DEF PushMatchesScrape
  <2> DEFINE all == SamplesOfAll(store.arrays)
             has == {s \in ToSet(all) : s.name \in ToSet(registered)}
  <2>1. reader.at \in 1..(Len(registered) + 1) /\ reader.at > Len(registered)
    BY DEF PushDone, PushSoFar
  <2>2. Len(registered) \in Nat /\ DOMAIN registered = 1..Len(registered)
    BY ListDomain DEF Sane
  <2>3. {registered[i] : i \in 1..(reader.at - 1)} = ToSet(registered)
    <3>1. 1..(reader.at - 1) = 1..Len(registered)
      BY <2>1, <2>2
    <3> QED
      BY <2>2, <3>1 DEF ToSet
  <2>4. Before(store.arrays, registered, reader.at) = has
    BY <2>3 DEF Before
  <2> HIDE DEF has
  <2>5. AllSeries(reader.out) = {Series(s) : s \in has} /\ ToSet(reader.out) \subseteq has
    BY <2>4 DEF PushDone, PushSoFar
  <2>6. ASSUME NEW s \in has
        PROVE  s \in ToSet(reader.out)
               \/ \E x \in has : x # s /\ Series(x) = Series(s)
    <3>1. Series(s) \in {Series(x) : x \in ToSet(reader.out)}
      BY <2>5, SeriesSet
    <3>2. PICK x \in ToSet(reader.out) : Series(x) = Series(s)
      BY <3>1
    <3> QED
      BY <2>5, <3>2
  <2> QED
    BY <2>5, <2>6 DEF has
<1> QED
  BY <1>1, <1>2, SaneInit, SaneNext, PushNext, PTL DEF Spec

-----------------------------------------------------------------------------
(* What was collected.                                                     *)

\* The snapshot is what the arrays gave in the last cycle.
Collected ==
    \A i \in DOMAIN store.arrays :
        /\ Array[i] \in ToSet(Array) /\ input[Array[i]] \in Inputs[Array[i]]
        /\ store.arrays[i] = collectArray(Array[i], input[Array[i]])

LEMMA CollectedInit == Init => Collected
BY DEF Init, EmptySnapshot, Collected

LEMMA CollectedNext == Collected /\ [Next]_vars => Collected'
<1> SUFFICES ASSUME Collected, [Next]_vars PROVE Collected'
  OBVIOUS
<1>1. CASE Cycle
  <2>1. PICK in \in [ToSet(Array) -> UNION Range(Inputs)] :
           /\ \A a \in ToSet(Array) : in[a] \in Inputs[a]
           /\ input' = in
           /\ store' = BuildSnapshot([i \in DOMAIN Array |->
                                         collectArray(Array[i], in[Array[i]])])
    BY <1>1 DEF Cycle
  <2>2. store'.arrays = [i \in DOMAIN Array |->
                            collectArray(Array[i], in[Array[i]])]
    BY <2>1 DEF BuildSnapshot
  <2>3. \A i \in DOMAIN Array : Array[i] \in ToSet(Array)
    BY ArrayAssumption, ListDomain
  <2> QED
    BY <2>1, <2>2, <2>3 DEF Collected
<1>2. CASE UNCHANGED <<input, store>>
  BY <1>2 DEF Collected
<1>3. ~Cycle => UNCHANGED <<input, store>>
  BY DEF Next, EnsureInstruments, ScrapeStart, ScrapeName, PushStart, Observe,
         ReaderEnds, vars
<1> QED
  BY <1>1, <1>2, <1>3

\* No two samples of an array are of one series unless one of its lists had an
\* item twice, whatever failed and whichever path it is on (prometheus.go:48).
THEOREM SeriesAreUnique == Spec => []SeriesUnique
<1>1. Collected => SeriesUnique
  <2> SUFFICES ASSUME Collected, NEW x \in ToSet(store.arrays),
                      ~ListedTwice(input[x.array].w)
               PROVE  Cardinality(AllSeries(x.samples)) = Len(x.samples)
    BY DEF SeriesUnique
  <2>1. PICK i \in DOMAIN store.arrays : x = store.arrays[i]
    BY DEF ToSet
  <2> DEFINE a == Array[i]
  <2>2. /\ a \in ToSet(Array) /\ input[a] \in Inputs[a]
        /\ x = collectArray(a, input[a])
    BY <2>1 DEF Collected
  <2> HIDE DEF a
  <2>3. /\ x.array = a
        /\ Sound(a, ~ListedTwice(input[a].w), MetricNames, x.samples)
    BY <2>2, ArraySound
  <2>4. IsList(x.samples) /\ Distinct(x.samples)
    BY <2>3 DEF Sound
  <2> QED
    BY <2>4, DistinctCounted
<1> QED
  BY <1>1, CollectedInit, CollectedNext, PTL DEF Spec
-----------------------------------------------------------------------------
(* Totals.                                                                 *)

\* What a sample adds to the total of a metric.
Adds(s, name) == IF s.name = name THEN s.value ELSE 0

Countable(samples, name) ==
    IsList(samples) /\ \A s \in ToSet(samples) : Adds(s, name) \in Nat

\* f[n] is the total of the first n samples.
Totals(f, samples, name) ==
    /\ f \in [0..Len(samples) -> Nat]
    /\ f[0] = 0
    /\ \A n \in 1..Len(samples) : f[n] = f[n - 1] + Adds(samples[n], name)

LEMMA TotalsExist ==
    ASSUME NEW samples, NEW name, Countable(samples, name)
    PROVE  \E f : Totals(f, samples, name) /\ Total(samples, name) = f[Len(samples)]
<1> DEFINE N == Len(samples)
           Eqn(f) == f = [n \in 0..N |->
             IF n = 0 THEN 0
             ELSE f[n - 1] +
                      (IF samples[n].name = name THEN samples[n].value ELSE 0)]
           g == [x \in Nat \X (1..N) |-> x[1] + Adds(samples[x[2]], name)]
           upTo == CHOOSE f : Eqn(f)
<1>1. /\ N \in Nat
      /\ \A n \in 1..N : Adds(samples[n], name) \in Nat
  BY ListDomain DEF Countable
<1>2. Total(samples, name) = upTo[N]
  BY DEF Total
<1> HIDE DEF N
<1>3. \E f \in [0..N -> Nat] : Recursive(f, N, 0, g)
  <2>1. g \in [Nat \X (1..N) -> Nat]
    BY <1>1
  <2> HIDE DEF g
  <2> QED
    BY <1>1, <2>1, RecursionTo
<1>4. PICK f \in [0..N -> Nat] : Recursive(f, N, 0, g)
  BY <1>3
<1>5. \A n \in 1..N : f[n] = f[n - 1] + Adds(samples[n], name)
  <2> TAKE n \in 1..N
  <2>1. <<f[n - 1], n>> \in Nat \X (1..N)
    <3>1. n - 1 \in 0..N
      BY <1>1
    <3> QED
      BY <1>4, <3>1
  <2> QED
    BY <1>4, <2>1 DEF Recursive
<1>6. Eqn(f)
  <2>1. \A n \in 0..N : n # 0 => n \in 1..N
    BY <1>1
  <2> QED
    BY <1>4, <1>5, <2>1 DEF Adds, Recursive
<1>7. Eqn(upTo)
  BY <1>6
<1> HIDE DEF upTo
<1>8. /\ upTo[0] = 0 /\ DOMAIN upTo = 0..N
      /\ \A n \in 1..N : upTo[n] = upTo[n - 1] + Adds(samples[n], name)
  <2>1. \A n \in 1..N : n \in 0..N /\ n # 0
    BY <1>1
  <2>2. 0 \in 0..N
    BY <1>1
  <2> QED
    BY <1>7, <2>1, <2>2 DEF Adds
<1>9. \A n \in 0..N : upTo[n] \in Nat
  <2> DEFINE T == {n \in 0..N : upTo[n] \in Nat}
  <2>1. 0 \in T
    BY <1>1, <1>8
  <2>2. ASSUME NEW n \in 0..(N - 1), n \in T PROVE n + 1 \in T
    <3>1. n + 1 \in 1..N /\ n + 1 \in 0..N /\ (n + 1) - 1 = n
      BY <1>1
    <3>2. upTo[n + 1] = upTo[n] + Adds(samples[n + 1], name)
      BY <1>8, <3>1
    <3> QED
      BY <1>1, <2>2, <3>1, <3>2
  <2> HIDE DEF T
  <2>3. \A n \in 0..N : n \in T
    BY <1>1, <2>1, <2>2, InductionTo
  <2> QED
    BY <2>3 DEF T
<1>10. upTo \in [0..N -> Nat]
  <2>1. upTo = [n \in 0..N |-> upTo[n]]
    BY <1>7
  <2> QED
    BY <1>9, <2>1
<1>11. Totals(upTo, samples, name)
  BY <1>8, <1>10 DEF Totals, N
<1> QED
  BY <1>2, <1>11 DEF N

\* Two such functions agree.
LEMMA TotalsUnique ==
    ASSUME NEW samples, NEW name, Countable(samples, name),
           NEW f, Totals(f, samples, name)
    PROVE  Total(samples, name) = f[Len(samples)] /\ Total(samples, name) \in Nat
<1> DEFINE N == Len(samples)
<1>1. PICK g : Totals(g, samples, name) /\ Total(samples, name) = g[N]
  BY TotalsExist
<1>2. N \in Nat
  BY ListDomain DEF Countable
<1> DEFINE T == {n \in 0..N : f[n] = g[n]}
<1>3. 0 \in T
  BY <1>1, <1>2 DEF Totals
<1>4. ASSUME NEW n \in 0..(N - 1), n \in T PROVE n + 1 \in T
  <2>1. n + 1 \in 1..N /\ n + 1 \in 0..N /\ (n + 1) - 1 = n
    BY <1>2
  <2>2. /\ f[n + 1] = f[n] + Adds(samples[n + 1], name)
        /\ g[n + 1] = g[n] + Adds(samples[n + 1], name)
    BY <1>1, <2>1 DEF Totals
  <2> QED
    BY <1>4, <2>1, <2>2
<1> HIDE DEF T
<1>5. \A n \in 0..N : n \in T
  BY <1>2, <1>3, <1>4, InductionTo
<1>6. f[N] = g[N] /\ g[N] \in Nat
  BY <1>1, <1>2, <1>5 DEF T, Totals
<1> QED
  BY <1>1, <1>6

LEMMA TotalConcat ==
    ASSUME NEW s, NEW t, NEW name, Countable(s, name), Countable(t, name)
    PROVE  /\ Countable(s \o t, name)
           /\ Total(s \o t, name) = Total(s, name) + Total(t, name)
<1> DEFINE r == s \o t
           L == Len(s)
           M == Len(t)
<1>1. /\ IsList(s) /\ IsList(t) /\ L \in Nat /\ M \in Nat
  BY ListDomain DEF Countable
<1>2. /\ IsList(r) /\ Len(r) = L + M /\ ToSet(r) = ToSet(s) \cup ToSet(t)
      /\ \A i \in 1..L : r[i] = s[i]
      /\ \A i \in 1..M : r[L + i] = t[i]
  BY <1>1, ListConcat
<1>3. PICK f : Totals(f, s, name) /\ Total(s, name) = f[L]
  BY TotalsExist
<1>4. PICK g : Totals(g, t, name) /\ Total(t, name) = g[M]
  BY TotalsExist
<1> HIDE DEF r, L, M
<1>5. Countable(r, name)
  BY <1>2 DEF Countable
<1> DEFINE h == [n \in 0..(L + M) |-> IF n <= L THEN f[n] ELSE f[L] + g[n - L]]
<1>6. /\ f \in [0..L -> Nat] /\ g \in [0..M -> Nat] /\ f[0] = 0 /\ g[0] = 0
      /\ \A n \in 1..L : f[n] = f[n - 1] + Adds(s[n], name)
      /\ \A n \in 1..M : g[n] = g[n - 1] + Adds(t[n], name)
  BY <1>3, <1>4 DEF Totals, L, M
<1>7. h \in [0..(L + M) -> Nat] /\ h[0] = 0
  <2>1. \A n \in 0..(L + M) : (n <= L /\ n \in 0..L) \/ (~(n <= L) /\ n - L \in 0..M)
    BY <1>1
  <2>2. f[L] \in Nat /\ 0 \in 0..(L + M) /\ 0 <= L
    BY <1>1, <1>6
  <2>3. \A n \in 0..(L + M) : (IF n <= L THEN f[n] ELSE f[L] + g[n - L]) \in Nat
    BY <1>6, <2>1, <2>2
  <2> QED
    BY <1>6, <2>2, <2>3
<1>8. ASSUME NEW n \in 1..(L + M) PROVE h[n] = h[n - 1] + Adds(r[n], name)
  <2>1. n \in 0..(L + M) /\ n - 1 \in 0..(L + M)
    BY <1>1
  <2>2. CASE n <= L
    <3>1. n \in 1..L /\ n - 1 <= L
      BY <1>1, <2>2
    <3> QED
      BY <1>2, <1>6, <2>1, <2>2, <3>1
  <2>3. CASE ~(n <= L)
    <3>1. n - L \in 1..M /\ L + (n - L) = n /\ (n - 1) - L = (n - L) - 1
      BY <1>1, <2>3
    <3>2. r[n] = t[n - L]
      BY <1>2, <3>1
    <3>3. h[n] = f[L] + g[n - L] /\ g[n - L] = g[(n - L) - 1] + Adds(r[n], name)
      BY <1>6, <2>1, <2>3, <3>1, <3>2
    <3>4. h[n - 1] = f[L] + g[(n - L) - 1]
      <4>1. CASE n - 1 <= L
        <5>1. n - 1 = L /\ (n - L) - 1 = 0
          BY <1>1, <2>3, <4>1
        <5>2. f[L] \in Nat
          BY <1>1, <1>6
        <5> QED
          BY <1>6, <2>1, <4>1, <5>1, <5>2
      <4>2. CASE ~(n - 1 <= L)
        BY <2>1, <3>1, <4>2
      <4> QED
        BY <4>1, <4>2
    <3>5. f[L] \in Nat /\ g[(n - L) - 1] \in Nat /\ g[n - L] \in Nat
      BY <1>1, <1>6, <3>1
    <3>6. Adds(r[n], name) \in Nat
      <4>1. n \in DOMAIN r
        BY <1>1, <1>2, ListDomain
      <4> QED
        BY <1>2, <1>5, <4>1, ListDomain DEF Countable
    <3> HIDE DEF h
    <3> QED
      BY <3>3, <3>4, <3>5, <3>6
  <2> QED
    BY <2>2, <2>3
<1>9. h[L + M] = f[L] + g[M]
  <2>1. L + M \in 0..(L + M) /\ (L + M) - L = M
    BY <1>1
  <2>2. CASE L + M <= L
    <3>1. M = 0
      BY <1>1, <2>2
    <3>2. f[L] \in Nat
      BY <1>1, <1>6
    <3> QED
      BY <1>1, <1>6, <2>1, <2>2, <3>1, <3>2
  <2>3. CASE ~(L + M <= L)
    BY <2>1, <2>3
  <2> QED
    BY <2>2, <2>3
<1> HIDE DEF h
<1>10. Totals(h, r, name)
  BY <1>2, <1>7, <1>8 DEF Totals
<1>11. Total(r, name) = h[L + M]
  BY <1>2, <1>5, <1>10, TotalsUnique
<1> QED
  BY <1>3, <1>4, <1>5, <1>9, <1>11 DEF r

LEMMA TotalNone ==
    ASSUME NEW s, NEW name, IsList(s), \A x \in ToSet(s) : x.name # name
    PROVE  Countable(s, name) /\ Total(s, name) = 0
<1>1. Countable(s, name)
  BY DEF Countable, Adds
<1> DEFINE f == [n \in 0..Len(s) |-> 0]
<1>2. Len(s) \in Nat /\ \A n \in 1..Len(s) : Adds(s[n], name) = 0
  BY ListDomain DEF Adds
<1>3. Totals(f, s, name) /\ f[Len(s)] = 0
  <2>1. \A n \in 1..Len(s) : n \in 0..Len(s) /\ n - 1 \in 0..Len(s)
    BY <1>2
  <2> QED
    BY <1>2, <2>1 DEF Totals
<1> QED
  BY <1>1, <1>3, TotalsUnique

LEMMA TotalOne ==
    ASSUME NEW e, NEW name, Adds(e, name) \in Nat
    PROVE  Countable(<<e>>, name) /\ Total(<<e>>, name) = Adds(e, name)
<1>1. Countable(<<e>>, name)
  BY OneList DEF Countable
<1> DEFINE k == Adds(e, name)
           f == [n \in 0..1 |-> IF n = 0 THEN 0 ELSE k]
<1> HIDE DEF k
<1>2. Totals(f, <<e>>, name) /\ f[Len(<<e>>)] = k
  <2>1. Len(<<e>>) = 1 /\ <<e>>[1] = e /\ k \in Nat
    BY DEF k
  <2>2. \A n \in 1..1 : n = 1
    OBVIOUS
  <2>3. f \in [0..1 -> Nat] /\ f[0] = 0 /\ f[1] = k
    BY <2>1
  <2>4. f[1] = f[1 - 1] + Adds(e, name)
    BY <2>1, <2>3 DEF k
  <2> HIDE DEF f
  <2> QED
    BY <2>1, <2>2, <2>3, <2>4 DEF Totals
<1> QED
  BY <1>1, <1>2, TotalsUnique DEF k

-----------------------------------------------------------------------------
(* Alerts.                                                                 *)

Alert == "powerstore_alert_active"

\* The samples count n alerts, under these severities.
Tally(samples, n, severities) ==
    /\ Countable(samples, Alert)
    /\ Total(samples, Alert) = n /\ n \in Nat
    /\ \A s \in severities : \E x \in ToSet(samples) :
          x.name = Alert /\ x.labels.severity = s

LEMMA TallyConcat ==
    ASSUME NEW s, NEW t, NEW m, NEW n, NEW S, NEW T, Tally(s, m, S), Tally(t, n, T)
    PROVE  Tally(s \o t, m + n, S \cup T)
<1>1. ToSet(s \o t) = ToSet(s) \cup ToSet(t)
  BY ListConcat DEF Tally, Countable
<1>2. /\ Countable(s \o t, Alert)
      /\ Total(s \o t, Alert) = Total(s, Alert) + Total(t, Alert)
  BY TotalConcat DEF Tally
<1>3. m \in Nat /\ n \in Nat /\ Total(s \o t, Alert) = m + n
  BY <1>2 DEF Tally
<1>4. \A e \in S \cup T : \E x \in ToSet(s \o t) :
         x.name = Alert /\ x.labels.severity = e
  BY <1>1 DEF Tally
<1> QED
  BY <1>2, <1>3, <1>4 DEF Tally

LEMMA TallyNone ==
    ASSUME NEW a, NEW once, NEW names, Alert \notin names, NEW samples,
           Sound(a, once, names, samples)
    PROVE  Tally(samples, 0, {})
<1>1. IsList(samples) /\ \A x \in ToSet(samples) : x.name # Alert
  BY DEF Sound
<1>2. Countable(samples, Alert) /\ Total(samples, Alert) = 0
  BY <1>1, TotalNone
<1> QED
  BY <1>2 DEF Tally

LEMMA TallyBefore ==
    ASSUME NEW a, NEW once, NEW names, Alert \notin names, NEW s, NEW t, NEW n,
           NEW S, Sound(a, once, names, s), Tally(t, n, S)
    PROVE  Tally(s \o t, n, S)
<1>1. Tally(s, 0, {}) /\ n \in Nat
  BY TallyNone DEF Tally
<1>2. Tally(s \o t, 0 + n, {} \cup S)
  BY <1>1, TallyConcat
<1>3. 0 + n = n /\ {} \cup S = S
  BY <1>1
<1> QED
  BY <1>2, <1>3

LEMMA TallyAfter ==
    ASSUME NEW a, NEW once, NEW names, Alert \notin names, NEW s, NEW t, NEW n,
           NEW S, Tally(s, n, S), Sound(a, once, names, t)
    PROVE  Tally(s \o t, n, S)
<1>1. Tally(t, 0, {}) /\ n \in Nat
  BY TallyNone DEF Tally
<1>2. Tally(s \o t, n + 0, S \cup {})
  BY <1>1, TallyConcat
<1>3. n + 0 = n /\ S \cup {} = S
  BY <1>1
<1> QED
  BY <1>2, <1>3

Active(t) == {i \in DOMAIN t.alerts : IsActive(t.alerts[i])}

\* The counts of the severities are those of a partition of the active alerts.
LEMMA AlertsTally ==
    ASSUME NEW a, NEW t, IsList(t.alerts)
    PROVE  Tally(deriveAlerts(a, t), Cardinality(Active(t)),
                 ToSet(Severities(t)))
<1> DEFINE sev == Severities(t)
           N == Len(sev)
           Of(s) == {j \in DOMAIN t.alerts : IsActive(t.alerts[j])
                                             /\ t.alerts[j].severity = s}
           e(i) == [name |-> Alert, labels |-> alertLabels(a, t, sev[i]),
                    value |-> Cardinality(Of(sev[i]))]
           parts == [i \in DOMAIN sev |-> <<e(i)>>]
           First(n) == {sev[i] : i \in 1..n}
           Under(n) == {j \in Active(t) : t.alerts[j].severity \in First(n)}
<1>1. deriveAlerts(a, t) = FlattenSeq(parts)
  BY DEF deriveAlerts, Each, Sample, Alert
<1>2. /\ IsList(sev) /\ IsInjective(sev)
      /\ ToSet(sev) = ToSet(knownAlertSeverities) \cup
           {t.alerts[i].severity : i \in Active(t)}
  BY SeveritiesList DEF Active
<1>3. ToSet(sev) # {}
  <2>1. "Major" = knownAlertSeverities[2] /\ 2 \in DOMAIN knownAlertSeverities
    BY DEF knownAlertSeverities
  <2>2. "Major" \in ToSet(knownAlertSeverities)
    BY <2>1 DEF ToSet
  <2> QED
    BY <1>2, <2>2
<1> HIDE DEF sev
<1>4. /\ N \in Nat /\ DOMAIN sev = 1..N /\ N # 0
      /\ ToSet(sev) = First(N)
  <2>1. N \in Nat /\ DOMAIN sev = 1..N
    BY <1>2, ListDomain
  <2>2. ToSet(sev) = First(N)
    BY <2>1 DEF ToSet
  <2> HIDE DEF N
  <2> QED
    BY <1>3, <2>1, <2>2
<1>5. /\ IsFiniteSet(Active(t))
      /\ \A S : S \subseteq Active(t) => IsFiniteSet(S) /\ Cardinality(S) \in Nat
  <2>1. IsFiniteSet(DOMAIN t.alerts) /\ Active(t) \subseteq DOMAIN t.alerts
    BY ListDomain DEF Active
  <2>2. IsFiniteSet(Active(t))
    BY <2>1, FS_Subset
  <2>3. ASSUME NEW S, S \subseteq Active(t)
        PROVE  IsFiniteSet(S) /\ Cardinality(S) \in Nat
    <3>1. IsFiniteSet(S)
      BY <2>2, <2>3, FS_Subset
    <3> QED
      BY <3>1, FS_CardinalityType
  <2> QED
    BY <2>2, <2>3
<1>6. ASSUME NEW i \in 1..N
      PROVE  Tally(<<e(i)>>, Cardinality(Of(sev[i])), {sev[i]})
  <2>1. Of(sev[i]) \subseteq Active(t)
    BY DEF Active
  <2>2. Cardinality(Of(sev[i])) \in Nat
    BY <1>5, <2>1
  <2>3. e(i).name = Alert /\ e(i).value = Cardinality(Of(sev[i]))
        /\ e(i).labels.severity = sev[i]
    BY AlertLabels
  <2> HIDE DEF e, Of
  <2>4. Adds(e(i), Alert) = Cardinality(Of(sev[i]))
    BY <2>3 DEF Adds
  <2>5. /\ Countable(<<e(i)>>, Alert)
        /\ Total(<<e(i)>>, Alert) = Cardinality(Of(sev[i]))
    BY <2>2, <2>4, TotalOne
  <2>6. e(i) \in ToSet(<<e(i)>>)
    BY OneList
  <2> QED
    BY <2>2, <2>3, <2>5, <2>6 DEF Tally
<1> DEFINE E == {e(i) : i \in 1..N}
<1>7. parts \in Seq(Seq(E)) /\ Len(parts) = N /\ parts # <<>>
      /\ \A i \in 1..N : parts[i] = <<e(i)>>
  <2>1. /\ DOMAIN parts = 1..N
        /\ \A i \in 1..N : parts[i] = <<e(i)>>
    BY <1>4
  <2>2. parts = [i \in 1..N |-> parts[i]]
    BY <1>4
  <2> HIDE DEF parts, e
  <2>3. \A i \in 1..N : e(i) \in E
    OBVIOUS
  <2> HIDE DEF E, N
  <2>4. \A i \in 1..N : parts[i] \in Seq(E)
    <3> TAKE i \in 1..N
    <3>1. \A x \in E : <<x>> \in Seq(E)
      OBVIOUS
    <3> QED
      BY <2>1, <2>3, <3>1
  <2>5. parts \in [1..N -> Seq(E)]
    BY <2>2, <2>4
  <2>6. parts \in Seq(Seq(E)) /\ Len(parts) = N
    BY <1>4, <2>5, SeqDef
  <2> QED
    BY <1>4, <2>1, <2>6
<1> HIDE DEF parts, e, E, N
<1>8. PICK f \in [1..N -> Seq(E)] :
         /\ f[1] = parts[1]
         /\ \A n \in 2..N : f[n] = f[n - 1] \o parts[n]
         /\ FlattenSeq(parts) = f[N]
  BY <1>7, FlattenPrefixes
<1>9. ASSUME NEW n \in 0..(N - 1)
      PROVE  /\ First(n + 1) = First(n) \cup {sev[n + 1]}
             /\ Cardinality(Under(n + 1)) =
                  Cardinality(Under(n)) + Cardinality(Of(sev[n + 1]))
  <2>1. 1..(n + 1) = (1..n) \cup {n + 1} /\ n + 1 \in 1..N
    BY <1>4
  <2>2. First(n + 1) = First(n) \cup {sev[n + 1]}
    BY <2>1
  <2>3. sev[n + 1] \notin First(n)
    <3>1. \A i \in 1..n : i \in 1..N /\ i # n + 1
      BY <1>4
    <3> QED
      BY <1>2, <1>4, <2>1, <3>1 DEF IsInjective
  <2>4. Under(n + 1) = Under(n) \cup Of(sev[n + 1])
    BY <2>2 DEF Active
  <2>5. Under(n) \cap Of(sev[n + 1]) = {}
    BY <2>3
  <2>6. /\ IsFiniteSet(Under(n)) /\ IsFiniteSet(Of(sev[n + 1]))
        /\ Cardinality(Under(n)) \in Nat /\ Cardinality(Of(sev[n + 1])) \in Nat
    <3>1. Under(n) \subseteq Active(t) /\ Of(sev[n + 1]) \subseteq Active(t)
      BY DEF Active
    <3> HIDE DEF Under, Of
    <3> QED
      BY <1>5, <3>1
  <2> HIDE DEF Under, Of, First
  <2>7. Cardinality(Under(n) \cup Of(sev[n + 1])) =
          Cardinality(Under(n)) + Cardinality(Of(sev[n + 1]))
            - Cardinality(Under(n) \cap Of(sev[n + 1]))
    BY <2>6, FS_Union
  <2>8. Cardinality({}) = 0
    BY FS_EmptySet
  <2>9. Cardinality(Under(n + 1)) =
          Cardinality(Under(n)) + Cardinality(Of(sev[n + 1])) - 0
    BY <2>4, <2>5, <2>7, <2>8
  <2> QED
    BY <2>2, <2>6, <2>9
<1>10. Under(0) = {} /\ First(0) = {} /\ Cardinality({}) = 0
  <2>1. 1..0 = {}
    OBVIOUS
  <2> QED
    BY <2>1, FS_EmptySet
<1>11. Under(N) = Active(t)
  BY <1>2, <1>4 DEF Under, First
<1>12. \A n \in 0..N : Cardinality(Under(n)) \in Nat
  <2>1. \A n \in 0..N : Under(n) \subseteq Active(t)
    OBVIOUS
  <2> HIDE DEF Under
  <2> QED
    BY <1>5, <2>1
<1> HIDE DEF Under, First, Of
<1> DEFINE T == {n \in 0..N : n > 0 => Tally(f[n], Cardinality(Under(n)), First(n))}
<1>13. 0 \in T
  BY <1>4
<1>14. ASSUME NEW n \in 0..(N - 1), n \in T PROVE n + 1 \in T
  <2>1. n + 1 \in 1..N /\ n + 1 \in 0..N /\ n \in 0..N
    BY <1>4
  <2>2. Tally(<<e(n + 1)>>, Cardinality(Of(sev[n + 1])), {sev[n + 1]})
    BY <1>6, <2>1
  <2>3. CASE n = 0
    <3>1. f[n + 1] = <<e(n + 1)>>
      BY <1>4, <1>7, <1>8, <2>1, <2>3
    <3>2. Cardinality(Of(sev[n + 1])) \in Nat
      BY <2>2 DEF Tally
    <3>3. /\ Cardinality(Under(n + 1)) = Cardinality(Of(sev[n + 1]))
          /\ First(n + 1) = {sev[n + 1]}
      <4>1. 0 \in 0..(N - 1) /\ 0 + 1 = n + 1
        BY <1>4, <2>3
      <4>2. /\ First(n + 1) = First(0) \cup {sev[n + 1]}
            /\ Cardinality(Under(n + 1)) =
                 Cardinality(Under(0)) + Cardinality(Of(sev[n + 1]))
        BY <1>9, <2>3
      <4>3. Cardinality(Under(n + 1)) = 0 + Cardinality(Of(sev[n + 1]))
        BY <1>10, <4>2
      <4> QED
        BY <1>10, <3>2, <4>2, <4>3
    <3>4. Tally(f[n + 1], Cardinality(Under(n + 1)), First(n + 1))
      BY <2>2, <3>1, <3>3
    <3> QED
      BY <2>1, <3>4
  <2>4. CASE n > 0
    <3>1. Tally(f[n], Cardinality(Under(n)), First(n))
      BY <1>14, <2>4
    <3>2. f[n + 1] = f[n] \o <<e(n + 1)>>
      <4>1. n + 1 \in 2..N /\ (n + 1) - 1 = n
        BY <1>4, <2>4
      <4>2. f[n + 1] = f[n] \o parts[n + 1]
        BY <1>8, <4>1
      <4> QED
        BY <1>7, <2>1, <4>2
    <3>3. Tally(f[n + 1], Cardinality(Under(n)) + Cardinality(Of(sev[n + 1])),
                First(n) \cup {sev[n + 1]})
      BY <2>2, <3>1, <3>2, TallyConcat
    <3>4. Tally(f[n + 1], Cardinality(Under(n + 1)), First(n + 1))
      BY <1>9, <3>3
    <3> QED
      BY <2>1, <3>4
  <2> QED
    BY <1>4, <2>3, <2>4
<1> HIDE DEF T
<1>15. \A n \in 0..N : n \in T
  BY <1>4, <1>13, <1>14, InductionTo
<1>16. Tally(f[N], Cardinality(Under(N)), First(N))
  <2>1. N \in 0..N /\ N > 0
    BY <1>4
  <2> QED
    BY <1>15, <2>1 DEF T
<1> QED
  BY <1>1, <1>4, <1>8, <1>11, <1>16 DEF sev

LEMMA CommonTally ==
    ASSUME NEW a, NEW t, NEW w, NEW fails, Answers(w), Lists(t, w)
    PROVE  Tally(commonMetrics(a, t, w, fails), Cardinality(Active(t)),
                 ToSet(Severities(t)))
<1> DEFINE n == Cardinality(Active(t))
           S == ToSet(Severities(t))
           alerts == deriveAlerts(a, t)
           n1 == {"powerstore_file_system_size_total_bytes"}
           n2 == {"powerstore_port_link_up"}
           n5 == {"powerstore_file_system_read_iops"}
           n6 == {"powerstore_volume_group_read_iops"}
           n7 == {"powerstore_cluster_physical_total_bytes"}
           n8 == {"powerstore_drive_state", "powerstore_drive_wear_level_ratio"}
           n9 == {"powerstore_metro_witness_state",
                  "powerstore_metro_witness_connection_state"}
<1>1. PICK capacity, ports, replication, fsPerf, groupPerf, cluster, drive,
           witness :
        /\ commonMetrics(a, t, w, fails) =
             capacity \o ports \o alerts \o replication \o fsPerf \o groupPerf \o
             cluster \o drive \o witness
        /\ Sound(a, FALSE, n1, capacity) /\ Sound(a, FALSE, n2, ports)
        /\ Sound(a, FALSE, ReplicationNames, replication)
        /\ Sound(a, FALSE, n5, fsPerf) /\ Sound(a, FALSE, n6, groupPerf)
        /\ Sound(a, FALSE, n7, cluster) /\ Sound(a, FALSE, n8, drive)
        /\ Sound(a, FALSE, n9, witness)
  <2>1. CommonParts(a, FALSE, t, commonMetrics(a, t, w, fails))
    BY CommonPartsSound
  <2> QED
    BY <2>1, ZenonT(60) DEF CommonParts
<1>2. /\ Alert \notin n1 /\ Alert \notin n2 /\ Alert \notin ReplicationNames
      /\ Alert \notin n5 /\ Alert \notin n6 /\ Alert \notin n7
      /\ Alert \notin n8 /\ Alert \notin n9
  BY DEF Alert, ReplicationNames
<1>3. Tally(alerts, n, S)
  <2>1. IsList(t.alerts)
    BY DEF Lists
  <2> QED
    BY <2>1, AlertsTally
<1> HIDE DEF n, S, alerts, n1, n2, n5, n6, n7, n8, n9
<1>4. Tally(capacity \o ports \o alerts, n, S)
  <2>1. Tally(capacity, 0, {}) /\ Tally(ports, 0, {}) /\ n \in Nat
    BY <1>1, <1>2, <1>3, TallyNone DEF Tally
  <2>2. Tally(capacity \o ports, 0 + 0, {} \cup {})
    BY <2>1, TallyConcat
  <2>3. Tally((capacity \o ports) \o alerts, (0 + 0) + n, ({} \cup {}) \cup S)
    BY <1>3, <2>2, TallyConcat
  <2>4. (0 + 0) + n = n /\ ({} \cup {}) \cup S = S
    BY <2>1
  <2> QED
    BY <2>3, <2>4
<1>5. Tally(capacity \o ports \o alerts \o replication, n, S)
  BY <1>1, <1>2, <1>4, TallyAfter
<1>6. Tally(capacity \o ports \o alerts \o replication \o fsPerf, n, S)
  BY <1>1, <1>2, <1>5, TallyAfter
<1>7. Tally(capacity \o ports \o alerts \o replication \o fsPerf \o groupPerf,
            n, S)
  BY <1>1, <1>2, <1>6, TallyAfter
<1>8. Tally(capacity \o ports \o alerts \o replication \o fsPerf \o groupPerf \o
            cluster, n, S)
  BY <1>1, <1>2, <1>7, TallyAfter
<1>9. Tally(capacity \o ports \o alerts \o replication \o fsPerf \o groupPerf \o
            cluster \o drive, n, S)
  BY <1>1, <1>2, <1>8, TallyAfter
<1>10. Tally(capacity \o ports \o alerts \o replication \o fsPerf \o groupPerf \o
             cluster \o drive \o witness, n, S)
  BY <1>1, <1>2, <1>9, TallyAfter
<1> QED
  BY <1>1, <1>10 DEF n, S

\* On both paths.
LEMMA PathTally ==
    ASSUME NEW a, NEW in, Answers(in.w)
    PROVE  LET t == GetTopology(in.w, in.fails)
           IN  Tally(PathMetrics(a, in), Cardinality(Active(t)),
                     ToSet(Severities(t)))
<1> DEFINE t == GetTopology(in.w, in.fails)
           n == Cardinality(Active(t))
           S == ToSet(Severities(t))
           common == commonMetrics(a, t, in.w, in.fails)
<1>1. Lists(t, in.w)
  BY TopologyLists
<1>2. Tally(common, n, S)
  BY <1>1, CommonTally
<1>3. PathParts(a, FALSE, PathMetrics(a, in), common)
  BY <1>1, BulkParts, EntityParts DEF PathMetrics
<1>4. Alert \notin EntityNames
  BY DEF Alert, EntityNames
<1> HIDE DEF t, n, S, common
<1>5. PICK first : /\ PathMetrics(a, in) = first \o common
                   /\ Sound(a, FALSE, EntityNames, first)
  BY <1>3, Zenon DEF PathParts
<1>6. Tally(first \o common, n, S)
  BY <1>2, <1>4, <1>5, TallyBefore
<1> QED
  BY <1>5, <1>6 DEF t, n, S

\* When the alerts of an array could be listed, the counts of its severities add
\* up to its active alerts, and every known severity has a count, zero too
\* (deriveAlerts, derive_alerts.go:17).
THEOREM AllAlertsCounted == Spec => []AlertsCounted
<1>1. Collected => AlertsCounted
  <2> SUFFICES ASSUME Collected, NEW x \in ToSet(store.arrays), x.up,
                      "alerts" \notin input[x.array].fails
               PROVE
        LET alerts == input[x.array].w.alerts
            counts == {s \in ToSet(x.samples) :
                          s.name = "powerstore_alert_active"}
        IN  /\ Total(x.samples, "powerstore_alert_active")
                 = Cardinality({i \in DOMAIN alerts : IsActive(alerts[i])})
            /\ ToSet(knownAlertSeverities)
                 \subseteq {s.labels.severity : s \in counts}
    BY DEF AlertsCounted
  <2>1. PICK i \in DOMAIN store.arrays : x = store.arrays[i]
    BY DEF ToSet
  <2> DEFINE a == Array[i]
             in == input[a]
             t == GetTopology(in.w, in.fails)
  <2>2. a \in ToSet(Array) /\ in \in Inputs[a] /\ x = collectArray(a, in)
    BY <2>1 DEF Collected
  <2>3. x.array = a
    BY <2>2, ArraySound
  <2> HIDE DEF a
  <2>4. x.samples = PathMetrics(a, in)
    BY <2>2 DEF collectArray
  <2>5. t.alerts = in.w.alerts
    BY <2>3 DEF GetTopology, Answer
  <2>6. Answers(in.w) /\ IsList(t.alerts)
    BY <2>2, <2>5, InputAssumption DEF Answers
  <2> HIDE DEF in
  <2>7. Tally(x.samples, Cardinality(Active(t)), ToSet(Severities(t)))
    BY <2>4, <2>6, PathTally
  <2> HIDE DEF t
  <2>8. ToSet(knownAlertSeverities) \subseteq ToSet(Severities(t))
    BY <2>6, SeveritiesList
  <2>9. Active(t) = {k \in DOMAIN in.w.alerts : IsActive(in.w.alerts[k])}
    BY <2>5 DEF Active
  <2>10. Total(x.samples, "powerstore_alert_active") =
           Cardinality({k \in DOMAIN in.w.alerts : IsActive(in.w.alerts[k])})
    BY <2>7, <2>9 DEF Tally, Alert
  <2>11. \A s \in ToSet(knownAlertSeverities) : \E y \in ToSet(x.samples) :
            y.name = "powerstore_alert_active" /\ y.labels.severity = s
    BY <2>7, <2>8 DEF Tally, Alert
  <2> QED
    BY <2>3, <2>10, <2>11 DEF in
<1> QED
  BY <1>1, CollectedInit, CollectedNext, PTL DEF Spec

-----------------------------------------------------------------------------
(* Parity.                                                                 *)

LEMMA SeriesOfOne ==
    ASSUME NEW name, NEW labels, NEW value
    PROVE  /\ IsList(Sample(name, labels, value))
           /\ AllSeries(Sample(name, labels, value)) =
                {[name |-> name, labels |-> labels]}
<1> DEFINE s == [name |-> name, labels |-> labels, value |-> value]
<1>1. Sample(name, labels, value) = <<s>>
  BY DEF Sample
<1>2. Series(s) = [name |-> name, labels |-> labels]
  BY DEF Series
<1> HIDE DEF s
<1>3. IsList(<<s>>) /\ ToSet(<<s>>) = {s}
  BY OneList
<1>4. AllSeries(<<s>>) = {Series(s)}
  BY <1>3, SeriesSet
<1> QED
  BY <1>1, <1>2, <1>3, <1>4

LEMMA SeriesOfConcat ==
    ASSUME NEW s, NEW t, IsList(s), IsList(t)
    PROVE  IsList(s \o t) /\ AllSeries(s \o t) = AllSeries(s) \cup AllSeries(t)
BY ListConcat, SeriesSet

LEMMA SeriesOfFlatten ==
    ASSUME NEW items, IsList(items),
           NEW parts, parts = [i \in DOMAIN items |-> parts[i]],
           \A i \in DOMAIN items : IsList(parts[i])
    PROVE  /\ IsList(FlattenSeq(parts))
           /\ \A x : x \in AllSeries(FlattenSeq(parts))
                       <=> \E i \in DOMAIN items : x \in AllSeries(parts[i])
<1>1. IsList(parts) /\ DOMAIN parts = DOMAIN items
  BY ListDomain, ListFunction
<1>2. /\ IsList(FlattenSeq(parts))
      /\ ToSet(FlattenSeq(parts)) = UNION {ToSet(parts[i]) : i \in DOMAIN parts}
  BY <1>1, ListFlatten
<1>3. \A i \in DOMAIN items :
         AllSeries(parts[i]) = {Series(y) : y \in ToSet(parts[i])}
  BY SeriesSet
<1>4. AllSeries(FlattenSeq(parts)) = {Series(y) : y \in ToSet(FlattenSeq(parts))}
  BY SeriesSet
<1> QED
  BY <1>1, <1>2, <1>3, <1>4

\* One sample of a metric for each item.
LEMMA SeriesOfEach ==
    ASSUME NEW items, IsList(items),
           NEW parts, parts = [i \in DOMAIN items |-> parts[i]],
           NEW name, NEW labels, NEW value,
           \A i \in DOMAIN items : parts[i] = Sample(name, labels[i], value[i])
    PROVE  /\ IsList(FlattenSeq(parts))
           /\ AllSeries(FlattenSeq(parts)) =
                {[name |-> name, labels |-> labels[i]] : i \in DOMAIN items}
<1>1. \A i \in DOMAIN items :
         /\ IsList(parts[i])
         /\ AllSeries(parts[i]) = {[name |-> name, labels |-> labels[i]]}
  BY SeriesOfOne
<1>2. /\ IsList(FlattenSeq(parts))
      /\ \A x : x \in AllSeries(FlattenSeq(parts))
                  <=> \E i \in DOMAIN items : x \in AllSeries(parts[i])
  BY <1>1, SeriesOfFlatten
<1>3. \A x : x \in AllSeries(FlattenSeq(parts))
               <=> \E i \in DOMAIN items :
                       x = [name |-> name, labels |-> labels[i]]
  BY <1>1, <1>2
<1> QED
  BY <1>2, <1>3

PerfSeries(a, t, id) ==
    [name |-> "powerstore_appliance_read_iops",
     labels |-> applianceLabels(a, t, id)]

SpaceSeries(a, t, id) ==
    [name |-> "powerstore_appliance_physical_total_bytes",
     labels |-> applianceLabels(a, t, id)]

VolumeSeries(a, t, id, appliance) ==
    [name |-> "powerstore_volume_read_iops",
     labels |-> volumeLabels(a, t, id, appliance)]

\* Of the rows of the archive.
LEMMA RowSeries ==
    ASSUME NEW a, NEW t, NEW rows, IsList(rows), NEW x
    PROVE  /\ IsList(deriveBulkAppliancePerf(a, t, rows))
           /\ x \in AllSeries(deriveBulkAppliancePerf(a, t, rows))
                <=> \E id \in Entities(rows, "appliance_id") :
                       x = PerfSeries(a, t, id)
           /\ IsList(deriveBulkApplianceSpace(a, t, rows))
           /\ x \in AllSeries(deriveBulkApplianceSpace(a, t, rows))
                <=> \E id \in Entities(rows, "appliance_id") :
                       x = SpaceSeries(a, t, id)
           /\ IsList(deriveBulkVolumePerf(a, t, rows))
           /\ x \in AllSeries(deriveBulkVolumePerf(a, t, rows))
                <=> \E i \in DOMAIN rows :
                       x = VolumeSeries(a, t, Cell(rows[i], "volume_id"),
                                        rowAppliance(t, rows[i]))
<1>1. /\ IsList(deriveBulkAppliancePerf(a, t, rows))
      /\ AllSeries(deriveBulkAppliancePerf(a, t, rows)) =
           {PerfSeries(a, t, id) : id \in Entities(rows, "appliance_id")}
  <2> DEFINE labels == [i \in DOMAIN rows |->
                 applianceLabels(a, t, Cell(rows[i], "appliance_id"))]
             value == [i \in DOMAIN rows |->
                 csvFloat(rows[i], <<"avg_read_iops", "read_iops">>)]
             parts == [i \in DOMAIN rows |->
                 Sample("powerstore_appliance_read_iops", labels[i], value[i])]
  <2>1. deriveBulkAppliancePerf(a, t, rows) = FlattenSeq(parts)
    BY DEF deriveBulkAppliancePerf, Each
  <2>2. /\ parts = [i \in DOMAIN rows |-> parts[i]]
        /\ \A i \in DOMAIN rows : parts[i] =
              Sample("powerstore_appliance_read_iops", labels[i], value[i])
    OBVIOUS
  <2>3. \A i \in DOMAIN rows :
           labels[i] = applianceLabels(a, t, Cell(rows[i], "appliance_id"))
    OBVIOUS
  <2> HIDE DEF labels, value, parts
  <2>4. /\ IsList(FlattenSeq(parts))
        /\ AllSeries(FlattenSeq(parts)) =
             {[name |-> "powerstore_appliance_read_iops",
               labels |-> labels[i]] : i \in DOMAIN rows}
    BY <2>2, SeriesOfEach
  <2>5. {[name |-> "powerstore_appliance_read_iops",
          labels |-> labels[i]] : i \in DOMAIN rows}
          = {PerfSeries(a, t, id) : id \in Entities(rows, "appliance_id")}
    BY <2>3 DEF PerfSeries, Entities
  <2> QED
    BY <2>1, <2>4, <2>5
<1>2. /\ IsList(deriveBulkApplianceSpace(a, t, rows))
      /\ AllSeries(deriveBulkApplianceSpace(a, t, rows)) =
           {SpaceSeries(a, t, id) : id \in Entities(rows, "appliance_id")}
  <2> DEFINE labels == [i \in DOMAIN rows |->
                 applianceLabels(a, t, Cell(rows[i], "appliance_id"))]
             value == [i \in DOMAIN rows |->
                 csvFloat(rows[i], <<"physical_total", "last_physical_total">>)]
             parts == [i \in DOMAIN rows |->
                 Sample("powerstore_appliance_physical_total_bytes",
                        labels[i], value[i])]
  <2>1. deriveBulkApplianceSpace(a, t, rows) = FlattenSeq(parts)
    BY DEF deriveBulkApplianceSpace, Each
  <2>2. /\ parts = [i \in DOMAIN rows |-> parts[i]]
        /\ \A i \in DOMAIN rows : parts[i] =
              Sample("powerstore_appliance_physical_total_bytes",
                     labels[i], value[i])
    OBVIOUS
  <2>3. \A i \in DOMAIN rows :
           labels[i] = applianceLabels(a, t, Cell(rows[i], "appliance_id"))
    OBVIOUS
  <2> HIDE DEF labels, value, parts
  <2>4. /\ IsList(FlattenSeq(parts))
        /\ AllSeries(FlattenSeq(parts)) =
             {[name |-> "powerstore_appliance_physical_total_bytes",
               labels |-> labels[i]] : i \in DOMAIN rows}
    BY <2>2, SeriesOfEach
  <2>5. {[name |-> "powerstore_appliance_physical_total_bytes",
          labels |-> labels[i]] : i \in DOMAIN rows}
          = {SpaceSeries(a, t, id) : id \in Entities(rows, "appliance_id")}
    BY <2>3 DEF SpaceSeries, Entities
  <2> QED
    BY <2>1, <2>4, <2>5
<1>3. /\ IsList(deriveBulkVolumePerf(a, t, rows))
      /\ AllSeries(deriveBulkVolumePerf(a, t, rows)) =
           {VolumeSeries(a, t, Cell(rows[i], "volume_id"),
                         rowAppliance(t, rows[i])) : i \in DOMAIN rows}
  <2> DEFINE labels == [i \in DOMAIN rows |->
                 volumeLabels(a, t, Cell(rows[i], "volume_id"),
                              rowAppliance(t, rows[i]))]
             value == [i \in DOMAIN rows |->
                 csvFloat(rows[i], <<"avg_read_iops", "read_iops">>)]
             parts == [i \in DOMAIN rows |->
                 Sample("powerstore_volume_read_iops", labels[i], value[i])]
  <2>1. deriveBulkVolumePerf(a, t, rows) = FlattenSeq(parts)
    BY DEF deriveBulkVolumePerf, Each
  <2>2. /\ parts = [i \in DOMAIN rows |-> parts[i]]
        /\ \A i \in DOMAIN rows : parts[i] =
              Sample("powerstore_volume_read_iops", labels[i], value[i])
    OBVIOUS
  <2>3. \A i \in DOMAIN rows :
           labels[i] = volumeLabels(a, t, Cell(rows[i], "volume_id"),
                                    rowAppliance(t, rows[i]))
    OBVIOUS
  <2> HIDE DEF labels, value, parts
  <2>4. /\ IsList(FlattenSeq(parts))
        /\ AllSeries(FlattenSeq(parts)) =
             {[name |-> "powerstore_volume_read_iops",
               labels |-> labels[i]] : i \in DOMAIN rows}
    BY <2>2, SeriesOfEach
  <2>5. {[name |-> "powerstore_volume_read_iops",
          labels |-> labels[i]] : i \in DOMAIN rows}
          = {VolumeSeries(a, t, Cell(rows[i], "volume_id"),
                          rowAppliance(t, rows[i])) : i \in DOMAIN rows}
    BY <2>3 DEF VolumeSeries
  <2> QED
    BY <2>1, <2>4, <2>5
<1> QED
  BY <1>1, <1>2, <1>3

\* Of the answers for one entity.
LEMMA AnswerSeries ==
    ASSUME NEW a, NEW t, NEW resp, IsList(resp)
    PROVE  /\ IsList(deriveAppliancePerf(a, t, resp))
           /\ AllSeries(deriveAppliancePerf(a, t, resp)) =
                {PerfSeries(a, t, id) : id \in Ids(resp)}
           /\ IsList(deriveApplianceSpace(a, t, resp))
           /\ AllSeries(deriveApplianceSpace(a, t, resp)) =
                {SpaceSeries(a, t, id) : id \in Ids(resp)}
           /\ IsList(deriveVolumePerf(a, t, resp))
           /\ AllSeries(deriveVolumePerf(a, t, resp)) =
                {VolumeSeries(a, t, id, VolumeApplianceID(t, id)) :
                    id \in Ids(resp)}
<1> DEFINE ids == SetToSeq(Ids(resp))
           value == [i \in DOMAIN ids |-> latestByID(resp)[ids[i]].value]
           counted == [i \in DOMAIN ids |-> deref(latestByID(resp)[ids[i]].value)]
           alabels == [i \in DOMAIN ids |-> applianceLabels(a, t, ids[i])]
           vlabels == [i \in DOMAIN ids |->
                          volumeLabels(a, t, ids[i], VolumeApplianceID(t, ids[i]))]
           perf == [i \in DOMAIN ids |->
               Sample("powerstore_appliance_read_iops", alabels[i], value[i])]
           space == [i \in DOMAIN ids |->
               Sample("powerstore_appliance_physical_total_bytes",
                      alabels[i], counted[i])]
           volume == [i \in DOMAIN ids |->
               Sample("powerstore_volume_read_iops", vlabels[i], value[i])]
<1>1. IsList(ids) /\ ToSet(ids) = Ids(resp)
  BY IdsFinite, SetList
<1>2. /\ deriveAppliancePerf(a, t, resp) = FlattenSeq(perf)
      /\ deriveApplianceSpace(a, t, resp) = FlattenSeq(space)
      /\ deriveVolumePerf(a, t, resp) = FlattenSeq(volume)
  BY DEF deriveAppliancePerf, deriveApplianceSpace, deriveVolumePerf, Each
<1> HIDE DEF ids
<1>3a. /\ perf = [i \in DOMAIN ids |-> perf[i]]
       /\ \A i \in DOMAIN ids : perf[i] =
             Sample("powerstore_appliance_read_iops", alabels[i], value[i])
  OBVIOUS
<1>3b. /\ space = [i \in DOMAIN ids |-> space[i]]
       /\ \A i \in DOMAIN ids : space[i] =
             Sample("powerstore_appliance_physical_total_bytes",
                    alabels[i], counted[i])
  OBVIOUS
<1>3c. /\ volume = [i \in DOMAIN ids |-> volume[i]]
       /\ \A i \in DOMAIN ids : volume[i] =
             Sample("powerstore_volume_read_iops", vlabels[i], value[i])
  OBVIOUS
<1>4. \A i \in DOMAIN ids :
         /\ alabels[i] = applianceLabels(a, t, ids[i])
         /\ vlabels[i] =
              volumeLabels(a, t, ids[i], VolumeApplianceID(t, ids[i]))
  OBVIOUS
<1> HIDE DEF value, counted, alabels, vlabels, perf, space, volume
<1>5. /\ IsList(FlattenSeq(perf))
      /\ AllSeries(FlattenSeq(perf)) =
           {[name |-> "powerstore_appliance_read_iops",
             labels |-> alabels[i]] : i \in DOMAIN ids}
  BY <1>1, <1>3a, SeriesOfEach
<1>6. /\ IsList(FlattenSeq(space))
      /\ AllSeries(FlattenSeq(space)) =
           {[name |-> "powerstore_appliance_physical_total_bytes",
             labels |-> alabels[i]] : i \in DOMAIN ids}
  BY <1>1, <1>3b, SeriesOfEach
<1>7. /\ IsList(FlattenSeq(volume))
      /\ AllSeries(FlattenSeq(volume)) =
           {[name |-> "powerstore_volume_read_iops",
             labels |-> vlabels[i]] : i \in DOMAIN ids}
  BY <1>1, <1>3c, SeriesOfEach
<1>8. Ids(resp) = {ids[i] : i \in DOMAIN ids}
  BY <1>1 DEF ToSet
<1>9. AllSeries(FlattenSeq(perf)) = {PerfSeries(a, t, id) : id \in Ids(resp)}
  BY <1>4, <1>5, <1>8 DEF PerfSeries
<1>10. AllSeries(FlattenSeq(space)) = {SpaceSeries(a, t, id) : id \in Ids(resp)}
  BY <1>4, <1>6, <1>8 DEF SpaceSeries
<1>11. AllSeries(FlattenSeq(volume)) =
         {VolumeSeries(a, t, id, VolumeApplianceID(t, id)) : id \in Ids(resp)}
  BY <1>4, <1>7, <1>8 DEF VolumeSeries
<1> QED
  BY <1>2, <1>5, <1>6, <1>7, <1>9, <1>10, <1>11

LEMMA AnsweredIds ==
    ASSUME NEW call, NEW fails, NEW id, NEW list, IsList(list),
           Ids(list) \subseteq {id}
    PROVE  /\ IsList(Answer(call, fails, list))
           /\ \A k : k \in Ids(Answer(call, fails, list))
                      <=> k = id /\ call \notin fails /\ list # <<>>
<1>1. Ids(<<>>) = {} /\ IsList(<<>>)
  BY NoList DEF Ids
<1>2. list # <<>> => Ids(list) = {id}
  <2> SUFFICES ASSUME list # <<>> PROVE Ids(list) # {}
    OBVIOUS
  <2>1. 1 \in DOMAIN list
    BY DEF IsList
  <2>2. list[1].id \in Ids(list)
    BY <2>1 DEF Ids
  <2> QED
    BY <2>2
<1>3. CASE call \in fails
  BY <1>1, <1>3 DEF Answer
<1>4. CASE call \notin fails
  BY <1>1, <1>2, <1>4 DEF Answer
<1> QED
  BY <1>3, <1>4

\* The series of the answer to a call about one entity.
OfEntity(a, t, call, fails, id, list, x) ==
    LET resp == Answer(call, fails, list)
        answered == call \notin fails /\ list # <<>>
    IN  /\ IsList(deriveAppliancePerf(a, t, resp))
        /\ x \in AllSeries(deriveAppliancePerf(a, t, resp))
             <=> answered /\ x = PerfSeries(a, t, id)
        /\ IsList(deriveApplianceSpace(a, t, resp))
        /\ x \in AllSeries(deriveApplianceSpace(a, t, resp))
             <=> answered /\ x = SpaceSeries(a, t, id)
        /\ IsList(deriveVolumePerf(a, t, resp))
        /\ x \in AllSeries(deriveVolumePerf(a, t, resp))
             <=> answered /\ x = VolumeSeries(a, t, id, VolumeApplianceID(t, id))

LEMMA EntityAnswer ==
    ASSUME NEW a, NEW t, NEW call, NEW fails, NEW id, NEW list, IsList(list),
           Ids(list) \subseteq {id}, NEW x
    PROVE  OfEntity(a, t, call, fails, id, list, x)
<1> DEFINE resp == Answer(call, fails, list)
<1>1. /\ IsList(resp)
      /\ \A k : k \in Ids(resp)
                 <=> k = id /\ call \notin fails /\ list # <<>>
  BY AnsweredIds
<1> HIDE DEF resp
<1>2. /\ IsList(deriveAppliancePerf(a, t, resp))
      /\ AllSeries(deriveAppliancePerf(a, t, resp)) =
           {PerfSeries(a, t, k) : k \in Ids(resp)}
      /\ IsList(deriveApplianceSpace(a, t, resp))
      /\ AllSeries(deriveApplianceSpace(a, t, resp)) =
           {SpaceSeries(a, t, k) : k \in Ids(resp)}
      /\ IsList(deriveVolumePerf(a, t, resp))
      /\ AllSeries(deriveVolumePerf(a, t, resp)) =
           {VolumeSeries(a, t, k, VolumeApplianceID(t, k)) : k \in Ids(resp)}
  BY <1>1, AnswerSeries
<1> QED
  BY <1>1, <1>2 DEF OfEntity, resp

\* The series of the appliances and volumes on the bulk path.
InRows(a, t, archive, x) ==
    \/ \E id \in Entities(archive.appliancePerf, "appliance_id") :
          x = PerfSeries(a, t, id)
    \/ \E id \in Entities(archive.applianceSpace, "appliance_id") :
          x = SpaceSeries(a, t, id)
    \/ \E i \in DOMAIN archive.volumePerf :
          LET row == archive.volumePerf[i]
          IN  x = VolumeSeries(a, t, Cell(row, "volume_id"),
                               rowAppliance(t, row))

\* On the other path.
InAnswers(a, t, w, fails, x) ==
    \/ \E id \in Ids(t.appliances) :
          /\ "appliancePerf" \notin fails /\ w.appliancePerf[id] # <<>>
          /\ x = PerfSeries(a, t, id)
    \/ \E id \in Ids(t.appliances) :
          /\ "applianceSpace" \notin fails /\ w.applianceSpace[id] # <<>>
          /\ x = SpaceSeries(a, t, id)
    \/ \E id \in Ids(t.volumes) :
          /\ "volumePerf" \notin fails /\ w.volumePerf[id] # <<>>
          /\ x = VolumeSeries(a, t, id, VolumeApplianceID(t, id))

LEMMA BulkSeries ==
    ASSUME NEW a, NEW t, NEW w, NEW fails, Answers(w), Lists(t, w), NEW x
    PROVE  x \in AllSeries(BulkMetrics(a, t, w, fails))
           <=> \/ InRows(a, t, w.archive, x)
               \/ x \in AllSeries(commonMetrics(a, t, w, fails))
<1> DEFINE perf == deriveBulkAppliancePerf(a, t, w.archive.appliancePerf)
           space == deriveBulkApplianceSpace(a, t, w.archive.applianceSpace)
           volume == deriveBulkVolumePerf(a, t, w.archive.volumePerf)
           common == commonMetrics(a, t, w, fails)
<1>1. BulkMetrics(a, t, w, fails) = perf \o space \o volume \o common
  BY DEF BulkMetrics
<1>2. /\ IsList(w.archive.appliancePerf) /\ IsList(w.archive.applianceSpace)
      /\ IsList(w.archive.volumePerf)
  BY DEF Answers
<1>3. IsList(common)
  <2>1. Sound(a, FALSE, CommonNames, common)
    BY CommonSound
  <2> QED
    BY <2>1 DEF Sound
<1>4. /\ IsList(perf) /\ IsList(space) /\ IsList(volume)
      /\ InRows(a, t, w.archive, x)
           <=> \/ x \in AllSeries(perf) \/ x \in AllSeries(space)
               \/ x \in AllSeries(volume)
  <2>1. IsList(perf) /\ IsList(space) /\ IsList(volume)
    BY <1>2, RowSeries
  <2>2. x \in AllSeries(perf)
          <=> \E id \in Entities(w.archive.appliancePerf, "appliance_id") :
                 x = PerfSeries(a, t, id)
    BY <1>2, RowSeries
  <2>3. x \in AllSeries(space)
          <=> \E id \in Entities(w.archive.applianceSpace, "appliance_id") :
                 x = SpaceSeries(a, t, id)
    BY <1>2, RowSeries
  <2>4. x \in AllSeries(volume)
          <=> \E i \in DOMAIN w.archive.volumePerf :
                 x = VolumeSeries(a, t, Cell(w.archive.volumePerf[i], "volume_id"),
                                  rowAppliance(t, w.archive.volumePerf[i]))
    BY <1>2, RowSeries
  <2> HIDE DEF perf, space, volume
  <2> QED
    BY <2>1, <2>2, <2>3, <2>4, Zenon DEF InRows
<1> HIDE DEF perf, space, volume, common
<1>5. /\ IsList(perf \o space)
      /\ AllSeries(perf \o space) = AllSeries(perf) \cup AllSeries(space)
  BY <1>4, SeriesOfConcat
<1>6. /\ IsList(perf \o space \o volume)
      /\ AllSeries(perf \o space \o volume) =
           AllSeries(perf) \cup AllSeries(space) \cup AllSeries(volume)
  BY <1>4, <1>5, SeriesOfConcat
<1>7. AllSeries(perf \o space \o volume \o common) =
        AllSeries(perf) \cup AllSeries(space) \cup AllSeries(volume)
          \cup AllSeries(common)
  BY <1>3, <1>6, SeriesOfConcat
<1> QED
  BY <1>1, <1>4, <1>7 DEF common

LEMMA EntitySeries ==
    ASSUME NEW a, NEW t, NEW w, NEW fails, Answers(w), Lists(t, w), NEW x
    PROVE  x \in AllSeries(PerEntityMetrics(a, t, w, fails))
           <=> \/ InAnswers(a, t, w, fails, x)
               \/ x \in AllSeries(commonMetrics(a, t, w, fails))
<1> DEFINE perf(id) == deriveAppliancePerf(a, t,
                           Answer("appliancePerf", fails, w.appliancePerf[id]))
           space(id) == deriveApplianceSpace(a, t,
                            Answer("applianceSpace", fails, w.applianceSpace[id]))
           vol(id) == deriveVolumePerf(a, t,
                          Answer("volumePerf", fails, w.volumePerf[id]))
           apps == [i \in DOMAIN t.appliances |->
                       perf(t.appliances[i].id) \o space(t.appliances[i].id)]
           vols == [i \in DOMAIN t.volumes |-> vol(t.volumes[i].id)]
           common == commonMetrics(a, t, w, fails)
<1>1. PerEntityMetrics(a, t, w, fails) =
        FlattenSeq(apps) \o FlattenSeq(vols) \o common
  BY DEF PerEntityMetrics, Each
<1>2. IsList(common)
  <2>1. Sound(a, FALSE, CommonNames, common)
    BY CommonSound
  <2> QED
    BY <2>1 DEF Sound
<1>3. /\ IsList(t.appliances) /\ IsList(t.volumes)
      /\ Ids(t.appliances) \subseteq Ids(w.appliances)
      /\ Ids(t.volumes) \subseteq Ids(w.volumes)
  <2>1. /\ IsList(t.appliances) /\ ToSet(t.appliances) \subseteq ToSet(w.appliances)
        /\ IsList(t.volumes) /\ t.volumes \in {<<>>, w.volumes}
    BY DEF Lists
  <2>2. \A i \in DOMAIN t.appliances : t.appliances[i] \in ToSet(w.appliances)
    BY <2>1, ListDomain
  <2>3. \A y \in ToSet(w.appliances) : y.id \in Ids(w.appliances)
    BY DEF Ids, ToSet
  <2>4. Ids(t.appliances) \subseteq Ids(w.appliances)
    BY <2>2, <2>3 DEF Ids
  <2>5. Ids(t.volumes) \subseteq Ids(w.volumes)
    BY <2>1 DEF Ids
  <2> QED
    BY <2>1, <2>4, <2>5
<1>4. ASSUME NEW id \in Ids(t.appliances)
      PROVE  /\ IsList(perf(id)) /\ IsList(space(id))
             /\ x \in AllSeries(perf(id))
                  <=> /\ "appliancePerf" \notin fails
                      /\ w.appliancePerf[id] # <<>>
                      /\ x = PerfSeries(a, t, id)
             /\ x \in AllSeries(space(id))
                  <=> /\ "applianceSpace" \notin fails
                      /\ w.applianceSpace[id] # <<>>
                      /\ x = SpaceSeries(a, t, id)
  <2>1. /\ IsList(w.appliancePerf[id]) /\ Ids(w.appliancePerf[id]) \subseteq {id}
        /\ IsList(w.applianceSpace[id]) /\ Ids(w.applianceSpace[id]) \subseteq {id}
    BY <1>3 DEF Answers
  <2>2. OfEntity(a, t, "appliancePerf", fails, id, w.appliancePerf[id], x)
    BY <2>1, EntityAnswer
  <2>3. OfEntity(a, t, "applianceSpace", fails, id, w.applianceSpace[id], x)
    BY <2>1, EntityAnswer
  <2> QED
    BY <2>2, <2>3 DEF OfEntity
<1>5. ASSUME NEW id \in Ids(t.volumes)
      PROVE  /\ IsList(vol(id))
             /\ x \in AllSeries(vol(id))
                  <=> /\ "volumePerf" \notin fails /\ w.volumePerf[id] # <<>>
                      /\ x = VolumeSeries(a, t, id, VolumeApplianceID(t, id))
  <2>1. IsList(w.volumePerf[id]) /\ Ids(w.volumePerf[id]) \subseteq {id}
    BY <1>3 DEF Answers
  <2>2. OfEntity(a, t, "volumePerf", fails, id, w.volumePerf[id], x)
    BY <2>1, EntityAnswer
  <2> QED
    BY <2>2 DEF OfEntity
<1> HIDE DEF perf, space, vol, common
<1>6. /\ \A i \in DOMAIN t.appliances :
           /\ t.appliances[i].id \in Ids(t.appliances)
           /\ apps[i] = perf(t.appliances[i].id) \o space(t.appliances[i].id)
      /\ \A i \in DOMAIN t.volumes :
           /\ t.volumes[i].id \in Ids(t.volumes)
           /\ vols[i] = vol(t.volumes[i].id)
      /\ \A id \in Ids(t.appliances) :
            \E i \in DOMAIN t.appliances : id = t.appliances[i].id
      /\ \A id \in Ids(t.volumes) :
            \E i \in DOMAIN t.volumes : id = t.volumes[i].id
      /\ apps = [i \in DOMAIN t.appliances |-> apps[i]]
      /\ vols = [i \in DOMAIN t.volumes |-> vols[i]]
  BY DEF Ids
<1> HIDE DEF apps, vols
<1>7. ASSUME NEW i \in DOMAIN t.appliances
      PROVE  /\ IsList(apps[i])
             /\ AllSeries(apps[i]) = AllSeries(perf(t.appliances[i].id))
                                     \cup AllSeries(space(t.appliances[i].id))
  <2> DEFINE id == t.appliances[i].id
  <2>1. id \in Ids(t.appliances) /\ apps[i] = perf(id) \o space(id)
    BY <1>6
  <2> HIDE DEF id
  <2>2. IsList(perf(id)) /\ IsList(space(id))
    BY <1>4, <2>1
  <2> QED
    BY <2>1, <2>2, SeriesOfConcat DEF id
<1>8. /\ IsList(FlattenSeq(apps))
      /\ x \in AllSeries(FlattenSeq(apps))
           <=> \E i \in DOMAIN t.appliances : x \in AllSeries(apps[i])
  BY <1>3, <1>6, <1>7, SeriesOfFlatten
<1>9. \A i \in DOMAIN t.volumes : IsList(vols[i])
  BY <1>5, <1>6
<1>10. /\ IsList(FlattenSeq(vols))
       /\ x \in AllSeries(FlattenSeq(vols))
            <=> \E i \in DOMAIN t.volumes : x \in AllSeries(vols[i])
  BY <1>3, <1>6, <1>9, SeriesOfFlatten
<1>11. x \in AllSeries(FlattenSeq(apps))
         <=> \E id \in Ids(t.appliances) :
                x \in AllSeries(perf(id)) \/ x \in AllSeries(space(id))
  <2>1. \A i \in DOMAIN t.appliances :
           x \in AllSeries(apps[i]) <=> \/ x \in AllSeries(perf(t.appliances[i].id))
                                       \/ x \in AllSeries(space(t.appliances[i].id))
    BY <1>7
  <2>2. /\ \A i \in DOMAIN t.appliances : t.appliances[i].id \in Ids(t.appliances)
        /\ \A id \in Ids(t.appliances) :
              \E i \in DOMAIN t.appliances : id = t.appliances[i].id
    BY <1>6
  <2>3. x \in AllSeries(FlattenSeq(apps))
          <=> \E i \in DOMAIN t.appliances : x \in AllSeries(apps[i])
    BY <1>8
  <2> QED
    BY <2>1, <2>2, <2>3, ZenonT(40)
<1>12. x \in AllSeries(FlattenSeq(vols))
         <=> \E id \in Ids(t.volumes) : x \in AllSeries(vol(id))
  <2>1. \A i \in DOMAIN t.volumes :
           AllSeries(vols[i]) = AllSeries(vol(t.volumes[i].id))
    BY <1>6, Zenon
  <2>2. /\ \A i \in DOMAIN t.volumes : t.volumes[i].id \in Ids(t.volumes)
        /\ \A id \in Ids(t.volumes) :
              \E i \in DOMAIN t.volumes : id = t.volumes[i].id
    BY <1>6
  <2>3. x \in AllSeries(FlattenSeq(vols))
          <=> \E i \in DOMAIN t.volumes : x \in AllSeries(vols[i])
    BY <1>10
  <2> QED
    BY <2>1, <2>2, <2>3, ZenonT(40)
<1>13. InAnswers(a, t, w, fails, x)
         <=> \/ x \in AllSeries(FlattenSeq(apps))
             \/ x \in AllSeries(FlattenSeq(vols))
  BY <1>4, <1>5, <1>11, <1>12, Zenon DEF InAnswers
<1> DEFINE first == FlattenSeq(apps) \o FlattenSeq(vols)
<1>14. /\ IsList(first)
       /\ AllSeries(first) =
            AllSeries(FlattenSeq(apps)) \cup AllSeries(FlattenSeq(vols))
  BY <1>8, <1>10, SeriesOfConcat
<1>15. PerEntityMetrics(a, t, w, fails) = first \o common
  BY <1>1
<1> HIDE DEF first
<1>16. AllSeries(first \o common) = AllSeries(first) \cup AllSeries(common)
  BY <1>2, <1>14, SeriesOfConcat
<1> QED
  BY <1>13, <1>14, <1>15, <1>16 DEF common

LEMMA SeriesLabels ==
    ASSUME NEW a, NEW t, NEW id, NEW appliance
    PROVE  /\ Listed(t, PerfSeries(a, t, id)) <=> id \in Ids(t.appliances)
           /\ Listed(t, SpaceSeries(a, t, id)) <=> id \in Ids(t.appliances)
           /\ Listed(t, VolumeSeries(a, t, id, appliance)) <=> id \in Ids(t.volumes)
<1> DEFINE al == applianceLabels(a, t, id)
           vl == volumeLabels(a, t, id, appliance)
<1>1. /\ DOMAIN al = LabelNames["powerstore_appliance_read_iops"]
      /\ al.appliance_id = id
      /\ DOMAIN vl = LabelNames["powerstore_volume_read_iops"]
      /\ vl.volume_id = id
  BY ApplianceLabels, VolumeLabels DEF Labelled
<1>2. /\ PerfSeries(a, t, id).labels = al /\ SpaceSeries(a, t, id).labels = al
      /\ VolumeSeries(a, t, id, appliance).labels = vl
  BY DEF PerfSeries, SpaceSeries, VolumeSeries
<1> HIDE DEF al, vl
<1>3. "volume_id" \notin DOMAIN al /\ "volume_id" \in DOMAIN vl
  BY <1>1 DEF LabelNames, BaseNames
<1> QED
  BY <1>1, <1>2, <1>3 DEF Listed

\* What an entity of the inventory has on one path it has on the other.
LEMMA SameSeries ==
    ASSUME NEW a, NEW t, NEW w, NEW fails, SameEntities(t, w), NEW x
    PROVE  /\ InAnswers(a, t, w, fails, x) => InRows(a, t, w.archive, x)
           /\ /\ fails \cap {"volumePerf", "appliancePerf", "applianceSpace"} = {}
              /\ InRows(a, t, w.archive, x) /\ Listed(t, x)
              => InAnswers(a, t, w, fails, x)
<1> DEFINE ap == Entities(w.archive.appliancePerf, "appliance_id")
           as == Entities(w.archive.applianceSpace, "appliance_id")
           rows == w.archive.volumePerf
           vp == Entities(rows, "volume_id")
<1>1. /\ \A id \in Ids(t.appliances) :
           /\ w.appliancePerf[id] # <<>> <=> id \in ap
           /\ w.applianceSpace[id] # <<>> <=> id \in as
      /\ \A id \in Ids(t.volumes) :
           /\ VolumeApplianceID(t, id) # ""
           /\ w.volumePerf[id] # <<>> <=> id \in vp
  BY DEF SameEntities
<1>2. /\ \A id \in vp : \E i \in DOMAIN rows : id = Cell(rows[i], "volume_id")
      /\ \A i \in DOMAIN rows : Cell(rows[i], "volume_id") \in vp
  BY DEF Entities
<1>3. \A i \in DOMAIN rows :
         Cell(rows[i], "volume_id") \in Ids(t.volumes) =>
             rowAppliance(t, rows[i]) =
                 VolumeApplianceID(t, Cell(rows[i], "volume_id"))
  BY <1>1 DEF rowAppliance
<1>4. InRows(a, t, w.archive, x)
        <=> \/ \E id \in ap : x = PerfSeries(a, t, id)
            \/ \E id \in as : x = SpaceSeries(a, t, id)
            \/ \E i \in DOMAIN rows :
                  x = VolumeSeries(a, t, Cell(rows[i], "volume_id"),
                                   rowAppliance(t, rows[i]))
  BY DEF InRows
<1> HIDE DEF ap, as, vp, rows
<1>5. ASSUME InAnswers(a, t, w, fails, x) PROVE InRows(a, t, w.archive, x)
  <2>1. ASSUME NEW id \in Ids(t.appliances), w.appliancePerf[id] # <<>>,
               x = PerfSeries(a, t, id)
        PROVE  InRows(a, t, w.archive, x)
    BY <1>1, <1>4, <2>1
  <2>2. ASSUME NEW id \in Ids(t.appliances), w.applianceSpace[id] # <<>>,
               x = SpaceSeries(a, t, id)
        PROVE  InRows(a, t, w.archive, x)
    BY <1>1, <1>4, <2>2
  <2>3. ASSUME NEW id \in Ids(t.volumes), w.volumePerf[id] # <<>>,
               x = VolumeSeries(a, t, id, VolumeApplianceID(t, id))
        PROVE  InRows(a, t, w.archive, x)
    <3>1. PICK i \in DOMAIN rows : id = Cell(rows[i], "volume_id")
      BY <1>1, <1>2, <2>3
    <3>2. rowAppliance(t, rows[i]) = VolumeApplianceID(t, id)
      BY <1>3, <3>1
    <3> QED
      BY <1>4, <2>3, <3>1, <3>2, Zenon
  <2> QED
    BY <1>5, <2>1, <2>2, <2>3, Zenon DEF InAnswers
<1>6. ASSUME fails \cap {"volumePerf", "appliancePerf", "applianceSpace"} = {},
             InRows(a, t, w.archive, x), Listed(t, x)
      PROVE  InAnswers(a, t, w, fails, x)
  <2>1. /\ "volumePerf" \notin fails /\ "appliancePerf" \notin fails
        /\ "applianceSpace" \notin fails
    BY <1>6
  <2>2. ASSUME NEW id \in ap, x = PerfSeries(a, t, id)
        PROVE  InAnswers(a, t, w, fails, x)
    <3>1. id \in Ids(t.appliances)
      BY <1>6, <2>2, SeriesLabels
    <3>2. w.appliancePerf[id] # <<>>
      BY <1>1, <2>2, <3>1
    <3> QED
      BY <2>1, <2>2, <3>1, <3>2, Zenon DEF InAnswers
  <2>3. ASSUME NEW id \in as, x = SpaceSeries(a, t, id)
        PROVE  InAnswers(a, t, w, fails, x)
    <3>1. id \in Ids(t.appliances)
      BY <1>6, <2>3, SeriesLabels
    <3>2. w.applianceSpace[id] # <<>>
      BY <1>1, <2>3, <3>1
    <3> QED
      BY <2>1, <2>3, <3>1, <3>2, Zenon DEF InAnswers
  <2>4. ASSUME NEW i \in DOMAIN rows,
               x = VolumeSeries(a, t, Cell(rows[i], "volume_id"),
                                rowAppliance(t, rows[i]))
        PROVE  InAnswers(a, t, w, fails, x)
    <3> DEFINE id == Cell(rows[i], "volume_id")
    <3>1. id \in Ids(t.volumes)
      BY <1>6, <2>4, SeriesLabels
    <3>2. w.volumePerf[id] # <<>>
      BY <1>1, <1>2, <2>4, <3>1
    <3>3. x = VolumeSeries(a, t, id, VolumeApplianceID(t, id))
      BY <1>3, <2>4, <3>1
    <3> HIDE DEF id
    <3> QED
      BY <2>1, <3>1, <3>2, <3>3, Zenon DEF InAnswers
  <2> QED
    BY <1>4, <1>6, <2>2, <2>3, <2>4, Zenon
<1> QED
  BY <1>5, <1>6

\* Whatever the arrays answer and whatever fails: if both paths answer for the
\* same entities, the bulk path has every series of the other, and beyond those
\* none of an entity of the inventory (deriveBulkVolumePerf, derive_bulk.go:31).
THEOREM PathsAgree == Spec => []PathParity
<1> DEFINE Kept == \A b \in ToSet(Array) : input[b] \in Inputs[b] \cup {NoInput}
<1>1. TypeOK => Kept
  BY DEF TypeOK
<1>2. Kept => PathParity
  <2> SUFFICES ASSUME Kept, NEW a \in ToSet(Array), Answered(a)
               PROVE
        LET w == input[a].w
            fails == input[a].fails
            t == GetTopology(w, fails)
            bulk == AllSeries(BulkMetrics(a, t, w, fails))
            entity == AllSeries(PerEntityMetrics(a, t, w, fails))
        IN  SameEntities(t, w) =>
                /\ entity \subseteq bulk
                /\ fails \cap {"volumePerf", "appliancePerf",
                                "applianceSpace"} = {} =>
                       \A s \in bulk \ entity : ~Listed(t, s)
    BY DEF PathParity
  <2> DEFINE w == input[a].w
             fails == input[a].fails
             t == GetTopology(w, fails)
             bulk == AllSeries(BulkMetrics(a, t, w, fails))
             entity == AllSeries(PerEntityMetrics(a, t, w, fails))
             common == AllSeries(commonMetrics(a, t, w, fails))
  <2> SUFFICES ASSUME SameEntities(t, w)
               PROVE  /\ entity \subseteq bulk
                      /\ fails \cap {"volumePerf", "appliancePerf",
                                     "applianceSpace"} = {} =>
                             \A s \in bulk \ entity : ~Listed(t, s)
    OBVIOUS
  <2>1. Answers(w)
    BY InputAssumption DEF Answered
  <2> HIDE DEF w, fails
  <2>2. Lists(t, w)
    BY <2>1, TopologyLists
  <2> HIDE DEF t
  <2>3. \A x : /\ x \in bulk <=> InRows(a, t, w.archive, x) \/ x \in common
               /\ x \in entity <=> InAnswers(a, t, w, fails, x) \/ x \in common
    BY <2>1, <2>2, BulkSeries, EntitySeries
  <2>4. \A x : InAnswers(a, t, w, fails, x) => InRows(a, t, w.archive, x)
    BY SameSeries
  <2>5. ASSUME fails \cap {"volumePerf", "appliancePerf", "applianceSpace"} = {},
               NEW x, InRows(a, t, w.archive, x), Listed(t, x)
        PROVE  InAnswers(a, t, w, fails, x)
    BY <2>5, SameSeries
  <2> HIDE DEF bulk, entity, common
  <2> QED
    BY <2>3, <2>4, <2>5
<1> QED
  BY <1>1, <1>2, ReadersTypes, PTL
=============================================================================
