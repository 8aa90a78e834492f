---------------------------- MODULE DeriveProofs ----------------------------
(* Proofs about the samples of an array: whatever it answers, whatever     *)
(* fails and whichever path it is on, the samples of a metric have the     *)
(* same label names.                                                       *)
EXTENDS Derive, SequenceFacts

-----------------------------------------------------------------------------
(* Slices.                                                                 *)

LEMMA NoList == IsList(<<>>) /\ ToSet(<<>>) = {}
BY DEF IsList, ToSet

LEMMA OneList == ASSUME NEW e PROVE IsList(<<e>>) /\ ToSet(<<e>>) = {e}
BY DEF IsList, ToSet

LEMMA ListDomain ==
    ASSUME NEW s, IsList(s)
    PROVE  /\ Len(s) \in Nat /\ DOMAIN s = 1..Len(s) /\ IsFiniteSet(DOMAIN s)
           /\ \A i \in DOMAIN s : s[i] \in ToSet(s)
<1>1. Len(s) \in Nat /\ DOMAIN s = 1..Len(s)
  BY DEF IsList
<1>2. IsFiniteSet(1..Len(s))
  BY <1>1, FS_Interval
<1> QED
  BY <1>1, <1>2 DEF ToSet

\* The index range makes a list, whatever the elements.
LEMMA ListFunction ==
    ASSUME NEW n \in Nat, NEW s, s = [i \in 1..n |-> s[i]]
    PROVE  IsList(s) /\ DOMAIN s = 1..n /\ Len(s) = n
<1>1. s \in [1..n -> ToSet(s)]
  BY DEF ToSet
<1>2. s \in Seq(ToSet(s))
  BY <1>1, SeqDef
<1> QED
  BY <1>1, <1>2 DEF IsList

LEMMA SequenceList == ASSUME NEW S, NEW s \in Seq(S) PROVE IsList(s)
<1>1. s = [i \in 1..Len(s) |-> s[i]] /\ Len(s) \in Nat
  OBVIOUS
<1> QED
  BY <1>1, ListFunction

LEMMA ListWiden ==
    ASSUME NEW s, IsList(s), NEW S, ToSet(s) \subseteq S
    PROVE  s \in Seq(S)
<1>1. s = [i \in 1..Len(s) |-> s[i]] /\ Len(s) \in Nat
  BY DEF IsList
<1>2. \A i \in 1..Len(s) : s[i] \in S
  BY ListDomain
<1>3. s \in [1..Len(s) -> S]
  BY <1>1, <1>2
<1> QED
  BY <1>1, <1>3, SeqDef

LEMMA ListConcat ==
    ASSUME NEW s, NEW t, IsList(s), IsList(t)
    PROVE  /\ IsList(s \o t) /\ Len(s \o t) = Len(s) + Len(t)
           /\ ToSet(s \o t) = ToSet(s) \cup ToSet(t)
           /\ \A i \in 1..Len(s) : (s \o t)[i] = s[i]
           /\ \A i \in 1..Len(t) : (s \o t)[Len(s) + i] = t[i]
<1> DEFINE S == ToSet(s) \cup ToSet(t)
<1>1. s \in Seq(S) /\ t \in Seq(S)
  BY ListWiden
<1> HIDE DEF S
<1>2. ToSet(s \o t) = ToSet(s) \cup ToSet(t)
  BY <1>1, ConcatLists
<1>3. s \o t \in Seq(S)
  BY <1>1, ConcatProperties
<1>4. /\ Len(s \o t) = Len(s) + Len(t)
      /\ \A i \in 1..Len(s) : (s \o t)[i] = s[i]
      /\ \A i \in 1..Len(t) : (s \o t)[Len(s) + i] = t[i]
  BY <1>1
<1> QED
  BY <1>2, <1>3, <1>4 DEF IsList, S

LEMMA InjectiveConcat ==
    ASSUME NEW s, NEW t, IsList(s), IsList(t), IsInjective(s), IsInjective(t),
           ToSet(s) \cap ToSet(t) = {}
    PROVE  IsInjective(s \o t)
<1> DEFINE r == s \o t
           L == Len(s)
           M == Len(t)
<1>1. /\ DOMAIN s = 1..L /\ DOMAIN t = 1..M /\ L \in Nat /\ M \in Nat
      /\ \A i \in 1..L : s[i] \in ToSet(s)
      /\ \A i \in 1..M : t[i] \in ToSet(t)
  BY ListDomain
<1>2. /\ DOMAIN r = 1..(L + M)
      /\ \A i \in 1..L : r[i] = s[i]
      /\ \A i \in 1..M : r[L + i] = t[i]
  <2>1. IsList(r) /\ Len(r) = L + M
    BY ListConcat
  <2> HIDE DEF r
  <2>2. DOMAIN r = 1..(L + M)
    BY <2>1, ListDomain
  <2> QED
    BY <2>2, ListConcat DEF r
<1> HIDE DEF r, L, M
<1>3. \A i \in 1..(L + M) : i \in 1..L \/ (i - L \in 1..M /\ L + (i - L) = i)
  BY <1>1
<1>4. \A i \in 1..(L + M) : \/ i \in 1..L /\ r[i] = s[i] /\ r[i] \in ToSet(s)
                            \/ i - L \in 1..M /\ r[i] = t[i - L] /\ r[i] \in ToSet(t)
  <2> TAKE i \in 1..(L + M)
  <2>1. CASE i \in 1..L
    BY <1>1, <1>2, <2>1
  <2>2. CASE i - L \in 1..M /\ L + (i - L) = i
    <3>1. r[L + (i - L)] = t[i - L]
      BY <1>2, <2>2
    <3> QED
      BY <1>1, <2>2, <3>1
  <2> QED
    BY <1>3, <2>1, <2>2
<1>5. ASSUME NEW i \in 1..(L + M), NEW j \in 1..(L + M), r[i] = r[j] PROVE i = j
  <2>1. CASE i \in 1..L /\ r[i] = s[i] /\ r[i] \in ToSet(s)
    <3>1. j \in 1..L /\ r[j] = s[j]
      BY <1>4, <1>5, <2>1
    <3> QED
      BY <1>1, <1>5, <2>1, <3>1 DEF IsInjective
  <2>2. CASE i - L \in 1..M /\ r[i] = t[i - L] /\ r[i] \in ToSet(t)
    <3>1. j - L \in 1..M /\ r[j] = t[j - L]
      BY <1>4, <1>5, <2>2
    <3>2. i - L = j - L
      BY <1>1, <1>5, <2>2, <3>1 DEF IsInjective
    <3> QED
      BY <1>1, <3>2
  <2> QED
    BY <1>4, <2>1, <2>2
<1> QED
  BY <1>2, <1>5 DEF IsInjective, r

LEMMA ListFlatten ==
    ASSUME NEW parts, IsList(parts), \A i \in DOMAIN parts : IsList(parts[i])
    PROVE  /\ IsList(FlattenSeq(parts))
           /\ ToSet(FlattenSeq(parts)) = UNION {ToSet(parts[i]) : i \in DOMAIN parts}
<1> DEFINE S == UNION {ToSet(parts[i]) : i \in DOMAIN parts}
           flat == FlattenSeq(parts)
           N == Len(parts)
<1>1. N \in Nat /\ DOMAIN parts = 1..N
  BY ListDomain
<1>2. \A i \in DOMAIN parts : parts[i] \in Seq(S)
  BY ListWiden
<1>3. parts \in Seq(Seq(S))
  <2>1. ToSet(parts) \subseteq Seq(S)
    BY <1>2 DEF ToSet
  <2> HIDE DEF S
  <2> QED
    BY <2>1, ListWiden
<1> HIDE DEF S, N
<1>4. flat \in Seq(S)
  BY <1>3, FlattenPlaces
<1>5. PICK part, pos : Places(flat, parts, N, part, pos)
  BY <1>3, FlattenPlaces DEF N
<1> HIDE DEF flat
<1>6. DOMAIN flat = 1..Len(flat)
  BY <1>4
<1>7. \A e \in ToSet(flat) : e \in S
  BY <1>4 DEF ToSet
<1>8. ASSUME NEW i \in DOMAIN parts, NEW e \in ToSet(parts[i])
      PROVE  e \in ToSet(flat)
  <2>1. PICK j \in DOMAIN parts[i] : parts[i][j] = e
    BY DEF ToSet
  <2>2. j \in 1..Len(parts[i])
    BY ListDomain
  <2>3. PICK k \in 1..Len(flat) : part[k] = i /\ pos[k] = j
    BY <1>1, <1>5, <2>2 DEF Places
  <2>4. flat[k] = e
    BY <1>5, <2>1, <2>3 DEF Places
  <2> QED
    BY <1>6, <2>3, <2>4 DEF ToSet
<1>9. ToSet(flat) = S
  BY <1>7, <1>8 DEF S
<1> QED
  BY <1>4, <1>9 DEF IsList, flat, S

\* Different places of what is joined come from different places of the parts.
LEMMA FlattenApart ==
    ASSUME NEW parts, IsList(parts), \A i \in DOMAIN parts : IsList(parts[i]),
           NEW k \in DOMAIN FlattenSeq(parts), NEW l \in DOMAIN FlattenSeq(parts),
           k # l
    PROVE  \E i, m \in DOMAIN parts : \E j \in DOMAIN parts[i], n \in DOMAIN parts[m] :
              /\ FlattenSeq(parts)[k] = parts[i][j]
              /\ FlattenSeq(parts)[l] = parts[m][n]
              /\ i # m \/ j # n
<1> DEFINE S == UNION {ToSet(parts[i]) : i \in DOMAIN parts}
           flat == FlattenSeq(parts)
<1>1. Len(parts) \in Nat /\ DOMAIN parts = 1..Len(parts)
  BY ListDomain
<1>2. parts \in Seq(Seq(S))
  <2>1. \A i \in DOMAIN parts : parts[i] \in Seq(S)
    BY ListWiden
  <2>2. ToSet(parts) \subseteq Seq(S)
    BY <2>1 DEF ToSet
  <2> HIDE DEF S
  <2> QED
    BY <2>2, ListWiden
<1> HIDE DEF S
<1>3. flat \in Seq(S)
  BY <1>2, FlattenPlaces
<1>4. PICK part, pos : Places(flat, parts, Len(parts), part, pos)
  BY <1>2, FlattenPlaces
<1>5. k \in DOMAIN flat /\ l \in DOMAIN flat
  OBVIOUS
<1> HIDE DEF flat
<1>6. DOMAIN flat = 1..Len(flat) /\ Len(flat) \in Nat
  BY <1>3
<1>7. \A m \in DOMAIN flat :
         /\ part[m] \in DOMAIN parts /\ pos[m] \in DOMAIN parts[part[m]]
         /\ part[m] \in Nat /\ pos[m] \in Nat
         /\ flat[m] = parts[part[m]][pos[m]]
  <2> TAKE m \in DOMAIN flat
  <2>1. /\ part[m] \in DOMAIN parts /\ pos[m] \in 1..Len(parts[part[m]])
        /\ flat[m] = parts[part[m]][pos[m]] /\ pos[m] \in Nat
    BY <1>1, <1>4, <1>6 DEF Places
  <2>2. pos[m] \in DOMAIN parts[part[m]]
    BY <2>1, ListDomain
  <2> QED
    BY <1>1, <2>1, <2>2
<1>8. \A m, n \in 1..Len(flat) :
         m < n => part[m] < part[n] \/ (part[m] = part[n] /\ pos[m] < pos[n])
  BY <1>4 DEF Places
<1>9. part[k] # part[l] \/ pos[k] # pos[l]
  <2>1. k < l \/ l < k
    BY <1>5, <1>6
  <2> QED
    BY <1>5, <1>6, <1>7, <1>8, <2>1
<1> QED
  BY <1>5, <1>7, <1>9 DEF flat

LEMMA InjectiveFlatten ==
    ASSUME NEW parts, IsList(parts),
           \A i \in DOMAIN parts : IsList(parts[i]) /\ IsInjective(parts[i]),
           \A i, j \in DOMAIN parts : i # j => ToSet(parts[i]) \cap ToSet(parts[j]) = {}
    PROVE  IsInjective(FlattenSeq(parts))
<1> DEFINE flat == FlattenSeq(parts)
<1> SUFFICES ASSUME NEW k \in DOMAIN flat, NEW l \in DOMAIN flat, k # l
             PROVE  flat[k] # flat[l]
  BY DEF IsInjective
<1>1. PICK i \in DOMAIN parts, m \in DOMAIN parts :
         \E j \in DOMAIN parts[i], n \in DOMAIN parts[m] :
            flat[k] = parts[i][j] /\ flat[l] = parts[m][n] /\ (i # m \/ j # n)
  BY FlattenApart
<1> HIDE DEF flat
<1>2. PICK j \in DOMAIN parts[i], n \in DOMAIN parts[m] :
         flat[k] = parts[i][j] /\ flat[l] = parts[m][n] /\ (i # m \/ j # n)
  BY <1>1
<1>3. parts[i][j] \in ToSet(parts[i]) /\ parts[m][n] \in ToSet(parts[m])
  BY ListDomain
<1>4. CASE i # m
  BY <1>2, <1>3, <1>4
<1>5. CASE i = m
  BY <1>2, <1>5 DEF IsInjective
<1> QED
  BY <1>4, <1>5

\* Element k of kept is item at[k].
Chosen(kept, items, places, at) ==
    /\ at \in [DOMAIN kept -> DOMAIN items \cap places]
    /\ \A k \in DOMAIN kept : kept[k] = items[at[k]]
    /\ \A i \in DOMAIN items \cap places : \E k \in DOMAIN kept : at[k] = i
    /\ \A k, l \in DOMAIN kept : k < l => at[k] < at[l]

LEMMA KeepList ==
    ASSUME NEW items, IsList(items), NEW places
    PROVE  /\ IsList(Keep(items, places))
           /\ ToSet(Keep(items, places)) =
                {items[i] : i \in DOMAIN items \cap places}
           /\ \E at : Chosen(Keep(items, places), items, places, at)
<1> DEFINE slots == [i \in DOMAIN items |->
                       IF i \in places THEN <<items[i]>> ELSE <<>>]
           kept == Keep(items, places)
<1>1. kept = FlattenSeq(slots)
  BY DEF Keep
<1>2. Len(items) \in Nat /\ DOMAIN items = 1..Len(items)
      /\ \A i \in DOMAIN items : items[i] \in ToSet(items)
  BY ListDomain
<1>3. \A i \in DOMAIN items : slots[i] = IF i \in places THEN <<items[i]>> ELSE <<>>
  OBVIOUS
<1>4. slots \in Seq(Seq(ToSet(items))) /\ DOMAIN slots = DOMAIN items
  <2>1. \A i \in DOMAIN items : slots[i] \in Seq(ToSet(items))
    BY <1>2
  <2>2. slots \in [1..Len(items) -> Seq(ToSet(items))]
    BY <1>2, <2>1
  <2> QED
    BY <1>2, <2>2, SeqDef
<1> HIDE DEF slots
<1>5. PICK at : FromSlots(kept, slots, at)
  <2>1. \A i \in DOMAIN slots : \/ slots[i] = <<>>
                                \/ \E e \in ToSet(items) : slots[i] = <<e>>
    BY <1>2, <1>3, <1>4
  <2> QED
    BY <1>1, <1>4, <2>1, FlattenSlots
<1>6. kept \in Seq(ToSet(items))
  BY <1>1, <1>4, FlattenPlaces
<1> HIDE DEF kept
<1>7. \A k \in DOMAIN kept : /\ at[k] \in DOMAIN items \cap places
                             /\ kept[k] = items[at[k]]
  <2> TAKE k \in DOMAIN kept
  <2>1. at[k] \in DOMAIN items /\ slots[at[k]] = <<kept[k]>>
    BY <1>4, <1>5 DEF FromSlots
  <2>2. CASE at[k] \in places
    <3>1. <<items[at[k]]>> = <<kept[k]>>
      BY <1>3, <2>1, <2>2
    <3> QED
      BY <2>1, <2>2, <3>1
  <2>3. CASE at[k] \notin places
    <3>1. <<>> = <<kept[k]>>
      BY <1>3, <2>1, <2>3
    <3> QED
      BY <3>1
  <2> QED
    BY <2>2, <2>3
<1>8. \A i \in DOMAIN items \cap places : \E k \in DOMAIN kept : at[k] = i
  <2> TAKE i \in DOMAIN items \cap places
  <2>1. slots[i] = <<items[i]>>
    BY <1>3
  <2>2. slots[i] # <<>>
    BY <2>1
  <2> QED
    BY <1>4, <1>5, <2>2 DEF FromSlots
<1>9. Chosen(kept, items, places, at)
  BY <1>5, <1>7, <1>8 DEF Chosen, FromSlots
<1>10. ToSet(kept) = {items[i] : i \in DOMAIN items \cap places}
  <2>1. \A k \in DOMAIN kept : kept[k] \in {items[i] : i \in DOMAIN items \cap places}
    BY <1>7
  <2>2. \A i \in DOMAIN items \cap places : \E k \in DOMAIN kept : kept[k] = items[i]
    BY <1>7, <1>8
  <2> QED
    BY <2>1, <2>2 DEF ToSet
<1>11. IsList(kept)
  BY <1>6, SequenceList
<1> QED
  BY <1>9, <1>10, <1>11 DEF kept

-----------------------------------------------------------------------------
(* Series.                                                                 *)

Distinct(samples) ==
    \A i, j \in DOMAIN samples : Series(samples[i]) = Series(samples[j]) => i = j

LEMMA SeriesSet ==
    ASSUME NEW s PROVE AllSeries(s) = {Series(x) : x \in ToSet(s)}
BY DEF AllSeries, ToSet

\* One sample of every series means as many samples as series.
LEMMA DistinctCounted ==
    ASSUME NEW s, IsList(s), Distinct(s)
    PROVE  Cardinality(AllSeries(s)) = Len(s)
<1> DEFINE n == Len(s)
           f == [i \in 1..n |-> Series(s[i])]
<1>1. n \in Nat /\ DOMAIN s = 1..n
  BY ListDomain
<1> HIDE DEF n
<1>2. AllSeries(s) = {f[i] : i \in 1..n}
  BY <1>1 DEF AllSeries
<1>3. f \in Bijection(1..n, AllSeries(s))
  <2>1. f \in [1..n -> AllSeries(s)]
    BY <1>2
  <2>2. IsInjective(f)
    BY <1>1 DEF Distinct, IsInjective
  <2> HIDE DEF f
  <2> QED
    BY <1>2, <2>1, <2>2 DEF Bijection, Injection, Surjection
<1> HIDE DEF f
<1>4. IsFiniteSet(1..n) /\ Cardinality(1..n) = n
  BY <1>1, FS_Interval
<1>5. ExistsBijection(1..n, AllSeries(s))
  BY <1>3 DEF ExistsBijection
<1> QED
  BY <1>4, <1>5, FS_Bijection DEF n

LEMMA DistinctConcat ==
    ASSUME NEW s, NEW t, IsList(s), IsList(t), Distinct(s), Distinct(t),
           \A x \in ToSet(s), y \in ToSet(t) : Series(x) # Series(y)
    PROVE  Distinct(s \o t)
<1> DEFINE r == s \o t
           L == Len(s)
           M == Len(t)
<1>1. /\ DOMAIN s = 1..L /\ DOMAIN t = 1..M /\ L \in Nat /\ M \in Nat
      /\ \A i \in 1..L : s[i] \in ToSet(s)
      /\ \A i \in 1..M : t[i] \in ToSet(t)
  BY ListDomain
<1>2. DOMAIN r = 1..(L + M)
  <2>1. IsList(r) /\ Len(r) = L + M
    BY ListConcat
  <2> HIDE DEF r
  <2> QED
    BY <2>1, ListDomain
<1>3. \A i \in 1..(L + M) : \/ i \in 1..L /\ r[i] = s[i]
                            \/ i - L \in 1..M /\ r[i] = t[i - L]
  <2> TAKE i \in 1..(L + M)
  <2>1. CASE i \in 1..L
    BY <2>1, ListConcat
  <2>2. CASE i \notin 1..L
    <3>1. i - L \in 1..M /\ L + (i - L) = i
      BY <1>1, <2>2
    <3> QED
      BY <3>1, ListConcat
  <2> QED
    BY <2>1, <2>2
<1> HIDE DEF r, L, M
<1>4. ASSUME NEW i \in 1..(L + M), NEW j \in 1..(L + M),
             Series(r[i]) = Series(r[j])
      PROVE  i = j
  <2>1. CASE i \in 1..L /\ r[i] = s[i]
    <3>1. j \in 1..L /\ r[j] = s[j]
      BY <1>1, <1>3, <1>4, <2>1
    <3> QED
      BY <1>1, <1>4, <2>1, <3>1 DEF Distinct
  <2>2. CASE i - L \in 1..M /\ r[i] = t[i - L]
    <3>1. j - L \in 1..M /\ r[j] = t[j - L]
      BY <1>1, <1>3, <1>4, <2>2
    <3>2. i - L = j - L
      BY <1>1, <1>4, <2>2, <3>1 DEF Distinct
    <3> QED
      BY <1>1, <3>2
  <2> QED
    BY <1>3, <2>1, <2>2
<1> QED
  BY <1>2, <1>4 DEF Distinct, r

LEMMA DistinctFlatten ==
    ASSUME NEW parts, IsList(parts),
           \A i \in DOMAIN parts : IsList(parts[i]) /\ Distinct(parts[i]),
           \A i, j \in DOMAIN parts : i # j =>
               \A x \in ToSet(parts[i]), y \in ToSet(parts[j]) :
                   Series(x) # Series(y)
    PROVE  Distinct(FlattenSeq(parts))
<1> DEFINE flat == FlattenSeq(parts)
<1> SUFFICES ASSUME NEW k \in DOMAIN flat, NEW l \in DOMAIN flat, k # l
             PROVE  Series(flat[k]) # Series(flat[l])
  BY DEF Distinct
<1>1. PICK i \in DOMAIN parts, m \in DOMAIN parts :
         \E j \in DOMAIN parts[i], n \in DOMAIN parts[m] :
            flat[k] = parts[i][j] /\ flat[l] = parts[m][n] /\ (i # m \/ j # n)
  BY FlattenApart
<1> HIDE DEF flat
<1>2. PICK j \in DOMAIN parts[i], n \in DOMAIN parts[m] :
         flat[k] = parts[i][j] /\ flat[l] = parts[m][n] /\ (i # m \/ j # n)
  BY <1>1
<1>3. parts[i][j] \in ToSet(parts[i]) /\ parts[m][n] \in ToSet(parts[m])
  BY ListDomain
<1>4. CASE i # m
  BY <1>2, <1>3, <1>4
<1>5. CASE i = m
  BY <1>2, <1>5 DEF Distinct
<1> QED
  BY <1>4, <1>5

-----------------------------------------------------------------------------
(* Samples.                                                                *)

BaseNames == {"array", "cluster_id"}

\* The label names of each metric (metrics.go).
LabelNames == [
    powerstore_volume_read_iops |-> BaseNames \cup
        {"volume_name", "volume_id", "appliance_id", "appliance_name",
         "volume_group_name", "volume_group_id"},
    powerstore_appliance_read_iops |-> BaseNames \cup
        {"appliance_name", "appliance_id", "service_tag"},
    powerstore_appliance_physical_total_bytes |-> BaseNames \cup
        {"appliance_name", "appliance_id", "service_tag"},
    powerstore_file_system_size_total_bytes |-> BaseNames \cup
        {"file_system_name", "file_system_id", "nas_server_name", "nas_server_id"},
    powerstore_file_system_read_iops |-> BaseNames \cup
        {"file_system_name", "file_system_id", "nas_server_name", "nas_server_id"},
    powerstore_port_link_up |-> BaseNames \cup
        {"port_name", "port_id", "port_type", "appliance_id"},
    powerstore_alert_active |-> BaseNames \cup {"severity"},
    powerstore_replication_rpo_seconds |-> BaseNames \cup
        {"rule_id", "remote_system_id"},
    powerstore_replication_session_state |-> BaseNames \cup
        {"session_id", "local_resource_id", "local_resource_name",
         "resource_type", "role", "type", "remote_system_id", "state"},
    powerstore_replication_transfer_rate_bytes_per_second |-> BaseNames \cup
        {"resource_id", "resource_name", "resource_type"},
    powerstore_volume_group_read_iops |-> BaseNames \cup
        {"volume_group_name", "volume_group_id"},
    powerstore_cluster_physical_total_bytes |-> BaseNames,
    powerstore_drive_state |-> BaseNames \cup
        {"drive_id", "drive_name", "appliance_id", "state"},
    powerstore_drive_wear_level_ratio |-> BaseNames \cup
        {"drive_id", "drive_name", "appliance_id"},
    powerstore_metro_witness_state |-> BaseNames \cup
        {"witness_id", "witness_name", "state"},
    powerstore_metro_witness_connection_state |-> BaseNames \cup
        {"witness_id", "appliance_id", "node_id", "state"}]

\* The labels of a sample of the metric, the array's name among them.
Labelled(a, name, labels) ==
    /\ name \in DOMAIN LabelNames
    /\ DOMAIN labels = LabelNames[name]
    /\ labels.array = a

\* Samples of the metrics, with their labels; one of each series at most if
\* `once' holds, which is that no list has an item twice.
Sound(a, once, names, samples) ==
    /\ IsList(samples)
    /\ \A s \in ToSet(samples) : s.name \in names /\ Labelled(a, s.name, s.labels)
    /\ once => Distinct(samples)

\* Samples of one item: they have its key as a label.
SoundOf(a, once, names, l, key, samples) ==
    /\ Sound(a, once, names, samples)
    /\ \A s \in ToSet(samples) : s.labels[l] = key

LEMMA SoundNone ==
    ASSUME NEW a, NEW once, NEW names, NEW l, NEW key
    PROVE  SoundOf(a, once, names, l, key, <<>>)
BY NoList DEF SoundOf, Sound, Distinct

LEMMA SoundOne ==
    ASSUME NEW a, NEW once, NEW names, NEW name \in names, NEW labels, NEW value,
           Labelled(a, name, labels), NEW l, NEW key, labels[l] = key
    PROVE  SoundOf(a, once, names, l, key, Sample(name, labels, value))
<1> DEFINE s == [name |-> name, labels |-> labels, value |-> value]
<1>1. s.name \in names /\ Labelled(a, s.name, s.labels) /\ s.labels[l] = key
  OBVIOUS
<1>2. Sample(name, labels, value) = <<s>>
  BY DEF Sample
<1> HIDE DEF s
<1>3. Distinct(<<s>>)
  BY DEF Distinct
<1> QED
  BY <1>1, <1>2, <1>3, OneList DEF SoundOf, Sound

LEMMA SoundMore ==
    ASSUME NEW a, NEW once, NEW names, NEW more, names \subseteq more,
           NEW samples, Sound(a, once, names, samples)
    PROVE  Sound(a, once, more, samples)
BY DEF Sound

\* Metrics that have no name in common are joined.
LEMMA SoundConcat ==
    ASSUME NEW a, NEW once, NEW names, NEW more, names \cap more = {},
           NEW s, NEW t, Sound(a, once, names, s), Sound(a, once, more, t)
    PROVE  /\ Sound(a, once, names \cup more, s \o t)
           /\ ToSet(s \o t) = ToSet(s) \cup ToSet(t)
<1>1. \A x \in ToSet(s), y \in ToSet(t) : Series(x) # Series(y)
  BY DEF Sound, Series
<1>2. once => Distinct(s \o t)
  BY <1>1, DistinctConcat DEF Sound
<1>3. IsList(s \o t) /\ ToSet(s \o t) = ToSet(s) \cup ToSet(t)
  BY ListConcat DEF Sound
<1> QED
  BY <1>2, <1>3 DEF Sound

LEMMA SoundOfConcat ==
    ASSUME NEW a, NEW once, NEW names, NEW more, names \cap more = {},
           NEW l, NEW key, NEW s, NEW t,
           SoundOf(a, once, names, l, key, s), SoundOf(a, once, more, l, key, t)
    PROVE  SoundOf(a, once, names \cup more, l, key, s \o t)
<1>1. Sound(a, once, names, s) /\ Sound(a, once, more, t)
  BY DEF SoundOf
<1>2. /\ Sound(a, once, names \cup more, s \o t)
      /\ ToSet(s \o t) = ToSet(s) \cup ToSet(t)
  <2>1. names \cap more = {}
    OBVIOUS
  <2> QED
    BY <1>1, <2>1, SoundConcat
<1> QED
  BY <1>2 DEF SoundOf

\* What is made of each item is joined.
SoundParts(a, once, names, items, parts) ==
    /\ IsList(items)
    /\ parts = [i \in DOMAIN items |-> parts[i]]
    /\ \A i \in DOMAIN items : Sound(a, once, names, parts[i])
    /\ once => \A i, j \in DOMAIN items : i # j =>
                   \A x \in ToSet(parts[i]), y \in ToSet(parts[j]) :
                       Series(x) # Series(y)

LEMMA SoundEach ==
    ASSUME NEW a, NEW once, NEW names, NEW items, NEW parts,
           SoundParts(a, once, names, items, parts)
    PROVE  /\ Sound(a, once, names, FlattenSeq(parts))
           /\ \A s \in ToSet(FlattenSeq(parts)) :
                 \E i \in DOMAIN items : s \in ToSet(parts[i])
<1>0. /\ IsList(items) /\ parts = [i \in DOMAIN items |-> parts[i]]
      /\ \A i \in DOMAIN items : Sound(a, once, names, parts[i])
      /\ once => \A i, j \in DOMAIN items : i # j =>
                     \A x \in ToSet(parts[i]), y \in ToSet(parts[j]) :
                         Series(x) # Series(y)
  BY DEF SoundParts
<1>1. Len(items) \in Nat /\ DOMAIN items = 1..Len(items)
  BY <1>0, ListDomain
<1>2. IsList(parts) /\ DOMAIN parts = DOMAIN items
  BY <1>0, <1>1, ListFunction
<1>3. \A i \in DOMAIN parts : IsList(parts[i])
  BY <1>0, <1>2 DEF Sound
<1>4. /\ IsList(FlattenSeq(parts))
      /\ ToSet(FlattenSeq(parts)) = UNION {ToSet(parts[i]) : i \in DOMAIN parts}
  BY <1>2, <1>3, ListFlatten
<1>5. once => Distinct(FlattenSeq(parts))
  BY <1>0, <1>2, <1>3, DistinctFlatten DEF Sound
<1>6. \A s \in ToSet(FlattenSeq(parts)) :
         \E i \in DOMAIN items : s \in ToSet(parts[i])
  BY <1>2, <1>4
<1> QED
  BY <1>0, <1>2, <1>4, <1>5, <1>6 DEF Sound

\* What is made of items with different keys.
KeyedParts(a, once, names, items, parts, l, keys) ==
    /\ IsList(items)
    /\ parts = [i \in DOMAIN items |-> parts[i]]
    /\ DOMAIN keys = DOMAIN items
    /\ once => IsInjective(keys)
    /\ \A i \in DOMAIN items : SoundOf(a, once, names, l, keys[i], parts[i])

LEMMA SoundKeyed ==
    ASSUME NEW a, NEW once, NEW names, NEW items, NEW parts, NEW l, NEW keys,
           KeyedParts(a, once, names, items, parts, l, keys)
    PROVE  /\ Sound(a, once, names, FlattenSeq(parts))
           /\ \A s \in ToSet(FlattenSeq(parts)) :
                 \E i \in DOMAIN items : s.labels[l] = keys[i]
<1>1. \A i \in DOMAIN items : /\ Sound(a, once, names, parts[i])
                              /\ \A s \in ToSet(parts[i]) : s.labels[l] = keys[i]
  BY DEF SoundOf, KeyedParts
<1>2. ASSUME once, NEW i \in DOMAIN items, NEW j \in DOMAIN items, i # j,
             NEW x \in ToSet(parts[i]), NEW y \in ToSet(parts[j])
      PROVE  Series(x) # Series(y)
  <2>1. keys[i] # keys[j]
    BY <1>2 DEF IsInjective, KeyedParts
  <2>2. x.labels[l] # y.labels[l]
    BY <1>1, <2>1
  <2> QED
    BY <2>2 DEF Series
<1>3. IsList(items) /\ parts = [i \in DOMAIN items |-> parts[i]]
  BY DEF KeyedParts
<1>4. /\ Sound(a, once, names, FlattenSeq(parts))
      /\ \A s \in ToSet(FlattenSeq(parts)) :
            \E i \in DOMAIN items : s \in ToSet(parts[i])
  <2>1. SoundParts(a, once, names, items, parts)
    BY <1>1, <1>2, <1>3 DEF SoundParts
  <2> QED
    BY <2>1, SoundEach
<1> QED
  BY <1>1, <1>4

-----------------------------------------------------------------------------
(* Labels.                                                                 *)

LEMMA LabelsOf ==
    ASSUME NEW a, NEW t, NEW more
    PROVE  /\ DOMAIN append(baseLabels(a, t), more) = BaseNames \cup DOMAIN more
           /\ append(baseLabels(a, t), more).array = a
<1>1. DOMAIN baseLabels(a, t) = BaseNames /\ baseLabels(a, t).array = a
  BY DEF baseLabels, BaseNames
<1>2. "array" \in BaseNames
  BY DEF BaseNames
<1> QED
  BY <1>1, <1>2 DEF append

LEMMA VolumeLabels ==
    ASSUME NEW a, NEW t, NEW id, NEW appliance
    PROVE  LET labels == volumeLabels(a, t, id, appliance) IN
           /\ Labelled(a, "powerstore_volume_read_iops", labels)
           /\ labels.volume_id = id
<1> DEFINE labels == volumeLabels(a, t, id, appliance)
<1>1. /\ DOMAIN labels =
           BaseNames \cup {"volume_name", "volume_id", "appliance_id",
                            "appliance_name", "volume_group_name",
                            "volume_group_id"}
      /\ labels.array = a
  BY LabelsOf DEF volumeLabels
<1>2. labels.volume_id = id
  BY DEF append, baseLabels, volumeLabels
<1> HIDE DEF labels
<1>3. Labelled(a, "powerstore_volume_read_iops", labels)
  BY <1>1 DEF Labelled, LabelNames
<1> QED
  BY <1>2, <1>3 DEF labels

LEMMA ApplianceLabels ==
    ASSUME NEW a, NEW t, NEW id
    PROVE  LET labels == applianceLabels(a, t, id) IN
           /\ Labelled(a, "powerstore_appliance_read_iops", labels)
           /\ Labelled(a, "powerstore_appliance_physical_total_bytes", labels)
           /\ labels.appliance_id = id
<1> DEFINE labels == applianceLabels(a, t, id)
<1>1. /\ DOMAIN labels =
           BaseNames \cup {"appliance_name", "appliance_id", "service_tag"}
      /\ labels.array = a
  BY LabelsOf DEF applianceLabels
<1>2. labels.appliance_id = id
  BY DEF append, baseLabels, applianceLabels
<1> HIDE DEF labels
<1>3. /\ Labelled(a, "powerstore_appliance_read_iops", labels)
      /\ Labelled(a, "powerstore_appliance_physical_total_bytes", labels)
  BY <1>1 DEF Labelled, LabelNames
<1> QED
  BY <1>2, <1>3 DEF labels

LEMMA FileSystemLabels ==
    ASSUME NEW a, NEW t, NEW name, NEW fs
    PROVE  LET labels == fileSystemLabels(a, t, name, fs) IN
           /\ Labelled(a, "powerstore_file_system_size_total_bytes", labels)
           /\ Labelled(a, "powerstore_file_system_read_iops", labels)
           /\ labels.file_system_id = fs.id
<1> DEFINE labels == fileSystemLabels(a, t, name, fs)
<1>1. /\ DOMAIN labels =
           BaseNames \cup {"file_system_name", "file_system_id",
                            "nas_server_name", "nas_server_id"}
      /\ labels.array = a
  BY LabelsOf DEF fileSystemLabels
<1>2. labels.file_system_id = fs.id
  BY DEF append, baseLabels, fileSystemLabels
<1> HIDE DEF labels
<1>3. /\ Labelled(a, "powerstore_file_system_size_total_bytes", labels)
      /\ Labelled(a, "powerstore_file_system_read_iops", labels)
  BY <1>1 DEF Labelled, LabelNames
<1> QED
  BY <1>2, <1>3 DEF labels

LEMMA PortLabels ==
    ASSUME NEW a, NEW t, NEW p, NEW kind
    PROVE  LET labels == portLabels(a, t, p, kind) IN
           /\ Labelled(a, "powerstore_port_link_up", labels)
           /\ labels.port_id = p.id
           /\ labels.port_type = kind
<1> DEFINE labels == portLabels(a, t, p, kind)
<1>1. /\ DOMAIN labels =
           BaseNames \cup {"port_name", "port_id", "port_type", "appliance_id"}
      /\ labels.array = a
  BY LabelsOf DEF portLabels
<1>2. labels.port_id = p.id /\ labels.port_type = kind
  BY DEF append, baseLabels, portLabels
<1> HIDE DEF labels
<1>3. Labelled(a, "powerstore_port_link_up", labels)
  BY <1>1 DEF Labelled, LabelNames
<1> QED
  BY <1>2, <1>3 DEF labels

LEMMA AlertLabels ==
    ASSUME NEW a, NEW t, NEW severity
    PROVE  LET labels == alertLabels(a, t, severity) IN
           /\ Labelled(a, "powerstore_alert_active", labels)
           /\ labels.severity = severity
<1> DEFINE labels == alertLabels(a, t, severity)
<1>1. /\ DOMAIN labels =
           BaseNames \cup {"severity"}
      /\ labels.array = a
  BY LabelsOf DEF alertLabels
<1>2. labels.severity = severity
  BY DEF append, baseLabels, alertLabels
<1> HIDE DEF labels
<1>3. Labelled(a, "powerstore_alert_active", labels)
  BY <1>1 DEF Labelled, LabelNames
<1> QED
  BY <1>2, <1>3 DEF labels

LEMMA RuleLabels ==
    ASSUME NEW a, NEW t, NEW r
    PROVE  LET labels == replicationRuleLabels(a, t, r) IN
           /\ Labelled(a, "powerstore_replication_rpo_seconds", labels)
           /\ labels.rule_id = r.id
<1> DEFINE labels == replicationRuleLabels(a, t, r)
<1>1. /\ DOMAIN labels =
           BaseNames \cup {"rule_id", "remote_system_id"}
      /\ labels.array = a
  BY LabelsOf DEF replicationRuleLabels
<1>2. labels.rule_id = r.id
  BY DEF append, baseLabels, replicationRuleLabels
<1> HIDE DEF labels
<1>3. Labelled(a, "powerstore_replication_rpo_seconds", labels)
  BY <1>1 DEF Labelled, LabelNames
<1> QED
  BY <1>2, <1>3 DEF labels

LEMMA SessionLabels ==
    ASSUME NEW a, NEW t, NEW s
    PROVE  LET labels == replicationSessionLabels(a, t, s) IN
           /\ Labelled(a, "powerstore_replication_session_state", labels)
           /\ labels.session_id = s.id
<1> DEFINE labels == replicationSessionLabels(a, t, s)
<1>1. /\ DOMAIN labels =
           BaseNames \cup {"session_id", "local_resource_id",
                            "local_resource_name", "resource_type", "role",
                            "type", "remote_system_id", "state"}
      /\ labels.array = a
  BY LabelsOf DEF replicationSessionLabels
<1>2. labels.session_id = s.id
  BY DEF append, baseLabels, replicationSessionLabels
<1> HIDE DEF labels
<1>3. Labelled(a, "powerstore_replication_session_state", labels)
  BY <1>1 DEF Labelled, LabelNames
<1> QED
  BY <1>2, <1>3 DEF labels

LEMMA ResourceLabels ==
    ASSUME NEW a, NEW t, NEW id, NEW type
    PROVE  LET labels == replicationResourceLabels(a, t, id, type) IN
           /\ Labelled(a, "powerstore_replication_transfer_rate_bytes_per_second", labels)
           /\ labels.resource_id = id
<1> DEFINE labels == replicationResourceLabels(a, t, id, type)
<1>1. /\ DOMAIN labels =
           BaseNames \cup {"resource_id", "resource_name", "resource_type"}
      /\ labels.array = a
  BY LabelsOf DEF replicationResourceLabels
<1>2. labels.resource_id = id
  BY DEF append, baseLabels, replicationResourceLabels
<1> HIDE DEF labels
<1>3. Labelled(a, "powerstore_replication_transfer_rate_bytes_per_second", labels)
  BY <1>1 DEF Labelled, LabelNames
<1> QED
  BY <1>2, <1>3 DEF labels

LEMMA GroupLabels ==
    ASSUME NEW a, NEW t, NEW g
    PROVE  LET labels == volumeGroupLabels(a, t, g) IN
           /\ Labelled(a, "powerstore_volume_group_read_iops", labels)
           /\ labels.volume_group_id = g.id
<1> DEFINE labels == volumeGroupLabels(a, t, g)
<1>1. /\ DOMAIN labels =
           BaseNames \cup {"volume_group_name", "volume_group_id"}
      /\ labels.array = a
  BY LabelsOf DEF volumeGroupLabels
<1>2. labels.volume_group_id = g.id
  BY DEF append, baseLabels, volumeGroupLabels
<1> HIDE DEF labels
<1>3. Labelled(a, "powerstore_volume_group_read_iops", labels)
  BY <1>1 DEF Labelled, LabelNames
<1> QED
  BY <1>2, <1>3 DEF labels

LEMMA DriveLabels ==
    ASSUME NEW a, NEW t, NEW d
    PROVE  LET labels == driveLabels(a, t, d) IN
           /\ Labelled(a, "powerstore_drive_wear_level_ratio", labels)
           /\ labels.drive_id = d.id
<1> DEFINE labels == driveLabels(a, t, d)
<1>1. /\ DOMAIN labels =
           BaseNames \cup {"drive_id", "drive_name", "appliance_id"}
      /\ labels.array = a
  BY LabelsOf DEF driveLabels
<1>2. labels.drive_id = d.id
  BY DEF append, baseLabels, driveLabels
<1> HIDE DEF labels
<1>3. Labelled(a, "powerstore_drive_wear_level_ratio", labels)
  BY <1>1 DEF Labelled, LabelNames
<1> QED
  BY <1>2, <1>3 DEF labels

LEMMA WitnessStateLabels ==
    ASSUME NEW a, NEW t, NEW x
    PROVE  LET labels == witnessStateLabels(a, t, x) IN
           /\ Labelled(a, "powerstore_metro_witness_state", labels)
           /\ labels.witness_id = x.id
<1> DEFINE labels == witnessStateLabels(a, t, x)
<1>1. /\ DOMAIN labels =
           BaseNames \cup {"witness_id", "witness_name", "state"}
      /\ labels.array = a
  BY LabelsOf DEF witnessStateLabels
<1>2. labels.witness_id = x.id
  BY DEF append, baseLabels, witnessStateLabels
<1> HIDE DEF labels
<1>3. Labelled(a, "powerstore_metro_witness_state", labels)
  BY <1>1 DEF Labelled, LabelNames
<1> QED
  BY <1>2, <1>3 DEF labels

LEMMA ConnectionLabels ==
    ASSUME NEW a, NEW t, NEW x, NEW c
    PROVE  LET labels == witnessConnectionLabels(a, t, x, c) IN
           /\ Labelled(a, "powerstore_metro_witness_connection_state", labels)
           /\ labels.witness_id = x.id
           /\ labels.appliance_id = c.appliance
           /\ labels.node_id = c.node
           /\ labels.state = c.state
<1> DEFINE labels == witnessConnectionLabels(a, t, x, c)
<1>1. /\ DOMAIN labels =
           BaseNames \cup {"witness_id", "appliance_id", "node_id", "state"}
      /\ labels.array = a
  BY LabelsOf DEF witnessConnectionLabels
<1>2. /\ labels.witness_id = x.id /\ labels.appliance_id = c.appliance
      /\ labels.node_id = c.node /\ labels.state = c.state
  BY DEF append, baseLabels, witnessConnectionLabels
<1> HIDE DEF labels
<1>3. Labelled(a, "powerstore_metro_witness_connection_state", labels)
  BY <1>1 DEF Labelled, LabelNames
<1> QED
  BY <1>2, <1>3 DEF labels

LEMMA DriveStateLabels ==
    ASSUME NEW a, NEW t, NEW d
    PROVE  LET labels == driveStateLabels(a, t, d) IN
           /\ Labelled(a, "powerstore_drive_state", labels)
           /\ labels.drive_id = d.id
<1>1. /\ DOMAIN driveLabels(a, t, d) =
           BaseNames \cup {"drive_id", "drive_name", "appliance_id"}
      /\ driveLabels(a, t, d).array = a
  BY LabelsOf DEF driveLabels
<1>2. driveLabels(a, t, d).drive_id = d.id
  BY DriveLabels
<1>3. /\ DOMAIN driveStateLabels(a, t, d) =
           BaseNames \cup {"drive_id", "drive_name", "appliance_id", "state"}
      /\ driveStateLabels(a, t, d).array = a
      /\ driveStateLabels(a, t, d).drive_id = d.id
  BY <1>1, <1>2 DEF driveStateLabels, append, BaseNames
<1> QED
  BY <1>3 DEF Labelled, LabelNames

LEMMA ClusterLabels ==
    ASSUME NEW a, NEW t
    PROVE  Labelled(a, "powerstore_cluster_physical_total_bytes", baseLabels(a, t))
BY DEF baseLabels, BaseNames, Labelled, LabelNames

-----------------------------------------------------------------------------
(* The inventory.                                                          *)

LEMMA SetList ==
    ASSUME NEW S, IsFiniteSet(S)
    PROVE  IsList(SetToSeq(S)) /\ ToSet(SetToSeq(S)) = S /\ IsInjective(SetToSeq(S))
<1> DEFINE n == Cardinality(S)
           f == SetToSeq(S)
<1>1. n \in Nat /\ ExistsBijection(1..n, S)
  BY FS_CardinalityType
<1>2. \E g \in [1..n -> S] : IsInjective(g)
  BY <1>1 DEF ExistsBijection, Bijection, Injection
<1>3. f \in [1..n -> S] /\ IsInjective(f)
  BY <1>2 DEF SetToSeq
<1> HIDE DEF f
<1>4. f = [i \in 1..n |-> f[i]] /\ DOMAIN f = 1..n
  BY <1>3
<1>5. IsList(f)
  BY <1>1, <1>4, ListFunction
<1>6. f \in Injection(1..n, S) /\ Cardinality(1..n) = n
  <2>1. Cardinality(1..n) = n
    BY <1>1, FS_Interval
  <2> QED
    BY <1>3, <2>1 DEF Injection
<1>7. f \in Surjection(1..n, S)
  BY <1>6, FS_Injection
<1>8. ToSet(f) = S
  BY <1>4, <1>7 DEF Surjection, ToSet
<1> QED
  BY <1>3, <1>5, <1>8 DEF f

\* What a list is mapped to is finite.
LEMMA FiniteImage ==
    ASSUME NEW D, IsFiniteSet(D), NEW f, f = [i \in D |-> f[i]]
    PROVE  IsFiniteSet({f[i] : i \in D})
<1>1. f \in Surjection(D, {f[i] : i \in D})
  BY DEF Surjection
<1> QED
  BY <1>1, FS_Surjection

LEMMA IdsFinite == ASSUME NEW items, IsList(items) PROVE IsFiniteSet(Ids(items))
<1> DEFINE f == [i \in DOMAIN items |-> items[i].id]
<1>1. IsFiniteSet({f[i] : i \in DOMAIN items})
  BY ListDomain, FiniteImage
<1> QED
  BY <1>1 DEF Ids

LEMMA LatestList ==
    ASSUME NEW items, IsList(items), NEW id
    PROVE  LET last == Latest(items, id) IN
           /\ IsList(last) /\ IsInjective(last)
           /\ ToSet(last) \subseteq ToSet(items)
           /\ \A e, f \in ToSet(last) : e = f
           /\ \A e \in ToSet(last) : e.id = id
<1> DEFINE places == {i \in DOMAIN items : items[i].id = id}
           of == Keep(items, places)
<1>1. Latest(items, id) = IF of = <<>> THEN <<>> ELSE <<Last(of)>>
  BY DEF Latest
<1>2. \A i \in DOMAIN items \cap places : items[i].id = id
  OBVIOUS
<1> HIDE DEF places
<1>3. /\ IsList(of) /\ ToSet(of) \subseteq ToSet(items)
      /\ \A e \in ToSet(of) : e.id = id
  <2>1. \A i \in DOMAIN items : items[i] \in ToSet(items)
    BY ListDomain
  <2> QED
    BY <1>2, <2>1, KeepList
<1> HIDE DEF of
<1>4. CASE of = <<>>
  BY <1>1, <1>4, NoList DEF IsInjective
<1>5. CASE of # <<>>
  <2> DEFINE e == Last(of)
  <2>1. Len(of) \in DOMAIN of
    BY <1>3, <1>5 DEF IsList
  <2>2. e \in ToSet(of)
    BY <2>1 DEF Last, ToSet
  <2>3. Latest(items, id) = <<e>>
    BY <1>1, <1>5
  <2> HIDE DEF e
  <2>4. IsInjective(<<e>>)
    BY DEF IsInjective
  <2> QED
    BY <1>3, <2>2, <2>3, <2>4, OneList
<1> QED
  BY <1>4, <1>5

LEMMA AnswerList ==
    ASSUME NEW call, NEW fails, NEW list, IsList(list)
    PROVE  /\ Answer(call, fails, list) \in {<<>>, list}
           /\ IsList(Answer(call, fails, list))
BY NoList DEF Answer

Once(items) == IsInjective([i \in DOMAIN items |-> items[i].id])

LEMMA OnceAnswer ==
    ASSUME NEW list, NEW part \in {<<>>, list}, Once(list)
    PROVE  Once(part)
<1>1. Once(<<>>)
  BY DEF Once, IsInjective
<1> QED
  BY <1>1

\* The lists of the inventory are those of the array or empty; the appliances
\* are some of the array's, each once.
Lists(t, w) ==
    /\ t.volumes \in {<<>>, w.volumes} /\ IsList(t.volumes)
    /\ t.groups \in {<<>>, w.groups} /\ IsList(t.groups)
    /\ t.fs \in {<<>>, w.fs} /\ IsList(t.fs)
    /\ t.fc \in {<<>>, w.fc} /\ IsList(t.fc)
    /\ t.eth \in {<<>>, w.eth} /\ IsList(t.eth)
    /\ t.alerts \in {<<>>, w.alerts} /\ IsList(t.alerts)
    /\ IsList(t.appliances) /\ ToSet(t.appliances) \subseteq ToSet(w.appliances)
    /\ Once(t.appliances)

LEMMA TopologyLists ==
    ASSUME NEW w, NEW fails, Answers(w)
    PROVE  Lists(GetTopology(w, fails), w)
<1> DEFINE volumes == Answer("volumes", fails, w.volumes)
           fc == Answer("fc", fails, w.fc)
           eth == Answer("eth", fails, w.eth)
           ports == volumes \o fc \o eth
           t == GetTopology(w, fails)
           used == {ports[i].appliance : i \in DOMAIN ports} \ {""}
           ids == SetToSeq(used)
           parts == [i \in DOMAIN ids |-> Latest(w.appliances, ids[i])]
<1>1. /\ IsList(w.volumes) /\ IsList(w.groups) /\ IsList(w.fs) /\ IsList(w.fc)
      /\ IsList(w.eth) /\ IsList(w.alerts) /\ IsList(w.appliances)
  BY DEF Answers
<1>2. /\ volumes \in {<<>>, w.volumes} /\ IsList(volumes)
      /\ fc \in {<<>>, w.fc} /\ IsList(fc)
      /\ eth \in {<<>>, w.eth} /\ IsList(eth)
  BY <1>1, AnswerList
<1>3. /\ t.volumes = volumes /\ t.fc = fc /\ t.eth = eth
      /\ t.groups = Answer("groups", fails, w.groups)
      /\ t.fs = Answer("fs", fails, w.fs)
      /\ t.alerts = Answer("alerts", fails, w.alerts)
      /\ t.appliances = enumerateAppliances(w, fails, ports)
  BY DEF GetTopology
<1> HIDE DEF t, volumes, fc, eth
<1>4. IsList(ports)
  BY <1>2, ListConcat
<1>5. enumerateAppliances(w, fails, ports)
        = Answer("appliance", fails, FlattenSeq(parts))
  BY DEF enumerateAppliances, Each
<1> HIDE DEF ports
<1>6. IsFiniteSet(used)
  <2> DEFINE f == [i \in DOMAIN ports |-> ports[i].appliance]
  <2>1. IsFiniteSet({f[i] : i \in DOMAIN ports})
    BY <1>4, ListDomain, FiniteImage
  <2>2. used \subseteq {f[i] : i \in DOMAIN ports}
    OBVIOUS
  <2> QED
    BY <2>1, <2>2, FS_Subset
<1> HIDE DEF used
<1>7. IsList(ids) /\ IsInjective(ids)
  BY <1>6, SetList
<1> HIDE DEF ids
<1>8. IsList(parts) /\ DOMAIN parts = DOMAIN ids
  BY <1>7, ListDomain, ListFunction
<1>9. \A i \in DOMAIN parts :
         /\ IsList(parts[i]) /\ IsInjective(parts[i])
         /\ ToSet(parts[i]) \subseteq ToSet(w.appliances)
         /\ \A e, f \in ToSet(parts[i]) : e = f
         /\ \A e \in ToSet(parts[i]) : e.id = ids[i]
  BY <1>1, <1>8, LatestList
<1> HIDE DEF parts
<1>10. /\ IsList(FlattenSeq(parts))
       /\ ToSet(FlattenSeq(parts)) = UNION {ToSet(parts[i]) : i \in DOMAIN parts}
  BY <1>8, <1>9, ListFlatten
<1>11. \A i, j \in DOMAIN parts : i # j => ToSet(parts[i]) \cap ToSet(parts[j]) = {}
  BY <1>7, <1>8, <1>9 DEF IsInjective
<1>12. IsInjective(FlattenSeq(parts))
  BY <1>8, <1>9, <1>11, InjectiveFlatten
<1>13. \A e, f \in ToSet(FlattenSeq(parts)) : e.id = f.id => e = f
  <2> SUFFICES ASSUME NEW e \in ToSet(FlattenSeq(parts)),
                      NEW f \in ToSet(FlattenSeq(parts)), e.id = f.id
               PROVE  e = f
    OBVIOUS
  <2>1. PICK i \in DOMAIN parts, j \in DOMAIN parts :
           e \in ToSet(parts[i]) /\ f \in ToSet(parts[j])
    BY <1>10
  <2>2. ids[i] = ids[j]
    BY <1>9, <2>1
  <2>3. i = j
    BY <1>7, <1>8, <2>2 DEF IsInjective
  <2> QED
    BY <1>9, <2>1, <2>3
<1> DEFINE found == FlattenSeq(parts)
<1>14. Once(found)
  <2>1. \A i \in DOMAIN found : found[i] \in ToSet(found)
    BY <1>10, ListDomain
  <2>2. ASSUME NEW i \in DOMAIN found, NEW j \in DOMAIN found,
               found[i].id = found[j].id
        PROVE  i = j
    <3>1. found[i] = found[j]
      BY <1>13, <2>1, <2>2
    <3> QED
      BY <1>12, <3>1 DEF IsInjective
  <2> HIDE DEF found
  <2> QED
    BY <2>2 DEF Once, IsInjective
<1>15. /\ IsList(t.appliances) /\ ToSet(t.appliances) \subseteq ToSet(w.appliances)
       /\ Once(t.appliances)
  <2>1. ToSet(found) \subseteq ToSet(w.appliances)
    BY <1>9, <1>10
  <2>2. t.appliances \in {<<>>, found}
    BY <1>3, <1>5, <1>10, AnswerList
  <2> HIDE DEF found
  <2>3. IsList(found)
    BY <1>10 DEF found
  <2> QED
    BY <1>14, <2>1, <2>2, <2>3, OnceAnswer, NoList
<1>16. /\ t.groups \in {<<>>, w.groups} /\ IsList(t.groups)
       /\ t.fs \in {<<>>, w.fs} /\ IsList(t.fs)
       /\ t.alerts \in {<<>>, w.alerts} /\ IsList(t.alerts)
  BY <1>1, <1>3, AnswerList
<1> QED
  BY <1>2, <1>3, <1>15, <1>16 DEF Lists, t

-----------------------------------------------------------------------------
(* What the derive functions make.                                         *)

LEMMA BulkVolumeSound ==
    ASSUME NEW a, NEW once, NEW t, NEW rows, IsList(rows),
           once => IsInjective([i \in DOMAIN rows |-> Cell(rows[i], "volume_id")])
    PROVE  Sound(a, once, {"powerstore_volume_read_iops"},
                 deriveBulkVolumePerf(a, t, rows))
<1> DEFINE names == {"powerstore_volume_read_iops"}
           parts == [i \in DOMAIN rows |->
             Sample("powerstore_volume_read_iops",
                    volumeLabels(a, t, Cell(rows[i], "volume_id"),
                                 rowAppliance(t, rows[i])),
                    csvFloat(rows[i], <<"avg_read_iops", "read_iops">>))]
           keys == [i \in DOMAIN rows |-> Cell(rows[i], "volume_id")]
<1>1. deriveBulkVolumePerf(a, t, rows) = FlattenSeq(parts)
  BY DEF deriveBulkVolumePerf, Each
<1>2. "powerstore_volume_read_iops" \in names
  OBVIOUS
<1> HIDE DEF names
<1>3. \A i \in DOMAIN rows :
         LET labels == volumeLabels(a, t, Cell(rows[i], "volume_id"),
                                    rowAppliance(t, rows[i]))
         IN  /\ Labelled(a, "powerstore_volume_read_iops", labels)
             /\ labels["volume_id"] = keys[i]
  BY VolumeLabels
<1>4. \A i \in DOMAIN rows : SoundOf(a, once, names, "volume_id", keys[i], parts[i])
  BY <1>2, <1>3, SoundOne
<1>5. /\ parts = [i \in DOMAIN rows |-> parts[i]]
      /\ DOMAIN keys = DOMAIN rows
      /\ once => IsInjective(keys)
  BY DEF Once
<1> HIDE DEF parts, keys
<1>6. KeyedParts(a, once, names, rows, parts, "volume_id", keys)
  BY <1>4, <1>5 DEF KeyedParts
<1> QED
  BY <1>1, <1>6, SoundKeyed DEF names

LEMMA BulkApplianceSound ==
    ASSUME NEW a, NEW once, NEW t, NEW rows, IsList(rows),
           once => IsInjective([i \in DOMAIN rows |-> Cell(rows[i], "appliance_id")])
    PROVE  Sound(a, once, {"powerstore_appliance_read_iops"},
                 deriveBulkAppliancePerf(a, t, rows))
<1> DEFINE names == {"powerstore_appliance_read_iops"}
           parts == [i \in DOMAIN rows |->
             Sample("powerstore_appliance_read_iops",
                    applianceLabels(a, t, Cell(rows[i], "appliance_id")),
                    csvFloat(rows[i], <<"avg_read_iops", "read_iops">>))]
           keys == [i \in DOMAIN rows |-> Cell(rows[i], "appliance_id")]
<1>1. deriveBulkAppliancePerf(a, t, rows) = FlattenSeq(parts)
  BY DEF deriveBulkAppliancePerf, Each
<1>2. "powerstore_appliance_read_iops" \in names
  OBVIOUS
<1> HIDE DEF names
<1>3. \A i \in DOMAIN rows :
         LET labels == applianceLabels(a, t, Cell(rows[i], "appliance_id"))
         IN  /\ Labelled(a, "powerstore_appliance_read_iops", labels)
             /\ labels["appliance_id"] = keys[i]
  BY ApplianceLabels
<1>4. \A i \in DOMAIN rows : SoundOf(a, once, names, "appliance_id", keys[i], parts[i])
  BY <1>2, <1>3, SoundOne
<1>5. /\ parts = [i \in DOMAIN rows |-> parts[i]]
      /\ DOMAIN keys = DOMAIN rows
      /\ once => IsInjective(keys)
  BY DEF Once
<1> HIDE DEF parts, keys
<1>6. KeyedParts(a, once, names, rows, parts, "appliance_id", keys)
  BY <1>4, <1>5 DEF KeyedParts
<1> QED
  BY <1>1, <1>6, SoundKeyed DEF names

LEMMA BulkSpaceSound ==
    ASSUME NEW a, NEW once, NEW t, NEW rows, IsList(rows),
           once => IsInjective([i \in DOMAIN rows |-> Cell(rows[i], "appliance_id")])
    PROVE  Sound(a, once, {"powerstore_appliance_physical_total_bytes"},
                 deriveBulkApplianceSpace(a, t, rows))
<1> DEFINE names == {"powerstore_appliance_physical_total_bytes"}
           parts == [i \in DOMAIN rows |->
             Sample("powerstore_appliance_physical_total_bytes",
                    applianceLabels(a, t, Cell(rows[i], "appliance_id")),
                    csvFloat(rows[i], <<"physical_total", "last_physical_total">>))]
           keys == [i \in DOMAIN rows |-> Cell(rows[i], "appliance_id")]
<1>1. deriveBulkApplianceSpace(a, t, rows) = FlattenSeq(parts)
  BY DEF deriveBulkApplianceSpace, Each
<1>2. "powerstore_appliance_physical_total_bytes" \in names
  OBVIOUS
<1> HIDE DEF names
<1>3. \A i \in DOMAIN rows :
         LET labels == applianceLabels(a, t, Cell(rows[i], "appliance_id"))
         IN  /\ Labelled(a, "powerstore_appliance_physical_total_bytes", labels)
             /\ labels["appliance_id"] = keys[i]
  BY ApplianceLabels
<1>4. \A i \in DOMAIN rows : SoundOf(a, once, names, "appliance_id", keys[i], parts[i])
  BY <1>2, <1>3, SoundOne
<1>5. /\ parts = [i \in DOMAIN rows |-> parts[i]]
      /\ DOMAIN keys = DOMAIN rows
      /\ once => IsInjective(keys)
  BY DEF Once
<1> HIDE DEF parts, keys
<1>6. KeyedParts(a, once, names, rows, parts, "appliance_id", keys)
  BY <1>4, <1>5 DEF KeyedParts
<1> QED
  BY <1>1, <1>6, SoundKeyed DEF names

LEMMA VolumePerfSound ==
    ASSUME NEW a, NEW once, NEW t, NEW id, NEW resp, IsList(resp),
           Ids(resp) \subseteq {id}
    PROVE  SoundOf(a, once, {"powerstore_volume_read_iops"}, "volume_id", id,
                   deriveVolumePerf(a, t, resp))
<1> DEFINE ids == SetToSeq(Ids(resp))
           names == {"powerstore_volume_read_iops"}
           parts == [i \in DOMAIN ids |->
             Sample("powerstore_volume_read_iops",
                    volumeLabels(a, t, ids[i], VolumeApplianceID(t, ids[i])),
                    latestByID(resp)[ids[i]].value)]
<1>1. IsList(ids) /\ IsInjective(ids) /\ \A i \in DOMAIN ids : ids[i] = id
  <2>1. IsList(ids) /\ IsInjective(ids) /\ ToSet(ids) = Ids(resp)
    BY IdsFinite, SetList
  <2> QED
    BY <2>1, ListDomain
<1>2. deriveVolumePerf(a, t, resp) = FlattenSeq(parts)
  BY DEF deriveVolumePerf, Each
<1>3. "powerstore_volume_read_iops" \in names
  OBVIOUS
<1> HIDE DEF ids, names
<1>4. \A i \in DOMAIN ids :
         LET labels == volumeLabels(a, t, ids[i], VolumeApplianceID(t, ids[i]))
         IN  /\ Labelled(a, "powerstore_volume_read_iops", labels)
             /\ labels["volume_id"] = ids[i]
  BY VolumeLabels
<1>5. \A i \in DOMAIN ids : SoundOf(a, once, names, "volume_id", ids[i], parts[i])
  BY <1>3, <1>4, SoundOne
<1>6. parts = [i \in DOMAIN ids |-> parts[i]]
  OBVIOUS
<1> HIDE DEF parts
<1>7. KeyedParts(a, once, names, ids, parts, "volume_id", ids)
  BY <1>1, <1>5, <1>6 DEF KeyedParts
<1>8. /\ Sound(a, once, names, FlattenSeq(parts))
      /\ \A s \in ToSet(FlattenSeq(parts)) :
            \E i \in DOMAIN ids : s.labels["volume_id"] = ids[i]
  BY <1>7, SoundKeyed
<1> QED
  BY <1>1, <1>2, <1>8 DEF SoundOf, names

LEMMA AppliancePerfSound ==
    ASSUME NEW a, NEW once, NEW t, NEW id, NEW resp, IsList(resp),
           Ids(resp) \subseteq {id}
    PROVE  SoundOf(a, once, {"powerstore_appliance_read_iops"}, "appliance_id", id,
                   deriveAppliancePerf(a, t, resp))
<1> DEFINE ids == SetToSeq(Ids(resp))
           names == {"powerstore_appliance_read_iops"}
           parts == [i \in DOMAIN ids |->
             Sample("powerstore_appliance_read_iops",
                    applianceLabels(a, t, ids[i]),
                    latestByID(resp)[ids[i]].value)]
<1>1. IsList(ids) /\ IsInjective(ids) /\ \A i \in DOMAIN ids : ids[i] = id
  <2>1. IsList(ids) /\ IsInjective(ids) /\ ToSet(ids) = Ids(resp)
    BY IdsFinite, SetList
  <2> QED
    BY <2>1, ListDomain
<1>2. deriveAppliancePerf(a, t, resp) = FlattenSeq(parts)
  BY DEF deriveAppliancePerf, Each
<1>3. "powerstore_appliance_read_iops" \in names
  OBVIOUS
<1> HIDE DEF ids, names
<1>4. \A i \in DOMAIN ids :
         LET labels == applianceLabels(a, t, ids[i])
         IN  /\ Labelled(a, "powerstore_appliance_read_iops", labels)
             /\ labels["appliance_id"] = ids[i]
  BY ApplianceLabels
<1>5. \A i \in DOMAIN ids : SoundOf(a, once, names, "appliance_id", ids[i], parts[i])
  BY <1>3, <1>4, SoundOne
<1>6. parts = [i \in DOMAIN ids |-> parts[i]]
  OBVIOUS
<1> HIDE DEF parts
<1>7. KeyedParts(a, once, names, ids, parts, "appliance_id", ids)
  BY <1>1, <1>5, <1>6 DEF KeyedParts
<1>8. /\ Sound(a, once, names, FlattenSeq(parts))
      /\ \A s \in ToSet(FlattenSeq(parts)) :
            \E i \in DOMAIN ids : s.labels["appliance_id"] = ids[i]
  BY <1>7, SoundKeyed
<1> QED
  BY <1>1, <1>2, <1>8 DEF SoundOf, names

LEMMA ApplianceSpaceSound ==
    ASSUME NEW a, NEW once, NEW t, NEW id, NEW resp, IsList(resp),
           Ids(resp) \subseteq {id}
    PROVE  SoundOf(a, once, {"powerstore_appliance_physical_total_bytes"}, "appliance_id", id,
                   deriveApplianceSpace(a, t, resp))
<1> DEFINE ids == SetToSeq(Ids(resp))
           names == {"powerstore_appliance_physical_total_bytes"}
           parts == [i \in DOMAIN ids |->
             Sample("powerstore_appliance_physical_total_bytes",
                    applianceLabels(a, t, ids[i]),
                    deref(latestByID(resp)[ids[i]].value))]
<1>1. IsList(ids) /\ IsInjective(ids) /\ \A i \in DOMAIN ids : ids[i] = id
  <2>1. IsList(ids) /\ IsInjective(ids) /\ ToSet(ids) = Ids(resp)
    BY IdsFinite, SetList
  <2> QED
    BY <2>1, ListDomain
<1>2. deriveApplianceSpace(a, t, resp) = FlattenSeq(parts)
  BY DEF deriveApplianceSpace, Each
<1>3. "powerstore_appliance_physical_total_bytes" \in names
  OBVIOUS
<1> HIDE DEF ids, names
<1>4. \A i \in DOMAIN ids :
         LET labels == applianceLabels(a, t, ids[i])
         IN  /\ Labelled(a, "powerstore_appliance_physical_total_bytes", labels)
             /\ labels["appliance_id"] = ids[i]
  BY ApplianceLabels
<1>5. \A i \in DOMAIN ids : SoundOf(a, once, names, "appliance_id", ids[i], parts[i])
  BY <1>3, <1>4, SoundOne
<1>6. parts = [i \in DOMAIN ids |-> parts[i]]
  OBVIOUS
<1> HIDE DEF parts
<1>7. KeyedParts(a, once, names, ids, parts, "appliance_id", ids)
  BY <1>1, <1>5, <1>6 DEF KeyedParts
<1>8. /\ Sound(a, once, names, FlattenSeq(parts))
      /\ \A s \in ToSet(FlattenSeq(parts)) :
            \E i \in DOMAIN ids : s.labels["appliance_id"] = ids[i]
  BY <1>7, SoundKeyed
<1> QED
  BY <1>1, <1>2, <1>8 DEF SoundOf, names

LEMMA CapacitySound ==
    ASSUME NEW a, NEW once, NEW t, IsList(t.fs),
           once => Once(t.fs)
    PROVE  Sound(a, once, {"powerstore_file_system_size_total_bytes"},
                 deriveFileSystemCapacity(a, t))
<1> DEFINE names == {"powerstore_file_system_size_total_bytes"}
           parts == [i \in DOMAIN t.fs |->
             IF ~chartableFileSystem(t.fs[i]) THEN <<>>
             ELSE Sample("powerstore_file_system_size_total_bytes",
                         fileSystemLabels(a, t, t.fs[i].name, t.fs[i]),
                         t.fs[i].total)]
           keys == [i \in DOMAIN t.fs |-> t.fs[i].id]
<1>1. deriveFileSystemCapacity(a, t) = FlattenSeq(parts)
  BY DEF deriveFileSystemCapacity, Each
<1>2. "powerstore_file_system_size_total_bytes" \in names
  OBVIOUS
<1> HIDE DEF names
<1>3. \A i \in DOMAIN t.fs :
         LET labels == fileSystemLabels(a, t, t.fs[i].name, t.fs[i])
         IN  /\ Labelled(a, "powerstore_file_system_size_total_bytes", labels)
             /\ labels["file_system_id"] = keys[i]
  BY FileSystemLabels
<1>4. \A i \in DOMAIN t.fs : SoundOf(a, once, names, "file_system_id", keys[i], parts[i])
  BY <1>2, <1>3, SoundOne, SoundNone
<1>5. /\ parts = [i \in DOMAIN t.fs |-> parts[i]]
      /\ DOMAIN keys = DOMAIN t.fs
      /\ once => IsInjective(keys)
  BY DEF Once
<1> HIDE DEF parts, keys
<1>6. KeyedParts(a, once, names, t.fs, parts, "file_system_id", keys)
  BY <1>4, <1>5 DEF KeyedParts
<1> QED
  BY <1>1, <1>6, SoundKeyed DEF names

LEMMA PortsSound ==
    ASSUME NEW a, NEW once, NEW t, IsList(t.eth), IsList(t.fc),
           once => Once(t.eth) /\ Once(t.fc)
    PROVE  Sound(a, once, {"powerstore_port_link_up"}, derivePortLinkStatus(a, t))
<1> DEFINE names == {"powerstore_port_link_up"}
           Link(kind, p) == Sample("powerstore_port_link_up",
                                   portLabels(a, t, p, kind), b2f(p.up))
           Links(kind, ports) == [i \in DOMAIN ports |-> Link(kind, ports[i])]
<1>1. derivePortLinkStatus(a, t) =
        FlattenSeq(Links("eth", t.eth)) \o FlattenSeq(Links("fc", t.fc))
  BY DEF derivePortLinkStatus, Each
<1>2. "powerstore_port_link_up" \in names
  OBVIOUS
<1> HIDE DEF names
<1>3. ASSUME NEW kind, NEW p
      PROVE  /\ SoundOf(a, once, names, "port_id", p.id, Link(kind, p))
             /\ SoundOf(a, once, names, "port_type", kind, Link(kind, p))
  <2> DEFINE labels == portLabels(a, t, p, kind)
  <2>1. /\ Labelled(a, "powerstore_port_link_up", labels)
        /\ labels["port_id"] = p.id /\ labels["port_type"] = kind
    BY PortLabels
  <2> HIDE DEF labels
  <2> QED
    BY <1>2, <2>1, SoundOne DEF labels
<1> HIDE DEF Link
<1>4. ASSUME NEW kind, NEW ports, IsList(ports), once => Once(ports)
      PROVE  SoundOf(a, once, names, "port_type", kind,
                     FlattenSeq(Links(kind, ports)))
  <2> DEFINE parts == Links(kind, ports)
             keys == [i \in DOMAIN ports |-> ports[i].id]
  <2>1. /\ parts = [i \in DOMAIN ports |-> parts[i]] /\ DOMAIN keys = DOMAIN ports
        /\ \A i \in DOMAIN ports :
             /\ SoundOf(a, once, names, "port_id", keys[i], parts[i])
             /\ SoundOf(a, once, names, "port_type", kind, parts[i])
        /\ once => IsInjective(keys)
    BY <1>3, <1>4 DEF Once
  <2> HIDE DEF parts, keys
  <2>2. Sound(a, once, names, FlattenSeq(parts))
    <3>1. KeyedParts(a, once, names, ports, parts, "port_id", keys)
      BY <1>4, <2>1 DEF KeyedParts
    <3> QED
      BY <3>1, SoundKeyed
  <2>3. \A s \in ToSet(FlattenSeq(parts)) : s.labels["port_type"] = kind
    <3>1. DOMAIN ports = 1..Len(ports) /\ Len(ports) \in Nat
      BY <1>4, ListDomain
    <3>2. IsList(parts) /\ DOMAIN parts = DOMAIN ports
      BY <2>1, <3>1, ListFunction
    <3>3. ToSet(FlattenSeq(parts)) = UNION {ToSet(parts[i]) : i \in DOMAIN parts}
      BY <2>1, <3>2, ListFlatten DEF SoundOf, Sound
    <3> QED
      BY <2>1, <3>2, <3>3 DEF SoundOf
  <2> QED
    BY <2>2, <2>3 DEF SoundOf, parts
<1> DEFINE eth == FlattenSeq(Links("eth", t.eth))
           fc == FlattenSeq(Links("fc", t.fc))
<1>5. /\ SoundOf(a, once, names, "port_type", "eth", eth)
      /\ SoundOf(a, once, names, "port_type", "fc", fc)
  BY <1>4
<1> HIDE DEF eth, fc
<1>6. \A x \in ToSet(eth), y \in ToSet(fc) : Series(x) # Series(y)
  BY <1>5 DEF SoundOf, Series
<1>7. once => Distinct(eth \o fc)
  BY <1>5, <1>6, DistinctConcat DEF SoundOf, Sound
<1>8. IsList(eth \o fc) /\ ToSet(eth \o fc) = ToSet(eth) \cup ToSet(fc)
  BY <1>5, ListConcat DEF SoundOf, Sound
<1>9. Sound(a, once, names, eth \o fc)
  BY <1>5, <1>7, <1>8 DEF SoundOf, Sound
<1> QED
  BY <1>1, <1>9 DEF eth, fc, names

LEMMA SeveritiesList ==
    ASSUME NEW t, IsList(t.alerts)
    PROVE  IsList(Severities(t)) /\ IsInjective(Severities(t))
           /\ ToSet(Severities(t)) = ToSet(knownAlertSeverities) \cup
                {t.alerts[i].severity : i \in {i \in DOMAIN t.alerts :
                                                 IsActive(t.alerts[i])}}
<1> DEFINE active == {i \in DOMAIN t.alerts : IsActive(t.alerts[i])}
           seen == {t.alerts[i].severity : i \in active}
           known == knownAlertSeverities
           others == SetToSeq(seen \ ToSet(known))
<1>1. Severities(t) = known \o others
  BY DEF Severities
<1>2. IsFiniteSet(seen)
  <2> DEFINE f == [i \in DOMAIN t.alerts |-> t.alerts[i].severity]
  <2>1. IsFiniteSet({f[i] : i \in DOMAIN t.alerts})
    BY ListDomain, FiniteImage
  <2>2. seen \subseteq {f[i] : i \in DOMAIN t.alerts}
    OBVIOUS
  <2> QED
    BY <2>1, <2>2, FS_Subset
<1> HIDE DEF seen
<1>3. IsFiniteSet(seen \ ToSet(known))
  BY <1>2, FS_Subset
<1>4. /\ IsList(others) /\ IsInjective(others)
      /\ ToSet(others) = seen \ ToSet(known)
  BY <1>3, SetList
<1> HIDE DEF others
<1>5. IsList(known) /\ IsInjective(known)
  BY DEF knownAlertSeverities, IsInjective, IsList, ToSet
<1> HIDE DEF known
<1>6. /\ IsList(known \o others)
      /\ ToSet(known \o others) = ToSet(known) \cup seen
  BY <1>4, <1>5, ListConcat
<1>7. IsInjective(known \o others)
  BY <1>4, <1>5, InjectiveConcat
<1> QED
  BY <1>1, <1>6, <1>7 DEF seen, known

LEMMA AlertsSound ==
    ASSUME NEW a, NEW once, NEW t, IsList(t.alerts)
    PROVE  Sound(a, once, {"powerstore_alert_active"}, deriveAlerts(a, t))
<1> DEFINE sev == Severities(t)
           parts == [i \in DOMAIN sev |->
             Sample("powerstore_alert_active", alertLabels(a, t, sev[i]),
                    Cardinality({j \in DOMAIN t.alerts :
                                   IsActive(t.alerts[j])
                                   /\ t.alerts[j].severity = sev[i]}))]
<1>1. deriveAlerts(a, t) = FlattenSeq(parts)
  BY DEF deriveAlerts, Each
<1>2. IsList(sev) /\ IsInjective(sev)
  BY SeveritiesList
<1> HIDE DEF sev
<1> DEFINE names == {"powerstore_alert_active"}
<1>3. "powerstore_alert_active" \in names
  OBVIOUS
<1> HIDE DEF names
<1>4. \A i \in DOMAIN sev :
         LET labels == alertLabels(a, t, sev[i])
         IN  /\ Labelled(a, "powerstore_alert_active", labels)
             /\ labels["severity"] = sev[i]
  BY AlertLabels
<1>5. \A i \in DOMAIN sev :
         SoundOf(a, once, names, "severity", sev[i], parts[i])
  BY <1>3, <1>4, SoundOne
<1>6. parts = [i \in DOMAIN sev |-> parts[i]]
  OBVIOUS
<1> HIDE DEF parts
<1>7. KeyedParts(a, once, names, sev, parts, "severity", sev)
  BY <1>2, <1>5, <1>6 DEF KeyedParts
<1> QED
  BY <1>1, <1>7, SoundKeyed DEF names

LEMMA RulesSound ==
    ASSUME NEW a, NEW once, NEW t, NEW rules, IsList(rules),
           once => Once(rules)
    PROVE  Sound(a, once, {"powerstore_replication_rpo_seconds"},
                 deriveReplicationRules(a, t, rules))
<1> DEFINE names == {"powerstore_replication_rpo_seconds"}
           parts == [i \in DOMAIN rules |->
             IF rules[i].rpo \notin DOMAIN rpoSeconds THEN <<>>
             ELSE Sample("powerstore_replication_rpo_seconds",
                         replicationRuleLabels(a, t, rules[i]),
                         rpoSeconds[rules[i].rpo])]
           keys == [i \in DOMAIN rules |-> rules[i].id]
<1>1. deriveReplicationRules(a, t, rules) = FlattenSeq(parts)
  BY DEF deriveReplicationRules, Each
<1>2. "powerstore_replication_rpo_seconds" \in names
  OBVIOUS
<1> HIDE DEF names
<1>3. \A i \in DOMAIN rules :
         LET labels == replicationRuleLabels(a, t, rules[i])
         IN  /\ Labelled(a, "powerstore_replication_rpo_seconds", labels)
             /\ labels["rule_id"] = keys[i]
  BY RuleLabels
<1>4. \A i \in DOMAIN rules : SoundOf(a, once, names, "rule_id", keys[i], parts[i])
  BY <1>2, <1>3, SoundOne, SoundNone
<1>5. /\ parts = [i \in DOMAIN rules |-> parts[i]]
      /\ DOMAIN keys = DOMAIN rules
      /\ once => IsInjective(keys)
  BY DEF Once
<1> HIDE DEF parts, keys
<1>6. KeyedParts(a, once, names, rules, parts, "rule_id", keys)
  BY <1>4, <1>5 DEF KeyedParts
<1> QED
  BY <1>1, <1>6, SoundKeyed DEF names

LEMMA SessionsSound ==
    ASSUME NEW a, NEW once, NEW t, NEW sessions, IsList(sessions),
           once => Once(sessions)
    PROVE  Sound(a, once, {"powerstore_replication_session_state"},
                 deriveReplicationSessions(a, t, sessions))
<1> DEFINE names == {"powerstore_replication_session_state"}
           parts == [i \in DOMAIN sessions |->
             IF sessions[i].id = "" THEN <<>>
             ELSE Sample("powerstore_replication_session_state",
                         replicationSessionLabels(a, t, sessions[i]), 1)]
           keys == [i \in DOMAIN sessions |-> sessions[i].id]
<1>1. deriveReplicationSessions(a, t, sessions) = FlattenSeq(parts)
  BY DEF deriveReplicationSessions, Each
<1>2. "powerstore_replication_session_state" \in names
  OBVIOUS
<1> HIDE DEF names
<1>3. \A i \in DOMAIN sessions :
         LET labels == replicationSessionLabels(a, t, sessions[i])
         IN  /\ Labelled(a, "powerstore_replication_session_state", labels)
             /\ labels["session_id"] = keys[i]
  BY SessionLabels
<1>4. \A i \in DOMAIN sessions : SoundOf(a, once, names, "session_id", keys[i], parts[i])
  BY <1>2, <1>3, SoundOne, SoundNone
<1>5. /\ parts = [i \in DOMAIN sessions |-> parts[i]]
      /\ DOMAIN keys = DOMAIN sessions
      /\ once => IsInjective(keys)
  BY DEF Once
<1> HIDE DEF parts, keys
<1>6. KeyedParts(a, once, names, sessions, parts, "session_id", keys)
  BY <1>4, <1>5 DEF KeyedParts
<1> QED
  BY <1>1, <1>6, SoundKeyed DEF names

LEMMA DrivesSound ==
    ASSUME NEW a, NEW once, NEW t, NEW drives, IsList(drives),
           once => Once(drives)
    PROVE  Sound(a, once,
                 {"powerstore_drive_state", "powerstore_drive_wear_level_ratio"},
                 deriveDrives(a, t, drives))
<1> DEFINE states == {"powerstore_drive_state"}
           wears == {"powerstore_drive_wear_level_ratio"}
           names == states \cup wears
           State(d) == IF d.state = "" THEN <<>>
                       ELSE Sample("powerstore_drive_state",
                                   driveStateLabels(a, t, d), 1)
           Wear(d) == IF d.wear = Null THEN <<>>
                      ELSE Sample("powerstore_drive_wear_level_ratio",
                                  driveLabels(a, t, d), d.wear)
           parts == [i \in DOMAIN drives |->
             IF drives[i].id = "" THEN <<>>
             ELSE State(drives[i]) \o Wear(drives[i])]
           keys == [i \in DOMAIN drives |-> drives[i].id]
<1>1. deriveDrives(a, t, drives) = FlattenSeq(parts)
  BY DEF deriveDrives, Each
<1>2. /\ "powerstore_drive_state" \in states
      /\ "powerstore_drive_wear_level_ratio" \in wears
      /\ states \cap wears = {}
      /\ names = {"powerstore_drive_state", "powerstore_drive_wear_level_ratio"}
  OBVIOUS
<1> HIDE DEF states, wears
<1>3. ASSUME NEW d PROVE SoundOf(a, once, states, "drive_id", d.id, State(d))
  <2> DEFINE labels == driveStateLabels(a, t, d)
  <2>1. Labelled(a, "powerstore_drive_state", labels) /\ labels["drive_id"] = d.id
    BY DriveStateLabels
  <2> HIDE DEF labels
  <2> QED
    BY <1>2, <2>1, SoundOne, SoundNone DEF labels
<1>4. ASSUME NEW d PROVE SoundOf(a, once, wears, "drive_id", d.id, Wear(d))
  <2> DEFINE labels == driveLabels(a, t, d)
  <2>1. /\ Labelled(a, "powerstore_drive_wear_level_ratio", labels)
        /\ labels["drive_id"] = d.id
    BY DriveLabels
  <2> HIDE DEF labels
  <2> QED
    BY <1>2, <2>1, SoundOne, SoundNone DEF labels
<1> HIDE DEF State, Wear
<1>5. \A d : SoundOf(a, once, names, "drive_id", d.id, State(d) \o Wear(d))
  BY <1>2, <1>3, <1>4, SoundOfConcat
<1>6. \A i \in DOMAIN drives :
         SoundOf(a, once, names, "drive_id", keys[i], parts[i])
  BY <1>5, SoundNone
<1>7. /\ parts = [i \in DOMAIN drives |-> parts[i]]
      /\ DOMAIN keys = DOMAIN drives
      /\ once => IsInjective(keys)
  BY DEF Once
<1> HIDE DEF names, parts, keys
<1>8. KeyedParts(a, once, names, drives, parts, "drive_id", keys)
  BY <1>6, <1>7 DEF KeyedParts
<1>9. Sound(a, once, names, FlattenSeq(parts))
  BY <1>8, SoundKeyed
<1> QED
  BY <1>1, <1>2, <1>9

ConnectionKeys(x) ==
    LET conns == x.connections
    IN  [j \in DOMAIN conns |->
            <<conns[j].appliance, conns[j].node, conns[j].state>>]

LEMMA ConnectionSound ==
    ASSUME NEW a, NEW once, NEW t, NEW x, NEW c
    PROVE  LET names == {"powerstore_metro_witness_connection_state"}
               part == IF c.state = "" THEN <<>>
                       ELSE Sample("powerstore_metro_witness_connection_state",
                                   witnessConnectionLabels(a, t, x, c), 1)
           IN  /\ SoundOf(a, once, names, "witness_id", x.id, part)
               /\ SoundOf(a, once, names, "appliance_id", c.appliance, part)
               /\ SoundOf(a, once, names, "node_id", c.node, part)
               /\ SoundOf(a, once, names, "state", c.state, part)
<1> DEFINE labels == witnessConnectionLabels(a, t, x, c)
           names == {"powerstore_metro_witness_connection_state"}
<1>1. /\ Labelled(a, "powerstore_metro_witness_connection_state", labels)
      /\ labels.witness_id = x.id /\ labels.appliance_id = c.appliance
      /\ labels.node_id = c.node /\ labels.state = c.state
  BY ConnectionLabels
<1>2. "powerstore_metro_witness_connection_state" \in names
  OBVIOUS
<1> HIDE DEF labels, names
<1> DEFINE part == Sample("powerstore_metro_witness_connection_state", labels, 1)
<1>3. /\ SoundOf(a, once, names, "witness_id", x.id, part)
      /\ SoundOf(a, once, names, "appliance_id", c.appliance, part)
      /\ SoundOf(a, once, names, "node_id", c.node, part)
      /\ SoundOf(a, once, names, "state", c.state, part)
  BY <1>1, <1>2, SoundOne
<1> HIDE DEF part
<1> QED
  BY <1>3, SoundNone DEF labels, names, part

LEMMA ConnectionsSound ==
    ASSUME NEW a, NEW once, NEW t, NEW x, IsList(x.connections),
           once => IsInjective(ConnectionKeys(x)),
           NEW parts, parts = [i \in DOMAIN x.connections |->
             IF x.connections[i].state = "" THEN <<>>
             ELSE Sample("powerstore_metro_witness_connection_state",
                         witnessConnectionLabels(a, t, x, x.connections[i]), 1)]
    PROVE  SoundOf(a, once, {"powerstore_metro_witness_connection_state"},
                   "witness_id", x.id, FlattenSeq(parts))
<1> DEFINE names == {"powerstore_metro_witness_connection_state"}
           conns == x.connections
<1> HIDE DEF names
<1>2. ASSUME NEW i \in DOMAIN conns
      PROVE  /\ SoundOf(a, once, names, "witness_id", x.id, parts[i])
             /\ SoundOf(a, once, names, "appliance_id", conns[i].appliance, parts[i])
             /\ SoundOf(a, once, names, "node_id", conns[i].node, parts[i])
             /\ SoundOf(a, once, names, "state", conns[i].state, parts[i])
  BY ConnectionSound DEF names
<1>3. IsList(conns) /\ parts = [i \in DOMAIN conns |-> parts[i]]
  OBVIOUS
<1>4. ASSUME once, NEW i \in DOMAIN conns, NEW j \in DOMAIN conns, i # j,
             NEW p \in ToSet(parts[i]), NEW q \in ToSet(parts[j])
      PROVE  Series(p) # Series(q)
  <2>1. ConnectionKeys(x)[i] # ConnectionKeys(x)[j]
    BY <1>4 DEF ConnectionKeys, IsInjective
  <2>2. \/ conns[i].appliance # conns[j].appliance
        \/ conns[i].node # conns[j].node \/ conns[i].state # conns[j].state
    BY <2>1 DEF ConnectionKeys
  <2>3. /\ p.labels["appliance_id"] = conns[i].appliance
        /\ p.labels["node_id"] = conns[i].node
        /\ p.labels["state"] = conns[i].state
        /\ q.labels["appliance_id"] = conns[j].appliance
        /\ q.labels["node_id"] = conns[j].node
        /\ q.labels["state"] = conns[j].state
    BY <1>2, <1>4 DEF SoundOf
  <2>4. p.labels # q.labels
    BY <2>2, <2>3
  <2> QED
    BY <2>4 DEF Series
<1>5. \A i \in DOMAIN conns :
         /\ Sound(a, once, names, parts[i])
         /\ \A s \in ToSet(parts[i]) : s.labels["witness_id"] = x.id
  BY <1>2 DEF SoundOf
<1> HIDE DEF conns
<1>6. /\ Sound(a, once, names, FlattenSeq(parts))
      /\ \A s \in ToSet(FlattenSeq(parts)) :
            \E i \in DOMAIN conns : s \in ToSet(parts[i])
  <2>1. \A i \in DOMAIN conns : Sound(a, once, names, parts[i])
    BY <1>5
  <2>2. once => \A i, j \in DOMAIN conns : i # j =>
                   \A p \in ToSet(parts[i]), q \in ToSet(parts[j]) :
                       Series(p) # Series(q)
    BY <1>4
  <2>3. SoundParts(a, once, names, conns, parts)
    BY <1>3, <2>1, <2>2 DEF SoundParts
  <2> QED
    BY <2>3, SoundEach
<1> QED
  BY <1>5, <1>6 DEF SoundOf, names

LEMMA WitnessSound ==
    ASSUME NEW a, NEW once, NEW t, NEW witnesses, IsList(witnesses),
           \A i \in DOMAIN witnesses : IsList(witnesses[i].connections),
           once => /\ Once(witnesses)
                   /\ \A i \in DOMAIN witnesses :
                         IsInjective(ConnectionKeys(witnesses[i]))
    PROVE  Sound(a, once, {"powerstore_metro_witness_state",
                           "powerstore_metro_witness_connection_state"},
                 deriveWitness(a, t, witnesses))
<1> DEFINE states == {"powerstore_metro_witness_state"}
           links == {"powerstore_metro_witness_connection_state"}
           names == states \cup links
           State(x) ==
             IF x.state = "" THEN <<>>
             ELSE Sample("powerstore_metro_witness_state",
                         witnessStateLabels(a, t, x), 1)
           conns(x) == [i \in DOMAIN x.connections |->
             IF x.connections[i].state = "" THEN <<>>
             ELSE Sample("powerstore_metro_witness_connection_state",
                         witnessConnectionLabels(a, t, x, x.connections[i]), 1)]
           parts == [i \in DOMAIN witnesses |->
             IF witnesses[i].id = "" THEN <<>>
             ELSE State(witnesses[i]) \o FlattenSeq(conns(witnesses[i]))]
           keys == [i \in DOMAIN witnesses |-> witnesses[i].id]
<1>1. deriveWitness(a, t, witnesses) = FlattenSeq(parts)
  BY DEF deriveWitness, Each
<1>2. /\ "powerstore_metro_witness_state" \in states
      /\ states \cap links = {}
      /\ names = {"powerstore_metro_witness_state",
                  "powerstore_metro_witness_connection_state"}
  OBVIOUS
<1>3. \A i \in DOMAIN witnesses :
         SoundOf(a, once, links, "witness_id", witnesses[i].id,
                 FlattenSeq(conns(witnesses[i])))
  BY ConnectionsSound
<1> HIDE DEF states, links, conns
<1>4. ASSUME NEW x PROVE SoundOf(a, once, states, "witness_id", x.id, State(x))
  <2> DEFINE labels == witnessStateLabels(a, t, x)
  <2>1. /\ Labelled(a, "powerstore_metro_witness_state", labels)
        /\ labels["witness_id"] = x.id
    BY WitnessStateLabels
  <2> HIDE DEF labels
  <2> QED
    BY <1>2, <2>1, SoundOne, SoundNone DEF labels
<1> HIDE DEF State
<1>5. \A i \in DOMAIN witnesses :
         SoundOf(a, once, names, "witness_id", witnesses[i].id,
                 State(witnesses[i]) \o FlattenSeq(conns(witnesses[i])))
  BY <1>2, <1>3, <1>4, SoundOfConcat
<1>6. \A i \in DOMAIN witnesses :
         SoundOf(a, once, names, "witness_id", keys[i], parts[i])
  BY <1>5, SoundNone
<1>7. /\ parts = [i \in DOMAIN witnesses |-> parts[i]]
      /\ DOMAIN keys = DOMAIN witnesses
      /\ once => IsInjective(keys)
  BY DEF Once
<1> HIDE DEF names, parts, keys
<1>8. KeyedParts(a, once, names, witnesses, parts, "witness_id", keys)
  BY <1>6, <1>7 DEF KeyedParts
<1>9. Sound(a, once, names, FlattenSeq(parts))
  BY <1>8, SoundKeyed
<1> QED
  BY <1>1, <1>2, <1>9

LEMMA ResourcesList ==
    ASSUME NEW sessions, IsList(sessions)
    PROVE  LET ids == replicatedVolumeResources(sessions)
           IN  IsList(ids) /\ IsInjective(ids)
<1> DEFINE N == Len(sessions)
           keys == [i \in 1..N |-> IF sessions[i].type = "volume"
                                   THEN sessions[i].resource ELSE ""]
           S == ToSet(keys)
           Eqn(seen) == seen =
             [n \in 0..N |->
                IF n = 0 THEN <<>>
                ELSE IF \/ sessions[n].type # "volume"
                        \/ sessions[n].resource \in ToSet(seen[n - 1]) \cup {""}
                THEN seen[n - 1]
                ELSE Append(seen[n - 1], sessions[n].resource)]
           seen == CHOOSE seen : Eqn(seen)
<1>1. N \in Nat
  BY ListDomain
<1>2. replicatedVolumeResources(sessions) = seen[N]
  BY DEF replicatedVolumeResources
<1> HIDE DEF N
<1>3. IsList(keys) /\ Len(keys) = N
  <2>1. keys = [i \in 1..N |-> keys[i]]
    OBVIOUS
  <2> HIDE DEF keys
  <2> QED
    BY <1>1, <2>1, ListFunction
<1>4. keys \in Seq(S)
  BY <1>3 DEF IsList
<1>5. \A f : Eqn(f) <=> FirstSeen(f, keys, {""})
  <2> TAKE f
  <2>1. \A n \in 0..N : n # 0 =>
          keys[n] = IF sessions[n].type = "volume" THEN sessions[n].resource ELSE ""
    <3>1. \A n \in 0..N : n # 0 => n \in 1..N
      BY <1>1
    <3> QED
      BY <3>1
  <2> HIDE DEF keys
  <2>2. \A n \in 0..N : n # 0 =>
          ((\/ sessions[n].type # "volume"
            \/ sessions[n].resource \in ToSet(f[n - 1]) \cup {""})
           <=> keys[n] \in ToSet(f[n - 1]) \cup {""})
    BY <2>1
  <2>3. \A n \in 0..N :
          (IF n = 0 THEN <<>>
           ELSE IF \/ sessions[n].type # "volume"
                   \/ sessions[n].resource \in ToSet(f[n - 1]) \cup {""}
           THEN f[n - 1] ELSE Append(f[n - 1], sessions[n].resource))
          = (IF n = 0 THEN <<>>
             ELSE IF keys[n] \in ToSet(f[n - 1]) \cup {""} THEN f[n - 1]
             ELSE Append(f[n - 1], keys[n]))
    <3> TAKE n \in 0..N
    <3>1. CASE n = 0
      BY <3>1
    <3>2. CASE n # 0 /\ keys[n] \in ToSet(f[n - 1]) \cup {""}
      BY <2>2, <3>2
    <3>3. CASE n # 0 /\ keys[n] \notin ToSet(f[n - 1]) \cup {""}
      <4>1. sessions[n].type = "volume" /\ keys[n] = sessions[n].resource
        BY <2>1, <3>3
      <4> QED
        BY <2>2, <3>3, <4>1
    <3> QED
      BY <3>1, <3>2, <3>3
  <2> QED
    BY <1>3, <2>3 DEF FirstSeen
<1> HIDE DEF keys, Eqn, S
<1>6. FirstSeen(seen, keys, {""})
  BY <1>4, <1>5, FirstSeenExists
<1> HIDE DEF seen
<1>7. seen[N] \in Seq(S \ {""}) /\ IsInjective(seen[N])
  BY <1>3, <1>4, <1>6, FirstSeenDistinct
<1>8. IsList(seen[N])
  BY <1>7, SequenceList
<1> QED
  BY <1>2, <1>7, <1>8

LEMMA TransferSound ==
    ASSUME NEW a, NEW once, NEW t, NEW id, NEW series
    PROVE  SoundOf(a, once,
                   {"powerstore_replication_transfer_rate_bytes_per_second"},
                   "resource_id", id,
                   deriveReplicationTransfer(a, t, id, series))
<1> DEFINE names == {"powerstore_replication_transfer_rate_bytes_per_second"}
           labels == replicationResourceLabels(a, t, id, "volume")
<1>1. /\ Labelled(a, "powerstore_replication_transfer_rate_bytes_per_second",
                  labels)
      /\ labels["resource_id"] = id
  BY ResourceLabels
<1>2. "powerstore_replication_transfer_rate_bytes_per_second" \in names
  OBVIOUS
<1>3. deriveReplicationTransfer(a, t, id, series) =
        IF series = <<>> THEN <<>>
        ELSE Sample("powerstore_replication_transfer_rate_bytes_per_second",
                    labels, Last(series))
  BY DEF deriveReplicationTransfer
<1> HIDE DEF names, labels
<1>4. SoundOf(a, once, names, "resource_id", id,
              deriveReplicationTransfer(a, t, id, series))
  BY <1>1, <1>2, <1>3, SoundOne, SoundNone
<1> QED
  BY <1>4 DEF names

ReplicationNames == {"powerstore_replication_rpo_seconds",
                     "powerstore_replication_session_state",
                     "powerstore_replication_transfer_rate_bytes_per_second"}

LEMMA ReplicationSound ==
    ASSUME NEW a, NEW once, NEW t, NEW w, NEW fails, Answers(w),
           once => Once(w.rules) /\ Once(w.sessions)
    PROVE  Sound(a, once, ReplicationNames, replicationMetrics(a, t, w, fails))
<1> DEFINE sessions == Answer("sessions", fails, w.sessions)
           rules == Answer("rules", fails, w.rules)
           ids == replicatedVolumeResources(sessions)
           parts == [i \in DOMAIN ids |->
             deriveReplicationTransfer(a, t, ids[i],
                 Answer("transfer", fails, w.transfer[ids[i]]))]
           r == {"powerstore_replication_rpo_seconds"}
           s == {"powerstore_replication_session_state"}
           x == {"powerstore_replication_transfer_rate_bytes_per_second"}
<1>1. replicationMetrics(a, t, w, fails) =
        deriveReplicationRules(a, t, rules) \o
        deriveReplicationSessions(a, t, sessions) \o FlattenSeq(parts)
  BY DEF replicationMetrics, Each
<1>2. /\ IsList(sessions) /\ IsList(rules)
      /\ once => Once(sessions) /\ Once(rules)
  <2>1. IsList(w.sessions) /\ IsList(w.rules)
    BY DEF Answers
  <2>2. /\ sessions \in {<<>>, w.sessions} /\ IsList(sessions)
        /\ rules \in {<<>>, w.rules} /\ IsList(rules)
    BY <2>1, AnswerList
  <2> HIDE DEF sessions, rules
  <2> QED
    BY <2>2, OnceAnswer
<1> HIDE DEF sessions, rules
<1>3. IsList(ids) /\ IsInjective(ids)
  BY <1>2, ResourcesList
<1> HIDE DEF ids
<1>4. \A i \in DOMAIN ids : SoundOf(a, once, x, "resource_id", ids[i], parts[i])
  BY TransferSound
<1>5. parts = [i \in DOMAIN ids |-> parts[i]]
  OBVIOUS
<1>6. /\ Sound(a, once, r, deriveReplicationRules(a, t, rules))
      /\ Sound(a, once, s, deriveReplicationSessions(a, t, sessions))
  BY <1>2, RulesSound, SessionsSound
<1>7. r \cap s = {} /\ (r \cup s) \cap x = {} /\ r \cup s \cup x = ReplicationNames
  BY DEF ReplicationNames
<1> HIDE DEF parts, r, s, x
<1>8. KeyedParts(a, once, x, ids, parts, "resource_id", ids)
  BY <1>3, <1>4, <1>5 DEF KeyedParts
<1>9. Sound(a, once, x, FlattenSeq(parts))
  BY <1>8, SoundKeyed
<1> DEFINE first == deriveReplicationRules(a, t, rules) \o
                    deriveReplicationSessions(a, t, sessions)
<1>10. Sound(a, once, r \cup s, first)
  BY <1>6, <1>7, SoundConcat
<1> HIDE DEF first
<1>11. Sound(a, once, r \cup s \cup x, first \o FlattenSeq(parts))
  BY <1>7, <1>9, <1>10, SoundConcat
<1> QED
  BY <1>1, <1>7, <1>11 DEF first

LEMMA FileSystemPerfSound ==
    ASSUME NEW a, NEW once, NEW t, NEW w, NEW fails, IsList(t.fs),
           once => Once(t.fs)
    PROVE  Sound(a, once, {"powerstore_file_system_read_iops"},
             FlattenSeq([i \in DOMAIN t.fs |->
               IF ~chartableFileSystem(t.fs[i]) THEN <<>>
               ELSE deriveFileSystemPerf(a, t, t.fs[i],
                        Answer("fsPerf", fails, w.fsPerf[t.fs[i].id]))]))
<1> DEFINE names == {"powerstore_file_system_read_iops"}
           parts == [i \in DOMAIN t.fs |->
             IF ~chartableFileSystem(t.fs[i]) THEN <<>>
             ELSE deriveFileSystemPerf(a, t, t.fs[i],
                      Answer("fsPerf", fails, w.fsPerf[t.fs[i].id]))]
           keys == [i \in DOMAIN t.fs |-> t.fs[i].id]
<1>1. "powerstore_file_system_read_iops" \in names
  OBVIOUS
<1> HIDE DEF names
<1>2. ASSUME NEW f, NEW resp
      PROVE  SoundOf(a, once, names, "file_system_id", f.id,
                     deriveFileSystemPerf(a, t, f, resp))
  <2> DEFINE labels == fileSystemLabels(a, t, NameOrId(<<f>>, f.id), f)
  <2>1. /\ Labelled(a, "powerstore_file_system_read_iops", labels)
        /\ labels["file_system_id"] = f.id
    BY FileSystemLabels
  <2>2. deriveFileSystemPerf(a, t, f, resp) =
          IF resp = <<>> THEN <<>>
          ELSE Sample("powerstore_file_system_read_iops", labels,
                      preferNonZero(Last(resp).bare, Last(resp).avg))
    BY DEF deriveFileSystemPerf
  <2> HIDE DEF labels
  <2> QED
    BY <1>1, <2>1, <2>2, SoundOne, SoundNone
<1>3. \A i \in DOMAIN t.fs :
         SoundOf(a, once, names, "file_system_id", keys[i], parts[i])
  BY <1>2, SoundNone
<1>4. /\ parts = [i \in DOMAIN t.fs |-> parts[i]]
      /\ DOMAIN keys = DOMAIN t.fs
      /\ once => IsInjective(keys)
  BY DEF Once
<1>5. Sound(a, once, names, FlattenSeq(parts))
  <2> HIDE DEF parts, keys
  <2>1. KeyedParts(a, once, names, t.fs, parts, "file_system_id", keys)
    BY <1>3, <1>4 DEF KeyedParts
  <2> QED
    BY <2>1, SoundKeyed
<1> QED
  BY <1>5 DEF names

LEMMA GroupPerfSound ==
    ASSUME NEW a, NEW once, NEW t, NEW w, NEW fails, IsList(t.groups),
           once => Once(t.groups)
    PROVE  Sound(a, once, {"powerstore_volume_group_read_iops"},
             FlattenSeq([i \in DOMAIN t.groups |->
               deriveVolumeGroupPerf(a, t, t.groups[i],
                   Answer("groupPerf", fails, w.groupPerf[t.groups[i].id]))]))
<1> DEFINE names == {"powerstore_volume_group_read_iops"}
           parts == [i \in DOMAIN t.groups |->
             deriveVolumeGroupPerf(a, t, t.groups[i],
                 Answer("groupPerf", fails, w.groupPerf[t.groups[i].id]))]
           keys == [i \in DOMAIN t.groups |-> t.groups[i].id]
<1>1. "powerstore_volume_group_read_iops" \in names
  OBVIOUS
<1> HIDE DEF names
<1>2. ASSUME NEW g, NEW resp
      PROVE  SoundOf(a, once, names, "volume_group_id", g.id,
                     deriveVolumeGroupPerf(a, t, g, resp))
  <2> DEFINE labels == volumeGroupLabels(a, t, g)
  <2>1. /\ Labelled(a, "powerstore_volume_group_read_iops", labels)
        /\ labels["volume_group_id"] = g.id
    BY GroupLabels
  <2>2. deriveVolumeGroupPerf(a, t, g, resp) =
          IF resp = <<>> THEN <<>>
          ELSE Sample("powerstore_volume_group_read_iops", labels, Last(resp))
    BY DEF deriveVolumeGroupPerf
  <2> HIDE DEF labels
  <2> QED
    BY <1>1, <2>1, <2>2, SoundOne, SoundNone
<1>3. \A i \in DOMAIN t.groups :
         SoundOf(a, once, names, "volume_group_id", keys[i], parts[i])
  BY <1>2
<1>4. /\ parts = [i \in DOMAIN t.groups |-> parts[i]]
      /\ DOMAIN keys = DOMAIN t.groups
      /\ once => IsInjective(keys)
  BY DEF Once
<1>5. Sound(a, once, names, FlattenSeq(parts))
  <2> HIDE DEF parts, keys
  <2>1. KeyedParts(a, once, names, t.groups, parts, "volume_group_id", keys)
    BY <1>3, <1>4 DEF KeyedParts
  <2> QED
    BY <2>1, SoundKeyed
<1> QED
  BY <1>5 DEF names

LEMMA ClusterSound ==
    ASSUME NEW a, NEW once, NEW t, NEW resp
    PROVE  Sound(a, once, {"powerstore_cluster_physical_total_bytes"},
                 deriveClusterSpace(a, t, resp))
<1> DEFINE names == {"powerstore_cluster_physical_total_bytes"}
           labels == baseLabels(a, t)
<1>1. /\ Labelled(a, "powerstore_cluster_physical_total_bytes", labels)
      /\ labels["array"] = a
  BY ClusterLabels DEF baseLabels
<1>2. "powerstore_cluster_physical_total_bytes" \in names
  OBVIOUS
<1>3. deriveClusterSpace(a, t, resp) =
        IF resp = <<>> THEN <<>>
        ELSE Sample("powerstore_cluster_physical_total_bytes", labels,
                    deref(Last(resp)))
  BY DEF deriveClusterSpace
<1> HIDE DEF names, labels
<1>4. SoundOf(a, once, names, "array", a, deriveClusterSpace(a, t, resp))
  BY <1>1, <1>2, <1>3, SoundOne, SoundNone
<1> QED
  BY <1>4 DEF SoundOf, names

\* No list has an item twice.
OnceListed(w) ==
    /\ Once(w.volumes) /\ Once(w.groups) /\ Once(w.fs) /\ Once(w.fc)
    /\ Once(w.eth) /\ Once(w.rules) /\ Once(w.sessions) /\ Once(w.drives)
    /\ Once(w.witnesses)
    /\ \A i \in DOMAIN w.witnesses : IsInjective(ConnectionKeys(w.witnesses[i]))
    /\ LET Keys(rows, column) == [i \in DOMAIN rows |-> Cell(rows[i], column)]
       IN  /\ IsInjective(Keys(w.archive.volumePerf, "volume_id"))
           /\ IsInjective(Keys(w.archive.appliancePerf, "appliance_id"))
           /\ IsInjective(Keys(w.archive.applianceSpace, "appliance_id"))

LEMMA NotListedTwice ==
    ASSUME NEW w, ~ListedTwice(w)
    PROVE  OnceListed(w)
<1>1. /\ Once(w.volumes) /\ Once(w.groups) /\ Once(w.fs) /\ Once(w.fc)
      /\ Once(w.eth) /\ Once(w.rules) /\ Once(w.sessions) /\ Once(w.drives)
      /\ Once(w.witnesses)
  BY DEF ListedTwice, Once
<1>2. \A i \in DOMAIN w.witnesses : IsInjective(ConnectionKeys(w.witnesses[i]))
  BY DEF ListedTwice, ConnectionKeys
<1> DEFINE files == {<<w.archive.volumePerf, "volume_id">>,
                     <<w.archive.appliancePerf, "appliance_id">>,
                     <<w.archive.applianceSpace, "appliance_id">>}
           Keys(rows, column) == [i \in DOMAIN rows |-> Cell(rows[i], column)]
<1>3. \A file \in files : IsInjective(Keys(file[1], file[2]))
  BY DEF ListedTwice
<1>4. /\ IsInjective(Keys(w.archive.volumePerf, "volume_id"))
      /\ IsInjective(Keys(w.archive.appliancePerf, "appliance_id"))
      /\ IsInjective(Keys(w.archive.applianceSpace, "appliance_id"))
  <2> HIDE DEF Keys
  <2> QED
    BY <1>3
<1> QED
  BY <1>1, <1>2, <1>4 DEF OnceListed

CommonNames ==
    {"powerstore_file_system_size_total_bytes", "powerstore_port_link_up",
     "powerstore_alert_active", "powerstore_file_system_read_iops",
     "powerstore_volume_group_read_iops",
     "powerstore_cluster_physical_total_bytes", "powerstore_drive_state",
     "powerstore_drive_wear_level_ratio", "powerstore_metro_witness_state",
     "powerstore_metro_witness_connection_state"} \cup ReplicationNames

\* The samples are those of nine functions; the third derives the alerts.
CommonParts(a, once, t, samples) ==
    \E capacity, ports, replication, fsPerf, groupPerf, cluster, drive, witness :
        /\ samples = capacity \o ports \o deriveAlerts(a, t) \o replication \o
                     fsPerf \o groupPerf \o cluster \o drive \o witness
        /\ Sound(a, once, {"powerstore_file_system_size_total_bytes"}, capacity)
        /\ Sound(a, once, {"powerstore_port_link_up"}, ports)
        /\ Sound(a, once, {"powerstore_alert_active"}, deriveAlerts(a, t))
        /\ Sound(a, once, ReplicationNames, replication)
        /\ Sound(a, once, {"powerstore_file_system_read_iops"}, fsPerf)
        /\ Sound(a, once, {"powerstore_volume_group_read_iops"}, groupPerf)
        /\ Sound(a, once, {"powerstore_cluster_physical_total_bytes"}, cluster)
        /\ Sound(a, once, {"powerstore_drive_state",
                           "powerstore_drive_wear_level_ratio"}, drive)
        /\ Sound(a, once, {"powerstore_metro_witness_state",
                           "powerstore_metro_witness_connection_state"}, witness)

LEMMA CommonPartsSound ==
    ASSUME NEW a, NEW once, NEW t, NEW w, NEW fails, Answers(w), Lists(t, w),
           once => OnceListed(w)
    PROVE  CommonParts(a, once, t, commonMetrics(a, t, w, fails))
<1> DEFINE drives == Answer("drives", fails, w.drives)
           witnesses == Answer("witnesses", fails, w.witnesses)
           space == Answer("clusterSpace", fails, w.clusterSpace)
           capacity == deriveFileSystemCapacity(a, t)
           ports == derivePortLinkStatus(a, t)
           alerts == deriveAlerts(a, t)
           replication == replicationMetrics(a, t, w, fails)
           fsPerf == FlattenSeq([i \in DOMAIN t.fs |->
             IF ~chartableFileSystem(t.fs[i]) THEN <<>>
             ELSE deriveFileSystemPerf(a, t, t.fs[i],
                      Answer("fsPerf", fails, w.fsPerf[t.fs[i].id]))])
           groupPerf == FlattenSeq([i \in DOMAIN t.groups |->
             deriveVolumeGroupPerf(a, t, t.groups[i],
                 Answer("groupPerf", fails, w.groupPerf[t.groups[i].id]))])
           cluster == deriveClusterSpace(a, t, space)
           drive == deriveDrives(a, t, drives)
           witness == deriveWitness(a, t, witnesses)
           n1 == {"powerstore_file_system_size_total_bytes"}
           n2 == {"powerstore_port_link_up"}
           n3 == {"powerstore_alert_active"}
           n4 == ReplicationNames
           n5 == {"powerstore_file_system_read_iops"}
           n6 == {"powerstore_volume_group_read_iops"}
           n7 == {"powerstore_cluster_physical_total_bytes"}
           n8 == {"powerstore_drive_state", "powerstore_drive_wear_level_ratio"}
           n9 == {"powerstore_metro_witness_state",
                  "powerstore_metro_witness_connection_state"}
<1>1. commonMetrics(a, t, w, fails) =
        capacity \o ports \o alerts \o replication \o fsPerf \o groupPerf \o
        cluster \o drive \o witness
  BY DEF commonMetrics, Each
<1>4. /\ IsList(t.fs) /\ IsList(t.eth) /\ IsList(t.fc) /\ IsList(t.alerts)
      /\ IsList(t.groups)
      /\ once => /\ Once(t.fs) /\ Once(t.eth) /\ Once(t.fc) /\ Once(t.groups)
                 /\ Once(w.rules) /\ Once(w.sessions)
  <2>1. /\ t.fs \in {<<>>, w.fs} /\ IsList(t.fs)
        /\ t.eth \in {<<>>, w.eth} /\ IsList(t.eth)
        /\ t.fc \in {<<>>, w.fc} /\ IsList(t.fc)
        /\ t.groups \in {<<>>, w.groups} /\ IsList(t.groups)
        /\ IsList(t.alerts)
    BY DEF Lists
  <2>2. once => /\ Once(w.fs) /\ Once(w.eth) /\ Once(w.fc) /\ Once(w.groups)
                /\ Once(w.rules) /\ Once(w.sessions)
    BY DEF OnceListed
  <2> QED
    BY <2>1, <2>2, OnceAnswer
<1>5. /\ Sound(a, once, n1, capacity) /\ Sound(a, once, n2, ports)
      /\ Sound(a, once, n3, alerts)
  BY <1>4, CapacitySound, PortsSound, AlertsSound
<1>6. Sound(a, once, n4, replication)
  BY <1>4, ReplicationSound
<1>7. Sound(a, once, n5, fsPerf)
  BY <1>4, FileSystemPerfSound
<1>8. Sound(a, once, n6, groupPerf)
  BY <1>4, GroupPerfSound
<1>9. Sound(a, once, n7, cluster)
  BY ClusterSound
<1>10. Sound(a, once, n8, drive)
  <2>1. IsList(w.drives) /\ (once => Once(w.drives))
    BY DEF Answers, OnceListed
  <2>2. drives \in {<<>>, w.drives} /\ IsList(drives)
    BY <2>1, AnswerList
  <2> HIDE DEF drives
  <2>3. once => Once(drives)
    BY <2>1, <2>2, OnceAnswer
  <2> QED
    BY <2>2, <2>3, DrivesSound
<1>11. Sound(a, once, n9, witness)
  <2>1. /\ IsList(w.witnesses)
        /\ \A i \in DOMAIN w.witnesses : IsList(w.witnesses[i].connections)
    BY DEF Answers
  <2>2. once => /\ Once(w.witnesses)
                /\ \A i \in DOMAIN w.witnesses :
                      IsInjective(ConnectionKeys(w.witnesses[i]))
    BY DEF OnceListed
  <2>3. witnesses \in {<<>>, w.witnesses} /\ IsList(witnesses)
    BY <2>1, AnswerList
  <2> HIDE DEF witnesses
  <2>4. \A i \in DOMAIN witnesses : IsList(witnesses[i].connections)
    BY <2>1, <2>3
  <2>5. once => Once(witnesses)
    BY <2>2, <2>3, OnceAnswer
  <2>6. once => \A i \in DOMAIN witnesses :
                   IsInjective(ConnectionKeys(witnesses[i]))
    BY <2>2, <2>3
  <2> QED
    BY <2>3, <2>4, <2>5, <2>6, WitnessSound
<1> HIDE DEF capacity, ports, alerts, replication, fsPerf, groupPerf, cluster,
             drive, witness
<1> QED
  <2>1. commonMetrics(a, t, w, fails) =
          capacity \o ports \o deriveAlerts(a, t) \o replication \o fsPerf \o
          groupPerf \o cluster \o drive \o witness
    BY <1>1 DEF alerts
  <2>2. Sound(a, once, {"powerstore_alert_active"}, deriveAlerts(a, t))
    BY <1>5 DEF alerts
  <2> QED
    BY <1>5, <1>6, <1>7, <1>8, <1>9, <1>10, <1>11, <2>1, <2>2, ZenonT(60) DEF CommonParts

LEMMA CommonSound ==
    ASSUME NEW a, NEW once, NEW t, NEW w, NEW fails, Answers(w), Lists(t, w),
           once => OnceListed(w)
    PROVE  Sound(a, once, CommonNames, commonMetrics(a, t, w, fails))
<1> DEFINE alerts == deriveAlerts(a, t)
           n1 == {"powerstore_file_system_size_total_bytes"}
           n2 == {"powerstore_port_link_up"}
           n3 == {"powerstore_alert_active"}
           n4 == ReplicationNames
           n5 == {"powerstore_file_system_read_iops"}
           n6 == {"powerstore_volume_group_read_iops"}
           n7 == {"powerstore_cluster_physical_total_bytes"}
           n8 == {"powerstore_drive_state", "powerstore_drive_wear_level_ratio"}
           n9 == {"powerstore_metro_witness_state",
                  "powerstore_metro_witness_connection_state"}
<1>1. PICK capacity, ports, replication, fsPerf, groupPerf, cluster, drive,
           witness :
        /\ commonMetrics(a, t, w, fails) =
             capacity \o ports \o alerts \o replication \o fsPerf \o groupPerf \o
             cluster \o drive \o witness
        /\ Sound(a, once, n1, capacity) /\ Sound(a, once, n2, ports)
        /\ Sound(a, once, n3, alerts) /\ Sound(a, once, n4, replication)
        /\ Sound(a, once, n5, fsPerf) /\ Sound(a, once, n6, groupPerf)
        /\ Sound(a, once, n7, cluster) /\ Sound(a, once, n8, drive)
        /\ Sound(a, once, n9, witness)
  <2>1. CommonParts(a, once, t, commonMetrics(a, t, w, fails))
    BY CommonPartsSound
  <2> QED
    BY <2>1, ZenonT(60) DEF CommonParts
<1>2. /\ n1 \cap n2 = {} /\ (n1 \cup n2) \cap n3 = {}
      /\ (n1 \cup n2 \cup n3) \cap n4 = {}
      /\ (n1 \cup n2 \cup n3 \cup n4) \cap n5 = {}
      /\ (n1 \cup n2 \cup n3 \cup n4 \cup n5) \cap n6 = {}
      /\ (n1 \cup n2 \cup n3 \cup n4 \cup n5 \cup n6) \cap n7 = {}
      /\ (n1 \cup n2 \cup n3 \cup n4 \cup n5 \cup n6 \cup n7) \cap n8 = {}
      /\ (n1 \cup n2 \cup n3 \cup n4 \cup n5 \cup n6 \cup n7 \cup n8) \cap n9 = {}
  BY DEF ReplicationNames
<1>3. n1 \cup n2 \cup n3 \cup n4 \cup n5 \cup n6 \cup n7 \cup n8 \cup n9
        = CommonNames
  BY DEF CommonNames
<1> HIDE DEF alerts, n1, n2, n3, n4, n5, n6, n7, n8, n9
<1>12. Sound(a, once, n1 \cup n2 \cup n3, capacity \o ports \o alerts)
  BY <1>2, <1>1, SoundConcat
<1>13. Sound(a, once, n1 \cup n2 \cup n3 \cup n4,
             capacity \o ports \o alerts \o replication)
  BY <1>2, <1>1, <1>12, SoundConcat
<1>14. Sound(a, once, n1 \cup n2 \cup n3 \cup n4 \cup n5,
             capacity \o ports \o alerts \o replication \o fsPerf)
  BY <1>2, <1>1, <1>13, SoundConcat
<1>15. Sound(a, once, n1 \cup n2 \cup n3 \cup n4 \cup n5 \cup n6,
             capacity \o ports \o alerts \o replication \o fsPerf \o groupPerf)
  BY <1>2, <1>1, <1>14, SoundConcat
<1>16. Sound(a, once, n1 \cup n2 \cup n3 \cup n4 \cup n5 \cup n6 \cup n7,
             capacity \o ports \o alerts \o replication \o fsPerf \o groupPerf \o
             cluster)
  BY <1>2, <1>1, <1>15, SoundConcat
<1>17. Sound(a, once, n1 \cup n2 \cup n3 \cup n4 \cup n5 \cup n6 \cup n7 \cup n8,
             capacity \o ports \o alerts \o replication \o fsPerf \o groupPerf \o
             cluster \o drive)
  BY <1>2, <1>1, <1>16, SoundConcat
<1>18. Sound(a, once,
             n1 \cup n2 \cup n3 \cup n4 \cup n5 \cup n6 \cup n7 \cup n8 \cup n9,
             capacity \o ports \o alerts \o replication \o fsPerf \o groupPerf \o
             cluster \o drive \o witness)
  BY <1>2, <1>1, <1>17, SoundConcat
<1> QED
  BY <1>1, <1>3, <1>18

MetricNames == DOMAIN LabelNames

EntityNames == {"powerstore_appliance_read_iops",
                "powerstore_appliance_physical_total_bytes",
                "powerstore_volume_read_iops"}

LEMMA PathNames ==
    LET v == {"powerstore_volume_read_iops"}
        p == {"powerstore_appliance_read_iops"}
        s == {"powerstore_appliance_physical_total_bytes"}
    IN  /\ p \cap s = {} /\ (p \cup s) \cap v = {}
        /\ p \cup s \cup v = EntityNames
        /\ EntityNames \cap CommonNames = {}
        /\ EntityNames \cup CommonNames = MetricNames
BY DEF EntityNames, CommonNames, ReplicationNames, MetricNames, LabelNames

\* The samples are those of the appliances and volumes, then the common ones.
PathParts(a, once, samples, common) ==
    \E first : samples = first \o common /\ Sound(a, once, EntityNames, first)

LEMMA BulkParts ==
    ASSUME NEW a, NEW once, NEW t, NEW w, NEW fails, Answers(w), Lists(t, w),
           once => OnceListed(w)
    PROVE  PathParts(a, once, BulkMetrics(a, t, w, fails),
                     commonMetrics(a, t, w, fails))
<1> DEFINE v == {"powerstore_volume_read_iops"}
           p == {"powerstore_appliance_read_iops"}
           s == {"powerstore_appliance_physical_total_bytes"}
           perf == deriveBulkAppliancePerf(a, t, w.archive.appliancePerf)
           space == deriveBulkApplianceSpace(a, t, w.archive.applianceSpace)
           volume == deriveBulkVolumePerf(a, t, w.archive.volumePerf)
           common == commonMetrics(a, t, w, fails)
<1>1. BulkMetrics(a, t, w, fails) = perf \o space \o volume \o common
  BY DEF BulkMetrics
<1>2. /\ IsList(w.archive.appliancePerf) /\ IsList(w.archive.applianceSpace)
      /\ IsList(w.archive.volumePerf)
  BY DEF Answers
<1>3. Sound(a, once, p, perf)
  BY <1>2, BulkApplianceSound DEF OnceListed
<1>4. Sound(a, once, s, space)
  BY <1>2, BulkSpaceSound DEF OnceListed
<1>5. Sound(a, once, v, volume)
  BY <1>2, BulkVolumeSound DEF OnceListed
<1>7. /\ p \cap s = {} /\ (p \cup s) \cap v = {}
      /\ p \cup s \cup v = EntityNames
  BY PathNames
<1> HIDE DEF v, p, s, perf, space, volume, common
<1>8. Sound(a, once, p \cup s \cup v, perf \o space \o volume)
  BY <1>3, <1>4, <1>5, <1>7, SoundConcat
<1> DEFINE first == perf \o space \o volume
<1>9. /\ BulkMetrics(a, t, w, fails) = first \o common
      /\ Sound(a, once, EntityNames, first)
  BY <1>1, <1>7, <1>8
<1> HIDE DEF first
<1> QED
  BY <1>9, Zenon DEF PathParts, common

LEMMA EntityParts ==
    ASSUME NEW a, NEW once, NEW t, NEW w, NEW fails, Answers(w), Lists(t, w),
           once => OnceListed(w)
    PROVE  PathParts(a, once, PerEntityMetrics(a, t, w, fails),
                     commonMetrics(a, t, w, fails))
<1> DEFINE v == {"powerstore_volume_read_iops"}
           p == {"powerstore_appliance_read_iops"}
           s == {"powerstore_appliance_physical_total_bytes"}
           perf(id) == deriveAppliancePerf(a, t,
                           Answer("appliancePerf", fails, w.appliancePerf[id]))
           space(id) == deriveApplianceSpace(a, t,
                            Answer("applianceSpace", fails, w.applianceSpace[id]))
           vol(id) == deriveVolumePerf(a, t,
                          Answer("volumePerf", fails, w.volumePerf[id]))
           apps == [i \in DOMAIN t.appliances |->
                       perf(t.appliances[i].id) \o space(t.appliances[i].id)]
           vols == [i \in DOMAIN t.volumes |-> vol(t.volumes[i].id)]
           common == commonMetrics(a, t, w, fails)
           appKeys == [i \in DOMAIN t.appliances |-> t.appliances[i].id]
           volKeys == [i \in DOMAIN t.volumes |-> t.volumes[i].id]
<1>1. PerEntityMetrics(a, t, w, fails) =
        FlattenSeq(apps) \o FlattenSeq(vols) \o common
  BY DEF PerEntityMetrics, Each
<1>2. /\ IsList(t.appliances) /\ IsList(t.volumes)
      /\ \A i \in DOMAIN t.appliances : t.appliances[i].id \in Ids(w.appliances)
      /\ \A i \in DOMAIN t.volumes : t.volumes[i].id \in Ids(w.volumes)
  <2>1. /\ IsList(t.appliances) /\ ToSet(t.appliances) \subseteq ToSet(w.appliances)
        /\ IsList(t.volumes) /\ t.volumes \in {<<>>, w.volumes}
    BY DEF Lists
  <2>2. \A i \in DOMAIN t.appliances : t.appliances[i] \in ToSet(w.appliances)
    BY <2>1, ListDomain
  <2>3. \A x \in ToSet(w.appliances) : x.id \in Ids(w.appliances)
    BY DEF Ids, ToSet
  <2>4. \A i \in DOMAIN t.volumes : t.volumes[i].id \in Ids(w.volumes)
    BY <2>1 DEF Ids
  <2> QED
    BY <2>1, <2>2, <2>3, <2>4
<1>3. ASSUME NEW id, NEW list, IsList(list), Ids(list) \subseteq {id},
             NEW call
      PROVE  /\ IsList(Answer(call, fails, list))
             /\ Ids(Answer(call, fails, list)) \subseteq {id}
  <2>1. Ids(<<>>) \subseteq {id}
    BY DEF Ids
  <2> QED
    BY <1>3, <2>1, AnswerList
<1>4. ASSUME NEW id \in Ids(w.appliances)
      PROVE  /\ SoundOf(a, once, p, "appliance_id", id, perf(id))
             /\ SoundOf(a, once, s, "appliance_id", id, space(id))
  <2>1. /\ IsList(w.appliancePerf[id]) /\ Ids(w.appliancePerf[id]) \subseteq {id}
        /\ IsList(w.applianceSpace[id]) /\ Ids(w.applianceSpace[id]) \subseteq {id}
    BY DEF Answers
  <2> QED
    BY <1>3, <2>1, AppliancePerfSound, ApplianceSpaceSound
<1>5. ASSUME NEW id \in Ids(w.volumes)
      PROVE  SoundOf(a, once, v, "volume_id", id, vol(id))
  <2>1. IsList(w.volumePerf[id]) /\ Ids(w.volumePerf[id]) \subseteq {id}
    BY DEF Answers
  <2> QED
    BY <1>3, <2>1, VolumePerfSound
<1>7. /\ p \cap s = {} /\ (p \cup s) \cap v = {}
      /\ p \cup s \cup v = EntityNames
  BY PathNames
<1>8. once => IsInjective(appKeys) /\ IsInjective(volKeys)
  <2>1. Once(t.appliances) /\ t.volumes \in {<<>>, w.volumes}
    BY DEF Lists
  <2>2. once => Once(t.volumes)
    BY <2>1, OnceAnswer DEF OnceListed
  <2> QED
    BY <2>1, <2>2 DEF Once
<1> HIDE DEF v, p, s, perf, space, vol, common
<1>9. ASSUME NEW id \in Ids(w.appliances)
      PROVE  SoundOf(a, once, p \cup s, "appliance_id", id, perf(id) \o space(id))
  BY <1>4, <1>7, SoundOfConcat
<1>10. /\ \A i \in DOMAIN t.appliances :
             SoundOf(a, once, p \cup s, "appliance_id", appKeys[i], apps[i])
       /\ \A i \in DOMAIN t.volumes :
             SoundOf(a, once, v, "volume_id", volKeys[i], vols[i])
  BY <1>2, <1>5, <1>9
<1>11. /\ apps = [i \in DOMAIN t.appliances |-> apps[i]]
       /\ vols = [i \in DOMAIN t.volumes |-> vols[i]]
       /\ DOMAIN appKeys = DOMAIN t.appliances
       /\ DOMAIN volKeys = DOMAIN t.volumes
  OBVIOUS
<1> HIDE DEF apps, vols, appKeys, volKeys
<1>12. KeyedParts(a, once, p \cup s, t.appliances, apps, "appliance_id", appKeys)
  BY <1>2, <1>8, <1>10, <1>11 DEF KeyedParts
<1>13. KeyedParts(a, once, v, t.volumes, vols, "volume_id", volKeys)
  BY <1>2, <1>8, <1>10, <1>11 DEF KeyedParts
<1>14. /\ Sound(a, once, p \cup s, FlattenSeq(apps))
       /\ Sound(a, once, v, FlattenSeq(vols))
  BY <1>12, <1>13, SoundKeyed
<1> DEFINE first == FlattenSeq(apps) \o FlattenSeq(vols)
<1>15. Sound(a, once, p \cup s \cup v, first)
  BY <1>7, <1>14, SoundConcat
<1>16. /\ PerEntityMetrics(a, t, w, fails) = first \o common
       /\ Sound(a, once, EntityNames, first)
  BY <1>1, <1>7, <1>15
<1> HIDE DEF first
<1> QED
  BY <1>16, Zenon DEF PathParts, common

LEMMA PathSound ==
    ASSUME NEW a, NEW once, NEW t, NEW w, NEW fails, Answers(w), Lists(t, w),
           once => OnceListed(w)
    PROVE  /\ Sound(a, once, MetricNames, BulkMetrics(a, t, w, fails))
           /\ Sound(a, once, MetricNames, PerEntityMetrics(a, t, w, fails))
<1> DEFINE common == commonMetrics(a, t, w, fails)
<1>1. Sound(a, once, CommonNames, common)
  BY CommonSound
<1> HIDE DEF common
<1>2. ASSUME NEW samples, PathParts(a, once, samples, common)
      PROVE  Sound(a, once, MetricNames, samples)
  <2>1. PICK first : /\ samples = first \o common
                     /\ Sound(a, once, EntityNames, first)
    BY <1>2 DEF PathParts
  <2> QED
    BY <1>1, <2>1, PathNames, SoundConcat
<1>3. /\ PathParts(a, once, BulkMetrics(a, t, w, fails), common)
      /\ PathParts(a, once, PerEntityMetrics(a, t, w, fails), common)
  BY BulkParts, EntityParts DEF common
<1> QED
  BY <1>2, <1>3

\* Whatever an array answers and whatever fails, the samples of a metric have
\* the same label names on both paths, the array's name among them: a sample
\* with other labels would be refused by its desc (prometheus.go:76).  If no
\* list has an item twice, no two samples are of one series.
THEOREM SamplesSound ==
    ASSUME NEW a, NEW w, NEW fails, Answers(w)
    PROVE  LET t == GetTopology(w, fails)
               once == ~ListedTwice(w)
           IN  /\ Sound(a, once, MetricNames, BulkMetrics(a, t, w, fails))
               /\ Sound(a, once, MetricNames, PerEntityMetrics(a, t, w, fails))
BY TopologyLists, NotListedTwice, PathSound
=============================================================================
