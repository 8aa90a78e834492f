-------------------------- MODULE ReplicationProofs -------------------------
(* The enumeration of the replication sessions and the fan-out over their  *)
(* volumes, for every set of sessions, page size and width of the fan-out. *)
EXTENDS Replication, SequenceFacts

-----------------------------------------------------------------------------
(* The operators of the model.                                             *)

LEMMA SessionSets ==
    ASSUME TypeOK
    PROVE  /\ list \in SUBSET Nat /\ IsFiniteSet(list)
           /\ Cardinality(list) \in Nat /\ Cardinality(Id) \in Nat
           /\ Cardinality(list) <= Cardinality(Id)
  BY IdAssumption, FS_Subset, FS_CardinalityType DEF TypeOK

LEMMA OffsetType ==
    ASSUME TypeOK PROVE offset \in Nat
<1>1. PICK k \in 0..Cardinality(Id) : offset = k * PageSize
  BY DEF TypeOK
<1> QED
  BY <1>1, SizeAssumption, IdAssumption, FS_CardinalityType

\* A page holds the sessions of the next ranks, and a short one the last of
\* them (client.go:515).
LEMMA PageHolds ==
    ASSUME TypeOK
    PROVE  /\ Page \in Seq(Id)
           /\ Len(Page) \in 0..PageSize
           /\ ~IsLast(Page) => /\ Len(Page) = PageSize
                               /\ offset + PageSize <= Cardinality(list)
           /\ IsLast(Page) => \A s \in list : Rank(s) < offset + Len(Page)
           /\ \A s \in list :
                Rank(s) >= offset /\ Rank(s) < offset + Len(Page) =>
                  s \in ToSet(Page)
<1> DEFINE C == Cardinality(list)
           L == IF offset + PageSize <= C THEN PageSize
                ELSE IF offset <= C THEN C - offset ELSE 0
<1>1. /\ C \in Nat /\ offset \in Nat /\ PageSize \in Nat /\ PageSize > 0
      /\ list \subseteq Id
  BY SessionSets, OffsetType, SizeAssumption DEF TypeOK
<1>2. /\ \A s \in list : Rank(s) \in 0..(C - 1)
      /\ \A s, u \in list : Rank(s) = Rank(u) => s = u
      /\ \A r \in 0..(C - 1) : \E s \in list : Rank(s) = r
  BY SessionSets, RanksOfSet DEF Rank
<1> HIDE DEF C
<1>3. L \in Nat /\ {n \in 1..PageSize : offset + n <= C} = 1..L
  BY <1>1
<1>4. L <= PageSize /\ (L < PageSize => C <= offset + L)
      /\ (L = PageSize => offset + PageSize <= C)
  BY <1>1
<1> HIDE DEF L
<1>5. Page = [k \in 1..L |-> CHOOSE s \in list : Rank(s) = offset + k - 1]
  BY <1>3 DEF Page, C
<1>6. \A k \in 1..L : /\ Page[k] \in list /\ Rank(Page[k]) = offset + k - 1
  <2> TAKE k \in 1..L
  <2>1. offset + k - 1 \in 0..(C - 1)
    <3>1. k \in {n \in 1..PageSize : offset + n <= C}
      BY <1>3
    <3>2. k \in Nat /\ k >= 1 /\ offset + k <= C
      BY <1>1, <3>1
    <3> QED
      BY <1>1, <3>2
  <2>2. \E s \in list : Rank(s) = offset + k - 1
    BY <1>2, <2>1
  <2> QED
    BY <1>5, <2>2
<1>7. Page \in [1..L -> Id]
  BY <1>1, <1>5, <1>6
<1>8. Page \in Seq(Id)
  BY <1>3, <1>7, SeqDef
<1>9. Len(Page) = L
  BY <1>3, <1>5, <1>8
<1>10. \A s \in list : Rank(s) >= offset /\ Rank(s) < offset + L => s \in ToSet(Page)
  <2> SUFFICES ASSUME NEW s \in list, Rank(s) >= offset, Rank(s) < offset + L
               PROVE  s \in ToSet(Page)
    OBVIOUS
  <2> DEFINE k == Rank(s) - offset + 1
  <2>1. k \in 1..L /\ offset + k - 1 = Rank(s)
    BY <1>1, <1>2, <1>3
  <2> HIDE DEF k
  <2>2. Page[k] = s
    BY <1>2, <1>6, <2>1
  <2> QED
    BY <1>7, <2>1, <2>2 DEF ToSet
<1> QED
  BY <1>1, <1>2, <1>3, <1>4, <1>8, <1>9, <1>10 DEF IsLast, C

\* The items of the fan-out are the volumes of the sessions, once each
\* (derive_replication.go:82).
LEMMA ResourcesOnce ==
    ASSUME NEW sessions \in Seq(Id)
    PROVE  LET ids == replicatedVolumeResources(sessions)
           IN  /\ ids \in Seq(Volume) /\ IsInjective(ids)
               /\ ToSet(ids) = {VolumeOf[s] : s \in ToSet(sessions)} \ {NotVolume}
<1> DEFINE N == Len(sessions)
           All == Volume \cup {NotVolume}
           keys == [i \in 1..N |-> VolumeOf[sessions[i]]]
           Eqn(seen) == seen =
             [n \in 0..N |->
                IF n = 0 THEN <<>>
                ELSE IF VolumeOf[sessions[n]] \in ToSet(seen[n - 1]) \cup {NotVolume}
                THEN seen[n - 1]
                ELSE Append(seen[n - 1], VolumeOf[sessions[n]])]
           seen == CHOOSE seen : Eqn(seen)
<1>1. /\ N \in Nat /\ \A i \in 1..N : sessions[i] \in Id
      /\ DOMAIN sessions = 1..N
  OBVIOUS
<1>2. replicatedVolumeResources(sessions) = seen[N]
  BY DEF replicatedVolumeResources
<1> HIDE DEF N
<1>3. keys \in [1..N -> All]
  BY <1>1, VolumeAssumption
<1>4. keys \in Seq(All) /\ Len(keys) = N
  <2>1. keys \in Seq(All)
    BY <1>1, <1>3, SeqDef
  <2> QED
    BY <1>1, <2>1
<1>5. ToSet(keys) = {VolumeOf[s] : s \in ToSet(sessions)}
  BY <1>1 DEF ToSet
<1>6. \A f : Eqn(f) <=> FirstSeen(f, keys, {NotVolume})
  <2> TAKE f
  <2>1. \A n \in 0..N : n # 0 => keys[n] = VolumeOf[sessions[n]]
    BY <1>1
  <2> HIDE DEF keys
  <2> QED
    BY <1>4, <2>1 DEF FirstSeen
<1> HIDE DEF keys, Eqn
<1>7. FirstSeen(seen, keys, {NotVolume})
  BY <1>4, <1>6, FirstSeenExists
<1> HIDE DEF seen, All
<1>8. /\ seen[N] \in Seq(All \ {NotVolume}) /\ IsInjective(seen[N])
      /\ ToSet(seen[N]) = ToSet(keys) \ {NotVolume}
  BY <1>4, <1>7, FirstSeenDistinct
<1>9. All \ {NotVolume} = Volume
  BY VolumeAssumption DEF All
<1> QED
  BY <1>2, <1>5, <1>8, <1>9

-----------------------------------------------------------------------------
(* Types.                                                                  *)

LEMMA JoinedType ==
    ASSUME TypeOK PROVE FlattenSeq(per) \in Seq(Volume)
<1>1. per \in Seq(Seq(Volume))
  <2>1. volumeIDs \in Seq(Volume) /\ per \in [DOMAIN volumeIDs -> Seq(Volume)]
    BY DEF TypeOK
  <2>2. DOMAIN volumeIDs = 1..Len(volumeIDs) /\ Len(volumeIDs) \in Nat
    BY <2>1
  <2> QED
    BY <2>1, <2>2, SeqDef
<1> QED
  BY <1>1, FlattenPlaces

LEMMA ListedType ==
    ASSUME TypeOK, NEW sessions \in Seq(Id), Listed(sessions),
           UNCHANGED array, offset' = offset, all' \in Seq(Id)
    PROVE  TypeOK'
<1>1. volumeIDs' \in Seq(Volume)
  BY ResourcesOnce DEF Listed
<1>2. samples' \in Samples
  BY DEF Listed, TypeOK, Samples
<1>3. /\ task' \in [DOMAIN volumeIDs' -> {"todo", "running", "done"}]
      /\ per' \in [DOMAIN volumeIDs' -> Seq(Volume)]
  BY DEF Listed
<1> QED
  BY <1>1, <1>2, <1>3 DEF Listed, TypeOK, array

LEMMA NextOffset ==
    ASSUME TypeOK, offset + PageSize <= Cardinality(list)
    PROVE  offset + PageSize \in {k * PageSize : k \in 0..Cardinality(Id)}
<1>1. PICK k \in 0..Cardinality(Id) : offset = k * PageSize
  BY DEF TypeOK
<1>2. k \in Nat /\ PageSize \in Nat /\ PageSize >= 1 /\ Cardinality(Id) \in Nat
  BY SizeAssumption, IdAssumption, FS_CardinalityType
<1>3. k * PageSize + PageSize = (k + 1) * PageSize
  BY <1>2
<1>4. (k + 1) * PageSize <= Cardinality(Id)
  BY <1>1, <1>2, <1>3, SessionSets
<1>5. k + 1 <= (k + 1) * PageSize
  BY <1>2
<1>6. (k + 1) * PageSize \in Nat
  BY <1>2
<1>7. k + 1 \in 0..Cardinality(Id)
  BY <1>2, <1>4, <1>5, <1>6
<1> QED
  BY <1>1, <1>3, <1>7

LEMMA PageAnswersType ==
    ASSUME TypeOK, PageAnswers PROVE TypeOK'
<1>1. all' = all \o Page /\ all' \in Seq(Id) /\ UNCHANGED array
  BY PageHolds, ConcatProperties DEF PageAnswers, TypeOK
<1>2. CASE IsLast(Page)
  <2>1. Listed(all') /\ offset' = offset
    BY <1>2 DEF PageAnswers
  <2> QED
    BY <1>1, <2>1, ListedType
<1>3. CASE ~IsLast(Page)
  <2>1. offset' = offset + PageSize
        /\ UNCHANGED <<pc, volumeIDs, task, per, samples>>
    BY <1>3 DEF PageAnswers
  <2>2. offset' \in {k * PageSize : k \in 0..Cardinality(Id)}
    BY <1>3, <2>1, PageHolds, NextOffset
  <2> QED
    BY <1>1, <2>1, <2>2 DEF TypeOK, array
<1> QED
  BY <1>2, <1>3

LEMMA TypeStep ==
    ASSUME TypeOK, [Next]_vars PROVE TypeOK'
<1>1. ASSUME NEW s \in Id, Create(s) \/ Delete(s) PROVE TypeOK'
  <2>1. list' \subseteq Id /\ stable' \subseteq list' /\ removed' \in BOOLEAN
    BY <1>1 DEF Create, Delete, TypeOK
  <2>2. UNCHANGED <<pc, offset, all, volumeIDs, task, per, samples>>
    BY <1>1 DEF Create, Delete
  <2> QED
    BY <2>1, <2>2 DEF TypeOK
<1>2. CASE Rules
  <2>1. samples' \in Samples
    BY <1>2 DEF Rules, TypeOK, Samples
  <2> QED
    BY <1>2, <2>1 DEF Rules, TypeOK, array
<1>3. CASE PageAnswers
  BY <1>3, PageAnswersType
<1>4. CASE PageFails
  BY <1>4 DEF PageFails, TypeOK, array
<1>5. ASSUME NEW i \in DOMAIN task, Launch(i) PROVE TypeOK'
  <2>1. task' \in [DOMAIN volumeIDs -> {"todo", "running", "done"}]
    BY <1>5 DEF Launch, TypeOK
  <2> QED
    BY <1>5, <2>1 DEF Launch, TypeOK, array
<1>6. ASSUME NEW i \in DOMAIN task, Finish(i) PROVE TypeOK'
  <2>1. task' \in [DOMAIN volumeIDs -> {"todo", "running", "done"}]
    BY <1>6 DEF Finish, TypeOK
  <2>2. <<Item(i)>> \in Seq(Volume)
    BY DEF Item, TypeOK
  <2>3. per' \in [DOMAIN volumeIDs -> Seq(Volume)]
    BY <1>6, <2>2 DEF Finish, TypeOK
  <2>4. UNCHANGED <<array, pc, offset, all, volumeIDs, samples>>
    BY <1>6 DEF Finish
  <2> QED
    BY <2>1, <2>3, <2>4 DEF TypeOK, array
<1>7. CASE Join
  <2>1. samples' \in Samples
    BY <1>7, JoinedType DEF Join, TypeOK, Samples
  <2> QED
    BY <1>7, <2>1 DEF Join, TypeOK, array
<1>8. CASE UNCHANGED vars
  BY <1>8 DEF vars, TypeOK
<1> QED
  BY <1>1, <1>2, <1>3, <1>4, <1>5, <1>6, <1>7, <1>8 DEF Next

\* Spec keeps the types: only sessions are listed, by offsets that are whole
\* pages of at most all sessions, and only volumes are asked (client.go:298).
THEOREM ReplicationTypes == Spec => []TypeOK
<1>1. Init => TypeOK
  <2> SUFFICES ASSUME Init PROVE TypeOK
    OBVIOUS
  <2>1. 0 \in {k * PageSize : k \in 0..Cardinality(Id)}
    <3>1. 0 \in 0..Cardinality(Id) /\ 0 * PageSize = 0
      BY IdAssumption, FS_CardinalityType, SizeAssumption
    <3> QED
      BY <3>1
  <2>2. samples \in Samples
    BY DEF Init, Samples
  <2>3. DOMAIN volumeIDs = {} /\ DOMAIN task = {} /\ DOMAIN per = {}
    BY DEF Init
  <2>4. task \in [DOMAIN volumeIDs -> {"todo", "running", "done"}]
        /\ per \in [DOMAIN volumeIDs -> Seq(Volume)]
    BY <2>3 DEF Init
  <2>5. all \in Seq(Id) /\ volumeIDs \in Seq(Volume)
    BY DEF Init
  <2> QED
    BY <2>1, <2>2, <2>4, <2>5 DEF Init, TypeOK
<1>2. TypeOK /\ [Next]_vars => TypeOK'
  BY TypeStep
<1> QED
  BY <1>1, <1>2, PTL DEF Spec

-----------------------------------------------------------------------------
(* The enumeration.                                                        *)

\* Nothing is reported before the pages have all been fetched.
Unlisted ==
    pc \in {"rules", "page"} => /\ samples.states = <<>> /\ volumeIDs = <<>>
                               /\ samples.transfers = <<>>

\* The sessions below the offset that have stayed are listed: a session that is
\* created can only move them up, beyond the offset or not.
BelowOffset ==
    /\ pc = "rules" => offset = 0 /\ all = <<>> /\ ~removed
    /\ pc = "page" /\ ~removed =>
         \A s \in stable : Rank(s) < offset => s \in ToSet(all)

Enumerated == Unlisted /\ BelowOffset /\ StableSessionsReported

\* With the page that is fetched, what is below the next offset is listed.
LEMMA PageExtends ==
    ASSUME TypeOK, BelowOffset, pc = "page", ~removed
    PROVE  \A s \in stable : Rank(s) < offset + Len(Page) => s \in ToSet(all \o Page)
<1> SUFFICES ASSUME NEW s \in stable, Rank(s) < offset + Len(Page)
             PROVE  s \in ToSet(all) \cup ToSet(Page)
  BY ConcatLists, PageHolds DEF TypeOK
<1>1. s \in list /\ Rank(s) \in Nat /\ offset \in Nat
  <2>1. s \in list
    BY DEF TypeOK
  <2>2. Rank(s) \in 0..(Cardinality(list) - 1)
    BY <2>1, SessionSets, RanksOfSet DEF Rank
  <2> QED
    BY <2>1, <2>2, SessionSets, OffsetType
<1>2. CASE Rank(s) < offset
  BY <1>2 DEF BelowOffset
<1>3. CASE Rank(s) >= offset
  BY <1>1, <1>3, PageHolds
<1> QED
  BY <1>1, <1>2, <1>3

LEMMA ChangeKeepsEnumerated ==
    ASSUME TypeOK, Enumerated, NEW x \in Id, Create(x) \/ Delete(x)
    PROVE  Enumerated'
<1>1. pc \in {"rules", "page"}
      /\ UNCHANGED <<pc, offset, all, volumeIDs, task, per, samples>>
  BY DEF Create, Delete
<1>2. CASE Create(x)
  <2>1. /\ list' = list \cup {x} /\ removed' = removed
        /\ pc = "page" => stable' = stable
    BY <1>2 DEF Create
  <2>2. \A s \in stable : Rank(s) <= Rank(s)' /\ Rank(s) \in Nat /\ Rank(s)' \in Nat
    <3> TAKE s \in stable
    <3>1. list \in SUBSET Nat /\ IsFiniteSet(list) /\ IsFiniteSet(list')
      BY <2>1, SessionSets, FS_AddElement
    <3>2. Rank(s) <= Rank(s)'
      BY <2>1, <3>1, RankGrows DEF Rank
    <3>3. IsFiniteSet({t \in list : t < s}) /\ IsFiniteSet({t \in list' : t < s})
      BY <3>1, FS_Subset
    <3> QED
      BY <3>2, <3>3, FS_CardinalityType DEF Rank
  <2>3. pc = "page" /\ ~removed =>
          \A s \in stable : Rank(s)' < offset => s \in ToSet(all)
    BY <2>2, OffsetType DEF Enumerated, BelowOffset
  <2>4. BelowOffset'
    BY <1>1, <2>1, <2>3 DEF Enumerated, BelowOffset
  <2> QED
    BY <1>1, <2>4 DEF Enumerated, Unlisted, StableSessionsReported
<1>3. CASE Delete(x)
  <2>1. removed' = (removed \/ pc = "page")
    BY <1>3 DEF Delete
  <2>2. pc = "page" => removed'
    BY <2>1
  <2>3. pc = "rules" => removed' = removed
    BY <1>1, <2>1 DEF TypeOK
  <2>4. BelowOffset'
    BY <1>1, <2>2, <2>3 DEF Enumerated, BelowOffset
  <2> QED
    BY <1>1, <2>4 DEF Enumerated, Unlisted, StableSessionsReported
<1> QED
  BY <1>2, <1>3

LEMMA PageKeepsEnumerated ==
    ASSUME TypeOK, Enumerated, PageAnswers PROVE Enumerated'
<1>1. /\ pc = "page" /\ all' = all \o Page
      /\ UNCHANGED <<list, stable, removed>>
  BY DEF PageAnswers, array
<1>2. CASE IsLast(Page)
  <2>1. pc' = "fan" /\ samples'.states = all'
    BY <1>2 DEF PageAnswers, Listed, TypeOK, Samples
  <2>2. ~removed => stable \subseteq ToSet(all')
    <3> SUFFICES ASSUME ~removed, NEW s \in stable PROVE s \in ToSet(all')
      OBVIOUS
    <3>1. Rank(s) < offset + Len(Page)
      BY <1>2, PageHolds DEF TypeOK
    <3> QED
      BY <1>1, <3>1, PageExtends DEF Enumerated
  <2> QED
    BY <1>1, <2>1, <2>2
       DEF Enumerated, Unlisted, BelowOffset, StableSessionsReported
<1>3. CASE ~IsLast(Page)
  <2>1. offset' = offset + Len(Page)
        /\ UNCHANGED <<pc, volumeIDs, task, per, samples>>
    BY <1>3, PageHolds DEF PageAnswers
  <2>2. ~removed => \A s \in stable : Rank(s) < offset' => s \in ToSet(all')
    BY <1>1, <2>1, PageExtends DEF Enumerated
  <2>3. \A s : Rank(s)' = Rank(s)
    BY <1>1 DEF Rank
  <2>4. BelowOffset'
    BY <1>1, <2>1, <2>2, <2>3 DEF BelowOffset
  <2> QED
    BY <1>1, <2>1, <2>4 DEF Enumerated, Unlisted, StableSessionsReported
<1> QED
  BY <1>2, <1>3

LEMMA EnumeratedStep ==
    ASSUME TypeOK, Enumerated, [Next]_vars PROVE Enumerated'
<1> USE DEF Enumerated, Unlisted, BelowOffset, StableSessionsReported
<1>1. ASSUME NEW s \in Id, Create(s) \/ Delete(s) PROVE Enumerated'
  BY <1>1, ChangeKeepsEnumerated
<1>2. CASE Rules
  <2>1. /\ pc = "rules" /\ pc' = "page" /\ offset = 0
        /\ UNCHANGED <<list, stable, removed, offset, all, volumeIDs>>
    BY <1>2 DEF Rules, array
  <2>2. samples'.states = samples.states /\ samples'.transfers = samples.transfers
    BY <1>2 DEF Rules, TypeOK, Samples
  <2>3. \A s \in stable : Rank(s)' = Rank(s) /\ ~(Rank(s) < offset)
    <3> TAKE s \in stable
    <3>1. Rank(s) \in 0..(Cardinality(list) - 1)
      BY SessionSets, RanksOfSet DEF Rank, TypeOK
    <3>2. Rank(s)' = Rank(s)
      BY <2>1 DEF Rank
    <3> QED
      BY <2>1, <3>1, <3>2, SessionSets
  <2> QED
    BY <2>1, <2>2, <2>3
<1>3. CASE PageAnswers
  BY <1>3, PageKeepsEnumerated
<1>4. CASE PageFails
  BY <1>4 DEF PageFails, array
<1>5. ASSUME NEW i \in DOMAIN task, Launch(i) \/ Finish(i) PROVE Enumerated'
  BY <1>5 DEF Launch, Finish, array
<1>6. CASE Join
  BY <1>6 DEF Join, array, TypeOK, Samples
<1>7. CASE UNCHANGED vars
  BY <1>7 DEF vars, Rank
<1> QED
  BY <1>1, <1>2, <1>3, <1>4, <1>5, <1>6, <1>7 DEF Next

\* Of the sessions that are there from the first page on all are reported, or
\* none is after an error, whatever is created meanwhile (client.go:511).
THEOREM EnumerationComplete == Spec => []StableSessionsReported
<1>1. Init => Enumerated
  BY DEF Init, Enumerated, Unlisted, BelowOffset, StableSessionsReported
<1>2. TypeOK /\ Enumerated /\ [Next]_vars => Enumerated'
  BY EnumeratedStep
<1>3. Enumerated => StableSessionsReported
  BY DEF Enumerated
<1> QED
  BY <1>1, <1>2, <1>3, ReplicationTypes, PTL DEF Spec

-----------------------------------------------------------------------------
(* The fan-out.                                                            *)

\* The volumes are distinct, and the slot of each is empty or has its transfer.
Slots ==
    /\ IsInjective(volumeIDs)
    /\ \A i \in DOMAIN volumeIDs : per[i] \in {<<>>, <<volumeIDs[i]>>}

FanOut ==
    /\ Slots
    /\ pc # "done" => samples.transfers = <<>>
    /\ OneTransferPerVolume

\* What is joined when every goroutine is in.
LEMMA JoinedSlots ==
    ASSUME TypeOK, Slots
    PROVE  LET joined == FlattenSeq(per)
           IN  /\ IsInjective(joined)
               /\ ToSet(joined) =
                    {v \in Volume : \E i \in DOMAIN per : per[i] = <<v>>}
               /\ \A j, k \in DOMAIN joined, m, n \in DOMAIN volumeIDs :
                    joined[j] = volumeIDs[m] /\ joined[k] = volumeIDs[n]
                    /\ m < n => j < k
<1> DEFINE joined == FlattenSeq(per)
<1>1. /\ per \in Seq(Seq(Volume)) /\ volumeIDs \in Seq(Volume)
      /\ DOMAIN per = DOMAIN volumeIDs /\ DOMAIN per \in SUBSET Nat
  <2>1. volumeIDs \in Seq(Volume) /\ per \in [DOMAIN volumeIDs -> Seq(Volume)]
    BY DEF TypeOK
  <2>2. DOMAIN volumeIDs = 1..Len(volumeIDs) /\ Len(volumeIDs) \in Nat
    BY <2>1
  <2>3. per \in Seq(Seq(Volume))
    BY <2>1, <2>2, SeqDef
  <2> QED
    BY <2>1, <2>2, <2>3
<1>2. \A i \in DOMAIN per : volumeIDs[i] \in Volume
  BY <1>1
<1>3. \A i \in DOMAIN per : per[i] = <<>> \/ per[i] = <<volumeIDs[i]>>
  BY <1>1 DEF Slots
<1>4. PICK part : FromSlots(joined, per, part)
  BY <1>1, <1>2, <1>3, FlattenSlots
<1>5. joined \in Seq(Volume) /\ DOMAIN joined \in SUBSET Nat
  BY <1>1, FlattenPlaces
<1> HIDE DEF joined
<1>6. \A k \in DOMAIN joined : /\ part[k] \in DOMAIN per
                               /\ joined[k] = volumeIDs[part[k]]
                               /\ per[part[k]] = <<joined[k]>>
  <2> TAKE k \in DOMAIN joined
  <2>1. part[k] \in DOMAIN per /\ per[part[k]] = <<joined[k]>>
    BY <1>4 DEF FromSlots
  <2>2. per[part[k]] = <<volumeIDs[part[k]]>>
    BY <1>3, <2>1
  <2> QED
    BY <2>1, <2>2
<1>7. \A k, l \in DOMAIN joined : k < l => part[k] < part[l]
  BY <1>4 DEF FromSlots
<1>8. \A i \in DOMAIN volumeIDs, j \in DOMAIN volumeIDs :
         volumeIDs[i] = volumeIDs[j] => i = j
  BY DEF Slots, IsInjective
<1>9. IsInjective(joined)
  <2> SUFFICES ASSUME NEW k \in DOMAIN joined, NEW l \in DOMAIN joined,
                      joined[k] = joined[l]
               PROVE  k = l
    BY DEF IsInjective
  <2>1. part[k] = part[l] /\ part[k] \in Nat
    BY <1>1, <1>6, <1>8
  <2>2. ~(k < l) /\ ~(l < k)
    BY <1>1, <1>7, <2>1
  <2> QED
    BY <1>5, <2>2
<1>10. ToSet(joined) = {v \in Volume : \E i \in DOMAIN per : per[i] = <<v>>}
  <2>1. ASSUME NEW k \in DOMAIN joined
        PROVE  joined[k] \in Volume
               /\ \E i \in DOMAIN per : per[i] = <<joined[k]>>
    <3>1. joined[k] \in Volume
      BY <1>5
    <3> QED
      BY <1>6, <3>1, Zenon
  <2>2. ASSUME NEW v \in Volume, NEW i \in DOMAIN per, per[i] = <<v>>
        PROVE  \E k \in DOMAIN joined : joined[k] = v
    <3>1. PICK k \in DOMAIN joined : part[k] = i
      BY <1>4, <2>2 DEF FromSlots
    <3>2. <<joined[k]>> = <<v>>
      BY <1>6, <2>2, <3>1
    <3> QED
      BY <3>2
  <2> QED
    BY <2>1, <2>2 DEF ToSet
<1>11. ASSUME NEW j \in DOMAIN joined, NEW k \in DOMAIN joined,
              NEW m \in DOMAIN volumeIDs, NEW n \in DOMAIN volumeIDs,
              joined[j] = volumeIDs[m], joined[k] = volumeIDs[n], m < n
       PROVE  j < k
  <2>1. part[j] = m /\ part[k] = n
    BY <1>1, <1>6, <1>8, <1>11
  <2>2. ~(part[k] < part[j]) /\ part[j] # part[k]
    BY <1>1, <1>11, <2>1
  <2>3. ~(k < j) /\ j # k
    BY <1>7, <2>2
  <2> QED
    BY <1>5, <2>3
<1> QED
  BY <1>9, <1>10, <1>11 DEF joined

LEMMA ListedFanOut ==
    ASSUME TypeOK, FanOut, pc # "done", NEW sessions \in Seq(Id), Listed(sessions)
    PROVE  FanOut'
<1>1. IsInjective(volumeIDs)'
  BY ResourcesOnce DEF Listed
<1>2. Slots'
  BY <1>1 DEF Slots, Listed
<1>3. samples'.transfers = <<>> /\ pc' = "fan"
  BY DEF FanOut, Listed, TypeOK, Samples
<1> QED
  BY <1>2, <1>3 DEF FanOut, OneTransferPerVolume, IsInjective

LEMMA FanOutStep ==
    ASSUME TypeOK, Enumerated, FanOut, [Next]_vars PROVE FanOut'
<1>1. ASSUME NEW s \in Id, Create(s) \/ Delete(s) PROVE FanOut'
  BY <1>1 DEF Create, Delete, FanOut, Slots, OneTransferPerVolume
<1>2. CASE Rules
  <2>1. pc = "rules" /\ pc' = "page" /\ UNCHANGED <<volumeIDs, per>>
    BY <1>2 DEF Rules
  <2>2. samples'.transfers = samples.transfers
    BY <1>2 DEF Rules, TypeOK, Samples
  <2> QED
    BY <2>1, <2>2 DEF FanOut, Slots, OneTransferPerVolume
<1>3. CASE PageAnswers
  <2>1. pc = "page" /\ all' = all \o Page
    BY <1>3 DEF PageAnswers
  <2>2. CASE Listed(all')
    <3>1. all \o Page \in Seq(Id)
      BY PageHolds, ConcatProperties DEF TypeOK
    <3> QED
      BY <2>1, <2>2, <3>1, ListedFanOut
  <2>3. CASE UNCHANGED <<pc, volumeIDs, task, per, samples>>
    BY <2>3 DEF FanOut, Slots, OneTransferPerVolume
  <2> QED
    BY <1>3, <2>2, <2>3 DEF PageAnswers
<1>4. CASE PageFails
  <2>1. /\ pc = "page" /\ volumeIDs = <<>> /\ samples.transfers = <<>>
        /\ UNCHANGED <<volumeIDs, per, samples>>
    BY <1>4 DEF PageFails, Enumerated, Unlisted
  <2>2. DOMAIN volumeIDs = {} /\ DOMAIN per = {}
    BY <2>1 DEF TypeOK
  <2>3. DOMAIN samples.transfers = {} /\ ToSet(samples.transfers) = {}
    BY <2>1 DEF ToSet
  <2>4. OneTransferPerVolume'
    BY <2>1, <2>2, <2>3 DEF OneTransferPerVolume, IsInjective
  <2> QED
    BY <2>1, <2>4 DEF FanOut, Slots
<1>5. ASSUME NEW i \in DOMAIN task, Launch(i) PROVE FanOut'
  BY <1>5 DEF Launch, FanOut, Slots, OneTransferPerVolume
<1>6. ASSUME NEW i \in DOMAIN task, Finish(i) PROVE FanOut'
  <2>1. pc = "fan" /\ UNCHANGED <<pc, volumeIDs, samples>>
    BY <1>6 DEF Finish
  <2>2. per' = [per EXCEPT ![i] = <<volumeIDs[i]>>] \/ per' = per
    BY <1>6 DEF Finish, Item
  <2>3. Slots'
    BY <2>1, <2>2 DEF FanOut, Slots, TypeOK
  <2> QED
    BY <2>1, <2>3 DEF FanOut, OneTransferPerVolume
<1>7. CASE Join
  <2>1. pc' = "done" /\ UNCHANGED <<volumeIDs, per>>
    BY <1>7 DEF Join
  <2>2. samples'.transfers = FlattenSeq(per)
    BY <1>7 DEF Join, TypeOK, Samples
  <2>3. OneTransferPerVolume'
    BY <2>1, <2>2, JoinedSlots DEF FanOut, OneTransferPerVolume
  <2> QED
    BY <2>1, <2>3 DEF FanOut, Slots
<1>8. CASE UNCHANGED vars
  BY <1>8 DEF vars, FanOut, Slots, OneTransferPerVolume
<1> QED
  BY <1>1, <1>2, <1>3, <1>4, <1>5, <1>6, <1>7, <1>8 DEF Next

\* Every volume that is asked for is asked for once, although it may have several
\* sessions and a session may be listed twice, and the transfers are those that
\* were fetched, in the order of the sessions (client.go:391).
THEOREM TransfersOncePerVolume == Spec => []OneTransferPerVolume
<1>1. Init => FanOut
  BY DEF Init, FanOut, Slots, OneTransferPerVolume, IsInjective
<1>2. Init => Enumerated
  BY DEF Init, Enumerated, Unlisted, BelowOffset, StableSessionsReported
<1>3. TypeOK /\ Enumerated /\ [Next]_vars => Enumerated'
  BY EnumeratedStep
<1>4. TypeOK /\ Enumerated /\ FanOut /\ [Next]_vars => FanOut'
  BY FanOutStep
<1>5. FanOut => OneTransferPerVolume
  BY DEF FanOut
<1> QED
  BY <1>1, <1>2, <1>3, <1>4, <1>5, ReplicationTypes, PTL DEF Spec
=============================================================================
