---------------------------- MODULE SequenceFacts ---------------------------
(* Facts about the numbers, sets and sequences that the modules of the     *)
(* exporter compute with.  Induction over data is by sets: the set of the  *)
(* numbers for which a fact holds has 0 and with n also n + 1.             *)
EXTENDS Integers, SequencesExt, FiniteSetTheorems, SequenceTheorems, TLAPS

\* Every set of numbers has a least one.
LEMMA LeastNumber ==
    ASSUME NEW T \in SUBSET Nat, T # {}
    PROVE  \E n \in T : \A m \in T : n <= m
<1>1. PICK n \in T : \A m \in T : <<m, n>> \notin OpToRel(<, Nat)
  BY NatLessThanWellFounded, WFMin
<1>2. \A m \in T : ~(m < n)
  BY <1>1 DEF OpToRel
<1> QED
  BY <1>2

\* Induction up to N.
LEMMA InductionTo ==
    ASSUME NEW N \in Nat, NEW T, 0 \in T,
           \A n \in 0..(N - 1) : n \in T => n + 1 \in T
    PROVE  \A n \in 0..N : n \in T
<1> SUFFICES ASSUME NEW k \in 0..N, k \notin T PROVE FALSE
  OBVIOUS
<1> DEFINE Bad == {n \in 0..N : n \notin T}
<1>1. PICK n \in Bad : \A m \in Bad : n <= m
  <2>1. Bad \in SUBSET Nat /\ Bad # {}
    OBVIOUS
  <2> HIDE DEF Bad
  <2> QED
    BY <2>1, LeastNumber
<1>2. n # 0 /\ n - 1 \in 0..(N - 1)
  BY <1>1
<1>3. n - 1 \in T
  BY <1>1, <1>2
<1> QED
  BY <1>1, <1>2, <1>3

\* f starts with a and goes on with g.
Recursive(f, N, a, g) == f[0] = a /\ \A n \in 1..N : f[n] = g[<<f[n - 1], n>>]

\* A function defined by recursion up to N exists.
LEMMA RecursionTo ==
    ASSUME NEW N \in Nat, NEW E, NEW a \in E, NEW g \in [E \X (1..N) -> E]
    PROVE  \E f \in [0..N -> E] : Recursive(f, N, a, g)
<1> DEFINE Good(f, k) == f[0] = a /\ \A n \in 1..k : f[n] = g[<<f[n - 1], n>>]
           T == {k \in 0..N : \E f \in [0..k -> E] : Good(f, k)}
<1>1. 0 \in T
  <2> DEFINE h == [i \in 0..0 |-> a]
  <2>1. h \in [0..0 -> E] /\ h[0] = a /\ 1..0 = {}
    OBVIOUS
  <2> HIDE DEF h
  <2>2. Good(h, 0)
    BY <2>1
  <2> QED
    BY <2>1, <2>2
<1>2. ASSUME NEW n \in 0..(N - 1), n \in T PROVE n + 1 \in T
  <2>1. PICK f \in [0..n -> E] : Good(f, n)
    BY <1>2
  <2> DEFINE x == g[<<f[n], n + 1>>]
             h == [i \in 0..(n + 1) |-> IF i = n + 1 THEN x ELSE f[i]]
  <2>2. x \in E
    <3>1. f[n] \in E /\ n + 1 \in 1..N
      OBVIOUS
    <3> QED
      BY <3>1
  <2> HIDE DEF x
  <2>3. h \in [0..(n + 1) -> E] /\ \A i \in 0..n : h[i] = f[i]
    BY <2>2
  <2>4. h[n + 1] = x
    OBVIOUS
  <2> HIDE DEF h
  <2>5. h[0] = a /\ \A m \in 1..n : h[m] = g[<<h[m - 1], m>>]
    BY <2>1, <2>3
  <2>6. h[n + 1] = g[<<h[(n + 1) - 1], n + 1>>]
    BY <2>3, <2>4 DEF x
  <2>7. \A m \in 1..(n + 1) : m \in 1..n \/ m = n + 1
    OBVIOUS
  <2>8. \A m \in 1..(n + 1) : h[m] = g[<<h[m - 1], m>>]
    BY <2>5, <2>6, <2>7, Zenon
  <2>9. Good(h, n + 1)
    BY <2>5, <2>8, Zenon
  <2>10. n + 1 \in 0..N
    OBVIOUS
  <2> QED
    BY <2>3, <2>9, <2>10
<1> HIDE DEF T
<1>3. \A n \in 0..N : n \in T
  BY <1>1, <1>2, InductionTo
<1>4. N \in T
  BY <1>3
<1>5. \E f \in [0..N -> E] : Good(f, N)
  BY <1>4, Zenon DEF T
<1> QED
  BY <1>5, Zenon DEF Recursive

-----------------------------------------------------------------------------
(* FlattenSeq.                                                             *)

\* The flattening is the last of the concatenations of the first parts.
LEMMA FlattenPrefixes ==
    ASSUME NEW S, NEW parts \in Seq(Seq(S)), parts # <<>>
    PROVE  \E f \in [1..Len(parts) -> Seq(S)] :
              /\ f[1] = parts[1]
              /\ \A n \in 2..Len(parts) : f[n] = f[n - 1] \o parts[n]
              /\ FlattenSeq(parts) = f[Len(parts)]
<1> DEFINE N == Len(parts)
           Eqn(f) == f = [i \in 1..N |-> IF i = 1 THEN parts[i]
                                         ELSE f[i - 1] \o parts[i]]
<1>1. N \in Nat \ {0} /\ \A i \in 1..N : parts[i] \in Seq(S)
  OBVIOUS
<1> HIDE DEF N
<1>2. \E f : Eqn(f)
  <2> DEFINE g == [p \in Seq(S) \X (1..N) |->
                     IF p[2] = 1 THEN parts[1] ELSE p[1] \o parts[p[2]]]
  <2>1. g \in [Seq(S) \X (1..N) -> Seq(S)]
    BY <1>1
  <2>2. PICK h \in [0..N -> Seq(S)] : Recursive(h, N, <<>>, g)
    <3>1. <<>> \in Seq(S) /\ N \in Nat
      BY <1>1
    <3> HIDE DEF g
    <3> QED
      BY <2>1, <3>1, RecursionTo, Zenon
  <2>3. \A n \in 1..N : <<h[n - 1], n>> \in Seq(S) \X (1..N)
    BY <1>1
  <2>4. \A n \in 1..N : h[n] = IF n = 1 THEN parts[n] ELSE h[n - 1] \o parts[n]
    BY <2>2, <2>3 DEF Recursive
  <2> DEFINE f == [i \in 1..N |-> h[i]]
  <2>5. \A i \in 1..N : i # 1 => f[i - 1] = h[i - 1]
    BY <1>1
  <2>6. Eqn(f)
    BY <2>4, <2>5
  <2> QED
    BY <2>6
<1> DEFINE f == CHOOSE f : Eqn(f)
<1>3. Eqn(f)
  BY <1>2
<1>4. FlattenSeq(parts) = f[N]
  BY <1>1 DEF FlattenSeq, N
<1> HIDE DEF f
<1>5. \A n \in 1..N : f[n] = IF n = 1 THEN parts[n] ELSE f[n - 1] \o parts[n]
  BY <1>3
<1>6. f[1] = parts[1] /\ \A n \in 2..N : f[n] = f[n - 1] \o parts[n]
  <2>1. 1 \in 1..N /\ \A n \in 2..N : n \in 1..N /\ n # 1
    BY <1>1
  <2> QED
    BY <1>5, <2>1
<1>7. f \in [1..N -> Seq(S)]
  <2> DEFINE T == {n \in 0..N : n > 0 => f[n] \in Seq(S)}
  <2>1. 0 \in T
    BY <1>1
  <2>2. ASSUME NEW n \in 0..(N - 1), n \in T PROVE n + 1 \in T
    <3>1. CASE n = 0
      BY <1>1, <1>6, <3>1
    <3>2. CASE n > 0
      <4>1. f[n + 1] = f[n] \o parts[n + 1]
        <5>1. n + 1 \in 2..N /\ (n + 1) - 1 = n
          BY <1>1, <3>2
        <5> QED
          BY <1>6, <5>1
      <4>2. f[n] \in Seq(S) /\ parts[n + 1] \in Seq(S) /\ n + 1 \in 0..N
        BY <1>1, <2>2, <3>2
      <4>3. f[n] \o parts[n + 1] \in Seq(S)
        BY <4>2, ConcatProperties
      <4> QED
        BY <4>1, <4>2, <4>3
    <3> QED
      BY <3>1, <3>2
  <2> HIDE DEF T
  <2>3. \A n \in 0..N : n \in T
    BY <1>1, <2>1, <2>2, InductionTo
  <2>4. \A n \in 1..N : f[n] \in Seq(S)
    BY <2>3 DEF T
  <2> QED
    BY <1>3, <2>4
<1> QED
  BY <1>4, <1>6, <1>7 DEF N

\* Element k of flat is element pos[k] of part number part[k]; all elements of
\* the first n parts occur, in their order.
Places(flat, parts, n, part, pos) ==
    /\ part \in [1..Len(flat) -> 1..n] /\ pos \in [1..Len(flat) -> Nat]
    /\ \A k \in 1..Len(flat) : /\ pos[k] \in 1..Len(parts[part[k]])
                              /\ flat[k] = parts[part[k]][pos[k]]
    /\ \A i \in 1..n : \A j \in 1..Len(parts[i]) :
          \E k \in 1..Len(flat) : part[k] = i /\ pos[k] = j
    /\ \A k, l \in 1..Len(flat) : k < l =>
          part[k] < part[l] \/ (part[k] = part[l] /\ pos[k] < pos[l])

LEMMA PlacesStep ==
    ASSUME NEW S, NEW parts \in Seq(Seq(S)), NEW n \in 0..(Len(parts) - 1),
           NEW flat \in Seq(S), NEW part, NEW pos,
           Places(flat, parts, n, part, pos)
    PROVE  \E part2, pos2 :
              Places(flat \o parts[n + 1], parts, n + 1, part2, pos2)
<1> DEFINE L == Len(flat)
           M == Len(parts[n + 1])
           new == flat \o parts[n + 1]
           part2 == [k \in 1..(L + M) |-> IF k <= L THEN part[k] ELSE n + 1]
           pos2 == [k \in 1..(L + M) |-> IF k <= L THEN pos[k] ELSE k - L]
<1>1. L \in Nat /\ M \in Nat /\ parts[n + 1] \in Seq(S) /\ n \in Nat
  OBVIOUS
<1>2. Len(new) = L + M
  BY <1>1, ConcatProperties
<1>3. \A k \in 1..(L + M) :
         new[k] = IF k <= L THEN flat[k] ELSE parts[n + 1][k - L]
  BY <1>1, ConcatProperties
<1>4. /\ \A k \in 1..L : part2[k] = part[k] /\ pos2[k] = pos[k]
      /\ \A k \in (L + 1)..(L + M) : part2[k] = n + 1 /\ pos2[k] = k - L
  BY <1>1
<1>5. \A k \in 1..(L + M) : k \in 1..L \/ k \in (L + 1)..(L + M)
  BY <1>1
<1>6. /\ \A k \in 1..L : /\ part[k] \in 1..n /\ pos[k] \in Nat
                          /\ pos[k] \in 1..Len(parts[part[k]])
                          /\ flat[k] = parts[part[k]][pos[k]]
      /\ \A i \in 1..n : \A j \in 1..Len(parts[i]) :
           \E k \in 1..L : part[k] = i /\ pos[k] = j
      /\ \A k, l \in 1..L : k < l =>
           part[k] < part[l] \/ (part[k] = part[l] /\ pos[k] < pos[l])
  BY DEF Places
<1> HIDE DEF L, M, new
<1>7. /\ part2 \in [1..(L + M) -> 1..(n + 1)]
      /\ pos2 \in [1..(L + M) -> Nat]
  <2>1. \A k \in 1..(L + M) :
          (IF k <= L THEN part[k] ELSE n + 1) \in 1..(n + 1)
    BY <1>1, <1>6
  <2>2. \A k \in 1..(L + M) : (IF k <= L THEN pos[k] ELSE k - L) \in Nat
    BY <1>1, <1>6
  <2> QED
    BY <2>1, <2>2
<1> HIDE DEF part2, pos2
<1>8. \A k \in 1..(L + M) : /\ pos2[k] \in 1..Len(parts[part2[k]])
                            /\ new[k] = parts[part2[k]][pos2[k]]
  <2> TAKE k \in 1..(L + M)
  <2>1. CASE k \in 1..L
    <3>1. part2[k] = part[k] /\ pos2[k] = pos[k] /\ new[k] = flat[k]
      BY <1>1, <1>3, <1>4, <2>1
    <3> QED
      BY <1>6, <2>1, <3>1
  <2>2. CASE k \in (L + 1)..(L + M)
    <3>1. part2[k] = n + 1 /\ pos2[k] = k - L /\ k - L \in 1..M
      BY <1>1, <1>4, <2>2
    <3> QED
      BY <1>1, <1>3, <2>2, <3>1 DEF M
  <2> QED
    BY <1>5, <2>1, <2>2
<1>9. \A i \in 1..(n + 1) : \A j \in 1..Len(parts[i]) :
         \E k \in 1..(L + M) : part2[k] = i /\ pos2[k] = j
  <2> TAKE i \in 1..(n + 1)
  <2> TAKE j \in 1..Len(parts[i])
  <2>1. CASE i \in 1..n
    <3>1. PICK k \in 1..L : part[k] = i /\ pos[k] = j
      BY <1>6, <2>1
    <3>2. k \in 1..(L + M)
      BY <1>1
    <3> QED
      BY <1>4, <3>1, <3>2
  <2>2. CASE i = n + 1
    <3>1. j \in 1..M
      BY <2>2 DEF M
    <3>2. L + j \in (L + 1)..(L + M) /\ L + j \in 1..(L + M) /\ (L + j) - L = j
      BY <1>1, <3>1
    <3> QED
      BY <1>4, <2>2, <3>2
  <2> QED
    BY <1>1, <2>1, <2>2
<1>10. \A k, l \in 1..(L + M) : k < l =>
         part2[k] < part2[l] \/ (part2[k] = part2[l] /\ pos2[k] < pos2[l])
  <2> SUFFICES ASSUME NEW k \in 1..(L + M), NEW l \in 1..(L + M), k < l
               PROVE  part2[k] < part2[l]
                      \/ (part2[k] = part2[l] /\ pos2[k] < pos2[l])
    OBVIOUS
  <2>1. CASE k \in 1..L /\ l \in 1..L
    BY <1>4, <1>6, <2>1
  <2>2. CASE k \in 1..L /\ l \in (L + 1)..(L + M)
    <3>1. part2[k] = part[k] /\ part[k] \in 1..n /\ part2[l] = n + 1
      BY <1>4, <1>6, <2>2
    <3> QED
      BY <1>1, <3>1
  <2>3. CASE k \in (L + 1)..(L + M)
    <3>1. l \in (L + 1)..(L + M) /\ k - L < l - L
      BY <1>1, <2>3
    <3> QED
      BY <1>4, <2>3, <3>1
  <2> QED
    BY <1>5, <2>1, <2>2, <2>3
<1>11. Places(new, parts, n + 1, part2, pos2)
  BY <1>2, <1>7, <1>8, <1>9, <1>10 DEF Places
<1> QED
  BY <1>11 DEF new

\* What FlattenSeq returns, without recursion.
LEMMA FlattenPlaces ==
    ASSUME NEW S, NEW parts \in Seq(Seq(S))
    PROVE  /\ FlattenSeq(parts) \in Seq(S)
           /\ \E part, pos :
                Places(FlattenSeq(parts), parts, Len(parts), part, pos)
<1>1. Places(<<>>, parts, 0, <<>>, <<>>)
  BY DEF Places
<1>2. CASE parts = <<>>
  <2>1. FlattenSeq(parts) = <<>> /\ Len(parts) = 0
    BY <1>2 DEF FlattenSeq
  <2> QED
    BY <1>1, <2>1
<1>3. CASE parts # <<>>
  <2> DEFINE N == Len(parts)
  <2>1. PICK f \in [1..N -> Seq(S)] :
          /\ f[1] = parts[1]
          /\ \A n \in 2..N : f[n] = f[n - 1] \o parts[n]
          /\ FlattenSeq(parts) = f[N]
    BY <1>3, FlattenPrefixes
  <2>2. N \in Nat /\ N > 0 /\ \A n \in 1..N : parts[n] \in Seq(S)
    BY <1>3
  <2> DEFINE T == {n \in 0..N : n > 0 =>
                    \E part, pos : Places(f[n], parts, n, part, pos)}
  <2>3. 0 \in T
    BY <2>2
  <2>4. ASSUME NEW n \in 0..(N - 1), n \in T PROVE n + 1 \in T
    <3>1. n + 1 \in 0..N
      BY <2>2
    <3>2. CASE n = 0
      <4>1. <<>> \o parts[1] = f[1] /\ <<>> \in Seq(S)
        BY <2>1, <2>2
      <4>2. \E part, pos : Places(<<>> \o parts[0 + 1], parts, 0 + 1, part, pos)
        BY <1>1, <3>2, <4>1, PlacesStep
      <4> QED
        BY <3>1, <3>2, <4>1, <4>2
    <3>3. CASE n > 0
      <4>1. PICK part, pos : Places(f[n], parts, n, part, pos)
        BY <2>4, <3>3
      <4>2. f[n] \in Seq(S) /\ f[n + 1] = f[n] \o parts[n + 1]
        <5>1. n + 1 \in 2..N /\ (n + 1) - 1 = n /\ n \in 1..N
          BY <2>2, <3>3
        <5> QED
          BY <2>1, <5>1
      <4>3. \E p2, q2 : Places(f[n] \o parts[n + 1], parts, n + 1, p2, q2)
        BY <4>1, <4>2, PlacesStep
      <4> QED
        BY <3>1, <4>2, <4>3
    <3> QED
      BY <2>2, <3>2, <3>3
  <2> HIDE DEF T
  <2>5. \A n \in 0..N : n \in T
    BY <2>2, <2>3, <2>4, InductionTo
  <2>6. N \in 0..N /\ N \in 1..N
    BY <2>2
  <2> QED
    BY <2>1, <2>2, <2>5, <2>6 DEF T
<1> QED
  BY <1>2, <1>3

\* Of parts of at most one element, element k of flat is that of part at[k].
FromSlots(flat, parts, at) ==
    /\ at \in [DOMAIN flat -> DOMAIN parts]
    /\ \A k \in DOMAIN flat : parts[at[k]] = <<flat[k]>>
    /\ \A i \in DOMAIN parts : parts[i] # <<>> => \E k \in DOMAIN flat : at[k] = i
    /\ \A k, l \in DOMAIN flat : k < l => at[k] < at[l]

LEMMA FlattenSlots ==
    ASSUME NEW S, NEW parts \in Seq(Seq(S)),
           \A i \in DOMAIN parts : parts[i] = <<>> \/ \E e \in S : parts[i] = <<e>>
    PROVE  \E at : FromSlots(FlattenSeq(parts), parts, at)
<1> DEFINE flat == FlattenSeq(parts)
           N == Len(parts)
<1>1. flat \in Seq(S)
  BY FlattenPlaces
<1>2. PICK at, pos : Places(flat, parts, N, at, pos)
  BY FlattenPlaces
<1>3. DOMAIN parts = 1..N /\ N \in Nat
  OBVIOUS
<1> HIDE DEF flat, N
<1>4. DOMAIN flat = 1..Len(flat) /\ Len(flat) \in Nat
  BY <1>1
<1>5. \A i \in 1..N : parts[i] # <<>> =>
         Len(parts[i]) = 1 /\ parts[i] = <<parts[i][1]>>
  <2> TAKE i \in 1..N
  <2>1. \A e \in S : parts[i] = <<e>> =>
          Len(parts[i]) = 1 /\ parts[i] = <<parts[i][1]>>
    OBVIOUS
  <2> QED
    BY <1>3, <2>1
<1>6. \A k \in DOMAIN flat : at[k] \in 1..N /\ pos[k] = 1
                             /\ parts[at[k]] = <<flat[k]>>
  <2> TAKE k \in DOMAIN flat
  <2>1. /\ at[k] \in 1..N /\ pos[k] \in 1..Len(parts[at[k]])
        /\ flat[k] = parts[at[k]][pos[k]]
    BY <1>2, <1>4 DEF Places
  <2>2. parts[at[k]] # <<>>
    BY <2>1
  <2>3. Len(parts[at[k]]) = 1 /\ parts[at[k]] = <<parts[at[k]][1]>>
    BY <1>5, <2>1, <2>2
  <2>4. pos[k] = 1
    BY <2>1, <2>3
  <2> QED
    BY <2>1, <2>3, <2>4
<1>7. at \in [DOMAIN flat -> DOMAIN parts]
  BY <1>2, <1>3, <1>4 DEF Places
<1>8. \A i \in DOMAIN parts : parts[i] # <<>> => \E k \in DOMAIN flat : at[k] = i
  <2> SUFFICES ASSUME NEW i \in 1..N, parts[i] # <<>>
               PROVE  \E k \in DOMAIN flat : at[k] = i
    BY <1>3
  <2>1. 1 \in 1..Len(parts[i])
    BY <1>5
  <2> QED
    BY <1>2, <1>4, <2>1 DEF Places
<1>9. \A k, l \in DOMAIN flat : k < l => at[k] < at[l]
  <2> SUFFICES ASSUME NEW k \in DOMAIN flat, NEW l \in DOMAIN flat, k < l
               PROVE  at[k] < at[l]
    OBVIOUS
  <2>1. at[k] < at[l] \/ pos[k] < pos[l]
    BY <1>2, <1>4 DEF Places
  <2> QED
    BY <1>6, <2>1
<1>10. FromSlots(flat, parts, at)
  BY <1>6, <1>7, <1>8, <1>9, Zenon DEF FromSlots
<1> QED
  BY <1>10 DEF flat

\* A concatenation lists what its parts list.
LEMMA ConcatLists ==
    ASSUME NEW S, NEW s \in Seq(S), NEW t \in Seq(S)
    PROVE  ToSet(s \o t) = ToSet(s) \cup ToSet(t)
<1>1. ToSet(s \o t) = Range(s \o t) /\ ToSet(s) = Range(s) /\ ToSet(t) = Range(t)
  BY DEF ToSet, Range
<1> QED
  BY <1>1, RangeConcatenation

-----------------------------------------------------------------------------
(* The distinct elements of a sequence in first-seen order.                *)

LEMMA AppendDistinct ==
    ASSUME NEW S, NEW s \in Seq(S), NEW e \in S, IsInjective(s), e \notin ToSet(s)
    PROVE  /\ Append(s, e) \in Seq(S) /\ IsInjective(Append(s, e))
           /\ ToSet(Append(s, e)) = ToSet(s) \cup {e}
<1> DEFINE t == Append(s, e)
<1>1. /\ t \in Seq(S) /\ Len(s) \in Nat /\ Len(t) = Len(s) + 1
      /\ DOMAIN s = 1..Len(s) /\ DOMAIN t = 1..(Len(s) + 1)
      /\ \A i \in 1..Len(s) : t[i] = s[i]
      /\ t[Len(s) + 1] = e
  BY AppendProperties
<1>2. \A i \in DOMAIN t : i \in DOMAIN s \/ i = Len(s) + 1
  BY <1>1
<1>3. \A i \in DOMAIN s : s[i] # e /\ i \in DOMAIN t
  BY <1>1 DEF ToSet
<1> HIDE DEF t
<1>4. IsInjective(t)
  BY <1>1, <1>2, <1>3 DEF IsInjective
<1>5. ToSet(t) = ToSet(s) \cup {e}
  <2>1. \A x \in ToSet(t) : x \in ToSet(s) \cup {e}
    BY <1>1, <1>2 DEF ToSet
  <2>2. \A x \in ToSet(s) : x \in ToSet(t)
    BY <1>1, <1>3 DEF ToSet
  <2>3. Len(s) + 1 \in DOMAIN t
    BY <1>1
  <2>4. e \in ToSet(t)
    BY <1>1, <2>3 DEF ToSet
  <2> QED
    BY <2>1, <2>2, <2>4
<1> QED
  BY <1>1, <1>4, <1>5 DEF t

\* seen[n] has what is new among the first n keys, but for the skipped ones.
FirstSeen(seen, keys, skip) ==
    seen = [n \in 0..Len(keys) |->
              IF n = 0 THEN <<>>
              ELSE IF keys[n] \in ToSet(seen[n - 1]) \cup skip THEN seen[n - 1]
              ELSE Append(seen[n - 1], keys[n])]

LEMMA FirstSeenExists ==
    ASSUME NEW S, NEW keys \in Seq(S), NEW skip
    PROVE  \E seen : FirstSeen(seen, keys, skip)
<1> DEFINE N == Len(keys)
           g == [p \in Seq(S) \X (1..N) |->
                   IF keys[p[2]] \in ToSet(p[1]) \cup skip THEN p[1]
                   ELSE Append(p[1], keys[p[2]])]
<1>1. N \in Nat /\ \A n \in 1..N : keys[n] \in S
  OBVIOUS
<1>2. g \in [Seq(S) \X (1..N) -> Seq(S)]
  <2>1. \A p \in Seq(S) \X (1..N) :
          p[1] \in Seq(S) /\ Append(p[1], keys[p[2]]) \in Seq(S)
    <3> TAKE p \in Seq(S) \X (1..N)
    <3>1. p[1] \in Seq(S) /\ p[2] \in 1..N
      OBVIOUS
    <3>2. keys[p[2]] \in S
      BY <1>1, <3>1
    <3> QED
      BY <3>1, <3>2, AppendProperties
  <2> QED
    BY <2>1
<1>3. <<>> \in Seq(S)
  OBVIOUS
<1>4. \A h \in [0..N -> Seq(S)] : \A n \in 1..N :
        g[<<h[n - 1], n>>] =
          IF keys[n] \in ToSet(h[n - 1]) \cup skip THEN h[n - 1]
          ELSE Append(h[n - 1], keys[n])
  <2> TAKE h \in [0..N -> Seq(S)]
  <2> TAKE n \in 1..N
  <2>1. n - 1 \in 0..N
    BY <1>1
  <2>2. h[n - 1] \in Seq(S)
    BY <2>1
  <2> QED
    BY <2>2
<1> HIDE DEF N, g
<1>5. PICK h \in [0..N -> Seq(S)] : Recursive(h, N, <<>>, g)
  BY <1>1, <1>2, <1>3, RecursionTo, Zenon
<1>6. /\ h[0] = <<>>
      /\ \A n \in 1..N : h[n] =
           IF keys[n] \in ToSet(h[n - 1]) \cup skip THEN h[n - 1]
           ELSE Append(h[n - 1], keys[n])
  BY <1>4, <1>5 DEF Recursive
<1>7. \A n \in 0..N : n # 0 => n \in 1..N
  BY <1>1
<1>8. FirstSeen(h, keys, skip)
  BY <1>6, <1>7 DEF FirstSeen, N
<1> QED
  BY <1>8

LEMMA FirstSeenDistinct ==
    ASSUME NEW S, NEW keys \in Seq(S), NEW skip, NEW seen,
           FirstSeen(seen, keys, skip)
    PROVE  LET last == seen[Len(keys)]
           IN  /\ last \in Seq(S \ skip) /\ IsInjective(last)
               /\ ToSet(last) = ToSet(keys) \ skip
<1> DEFINE N == Len(keys)
           Of(n) == {keys[i] : i \in 1..n} \ skip
           Good(n) == /\ seen[n] \in Seq(S \ skip) /\ IsInjective(seen[n])
                      /\ ToSet(seen[n]) = Of(n)
           T == {n \in 0..N : Good(n)}
<1>0. N \in Nat /\ DOMAIN keys = 1..N /\ \A n \in 1..N : keys[n] \in S
  OBVIOUS
<1>1. /\ N \in Nat /\ DOMAIN keys = 1..N /\ \A n \in 1..N : keys[n] \in S
      /\ seen[0] = <<>>
      /\ \A n \in 1..N : seen[n] =
           IF keys[n] \in ToSet(seen[n - 1]) \cup skip THEN seen[n - 1]
           ELSE Append(seen[n - 1], keys[n])
  <2>1. seen = [n \in 0..N |->
                  IF n = 0 THEN <<>>
                  ELSE IF keys[n] \in ToSet(seen[n - 1]) \cup skip
                  THEN seen[n - 1] ELSE Append(seen[n - 1], keys[n])]
    BY DEF FirstSeen
  <2>2. 0 \in 0..N /\ \A n \in 1..N : n \in 0..N /\ n # 0
    BY <1>0
  <2> HIDE DEF N
  <2> QED
    BY <1>0, <2>1, <2>2
<1> HIDE DEF N
<1>2. 0 \in T
  <2> DEFINE none == <<>>
  <2>1. none \in Seq(S \ skip) /\ DOMAIN none = {}
    OBVIOUS
  <2>2. Of(0) = {}
    OBVIOUS
  <2> HIDE DEF none
  <2>3. IsInjective(none) /\ ToSet(none) = {}
    BY <2>1 DEF IsInjective, ToSet
  <2>4. seen[0] = none /\ 0 \in 0..N
    BY <1>1 DEF none
  <2> QED
    BY <2>1, <2>2, <2>3, <2>4
<1>3. ASSUME NEW n \in 0..(N - 1), n \in T PROVE n + 1 \in T
  <2> DEFINE s == seen[n]
             e == keys[n + 1]
  <2>1. /\ n + 1 \in 1..N /\ n + 1 \in 0..N /\ e \in S
        /\ seen[n + 1] = IF e \in ToSet(s) \cup skip THEN s ELSE Append(s, e)
    <3>1. n + 1 \in 1..N /\ n + 1 \in 0..N /\ (n + 1) - 1 = n
      BY <1>1
    <3> QED
      BY <1>1, <3>1
  <2>2. Good(n)
    BY <1>3
  <2>3. Of(n + 1) = IF e \in skip THEN Of(n) ELSE Of(n) \cup {e}
    <3>1. 1..(n + 1) = 1..n \cup {n + 1}
      BY <1>1
    <3> QED
      BY <3>1
  <2> HIDE DEF s, e, Of
  <2>4. CASE e \in ToSet(s) \cup skip
    BY <2>1, <2>2, <2>3, <2>4 DEF s
  <2>5. CASE e \notin ToSet(s) \cup skip
    <3>1. s \in Seq(S \ skip) /\ IsInjective(s) /\ e \in S \ skip
          /\ e \notin ToSet(s) /\ seen[n + 1] = Append(s, e)
      BY <2>1, <2>2, <2>5 DEF s
    <3>2. /\ Append(s, e) \in Seq(S \ skip) /\ IsInjective(Append(s, e))
          /\ ToSet(Append(s, e)) = ToSet(s) \cup {e}
      BY <3>1, AppendDistinct
    <3>3. ToSet(s) \cup {e} = Of(n + 1)
      BY <2>2, <2>3, <2>5 DEF s
    <3> QED
      BY <2>1, <3>1, <3>2, <3>3
  <2> QED
    BY <2>4, <2>5
<1> HIDE DEF T
<1>4. N \in T
  <2>1. \A n \in 0..N : n \in T
    BY <1>1, <1>2, <1>3, InductionTo
  <2> QED
    BY <1>1, <2>1
<1>5. Good(N)
  BY <1>4 DEF T
<1>6. Of(N) = ToSet(keys) \ skip
  BY <1>1 DEF ToSet
<1> QED
  BY <1>5, <1>6 DEF N

-----------------------------------------------------------------------------
(* The rank of a number in a finite set: how many are below it.            *)

LEMMA RanksOfSet ==
    ASSUME NEW A \in SUBSET Nat, IsFiniteSet(A)
    PROVE  LET rank(s) == Cardinality({t \in A : t < s})
           IN  /\ Cardinality(A) \in Nat
               /\ \A s \in A : rank(s) \in 0..(Cardinality(A) - 1)
               /\ \A s, u \in A : rank(s) = rank(u) => s = u
               /\ \A r \in 0..(Cardinality(A) - 1) : \E s \in A : rank(s) = r
<1> DEFINE below(s) == {t \in A : t < s}
           rank(s) == Cardinality(below(s))
           C == Cardinality(A)
<1>1. C \in Nat
  BY FS_CardinalityType
<1>2. \A s : IsFiniteSet(below(s)) /\ rank(s) \in Nat
  BY FS_Subset, FS_CardinalityType
<1>3. ASSUME NEW s \in A, NEW u \in A, s < u PROVE rank(s) < rank(u)
  <2>1. below(s) \in SUBSET below(u) /\ s \in below(u) /\ s \notin below(s)
    <3>1. s \in Nat /\ u \in Nat
      OBVIOUS
    <3>2. \A t \in A : t < s => t < u
      BY <1>3, <3>1
    <3>3. ~(s < s)
      BY <3>1
    <3> QED
      BY <1>3, <3>2, <3>3
  <2> HIDE DEF below
  <2>2. Cardinality(below(s)) <= Cardinality(below(u))
        /\ (Cardinality(below(u)) = Cardinality(below(s)) => below(u) = below(s))
    BY <1>2, <2>1, FS_Subset
  <2> QED
    BY <1>2, <2>1, <2>2
<1>4. ASSUME NEW s \in A PROVE rank(s) < C
  <2>1. below(s) \in SUBSET A /\ s \notin below(s)
    OBVIOUS
  <2> HIDE DEF below
  <2>2. Cardinality(below(s)) <= C /\ (C = Cardinality(below(s)) => A = below(s))
    BY <2>1, FS_Subset
  <2> QED
    BY <1>1, <1>2, <2>1, <2>2
<1> DEFINE f == [s \in A |-> rank(s)]
<1> HIDE DEF below
<1>5. f \in Injection(A, 0..(C - 1))
  <2>1. \A s \in A : rank(s) \in 0..(C - 1)
    BY <1>1, <1>2, <1>4
  <2>2. \A s, u \in A : rank(s) = rank(u) => s = u
    <3> SUFFICES ASSUME NEW s \in A, NEW u \in A, s # u PROVE rank(s) # rank(u)
      OBVIOUS
    <3>1. s < u \/ u < s
      OBVIOUS
    <3> QED
      BY <1>2, <1>3, <3>1
  <2> HIDE DEF rank
  <2> QED
    BY <2>1, <2>2 DEF Injection, IsInjective
<1>6. f \in Surjection(A, 0..(C - 1))
  <2>1. IsFiniteSet(0..(C - 1)) /\ Cardinality(0..(C - 1)) = C
    <3>1. 0 \in Int /\ C - 1 \in Int
      BY <1>1
    <3>2. /\ IsFiniteSet(0..(C - 1))
          /\ Cardinality(0..(C - 1)) = IF 0 > C - 1 THEN 0 ELSE (C - 1) - 0 + 1
      BY <3>1, FS_Interval, Zenon
    <3> QED
      BY <1>1, <3>2
  <2> QED
    BY <1>5, <2>1, FS_Injection
<1> HIDE DEF rank
<1>7. \A r \in 0..(C - 1) : \E s \in A : rank(s) = r
  BY <1>6 DEF Surjection
<1>8. \A s \in A : rank(s) \in 0..(C - 1)
  BY <1>5 DEF Injection
<1>9. \A s, u \in A : rank(s) = rank(u) => s = u
  BY <1>5 DEF Injection, IsInjective
<1> QED
  BY <1>1, <1>7, <1>8, <1>9 DEF rank, below

LEMMA RankGrows ==
    ASSUME NEW A \in SUBSET Nat, NEW B, IsFiniteSet(B), A \subseteq B, NEW s
    PROVE  Cardinality({t \in A : t < s}) <= Cardinality({t \in B : t < s})
<1>1. IsFiniteSet({t \in B : t < s})
  BY FS_Subset
<1>2. {t \in A : t < s} \in SUBSET {t \in B : t < s}
  OBVIOUS
<1> QED
  BY <1>1, <1>2, FS_Subset
=============================================================================
