------------------------ MODULE SampleStrategyProofs ------------------------
(***************************************************************************)
(* Proofs about the sampler, the tree learner and GBDT around one bag, for *)
(* any number of rows, any configurations and any sequence of resets.      *)
(***************************************************************************)
EXTENDS SampleStrategy, FiniteSetTheorems, NaturalsInduction, WellFoundedInduction, TLAPS

-----------------------------------------------------------------------------
(* The inductive invariant *)

\* The first rows of the array are those of the bag, in ascending order.
InFront(bag) ==
  /\ bag \subseteq Rows /\ bag_data_cnt = Cardinality(bag)
  /\ \A p \in 0..(bag_data_cnt - 1) : bag_data_indices[p] = Ascending(bag)[p + 1]

\* Every row is in the array once.
EveryRowOnce ==
  /\ \A p, q \in Rows : bag_data_indices[p] = bag_data_indices[q] => p = q
  /\ \A r \in Rows : \E p \in Rows : bag_data_indices[p] = r

\* The three parties know the same bag: by a pointer, or by a copy of its rows.
Settled(bag) ==
  /\ InFront(bag)
  /\ IF is_use_subset
       THEN ~learner.used /\ learner.data = "subset" /\ tmp_subset = Ascending(bag)
       ELSE /\ learner.used /\ learner.data = "full" /\ learner.cnt = bag_data_cnt
            /\ EveryRowOnce
BagSettled == \E bag \in SUBSET Rows : Settled(bag)

\* Nobody knows a bag.
NoBag == ~HasBag /\ bag_data_cnt = NumData

\* Lapses that the next bag repairs.
Passing == {"request lost", "sampling stopped"}

\* What holds for a sampler of its kind, whatever callers have done.
SamplerInv ==
  /\ Goss => is_use_subset = CopiesRows(config) /\ ~cleared
  /\ ~Goss /\ Bags(config) => is_use_subset = CopiesRows(config) /\ ~cleared
  /\ ~Goss /\ ~Bags(config) => ~is_use_subset /\ bag_data_cnt = NumData
  /\ ~Goss /\ Bags(config) /\ config.choose = "balanced" => balanced_bagging
  /\ ~Goss => learner.data # "freed"
  /\ bagged => iter < MaxIter

\* As long as no lapse is lasting, the learner's bag is of the kind the
\* sampler draws, so that the next draw leaves nothing of the old one.
KindInv ==
  lapses \subseteq Passing =>
    /\ learner.used => ~is_use_subset
    /\ learner.data # "full" => is_use_subset
    /\ ~Goss /\ config.choose = "plain" => ~balanced_bagging
    /\ ~Goss /\ ~Bags(config) => ~HasBag

\* Without a lapse there is a bag where parameters ask for one and none is
\* to be drawn; with GOSS, from the draw to the end of the iteration.
BagInv ==
  lapses = {} =>
    /\ ~Goss /\ Bags(config) /\ ~need_re_bagging => BagSettled /\ rule = config.choose
    /\ ~Goss /\ Bags(config) /\ bagged => ~need_re_bagging
    /\ Goss /\ bagged => IF iter >= config.start THEN BagSettled ELSE NoBag

IInv == TypeOK /\ SamplerInv /\ KindInv /\ BagInv /\ RowsInStep /\ ObeysConfig

-----------------------------------------------------------------------------
(* Natural numbers *)

\* Every set of natural numbers has a least element.
LEMMA NatHasMin ==
  ASSUME NEW S, S \subseteq Nat, S # {}
  PROVE  \E m \in S : \A n \in S : m <= n
<1>1. OpToRel(<, Nat) = {ss \in Nat \X Nat : ss[1] < ss[2]}
  BY Zenon DEF OpToRel
<1> DEFINE Less == {ss \in Nat \X Nat : ss[1] < ss[2]}
<1>2. IsWellFoundedOn(Less, Nat)
  BY <1>1, NatLessThanWellFounded, Zenon
<1> HIDE DEF Less
<1>3. PICK m \in S : \A n \in S : ~(<<n, m>> \in Less)
  BY <1>2, WFMin, Zenon
<1>4. ASSUME NEW n \in S PROVE m <= n
  <2>1. n \in Nat /\ m \in Nat
    OBVIOUS
  <2>2. n < m => <<n, m>> \in Less
    BY <2>1 DEF Less
  <2> QED
    BY <1>3, <2>1, <2>2
<1> QED
  BY <1>4

\* A set of natural numbers with 0 that is closed under successor up to a bound.
LEMMA NatUpTo ==
  ASSUME NEW n \in Nat, NEW S, 0 \in S, \A k \in 0..n : k \in S /\ k < n => k + 1 \in S
  PROVE  \A k \in 0..n : k \in S
<1> SUFFICES ASSUME NEW k \in 0..n, k \notin S PROVE FALSE
  OBVIOUS
<1> DEFINE Out == {j \in 0..n : j \notin S}
<1>1. PICK m \in Out : \A j \in Out : m <= j
  <2>1. Out \subseteq Nat /\ Out # {}
    OBVIOUS
  <2> HIDE DEF Out
  <2> QED BY <2>1, NatHasMin
<1>2. m # 0 /\ m \in 0..n /\ m \notin S
  OBVIOUS
<1>3. m - 1 \in 0..n /\ m - 1 < n /\ (m - 1) + 1 = m
  BY <1>2
<1>4. m - 1 \in S
  BY <1>1, <1>3
<1> QED BY <1>2, <1>3, <1>4

-----------------------------------------------------------------------------
(* Rows in ascending order *)

\* Rows in ascending order, as an enumeration of the set.
Enumerates(s, rows) ==
  /\ s \in [1..Cardinality(rows) -> rows]
  /\ \A i, j \in 1..Cardinality(rows) : i < j => s[i] < s[j]

\* Every finite set of natural numbers can be listed in ascending order.
LEMMA HasEnumeration ==
  ASSUME NEW n \in Nat, NEW S \in SUBSET (0..(n - 1))
  PROVE  \E s : Enumerates(s, S)
<1> DEFINE Good == {k \in 0..n : \A T \in SUBSET (0..(k - 1)) : \E s : Enumerates(s, T)}
<1>1. 0 \in Good
  <2> SUFFICES ASSUME NEW T \in SUBSET (0..(0 - 1)) PROVE \E s : Enumerates(s, T)
    OBVIOUS
  <2>1. T = {} /\ 1..0 = {}
    <3>1. \A x : x \notin 0..(0 - 1) /\ x \notin 1..0
      OBVIOUS
    <3> QED BY <3>1
  <2>2. Cardinality(T) = 0
    BY <2>1, FS_EmptySet
  <2>3. Enumerates([i \in 1..0 |-> i], T)
    BY <2>1, <2>2 DEF Enumerates
  <2> QED BY <2>3
<1>2. ASSUME NEW k \in 0..n, k \in Good, k < n PROVE k + 1 \in Good
  <2> SUFFICES ASSUME NEW T \in SUBSET (0..k) PROVE \E s : Enumerates(s, T)
    <3>1. (k + 1) - 1 = k /\ k + 1 \in 0..n
      <4> HIDE DEF Good
      <4> QED BY <1>2
    <3> QED BY <3>1
  <2> DEFINE U == T \ {k}
  <2>1. U \in SUBSET (0..(k - 1))
    OBVIOUS
  <2>2. PICK s : Enumerates(s, U)
    BY <1>2, <2>1
  <2>3. IsFiniteSet(U) /\ Cardinality(U) \in Nat
    <3>1. IsFiniteSet(0..(k - 1))
      BY FS_Interval
    <3> QED BY <2>1, <3>1, FS_Subset, FS_CardinalityType
  <2>4. CASE k \notin T
    <3>1. U = T
      BY <2>4
    <3> QED BY <3>1, <2>2
  <2>5. CASE k \in T
    <3>1. T = U \cup {k} /\ k \notin U
      BY <2>5
    <3>2. Cardinality(T) = Cardinality(U) + 1
      BY <3>1, <2>3, FS_AddElement
    <3> DEFINE t == [i \in 1..(Cardinality(U) + 1) |-> IF i = Cardinality(U) + 1 THEN k ELSE s[i]]
    <3>3. \A i \in 1..Cardinality(U) : s[i] \in U /\ s[i] \in T /\ s[i] < k /\ s[i] \in Nat
      <4>1. \A i \in 1..Cardinality(U) : s[i] \in U
        BY <2>2 DEF Enumerates
      <4>2. \A x \in U : x \in T /\ x \in 0..(k - 1)
        BY <2>1
      <4>3. \A x \in 0..(k - 1) : x < k /\ x \in Nat
        OBVIOUS
      <4> HIDE DEF U
      <4> QED BY <4>1, <4>2, <4>3
    <3>4. \A i, j \in 1..Cardinality(U) : i < j => s[i] < s[j]
      BY <2>2 DEF Enumerates
    <3> HIDE DEF U
    <3>5. t \in [1..(Cardinality(U) + 1) -> T]
      BY <3>3, <2>3, <2>5
    <3>6. \A i, j \in 1..(Cardinality(U) + 1) : i < j => t[i] < t[j]
      BY <3>3, <3>4, <2>3
    <3> HIDE DEF t
    <3>7. Enumerates(t, T)
      BY <3>2, <3>5, <3>6 DEF Enumerates
    <3> QED BY <3>7
  <2> QED BY <2>4, <2>5
<1> HIDE DEF Good
<1>3. n \in Good
  BY <1>1, <1>2, NatUpTo
<1> QED BY <1>3 DEF Good

LEMMA AscendingEnumerates ==
  ASSUME NEW bag \in SUBSET Rows
  PROVE  Enumerates(Ascending(bag), bag)
<1>1. bag \in SUBSET (0..(NumData - 1)) /\ NumData \in Nat
  BY SampleAssumption DEF Rows
<1>2. \E s : Enumerates(s, bag)
  BY <1>1, HasEnumeration
<1> QED BY <1>2 DEF Enumerates, Ascending

LEMMA RowsFinite ==
  ASSUME NEW bag \in SUBSET Rows
  PROVE  /\ NumData \in Nat /\ Cardinality(Rows) = NumData /\ IsFiniteSet(Rows)
         /\ IsFiniteSet(bag) /\ Cardinality(bag) \in 0..NumData
<1>1. NumData \in Nat
  BY SampleAssumption
<1>2. IsFiniteSet(Rows) /\ Cardinality(Rows) = NumData
  BY <1>1, FS_Interval DEF Rows
<1>3. IsFiniteSet(bag) /\ Cardinality(bag) <= NumData
  BY <1>2, FS_Subset
<1>4. Cardinality(bag) \in Nat
  BY <1>3, FS_CardinalityType
<1> QED BY <1>1, <1>2, <1>3, <1>4

\* The enumeration of a bag: no row twice, none left out, and the row at
\* a position is never below it; with all rows it is the position.
LEMMA AscendingIs ==
  ASSUME NEW bag \in SUBSET Rows
  PROVE  LET s == Ascending(bag)
             n == Cardinality(bag)
         IN  /\ s \in [1..n -> bag]
             /\ \A i, j \in 1..n : i < j => s[i] < s[j]
             /\ \A i, j \in 1..n : s[i] = s[j] => i = j
             /\ \A r \in bag : \E i \in 1..n : s[i] = r
             /\ \A i \in 1..n : s[i] >= i - 1 /\ s[i] <= NumData - 1 - (n - i)
<1> DEFINE s == Ascending(bag)
           n == Cardinality(bag)
<1>1. n \in 0..NumData /\ NumData \in Nat /\ IsFiniteSet(bag)
  BY RowsFinite
<1>2. s \in [1..n -> bag] /\ \A i, j \in 1..n : i < j => s[i] < s[j]
  BY AscendingEnumerates DEF Enumerates
<1>3. \A i \in 1..n : s[i] \in bag /\ s[i] \in Rows /\ s[i] \in 0..(NumData - 1)
  BY <1>2 DEF Rows
<1> HIDE DEF s, n
<1>4. \A i, j \in 1..n : s[i] = s[j] => i = j
  BY <1>1, <1>2, <1>3
<1>5. \A r \in bag : \E i \in 1..n : s[i] = r
  <2>1. n \in Nat
    BY <1>1
  <2>2. IsFiniteSet(1..n) /\ Cardinality(1..n) = n
    BY <2>1, FS_Interval
  <2>3. s \in Injection(1..n, bag)
    BY <1>2, <1>4 DEF Injection, IsInjective
  <2>4. s \in Surjection(1..n, bag)
    <3>1. Cardinality(1..n) = Cardinality(bag)
      BY <2>2 DEF n
    <3> QED BY <2>3, <3>1, <1>1, FS_Injection
  <2> QED BY <2>4 DEF Surjection
<1>6. \A i \in 1..n : s[i] >= i - 1
  <2> DEFINE Good == {i \in 0..n : i = 0 \/ s[i] >= i - 1}
  <2>1. 0 \in Good
    BY <1>1
  <2>2. ASSUME NEW k \in 0..n, k \in Good, k < n PROVE k + 1 \in Good
    <3>1. k + 1 \in 1..n /\ s[k + 1] \in Nat
      BY <2>2, <1>1, <1>3
    <3>2. CASE k = 0
      BY <3>1, <3>2, <1>1
    <3>3. CASE k # 0
      <4>1. k \in 1..n /\ k < k + 1 /\ s[k] >= k - 1 /\ s[k] \in Nat
        BY <3>3, <2>2, <1>1, <1>3
      <4>2. s[k] < s[k + 1]
        BY <4>1, <3>1, <1>2
      <4> QED BY <4>1, <4>2, <3>1, <1>1
    <3> QED BY <3>2, <3>3
  <2> HIDE DEF Good
  <2>3. n \in Nat
    BY <1>1
  <2>4. \A i \in 0..n : i \in Good
    BY <2>1, <2>2, <2>3, NatUpTo
  <2> QED BY <2>4, <1>1 DEF Good
<1>7. \A i \in 1..n : s[i] <= NumData - 1 - (n - i)
  <2> DEFINE Good == {d \in 0..n : d = n \/ s[n - d] <= NumData - 1 - d}
  <2>1. 0 \in Good
    BY <1>1, <1>3
  <2>2. ASSUME NEW k \in 0..n, k \in Good, k < n PROVE k + 1 \in Good
    <3>1. CASE k + 1 = n
      BY <3>1, <1>1
    <3>2. CASE k + 1 # n
      <4>1. n - k \in 1..n /\ n - (k + 1) \in 1..n /\ n - (k + 1) < n - k
        BY <3>2, <2>2, <1>1
      <4>2. s[n - (k + 1)] < s[n - k] /\ s[n - k] \in Nat /\ s[n - (k + 1)] \in Nat
        BY <4>1, <1>2, <1>3
      <4>3. s[n - k] <= NumData - 1 - k
        BY <2>2, <1>1
      <4>4. s[n - (k + 1)] <= NumData - 1 - (k + 1)
        BY <4>2, <4>3, <1>1
      <4> QED BY <4>4, <2>2, <1>1
    <3> QED BY <3>1, <3>2
  <2> HIDE DEF Good
  <2>3. n \in Nat
    BY <1>1
  <2>4. \A d \in 0..n : d \in Good
    BY <2>1, <2>2, <2>3, NatUpTo
  <2>5. ASSUME NEW i \in 1..n PROVE s[i] <= NumData - 1 - (n - i)
    <3>1. n - i \in 0..n /\ n - i # n /\ n - (n - i) = i
      BY <1>1
    <3>2. n - i \in Good
      BY <3>1, <2>4
    <3> QED BY <3>1, <3>2 DEF Good
  <2> QED BY <2>5
<1> QED BY <1>2, <1>4, <1>5, <1>6, <1>7 DEF s, n

\* The array after a draw starts with the bag in order; unless the bag was
\* drawn by query, every row is in it once.
LEMMA IndicesInOrder ==
  ASSUME NEW bag \in SUBSET Rows, bag_data_indices \in [Rows -> Rows]
  PROVE  /\ IndicesWith(bag) \in [Rows -> Rows]
         /\ \A p \in 0..(Cardinality(bag) - 1) : IndicesWith(bag)[p] = Ascending(bag)[p + 1]
         /\ ~setup.byQuery =>
              /\ \A p, q \in Rows : IndicesWith(bag)[p] = IndicesWith(bag)[q] => p = q
              /\ \A r \in Rows : \E p \in Rows : IndicesWith(bag)[p] = r
<1> DEFINE s == Ascending(bag)
           n == Cardinality(bag)
           t == Ascending(Rows \ bag)
           m == Cardinality(Rows \ bag)
           a == IndicesWith(bag)
<1>1. n \in 0..NumData /\ NumData \in Nat /\ m = NumData - n
  <2>1. n \in 0..NumData /\ NumData \in Nat /\ IsFiniteSet(Rows) /\ Cardinality(Rows) = NumData
    BY RowsFinite
  <2>2. bag \subseteq Rows /\ Rows \cap bag = bag /\ IsFiniteSet(bag)
    BY RowsFinite
  <2>3. m = Cardinality(Rows) - Cardinality(Rows \cap bag)
    BY <2>1, <2>2, FS_Difference
  <2> QED BY <2>1, <2>2, <2>3
<1>2. /\ s \in [1..n -> bag]
      /\ \A i, j \in 1..n : s[i] = s[j] => i = j
      /\ \A r \in bag : \E i \in 1..n : s[i] = r
  BY AscendingIs
<1>3. /\ t \in [1..m -> Rows \ bag]
      /\ \A i, j \in 1..m : t[i] = t[j] => i = j
      /\ \A r \in Rows \ bag : \E i \in 1..m : t[i] = r
  <2>1. Rows \ bag \in SUBSET Rows
    OBVIOUS
  <2> QED BY <2>1, AscendingIs
<1>4. CASE setup.byQuery
  <2>1. a = [p \in Rows |-> IF p < n THEN s[p + 1] ELSE bag_data_indices[p]]
    BY <1>4 DEF IndicesWith
  <2>2. \A p \in 0..(n - 1) : p \in Rows /\ p + 1 \in 1..n /\ p < n
    BY <1>1 DEF Rows
  <2>3. \A p \in Rows : p < n => p + 1 \in 1..n
    BY <1>1 DEF Rows
  <2> HIDE DEF a, s, n
  <2>4. \A p \in Rows : a[p] \in Rows
    BY <1>2, <2>1, <2>3
  <2>5. a \in [Rows -> Rows]
    BY <2>1, <2>4
  <2>6. \A p \in 0..(n - 1) : a[p] = s[p + 1]
    BY <2>1, <2>2
  <2> QED BY <2>5, <2>6, <1>4 DEF a, s, n
<1>5. CASE ~setup.byQuery
  <2>1. a = ArrayOf(s \o t)
    BY <1>5 DEF IndicesWith
  <2> HIDE DEF a, s, t, n, m
  <2>2. s \in Seq(Rows) /\ Len(s) = n /\ t \in Seq(Rows) /\ Len(t) = m
    <3>1. n \in Nat /\ m \in Nat
      BY <1>1
    <3>2. s \in [1..n -> Rows] /\ t \in [1..m -> Rows]
      BY <1>2, <1>3
    <3> QED BY <3>1, <3>2
  <2>3. /\ Len(s \o t) = NumData
        /\ \A i \in 1..NumData : (s \o t)[i] = IF i <= n THEN s[i] ELSE t[i - n]
    BY <2>2, <1>1
  <2>4. \A p \in Rows : p + 1 \in 1..NumData /\ p \in 0..(NumData - 1)
    BY <1>1 DEF Rows
  <2>5. a = [p \in Rows |-> (s \o t)[p + 1]]
    BY <2>1, <2>3 DEF ArrayOf, Rows
  <2>6. \A p \in Rows : a[p] = IF p + 1 <= n THEN s[p + 1] ELSE t[(p + 1) - n]
    <3>1. \A p \in Rows : a[p] = (s \o t)[p + 1]
      BY <2>5
    <3>2. ASSUME NEW p \in Rows PROVE a[p] = IF p + 1 <= n THEN s[p + 1] ELSE t[(p + 1) - n]
      <4> DEFINE i == p + 1
      <4>1. i \in 1..NumData /\ a[p] = (s \o t)[i]
        BY <2>4, <3>1
      <4> HIDE DEF i
      <4>2. a[p] = IF i <= n THEN s[i] ELSE t[i - n]
        BY <4>1, <2>3, Zenon
      <4> QED BY <4>2, Zenon DEF i
    <3> QED BY <3>2
  <2>7. \A p \in Rows : IF p + 1 <= n THEN p + 1 \in 1..n ELSE (p + 1) - n \in 1..m
    BY <2>4, <1>1
  <2>8. \A p \in Rows : IF p + 1 <= n THEN a[p] \in bag ELSE a[p] \in Rows \ bag
    BY <2>6, <2>7, <1>2, <1>3
  <2>9. a \in [Rows -> Rows]
    BY <2>5, <2>8
  <2>10. \A p \in 0..(n - 1) : a[p] = s[p + 1]
    <3>1. \A p \in 0..(n - 1) : p \in Rows /\ p + 1 <= n
      BY <1>1 DEF Rows
    <3> QED BY <2>6, <3>1
  <2>11. ASSUME NEW p \in Rows, NEW q \in Rows, a[p] = a[q] PROVE p = q
    <3>1. p \in Int /\ q \in Int
      BY <1>1 DEF Rows
    <3>2. CASE p + 1 <= n /\ q + 1 <= n
      BY <2>11, <2>6, <2>7, <1>2, <3>1, <3>2
    <3>3. CASE ~(p + 1 <= n) /\ ~(q + 1 <= n)
      <4>1. (p + 1) - n = (q + 1) - n
        BY <2>11, <2>6, <2>7, <1>3, <3>3
      <4> QED BY <4>1, <3>1, <1>1
    <3>4. (p + 1 <= n) <=> (q + 1 <= n)
      BY <2>11, <2>8
    <3> QED BY <3>2, <3>3, <3>4
  <2>12. ASSUME NEW r \in Rows PROVE \E p \in Rows : a[p] = r
    <3>1. CASE r \in bag
      <4>1. PICK i \in 1..n : s[i] = r
        BY <1>2, <3>1
      <4>2. i - 1 \in Rows /\ (i - 1) + 1 = i /\ i <= n
        BY <1>1 DEF Rows
      <4> QED BY <4>1, <4>2, <2>6
    <3>2. CASE r \notin bag
      <4>1. PICK i \in 1..m : t[i] = r
        BY <1>3, <3>2
      <4>2. n + i - 1 \in Rows /\ ((n + i - 1) + 1) - n = i /\ ~((n + i - 1) + 1 <= n)
        BY <1>1 DEF Rows
      <4> DEFINE p == n + i - 1
      <4>3. a[p] = t[(p + 1) - n]
        BY <4>2, <2>6
      <4> QED BY <4>1, <4>2, <4>3
    <3> QED BY <3>1, <3>2
  <2> QED BY <2>9, <2>10, <2>11, <2>12 DEF a, s, n
<1> QED BY <1>4, <1>5

\* Gradients moved to the front one after another: none is overwritten
\* before it is read, since a row of the bag is never before its position.
LEMMA MovedIs ==
  ASSUME NEW bag \in SUBSET Rows, InFront(bag), NEW k \in 0..bag_data_cnt
  PROVE  Moved[k] = [r \in Rows |-> IF r < k THEN bag_data_indices[r] ELSE r]
<1> DEFINE n == bag_data_cnt
           a == bag_data_indices
           at(j) == [r \in Rows |-> IF r < j THEN a[r] ELSE r]
           Moves(f) == f = [j \in 0..n |-> IF j = 0 THEN [r \in Rows |-> r]
                                           ELSE [f[j - 1] EXCEPT ![j - 1] = f[j - 1][a[j - 1]]]]
           part == [j \in 0..n |-> at(j)]
<1>1. n \in 0..NumData /\ n = Cardinality(bag) /\ NumData \in Nat
  BY RowsFinite DEF InFront
<1>2. \A p \in 0..(n - 1) : a[p] \in Rows /\ a[p] >= p /\ a[p] \in Nat /\ p \in Rows
  <2> DEFINE s == Ascending(bag)
  <2>1. \A i \in 1..n : s[i] \in bag /\ s[i] >= i - 1
    BY AscendingIs, <1>1, ZenonT(30)
  <2> HIDE DEF s
  <2>2. ASSUME NEW p \in 0..(n - 1) PROVE a[p] \in Rows /\ a[p] >= p /\ a[p] \in Nat /\ p \in Rows
    <3>1. p + 1 \in 1..n /\ (p + 1) - 1 = p
      BY <1>1
    <3>2. a[p] = s[p + 1]
      BY DEF InFront, s
    <3>3. a[p] \in bag /\ a[p] >= p
      BY <2>1, <3>1, <3>2
    <3>4. p \in Rows /\ \A r \in Rows : r \in Nat
      BY <1>1 DEF Rows
    <3>5. a[p] \in Rows
      BY <3>3
    <3> HIDE DEF a
    <3> QED BY <3>3, <3>4, <3>5
  <2> QED BY <2>2
<1>3. ASSUME NEW j \in 0..n, j # 0
      PROVE  at(j) = [at(j - 1) EXCEPT ![j - 1] = at(j - 1)[a[j - 1]]]
  <2>1. j - 1 \in 0..(n - 1) /\ j - 1 \in Int /\ j \in Int
    BY <1>1, <1>3
  <2>2. a[j - 1] \in Rows /\ ~(a[j - 1] < j - 1) /\ j - 1 \in Rows
    BY <1>2, <2>1
  <2>3. at(j - 1)[a[j - 1]] = a[j - 1]
    BY <2>2
  <2>4. \A r \in Rows : r \in Int
    BY <1>1 DEF Rows
  <2>5. \A r \in Rows : (IF r < j THEN a[r] ELSE r)
                        = IF r = j - 1 THEN a[j - 1] ELSE IF r < j - 1 THEN a[r] ELSE r
    BY <2>1, <2>4
  <2> HIDE DEF a
  <2> QED BY <2>3, <2>5
<1>4. at(0) = [r \in Rows |-> r]
  BY <1>1 DEF Rows
<1> HIDE DEF a, at
<1>5. Moves(part)
  <2>1. \A j \in 0..n : at(j) = IF j = 0 THEN [r \in Rows |-> r]
                               ELSE [part[j - 1] EXCEPT ![j - 1] = part[j - 1][a[j - 1]]]
    <3>1. ASSUME NEW j \in 0..n, j # 0 PROVE part[j - 1] = at(j - 1)
      BY <1>1, <3>1
    <3> HIDE DEF part
    <3> QED BY <1>3, <1>4, <3>1
  <2> QED BY <2>1
<1>6. ASSUME NEW f, Moves(f) PROVE f[k] = at(k)
  <2> DEFINE Same == {j \in 0..n : f[j] = at(j)}
  <2>1. \A j \in 0..n : f[j] = IF j = 0 THEN [r \in Rows |-> r]
                               ELSE [f[j - 1] EXCEPT ![j - 1] = f[j - 1][a[j - 1]]]
    BY <1>6
  <2>2. 0 \in Same
    <3>1. 0 \in 0..n
      BY <1>1
    <3>2. f[0] = [r \in Rows |-> r]
      BY <2>1, <3>1, Zenon
    <3> QED BY <3>1, <3>2, <1>4
  <2>3. ASSUME NEW j \in 0..n, j \in Same, j < n PROVE j + 1 \in Same
    <3>1. j + 1 \in 0..n /\ j + 1 # 0 /\ (j + 1) - 1 = j
      BY <2>3, <1>1
    <3>2. f[j] = at(j)
      BY <2>3
    <3>3. f[j + 1] = [f[j] EXCEPT ![j] = f[j][a[j]]]
      BY <2>1, <3>1
    <3>4. at(j + 1) = [at(j) EXCEPT ![j] = at(j)[a[j]]]
      BY <1>3, <3>1
    <3> QED BY <3>1, <3>2, <3>3, <3>4
  <2>4. \A j \in 0..n : j \in Same
    <3>1. n \in Nat
      BY <1>1
    <3> HIDE DEF Same, n
    <3> QED BY <2>2, <2>3, <3>1, NatUpTo
  <2> QED BY <2>4
<1>7. Moved = CHOOSE f : Moves(f)
  BY Zenon DEF Moved, a
<1> HIDE DEF Moves
<1>8. Moves(CHOOSE f : Moves(f))
  BY <1>5, Zenon
<1>9. Moved[k] = at(k)
  BY <1>6, <1>7, <1>8, Zenon
<1> QED BY <1>9 DEF at, a

-----------------------------------------------------------------------------
(* Trees *)

\* A tree trained as it should be.
AsItShould(t) == t.own /\ (\A r \in Rows : t.added[r] = 1) /\ t.obeys

LEMMA NoTreeIsFine == AsItShould(NoTree)
BY DEF AsItShould, NoTree

\* Trained on a bag the three parties know.
LEMMA TrainedOnBag ==
  ASSUME TypeOK, NEW bag \in SUBSET Rows, Settled(bag),
         (Goss /\ iter >= config.start) \/ (~Goss /\ Bags(config)),
         Bags(config) => rule = config.choose
  PROVE  AsItShould(Trained) /\ Defined
<1> DEFINE n == bag_data_cnt
           a == bag_data_indices
           L == LocalRows
<1>1. n \in 0..NumData /\ n = Cardinality(bag) /\ NumData \in Nat
  BY RowsFinite DEF Settled, InFront
<1>2. a \in [Rows -> Rows]
  BY DEF TypeOK
<1>3. \A p \in 0..(n - 1) : p \in Rows
  BY <1>1 DEF Rows
<1>4. \A r \in Rows : r \in 0..(NumData - 1)
  BY DEF Rows
<1>5. CASE is_use_subset
  <2> DEFINE s == Ascending(bag)
  <2>1. ~learner.used /\ learner.data = "subset" /\ tmp_subset = s /\ Defined
    BY <1>5 DEF Settled, Defined
  <2>2. s \in [1..n -> bag] /\ \A i \in 1..n : s[i] >= i - 1 /\ s[i] <= NumData - 1 - (n - i)
    BY AscendingIs, <1>1
  <2>3. \A p \in 0..(n - 1) : a[p] = s[p + 1]
    BY DEF Settled, InFront
  <2> HIDE DEF s, a, n
  <2>4. Len(s) = n
    <3>1. n \in Nat /\ s \in [1..n -> Rows]
      BY <1>1, <2>2
    <3>2. s \in Seq(Rows)
      BY <3>1
    <3> QED BY <3>1, <3>2
  <2>5. L = [j \in 1..n |-> j - 1]
    BY <2>1, <2>4 DEF LocalRows
  <2> HIDE DEF L
  <2>6. ASSUME NEW j \in 1..n PROVE L[j] = j - 1 /\ j \in Int /\ RowOf(L[j]) = s[j]
    <3>1. L[j] = j - 1
      BY <2>5
    <3>2. RowOf(j - 1) = s[(j - 1) + 1] /\ (j - 1) + 1 = j /\ j \in Int
      BY <2>1, <1>1 DEF RowOf
    <3> QED BY <3>1, <3>2
  <2>7. ASSUME NEW j \in 1..n PROVE GradientOf(L[j]) = s[j]
    <3>1. L[j] = j - 1 /\ j \in 1..NumData /\ j \in Int /\ n <= NumData
      BY <1>1, <2>6
    <3>2. CASE n < NumData
      <4>1. n \in 0..bag_data_cnt /\ InFront(bag)
        BY <1>1 DEF n, Settled
      <4>2. Moved[n] = [r \in Rows |-> IF r < n THEN a[r] ELSE r]
        BY <4>1, MovedIs DEF a
      <4>3. GradientOf(L[j]) = Moved[n][L[j]]
        BY <1>5, <3>2 DEF GradientOf, n
      <4>4. j - 1 \in Rows /\ j - 1 < n /\ j - 1 \in 0..(n - 1) /\ (j - 1) + 1 = j
        BY <3>1, <1>1 DEF Rows
      <4>5. Moved[n][j - 1] = a[j - 1]
        BY <4>2, <4>4
      <4>6. a[j - 1] = s[(j - 1) + 1]
        BY <2>3, <4>4
      <4> QED BY <4>3, <4>4, <4>5, <4>6, <3>1
    <3>3. CASE n = NumData
      <4>1. GradientOf(L[j]) = L[j]
        BY <3>3, <1>1 DEF GradientOf, n
      <4>2. s[j] \in Int
        <5>1. s[j] \in Rows
          BY <2>2
        <5> QED BY <5>1, <1>4
      <4>3. s[j] = j - 1
        <5>1. s[j] >= j - 1 /\ s[j] <= NumData - 1 - (n - j)
          BY <2>2
        <5>2. j \in Int /\ NumData \in Int
          BY <3>1, <1>1
        <5> QED BY <5>1, <5>2, <4>2, <3>3
      <4> QED BY <4>1, <4>3, <3>1
    <3> QED BY <3>1, <3>2, <3>3, <1>1
  <2>8. DOMAIN L = 1..n
    BY <2>5
  <2>9. \A r \in Rows : TimesAdded(r) = 1
    BY <1>5 DEF TimesAdded
  <2>10. TrainedRows = BagRows
    <3>1. TrainedRows = {s[j] : j \in 1..n}
      BY <2>6, <2>8 DEF TrainedRows, L
    <3>2. BagRows = {s[p + 1] : p \in 0..(n - 1)}
      BY <2>3 DEF BagRows, a, n
    <3>3. \A j \in 1..n : j - 1 \in 0..(n - 1) /\ (j - 1) + 1 = j
      BY <1>1
    <3>4. \A p \in 0..(n - 1) : p + 1 \in 1..n
      BY <1>1
    <3>5. ASSUME NEW j \in 1..n PROVE \E p \in 0..(n - 1) : s[j] = s[p + 1]
      BY <3>3
    <3>6. ASSUME NEW p \in 0..(n - 1) PROVE \E j \in 1..n : s[p + 1] = s[j]
      BY <3>4
    <3> QED BY <3>1, <3>2, <3>5, <3>6
  <2>11. AskedFor(TrainedRows)
    BY <2>10 DEF AskedFor
  <2>12. Trained.own
    BY <2>1, <2>6, <2>7, <2>8 DEF Trained, L
  <2>13. (\A r \in Rows : Trained.added[r] = 1) /\ Trained.obeys
    BY <2>1, <2>9, <2>11 DEF Trained
  <2> QED BY <2>1, <2>12, <2>13 DEF AsItShould
<1>6. CASE ~is_use_subset
  <2>1. learner.used /\ learner.data = "full" /\ learner.cnt = n /\ Defined /\ EveryRowOnce
    BY <1>6 DEF Settled, Defined
  <2>2. L = [j \in 1..n |-> a[j - 1]]
    BY <2>1 DEF LocalRows
  <2>3. \A l : RowOf(l) = l /\ GradientOf(l) = l
    BY <2>1, <1>6 DEF RowOf, GradientOf
  <2>4. /\ \A p, q \in Rows : a[p] = a[q] => p = q
        /\ \A r \in Rows : \E p \in Rows : a[p] = r
    BY <2>1 DEF EveryRowOnce
  <2> HIDE DEF L, a, n
  <2>5. DOMAIN L = 1..n /\ \A j \in 1..n : L[j] = a[j - 1]
    BY <2>2
  <2>6. \A j \in 1..n : j - 1 \in 0..(n - 1) /\ (j - 1) + 1 = j /\ j - 1 \in Rows /\ j \in Int
    BY <1>1, <1>3
  <2>7. ASSUME NEW r \in Rows PROVE TimesAdded(r) = 1
    <3> DEFINE In == {j \in 1..n : L[j] = r}
               Out == {p \in n..(NumData - 1) : a[p] = r}
    <3>1. TimesAdded(r) = Cardinality(In) + Cardinality(Out)
      BY <1>6, <2>5 DEF TimesAdded, L, a, n
    <3>2. PICK p \in Rows : a[p] = r
      BY <2>4
    <3>3. \A q \in Rows : a[q] = r => q = p
      BY <2>4, <3>2
    <3>4. \A q \in n..(NumData - 1) : q \in Rows
      BY <1>1 DEF Rows
    <3>5. p \in 0..(NumData - 1)
      BY <1>4
    <3>6. CASE p < n
      <4>1. p + 1 \in 1..n /\ (p + 1) - 1 = p
        BY <3>5, <3>6, <1>1
      <4>2. \A j \in 1..n : L[j] = r => j = p + 1
        BY <2>5, <2>6, <3>3, <3>5
      <4>3. In = {p + 1}
        BY <4>1, <4>2, <2>5, <3>2
      <4>4. Out = {}
        BY <3>3, <3>4, <3>5, <3>6, <1>1
      <4> HIDE DEF In, Out
      <4>5. Cardinality(In) = 1 /\ Cardinality(Out) = 0
        BY <4>3, <4>4, FS_Singleton, FS_EmptySet
      <4> QED BY <3>1, <4>5
    <3>7. CASE ~(p < n)
      <4>1. \A j \in 1..n : L[j] # r
        BY <2>5, <2>6, <3>3, <3>5, <3>7, <1>1
      <4>2. In = {}
        BY <4>1
      <4>3. p \in n..(NumData - 1)
        BY <3>5, <3>7, <1>1
      <4>4. Out = {p}
        BY <4>3, <3>2, <3>3, <3>4
      <4> HIDE DEF In, Out
      <4>5. Cardinality(In) = 0 /\ Cardinality(Out) = 1
        BY <4>2, <4>4, FS_Singleton, FS_EmptySet
      <4> QED BY <3>1, <4>5
    <3> QED BY <3>6, <3>7
  <2>8. TrainedRows = BagRows
    <3>1. TrainedRows = {a[j - 1] : j \in 1..n}
      BY <2>3, <2>5 DEF TrainedRows, L
    <3>2. BagRows = {a[p] : p \in 0..(n - 1)}
      BY DEF BagRows, a, n
    <3>3. \A p \in 0..(n - 1) : p + 1 \in 1..n /\ (p + 1) - 1 = p
      BY <1>1
    <3> QED BY <3>1, <3>2, <3>3, <2>6
  <2>9. AskedFor(TrainedRows)
    BY <2>8 DEF AskedFor
  <2>10. Trained.own
    BY <2>1, <2>3 DEF Trained
  <2>11. (\A r \in Rows : Trained.added[r] = 1) /\ Trained.obeys
    BY <2>1, <2>7, <2>9 DEF Trained
  <2> QED BY <2>1, <2>10, <2>11 DEF AsItShould
<1> QED BY <1>5, <1>6

\* Trained on all rows, when nobody knows a bag.
LEMMA TrainedOnAll ==
  ASSUME TypeOK, NoBag, ~Bags(config), Goss => ~(iter >= config.start)
  PROVE  AsItShould(Trained) /\ Defined
<1>1. NumData \in Nat /\ ~learner.used /\ learner.data = "full" /\ Defined /\ bag_data_cnt = NumData
  BY SampleAssumption DEF NoBag, HasBag, Defined
<1>2. LocalRows = [j \in 1..NumData |-> j - 1]
  BY <1>1 DEF LocalRows
<1>3. \A l : RowOf(l) = l /\ GradientOf(l) = l
  BY <1>1 DEF RowOf, GradientOf
<1>4. DOMAIN LocalRows = 1..NumData /\ \A j \in 1..NumData : LocalRows[j] = j - 1
  BY <1>2
<1>5. ASSUME NEW r \in Rows PROVE TimesAdded(r) = 1
  <2>1. r \in 0..(NumData - 1)
    BY DEF Rows
  <2>2. CASE is_use_subset
    BY <2>2 DEF TimesAdded
  <2>3. CASE ~is_use_subset
    <3> DEFINE In == {j \in 1..NumData : LocalRows[j] = r}
               Out == {p \in NumData..(NumData - 1) : bag_data_indices[p] = r}
    <3>1. TimesAdded(r) = Cardinality(In) + Cardinality(Out)
      BY <2>3, <1>1, <1>4 DEF TimesAdded
    <3>2. In = {r + 1}
      BY <1>4, <2>1, <1>1
    <3>3. Out = {}
      BY <1>1
    <3> HIDE DEF In, Out
    <3>4. Cardinality(In) = 1 /\ Cardinality(Out) = 0
      BY <3>2, <3>3, FS_Singleton, FS_EmptySet
    <3> QED BY <3>1, <3>4
  <2> QED BY <2>2, <2>3
<1>6. TrainedRows = Rows
  <2>1. TrainedRows = {j - 1 : j \in 1..NumData}
    BY <1>3, <1>4 DEF TrainedRows
  <2>2. \A p \in Rows : p + 1 \in 1..NumData /\ (p + 1) - 1 = p
    BY <1>1 DEF Rows
  <2>3. \A j \in 1..NumData : j - 1 \in Rows
    BY <1>1 DEF Rows
  <2> QED BY <2>1, <2>2, <2>3
<1>7. AskedFor(TrainedRows)
  BY <1>6 DEF AskedFor
<1>8. Trained.own
  BY <1>1, <1>3 DEF Trained
<1>9. (\A r \in Rows : Trained.added[r] = 1) /\ Trained.obeys
  BY <1>1, <1>5, <1>7 DEF Trained
<1> QED BY <1>1, <1>8, <1>9 DEF AsItShould

-----------------------------------------------------------------------------
(* The invariant is inductive *)

\* Without a lapse the last tree is as it should be.
TreeInv == lapses = {} => AsItShould(tree)

LEMMA TreeInvIs == RowsInStep /\ ObeysConfig <=> TreeInv
BY DEF RowsInStep, OwnGradients, ScoredOnce, ObeysConfig, TreeInv, AsItShould

\* What the kind of sampler says about a configuration.
LEMMA ConfigIs ==
  ASSUME setup \in Setups, NEW c \in setup.configs
  PROVE  /\ c.cnt \in 0..NumData /\ c.freq \in Nat /\ CopiesRows(c) \in BOOLEAN
         /\ Goss => ~Bags(c) /\ c.choose = "goss"
         /\ ~Goss => c.choose \in {"all", "plain", "balanced"}
         /\ Bags(c) => c.choose \in {"plain", "balanced"}
         /\ NumData \in Nat
<1>1. IsConfig(c, setup.strategy) /\ NumData \in Nat
  BY SampleAssumption
<1>2. CopiesRows(c) \in BOOLEAN
  <2>1. setup.narrow \in BOOLEAN
    BY SampleAssumption
  <2>2. (2 * c.cnt <= NumData) \in BOOLEAN /\ (2 * c.cnt <= NumData * c.freq) \in BOOLEAN
    OBVIOUS
  <2> QED BY <2>1, <2>2, Zenon DEF CopiesRows
<1> QED BY <1>1, <1>2 DEF IsConfig, Goss, Bags

LEMMA InitKeeps ==
  ASSUME Init
  PROVE  TypeOK /\ SamplerInv /\ KindInv /\ BagInv /\ TreeInv
<1> USE DEF Init
<1>1. setup \in Setups /\ config \in setup.configs
  OBVIOUS
<1>2. /\ config.cnt \in 0..NumData /\ NumData \in Nat /\ CopiesRows(config) \in BOOLEAN
      /\ Goss => ~Bags(config) /\ config.choose = "goss"
      /\ Bags(config) => config.choose \in {"plain", "balanced"}
  BY <1>1, ConfigIs
<1>3. TypeOK
  <2>1. iter \in 0..MaxIter
    BY SampleAssumption
  <2>2. bag_data_cnt \in 0..NumData
    BY <1>2
  <2>3. bag_data_indices \in [Rows -> Rows]
    BY <1>2 DEF Zeros, Rows
  <2>4. Len(tmp_subset) <= NumData
    BY <1>2
  <2>5. learner \in [data : {"full", "subset", "freed"}, used : BOOLEAN, cnt : 0..NumData]
    BY <1>2
  <2>6. need_re_bagging \in BOOLEAN /\ bagged \in BOOLEAN /\ balanced_bagging \in BOOLEAN
    BY DEF Goss, Bags
  <2>7. cleared \in BOOLEAN /\ is_use_subset \in BOOLEAN
    BY DEF Goss, Bags
  <2>8. cleared => bag_data_cnt = NumData /\ ~is_use_subset
    BY <1>2
  <2> QED BY <1>1, <2>1, <2>2, <2>3, <2>4, <2>5, <2>6, <2>7, <2>8 DEF TypeOK
<1>4. SamplerInv
  BY <1>2 DEF SamplerInv
<1>5. KindInv
  BY <1>2 DEF KindInv, HasBag
<1>6. BagInv
  BY DEF BagInv
<1>7. TreeInv
  BY NoTreeIsFine DEF TreeInv
<1> QED BY <1>3, <1>4, <1>5, <1>6, <1>7

\* A draw.
LEMMA DrawKeeps ==
  ASSUME TypeOK, SamplerInv, KindInv, BagInv, iter < MaxIter, bagged' = TRUE,
         NEW bag \in SUBSET Rows, Draw(bag), UNCHANGED <<setup, config, iter>>
  PROVE  TypeOK' /\ SamplerInv' /\ KindInv' /\ BagInv'
<1> DEFINE n == Cardinality(bag)
<1>1. n \in 0..NumData /\ NumData \in Nat
  BY RowsFinite
<1>2. setup \in Setups /\ config \in setup.configs /\ bag_data_indices \in [Rows -> Rows]
  BY DEF TypeOK
<1>3. /\ Goss => ~Bags(config)
      /\ Bags(config) => config.choose \in {"plain", "balanced"}
  BY <1>2, ConfigIs
<1>4. Goss' = Goss /\ Bags(config)' = Bags(config) /\ CopiesRows(config)' = CopiesRows(config)
  BY DEF Goss, Bags, CopiesRows
<1>5. /\ IndicesWith(bag) \in [Rows -> Rows]
      /\ \A p \in 0..(n - 1) : IndicesWith(bag)[p] = Ascending(bag)[p + 1]
      /\ ~setup.byQuery =>
           /\ \A p, q \in Rows : IndicesWith(bag)[p] = IndicesWith(bag)[q] => p = q
           /\ \A r \in Rows : \E p \in Rows : IndicesWith(bag)[p] = r
  BY <1>2, IndicesInOrder
<1>6. /\ bag_data_cnt' = n /\ bag_data_indices' = IndicesWith(bag) /\ need_re_bagging' = FALSE
      /\ tmp_subset' = IF is_use_subset THEN Ascending(bag) ELSE tmp_subset
      /\ learner' = LearnerWith(n)
      /\ cleared' = cleared /\ is_use_subset' = is_use_subset
      /\ balanced_bagging' = balanced_bagging
      /\ rule' = IF Goss THEN "goss" ELSE IF balanced_bagging THEN "balanced" ELSE "plain"
      /\ lapses' = (lapses \ {"request lost", "sampling stopped"}) \cup
                   (IF setup.byQuery /\ ~is_use_subset THEN {"by query"} ELSE {})
  BY DEF Draw
<1>7. DrawsNow /\ (Goss \/ Bags(config))
  BY DEF Draw, DrawsNow
<1>8. ~cleared
  BY <1>7 DEF SamplerInv
<1>9. /\ learner' \in [data : {"full", "subset", "freed"}, used : BOOLEAN, cnt : 0..NumData]
      /\ IF is_use_subset THEN learner'.data = "subset" /\ learner'.used = learner.used
         ELSE learner'.used = TRUE /\ learner'.cnt = n /\ learner'.data = learner.data
  <2>1. learner \in [data : {"full", "subset", "freed"}, used : BOOLEAN, cnt : 0..NumData]
    BY DEF TypeOK
  <2>2. learner' = IF is_use_subset THEN [learner EXCEPT !.data = "subset"]
                   ELSE [learner EXCEPT !.used = TRUE, !.cnt = n]
    BY <1>6 DEF LearnerWith
  <2> HIDE DEF n
  <2> QED BY <2>1, <2>2, <1>1
<1>10. lapses' \subseteq Passing => lapses \subseteq Passing /\ (setup.byQuery => is_use_subset)
  BY <1>6 DEF Passing
<1>11. Ascending(bag) \in Seq(Rows) /\ Len(Ascending(bag)) = n
  <2> DEFINE s == Ascending(bag)
  <2>1. s \in [1..n -> bag]
    BY AscendingIs
  <2> HIDE DEF s, n
  <2>2. n \in Nat /\ s \in [1..n -> Rows]
    BY <2>1, <1>1
  <2>3. s \in Seq(Rows) /\ Len(s) = n
    BY <2>2
  <2> QED BY <2>3 DEF s, n
<1> HIDE DEF n
<1>12. TypeOK'
  <2>1. bag_data_cnt' \in 0..NumData /\ bag_data_indices' \in [Rows -> Rows]
    BY <1>1, <1>5, <1>6
  <2>2. Len(tmp_subset') <= NumData
    <3>1. Len(tmp_subset) <= NumData
      BY DEF TypeOK
    <3>2. CASE is_use_subset
      <4>1. Len(tmp_subset') = n
        BY <3>2, <1>6, <1>11, Zenon
      <4> QED BY <4>1, <1>1
    <3>3. CASE ~is_use_subset
      <4>1. tmp_subset' = tmp_subset
        BY <3>3, <1>6
      <4> QED BY <3>1, <4>1
    <3> QED BY <3>2, <3>3
  <2>3. /\ setup' \in Setups /\ config' \in setup'.configs /\ iter' \in 0..MaxIter
        /\ need_re_bagging' \in BOOLEAN /\ bagged' \in BOOLEAN /\ balanced_bagging' \in BOOLEAN
        /\ cleared' \in BOOLEAN /\ is_use_subset' \in BOOLEAN
    BY <1>6 DEF TypeOK
  <2> QED BY <2>1, <2>2, <2>3, <1>6, <1>8, <1>9 DEF TypeOK
<1>13. SamplerInv'
  <2>1. ~Goss => learner'.data # "freed"
    BY <1>9 DEF SamplerInv
  <2>2. /\ Goss => is_use_subset = CopiesRows(config)
        /\ ~Goss /\ Bags(config) => is_use_subset = CopiesRows(config)
        /\ ~Goss /\ Bags(config) /\ config.choose = "balanced" => balanced_bagging
    BY Zenon DEF SamplerInv
  <2>3. bagged' => iter' < MaxIter
    OBVIOUS
  <2> QED BY <2>1, <2>2, <2>3, <1>4, <1>6, <1>7, <1>8, Zenon DEF SamplerInv
<1>14. KindInv'
  <2> SUFFICES ASSUME lapses' \subseteq Passing PROVE KindInv'
    BY DEF KindInv
  <2>1. /\ learner.used => ~is_use_subset
        /\ learner.data # "full" => is_use_subset
        /\ ~Goss /\ config.choose = "plain" => ~balanced_bagging
    BY <1>10 DEF KindInv
  <2>2. learner'.used => ~is_use_subset
    BY <2>1, <1>9
  <2>3. learner'.data # "full" => is_use_subset
    BY <2>1, <1>9
  <2> QED BY <2>1, <2>2, <2>3, <1>4, <1>6, <1>7 DEF KindInv
<1>15. BagInv'
  <2> SUFFICES ASSUME lapses' = {} PROVE BagInv'
    BY DEF BagInv
  <2>1. lapses' \subseteq Passing
    OBVIOUS
  <2>2. /\ learner.used => ~is_use_subset
        /\ learner.data # "full" => is_use_subset
        /\ ~Goss /\ config.choose = "plain" => ~balanced_bagging
    BY <2>1, <1>10 DEF KindInv
  <2>3. InFront(bag)'
    BY <1>5, <1>6 DEF InFront, n
  <2>4. Settled(bag)'
    <3>1. CASE is_use_subset
      <4>1. ~learner'.used /\ learner'.data = "subset" /\ tmp_subset' = Ascending(bag)
        BY <3>1, <2>2, <1>6, <1>9
      <4> QED BY <4>1, <3>1, <2>3, <1>6 DEF Settled
    <3>2. CASE ~is_use_subset
      <4>1. learner'.used /\ learner'.data = "full" /\ learner'.cnt = bag_data_cnt'
        BY <3>2, <2>2, <1>6, <1>9
      <4>2. EveryRowOnce'
        BY <3>2, <2>1, <1>5, <1>6, <1>10 DEF EveryRowOnce, Rows
      <4> QED BY <4>1, <4>2, <3>2, <2>3, <1>6 DEF Settled
    <3> QED BY <3>1, <3>2
  <2>5. BagSettled'
    BY <2>4 DEF BagSettled, Rows
  <2>6. ~Goss => rule' = config.choose
    BY <2>2, <1>3, <1>6, <1>7 DEF SamplerInv
  <2>7. Goss => iter >= config.start
    BY <1>7 DEF DrawsNow
  <2> QED BY <2>5, <2>6, <2>7, <1>4, <1>6 DEF BagInv
<1> QED BY <1>12, <1>13, <1>14, <1>15

\* No draw is due.
LEMMA DrawNothingKeeps ==
  ASSUME TypeOK, SamplerInv, KindInv, BagInv, iter < MaxIter, bagged' = TRUE,
         DrawNothing, UNCHANGED <<setup, config, iter>>
  PROVE  TypeOK' /\ SamplerInv' /\ KindInv' /\ BagInv'
<1>1. NumData \in Nat
  BY SampleAssumption
<1>2. Goss' = Goss /\ Bags(config)' = Bags(config) /\ CopiesRows(config)' = CopiesRows(config)
      /\ HasBag' = HasBag
  BY DEF Goss, Bags, CopiesRows, HasBag, DrawNothing
<1>3. /\ bag_data_cnt' = IF Goss THEN NumData ELSE bag_data_cnt
      /\ lapses' = lapses \cup (IF Goss /\ HasBag THEN {"sampling stopped"} ELSE {})
      /\ UNCHANGED <<bag_data_indices, cleared, is_use_subset, balanced_bagging, tmp_subset,
                     learner, need_re_bagging, rule>>
  BY DEF DrawNothing
<1>4. lapses' \subseteq Passing => lapses \subseteq Passing
  BY <1>3
<1>5. TypeOK'
  <2>1. bag_data_cnt' \in 0..NumData
    <3>1. bag_data_cnt \in 0..NumData /\ NumData \in 0..NumData
      BY <1>1 DEF TypeOK
    <3> QED BY <3>1, <1>3
  <2>2. cleared' => bag_data_cnt' = NumData /\ ~is_use_subset'
    BY <1>3 DEF TypeOK
  <2>3. Rows' = Rows
    BY DEF Rows
  <2>4. Len(tmp_subset') <= NumData
    <3>1. tmp_subset' = tmp_subset
      BY <1>3
    <3> QED BY <3>1 DEF TypeOK
  <2>5. /\ setup' = setup /\ config' = config /\ iter' = iter /\ bagged' \in BOOLEAN
        /\ need_re_bagging' = need_re_bagging /\ balanced_bagging' = balanced_bagging
        /\ cleared' = cleared /\ is_use_subset' = is_use_subset
        /\ bag_data_indices' = bag_data_indices /\ learner' = learner
    BY <1>3
  <2> QED BY <2>1, <2>2, <2>3, <2>4, <2>5, Zenon DEF TypeOK
<1>6. SamplerInv'
  <2>1. bagged' => iter' < MaxIter
    OBVIOUS
  <2>2. ~Goss => bag_data_cnt' = bag_data_cnt
    BY <1>3
  <2>3. /\ is_use_subset' = is_use_subset /\ cleared' = cleared /\ learner' = learner
        /\ balanced_bagging' = balanced_bagging /\ config' = config
    BY <1>3
  <2> QED BY <2>1, <2>2, <2>3, <1>2, Zenon DEF SamplerInv
<1>7. KindInv'
  BY <1>2, <1>3, <1>4 DEF KindInv
<1>8. BagInv'
  <2> SUFFICES ASSUME lapses' = {} PROVE BagInv'
    BY DEF BagInv
  <2>1. lapses = {} /\ ~(Goss /\ HasBag)
    BY <1>3
  <2>2. CASE Goss
    <3>1. NoBag'
      BY <2>1, <2>2, <1>2, <1>3 DEF NoBag
    <3>2. ~(iter >= config.start)
      BY <2>2 DEF DrawNothing, DrawsNow
    <3> QED BY <2>2, <3>1, <3>2, <1>2 DEF BagInv
  <2>3. CASE ~Goss
    <3>1. Bags(config) => ~need_re_bagging
      BY <2>3 DEF DrawNothing, DrawsNow
    <3>2. BagSettled' = BagSettled
      <4>1. bag_data_cnt' = bag_data_cnt
        BY <2>3, <1>3
      <4> QED BY <4>1, <1>3 DEF BagSettled, Settled, InFront, EveryRowOnce, Rows
    <3> QED BY <2>1, <2>3, <3>1, <3>2, <1>2, <1>3 DEF BagInv
  <2> QED BY <2>2, <2>3
<1> QED BY <1>5, <1>6, <1>7, <1>8

\* What does not depend on the sampler.
LEMMA TypeParts ==
  ASSUME TypeOK
  PROVE  /\ setup \in Setups /\ config \in setup.configs /\ iter \in 0..MaxIter
         /\ need_re_bagging \in BOOLEAN /\ bagged \in BOOLEAN /\ balanced_bagging \in BOOLEAN
         /\ cleared \in BOOLEAN /\ is_use_subset \in BOOLEAN
         /\ bag_data_cnt \in 0..NumData
         /\ bag_data_indices \in [Rows -> Rows]
         /\ Len(tmp_subset) <= NumData
         /\ learner \in [data : {"full", "subset", "freed"}, used : BOOLEAN, cnt : 0..NumData]
         /\ cleared => bag_data_cnt = NumData /\ ~is_use_subset
BY DEF TypeOK

LEMMA BooleanVariables ==
  ASSUME TypeOK
  PROVE  /\ need_re_bagging \in BOOLEAN /\ balanced_bagging \in BOOLEAN
         /\ cleared \in BOOLEAN /\ is_use_subset \in BOOLEAN
BY TypeParts, Zenon

\* The sampler after a reset is of the kind the new configuration asks for.
LEMMA ResetSampler ==
  ASSUME TypeOK, SamplerInv, NEW c \in setup.configs, NEW d \in BOOLEAN, ResetSampleConfig(c, d)
  PROVE  /\ need_re_bagging' \in BOOLEAN /\ balanced_bagging' \in BOOLEAN
         /\ cleared' \in BOOLEAN /\ is_use_subset' \in BOOLEAN
         /\ bag_data_cnt' \in 0..NumData /\ bag_data_indices' \in [Rows -> Rows]
         /\ Len(tmp_subset') <= NumData
         /\ cleared' => bag_data_cnt' = NumData /\ ~is_use_subset'
         /\ Goss \/ Bags(c) => is_use_subset' = CopiesRows(c) /\ ~cleared'
         /\ ~Goss /\ ~Bags(c) => ~is_use_subset' /\ bag_data_cnt' = NumData
         /\ ~Goss /\ Bags(c) /\ c.choose = "balanced" => balanced_bagging'
<1>1. /\ c.cnt \in 0..NumData /\ CopiesRows(c) \in BOOLEAN /\ NumData \in 0..NumData
      /\ Goss => ~Bags(c)
  <2>1. setup \in Setups
    BY TypeParts
  <2> QED BY <2>1, ConfigIs
<1>2. bag_data_indices \in [Rows -> Rows] /\ Zeros \in [Rows -> Rows] /\ bag_data_cnt \in 0..NumData
      /\ Len(tmp_subset) <= NumData /\ Len(<<>>) <= NumData
      /\ (cleared => bag_data_cnt = NumData /\ ~is_use_subset)
  <2>1. Zeros \in [Rows -> Rows]
    BY <1>1 DEF Zeros, Rows
  <2>2. Len(<<>>) <= NumData
    BY <1>1
  <2> QED BY <2>1, <2>2, TypeParts, Zenon
<1>3. CASE Goss /\ ResetGoss(c)
  <2>1. /\ balanced_bagging' = FALSE /\ cleared' = FALSE /\ need_re_bagging' = need_re_bagging
        /\ bag_data_indices' = IF cleared THEN Zeros ELSE bag_data_indices
        /\ is_use_subset' = CopiesRows(c) /\ bag_data_cnt' = NumData
        /\ tmp_subset' = IF CopiesRows(c) THEN <<>> ELSE tmp_subset
    BY <1>3 DEF ResetGoss
  <2>2. Len(tmp_subset') <= NumData /\ bag_data_indices' \in [Rows -> Rows]
    BY <2>1, <1>2, Zenon
  <2> QED BY <2>1, <2>2, <1>1, <1>3, BooleanVariables, Zenon
<1>4. CASE ~Goss /\ Bags(c) /\ SameBagging(c) /\ KeepBagging
  <2>1. /\ need_re_bagging' = FALSE /\ bag_data_cnt' = bag_data_cnt
        /\ bag_data_indices' = bag_data_indices /\ cleared' = cleared
        /\ is_use_subset' = is_use_subset /\ balanced_bagging' = balanced_bagging
        /\ tmp_subset' = tmp_subset
    BY <1>4 DEF KeepBagging
  <2>2. Bags(config) /\ CopiesRows(config) = CopiesRows(c) /\ c.choose = config.choose
    BY <1>4 DEF SameBagging, Bags, CopiesRows
  <2>3. is_use_subset = CopiesRows(c) /\ ~cleared
        /\ (c.choose = "balanced" => balanced_bagging)
    BY <1>4, <2>2, Zenon DEF SamplerInv
  <2> QED BY <2>1, <2>3, <1>2, <1>4, BooleanVariables, Zenon
<1>5. CASE ~Goss /\ Bags(c) /\ EnableBagging(c)
  <2>1. /\ need_re_bagging' = TRUE /\ bag_data_cnt' = c.cnt /\ cleared' = FALSE
        /\ bag_data_indices' = IF cleared THEN Zeros ELSE bag_data_indices
        /\ is_use_subset' = CopiesRows(c)
        /\ balanced_bagging' = (balanced_bagging \/ c.choose = "balanced")
        /\ tmp_subset' = tmp_subset
    BY <1>5 DEF EnableBagging
  <2>2. bag_data_indices' \in [Rows -> Rows]
    BY <2>1, <1>2, Zenon
  <2> QED BY <2>1, <2>2, <1>1, <1>2, <1>5, BooleanVariables, Zenon
<1>6. CASE ~Goss /\ ~Bags(c) /\ DisableBagging
  <2>1. /\ bag_data_cnt' = NumData /\ cleared' = TRUE /\ is_use_subset' = FALSE
        /\ need_re_bagging' = need_re_bagging /\ bag_data_indices' = bag_data_indices
        /\ balanced_bagging' = balanced_bagging /\ tmp_subset' = tmp_subset
    BY <1>6 DEF DisableBagging
  <2> QED BY <2>1, <1>1, <1>2, <1>6, BooleanVariables, Zenon
<1> QED BY <1>3, <1>4, <1>5, <1>6, Zenon DEF ResetSampleConfig

\* Steps that leave the sampler and the learner alone.
LEMMA IterationKeeps ==
  ASSUME TypeOK, SamplerInv, KindInv, BagInv, iter' \in 0..MaxIter, bagged' = FALSE,
         UNCHANGED <<setup, config, sampler, learner, rule, lapses>>
  PROVE  TypeOK' /\ SamplerInv' /\ KindInv' /\ BagInv'
<1>1. /\ setup' = setup /\ config' = config /\ learner' = learner /\ rule' = rule
      /\ lapses' = lapses /\ need_re_bagging' = need_re_bagging
      /\ bag_data_cnt' = bag_data_cnt /\ bag_data_indices' = bag_data_indices
      /\ cleared' = cleared /\ is_use_subset' = is_use_subset
      /\ balanced_bagging' = balanced_bagging /\ tmp_subset' = tmp_subset
  BY DEF sampler
<1>2. /\ Goss' = Goss /\ Bags(config)' = Bags(config) /\ CopiesRows(config)' = CopiesRows(config)
      /\ HasBag' = HasBag
  BY <1>1 DEF Goss, Bags, CopiesRows, HasBag
<1>3. BagSettled' = BagSettled
  BY <1>1 DEF BagSettled, Settled, InFront, EveryRowOnce, Rows
<1>4. TypeOK'
  <2>1. /\ need_re_bagging \in BOOLEAN /\ bagged \in BOOLEAN /\ balanced_bagging \in BOOLEAN
        /\ cleared \in BOOLEAN /\ is_use_subset \in BOOLEAN
    BY TypeParts, Zenon
  <2>2. bag_data_indices' \in [Rows' -> Rows'] /\ Len(tmp_subset') <= NumData
    BY <1>1, TypeParts DEF Rows
  <2>3. bagged' \in BOOLEAN
    OBVIOUS
  <2> QED BY <1>1, <2>1, <2>2, <2>3, TypeParts DEF TypeOK
<1>5. SamplerInv'
  BY <1>1, <1>2, Zenon DEF SamplerInv
<1>6. KindInv'
  BY <1>1, <1>2 DEF KindInv
<1>7. BagInv'
  BY <1>1, <1>2, <1>3 DEF BagInv
<1> QED BY <1>4, <1>5, <1>6, <1>7

LEMMA ResetConfigKeeps ==
  ASSUME TypeOK, SamplerInv, KindInv, BagInv, NEW c \in setup.configs, ResetConfig(c)
  PROVE  TypeOK' /\ SamplerInv' /\ KindInv' /\ BagInv'
<1>1. /\ ~bagged /\ lapses' = lapses \cup Lapse(c) /\ ResetSampleConfig(c, FALSE)
      /\ learner' = IF Goss /\ CopiesRows(c) /\ learner.data = "subset"
                      THEN [learner EXCEPT !.data = "freed"] ELSE learner
      /\ config' = c /\ setup' = setup /\ iter' = iter /\ bagged' = bagged /\ rule' = rule
  BY DEF ResetConfig
<1>2. /\ setup \in Setups /\ config \in setup.configs /\ iter \in 0..MaxIter
      /\ learner \in [data : {"full", "subset", "freed"}, used : BOOLEAN, cnt : 0..NumData]
      /\ bagged \in BOOLEAN
  BY TypeParts, Zenon
<1>3. /\ CopiesRows(c) \in BOOLEAN
      /\ Goss => ~Bags(c) /\ c.choose = "goss"
  BY <1>2, ConfigIs
<1>4. /\ need_re_bagging' \in BOOLEAN /\ balanced_bagging' \in BOOLEAN
      /\ cleared' \in BOOLEAN /\ is_use_subset' \in BOOLEAN
      /\ bag_data_cnt' \in 0..NumData /\ bag_data_indices' \in [Rows -> Rows]
      /\ Len(tmp_subset') <= NumData
      /\ (cleared' => bag_data_cnt' = NumData /\ ~is_use_subset')
  <2>1. FALSE \in BOOLEAN
    OBVIOUS
  <2> QED BY <1>1, <2>1, ResetSampler, Zenon
<1>5. /\ Goss \/ Bags(c) => is_use_subset' = CopiesRows(c) /\ ~cleared'
      /\ ~Goss /\ ~Bags(c) => ~is_use_subset' /\ bag_data_cnt' = NumData
      /\ ~Goss /\ Bags(c) /\ c.choose = "balanced" => balanced_bagging'
  <2>1. FALSE \in BOOLEAN
    OBVIOUS
  <2> QED BY <1>1, <2>1, ResetSampler, Zenon
<1>6. /\ Goss' = Goss /\ Bags(config)' = Bags(c) /\ CopiesRows(config)' = CopiesRows(c)
      /\ Rows' = Rows
  BY <1>1 DEF Goss, Bags, CopiesRows, Rows
<1>7. /\ learner' \in [data : {"full", "subset", "freed"}, used : BOOLEAN, cnt : 0..NumData]
      /\ learner'.used = learner.used
      /\ ~Goss => learner' = learner
      /\ learner'.data # "full" => learner.data # "full"
  BY <1>1, <1>2
<1>8. TypeOK'
  BY <1>1, <1>2, <1>4, <1>6, <1>7, Zenon DEF TypeOK
<1>9. SamplerInv'
  <2>1. ~Goss => learner'.data # "freed"
    BY <1>7 DEF SamplerInv
  <2> QED BY <2>1, <1>1, <1>3, <1>5, <1>6, Zenon DEF SamplerInv
<1>10. ASSUME lapses' \subseteq Passing
       PROVE  /\ lapses \subseteq Passing
              /\ ~(~Goss /\ HasBag /\ ~Bags(c))
              /\ ~(learner.used /\ CopiesRows(c)) /\ ~(learner.data # "full" /\ ~CopiesRows(c))
              /\ ~(balanced_bagging /\ c.choose = "plain")
  <2>1. lapses \subseteq Passing /\ Lapse(c) \subseteq Passing
    BY <1>1, <1>10
  <2>2. "switched off" \notin Passing /\ "other kind of bag" \notin Passing
        /\ "balanced for good" \notin Passing
    BY DEF Passing
  <2>3. "switched off" \notin Lapse(c) /\ "other kind of bag" \notin Lapse(c)
        /\ "balanced for good" \notin Lapse(c)
    BY <2>1, <2>2
  <2> QED BY <2>1, <2>3 DEF Lapse
<1>11. KindInv'
  <2> SUFFICES ASSUME lapses' \subseteq Passing PROVE KindInv'
    BY DEF KindInv
  <2>1. /\ lapses \subseteq Passing
        /\ ~(~Goss /\ HasBag /\ ~Bags(c))
        /\ ~(learner.used /\ CopiesRows(c)) /\ ~(learner.data # "full" /\ ~CopiesRows(c))
        /\ ~(balanced_bagging /\ c.choose = "plain")
    BY <1>10
  <2>2. CASE Goss \/ Bags(c)
    <3>1. learner'.used => ~is_use_subset'
      BY <2>1, <2>2, <1>5, <1>7
    <3>2. learner'.data # "full" => is_use_subset'
      BY <2>1, <2>2, <1>5, <1>7
    <3>3. ~Goss /\ c.choose = "plain" => ~balanced_bagging'
      <4> SUFFICES ASSUME ~Goss, c.choose = "plain" PROVE ~balanced_bagging'
        OBVIOUS
      <4>1. CASE KeepBagging
        BY <4>1, <2>1 DEF KeepBagging
      <4>2. CASE EnableBagging(c)
        BY <4>2, <2>1 DEF EnableBagging
      <4>3. CASE DisableBagging
        BY <4>3, <2>1 DEF DisableBagging
      <4> QED BY <4>1, <4>2, <4>3, <1>1 DEF ResetSampleConfig
    <3> QED BY <3>1, <3>2, <3>3, <2>2, <1>1, <1>6 DEF KindInv
  <2>3. CASE ~Goss /\ ~Bags(c)
    <3>1. ~HasBag /\ learner' = learner
      BY <2>1, <2>3, <1>7
    <3>2. ~learner.used /\ learner.data = "full"
      BY <3>1 DEF HasBag
    <3>3. DisableBagging
      BY <2>3, <1>1 DEF ResetSampleConfig
    <3>4. balanced_bagging' = balanced_bagging
      BY <3>3 DEF DisableBagging
    <3> QED BY <3>1, <3>2, <3>4, <2>1, <1>1, <1>6 DEF KindInv, HasBag
  <2> QED BY <2>2, <2>3
<1>12. BagInv'
  <2> SUFFICES ASSUME lapses' = {} PROVE BagInv'
    BY DEF BagInv
  <2>1. lapses = {} /\ Lapse(c) = {}
    BY <1>1
  <2> SUFFICES ASSUME ~Goss, Bags(c), ~need_re_bagging' PROVE BagSettled' /\ rule' = c.choose
    BY <1>1, <1>6 DEF BagInv
  <2>2. SameBagging(c) /\ KeepBagging
    BY <1>1 DEF ResetSampleConfig, EnableBagging
  <2>3. Bags(config) /\ c.choose = config.choose
    BY <2>2 DEF SameBagging, Bags
  <2>4. ~need_re_bagging
    <3>1. "request lost" \notin Lapse(c)
      BY <2>1
    <3> QED BY <3>1, <2>2 DEF Lapse
  <2>5. BagSettled /\ rule = config.choose
    BY <2>1, <2>3, <2>4 DEF BagInv
  <2>6. BagSettled' = BagSettled
    <3>1. learner' = learner
      BY <1>7
    <3> QED BY <3>1, <2>2 DEF KeepBagging, BagSettled, Settled, InFront, EveryRowOnce, Rows
  <2> QED BY <2>3, <2>5, <2>6, <1>1
<1> QED BY <1>8, <1>9, <1>11, <1>12

LEMMA ResetTrainingDataKeeps ==
  ASSUME TypeOK, SamplerInv, KindInv, BagInv, ResetTrainingData
  PROVE  TypeOK' /\ SamplerInv' /\ KindInv' /\ BagInv'
<1>1. /\ ~bagged /\ lapses' = lapses /\ ResetSampleConfig(config, TRUE)
      /\ learner' = [learner EXCEPT !.data = "full"]
      /\ config' = config /\ setup' = setup /\ iter' = iter /\ bagged' = bagged /\ rule' = rule
  BY DEF ResetTrainingData
<1>2. /\ setup \in Setups /\ config \in setup.configs /\ iter \in 0..MaxIter
      /\ learner \in [data : {"full", "subset", "freed"}, used : BOOLEAN, cnt : 0..NumData]
      /\ bagged \in BOOLEAN
  BY TypeParts, Zenon
<1>3. /\ CopiesRows(config) \in BOOLEAN
      /\ Goss => ~Bags(config) /\ config.choose = "goss"
  BY <1>2, ConfigIs
<1>4. /\ need_re_bagging' \in BOOLEAN /\ balanced_bagging' \in BOOLEAN
      /\ cleared' \in BOOLEAN /\ is_use_subset' \in BOOLEAN
      /\ bag_data_cnt' \in 0..NumData /\ bag_data_indices' \in [Rows -> Rows]
      /\ Len(tmp_subset') <= NumData
      /\ (cleared' => bag_data_cnt' = NumData /\ ~is_use_subset')
  <2>1. TRUE \in BOOLEAN
    OBVIOUS
  <2> QED BY <1>1, <1>2, <2>1, ResetSampler, Zenon
<1>5. /\ Goss \/ Bags(config) => is_use_subset' = CopiesRows(config) /\ ~cleared'
      /\ ~Goss /\ ~Bags(config) => ~is_use_subset' /\ bag_data_cnt' = NumData
      /\ ~Goss /\ Bags(config) /\ config.choose = "balanced" => balanced_bagging'
  <2>1. TRUE \in BOOLEAN
    OBVIOUS
  <2> QED BY <1>1, <1>2, <2>1, ResetSampler, Zenon
<1>6. /\ Goss' = Goss /\ Bags(config)' = Bags(config) /\ CopiesRows(config)' = CopiesRows(config)
      /\ Rows' = Rows
  BY <1>1 DEF Goss, Bags, CopiesRows, Rows
<1>7. /\ learner' \in [data : {"full", "subset", "freed"}, used : BOOLEAN, cnt : 0..NumData]
      /\ learner'.used = learner.used /\ learner'.data = "full"
  BY <1>1, <1>2
<1>8. TypeOK'
  BY <1>1, <1>2, <1>4, <1>6, <1>7, Zenon DEF TypeOK
<1>9. SamplerInv'
  <2>1. learner'.data # "freed"
    BY <1>7
  <2> QED BY <2>1, <1>1, <1>3, <1>5, <1>6, Zenon DEF SamplerInv
<1>10. KindInv'
  <2> SUFFICES ASSUME lapses' \subseteq Passing PROVE KindInv'
    BY DEF KindInv
  <2>1. /\ learner.used => ~is_use_subset
        /\ ~Goss /\ config.choose = "plain" => ~balanced_bagging
        /\ ~Goss /\ ~Bags(config) => ~HasBag
    BY <1>1 DEF KindInv
  <2>2. ~Goss /\ config.choose = "plain" => ~balanced_bagging'
    <3> SUFFICES ASSUME ~Goss, config.choose = "plain" PROVE ~balanced_bagging'
      OBVIOUS
    <3>1. CASE EnableBagging(config)
      BY <3>1, <2>1 DEF EnableBagging
    <3>2. CASE DisableBagging
      BY <3>2, <2>1 DEF DisableBagging
    <3> QED BY <3>1, <3>2, <1>1 DEF ResetSampleConfig
  <2>3. learner'.used => ~is_use_subset'
    <3>1. CASE Goss \/ Bags(config)
      <4>1. is_use_subset = CopiesRows(config) /\ is_use_subset' = CopiesRows(config)
        BY <3>1, <1>5, Zenon DEF SamplerInv
      <4> QED BY <4>1, <2>1, <1>7
    <3>2. CASE ~Goss /\ ~Bags(config)
      BY <3>2, <1>5
    <3> QED BY <3>1, <3>2
  <2>4. ~Goss /\ ~Bags(config) => ~learner'.used
    BY <2>1, <1>7 DEF HasBag
  <2> QED BY <2>2, <2>3, <2>4, <1>1, <1>6, <1>7 DEF KindInv, HasBag
<1>11. BagInv'
  <2> SUFFICES ASSUME ~Goss, Bags(config) PROVE need_re_bagging'
    BY <1>1, <1>6 DEF BagInv
  <2>1. EnableBagging(config)
    BY <1>1 DEF ResetSampleConfig
  <2> QED BY <2>1 DEF EnableBagging
<1> QED BY <1>8, <1>9, <1>10, <1>11

\* The tree of an iteration under way.
LEMMA TrainedAsItShould ==
  ASSUME TypeOK, BagInv, KindInv, SamplerInv, lapses = {}, bagged
  PROVE  AsItShould(Trained) /\ Defined
<1>1. Goss => ~Bags(config)
  BY TypeParts, ConfigIs
<1>2. CASE ~Goss /\ Bags(config)
  <2>1. BagSettled /\ rule = config.choose
    BY <1>2 DEF BagInv
  <2> QED BY <2>1, <1>2, TrainedOnBag DEF BagSettled
<1>3. CASE ~Goss /\ ~Bags(config)
  <2>1. ~HasBag /\ bag_data_cnt = NumData
    BY <1>3 DEF KindInv, SamplerInv
  <2> QED BY <2>1, <1>3, TrainedOnAll DEF NoBag
<1>4. CASE Goss /\ iter >= config.start
  <2>1. BagSettled
    BY <1>4 DEF BagInv
  <2> QED BY <2>1, <1>1, <1>4, TrainedOnBag DEF BagSettled
<1>5. CASE Goss /\ ~(iter >= config.start)
  <2>1. NoBag
    BY <1>5 DEF BagInv
  <2> QED BY <2>1, <1>1, <1>5, TrainedOnAll
<1> QED BY <1>2, <1>3, <1>4, <1>5

LEMMA NextKeeps ==
  ASSUME TypeOK, SamplerInv, KindInv, BagInv, TreeInv, [Next]_vars
  PROVE  TypeOK' /\ SamplerInv' /\ KindInv' /\ BagInv' /\ TreeInv'
<1>1. CASE Bagging
  <2>1. /\ ~bagged /\ iter < MaxIter /\ bagged' = TRUE /\ tree' = NoTree
        /\ UNCHANGED <<setup, config, iter>>
    BY <1>1 DEF Bagging
  <2>2. TreeInv'
    BY <2>1, NoTreeIsFine DEF TreeInv, AsItShould, Rows
  <2>3. CASE DrawNothing
    BY <2>1, <2>2, <2>3, DrawNothingKeeps
  <2>4. ASSUME NEW bag \in PossibleBags, Draw(bag) PROVE TypeOK' /\ SamplerInv' /\ KindInv' /\ BagInv'
    <3>1. bag \in SUBSET Rows
      BY DEF PossibleBags
    <3> QED BY <3>1, <2>1, <2>4, DrawKeeps
  <2> QED BY <2>2, <2>3, <2>4, <1>1 DEF Bagging
<1>2. CASE TrainTree
  <2>1. /\ bagged /\ bagged' = FALSE /\ tree' = Trained /\ iter' = iter + 1
        /\ UNCHANGED <<setup, config, sampler, learner, rule, lapses>>
    BY <1>2 DEF TrainTree
  <2>2. iter' \in 0..MaxIter
    <3>1. iter < MaxIter
      BY <2>1 DEF SamplerInv
    <3>2. iter \in 0..MaxIter /\ MaxIter \in Nat
      BY TypeParts, SampleAssumption
    <3> QED BY <3>1, <3>2, <2>1
  <2>3. TreeInv'
    BY <2>1, TrainedAsItShould DEF TreeInv, AsItShould, Rows
  <2> QED BY <2>1, <2>2, <2>3, IterationKeeps
<1>3. CASE TrainStump
  <2>1. /\ bagged /\ bagged' = FALSE /\ tree' = (IF Defined THEN NoTree ELSE Undefined) /\ iter' = iter
        /\ UNCHANGED <<setup, config, sampler, learner, rule, lapses>>
    BY <1>3 DEF TrainStump
  <2>2. TreeInv'
    BY <2>1, TrainedAsItShould, NoTreeIsFine DEF TreeInv, AsItShould, Rows
  <2>3. iter' \in 0..MaxIter
    BY <2>1, TypeParts
  <2> QED BY <2>1, <2>2, <2>3, IterationKeeps
<1>4. CASE RollbackOneIter
  <2>1. /\ ~bagged /\ bagged' = bagged /\ tree' = NoTree /\ iter > 0 /\ iter' = iter - 1
        /\ UNCHANGED <<setup, config, sampler, learner, rule, lapses>>
    BY <1>4 DEF RollbackOneIter
  <2>2. TreeInv'
    BY <2>1, NoTreeIsFine DEF TreeInv, AsItShould, Rows
  <2>3. iter' \in 0..MaxIter
    BY <2>1, TypeParts, SampleAssumption
  <2>4. bagged' = FALSE
    <3>1. bagged \in BOOLEAN
      BY TypeParts, Zenon
    <3> QED BY <3>1, <2>1
  <2> QED BY <2>1, <2>2, <2>3, <2>4, IterationKeeps
<1>5. ASSUME NEW c \in setup.configs, ResetConfig(c)
      PROVE  TypeOK' /\ SamplerInv' /\ KindInv' /\ BagInv' /\ TreeInv'
  <2>1. TreeInv'
    <3>1. /\ lapses' = lapses \cup Lapse(c)
          /\ tree' = IF learner.data = "freed" THEN Undefined ELSE tree
      BY <1>5 DEF ResetConfig
    <3>2. learner.data = "freed" => "subset deleted" \in Lapse(c)
      BY DEF Lapse
    <3>3. lapses' = {} => lapses = {} /\ tree' = tree
      BY <3>1, <3>2
    <3> QED BY <3>3 DEF TreeInv, AsItShould, Rows
  <2> QED BY <2>1, <1>5, ResetConfigKeeps
<1>6. CASE ResetTrainingData
  <2>1. TreeInv'
    BY <1>6, NoTreeIsFine DEF ResetTrainingData, TreeInv, AsItShould, Rows
  <2> QED BY <2>1, <1>6, ResetTrainingDataKeeps
<1>7. CASE UNCHANGED vars
  <2>1. /\ setup' = setup /\ config' = config /\ learner' = learner /\ rule' = rule
        /\ lapses' = lapses /\ need_re_bagging' = need_re_bagging
        /\ bag_data_cnt' = bag_data_cnt /\ bag_data_indices' = bag_data_indices
        /\ cleared' = cleared /\ is_use_subset' = is_use_subset
        /\ balanced_bagging' = balanced_bagging /\ tmp_subset' = tmp_subset
        /\ iter' = iter /\ bagged' = bagged /\ tree' = tree
    BY <1>7 DEF vars, sampler
  <2>2. TypeOK' = TypeOK
    BY <2>1 DEF TypeOK, Rows
  <2>3. SamplerInv' = SamplerInv
    BY <2>1 DEF SamplerInv, Goss, Bags, CopiesRows
  <2>4. KindInv' = KindInv
    BY <2>1 DEF KindInv, Goss, Bags, HasBag
  <2>5. BagInv' = BagInv
    BY <2>1 DEF BagInv, Goss, Bags, NoBag, HasBag, BagSettled, Settled, InFront, EveryRowOnce, Rows
  <2>6. TreeInv' = TreeInv
    BY <2>1 DEF TreeInv, AsItShould, Rows
  <2> QED BY <2>2, <2>3, <2>4, <2>5, <2>6
<1> QED BY <1>1, <1>2, <1>3, <1>4, <1>5, <1>6, <1>7 DEF Next

\* The inductive invariant is an invariant.
THEOREM Inductive == Spec => []IInv
<1>1. Init => IInv
  BY InitKeeps, TreeInvIs DEF IInv
<1>2. IInv /\ [Next]_vars => IInv'
  <2> SUFFICES ASSUME IInv, [Next]_vars PROVE IInv'
    OBVIOUS
  <2>1. TypeOK /\ SamplerInv /\ KindInv /\ BagInv /\ TreeInv
    BY TreeInvIs DEF IInv
  <2>2. TypeOK' /\ SamplerInv' /\ KindInv' /\ BagInv' /\ TreeInv'
    BY <2>1, NextKeeps
  <2>3. RowsInStep' /\ ObeysConfig'
    BY <2>2 DEF RowsInStep, OwnGradients, ScoredOnce, ObeysConfig, TreeInv, AsItShould, Rows
  <2> QED BY <2>2, <2>3 DEF IInv
<1> QED BY <1>1, <1>2, PTL DEF Spec

\* Types; a cleared buffer is used for nothing (bagging.hpp, goss.hpp).
THEOREM TypeCorrect == Spec => []TypeOK
<1>1. IInv => TypeOK
  BY DEF IInv
<1> QED BY <1>1, Inductive, PTL

\* However many rows there are, whichever parameters and data are reset when
\* and whatever was rolled back: unless a caller did one of the things listed
\* as lapses, every tree was trained with each row's own gradient and added to
\* the score of every row once (gbdt.cpp, TrainOneIter and UpdateScore).
THEOREM InStep == Spec => []RowsInStep
<1>1. IInv => RowsInStep
  BY DEF IInv
<1> QED BY <1>1, Inductive, PTL

\* Likewise every tree was trained on the rows the parameters asked for
\* (bagging.hpp and goss.hpp, Bagging and ResetSampleConfig).
THEOREM Obedient == Spec => []ObeysConfig
<1>1. IInv => ObeysConfig
  BY DEF IInv
<1> QED BY <1>1, Inductive, PTL
=============================================================================
