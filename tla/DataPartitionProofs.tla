------------------------ MODULE DataPartitionProofs -------------------------
(***************************************************************************)
(* Proofs about DataPartition, for any number of rows, leaves and threads  *)
(* and any block sizes: a parallel split is the stable split LeafPartition *)
(* promises, and a parallel bag is in order.                               *)
(***************************************************************************)
EXTENDS DataPartition, FiniteSetTheorems, NaturalsInduction, WellFoundedInduction, TLAPS

-----------------------------------------------------------------------------
(* Natural numbers *)

\* Every set of natural numbers has a least element.
LEMMA NatHasMin ==
  ASSUME NEW S, S \subseteq Nat, S # {}
  PROVE  \E m \in S : \A n \in S : m <= n
<1>1. OpToRel(<, Nat) = {ss \in Nat \X Nat : ss[1] < ss[2]}
  BY Zenon DEF OpToRel
<1> DEFINE Less == {ss \in Nat \X Nat : ss[1] < ss[2]}
<1>2. IsWellFoundedOn(Less, Nat)
  BY <1>1, NatLessThanWellFounded, Zenon
<1> HIDE DEF Less
<1>3. PICK m \in S : \A n \in S : ~(<<n, m>> \in Less)
  BY <1>2, WFMin, Zenon
<1>4. ASSUME NEW n \in S PROVE m <= n
  <2>1. n \in Nat /\ m \in Nat
    OBVIOUS
  <2>2. n < m => <<n, m>> \in Less
    BY <2>1 DEF Less
  <2> QED
    BY <1>3, <2>1, <2>2
<1> QED
  BY <1>4

\* A set of natural numbers with 0 that is closed under successor up to a bound.
LEMMA NatUpTo ==
  ASSUME NEW n \in Nat, NEW S, 0 \in S, \A k \in 0..n : k \in S /\ k < n => k + 1 \in S
  PROVE  \A k \in 0..n : k \in S
<1> SUFFICES ASSUME NEW k \in 0..n, k \notin S PROVE FALSE
  OBVIOUS
<1> DEFINE Out == {j \in 0..n : j \notin S}
<1>1. PICK m \in Out : \A j \in Out : m <= j
  <2>1. Out \subseteq Nat /\ Out # {}
    OBVIOUS
  <2> HIDE DEF Out
  <2> QED BY <2>1, NatHasMin
<1>2. m # 0 /\ m \in 0..n /\ m \notin S
  OBVIOUS
<1>3. m - 1 \in 0..n /\ m - 1 < n /\ (m - 1) + 1 = m
  BY <1>2
<1>4. m - 1 \in S
  BY <1>1, <1>3
<1> QED BY <1>2, <1>3, <1>4

-----------------------------------------------------------------------------
(* Counting the members of a set of positions *)

\* A finite set of positions.
Places(S) == S \subseteq Nat /\ \E n \in Nat : \A x \in S : x < n

LEMMA PlacesNat ==
  ASSUME NEW S, Places(S)
  PROVE  S \subseteq Nat /\ \A x \in S : x \in Nat
BY DEF Places

LEMMA PlacesFinite ==
  ASSUME NEW S, Places(S)
  PROVE  IsFiniteSet(S) /\ Cardinality(S) \in Nat
<1>1. PICK n \in Nat : \A x \in S : x < n
  BY DEF Places
<1>2. \A s \in S : s <= n
  BY <1>1 DEF Places
<1>3. IsFiniteSet(S)
  BY <1>2, FS_BoundedSetOfNaturals DEF Places
<1> QED BY <1>3, FS_CardinalityType

LEMMA PlacesSubset ==
  ASSUME NEW S, Places(S), NEW T, T \subseteq S
  PROVE  Places(T) /\ Cardinality(T) \in Nat /\ Cardinality(T) <= Cardinality(S)
<1>1. Places(T)
  BY DEF Places
<1>2. IsFiniteSet(S) /\ T \in SUBSET S
  BY PlacesFinite
<1> QED BY <1>1, <1>2, PlacesFinite, FS_Subset

LEMMA IntervalPlaces ==
  ASSUME NEW a \in Nat, NEW b \in Int
  PROVE  Places(a..b) /\ Cardinality(a..b) = IF a > b THEN 0 ELSE b - a + 1
<1>1. a..b \subseteq Nat
  OBVIOUS
<1>2. \A x \in a..b : x < (IF b >= 0 THEN b + 1 ELSE 0)
  OBVIOUS
<1>3. (IF b >= 0 THEN b + 1 ELSE 0) \in Nat
  OBVIOUS
<1>4. Places(a..b)
  BY <1>1, <1>2, <1>3 DEF Places
<1> QED BY <1>4, FS_Interval

LEMMA PlacesUnion ==
  ASSUME NEW S, Places(S), NEW T, Places(T), S \cap T = {}
  PROVE  Places(S \cup T) /\ Cardinality(S \cup T) = Cardinality(S) + Cardinality(T)
<1>1. /\ Cardinality(S) \in Nat /\ IsFiniteSet(S)
      /\ Cardinality(T) \in Nat /\ IsFiniteSet(T)
  BY PlacesFinite
<1>2. Cardinality(S \cap T) = 0
  BY FS_EmptySet
<1>3. IsFiniteSet(S \cup T) /\ Cardinality(S \cup T) = Cardinality(S) + Cardinality(T) - Cardinality(S \cap T)
  BY <1>1, FS_Union
<1>4. Cardinality(S) + Cardinality(T) - 0 = Cardinality(S) + Cardinality(T)
  BY <1>1
<1>5. Places(S \cup T)
  <2>1. PICK m \in Nat : \A x \in S : x < m
    BY DEF Places
  <2>2. PICK n \in Nat : \A x \in T : x < n
    BY DEF Places
  <2>3. \A x \in S \cup T : x < m + n
    BY <2>1, <2>2 DEF Places
  <2>4. m + n \in Nat
    OBVIOUS
  <2>5. S \subseteq Nat /\ T \subseteq Nat
    BY DEF Places
  <2> QED BY <2>3, <2>4, <2>5 DEF Places
<1> QED BY <1>2, <1>3, <1>4, <1>5

LEMMA RankType ==
  ASSUME NEW S, Places(S), NEW p
  PROVE  Rank(S, p) \in Nat /\ Cardinality(S) \in Nat /\ Rank(S, p) <= Cardinality(S)
<1>1. {x \in S : x < p} \subseteq S
  OBVIOUS
<1> QED BY <1>1, PlacesSubset, PlacesFinite DEF Rank

\* No member is below 0, and every member is below a bound.
LEMMA RankEnds ==
  ASSUME NEW S, Places(S), NEW n \in Nat, \A x \in S : x < n
  PROVE  Rank(S, 0) = 0 /\ Rank(S, n) = Cardinality(S)
<1>1. {x \in S : x < 0} = {}
  BY PlacesNat
<1>2. {x \in S : x < n} = S
  OBVIOUS
<1> QED BY <1>1, <1>2, FS_EmptySet DEF Rank

LEMMA RankStep ==
  ASSUME NEW S, Places(S), NEW p \in Nat
  PROVE  Rank(S, p + 1) = IF p \in S THEN Rank(S, p) + 1 ELSE Rank(S, p)
<1> DEFINE Low == {x \in S : x < p}
<1>0. \A x \in S : x \in Nat
  BY PlacesNat
<1>1. Low \subseteq S /\ p \notin Low
  BY PlacesNat
<1>2. IsFiniteSet(Low)
  BY <1>1, PlacesSubset, PlacesFinite
<1>3. ASSUME p \in S PROVE Rank(S, p + 1) = Rank(S, p) + 1
  <2>1. {x \in S : x < p + 1} = Low \cup {p}
    <3>1. \A x \in Nat : x < p + 1 <=> (x < p \/ x = p)
      OBVIOUS
    <3>2. \A x \in S : x < p + 1 <=> (x < p \/ x = p)
      BY <1>0, <3>1
    <3> QED BY <1>3, <3>2
  <2>2. Cardinality(Low \cup {p}) = Cardinality(Low) + 1
    BY <1>1, <1>2, FS_AddElement
  <2> QED BY <2>1, <2>2 DEF Rank
<1>4. ASSUME p \notin S PROVE Rank(S, p + 1) = Rank(S, p)
  <2>1. {x \in S : x < p + 1} = Low
    BY <1>0, <1>4
  <2> QED BY <2>1 DEF Rank
<1> QED BY <1>3, <1>4

LEMMA RankMonotone ==
  ASSUME NEW S, Places(S), NEW p \in Nat, NEW q \in Nat, p <= q
  PROVE  Rank(S, p) <= Rank(S, q)
<1>0. \A x \in S : x \in Nat
  BY PlacesNat
<1>1. {x \in S : x < p} \subseteq {x \in S : x < q} /\ {x \in S : x < q} \subseteq S
  BY <1>0
<1>2. Places({x \in S : x < q})
  BY <1>1, PlacesSubset
<1> QED BY <1>1, <1>2, PlacesSubset DEF Rank

\* Members are counted: a later position has seen one more.
LEMMA RankStrict ==
  ASSUME NEW S, Places(S), NEW p \in S, NEW q \in Nat, p < q
  PROVE  Rank(S, p) + 1 <= Rank(S, q)
<1>1. p \in Nat /\ p + 1 \in Nat /\ p + 1 <= q
  BY PlacesNat
<1> QED BY <1>1, RankStep, RankMonotone

LEMMA RankBelow ==
  ASSUME NEW S, Places(S), NEW p \in S
  PROVE  Rank(S, p) \in Nat /\ Rank(S, p) < Cardinality(S)
<1>1. p \in Nat /\ p + 1 \in Nat
  BY PlacesNat
<1>2. Rank(S, p + 1) = Rank(S, p) + 1
  BY <1>1, RankStep
<1> QED BY <1>1, <1>2, RankType

\* Two members of the same rank are the same.
LEMMA RankInjective ==
  ASSUME NEW S, Places(S), NEW p \in S, NEW q \in S, Rank(S, p) = Rank(S, q)
  PROVE  p = q
<1>1. p \in Nat /\ q \in Nat /\ Rank(S, p) \in Nat
  BY RankType DEF Places
<1> QED BY <1>1, RankStrict

\* Every rank below the number of members is the rank of a member.
LEMMA RankOnto ==
  ASSUME NEW S, Places(S), NEW k \in 0..(Cardinality(S) - 1)
  PROVE  \E p \in S : Rank(S, p) = k
<1> DEFINE Past == {p \in Nat : Rank(S, p + 1) > k}
<1>0. k \in Nat /\ k < Cardinality(S) /\ Cardinality(S) \in Nat
  BY PlacesFinite
<1>1. \A p \in Nat : Rank(S, p) \in Nat
  BY RankType
<1>2. PICK n \in Nat : \A x \in S : x < n
  BY DEF Places
<1>3. n + 1 \in Nat /\ \A x \in S : x < n + 1
  BY <1>2 DEF Places
<1>4. Rank(S, 0) = 0 /\ Rank(S, n + 1) = Cardinality(S)
  BY <1>3, RankEnds
<1>5. n \in Past
  BY <1>0, <1>4
<1>6. PICK m \in Past : \A p \in Past : m <= p
  <2>1. Past \subseteq Nat /\ Past # {}
    BY <1>5
  <2> HIDE DEF Past
  <2> QED BY <2>1, NatHasMin
<1>7. m \in Nat /\ Rank(S, m + 1) > k /\ Rank(S, m) \in Nat
  BY <1>1
<1>8. Rank(S, m) <= k
  <2>1. CASE m = 0
    BY <2>1, <1>0, <1>4
  <2>2. CASE m # 0
    <3>1. m - 1 \in Nat /\ (m - 1) + 1 = m /\ ~(m <= m - 1)
      BY <1>7, <2>2
    <3>2. m - 1 \notin Past
      BY <1>6, <3>1
    <3>3. ~(Rank(S, m) > k)
      BY <3>1, <3>2
    <3> QED BY <1>0, <1>7, <3>3
  <2> QED BY <2>1, <2>2
<1>9. Rank(S, m + 1) = IF m \in S THEN Rank(S, m) + 1 ELSE Rank(S, m)
  BY <1>7, RankStep
<1>10. m \in S /\ Rank(S, m) = k
  BY <1>0, <1>7, <1>8, <1>9
<1> QED BY <1>10

\* The k-th member, and the member of a given rank.
LEMMA NthMember ==
  ASSUME NEW S, Places(S), NEW k \in 0..(Cardinality(S) - 1)
  PROVE  Nth(S, k) \in S /\ Rank(S, Nth(S, k)) = k
<1>1. \E p \in S : Rank(S, p) = k
  BY RankOnto
<1> QED BY <1>1 DEF Nth

LEMMA NthOfRank ==
  ASSUME NEW S, Places(S), NEW p \in S
  PROVE  Nth(S, Rank(S, p)) = p
<1>1. Rank(S, p) \in 0..(Cardinality(S) - 1)
  BY RankBelow, PlacesFinite
<1>2. Nth(S, Rank(S, p)) \in S /\ Rank(S, Nth(S, Rank(S, p))) = Rank(S, p)
  BY <1>1, NthMember
<1> QED BY <1>2, RankInjective

\* Counting from a position on.
LEMMA RankFrom ==
  ASSUME NEW S, Places(S), NEW lo \in Nat, NEW hi \in Nat, NEW p \in Nat, lo <= p, p <= hi
  PROVE  Rank(S, p) = Rank(S, lo) + Rank({x \in S : lo <= x /\ x < hi}, p)
<1> DEFINE T == {x \in S : lo <= x /\ x < hi}
           Low == {x \in S : x < lo}
           High == {x \in T : x < p}
<1>0. \A x \in S : x \in Nat
  BY PlacesNat
<1>1. Low \subseteq S /\ High \subseteq S
  OBVIOUS
<1>2. Places(High) /\ Places(Low)
  BY <1>1, PlacesSubset
<1>3. {x \in S : x < p} = Low \cup High
  BY <1>0
<1>4. Low \cap High = {}
  BY <1>0
<1>5. Cardinality(Low \cup High) = Cardinality(Low) + Cardinality(High)
  BY <1>2, <1>4, PlacesUnion
<1> QED BY <1>3, <1>5 DEF Rank

-----------------------------------------------------------------------------
(* Running sums *)

RunningSum(pos, cnts, n) ==
  /\ n \in Nat /\ DOMAIN pos = 0..n /\ pos[0] = 0
  /\ \A j \in 0..(n - 1) : pos[j + 1] = pos[j] + cnts[j]

\* A running sum is what its recurrence says.
LEMMA WritePosIs ==
  ASSUME NEW n, NEW cnts, NEW pos, RunningSum(pos, cnts, n), NEW i \in 0..n
  PROVE  WritePos(cnts, i) = pos[i]
<1> USE DEF RunningSum
<1> DEFINE Sums(f) == f = [j \in 0..i |-> IF j = 0 THEN 0 ELSE f[j - 1] + cnts[j - 1]]
           part == [j \in 0..i |-> pos[j]]
<1>1. Sums(part)
  <2>1. ASSUME NEW j \in 0..i, j # 0 PROVE pos[j] = part[j - 1] + cnts[j - 1]
    <3>1. j - 1 \in 0..(n - 1) /\ (j - 1) + 1 = j /\ j - 1 \in 0..i
      BY <2>1
    <3>2. pos[(j - 1) + 1] = pos[j - 1] + cnts[j - 1]
      BY <3>1
    <3>3. part[j - 1] = pos[j - 1]
      BY <3>1
    <3> QED BY <3>1, <3>2, <3>3
  <2>2. \A j \in 0..i : pos[j] = IF j = 0 THEN 0 ELSE part[j - 1] + cnts[j - 1]
    BY <2>1
  <2> QED BY <2>2
<1>2. ASSUME NEW f, Sums(f) PROVE f[i] = pos[i]
  <2> DEFINE Same == {j \in 0..i : f[j] = pos[j]}
  <2>1. \A j \in 0..i : f[j] = IF j = 0 THEN 0 ELSE f[j - 1] + cnts[j - 1]
    BY <1>2
  <2>2. 0 \in Same
    BY <2>1
  <2>3. ASSUME NEW k \in 0..i, k \in Same, k < i PROVE k + 1 \in Same
    <3>1. k + 1 \in 0..i /\ k + 1 # 0 /\ (k + 1) - 1 = k /\ k \in 0..(n - 1)
      BY <2>3
    <3>2. f[k + 1] = f[k] + cnts[k]
      BY <2>1, <3>1
    <3>3. pos[k + 1] = pos[k] + cnts[k]
      BY <3>1
    <3> QED BY <2>3, <3>1, <3>2, <3>3
  <2>4. \A k \in 0..i : k \in Same
    <3> HIDE DEF Same
    <3> QED BY <2>2, <2>3, NatUpTo
  <2>5. i \in 0..i
    OBVIOUS
  <2> QED BY <2>4, <2>5
<1>3. WritePos(cnts, i) = (CHOOSE f : Sums(f))[i]
  BY Zenon DEF WritePos
<1> HIDE DEF Sums
<1>4. Sums(CHOOSE f : Sums(f))
  BY <1>1, Zenon
<1> QED BY <1>2, <1>3, <1>4, Zenon

LEMMA Division ==
  ASSUME NEW a \in Nat, NEW b \in Nat, b # 0
  PROVE  a \div b \in Nat /\ b * (a \div b) <= a /\ a < b * (a \div b) + b
OBVIOUS

-----------------------------------------------------------------------------
(* Blocks *)

\* The shape of a run: its blocks are long enough for all its rows.
RunShape ==
  /\ run.kind \in {"leaf", "bag"}
  /\ run.cnt \in Nat /\ run.begin \in Nat /\ run.size \in Nat /\ run.nblock \in Nat
  /\ run.begin + run.cnt <= NumData
  /\ run.cnt <= run.nblock * run.size

\* Where block i begins, and where its predecessor ends.
Lo(i) == IF i * run.size <= run.cnt THEN i * run.size ELSE run.cnt

LEMMA BlockBounds ==
  ASSUME RunShape, NEW i \in Nat
  PROVE  /\ Lo(i) \in 0..run.cnt /\ Lo(i + 1) \in 0..run.cnt /\ Lo(i) <= Lo(i + 1)
         /\ Lo(0) = 0 /\ Lo(run.nblock) = run.cnt
         /\ \A q : q \in Block(i) <=> q \in Int /\ Lo(i) <= q /\ q < Lo(i + 1)
         /\ CurStart(i) \in Nat /\ CurCnt(i) \in Int
         /\ CurCnt(i) > 0 => Lo(i) = CurStart(i) /\ Lo(i + 1) = CurStart(i) + CurCnt(i)
         /\ CurCnt(i) <= 0 => Block(i) = {} /\ Lo(i) = Lo(i + 1)
<1> DEFINE s == i * run.size
<1>1. /\ run.size \in Nat /\ run.cnt \in Nat /\ run.nblock \in Nat
      /\ run.cnt <= run.nblock * run.size
  BY DEF RunShape
<1>2. s \in Nat /\ (i + 1) * run.size = s + run.size /\ 0 * run.size = 0
  BY <1>1
<1>3. CurStart(i) = s
  BY DEF CurStart
<1>4. CurCnt(i) = IF run.size <= run.cnt - s THEN run.size ELSE run.cnt - s
  BY <1>3 DEF CurCnt
<1>5. Block(i) = s .. (s + CurCnt(i) - 1)
  BY <1>3 DEF Block
<1>6. Lo(i) = IF s <= run.cnt THEN s ELSE run.cnt
  BY DEF Lo
<1>7. Lo(i + 1) = IF s + run.size <= run.cnt THEN s + run.size ELSE run.cnt
  BY <1>2 DEF Lo
<1>8. Lo(0) = 0
  BY <1>1, <1>2 DEF Lo
<1>9. run.nblock * run.size \in Nat
  BY <1>1
<1>10. Lo(run.nblock) = run.cnt
  BY <1>1, <1>9 DEF Lo
<1> HIDE DEF s
<1>11. ASSUME NEW q PROVE q \in Block(i) <=> q \in Int /\ Lo(i) <= q /\ q < Lo(i + 1)
  BY <1>1, <1>2, <1>4, <1>5, <1>6, <1>7, SMTT(30)
<1>12. CurStart(i) \in Nat /\ CurCnt(i) \in Int
  BY <1>1, <1>2, <1>3, <1>4
<1>13. Lo(i) \in 0..run.cnt /\ Lo(i + 1) \in 0..run.cnt /\ Lo(i) <= Lo(i + 1)
  BY <1>1, <1>2, <1>6, <1>7
<1>14. CurCnt(i) > 0 => Lo(i) = CurStart(i) /\ Lo(i + 1) = CurStart(i) + CurCnt(i)
  BY <1>1, <1>2, <1>3, <1>4, <1>6, <1>7
<1>15. CurCnt(i) <= 0 => Lo(i) = Lo(i + 1)
  <2>1. CASE run.size <= run.cnt - s
    <3>1. s <= run.cnt /\ s + run.size <= run.cnt /\ CurCnt(i) = run.size
      BY <2>1, <1>1, <1>2, <1>4
    <3>2. Lo(i) = s /\ Lo(i + 1) = s + run.size
      BY <3>1, <1>6, <1>7
    <3> QED BY <3>1, <3>2, <1>1, <1>2
  <2>2. CASE ~(run.size <= run.cnt - s)
    BY <2>2, <1>1, <1>2, <1>4, <1>6, <1>7
  <2> QED BY <2>1, <2>2
<1>16. Lo(i) = Lo(i + 1) => Block(i) = {}
  <2> SUFFICES ASSUME Lo(i) = Lo(i + 1), NEW q, q \in Block(i) PROVE FALSE
    OBVIOUS
  <2>1. q \in Int /\ Lo(i) <= q /\ q < Lo(i) /\ Lo(i) \in Int
    BY <1>1, <1>11, <1>13
  <2> QED BY <2>1
<1> QED BY <1>8, <1>10, <1>11, <1>12, <1>13, <1>14, <1>15, <1>16

LEMMA LoEnds == RunShape => Lo(0) = 0 /\ Lo(run.nblock) = run.cnt
<1>1. 0 \in Nat
  OBVIOUS
<1> QED BY <1>1, BlockBounds

LEMMA LoMonotone ==
  ASSUME RunShape, NEW i \in Nat, NEW j \in Nat, i <= j
  PROVE  Lo(i) \in Nat /\ Lo(j) \in Nat /\ Lo(i) <= Lo(j)
<1>1. run.size \in Nat /\ run.cnt \in Nat
  BY DEF RunShape
<1>2. i * run.size \in Nat /\ j * run.size \in Nat /\ i * run.size <= j * run.size
  BY <1>1
<1> QED BY <1>1, <1>2 DEF Lo

\* Every row of a run is in a block, and in one only.
LEMMA BlockOfRow ==
  ASSUME RunShape, NEW q \in 0..(run.cnt - 1)
  PROVE  \E i \in Blocks : q \in Block(i)
<1>1. /\ run.size \in Nat /\ run.cnt \in Nat /\ run.nblock \in Nat
      /\ run.cnt <= run.nblock * run.size /\ q \in Nat /\ q < run.cnt
  BY DEF RunShape
<1>2. run.size # 0
  BY <1>1
<1> DEFINE i == q \div run.size
<1>3. i \in Nat /\ run.size * i <= q /\ q < run.size * i + run.size
  BY <1>1, <1>2, Division
<1> HIDE DEF i
<1>4. i * run.size = run.size * i /\ (i + 1) * run.size = run.size * i + run.size
      /\ i * run.size \in Nat
  BY <1>1, <1>3
<1>5. i < run.nblock
  <2> SUFFICES ASSUME run.nblock <= i PROVE FALSE
    BY <1>1, <1>3
  <2>1. run.nblock * run.size <= i * run.size
    BY <1>1, <1>3
  <2>2. run.nblock * run.size \in Nat
    BY <1>1
  <2> QED BY <1>1, <1>3, <1>4, <2>1, <2>2
<1>6. i \in Blocks
  BY <1>1, <1>3, <1>5 DEF Blocks
<1>7. Lo(i) <= q /\ q < Lo(i + 1)
  BY <1>1, <1>3, <1>4 DEF Lo
<1> QED BY <1>1, <1>3, <1>6, <1>7, BlockBounds

LEMMA BlocksDisjoint ==
  ASSUME RunShape, NEW i \in Blocks, NEW j \in Blocks, NEW q, q \in Block(i), q \in Block(j)
  PROVE  i = j
<1>1. i \in Nat /\ j \in Nat
  BY DEF Blocks, RunShape
<1>2. q \in Int /\ Lo(i) <= q /\ q < Lo(i + 1) /\ Lo(j) <= q /\ q < Lo(j + 1)
  BY <1>1, BlockBounds
<1>3. Lo(i) \in Nat /\ Lo(j) \in Nat /\ Lo(i + 1) \in Nat /\ Lo(j + 1) \in Nat
  BY <1>1, LoMonotone
<1>4. ~(i < j)
  <2> SUFFICES ASSUME i < j PROVE FALSE
    OBVIOUS
  <2>1. i + 1 \in Nat /\ i + 1 <= j
    BY <1>1
  <2> QED BY <1>1, <1>2, <1>3, <2>1, LoMonotone
<1>5. ~(j < i)
  <2> SUFFICES ASSUME j < i PROVE FALSE
    OBVIOUS
  <2>1. j + 1 \in Nat /\ j + 1 <= i
    BY <1>1
  <2> QED BY <1>1, <1>2, <1>3, <2>1, LoMonotone
<1> QED BY <1>1, <1>4, <1>5

-----------------------------------------------------------------------------
(* Where a run puts its rows *)

\* The rows of a run before it began.
Original == [q \in 0..(run.cnt - 1) |->
               IF run.kind = "bag" THEN q ELSE run.before[run.begin + q]]
Lefts == {q \in 0..(run.cnt - 1) : Original[q] \in run.goes}
Rights == (0..(run.cnt - 1)) \ Lefts
LeftsOf(i) == Lefts \cap Block(i)
RightsOf(i) == Rights \cap Block(i)

\* Position q of the run goes to this position of the array.
Dest(q) == run.begin + (IF q \in Lefts THEN Rank(Lefts, q) ELSE Cardinality(Lefts) + Rank(Rights, q))

LEMMA RunRows ==
  ASSUME RunShape
  PROVE  Places(0..(run.cnt - 1)) /\ Cardinality(0..(run.cnt - 1)) = run.cnt
<1>1. run.cnt \in Nat /\ run.cnt - 1 \in Int
  BY DEF RunShape
<1>2. Places(0..(run.cnt - 1))
      /\ Cardinality(0..(run.cnt - 1)) = IF 0 > run.cnt - 1 THEN 0 ELSE (run.cnt - 1) - 0 + 1
  BY <1>1, IntervalPlaces
<1> QED BY <1>1, <1>2

LEMMA Sides ==
  ASSUME RunShape
  PROVE  /\ Places(Lefts) /\ Places(Rights)
         /\ Cardinality(Lefts) \in Nat /\ Cardinality(Rights) \in Nat
         /\ Cardinality(Lefts) + Cardinality(Rights) = run.cnt
         /\ Lefts \cup Rights = 0..(run.cnt - 1) /\ Lefts \cap Rights = {}
<1>1. /\ Lefts \subseteq 0..(run.cnt - 1) /\ Rights \subseteq 0..(run.cnt - 1)
      /\ Lefts \cup Rights = 0..(run.cnt - 1) /\ Lefts \cap Rights = {}
  BY DEF Lefts, Rights
<1>2. Places(Lefts) /\ Places(Rights)
  BY <1>1, RunRows, PlacesSubset
<1>3. Cardinality(Lefts \cup Rights) = Cardinality(Lefts) + Cardinality(Rights)
  BY <1>1, <1>2, PlacesUnion
<1> QED BY <1>1, <1>2, <1>3, RunRows, PlacesFinite

\* Counting the members in a block.
LEMMA InBlock ==
  ASSUME RunShape, NEW S, S \subseteq 0..(run.cnt - 1), NEW i \in Nat
  PROVE  /\ Places(S \cap Block(i)) /\ Rank(S, Lo(i)) \in Nat
         /\ Cardinality(S \cap Block(i)) \in Nat
         /\ Rank(S, Lo(i + 1)) = Rank(S, Lo(i)) + Cardinality(S \cap Block(i))
         /\ \A q \in S \cap Block(i) : Rank(S, q) = Rank(S, Lo(i)) + Rank(S \cap Block(i), q)
<1> DEFINE T == S \cap Block(i)
<1>1. Places(S)
  BY RunRows, PlacesSubset
<1>2. Places(T) /\ Cardinality(T) \in Nat
  BY <1>1, PlacesSubset
<1>3. /\ Lo(i) \in Nat /\ Lo(i + 1) \in Nat /\ Lo(i) <= Lo(i + 1)
      /\ \A q : q \in Block(i) <=> q \in Int /\ Lo(i) <= q /\ q < Lo(i + 1)
  BY BlockBounds, LoMonotone
<1>4. T = {x \in S : Lo(i) <= x /\ x < Lo(i + 1)}
  BY <1>1, <1>3, PlacesNat
<1>5. \A x \in T : x < Lo(i + 1)
  BY <1>3
<1> HIDE DEF T
<1>6. Rank(S, Lo(i + 1)) = Rank(S, Lo(i)) + Rank(T, Lo(i + 1))
  BY <1>1, <1>3, <1>4, RankFrom
<1>7. Rank(T, Lo(i + 1)) = Cardinality(T)
  BY <1>2, <1>3, <1>5, RankEnds
<1>8. ASSUME NEW q \in T PROVE Rank(S, q) = Rank(S, Lo(i)) + Rank(T, q)
  <2>1. q \in Nat /\ Lo(i) <= q /\ q <= Lo(i + 1)
    BY <1>2, <1>3, <1>4, PlacesNat
  <2> QED BY <1>1, <1>3, <1>4, <2>1, RankFrom
<1>9. Rank(S, Lo(i)) \in Nat
  BY <1>1, RankType
<1> QED BY <1>2, <1>6, <1>7, <1>8, <1>9 DEF T

LEMMA BlockSides ==
  ASSUME RunShape, NEW i \in Nat
  PROVE  /\ LeftsOf(i) \cap RightsOf(i) = {} /\ LeftsOf(i) \cup RightsOf(i) = Block(i)
         /\ Cardinality(LeftsOf(i)) \in Nat /\ Cardinality(RightsOf(i)) \in Nat
         /\ Cardinality(LeftsOf(i)) + Cardinality(RightsOf(i)) = Cardinality(Block(i))
         /\ Cardinality(Block(i)) = IF CurCnt(i) > 0 THEN CurCnt(i) ELSE 0
         /\ CurCnt(i) <= 0 => LeftsOf(i) = {} /\ RightsOf(i) = {}
<1>1. Block(i) \subseteq 0..(run.cnt - 1)
  <2> SUFFICES ASSUME NEW q, q \in Block(i) PROVE q \in 0..(run.cnt - 1)
    OBVIOUS
  <2>1. /\ q \in Int /\ Lo(i) <= q /\ q < Lo(i + 1)
        /\ Lo(i) \in 0..run.cnt /\ Lo(i + 1) \in 0..run.cnt /\ run.cnt \in Nat
    BY BlockBounds DEF RunShape
  <2> QED BY <2>1
<1>2. LeftsOf(i) \cap RightsOf(i) = {} /\ LeftsOf(i) \cup RightsOf(i) = Block(i)
  BY <1>1, Sides DEF LeftsOf, RightsOf
<1>3. /\ Places(LeftsOf(i)) /\ Places(RightsOf(i))
      /\ Cardinality(LeftsOf(i)) \in Nat /\ Cardinality(RightsOf(i)) \in Nat
  BY Sides, PlacesSubset DEF LeftsOf, RightsOf
<1>4. Cardinality(LeftsOf(i) \cup RightsOf(i)) = Cardinality(LeftsOf(i)) + Cardinality(RightsOf(i))
  BY <1>2, <1>3, PlacesUnion
<1>5. CurStart(i) \in Nat /\ CurCnt(i) \in Int
  BY BlockBounds
<1>6. CurStart(i) + CurCnt(i) - 1 \in Int
  BY <1>5
<1>7. Cardinality(Block(i)) = IF CurStart(i) > CurStart(i) + CurCnt(i) - 1 THEN 0
                             ELSE (CurStart(i) + CurCnt(i) - 1) - CurStart(i) + 1
  BY <1>5, <1>6, IntervalPlaces DEF Block
<1>8. Cardinality(Block(i)) = IF CurCnt(i) > 0 THEN CurCnt(i) ELSE 0
  BY <1>5, <1>7
<1>9. CurCnt(i) <= 0 => LeftsOf(i) = {} /\ RightsOf(i) = {}
  BY <1>2, BlockBounds
<1> QED BY <1>2, <1>3, <1>4, <1>8, <1>9

\* Left rows go to the front of the run, the others behind them.
LEMMA DestRange ==
  ASSUME RunShape, NEW q \in 0..(run.cnt - 1)
  PROVE  /\ Dest(q) \in run.begin..(run.begin + run.cnt - 1)
         /\ q \in Lefts => Dest(q) = run.begin + Rank(Lefts, q)
                           /\ Rank(Lefts, q) \in Nat /\ Rank(Lefts, q) < Cardinality(Lefts)
         /\ q \in Rights => Dest(q) = run.begin + Cardinality(Lefts) + Rank(Rights, q)
                            /\ Rank(Rights, q) \in Nat /\ Rank(Rights, q) < Cardinality(Rights)
         /\ q \in Lefts <=> Dest(q) < run.begin + Cardinality(Lefts)
         /\ q \in Rights <=> q \notin Lefts
<1>0. run.begin \in Nat /\ run.cnt \in Nat
  BY DEF RunShape
<1>1. q \in Rights <=> q \notin Lefts
  BY DEF Rights
<1>2. /\ Places(Lefts) /\ Places(Rights)
      /\ Cardinality(Lefts) \in Nat /\ Cardinality(Rights) \in Nat
      /\ Cardinality(Lefts) + Cardinality(Rights) = run.cnt
  BY Sides
<1>3. CASE q \in Lefts
  <2>1. Rank(Lefts, q) \in Nat /\ Rank(Lefts, q) < Cardinality(Lefts)
    BY <1>2, <1>3, RankBelow
  <2>2. Dest(q) = run.begin + Rank(Lefts, q)
    BY <1>3 DEF Dest
  <2> QED BY <1>0, <1>1, <1>2, <1>3, <2>1, <2>2
<1>4. CASE q \notin Lefts
  <2>1. Rank(Rights, q) \in Nat /\ Rank(Rights, q) < Cardinality(Rights)
    BY <1>1, <1>2, <1>4, RankBelow
  <2>2. Dest(q) = run.begin + (Cardinality(Lefts) + Rank(Rights, q))
    BY <1>4 DEF Dest
  <2> QED BY <1>0, <1>1, <1>2, <1>4, <2>1, <2>2
<1> QED BY <1>3, <1>4

LEMMA DestInjective ==
  ASSUME RunShape, NEW p \in 0..(run.cnt - 1), NEW q \in 0..(run.cnt - 1), Dest(p) = Dest(q)
  PROVE  p = q
<1>0. /\ run.begin \in Nat /\ Places(Lefts) /\ Places(Rights)
      /\ Cardinality(Lefts) \in Nat
  BY Sides DEF RunShape
<1>1. p \in Lefts <=> q \in Lefts
  BY DestRange
<1>2. CASE p \in Lefts
  <2>1. Rank(Lefts, p) = Rank(Lefts, q)
    BY <1>0, <1>1, <1>2, DestRange
  <2> QED BY <1>0, <1>1, <1>2, <2>1, RankInjective
<1>3. CASE p \notin Lefts
  <2>1. p \in Rights /\ q \in Rights
    BY <1>1, <1>3 DEF Rights
  <2>2. Rank(Rights, p) = Rank(Rights, q)
    BY <1>0, <2>1, DestRange
  <2> QED BY <1>0, <2>1, <2>2, RankInjective
<1> QED BY <1>2, <1>3

LEMMA DestOnto ==
  ASSUME RunShape, NEW p \in run.begin..(run.begin + run.cnt - 1)
  PROVE  /\ p < run.begin + Cardinality(Lefts) =>
              /\ Nth(Lefts, p - run.begin) \in Lefts
              /\ Dest(Nth(Lefts, p - run.begin)) = p
         /\ p >= run.begin + Cardinality(Lefts) =>
              /\ Nth(Rights, p - run.begin - Cardinality(Lefts)) \in Rights
              /\ Dest(Nth(Rights, p - run.begin - Cardinality(Lefts))) = p
         /\ \E q \in 0..(run.cnt - 1) : Dest(q) = p
<1>0. /\ run.begin \in Nat /\ run.cnt \in Nat /\ Places(Lefts) /\ Places(Rights)
      /\ Cardinality(Lefts) \in Nat /\ Cardinality(Rights) \in Nat
      /\ Cardinality(Lefts) + Cardinality(Rights) = run.cnt
      /\ Lefts \subseteq 0..(run.cnt - 1) /\ Rights \subseteq 0..(run.cnt - 1)
  BY Sides DEF RunShape, Lefts, Rights
<1>1. ASSUME p < run.begin + Cardinality(Lefts)
      PROVE  Nth(Lefts, p - run.begin) \in Lefts /\ Dest(Nth(Lefts, p - run.begin)) = p
  <2> DEFINE q == Nth(Lefts, p - run.begin)
  <2>1. p - run.begin \in 0..(Cardinality(Lefts) - 1)
    BY <1>0, <1>1
  <2>2. q \in Lefts /\ Rank(Lefts, q) = p - run.begin
    BY <1>0, <2>1, NthMember
  <2> HIDE DEF q
  <2>3. Dest(q) = run.begin + Rank(Lefts, q)
    BY <1>0, <2>2, DestRange
  <2>4. Dest(q) = p
    BY <1>0, <2>2, <2>3
  <2> QED BY <2>2, <2>4 DEF q
<1>2. ASSUME p >= run.begin + Cardinality(Lefts)
      PROVE  /\ Nth(Rights, p - run.begin - Cardinality(Lefts)) \in Rights
             /\ Dest(Nth(Rights, p - run.begin - Cardinality(Lefts))) = p
  <2> DEFINE q == Nth(Rights, p - run.begin - Cardinality(Lefts))
  <2>1. p - run.begin - Cardinality(Lefts) \in 0..(Cardinality(Rights) - 1)
    BY <1>0, <1>2
  <2>2. q \in Rights /\ Rank(Rights, q) = p - run.begin - Cardinality(Lefts)
    BY <1>0, <2>1, NthMember
  <2> HIDE DEF q
  <2>3. Dest(q) = run.begin + Cardinality(Lefts) + Rank(Rights, q)
    BY <1>0, <2>2, DestRange
  <2>4. Dest(q) = p
    BY <1>0, <2>2, <2>3
  <2> QED BY <2>2, <2>4 DEF q
<1>3. p < run.begin + Cardinality(Lefts) \/ p >= run.begin + Cardinality(Lefts)
  BY <1>0
<1> QED BY <1>0, <1>1, <1>2, <1>3

\* Rows of the same side keep their order.
LEMMA DestStable ==
  ASSUME RunShape, NEW p \in 0..(run.cnt - 1), NEW q \in 0..(run.cnt - 1), p < q,
         p \in Lefts <=> q \in Lefts
  PROVE  Dest(p) < Dest(q)
<1>0. /\ run.begin \in Nat /\ Places(Lefts) /\ Places(Rights)
      /\ Cardinality(Lefts) \in Nat /\ q \in Nat
  BY Sides DEF RunShape
<1>1. CASE p \in Lefts
  BY <1>0, <1>1, DestRange, RankStrict
<1>2. CASE p \notin Lefts
  <2>1. p \in Rights /\ q \in Rights
    BY <1>2 DEF Rights
  <2>2. Rank(Rights, p) + 1 <= Rank(Rights, q)
    BY <1>0, <2>1, RankStrict
  <2> QED BY <1>0, <2>1, <2>2, DestRange
<1> QED BY <1>1, <1>2

-----------------------------------------------------------------------------
(* The abstract partition, for any number of rows and of leaves *)

A == INSTANCE LeafPartition WITH used <- AbstractUsed, indices <- AbstractIndices

\* Leaves the tree does not have yet are empty: a split may take one over.
Unborn == \A l \in A!Leaf : l >= leaves => leaf_count[l] = 0

AbstractInv == A!TypeOK /\ A!LeavesDisjoint /\ A!LeavesCover /\ A!RowsOnce /\ Unborn

LEMMA AbstractInitInv == A!Init => AbstractInv
<1> SUFFICES ASSUME A!Init PROVE AbstractInv
  OBVIOUS
<1>1. 0 \in A!Leaf /\ NumLeaves \in Nat /\ NumLeaves >= 1
  BY PartitionAssumption DEF A!Leaf
<1>2. A!Positions = {} /\ AbstractIndices = [p \in {} |-> 0]
  <2>1. 0..-1 = {} /\ 0..(0 - 1) = {}
    OBVIOUS
  <2> QED BY <2>1 DEF A!Init, A!Positions
<1>3. \A l \in A!Leaf : leaf_begin[l] = 0 /\ leaf_count[l] = 0
  BY DEF A!Init
<1>4. A!TypeOK
  BY <1>1, <1>2, <1>3, PartitionAssumption DEF A!Init, A!TypeOK
<1>5. \A l \in A!Leaf : A!RangeOf(l) = {}
  BY <1>3 DEF A!RangeOf
<1> QED
  BY <1>2, <1>3, <1>4, <1>5 DEF AbstractInv, A!LeavesDisjoint, A!LeavesCover, A!RowsOnce, Unborn

LEMMA AbstractStartTreeInv ==
  ASSUME AbstractInv, NEW n \in 0..NumData, A!StartTree(n)
  PROVE  AbstractInv'
<1>1. /\ AbstractIndices' \in [0..(n - 1) -> A!Rows]
      /\ \A p, q \in 0..(n - 1) : AbstractIndices'[p] = AbstractIndices'[q] => p = q
  BY DEF A!StartTree, A!Injection, A!IsInjective
<1>2. /\ AbstractUsed' = n /\ leaves' = 1
      /\ leaf_begin' = [l \in A!Leaf |-> 0]
      /\ leaf_count' = [l \in A!Leaf |-> IF l = 0 THEN n ELSE 0]
  BY DEF A!StartTree
<1>3. A!TypeOK'
  BY <1>1, <1>2, PartitionAssumption DEF A!TypeOK, A!Positions, A!Leaf
<1>4. A!LeavesDisjoint'
  BY <1>2 DEF A!LeavesDisjoint, A!RangeOf, A!Leaf
<1>5. A!LeavesCover'
  <2>1. 0 \in A!Leaf
    BY PartitionAssumption DEF A!Leaf
  <2>2. leaf_begin'[0] = 0 /\ leaf_count'[0] = n
    BY <1>2, <2>1
  <2>3. A!RangeOf(0)' = 0..(n - 1)
    BY <2>2 DEF A!RangeOf
  <2>4. A!Positions' = 0..(n - 1)
    BY <1>2 DEF A!Positions
  <2> QED BY <2>1, <2>3, <2>4 DEF A!LeavesCover
<1>6. A!RowsOnce'
  BY <1>1, <1>2 DEF A!RowsOnce, A!Positions
<1>7. Unborn'
  BY <1>2 DEF Unborn, A!Leaf
<1> QED BY <1>3, <1>4, <1>5, <1>6, <1>7 DEF AbstractInv

LEMMA AbstractSplitInv ==
  ASSUME AbstractInv, NEW l \in A!Leaf, NEW k \in 0..leaf_count[l], A!Split(l, k)
  PROVE  AbstractInv'
<1>0. /\ leaves \in 1..NumLeaves /\ NumLeaves \in Nat /\ l \in Nat
      /\ l < leaves /\ leaves < NumLeaves
  BY PartitionAssumption DEF A!Split, AbstractInv, A!TypeOK, A!Leaf
<1>1. /\ leaves \in A!Leaf /\ leaves # l
      /\ leaf_begin' = [leaf_begin EXCEPT ![leaves] = leaf_begin[l] + k]
      /\ leaf_count' = [leaf_count EXCEPT ![l] = k, ![leaves] = leaf_count[l] - k]
      /\ leaves' = leaves + 1 /\ AbstractUsed' = AbstractUsed
  BY <1>0 DEF A!Split, A!Leaf
<1>2. PICK order \in A!Bijection(A!RangeOf(l), A!RangeOf(l)) :
        /\ \A p \in A!RangeOf(l) : AbstractIndices'[order[p]] = AbstractIndices[p]
        /\ \A p \in A!Positions \ A!RangeOf(l) : AbstractIndices'[p] = AbstractIndices[p]
  BY DEF A!Split
<1>3. /\ leaf_begin \in [A!Leaf -> Nat] /\ leaf_count \in [A!Leaf -> Nat]
      /\ leaf_begin[l] \in Nat /\ leaf_count[l] \in Nat /\ k \in Nat /\ k <= leaf_count[l]
      /\ leaf_begin[l] + leaf_count[l] <= AbstractUsed /\ AbstractUsed \in Nat
  BY DEF AbstractInv, A!TypeOK
<1>4. A!RangeOf(l) \subseteq A!Positions
  BY <1>3 DEF A!RangeOf, A!Positions
<1>5. A!Positions' = A!Positions /\ AbstractIndices' \in [A!Positions -> A!Rows]
  BY <1>1 DEF A!Split, A!Positions
<1>6. /\ leaf_begin' \in [A!Leaf -> Nat] /\ leaf_count' \in [A!Leaf -> Nat]
      /\ leaf_begin'[l] = leaf_begin[l] /\ leaf_count'[l] = k
      /\ leaf_begin'[leaves] = leaf_begin[l] + k
      /\ leaf_count'[leaves] = leaf_count[l] - k
      /\ \A m \in A!Leaf : m # l /\ m # leaves =>
           leaf_begin'[m] = leaf_begin[m] /\ leaf_count'[m] = leaf_count[m]
  BY <1>1, <1>3
<1>7. /\ \A p \in Int : p \in A!RangeOf(l)' <=> leaf_begin[l] <= p /\ p < leaf_begin[l] + k
      /\ \A p \in Int : p \in A!RangeOf(l) <=>
           leaf_begin[l] <= p /\ p < leaf_begin[l] + leaf_count[l]
  <2>1. A!RangeOf(l)' = leaf_begin[l] .. (leaf_begin[l] + k - 1)
    BY <1>6 DEF A!RangeOf
  <2>2. leaf_begin[l] \in Int /\ leaf_count[l] \in Int /\ k \in Int
    BY <1>3
  <2>3. A!RangeOf(l) = leaf_begin[l] .. (leaf_begin[l] + leaf_count[l] - 1)
    BY DEF A!RangeOf
  <2> QED BY <2>1, <2>2, <2>3, SMTT(30)
<1>8. \A m \in A!Leaf : m # l /\ m # leaves => A!RangeOf(m)' = A!RangeOf(m)
  BY <1>6 DEF A!RangeOf
<1>9. \A m \in A!Leaf : m = leaves =>
        \A p \in Int : p \in A!RangeOf(m)' <=>
          leaf_begin[l] + k <= p /\ p < leaf_begin[l] + leaf_count[l]
  <2> SUFFICES ASSUME NEW m \in A!Leaf, m = leaves
               PROVE  \A p \in Int : p \in A!RangeOf(m)' <=>
                        leaf_begin[l] + k <= p /\ p < leaf_begin[l] + leaf_count[l]
    OBVIOUS
  <2>1. leaf_begin'[m] = leaf_begin[l] + k /\ leaf_count'[m] = leaf_count[l] - k
    BY <1>6
  <2>2. A!RangeOf(m)' = (leaf_begin[l] + k) .. ((leaf_begin[l] + k) + (leaf_count[l] - k) - 1)
    BY <2>1 DEF A!RangeOf
  <2>3. leaf_begin[l] \in Int /\ leaf_count[l] \in Int /\ k \in Int
    BY <1>3
  <2> QED BY <2>2, <2>3
<1>10. A!TypeOK'
  <2>2. ASSUME NEW m \in A!Leaf PROVE leaf_begin'[m] + leaf_count'[m] <= AbstractUsed
    <3>1. CASE m = l BY <3>1, <1>3, <1>6
    <3>2. CASE m = leaves BY <3>2, <1>3, <1>6
    <3>3. CASE m # l /\ m # leaves BY <3>3, <1>6 DEF AbstractInv, A!TypeOK
    <3> QED BY <3>1, <3>2, <3>3
  <2>3. leaves' \in 1..NumLeaves
    BY <1>0, <1>1
  <2> QED BY <1>1, <1>5, <1>6, <2>2, <2>3 DEF AbstractInv, A!TypeOK
<1>11. A!LeavesDisjoint'
  <2> SUFFICES ASSUME NEW a \in A!Leaf, NEW b \in A!Leaf, a # b, NEW p \in Int,
                      p \in A!RangeOf(a)', p \in A!RangeOf(b)'
               PROVE  FALSE
    BY DEF A!LeavesDisjoint, A!RangeOf
  \* A leaf other than the two halves keeps its range, apart from leaf l's.
  <2>1. ASSUME NEW m \in A!Leaf, m # l, m # leaves, p \in A!RangeOf(m)', p \in A!RangeOf(l)
        PROVE  FALSE
    BY <2>1, <1>8 DEF AbstractInv, A!LeavesDisjoint
  <2>2. /\ p \in A!RangeOf(l)' => p \in A!RangeOf(l)
        /\ \A m \in A!Leaf : m = leaves /\ p \in A!RangeOf(m)' => p \in A!RangeOf(l)
    BY <1>3, <1>7, <1>9
  <2>3. \A m \in A!Leaf : m = leaves => ~(p \in A!RangeOf(l)' /\ p \in A!RangeOf(m)')
    BY <1>3, <1>7, <1>9
  <2>4. CASE a \in {l, leaves} /\ b \in {l, leaves}
    BY <2>3, <2>4
  <2>5. CASE a \in {l, leaves} /\ b \notin {l, leaves}
    BY <2>1, <2>2, <2>5
  <2>6. CASE a \notin {l, leaves} /\ b \in {l, leaves}
    BY <2>1, <2>2, <2>6
  <2>7. CASE a \notin {l, leaves} /\ b \notin {l, leaves}
    BY <1>8, <2>7 DEF AbstractInv, A!LeavesDisjoint
  <2> QED BY <2>4, <2>5, <2>6, <2>7
<1>12. A!LeavesCover'
  <2> SUFFICES ASSUME NEW p \in A!Positions PROVE \E m \in A!Leaf : p \in A!RangeOf(m)'
    BY <1>5 DEF A!LeavesCover
  <2>1. p \in Int
    BY <1>3 DEF A!Positions
  <2>2. PICK m \in A!Leaf : p \in A!RangeOf(m)
    BY DEF AbstractInv, A!LeavesCover
  <2>3. CASE m = l
    BY <2>1, <2>2, <2>3, <1>1, <1>3, <1>7, <1>9
  <2>4. CASE m = leaves
    \* That leaf was empty.
    <3>1. leaf_count[m] = 0 /\ leaf_begin[m] \in Nat
      BY <2>4, <1>0, <1>3 DEF AbstractInv, Unborn
    <3> QED BY <3>1, <2>2 DEF A!RangeOf
  <2>5. CASE m # l /\ m # leaves
    BY <2>2, <2>5, <1>8
  <2> QED BY <2>3, <2>4, <2>5
<1>13. A!RowsOnce'
  <2> SUFFICES ASSUME NEW p \in A!Positions, NEW q \in A!Positions, AbstractIndices'[p] = AbstractIndices'[q]
               PROVE  p = q
    BY <1>5 DEF A!RowsOnce
  \* Where the row that is now at position r was before.
  <2>1. ASSUME NEW r \in A!Positions
        PROVE  \E o \in A!Positions :
                 /\ AbstractIndices[o] = AbstractIndices'[r]
                 /\ o \in A!RangeOf(l) <=> r \in A!RangeOf(l)
                 /\ r \in A!RangeOf(l) => order[o] = r
                 /\ r \notin A!RangeOf(l) => o = r
    <3>1. CASE r \in A!RangeOf(l)
      <4>1. PICK o \in A!RangeOf(l) : order[o] = r
        BY <3>1 DEF A!Bijection, A!Surjection
      <4> QED BY <4>1, <3>1, <1>2, <1>4
    <3>2. CASE r \notin A!RangeOf(l)
      BY <3>2, <1>2
    <3> QED BY <3>1, <3>2
  <2>2. PICK o \in A!Positions :
          /\ AbstractIndices[o] = AbstractIndices'[p]
          /\ o \in A!RangeOf(l) <=> p \in A!RangeOf(l)
          /\ p \in A!RangeOf(l) => order[o] = p
          /\ p \notin A!RangeOf(l) => o = p
    BY <2>1
  <2>3. PICK r \in A!Positions :
          /\ AbstractIndices[r] = AbstractIndices'[q]
          /\ r \in A!RangeOf(l) <=> q \in A!RangeOf(l)
          /\ q \in A!RangeOf(l) => order[r] = q
          /\ q \notin A!RangeOf(l) => r = q
    BY <2>1
  <2>4. o = r
    BY <2>2, <2>3 DEF AbstractInv, A!RowsOnce
  <2> QED BY <2>2, <2>3, <2>4
<1>14. Unborn'
  BY <1>0, <1>1, <1>6 DEF AbstractInv, Unborn, A!Leaf
<1> QED BY <1>10, <1>11, <1>12, <1>13, <1>14 DEF AbstractInv

LEMMA AbstractResetInv ==
  ASSUME AbstractInv, NEW size \in 1..NumLeaves, A!ResetByLeafPred(size)
  PROVE  AbstractInv'
<1>1. /\ AbstractIndices' \in [A!Rows -> A!Rows]
      /\ \A p, q \in A!Rows : AbstractIndices'[p] = AbstractIndices'[q] => p = q
  BY DEF A!ResetByLeafPred, A!Injection, A!IsInjective
<1>2. /\ AbstractUsed' = NumData /\ leaves' = size
      /\ leaf_begin' \in [A!Leaf -> 0..NumData] /\ leaf_count' \in [A!Leaf -> 0..NumData]
      /\ \A l \in A!Leaf : leaf_begin'[l] + leaf_count'[l] <= NumData
      /\ \A l \in A!Leaf : l >= size => leaf_count'[l] = 0
      /\ A!Positions' = A!Rows
  BY DEF A!ResetByLeafPred, A!Positions, A!Rows
<1>3. PICK pred \in [A!Rows -> A!Leaf] :
        \A l \in A!Leaf : \A p \in A!Rows : pred[AbstractIndices'[p]] = l <=> p \in A!RangeOf(l)'
  BY DEF A!ResetByLeafPred, A!RangeOf
<1>4. \A l \in A!Leaf : A!RangeOf(l)' \subseteq A!Rows
  <2> SUFFICES ASSUME NEW l \in A!Leaf PROVE A!RangeOf(l)' \subseteq A!Rows
    OBVIOUS
  <2>1. /\ leaf_begin'[l] \in 0..NumData /\ leaf_count'[l] \in 0..NumData
        /\ leaf_begin'[l] + leaf_count'[l] <= NumData
    BY <1>2
  <2> QED BY <2>1, PartitionAssumption DEF A!RangeOf, A!Rows
<1>5. A!TypeOK'
  BY <1>1, <1>2, PartitionAssumption DEF A!TypeOK
<1>6. A!LeavesDisjoint'
  BY <1>3, <1>4 DEF A!LeavesDisjoint
<1>7. A!LeavesCover'
  BY <1>1, <1>2, <1>3 DEF A!LeavesCover
<1>8. A!RowsOnce'
  BY <1>1, <1>2 DEF A!RowsOnce
<1>9. Unborn'
  BY <1>2 DEF Unborn
<1> QED BY <1>5, <1>6, <1>7, <1>8, <1>9 DEF AbstractInv

\* All the parts of Inv are kept by every step.
LEMMA AbstractNextInv == AbstractInv /\ [A!Next]_(A!vars) => AbstractInv'
<1> SUFFICES ASSUME AbstractInv, [A!Next]_(A!vars) PROVE AbstractInv'
  OBVIOUS
<1>1. ASSUME NEW n \in 0..NumData, A!StartTree(n) PROVE AbstractInv'
  BY <1>1, AbstractStartTreeInv
<1>2. ASSUME NEW l \in A!Leaf, NEW k \in 0..leaf_count[l], A!Split(l, k) PROVE AbstractInv'
  BY <1>2, AbstractSplitInv
<1>3. ASSUME NEW size \in 1..NumLeaves, A!ResetByLeafPred(size) PROVE AbstractInv'
  BY <1>3, AbstractResetInv
<1>4. CASE A!EndTree \/ UNCHANGED A!vars
  <2>1. UNCHANGED <<AbstractUsed, AbstractIndices, leaf_begin, leaf_count, leaves>>
    BY <1>4 DEF A!EndTree, A!vars
  <2> QED BY <2>1 DEF AbstractInv, A!TypeOK, A!LeavesDisjoint, A!LeavesCover, A!RowsOnce, Unborn,
                      A!Positions, A!RangeOf
<1> QED BY <1>1, <1>2, <1>3, <1>4 DEF A!Next

\* What LeafPartition promises keeps its invariant, for any number of rows and
\* leaves and whatever used and indices stand for.
THEOREM PartitionInvariant == A!Spec => []AbstractInv
<1>1. A!Init => AbstractInv
  BY AbstractInitInv
<1>2. AbstractInv /\ [A!Next]_(A!vars) => AbstractInv'
  BY AbstractNextInv
<1> QED BY <1>1, <1>2, PTL DEF A!Spec

-----------------------------------------------------------------------------
(* The inductive invariant *)

\* From here on what the abstract variables stand for matters.
USE DEF AbstractUsed, AbstractIndices

LEMMA SameSizes == A!Rows = Rows /\ A!Leaf = Leaf
BY DEF A!Rows, A!Leaf, Rows, Leaf

\* The array a run writes.
Out == IF run.kind = "bag" THEN bag_data_indices ELSE indices

\* The k-th right row a block has in the scratch memory.
RightScratch(i, k) ==
  IF run.kind = "bag" THEN left_[CurStart(i) + Cardinality(LeftsOf(i)) + k]
  ELSE right_[CurStart(i) + k]

\* Block i has divided its rows.
HasSplit(i) ==
  /\ run.left_cnts[i] = Cardinality(LeftsOf(i))
  /\ run.right_cnts[i] = Cardinality(RightsOf(i))
  /\ \A k \in 0..(Cardinality(LeftsOf(i)) - 1) :
       left_[CurStart(i) + k] = Original[Nth(LeftsOf(i), k)]
  /\ \A k \in 0..(Cardinality(RightsOf(i)) - 1) :
       RightScratch(i, k) = Original[Nth(RightsOf(i), k)]

\* The rows of block i are in their places.
HasCopied(i) == \A q \in Block(i) : Out[Dest(q)] = Original[q]

BagRun ==
  /\ run.begin = 0 /\ run.cnt = NumData /\ run.goes \subseteq Rows /\ ~growing
  /\ run.nblock > 1 => \E m \in Nat : run.size = m * setup.minBag

LeafRun ==
  /\ growing /\ run.leaf \in Leaf /\ run.leaf < leaves /\ leaves < NumLeaves
  /\ run.begin = leaf_begin[run.leaf] /\ run.cnt = leaf_count[run.leaf]
  /\ run.goes \subseteq {run.before[p] : p \in RangeOf(run.leaf)}
  /\ \A p \in DOMAIN indices \ RangeOf(run.leaf) : indices[p] = run.before[p]
  /\ (\A i \in Blocks : run.done[i] # "copied") => indices = run.before

\* What is true of a run under way.  Nothing is copied before every block has
\* been divided, so that a block still to be divided reads the rows as they were.
RunInv ==
  /\ RunShape
  /\ DOMAIN run = {"kind", "leaf", "begin", "cnt", "goes", "nblock", "size", "before", "done",
                   "left_cnts", "right_cnts"}
  /\ run.done \in [Blocks -> {"nothing", "split", "copied"}]
  /\ run.left_cnts \in [Blocks -> Nat] /\ run.right_cnts \in [Blocks -> Nat]
  /\ run.kind = "bag" => BagRun
  /\ run.kind = "leaf" => LeafRun
  /\ \A i \in Blocks : run.done[i] = "nothing" => run.left_cnts[i] = 0 /\ run.right_cnts[i] = 0
  /\ \A i \in Blocks : run.done[i] # "nothing" => HasSplit(i)
  /\ \A i \in Blocks : run.done[i] = "copied" => PastBarrier /\ HasCopied(i)

\* The array of the bag is in order except while a bag is drawn.
BagInv ==
  /\ ~bagging => bag = Rows
  /\ run.kind # "bag" /\ bagging =>
       \A p \in Rows : bag_data_indices[p] =
         IF p < Cardinality(bag) THEN Nth(bag, p) ELSE Nth(Rows \ bag, p - Cardinality(bag))

IInv ==
  /\ TypeOK /\ setup \in Setups
  /\ DOMAIN indices = 0..(Cardinality(DOMAIN indices) - 1)
  /\ AbstractInv /\ BagInv
  /\ Running => RunInv
  /\ ~Running => run = NoRun

\* What LeafPartition promises.
LEMMA Promised ==
  ASSUME IInv
  PROVE  /\ Cardinality(DOMAIN indices) \in 0..NumData /\ NumData \in Nat
         /\ Cardinality(DOMAIN indices) \in Nat
         /\ run.kind = "leaf" => run.before \in [0..(Cardinality(DOMAIN indices) - 1) -> Rows]
         /\ leaf_begin \in [Leaf -> Nat] /\ leaf_count \in [Leaf -> Nat]
         /\ \A l \in Leaf : leaf_begin[l] + leaf_count[l] <= Cardinality(DOMAIN indices)
<1>1. A!TypeOK
  BY DEF IInv, AbstractInv
<1>2. A!Positions = 0..(Cardinality(DOMAIN indices) - 1)
  BY DEF A!Positions
<1>3. /\ Cardinality(DOMAIN indices) \in 0..NumData
      /\ (IF run.kind = "leaf" THEN run.before ELSE indices) \in [A!Positions -> Rows]
      /\ leaf_begin \in [Leaf -> Nat] /\ leaf_count \in [Leaf -> Nat]
      /\ \A l \in Leaf : leaf_begin[l] + leaf_count[l] <= Cardinality(DOMAIN indices)
  BY <1>1, SameSizes DEF A!TypeOK
<1> QED BY <1>2, <1>3, PartitionAssumption

-----------------------------------------------------------------------------
(* What is written where *)

LEMMA WrittenFacts ==
  ASSUME NEW array, NEW from \in Int, NEW source, NEW S, Cardinality(S) \in Nat,
         \A p \in DOMAIN array : p \in Int
  PROVE  /\ DOMAIN Written(array, from, source, S) = DOMAIN array
         /\ \A k \in 0..(Cardinality(S) - 1) : from + k \in DOMAIN array =>
              Written(array, from, source, S)[from + k] = source[Nth(S, k)]
         /\ \A p \in DOMAIN array : p < from \/ p >= from + Cardinality(S) =>
              Written(array, from, source, S)[p] = array[p]
<1> DEFINE n == Cardinality(S)
<1>1. ASSUME NEW k \in 0..(n - 1), from + k \in DOMAIN array
      PROVE  Written(array, from, source, S)[from + k] = source[Nth(S, k)]
  <2>1. from + k \in from..(from + n - 1) /\ (from + k) - from = k
    OBVIOUS
  <2> QED BY <1>1, <2>1 DEF Written
<1>2. ASSUME NEW p \in DOMAIN array, p < from \/ p >= from + n
      PROVE  Written(array, from, source, S)[p] = array[p]
  <2>1. p \notin from..(from + n - 1)
    BY <1>2
  <2> QED BY <2>1 DEF Written
<1>3. DOMAIN Written(array, from, source, S) = DOMAIN array
  BY DEF Written
<1> QED BY <1>1, <1>2, <1>3

\* Written from the back and then reversed is written from the front.
LEMMA ReversedFacts ==
  ASSUME NEW array, NEW first \in Int, NEW source, NEW S, Cardinality(S) \in Nat,
         \A p \in first..(first + Cardinality(S) - 1) : p \in DOMAIN array,
         \A p \in DOMAIN array : p \in Int
  PROVE  LET last == first + Cardinality(S) - 1
             result == Reversed(WrittenBack(array, last, source, S), first, last)
         IN  /\ DOMAIN result = DOMAIN array
             /\ \A k \in 0..(Cardinality(S) - 1) : result[first + k] = source[Nth(S, k)]
             /\ \A p \in DOMAIN array : p < first \/ p >= first + Cardinality(S) =>
                  result[p] = array[p]
<1> DEFINE n == Cardinality(S)
           last == first + n - 1
           filled == WrittenBack(array, last, source, S)
           result == Reversed(filled, first, last)
<1>1. DOMAIN filled = DOMAIN array /\ DOMAIN result = DOMAIN array
  BY DEF WrittenBack, Reversed
<1>2. ASSUME NEW k \in 0..(n - 1) PROVE result[first + k] = source[Nth(S, k)]
  <2>1. /\ first + k \in first..last /\ (first + last) - (first + k) = last - k
        /\ last - k \in first..last /\ last - (last - k) = k
        /\ last - k \in (last - n + 1)..last
    OBVIOUS
  <2>2. first + k \in DOMAIN array /\ last - k \in DOMAIN array
    BY <2>1
  <2>3. filled[last - k] = source[Nth(S, last - (last - k))]
    BY <2>1, <2>2 DEF WrittenBack
  <2> HIDE DEF filled
  <2>4. result[first + k] = filled[(first + last) - (first + k)]
    BY <1>1, <2>1, <2>2 DEF Reversed
  <2> QED BY <2>1, <2>3, <2>4
<1>3. ASSUME NEW p \in DOMAIN array, p < first \/ p >= first + n
      PROVE  result[p] = array[p]
  <2>1. p \notin first..last /\ p \notin (last - n + 1)..last
    BY <1>3
  <2>2. filled[p] = array[p]
    BY <2>1 DEF WrittenBack
  <2> HIDE DEF filled
  <2> QED BY <1>1, <2>1, <2>2 DEF Reversed
<1> QED BY <1>1, <1>2, <1>3

-----------------------------------------------------------------------------
(* The steps of a run *)

\* A step that changes neither the rows nor the blocks of a run.
SameRows ==
  /\ run'.kind = run.kind /\ run'.cnt = run.cnt /\ run'.begin = run.begin
  /\ run'.size = run.size /\ run'.nblock = run.nblock /\ run'.goes = run.goes
  /\ run'.before = run.before /\ run'.leaf = run.leaf

LEMMA SameRowsFacts ==
  ASSUME SameRows
  PROVE  /\ Original' = Original /\ Lefts' = Lefts /\ Rights' = Rights
         /\ Blocks' = Blocks /\ RunShape' = RunShape
         /\ \A i : Block(i)' = Block(i) /\ CurStart(i)' = CurStart(i) /\ CurCnt(i)' = CurCnt(i)
         /\ \A i : LeftsOf(i)' = LeftsOf(i) /\ RightsOf(i)' = RightsOf(i)
         /\ \A q : Dest(q)' = Dest(q)
<1>1. Original' = Original
  BY DEF SameRows, Original
<1>2. Lefts' = Lefts /\ Rights' = Rights
  BY <1>1 DEF SameRows, Lefts, Rights
<1>3. \A i : Block(i)' = Block(i) /\ CurStart(i)' = CurStart(i) /\ CurCnt(i)' = CurCnt(i)
  BY DEF SameRows, Block, CurStart, CurCnt
<1>4. \A i : LeftsOf(i)' = LeftsOf(i) /\ RightsOf(i)' = RightsOf(i)
  BY <1>2, <1>3 DEF LeftsOf, RightsOf
<1>5. \A q : Dest(q)' = Dest(q)
  BY <1>2 DEF SameRows, Dest, Rank
<1>6. Blocks' = Blocks /\ RunShape' = RunShape
  BY DEF SameRows, Blocks, RunShape
<1> QED BY <1>1, <1>2, <1>3, <1>4, <1>5, <1>6

\* The rows a run divides are rows.
LEMMA OriginalRows ==
  ASSUME IInv, Running
  PROVE  \A q \in 0..(run.cnt - 1) : Original[q] \in Rows
<1>1. RunInv /\ RunShape /\ run.begin \in Nat /\ run.cnt \in Nat /\ run.begin + run.cnt <= NumData
  BY DEF IInv, RunInv, RunShape
<1> SUFFICES ASSUME NEW q \in 0..(run.cnt - 1) PROVE Original[q] \in Rows
  OBVIOUS
<1>2. CASE run.kind = "bag"
  <2>1. Original[q] = q
    BY <1>2 DEF Original
  <2> QED BY <1>1, <2>1, PartitionAssumption DEF Rows
<1>3. CASE run.kind # "bag"
  <2>1. run.kind = "leaf" /\ LeafRun
    BY <1>1, <1>3 DEF RunInv, RunShape
  <2>3. /\ run.before \in [0..(Cardinality(DOMAIN indices) - 1) -> Rows]
        /\ leaf_begin[run.leaf] + leaf_count[run.leaf] <= Cardinality(DOMAIN indices)
        /\ Cardinality(DOMAIN indices) \in Nat
    BY <2>1, Promised DEF LeafRun
  <2>4. run.begin + q \in 0..(Cardinality(DOMAIN indices) - 1)
    BY <1>1, <2>1, <2>3 DEF LeafRun
  <2>5. Original[q] = run.before[run.begin + q]
    BY <1>3 DEF Original
  <2> QED BY <2>3, <2>4, <2>5
<1> QED BY <1>2, <1>3

LEMMA InScratch ==
  ASSUME IInv, Running, NEW i \in Blocks
  PROVE  /\ Block(i) \subseteq Rows /\ Block(i) \subseteq 0..(run.cnt - 1)
         /\ \A k \in 0..(Cardinality(LeftsOf(i)) - 1) : CurStart(i) + k \in Block(i)
         /\ \A k \in 0..(Cardinality(RightsOf(i)) - 1) :
              CurStart(i) + k \in Block(i) /\ CurStart(i) + Cardinality(LeftsOf(i)) + k \in Block(i)
<1>1. RunShape /\ i \in Nat
  BY DEF IInv, RunInv, Blocks, RunShape
<1>2. /\ Cardinality(LeftsOf(i)) \in Nat /\ Cardinality(RightsOf(i)) \in Nat
      /\ Cardinality(LeftsOf(i)) + Cardinality(RightsOf(i)) = IF CurCnt(i) > 0 THEN CurCnt(i) ELSE 0
  BY <1>1, BlockSides
<1>3. CurStart(i) \in Nat /\ CurCnt(i) \in Int
  BY <1>1, BlockBounds
<1>4. /\ \A k \in 0..(Cardinality(LeftsOf(i)) - 1) : CurStart(i) + k \in Block(i)
      /\ \A k \in 0..(Cardinality(RightsOf(i)) - 1) :
           CurStart(i) + k \in Block(i) /\ CurStart(i) + Cardinality(LeftsOf(i)) + k \in Block(i)
  BY <1>2, <1>3 DEF Block
<1>5. Block(i) \subseteq 0..(run.cnt - 1)
  <2>1. Block(i) = LeftsOf(i) \cup RightsOf(i)
    BY <1>1, BlockSides
  <2> QED BY <2>1, <1>1, Sides DEF LeftsOf, RightsOf
<1>6. 0..(run.cnt - 1) \subseteq Rows
  BY <1>1, PartitionAssumption DEF RunShape, Rows
<1> QED BY <1>4, <1>5, <1>6

\* A block is divided before any block is copied, so it reads the rows as they were.
LEMMA BlockToSplit ==
  ASSUME IInv, NEW j, SplitBlock(j)
  PROVE  /\ Running /\ j \in Blocks /\ run.done[j] = "nothing" /\ RunInv /\ RunShape /\ j \in Nat
         /\ Source = Original
         /\ {q \in Block(j) : Source[q] \in run.goes} = LeftsOf(j)
         /\ Block(j) \ {q \in Block(j) : Source[q] \in run.goes} = RightsOf(j)
<1>1. /\ Running /\ j \in Blocks /\ run.done[j] = "nothing"
      /\ RunInv /\ RunShape /\ j \in Nat
  BY DEF SplitBlock, IInv, RunInv, RunShape, Blocks
<1>2. Source = Original
  <2>1. \A i \in Blocks : run.done[i] # "copied"
    BY <1>1 DEF RunInv, PastBarrier
  <2>2. run.kind = "leaf" => indices = run.before
    BY <1>1, <2>1 DEF RunInv, LeafRun
  <2>3. run.kind = "bag" \/ run.kind = "leaf"
    BY <1>1 DEF RunShape
  <2> QED BY <2>2, <2>3 DEF Source, Original
<1>3. /\ {q \in Block(j) : Source[q] \in run.goes} = LeftsOf(j)
      /\ Block(j) \ {q \in Block(j) : Source[q] \in run.goes} = RightsOf(j)
  BY <1>1, <1>2, InScratch DEF Lefts, Rights, LeftsOf, RightsOf
<1> QED BY <1>1, <1>2, <1>3

\* What the first loop does to the scratch memory and to the counts.
LEMMA SplitBlockFacts ==
  ASSUME IInv, NEW j, SplitBlock(j)
  PROVE  /\ Running /\ j \in Blocks /\ run.done[j] = "nothing" /\ SameRows
         /\ DOMAIN run' = DOMAIN run
         /\ run'.done = [run.done EXCEPT ![j] = "split"]
         /\ run'.left_cnts \in [Blocks -> Nat] /\ run'.right_cnts \in [Blocks -> Nat]
         /\ run'.left_cnts[j] = Cardinality(LeftsOf(j))
         /\ run'.right_cnts[j] = Cardinality(RightsOf(j))
         /\ \A i \in Blocks : i # j => run'.left_cnts[i] = run.left_cnts[i]
                                       /\ run'.right_cnts[i] = run.right_cnts[i]
<1>1. Running /\ j \in Blocks /\ run.done[j] = "nothing" /\ RunInv /\ RunShape /\ j \in Nat
  BY BlockToSplit
<1> DEFINE lefts == {q \in Block(j) : Source[q] \in run.goes}
<1>3. lefts = LeftsOf(j) /\ Block(j) \ lefts = RightsOf(j)
  BY BlockToSplit
<1>4. /\ Cardinality(LeftsOf(j)) \in Nat /\ Cardinality(RightsOf(j)) \in Nat /\ CurCnt(j) \in Int
      /\ CurCnt(j) > 0 => CurCnt(j) - Cardinality(LeftsOf(j)) = Cardinality(RightsOf(j))
      /\ CurCnt(j) <= 0 => Cardinality(LeftsOf(j)) = 0 /\ Cardinality(RightsOf(j)) = 0
  <2>1. /\ Cardinality(LeftsOf(j)) \in Nat /\ Cardinality(RightsOf(j)) \in Nat
        /\ Cardinality(LeftsOf(j)) + Cardinality(RightsOf(j)) = IF CurCnt(j) > 0 THEN CurCnt(j) ELSE 0
    BY <1>1, BlockSides
  <2>2. CurCnt(j) \in Int
    BY <1>1, BlockBounds
  <2> QED BY <2>1, <2>2
<1>5. /\ run.done \in [Blocks -> {"nothing", "split", "copied"}]
      /\ run.left_cnts \in [Blocks -> Nat] /\ run.right_cnts \in [Blocks -> Nat]
      /\ DOMAIN run = {"kind", "leaf", "begin", "cnt", "goes", "nblock", "size", "before", "done",
                       "left_cnts", "right_cnts"}
      /\ run.left_cnts[j] = 0 /\ run.right_cnts[j] = 0
  BY <1>1 DEF RunInv
<1>6. CASE CurCnt(j) <= 0
  <2>1. run' = [run EXCEPT !.done[j] = "split"]
    BY <1>6 DEF SplitBlock
  <2>2. /\ SameRows /\ DOMAIN run' = DOMAIN run
        /\ run'.done = [run.done EXCEPT ![j] = "split"]
        /\ run'.left_cnts = run.left_cnts /\ run'.right_cnts = run.right_cnts
    BY <2>1, <1>5 DEF SameRows
  <2> QED BY <1>1, <1>4, <1>5, <1>6, <2>2
<1>7. CASE ~(CurCnt(j) <= 0)
  <2>1. run' = [run EXCEPT !.done[j] = "split",
                           !.left_cnts[j] = Cardinality(lefts),
                           !.right_cnts[j] = CurCnt(j) - Cardinality(lefts)]
    BY <1>7 DEF SplitBlock
  <2>2. /\ SameRows /\ DOMAIN run' = DOMAIN run
        /\ run'.done = [run.done EXCEPT ![j] = "split"]
        /\ run'.left_cnts = [run.left_cnts EXCEPT ![j] = Cardinality(lefts)]
        /\ run'.right_cnts = [run.right_cnts EXCEPT ![j] = CurCnt(j) - Cardinality(lefts)]
    BY <2>1, <1>5 DEF SameRows
  <2>3. CurCnt(j) > 0
    BY <1>4, <1>7
  <2>4. Cardinality(lefts) = Cardinality(LeftsOf(j))
        /\ CurCnt(j) - Cardinality(lefts) = Cardinality(RightsOf(j))
    BY <1>3, <1>4, <2>3
  <2> HIDE DEF lefts
  <2> QED BY <1>1, <1>4, <1>5, <2>2, <2>4
<1> QED BY <1>6, <1>7

LEMMA SplitBlockScratch ==
  ASSUME IInv, NEW j, SplitBlock(j)
  PROVE  /\ left_' \in [Rows -> Rows \cup {Junk}] /\ right_' \in [Rows -> Rows \cup {Junk}]
         /\ \A p \in Rows : p \notin Block(j) => left_'[p] = left_[p] /\ right_'[p] = right_[p]
         /\ \A k \in 0..(Cardinality(LeftsOf(j)) - 1) :
              left_'[CurStart(j) + k] = Original[Nth(LeftsOf(j), k)]
         /\ \A k \in 0..(Cardinality(RightsOf(j)) - 1) :
              IF run.kind = "bag"
                THEN left_'[CurStart(j) + Cardinality(LeftsOf(j)) + k] = Original[Nth(RightsOf(j), k)]
                ELSE right_'[CurStart(j) + k] = Original[Nth(RightsOf(j), k)]
<1> DEFINE a == CurStart(j)
           L == LeftsOf(j)
           R == RightsOf(j)
           c == Cardinality(L)
           d == Cardinality(R)
<1>1. Running /\ j \in Blocks /\ run.done[j] = "nothing" /\ RunInv /\ RunShape /\ j \in Nat
  BY BlockToSplit
<1>2. Source = Original
  BY BlockToSplit
<1>3. /\ {q \in Block(j) : Source[q] \in run.goes} = L
      /\ Block(j) \ {q \in Block(j) : Source[q] \in run.goes} = R
  BY BlockToSplit
<1>4. /\ c \in Nat /\ d \in Nat /\ CurCnt(j) \in Int /\ a \in Nat
      /\ c + d = IF CurCnt(j) > 0 THEN CurCnt(j) ELSE 0
      /\ Places(L) /\ Places(R)
  <2>1. c \in Nat /\ d \in Nat /\ c + d = IF CurCnt(j) > 0 THEN CurCnt(j) ELSE 0
    BY <1>1, BlockSides
  <2>2. Places(L) /\ Places(R)
    BY <1>1, Sides, PlacesSubset DEF LeftsOf, RightsOf
  <2> QED BY <1>1, <2>1, <2>2, BlockBounds
<1>5. /\ left_ \in [Rows -> Rows \cup {Junk}] /\ right_ \in [Rows -> Rows \cup {Junk}]
      /\ \A p \in Rows : p \in Int
  BY DEF IInv, TypeOK, Rows
<1>6. /\ Block(j) = a .. (a + CurCnt(j) - 1) /\ Block(j) \subseteq Rows
      /\ \A k \in 0..(c - 1) : a + k \in Rows
      /\ \A k \in 0..(d - 1) : a + k \in Rows /\ a + c + k \in Rows
  BY <1>1, InScratch DEF Block
\* The rows that are written.
<1>7. /\ \A k \in 0..(c - 1) : Original[Nth(L, k)] \in Rows
      /\ \A k \in 0..(d - 1) : Original[Nth(R, k)] \in Rows
  <2>1. L \subseteq 0..(run.cnt - 1) /\ R \subseteq 0..(run.cnt - 1)
    BY DEF LeftsOf, RightsOf, Lefts, Rights
  <2>2. \A q \in 0..(run.cnt - 1) : Original[q] \in Rows
    BY <1>1, OriginalRows
  <2>3. /\ \A k \in 0..(c - 1) : Nth(L, k) \in L
        /\ \A k \in 0..(d - 1) : Nth(R, k) \in R
    BY <1>4, NthMember
  <2> QED BY <2>1, <2>2, <2>3
\* An array that was written only at the left rows and then at the others.
\* Scratch memory after some of its places got rows.
<1>8. ASSUME NEW old, old \in [Rows -> Rows \cup {Junk}],
             NEW new, new = [p \in Rows |-> new[p]],
             \A p \in Rows : new[p] = old[p] \/ new[p] \in Rows
      PROVE  new \in [Rows -> Rows \cup {Junk}]
  <2>1. \A p \in Rows : new[p] \in Rows \cup {Junk}
    BY <1>8
  <2> QED BY <1>8, <2>1
<1>9. CASE CurCnt(j) <= 0
  <2>1. left_' = left_ /\ right_' = right_
    BY <1>9 DEF SplitBlock
  <2>2. c = 0 /\ d = 0
    BY <1>4, <1>9
  <2> QED BY <1>5, <2>1, <2>2
<1>10. CASE CurCnt(j) > 0 /\ run.kind = "bag"
  <2> DEFINE front == Written(left_, a, Source, L)
             last == a + CurCnt(j) - 1
             whole == Reversed(WrittenBack(front, last, Source, R), a + c, last)
  <2>1. left_' = whole /\ right_' = right_
    <3>1. /\ left_' = OneBuffer(j, {q \in Block(j) : Source[q] \in run.goes},
                                 Block(j) \ {q \in Block(j) : Source[q] \in run.goes})
          /\ right_' = right_
      BY <1>4, <1>10 DEF SplitBlock
    <3>2. left_' = OneBuffer(j, L, R)
      BY <1>3, <3>1, Zenon
    <3> QED BY <3>1, <3>2 DEF OneBuffer
  <2>2. last = (a + c) + d - 1 /\ a + c \in Int
    BY <1>4, <1>10
  <2>3. /\ DOMAIN front = Rows
        /\ \A k \in 0..(c - 1) : front[a + k] = Original[Nth(L, k)]
        /\ \A p \in Rows : p < a \/ p >= a + c => front[p] = left_[p]
    <3>1. DOMAIN left_ = Rows /\ (\A p \in DOMAIN left_ : p \in Int) /\ Cardinality(L) \in Nat
          /\ a \in Int
      BY <1>4, <1>5
    <3>2. /\ DOMAIN front = DOMAIN left_
          /\ \A k \in 0..(Cardinality(L) - 1) : a + k \in DOMAIN left_ => front[a + k] = Source[Nth(L, k)]
          /\ \A p \in DOMAIN left_ : p < a \/ p >= a + Cardinality(L) => front[p] = left_[p]
      <4> HIDE DEF a, L
      <4> QED BY <3>1, WrittenFacts
    <3> HIDE DEF front, L, a
    <3> QED BY <1>2, <1>6, <3>1, <3>2 DEF c
  <2> HIDE DEF front
  <2>4. /\ DOMAIN whole = Rows
        /\ \A k \in 0..(d - 1) : whole[(a + c) + k] = Original[Nth(R, k)]
        /\ \A p \in Rows : p < a + c \/ p >= (a + c) + d => whole[p] = front[p]
    <3>1. \A p \in (a + c)..((a + c) + d - 1) : p \in DOMAIN front
      <4> SUFFICES ASSUME NEW p \in (a + c)..((a + c) + d - 1) PROVE p \in Rows
        BY <2>3
      <4>1. p - (a + c) \in 0..(d - 1) /\ p = a + c + (p - (a + c))
        BY <1>4
      <4> QED BY <1>6, <4>1
    <3> HIDE DEF a, R, c, last, d
    <3> QED BY <1>2, <1>4, <1>5, <2>2, <2>3, <3>1, ReversedFacts DEF d
  <2>5. whole = [p \in Rows |-> whole[p]]
    BY <2>4 DEF Reversed
  <2> HIDE DEF whole
  <2>6. \A p \in Rows : p \notin Block(j) => whole[p] = left_[p]
    BY <1>4, <1>5, <1>6, <1>10, <2>3, <2>4, SMTT(30)
  <2>7. \A k \in 0..(c - 1) : whole[a + k] = Original[Nth(L, k)]
    BY <1>4, <1>5, <1>6, <2>3, <2>4
  <2>8. \A p \in Rows : whole[p] = left_[p] \/ whole[p] \in Rows
    <3> SUFFICES ASSUME NEW p \in Rows, p \in Block(j) PROVE whole[p] \in Rows
      BY <2>6
    <3>1. CASE p < a + c
      <4>1. p - a \in 0..(c - 1) /\ p = a + (p - a)
        BY <1>4, <1>5, <1>6, <3>1
      <4> QED BY <4>1, <1>7, <2>7
    <3>2. CASE ~(p < a + c)
      <4>1. p - (a + c) \in 0..(d - 1) /\ p = (a + c) + (p - (a + c))
        BY <1>4, <1>5, <1>6, <1>10, <3>2
      <4> QED BY <4>1, <1>7, <2>4
    <3> QED BY <3>1, <3>2
  <2>9. whole \in [Rows -> Rows \cup {Junk}]
    BY <1>5, <1>8, <2>5, <2>8
  <2> QED BY <1>4, <1>5, <1>10, <2>1, <2>4, <2>6, <2>7, <2>9
<1>11. CASE CurCnt(j) > 0 /\ run.kind # "bag"
  <2> DEFINE lnew == Written(left_, a, Source, L)
             rnew == Written(right_, a, Source, R)
  <2>1. left_' = lnew /\ right_' = rnew
    BY <1>3, <1>4, <1>11 DEF SplitBlock
  <2>2. DOMAIN left_ = Rows /\ DOMAIN right_ = Rows
    BY <1>5
  <2>3. /\ DOMAIN lnew = Rows
        /\ \A k \in 0..(c - 1) : lnew[a + k] = Original[Nth(L, k)]
        /\ \A p \in Rows : p < a \/ p >= a + c => lnew[p] = left_[p]
    <3>1. (\A p \in DOMAIN left_ : p \in Int) /\ Cardinality(L) \in Nat /\ a \in Int
      BY <1>4, <1>5
    <3>2. /\ DOMAIN lnew = DOMAIN left_
          /\ \A k \in 0..(Cardinality(L) - 1) : a + k \in DOMAIN left_ => lnew[a + k] = Source[Nth(L, k)]
          /\ \A p \in DOMAIN left_ : p < a \/ p >= a + Cardinality(L) => lnew[p] = left_[p]
      <4> HIDE DEF a, L
      <4> QED BY <3>1, WrittenFacts
    <3> HIDE DEF lnew, L, a
    <3> QED BY <1>2, <1>6, <2>2, <3>1, <3>2 DEF c
  <2>4. /\ DOMAIN rnew = Rows
        /\ \A k \in 0..(d - 1) : rnew[a + k] = Original[Nth(R, k)]
        /\ \A p \in Rows : p < a \/ p >= a + d => rnew[p] = right_[p]
    <3> HIDE DEF a, R, d
    <3> QED BY <1>2, <1>4, <1>5, <1>6, <2>2, WrittenFacts, SMTT(30) DEF d
  <2>5. lnew = [p \in Rows |-> lnew[p]] /\ rnew = [p \in Rows |-> rnew[p]]
    BY <2>3, <2>4 DEF Written
  <2> HIDE DEF lnew, rnew
  <2>6. \A p \in Rows : p \notin Block(j) => lnew[p] = left_[p] /\ rnew[p] = right_[p]
    BY <1>4, <1>5, <1>6, <1>11, <2>3, <2>4
  <2>7. ASSUME NEW p \in Rows
        PROVE  (lnew[p] = left_[p] \/ lnew[p] \in Rows) /\ (rnew[p] = right_[p] \/ rnew[p] \in Rows)
    <3>1. p \in Int
      BY <1>5
    <3>2. p >= a /\ p < a + c => p - a \in 0..(c - 1) /\ p = a + (p - a)
      BY <1>4, <3>1
    <3>3. p >= a /\ p < a + d => p - a \in 0..(d - 1) /\ p = a + (p - a)
      BY <1>4, <3>1
    <3>4. lnew[p] = left_[p] \/ lnew[p] \in Rows
      BY <1>4, <1>7, <2>3, <3>1, <3>2
    <3>5. rnew[p] = right_[p] \/ rnew[p] \in Rows
      BY <1>4, <1>7, <2>4, <3>1, <3>3
    <3> QED BY <3>4, <3>5
  <2>8. lnew \in [Rows -> Rows \cup {Junk}] /\ rnew \in [Rows -> Rows \cup {Junk}]
    BY <1>5, <1>8, <2>5, <2>7
  <2> QED BY <1>11, <2>1, <2>3, <2>4, <2>6, <2>8
<1>12. CurCnt(j) <= 0 \/ CurCnt(j) > 0
  BY <1>4
<1> QED BY <1>9, <1>10, <1>11, <1>12

\* HasSplit after a step that keeps the rows of the run.
LEMMA HasSplitAfter ==
  ASSUME SameRows, NEW i, run'.left_cnts[i] = Cardinality(LeftsOf(i)),
         run'.right_cnts[i] = Cardinality(RightsOf(i)),
         \A k \in 0..(Cardinality(LeftsOf(i)) - 1) :
           left_'[CurStart(i) + k] = Original[Nth(LeftsOf(i), k)],
         \A k \in 0..(Cardinality(RightsOf(i)) - 1) :
           RightScratch(i, k)' = Original[Nth(RightsOf(i), k)]
  PROVE  HasSplit(i)'
<1>1. /\ Original' = Original /\ CurStart(i)' = CurStart(i)
      /\ LeftsOf(i)' = LeftsOf(i) /\ RightsOf(i)' = RightsOf(i)
  BY SameRowsFacts
<1>2. \A k : Nth(LeftsOf(i), k)' = Nth(LeftsOf(i), k) /\ Nth(RightsOf(i), k)' = Nth(RightsOf(i), k)
  BY <1>1 DEF Nth, Rank
<1> QED BY <1>1, <1>2 DEF HasSplit

LEMMA SplitBlockInv ==
  ASSUME IInv, NEW j, SplitBlock(j)
  PROVE  RunInv'
<1>1. /\ Running /\ j \in Blocks /\ run.done[j] = "nothing" /\ SameRows
      /\ DOMAIN run' = DOMAIN run
      /\ run'.done = [run.done EXCEPT ![j] = "split"]
      /\ run'.left_cnts \in [Blocks -> Nat] /\ run'.right_cnts \in [Blocks -> Nat]
      /\ run'.left_cnts[j] = Cardinality(LeftsOf(j))
      /\ run'.right_cnts[j] = Cardinality(RightsOf(j))
      /\ \A i \in Blocks : i # j => run'.left_cnts[i] = run.left_cnts[i]
                                    /\ run'.right_cnts[i] = run.right_cnts[i]
  BY SplitBlockFacts
<1>2. RunInv /\ RunShape /\ \A i \in Blocks : run.done[i] # "copied"
  <2>1. RunInv
    BY <1>1 DEF IInv
  <2> QED BY <1>1, <2>1 DEF RunInv, PastBarrier
<1>3. /\ Original' = Original /\ Lefts' = Lefts /\ Rights' = Rights
      /\ Blocks' = Blocks /\ RunShape' = RunShape
      /\ \A i : Block(i)' = Block(i) /\ CurStart(i)' = CurStart(i) /\ CurCnt(i)' = CurCnt(i)
      /\ \A i : LeftsOf(i)' = LeftsOf(i) /\ RightsOf(i)' = RightsOf(i)
  BY <1>1, SameRowsFacts
<1>4. UNCHANGED <<setup, bag_data_indices, bag, bagging, indices, leaf_begin, leaf_count,
                  leaves, growing>>
  BY DEF SplitBlock
<1>5. /\ run'.done \in [Blocks -> {"nothing", "split", "copied"}]
      /\ run'.done[j] = "split"
      /\ \A i \in Blocks : i # j => run'.done[i] = run.done[i]
      /\ \A i \in Blocks : run'.done[i] # "copied"
  BY <1>1, <1>2 DEF RunInv
<1>6. (run.kind = "bag" => BagRun)' /\ (run.kind = "leaf" => LeafRun)'
  <2>1. (run.kind = "bag" => BagRun)'
    BY <1>1, <1>2, <1>4 DEF RunInv, BagRun, SameRows
  <2>2. (run.kind = "leaf" => LeafRun)'
    BY <1>1, <1>2, <1>3, <1>4 DEF RunInv, LeafRun, SameRows, RangeOf
  <2> QED BY <2>1, <2>2
<1>7. \A i \in Blocks : run'.done[i] = "nothing" => run'.left_cnts[i] = 0 /\ run'.right_cnts[i] = 0
  BY <1>1, <1>2, <1>5 DEF RunInv
<1>8. ASSUME NEW i \in Blocks, run'.done[i] # "nothing" PROVE HasSplit(i)'
  <2>1. CASE i = j
    <3>1. /\ \A k \in 0..(Cardinality(LeftsOf(i)) - 1) :
               left_'[CurStart(i) + k] = Original[Nth(LeftsOf(i), k)]
          /\ \A k \in 0..(Cardinality(RightsOf(i)) - 1) :
               IF run.kind = "bag"
                 THEN left_'[CurStart(i) + Cardinality(LeftsOf(i)) + k] = Original[Nth(RightsOf(i), k)]
                 ELSE right_'[CurStart(i) + k] = Original[Nth(RightsOf(i), k)]
      BY <2>1, SplitBlockScratch
    <3>2. \A k \in 0..(Cardinality(RightsOf(i)) - 1) : RightScratch(i, k)' = Original[Nth(RightsOf(i), k)]
      BY <1>1, <1>3, <3>1 DEF RightScratch, SameRows
    <3> QED BY <1>1, <2>1, <3>1, <3>2, HasSplitAfter
  <2>2. CASE i # j
    <3>1. run.done[i] # "nothing" /\ HasSplit(i)
      BY <1>2, <1>5, <1>8, <2>2 DEF RunInv
    <3>2. \A p \in Block(i) : left_'[p] = left_[p] /\ right_'[p] = right_[p]
      <4>1. \A p \in Rows : p \notin Block(j) => left_'[p] = left_[p] /\ right_'[p] = right_[p]
        BY SplitBlockScratch
      <4>2. Block(i) \subseteq Rows
        BY <1>1, InScratch
      <4>3. \A p \in Block(i) : p \notin Block(j)
        BY <1>1, <1>2, <2>2, BlocksDisjoint
      <4> QED BY <4>1, <4>2, <4>3
    <3>3. /\ \A k \in 0..(Cardinality(LeftsOf(i)) - 1) : CurStart(i) + k \in Block(i)
          /\ \A k \in 0..(Cardinality(RightsOf(i)) - 1) :
               CurStart(i) + k \in Block(i) /\ CurStart(i) + Cardinality(LeftsOf(i)) + k \in Block(i)
      BY <1>1, InScratch
    <3>4. \A k \in 0..(Cardinality(LeftsOf(i)) - 1) :
            left_'[CurStart(i) + k] = Original[Nth(LeftsOf(i), k)]
      BY <3>1, <3>2, <3>3 DEF HasSplit
    <3>5. \A k \in 0..(Cardinality(RightsOf(i)) - 1) : RightScratch(i, k)' = RightScratch(i, k)
      BY <1>1, <1>3, <3>2, <3>3 DEF RightScratch, SameRows
    <3>6. \A k \in 0..(Cardinality(RightsOf(i)) - 1) :
            RightScratch(i, k)' = Original[Nth(RightsOf(i), k)]
      BY <3>1, <3>5 DEF HasSplit
    <3>7. run'.left_cnts[i] = Cardinality(LeftsOf(i)) /\ run'.right_cnts[i] = Cardinality(RightsOf(i))
      BY <1>1, <2>2, <3>1 DEF HasSplit
    <3> QED BY <1>1, <3>4, <3>6, <3>7, HasSplitAfter
  <2> QED BY <2>1, <2>2
<1>9. DOMAIN run' = {"kind", "leaf", "begin", "cnt", "goes", "nblock", "size", "before", "done",
                     "left_cnts", "right_cnts"}
  BY <1>1, <1>2 DEF RunInv
<1> QED BY <1>1, <1>2, <1>3, <1>5, <1>6, <1>7, <1>8, <1>9 DEF RunInv

-----------------------------------------------------------------------------
(* After the barrier *)

LEMMA SumsOfSide ==
  ASSUME RunShape, NEW S, S \subseteq 0..(run.cnt - 1), NEW cnts,
         \A i \in Blocks : cnts[i] = Cardinality(S \cap Block(i)), NEW i \in 0..run.nblock
  PROVE  WritePos(cnts, i) = Rank(S, Lo(i))
<1> DEFINE pos == [j \in 0..run.nblock |-> Rank(S, Lo(j))]
<1>1. run.nblock \in Nat /\ run.cnt \in Nat /\ Places(S)
  BY RunRows, PlacesSubset DEF RunShape
<1>2. pos[0] = 0
  <2>1. \A x \in S : x < run.cnt
    <3>1. \A x \in 0..(run.cnt - 1) : x < run.cnt
      BY <1>1
    <3> QED BY <3>1
  <2>2. Rank(S, 0) = 0
    BY <1>1, <2>1, RankEnds
  <2>3. Lo(0) = 0 /\ 0 \in 0..run.nblock
    BY <1>1, LoEnds
  <2> QED BY <2>2, <2>3
<1>3. ASSUME NEW j \in 0..(run.nblock - 1) PROVE pos[j + 1] = pos[j] + cnts[j]
  <2>1. /\ j \in Nat /\ j \in Blocks /\ j \in 0..run.nblock /\ j + 1 \in 0..run.nblock
    BY <1>1 DEF Blocks
  <2>2. Rank(S, Lo(j + 1)) = Rank(S, Lo(j)) + Cardinality(S \cap Block(j))
    BY <2>1, InBlock
  <2> QED BY <2>1, <2>2
<1>4. DOMAIN pos = 0..run.nblock
  OBVIOUS
<1>5. pos[i] = Rank(S, Lo(i))
  OBVIOUS
<1> HIDE DEF pos
<1>6. \A j \in 0..(run.nblock - 1) : pos[j + 1] = pos[j] + cnts[j]
  BY <1>3
<1>7. WritePos(cnts, i) = pos[i]
  <2>1. RunningSum(pos, cnts, run.nblock)
    BY <1>1, <1>2, <1>4, <1>6 DEF RunningSum
  <2> QED BY <2>1, WritePosIs
<1> QED BY <1>5, <1>7

\* The places computed at the barrier are ranks.
LEMMA Barrier ==
  ASSUME IInv, Running, PastBarrier
  PROVE  /\ \A i \in Blocks : HasSplit(i)
         /\ \A i \in 0..run.nblock : WritePos(run.left_cnts, i) = Rank(Lefts, Lo(i))
         /\ \A i \in 0..run.nblock : WritePos(run.right_cnts, i) = Rank(Rights, Lo(i))
         /\ LeftCnt = Cardinality(Lefts)
<1>1. RunInv /\ RunShape
  BY DEF IInv, RunInv
<1>2. \A i \in Blocks : HasSplit(i)
  BY <1>1 DEF RunInv, PastBarrier
<1>3. /\ Lefts \subseteq 0..(run.cnt - 1) /\ Rights \subseteq 0..(run.cnt - 1)
      /\ \A i \in Blocks : run.left_cnts[i] = Cardinality(Lefts \cap Block(i))
      /\ \A i \in Blocks : run.right_cnts[i] = Cardinality(Rights \cap Block(i))
  BY <1>2 DEF Lefts, Rights, HasSplit, LeftsOf, RightsOf
<1>4. \A i \in 0..run.nblock : WritePos(run.left_cnts, i) = Rank(Lefts, Lo(i))
  BY <1>1, <1>3, SumsOfSide
<1>5. \A i \in 0..run.nblock : WritePos(run.right_cnts, i) = Rank(Rights, Lo(i))
  BY <1>1, <1>3, SumsOfSide
<1>6. /\ run.cnt \in Nat /\ run.nblock \in Nat /\ run.size \in Nat
      /\ run.cnt <= run.nblock * run.size /\ Places(Lefts)
      /\ Cardinality(Lefts) \in Nat /\ Cardinality(Rights) \in Nat
      /\ Cardinality(Lefts) + Cardinality(Rights) = run.cnt
  BY <1>1, Sides DEF RunShape
<1>7. ASSUME run.cnt = 0 PROVE LeftCnt = Cardinality(Lefts)
  BY <1>6, <1>7 DEF LeftCnt
<1>8. ASSUME run.cnt # 0 PROVE LeftCnt = Cardinality(Lefts)
  <2>1. run.nblock # 0
    BY <1>6, <1>8
  <2>2. /\ run.nblock - 1 \in Nat /\ run.nblock - 1 \in Blocks /\ (run.nblock - 1) + 1 = run.nblock
        /\ run.nblock - 1 \in 0..run.nblock
    BY <1>6, <2>1 DEF Blocks
  <2> DEFINE z == run.nblock - 1
  <2>3. Rank(Lefts, Lo(z + 1)) = Rank(Lefts, Lo(z)) + Cardinality(Lefts \cap Block(z))
    BY <1>1, <1>3, <2>2, InBlock
  <2>4. Lo(z + 1) = run.cnt
    BY <1>1, <2>2, LoEnds
  <2>5. Rank(Lefts, run.cnt) = Cardinality(Lefts)
    <3>1. \A x \in Lefts : x < run.cnt
      BY <1>6 DEF Lefts
    <3> QED BY <1>6, <3>1, RankEnds
  <2>6. LeftCnt = WritePos(run.left_cnts, z) + run.left_cnts[z]
    BY <1>8 DEF LeftCnt
  <2> QED BY <1>3, <1>4, <2>2, <2>3, <2>4, <2>5, <2>6
<1> QED BY <1>2, <1>4, <1>5, <1>7, <1>8

\* The targets of a block are the places of its rows.
LEMMA Targets ==
  ASSUME IInv, Running, PastBarrier, NEW i \in Blocks
  PROVE  /\ LeftTarget(i) = (run.begin + Rank(Lefts, Lo(i)))
                              .. (run.begin + Rank(Lefts, Lo(i)) + Cardinality(LeftsOf(i)) - 1)
         /\ RightTarget(i) =
              (run.begin + Cardinality(Lefts) + Rank(Rights, Lo(i)))
                .. (run.begin + Cardinality(Lefts) + Rank(Rights, Lo(i)) + Cardinality(RightsOf(i)) - 1)
         /\ \A q \in LeftsOf(i) : Dest(q) \in LeftTarget(i)
         /\ \A q \in RightsOf(i) : Dest(q) \in RightTarget(i)
         /\ \A p \in LeftTarget(i) :
              LET q == Nth(LeftsOf(i), p - (run.begin + Rank(Lefts, Lo(i))))
              IN  q \in LeftsOf(i) /\ Dest(q) = p
         /\ \A p \in RightTarget(i) :
              LET q == Nth(RightsOf(i), p - (run.begin + Cardinality(Lefts) + Rank(Rights, Lo(i))))
              IN  q \in RightsOf(i) /\ Dest(q) = p
<1> DEFINE lp == run.begin + Rank(Lefts, Lo(i))
           rp == run.begin + Cardinality(Lefts) + Rank(Rights, Lo(i))
           L == LeftsOf(i)
           R == RightsOf(i)
<1>1. /\ RunInv /\ RunShape /\ i \in Nat /\ i \in 0..run.nblock /\ run.begin \in Nat
  BY DEF IInv, RunInv, RunShape, Blocks
<1>2. /\ run.left_cnts[i] = Cardinality(L) /\ run.right_cnts[i] = Cardinality(R)
      /\ WritePos(run.left_cnts, i) = Rank(Lefts, Lo(i))
      /\ WritePos(run.right_cnts, i) = Rank(Rights, Lo(i))
      /\ LeftCnt = Cardinality(Lefts)
  BY <1>1, Barrier DEF HasSplit
<1>3. LeftTarget(i) = lp .. (lp + Cardinality(L) - 1)
  BY <1>2 DEF LeftTarget
<1>4. RightTarget(i) = rp .. (rp + Cardinality(R) - 1)
  BY <1>2 DEF RightTarget
<1>5. /\ Lefts \subseteq 0..(run.cnt - 1) /\ Rights \subseteq 0..(run.cnt - 1)
      /\ L \subseteq Lefts /\ R \subseteq Rights
      /\ Cardinality(Lefts) \in Nat
  BY <1>1, Sides DEF Lefts, Rights, LeftsOf, RightsOf
<1>6. /\ Places(L) /\ Cardinality(L) \in Nat /\ Rank(Lefts, Lo(i)) \in Nat
      /\ \A q \in L : Rank(Lefts, q) = Rank(Lefts, Lo(i)) + Rank(L, q)
  BY <1>1, <1>5, InBlock DEF LeftsOf
<1>7. /\ Places(R) /\ Cardinality(R) \in Nat /\ Rank(Rights, Lo(i)) \in Nat
      /\ \A q \in R : Rank(Rights, q) = Rank(Rights, Lo(i)) + Rank(R, q)
  BY <1>1, <1>5, InBlock DEF RightsOf
<1>8. lp \in Nat /\ rp \in Nat
  BY <1>1, <1>5, <1>6, <1>7
<1>9. \A q \in L : Dest(q) = lp + Rank(L, q) /\ Rank(L, q) \in Nat
  <2> SUFFICES ASSUME NEW q \in L PROVE Dest(q) = lp + Rank(L, q) /\ Rank(L, q) \in Nat
    OBVIOUS
  <2>1. Dest(q) = run.begin + Rank(Lefts, q)
    BY <1>1, <1>5, DestRange
  <2>2. Rank(L, q) \in Nat
    BY <1>6, RankType
  <2> QED BY <1>1, <1>6, <2>1, <2>2
<1>10. \A q \in R : Dest(q) = rp + Rank(R, q) /\ Rank(R, q) \in Nat
  <2> SUFFICES ASSUME NEW q \in R PROVE Dest(q) = rp + Rank(R, q) /\ Rank(R, q) \in Nat
    OBVIOUS
  <2>1. Dest(q) = run.begin + Cardinality(Lefts) + Rank(Rights, q)
    BY <1>1, <1>5, DestRange
  <2>2. Rank(R, q) \in Nat
    BY <1>7, RankType
  <2> QED BY <1>1, <1>5, <1>7, <2>1, <2>2
<1> HIDE DEF lp, rp, L, R
<1>11. \A q \in L : Dest(q) \in lp .. (lp + Cardinality(L) - 1)
  <2> SUFFICES ASSUME NEW q \in L PROVE Dest(q) \in lp .. (lp + Cardinality(L) - 1)
    OBVIOUS
  <2>1. Rank(L, q) < Cardinality(L)
    BY <1>6, RankBelow
  <2> QED BY <1>6, <1>8, <1>9, <2>1
<1>12. \A q \in R : Dest(q) \in rp .. (rp + Cardinality(R) - 1)
  <2> SUFFICES ASSUME NEW q \in R PROVE Dest(q) \in rp .. (rp + Cardinality(R) - 1)
    OBVIOUS
  <2>1. Rank(R, q) < Cardinality(R)
    BY <1>7, RankBelow
  <2> QED BY <1>7, <1>8, <1>10, <2>1
<1>13. ASSUME NEW p \in lp .. (lp + Cardinality(L) - 1)
       PROVE  Nth(L, p - lp) \in L /\ Dest(Nth(L, p - lp)) = p
  <2>1. p - lp \in 0..(Cardinality(L) - 1)
    BY <1>6, <1>8
  <2>2. Nth(L, p - lp) \in L /\ Rank(L, Nth(L, p - lp)) = p - lp
    BY <1>6, <2>1, NthMember
  <2> QED BY <1>8, <1>9, <2>2
<1>14. ASSUME NEW p \in rp .. (rp + Cardinality(R) - 1)
       PROVE  Nth(R, p - rp) \in R /\ Dest(Nth(R, p - rp)) = p
  <2>1. p - rp \in 0..(Cardinality(R) - 1)
    BY <1>7, <1>8
  <2>2. Nth(R, p - rp) \in R /\ Rank(R, Nth(R, p - rp)) = p - rp
    BY <1>7, <2>1, NthMember
  <2> QED BY <1>8, <1>10, <2>2
<1> QED BY <1>3, <1>4, <1>11, <1>12, <1>13, <1>14 DEF lp, rp, L, R

\* Copying a block puts its rows where they belong and nothing else.
LEMMA CopiedFacts ==
  ASSUME IInv, Running, PastBarrier, NEW i \in Blocks, NEW out,
         \A p \in run.begin..(run.begin + run.cnt - 1) : p \in DOMAIN out
  PROVE  /\ Copied(out, i) = [p \in DOMAIN out |-> Copied(out, i)[p]]
         /\ \A q \in Block(i) : Copied(out, i)[Dest(q)] = Original[q]
         /\ \A p \in DOMAIN out : (\A q \in Block(i) : Dest(q) # p) => Copied(out, i)[p] = out[p]
<1> DEFINE lp == run.begin + Rank(Lefts, Lo(i))
           rp == run.begin + Cardinality(Lefts) + Rank(Rights, Lo(i))
           L == LeftsOf(i)
           R == RightsOf(i)
           new == Copied(out, i)
           second(p) == IF run.kind = "bag" THEN left_[CurStart(i) + Cardinality(L) + p - rp]
                        ELSE right_[CurStart(i) + p - rp]
<1>1. /\ RunInv /\ RunShape /\ i \in Nat /\ i \in 0..run.nblock /\ run.begin \in Nat
  <2>1. RunInv
    BY DEF IInv
  <2> QED BY <2>1 DEF RunInv, RunShape, Blocks
<1>2. /\ run.left_cnts[i] = Cardinality(L) /\ run.right_cnts[i] = Cardinality(R)
      /\ WritePos(run.left_cnts, i) = Rank(Lefts, Lo(i))
      /\ WritePos(run.right_cnts, i) = Rank(Rights, Lo(i))
      /\ LeftCnt = Cardinality(Lefts)
      /\ \A k \in 0..(Cardinality(L) - 1) : left_[CurStart(i) + k] = Original[Nth(L, k)]
      /\ \A k \in 0..(Cardinality(R) - 1) : RightScratch(i, k) = Original[Nth(R, k)]
  BY <1>1, Barrier DEF HasSplit
<1>3. /\ LeftTarget(i) = lp .. (lp + Cardinality(L) - 1)
      /\ RightTarget(i) = rp .. (rp + Cardinality(R) - 1)
      /\ \A p \in LeftTarget(i) : Nth(L, p - lp) \in L /\ Dest(Nth(L, p - lp)) = p
      /\ \A p \in RightTarget(i) : Nth(R, p - rp) \in R /\ Dest(Nth(R, p - rp)) = p
      /\ \A q \in L : Dest(q) \in LeftTarget(i)
      /\ \A q \in R : Dest(q) \in RightTarget(i)
  BY Targets
<1>4. new = [p \in DOMAIN out |->
               IF p \in LeftTarget(i) THEN left_[CurStart(i) + p - lp]
               ELSE IF p \in RightTarget(i) THEN second(p) ELSE out[p]]
  BY <1>2 DEF Copied
<1>5. /\ CurStart(i) \in Nat /\ lp \in Nat /\ rp \in Nat
      /\ Cardinality(L) \in Nat /\ Cardinality(R) \in Nat
      /\ L \cup R = Block(i) /\ L \subseteq Lefts /\ R \subseteq Rights
      /\ Block(i) \subseteq 0..(run.cnt - 1)
  <2>1. /\ Cardinality(L) \in Nat /\ Cardinality(R) \in Nat /\ L \cup R = Block(i)
    BY <1>1, BlockSides
  <2>2. /\ Lefts \subseteq 0..(run.cnt - 1) /\ Rights \subseteq 0..(run.cnt - 1)
        /\ L \subseteq Lefts /\ R \subseteq Rights
    BY DEF Lefts, Rights, LeftsOf, RightsOf
  <2>3. Rank(Lefts, Lo(i)) \in Nat /\ Rank(Rights, Lo(i)) \in Nat /\ Cardinality(Lefts) \in Nat
    BY <1>1, Sides, RankType
  <2>4. CurStart(i) \in Nat
    BY <1>1, BlockBounds
  <2>5. lp \in Nat /\ rp \in Nat
    BY <1>1, <2>3
  <2>6. Block(i) \subseteq 0..(run.cnt - 1)
    BY <2>1, <2>2
  <2> QED BY <2>1, <2>2, <2>4, <2>5, <2>6
<1>6. \A p \in DOMAIN out :
        /\ p \in LeftTarget(i) => new[p] = left_[CurStart(i) + p - lp]
        /\ p \notin LeftTarget(i) /\ p \in RightTarget(i) => new[p] = second(p)
        /\ p \notin LeftTarget(i) /\ p \notin RightTarget(i) => new[p] = out[p]
  <2> HIDE DEF second, lp, rp
  <2> QED BY <1>4
<1>7. DOMAIN new = DOMAIN out /\ new = [p \in DOMAIN out |-> new[p]]
  <2> HIDE DEF second, lp, rp
  <2> QED BY <1>4
<1> HIDE DEF new
<1>8. ASSUME NEW q \in L PROVE new[Dest(q)] = Original[q]
  <2> DEFINE p == Dest(q)
  <2>1. p \in LeftTarget(i) /\ p \in DOMAIN out
    <3>1. q \in 0..(run.cnt - 1)
      BY <1>5
    <3> QED BY <1>1, <1>3, <3>1, DestRange
  <2>2. Nth(L, p - lp) = q
    <3>1. Nth(L, p - lp) \in L /\ Dest(Nth(L, p - lp)) = Dest(q)
      BY <1>3, <2>1
    <3>2. q \in 0..(run.cnt - 1) /\ Nth(L, p - lp) \in 0..(run.cnt - 1)
      BY <1>5, <3>1
    <3> HIDE DEF p, lp, L
    <3> QED BY <1>1, <3>1, <3>2, DestInjective
  <2>3. p - lp \in 0..(Cardinality(L) - 1) /\ CurStart(i) + p - lp = CurStart(i) + (p - lp)
    <3> HIDE DEF p, lp, L
    <3> QED BY <1>3, <1>5, <2>1, SMTT(30)
  <2>4. new[p] = left_[CurStart(i) + p - lp]
    BY <1>6, <2>1
  <2> HIDE DEF p, lp
  <2>5. new[p] = Original[q]
    BY <1>2, <2>2, <2>3, <2>4
  <2> QED BY <2>5 DEF p
<1>9. ASSUME NEW q \in R PROVE new[Dest(q)] = Original[q]
  <2> DEFINE p == Dest(q)
  <2>0. q \in 0..(run.cnt - 1) /\ q \in Rights
    BY <1>5
  <2>1. p \in RightTarget(i) /\ p \in DOMAIN out
    BY <1>1, <1>3, <2>0, DestRange
  <2>2. p \notin LeftTarget(i)
    <3> SUFFICES ASSUME p \in LeftTarget(i) PROVE FALSE
      OBVIOUS
    <3>1. Nth(L, p - lp) \in L /\ Dest(Nth(L, p - lp)) = Dest(q)
      BY <1>3
    <3>2. Nth(L, p - lp) \in 0..(run.cnt - 1) /\ Nth(L, p - lp) \in Lefts
      BY <1>5, <3>1
    <3>3. Nth(L, p - lp) = q
      <4> HIDE DEF p, lp, L
      <4> QED BY <1>1, <2>0, <3>1, <3>2, DestInjective
    <3> QED BY <2>0, <3>2, <3>3 DEF Rights
  <2>3. Nth(R, p - rp) = q
    <3>1. Nth(R, p - rp) \in R /\ Dest(Nth(R, p - rp)) = Dest(q)
      BY <1>3, <2>1
    <3>2. Nth(R, p - rp) \in 0..(run.cnt - 1)
      BY <1>5, <3>1
    <3> HIDE DEF p, rp, R
    <3> QED BY <1>1, <2>0, <3>1, <3>2, DestInjective
  <2>4. /\ p - rp \in 0..(Cardinality(R) - 1)
        /\ CurStart(i) + p - rp = CurStart(i) + (p - rp)
        /\ CurStart(i) + Cardinality(L) + p - rp = CurStart(i) + Cardinality(L) + (p - rp)
    <3> HIDE DEF p, rp, R, L
    <3> QED BY <1>3, <1>5, <2>1, SMTT(30)
  <2>5. new[p] = second(p)
    BY <1>6, <2>1, <2>2
  <2>6. second(p) = RightScratch(i, p - rp)
    <3> HIDE DEF p, rp
    <3> QED BY <2>4 DEF RightScratch
  <2> HIDE DEF p, rp, second
  <2>7. new[p] = Original[q]
    BY <1>2, <2>3, <2>4, <2>5, <2>6
  <2> QED BY <2>7 DEF p
<1>10. ASSUME NEW p \in DOMAIN out, \A q \in Block(i) : Dest(q) # p PROVE new[p] = out[p]
  <2>1. p \notin LeftTarget(i) /\ p \notin RightTarget(i)
    BY <1>3, <1>5, <1>10
  <2> QED BY <1>6, <2>1
<1> QED BY <1>5, <1>7, <1>8, <1>9, <1>10 DEF new

\* Where a run may write.
LEMMA OutRange ==
  ASSUME IInv, Running
  PROVE  /\ \A p \in run.begin..(run.begin + run.cnt - 1) : p \in DOMAIN Out
         /\ run.kind = "leaf" => run.begin..(run.begin + run.cnt - 1) = RangeOf(run.leaf)
         /\ run.kind \in {"leaf", "bag"} /\ Out = [p \in DOMAIN Out |-> Out[p]]
<1>1. RunInv /\ RunShape /\ run.begin \in Nat /\ run.cnt \in Nat /\ run.begin + run.cnt <= NumData
  BY DEF IInv, RunInv, RunShape
<1>2. run.kind \in {"leaf", "bag"}
  BY <1>1 DEF RunShape
<1>3. /\ bag_data_indices \in [Rows -> Rows] /\ indices \in [DOMAIN indices -> Rows]
      /\ DOMAIN indices = 0..(Cardinality(DOMAIN indices) - 1)
  BY DEF IInv, TypeOK
<1>4. run.kind = "leaf" => run.begin..(run.begin + run.cnt - 1) = RangeOf(run.leaf)
  BY <1>1 DEF RunInv, LeafRun, RangeOf
<1>5. CASE run.kind = "bag"
  <2>1. Out = bag_data_indices
    BY <1>5 DEF Out
  <2>2. \A p \in run.begin..(run.begin + run.cnt - 1) : p \in Rows
    BY <1>1, PartitionAssumption DEF Rows
  <2> QED BY <1>2, <1>3, <1>4, <2>1, <2>2
<1>6. CASE run.kind = "leaf"
  <2>1. Out = indices
    BY <1>6 DEF Out
  <2>2. run.begin + run.cnt <= Cardinality(DOMAIN indices) /\ Cardinality(DOMAIN indices) \in Nat
    <3>1. /\ run.leaf \in Leaf /\ run.begin = leaf_begin[run.leaf]
          /\ run.cnt = leaf_count[run.leaf]
      BY <1>1, <1>6 DEF RunInv, LeafRun
    <3> QED BY <3>1, Promised
  <2>3. \A p \in run.begin..(run.begin + run.cnt - 1) : p \in DOMAIN indices
    <3>1. \A p \in run.begin..(run.begin + run.cnt - 1) : p \in 0..(Cardinality(DOMAIN indices) - 1)
      BY <1>1, <2>2
    <3> QED BY <1>3, <3>1
  <2> QED BY <1>2, <1>3, <1>4, <2>1, <2>3
<1> QED BY <1>2, <1>5, <1>6

LEMMA CopyBlockFacts ==
  ASSUME IInv, NEW j, CopyBlock(j)
  PROVE  /\ Running /\ j \in Blocks /\ run.done[j] = "split" /\ PastBarrier /\ SameRows
         /\ DOMAIN run' = DOMAIN run /\ RunInv /\ RunShape
         /\ run'.done = [run.done EXCEPT ![j] = "copied"]
         /\ run'.left_cnts = run.left_cnts /\ run'.right_cnts = run.right_cnts
         /\ DOMAIN Out' = DOMAIN Out
         /\ Out' \in [DOMAIN Out -> Rows]
         /\ \A q \in Block(j) : Out'[Dest(q)] = Original[q]
         /\ \A p \in DOMAIN Out : (\A q \in Block(j) : Dest(q) # p) => Out'[p] = Out[p]
         /\ run.kind = "bag" => indices' = indices /\ Out' = bag_data_indices'
         /\ run.kind = "leaf" => bag_data_indices' = bag_data_indices /\ Out' = indices'
<1>1. /\ Running /\ j \in Blocks /\ run.done[j] = "split" /\ PastBarrier
      /\ RunInv
  BY DEF CopyBlock, IInv
<1>2. RunShape
      /\ DOMAIN run = {"kind", "leaf", "begin", "cnt", "goes", "nblock", "size", "before", "done",
                       "left_cnts", "right_cnts"}
  BY <1>1 DEF RunInv
<1>3. run' = [run EXCEPT !.done[j] = "copied"]
  BY DEF CopyBlock
<1>4. /\ SameRows /\ DOMAIN run' = DOMAIN run
      /\ run'.done = [run.done EXCEPT ![j] = "copied"]
      /\ run'.left_cnts = run.left_cnts /\ run'.right_cnts = run.right_cnts
  BY <1>2, <1>3 DEF SameRows
<1>5. run.kind = "leaf" \/ run.kind = "bag"
  BY <1>2 DEF RunShape
<1>6. /\ Out' = Copied(Out, j)
      /\ run.kind = "bag" => indices' = indices /\ Out' = bag_data_indices'
      /\ run.kind = "leaf" => bag_data_indices' = bag_data_indices /\ Out' = indices'
  <2>1. run'.kind = run.kind
    BY <1>4 DEF SameRows
  <2> QED BY <1>5, <2>1 DEF CopyBlock, Out
<1>7. /\ Copied(Out, j) = [p \in DOMAIN Out |-> Copied(Out, j)[p]]
      /\ \A q \in Block(j) : Copied(Out, j)[Dest(q)] = Original[q]
      /\ \A p \in DOMAIN Out : (\A q \in Block(j) : Dest(q) # p) => Copied(Out, j)[p] = Out[p]
  <2>1. \A p \in run.begin..(run.begin + run.cnt - 1) : p \in DOMAIN Out
    BY <1>1, OutRange
  <2> QED BY <1>1, <2>1, CopiedFacts
<1>8. \A p \in DOMAIN Out : Copied(Out, j)[p] \in Rows
  <2> SUFFICES ASSUME NEW p \in DOMAIN Out PROVE Copied(Out, j)[p] \in Rows
    OBVIOUS
  <2>1. CASE \A q \in Block(j) : Dest(q) # p
    <3>1. Out[p] \in Rows
      BY <1>5 DEF IInv, TypeOK, Out
    <3> QED BY <1>7, <2>1, <3>1
  <2>2. CASE \E q \in Block(j) : Dest(q) = p
    <3>1. Block(j) \subseteq 0..(run.cnt - 1)
      BY <1>1, InScratch
    <3>2. \A q \in 0..(run.cnt - 1) : Original[q] \in Rows
      BY <1>1, OriginalRows
    <3> QED BY <1>7, <2>2, <3>1, <3>2
  <2> QED BY <2>1, <2>2
<1>9. Copied(Out, j) \in [DOMAIN Out -> Rows]
  BY <1>7, <1>8
<1>10. DOMAIN Copied(Out, j) = DOMAIN Out
  BY <1>9
<1> QED BY <1>1, <1>2, <1>4, <1>6, <1>7, <1>9, <1>10

LEMMA CopyBlockInv ==
  ASSUME IInv, NEW j, CopyBlock(j)
  PROVE  RunInv'
<1>1. /\ Running /\ j \in Blocks /\ run.done[j] = "split" /\ PastBarrier /\ SameRows
      /\ DOMAIN run' = DOMAIN run /\ RunInv /\ RunShape
      /\ run'.done = [run.done EXCEPT ![j] = "copied"]
      /\ run'.left_cnts = run.left_cnts /\ run'.right_cnts = run.right_cnts
      /\ DOMAIN Out' = DOMAIN Out
      /\ \A q \in Block(j) : Out'[Dest(q)] = Original[q]
      /\ \A p \in DOMAIN Out : (\A q \in Block(j) : Dest(q) # p) => Out'[p] = Out[p]
  BY CopyBlockFacts
<1>2. /\ Original' = Original /\ Blocks' = Blocks /\ RunShape' = RunShape
      /\ \A i : Block(i)' = Block(i) /\ CurStart(i)' = CurStart(i)
      /\ \A i : LeftsOf(i)' = LeftsOf(i) /\ RightsOf(i)' = RightsOf(i)
      /\ \A q : Dest(q)' = Dest(q)
  BY <1>1, SameRowsFacts
<1>3. UNCHANGED <<setup, bag, bagging, leaf_begin, leaf_count, leaves, growing, left_, right_>>
  BY DEF CopyBlock
<1>4. /\ run.done \in [Blocks -> {"nothing", "split", "copied"}]
      /\ run.left_cnts \in [Blocks -> Nat] /\ run.right_cnts \in [Blocks -> Nat]
      /\ \A i \in Blocks : run.done[i] # "nothing"
  BY <1>1 DEF RunInv, PastBarrier
<1>5. /\ run'.done \in [Blocks -> {"nothing", "split", "copied"}]
      /\ run'.done[j] = "copied"
      /\ \A i \in Blocks : i # j => run'.done[i] = run.done[i]
      /\ \A i \in Blocks : run'.done[i] # "nothing"
  BY <1>1, <1>4
<1>6. (run.kind = "bag" => BagRun)'
  BY <1>1, <1>3 DEF RunInv, BagRun, SameRows
<1>7. (run.kind = "leaf" => LeafRun)'
  <2> SUFFICES ASSUME run'.kind = "leaf" PROVE LeafRun'
    OBVIOUS
  <2>1. run.kind = "leaf" /\ LeafRun
    BY <1>1 DEF RunInv, SameRows
  <2>2. RangeOf(run.leaf)' = RangeOf(run.leaf)
    BY <1>1, <1>3 DEF RangeOf, SameRows
  <2>3. Out = indices /\ Out' = indices'
    BY <2>1, CopyBlockFacts DEF Out
  <2>4. ASSUME NEW p \in DOMAIN indices \ RangeOf(run.leaf) PROVE indices'[p] = run.before[p]
    <3>1. \A q \in Block(j) : Dest(q) # p
      <4>1. run.begin..(run.begin + run.cnt - 1) = RangeOf(run.leaf)
        BY <1>1, <2>1, OutRange
      <4>2. \A q \in Block(j) : q \in 0..(run.cnt - 1)
        BY <1>1, InScratch
      <4>3. \A q \in Block(j) : Dest(q) \in run.begin..(run.begin + run.cnt - 1)
        BY <1>1, <4>2, DestRange
      <4> QED BY <4>1, <4>3
    <3>2. indices[p] = run.before[p]
      BY <2>1 DEF LeafRun
    <3> QED BY <1>1, <2>3, <3>1, <3>2
  <2>5. DOMAIN indices' = DOMAIN indices
    BY <1>1, <2>3
  <2>6. ~(\A i \in Blocks' : run'.done[i] # "copied")
    BY <1>1, <1>2, <1>5
  <2>7. /\ growing' = growing /\ run'.leaf = run.leaf /\ leaves' = leaves
        /\ run'.begin = run.begin /\ run'.cnt = run.cnt /\ run'.goes = run.goes
        /\ run'.before = run.before /\ leaf_begin' = leaf_begin /\ leaf_count' = leaf_count
    BY <1>1, <1>3 DEF SameRows
  <2>8. /\ growing' /\ run'.leaf \in Leaf /\ run'.leaf < leaves' /\ leaves' < NumLeaves
        /\ run'.begin = leaf_begin'[run'.leaf] /\ run'.cnt = leaf_count'[run'.leaf]
        /\ run'.goes \subseteq {run'.before[p] : p \in RangeOf(run.leaf)'}
    BY <2>1, <2>2, <2>7 DEF LeafRun
  <2> QED BY <2>2, <2>4, <2>5, <2>6, <2>7, <2>8 DEF LeafRun
<1>8. ASSUME NEW i \in Blocks PROVE HasSplit(i)'
  <2>1. HasSplit(i)
    BY <1>1, <1>4 DEF RunInv
  <2>2. \A k \in 0..(Cardinality(RightsOf(i)) - 1) : RightScratch(i, k)' = RightScratch(i, k)
    BY <1>1, <1>2, <1>3 DEF RightScratch, SameRows
  <2> QED BY <1>1, <1>3, <2>1, <2>2, HasSplitAfter DEF HasSplit
<1>9. ASSUME NEW i \in Blocks, run'.done[i] = "copied" PROVE HasCopied(i)'
  <2> SUFFICES ASSUME NEW q \in Block(i) PROVE Out'[Dest(q)] = Original[q]
    BY <1>2 DEF HasCopied
  <2>1. CASE i = j
    BY <1>1, <2>1
  <2>2. CASE i # j
    <3>1. Out[Dest(q)] = Original[q]
      BY <1>1, <1>5, <1>9, <2>2 DEF RunInv, HasCopied
    <3>2. q \in 0..(run.cnt - 1) /\ \A r \in Block(j) : r \in 0..(run.cnt - 1)
      BY <1>1, InScratch
    <3>3. \A r \in Block(j) : r # q
      BY <1>1, <2>2, BlocksDisjoint
    <3>4. \A r \in Block(j) : Dest(r) # Dest(q)
      BY <1>1, <3>2, <3>3, DestInjective
    <3>5. Dest(q) \in DOMAIN Out
      BY <1>1, <3>2, DestRange, OutRange
    <3> QED BY <1>1, <3>1, <3>4, <3>5
  <2> QED BY <2>1, <2>2
<1>10. PastBarrier'
  BY <1>2, <1>5 DEF PastBarrier
<1>11. DOMAIN run' = {"kind", "leaf", "begin", "cnt", "goes", "nblock", "size", "before", "done",
                      "left_cnts", "right_cnts"}
  BY <1>1 DEF RunInv
<1> QED BY <1>1, <1>2, <1>4, <1>5, <1>6, <1>7, <1>8, <1>9, <1>10, <1>11 DEF RunInv

-----------------------------------------------------------------------------
(* The blocks a run begins with *)

LEMMA CeilDivFacts ==
  ASSUME NEW a \in Nat, NEW b \in Nat \ {0}
  PROVE  CeilDiv(a, b) \in Nat /\ a <= b * CeilDiv(a, b) /\ (a > 0 => CeilDiv(a, b) >= 1)
<1>1. a + b - 1 \in Nat /\ b \in Nat /\ b # 0
  OBVIOUS
<1> DEFINE d == (a + b - 1) \div b
<1>2. d \in Nat /\ b * d <= a + b - 1 /\ a + b - 1 < b * d + b
  BY <1>1, Division
<1>3. CeilDiv(a, b) = d
  BY DEF CeilDiv
<1> HIDE DEF d
<1>4. b * d \in Nat
  BY <1>1, <1>2
<1>5. a <= b * d
  BY <1>1, <1>2, <1>4
<1>6. a > 0 => d >= 1
  <2>1. d = 0 => b * d = 0
    BY <1>1
  <2> QED BY <1>2, <1>5, <2>1
<1> QED BY <1>2, <1>3, <1>5, <1>6

\* The blocks cover the rows, whatever their size is rounded up to.
LEMMA BlocksCover ==
  ASSUME NEW cnt \in Nat, NEW n \in Nat, NEW unit \in Nat \ {0}, n > 1
  PROVE  LET size == CeilDiv(CeilDiv(cnt, n), unit) * unit
         IN  size \in Nat /\ cnt <= n * size
<1> DEFINE c == CeilDiv(cnt, n)
           k == CeilDiv(c, unit)
           size == k * unit
<1>1. c \in Nat /\ cnt <= n * c
  BY CeilDivFacts
<1>2. k \in Nat /\ c <= unit * k
  <2> HIDE DEF c
  <2> QED BY <1>1, CeilDivFacts
<1> HIDE DEF c, k
<1>3. size \in Nat /\ c <= size
  BY <1>2
<1> HIDE DEF size
<1>4. n * c <= n * size /\ n * c \in Nat /\ n * size \in Nat
  BY <1>1, <1>3
<1>5. cnt <= n * size
  BY <1>1, <1>4
<1> QED BY <1>3, <1>5 DEF size, k, c

LEMMA BlockInfoFacts ==
  ASSUME setup \in Setups, NEW cnt \in Nat
  PROVE  /\ BlockInfo(cnt, setup.minLeaf).nblock \in Nat
         /\ BlockInfo(cnt, setup.minLeaf).size \in Nat
         /\ cnt <= BlockInfo(cnt, setup.minLeaf).nblock * BlockInfo(cnt, setup.minLeaf).size
         /\ BlockInfoForceSize(cnt, setup.minBag).nblock \in Nat
         /\ BlockInfoForceSize(cnt, setup.minBag).size \in Nat
         /\ cnt <= BlockInfoForceSize(cnt, setup.minBag).nblock * BlockInfoForceSize(cnt, setup.minBag).size
         /\ BlockInfoForceSize(cnt, setup.minBag).nblock > 1 =>
              \E m \in Nat : BlockInfoForceSize(cnt, setup.minBag).size = m * setup.minBag
<1>1. /\ setup.threads \in Nat \ {0} /\ setup.minLeaf \in Nat \ {0}
      /\ setup.minBag \in Nat \ {0} /\ setup.align \in Nat \ {0}
  BY SetupAssumption
<1>2. ASSUME NEW m \in Nat \ {0}
      PROVE  NumBlocks(cnt, m) \in Nat /\ (cnt > 0 => NumBlocks(cnt, m) >= 1)
  <2>1. CeilDiv(cnt, m) \in Nat /\ (cnt > 0 => CeilDiv(cnt, m) >= 1)
    BY CeilDivFacts
  <2> QED BY <1>1, <2>1 DEF NumBlocks
<1>3. ASSUME NEW n \in Nat, ~(n > 1), cnt > 0 => n >= 1
      PROVE  cnt <= n * cnt
  <2>1. n = 0 \/ n = 1
    BY <1>3
  <2> QED BY <2>1, <1>3
<1>4. /\ BlockInfo(cnt, setup.minLeaf).nblock \in Nat
      /\ BlockInfo(cnt, setup.minLeaf).size \in Nat
      /\ cnt <= BlockInfo(cnt, setup.minLeaf).nblock * BlockInfo(cnt, setup.minLeaf).size
  <2> DEFINE n == NumBlocks(cnt, setup.minLeaf)
             long == CeilDiv(CeilDiv(cnt, n), setup.align) * setup.align
  <2>1. n \in Nat /\ (cnt > 0 => n >= 1)
    BY <1>1, <1>2
  <2>2. /\ BlockInfo(cnt, setup.minLeaf).nblock = n
        /\ BlockInfo(cnt, setup.minLeaf).size = IF n > 1 THEN long ELSE cnt
    BY DEF BlockInfo
  <2> HIDE DEF n
  <2>3. n > 1 => long \in Nat /\ cnt <= n * long
    BY <1>1, <2>1, BlocksCover
  <2> HIDE DEF long
  <2> QED BY <1>3, <2>1, <2>2, <2>3
<1>5. /\ BlockInfoForceSize(cnt, setup.minBag).nblock \in Nat
      /\ BlockInfoForceSize(cnt, setup.minBag).size \in Nat
      /\ cnt <= BlockInfoForceSize(cnt, setup.minBag).nblock * BlockInfoForceSize(cnt, setup.minBag).size
      /\ BlockInfoForceSize(cnt, setup.minBag).nblock > 1 =>
           \E m \in Nat : BlockInfoForceSize(cnt, setup.minBag).size = m * setup.minBag
  <2> DEFINE n == NumBlocks(cnt, setup.minBag)
             times == CeilDiv(CeilDiv(cnt, n), setup.minBag)
             long == times * setup.minBag
  <2>1. n \in Nat /\ (cnt > 0 => n >= 1)
    BY <1>1, <1>2
  <2>2. /\ BlockInfoForceSize(cnt, setup.minBag).nblock = n
        /\ BlockInfoForceSize(cnt, setup.minBag).size = IF n > 1 THEN long ELSE cnt
    BY DEF BlockInfoForceSize
  <2> HIDE DEF n
  <2>3. n > 1 => long \in Nat /\ cnt <= n * long
    BY <1>1, <2>1, BlocksCover
  <2>4. n > 1 => times \in Nat
    <3> SUFFICES ASSUME n > 1 PROVE times \in Nat
      OBVIOUS
    <3>1. CeilDiv(cnt, n) \in Nat
      BY <2>1, CeilDivFacts
    <3> QED BY <1>1, <3>1, CeilDivFacts
  <2>5. n > 1 => \E m \in Nat : long = m * setup.minBag
    BY <2>4
  <2> HIDE DEF long, times
  <2> QED BY <1>3, <2>1, <2>2, <2>3, <2>5
<1> QED BY <1>4, <1>5

LEMMA BeginRunFacts ==
  ASSUME NEW kind, NEW l, NEW begin \in Nat, NEW cnt \in Nat, NEW goes, NEW blocks,
         blocks.nblock \in Nat, blocks.size \in Nat, cnt <= blocks.nblock * blocks.size,
         kind \in {"leaf", "bag"}, begin + cnt <= NumData,
         BeginRun(kind, l, begin, cnt, goes, blocks)
  PROVE  /\ RunShape' /\ run'.kind = kind /\ run'.leaf = l /\ run'.begin = begin /\ run'.cnt = cnt
         /\ run'.goes = goes /\ run'.before = indices
         /\ run'.nblock = blocks.nblock /\ run'.size = blocks.size
         /\ DOMAIN run' = {"kind", "leaf", "begin", "cnt", "goes", "nblock", "size", "before",
                           "done", "left_cnts", "right_cnts"}
         /\ run'.done \in [Blocks' -> {"nothing", "split", "copied"}]
         /\ run'.left_cnts \in [Blocks' -> Nat] /\ run'.right_cnts \in [Blocks' -> Nat]
         /\ \A i \in Blocks' : /\ run'.done[i] = "nothing"
                               /\ run'.left_cnts[i] = 0 /\ run'.right_cnts[i] = 0
         /\ left_' = Scratch /\ right_' = Scratch
<1>1. run' = [kind |-> kind, leaf |-> l, begin |-> begin, cnt |-> cnt, goes |-> goes,
              nblock |-> blocks.nblock, size |-> blocks.size, before |-> indices,
              done |-> [i \in 0..(blocks.nblock - 1) |-> "nothing"],
              left_cnts |-> [i \in 0..(blocks.nblock - 1) |-> 0],
              right_cnts |-> [i \in 0..(blocks.nblock - 1) |-> 0]]
  BY DEF BeginRun
<1>2. /\ run'.kind = kind /\ run'.leaf = l /\ run'.begin = begin /\ run'.cnt = cnt
      /\ run'.goes = goes /\ run'.before = indices
      /\ run'.nblock = blocks.nblock /\ run'.size = blocks.size
      /\ run'.done = [i \in 0..(blocks.nblock - 1) |-> "nothing"]
      /\ run'.left_cnts = [i \in 0..(blocks.nblock - 1) |-> 0]
      /\ run'.right_cnts = [i \in 0..(blocks.nblock - 1) |-> 0]
      /\ DOMAIN run' = {"kind", "leaf", "begin", "cnt", "goes", "nblock", "size", "before",
                        "done", "left_cnts", "right_cnts"}
  BY <1>1
<1>3. Blocks' = 0..(blocks.nblock - 1)
  BY <1>2 DEF Blocks
<1>4. RunShape'
  BY <1>2 DEF RunShape
<1>5. left_' = Scratch /\ right_' = Scratch
  BY DEF BeginRun
<1> QED BY <1>2, <1>3, <1>4, <1>5

\* A run begins with no block divided.
LEMMA BeginRunInv ==
  ASSUME RunShape', run'.kind = "bag" => BagRun', run'.kind = "leaf" => LeafRun',
         DOMAIN run' = {"kind", "leaf", "begin", "cnt", "goes", "nblock", "size", "before",
                        "done", "left_cnts", "right_cnts"},
         run'.done \in [Blocks' -> {"nothing", "split", "copied"}],
         run'.left_cnts \in [Blocks' -> Nat], run'.right_cnts \in [Blocks' -> Nat],
         \A i \in Blocks' : /\ run'.done[i] = "nothing"
                            /\ run'.left_cnts[i] = 0 /\ run'.right_cnts[i] = 0
  PROVE  RunInv'
BY DEF RunInv

LEMMA StartBaggingInv ==
  ASSUME IInv, NEW goes \in SUBSET Rows, StartBagging(goes)
  PROVE  RunInv' /\ run'.kind = "bag" /\ left_' = Scratch /\ right_' = Scratch
<1> DEFINE blocks == BlockInfoForceSize(NumData, setup.minBag)
<1>1. /\ NumData \in Nat /\ 0 \in Nat /\ 0 + NumData <= NumData
      /\ blocks.nblock \in Nat /\ blocks.size \in Nat /\ NumData <= blocks.nblock * blocks.size
      /\ blocks.nblock > 1 => \E m \in Nat : blocks.size = m * setup.minBag
  <2>1. NumData \in Nat /\ setup \in Setups
    BY PartitionAssumption DEF IInv
  <2> QED BY <2>1, BlockInfoFacts
<1>2. BeginRun("bag", 0, 0, NumData, goes, blocks)
  BY DEF StartBagging
<1> HIDE DEF blocks
<1>3. /\ RunShape' /\ run'.kind = "bag" /\ run'.begin = 0 /\ run'.cnt = NumData
      /\ run'.goes = goes /\ run'.nblock = blocks.nblock /\ run'.size = blocks.size
      /\ DOMAIN run' = {"kind", "leaf", "begin", "cnt", "goes", "nblock", "size", "before",
                        "done", "left_cnts", "right_cnts"}
      /\ run'.done \in [Blocks' -> {"nothing", "split", "copied"}]
      /\ run'.left_cnts \in [Blocks' -> Nat] /\ run'.right_cnts \in [Blocks' -> Nat]
      /\ \A i \in Blocks' : /\ run'.done[i] = "nothing"
                            /\ run'.left_cnts[i] = 0 /\ run'.right_cnts[i] = 0
      /\ left_' = Scratch /\ right_' = Scratch
  BY <1>1, <1>2, BeginRunFacts
<1>4. BagRun'
  <2>1. setup' = setup /\ ~growing'
    BY DEF StartBagging
  <2> QED BY <1>1, <1>3, <2>1 DEF BagRun
<1>5. RunInv'
  BY <1>3, <1>4, BeginRunInv
<1> QED BY <1>3, <1>5

LEMMA BeginSplitInv ==
  ASSUME IInv, NEW l \in Leaf, NEW goes \in SUBSET Rows, BeginSplit(l, goes)
  PROVE  /\ RunInv' /\ run'.kind = "leaf" /\ run'.before = indices
         /\ left_' = Scratch /\ right_' = Scratch
<1> DEFINE blocks == BlockInfo(leaf_count[l], setup.minLeaf)
<1>1. /\ leaf_count[l] \in Nat /\ leaf_begin[l] \in Nat /\ leaf_begin[l] + leaf_count[l] <= NumData
  BY Promised
<1>2. /\ blocks.nblock \in Nat /\ blocks.size \in Nat
      /\ leaf_count[l] <= blocks.nblock * blocks.size
  <2>1. setup \in Setups
    BY DEF IInv
  <2> QED BY <1>1, <2>1, BlockInfoFacts
<1>3. BeginRun("leaf", l, leaf_begin[l], leaf_count[l], goes, blocks)
  BY DEF BeginSplit
<1>4. /\ growing /\ l < leaves /\ leaves < NumLeaves /\ goes \subseteq RowsAt(RangeOf(l))
      /\ UNCHANGED <<indices, leaf_begin, leaf_count, leaves, growing>>
  BY DEF BeginSplit
<1> HIDE DEF blocks
<1>5. /\ RunShape' /\ run'.kind = "leaf" /\ run'.leaf = l
      /\ run'.begin = leaf_begin[l] /\ run'.cnt = leaf_count[l]
      /\ run'.goes = goes /\ run'.before = indices
      /\ DOMAIN run' = {"kind", "leaf", "begin", "cnt", "goes", "nblock", "size", "before",
                        "done", "left_cnts", "right_cnts"}
      /\ run'.done \in [Blocks' -> {"nothing", "split", "copied"}]
      /\ run'.left_cnts \in [Blocks' -> Nat] /\ run'.right_cnts \in [Blocks' -> Nat]
      /\ \A i \in Blocks' : /\ run'.done[i] = "nothing"
                            /\ run'.left_cnts[i] = 0 /\ run'.right_cnts[i] = 0
      /\ left_' = Scratch /\ right_' = Scratch
  BY <1>1, <1>2, <1>3, BeginRunFacts
<1>6. LeafRun'
  <2>1. RangeOf(l)' = RangeOf(l)
    BY <1>4 DEF RangeOf
  <2>2. goes \subseteq {indices[p] : p \in RangeOf(l)}
    BY <1>4 DEF RowsAt
  <2> QED BY <1>4, <1>5, <2>1, <2>2 DEF LeafRun
<1>7. RunInv'
  BY <1>5, <1>6, BeginRunInv
<1> QED BY <1>5, <1>7

-----------------------------------------------------------------------------
(* Every step is one of LeafPartition, or leaves its state alone *)

\* Rows of a run are moved out of sight: the partition of LeafPartition stays.
LEMMA HiddenSteps ==
  ASSUME IInv,
         \/ FinishBagging
         \/ \E l \in Leaf : \E goes \in SUBSET Rows : BeginSplit(l, goes)
         \/ \E i \in 0..(setup.threads - 1) : SplitBlock(i) \/ CopyBlock(i)
  PROVE  UNCHANGED A!vars
<1>1. CASE FinishBagging
  <2>1. run.kind = "bag" /\ run'.kind = "none"
    BY <1>1 DEF FinishBagging, NoRun
  <2>2. UNCHANGED <<indices, leaf_begin, leaf_count, leaves, growing>>
    BY <1>1 DEF FinishBagging
  <2> QED BY <2>1, <2>2 DEF A!vars
<1>2. ASSUME NEW l \in Leaf, NEW goes \in SUBSET Rows, BeginSplit(l, goes)
      PROVE  UNCHANGED A!vars
  <2>1. run'.kind = "leaf" /\ run'.before = indices
    BY <1>2, BeginSplitInv
  <2>2. run.kind = "none"
    BY <1>2 DEF BeginSplit, Running
  <2>3. UNCHANGED <<indices, leaf_begin, leaf_count, leaves, growing>>
    BY <1>2 DEF BeginSplit
  <2> QED BY <2>1, <2>2, <2>3 DEF A!vars
<1>3. ASSUME NEW i, SplitBlock(i) PROVE UNCHANGED A!vars
  <2>1. run'.kind = run.kind /\ run'.before = run.before
    BY <1>3, SplitBlockFacts DEF SameRows
  <2>2. UNCHANGED <<indices, leaf_begin, leaf_count, leaves, growing>>
    BY <1>3 DEF SplitBlock
  <2> QED BY <2>1, <2>2 DEF A!vars
<1>4. ASSUME NEW i, CopyBlock(i) PROVE UNCHANGED A!vars
  <2>1. run'.kind = run.kind /\ run'.before = run.before /\ DOMAIN Out' = DOMAIN Out
        /\ (run.kind = "bag" => indices' = indices)
        /\ (run.kind = "leaf" => Out' = indices')
    BY <1>4, CopyBlockFacts DEF SameRows
  <2>2. UNCHANGED <<leaf_begin, leaf_count, leaves, growing>>
    BY <1>4 DEF CopyBlock
  <2>3. run.kind = "bag" \/ run.kind = "leaf"
    BY <1>4, CopyBlockFacts DEF RunShape
  <2>4. run.kind = "leaf" => DOMAIN indices' = DOMAIN indices
    BY <2>1 DEF Out
  <2> QED BY <2>1, <2>2, <2>3, <2>4 DEF A!vars
<1> QED BY <1>1, <1>2, <1>3, <1>4

LEMMA IdleIndices ==
  ASSUME IInv, ~Running
  PROVE  run = NoRun /\ run.kind = "none" /\ run.kind # "leaf"
BY DEF IInv, NoRun

LEMMA StartBaggingStep ==
  ASSUME IInv, NEW goes \in SUBSET Rows, StartBagging(goes)
  PROVE  A!EndTree
<1>1. run.kind = "none" /\ run'.kind = "bag"
  BY IdleIndices, StartBaggingInv DEF StartBagging
<1>2. growing' = FALSE /\ UNCHANGED <<indices, leaf_begin, leaf_count, leaves>>
  BY DEF StartBagging
<1> QED BY <1>1, <1>2 DEF A!EndTree

LEMMA RowsPlaces ==
  /\ Places(Rows) /\ Cardinality(Rows) = NumData
  /\ \A S : S \subseteq Rows => Places(S) /\ Cardinality(S) \in 0..NumData
<1>1. NumData \in Nat /\ NumData - 1 \in Int
  BY PartitionAssumption
<1>2. /\ Places(0..(NumData - 1))
      /\ Cardinality(0..(NumData - 1)) = IF 0 > NumData - 1 THEN 0 ELSE (NumData - 1) - 0 + 1
  BY <1>1, IntervalPlaces
<1>3. Places(Rows) /\ Cardinality(Rows) = NumData
  BY <1>1, <1>2 DEF Rows
<1>4. ASSUME NEW S, S \subseteq Rows PROVE Places(S) /\ Cardinality(S) \in 0..NumData
  <2>1. Places(S) /\ Cardinality(S) \in Nat /\ Cardinality(S) <= Cardinality(Rows)
    BY <1>3, <1>4, PlacesSubset
  <2> QED BY <1>1, <1>3, <2>1
<1> QED BY <1>3, <1>4

\* A tree is started with the rows of the bag, each once.
LEMMA StartTreeStep ==
  ASSUME IInv, StartTree
  PROVE  /\ Cardinality(bag) \in 0..NumData
         /\ DOMAIN indices' = 0..(Cardinality(bag) - 1)
         /\ Cardinality(DOMAIN indices') = Cardinality(bag)
         /\ A!StartTree(Cardinality(bag))
<1> DEFINE n == Cardinality(bag)
<1>1. bag \subseteq Rows /\ bag_data_indices \in [Rows -> Rows]
  BY DEF IInv, TypeOK
<1>2. Places(bag) /\ n \in 0..NumData /\ NumData \in Nat
  BY <1>1, RowsPlaces, PartitionAssumption
<1>3. indices' = [p \in 0..(n - 1) |-> IF bagging THEN bag_data_indices[p] ELSE p]
  BY DEF StartTree
<1>4. run.kind # "leaf" /\ run.kind # "bag" /\ run' = run
  BY IdleIndices DEF StartTree
<1>5. ASSUME NEW p \in 0..(n - 1)
      PROVE  p \in Rows /\ (bagging => indices'[p] = Nth(bag, p)) /\ (~bagging => indices'[p] = p)
  <2>1. p \in Rows /\ p < n
    BY <1>2 DEF Rows
  <2>2. bagging => bag_data_indices[p] = Nth(bag, p)
    BY <1>4, <2>1 DEF IInv, BagInv
  <2> QED BY <1>3, <2>1, <2>2
<1>6. indices' \in [0..(n - 1) -> Rows]
  BY <1>1, <1>3, <1>5
<1>7. ASSUME NEW p \in 0..(n - 1), NEW q \in 0..(n - 1), indices'[p] = indices'[q]
      PROVE  p = q
  <2>1. CASE bagging
    <3>1. Rank(bag, Nth(bag, p)) = p /\ Rank(bag, Nth(bag, q)) = q
      BY <1>2, NthMember
    <3> QED BY <1>5, <1>7, <2>1, <3>1
  <2>2. CASE ~bagging
    BY <1>5, <1>7, <2>2
  <2> QED BY <2>1, <2>2
<1>8. DOMAIN indices' = 0..(n - 1)
  BY <1>3
<1>9. Cardinality(0..(n - 1)) = n
  <2>1. n - 1 \in Int /\ 0 \in Nat /\ n \in Nat
    BY <1>2
  <2>2. Cardinality(0..(n - 1)) = IF 0 > n - 1 THEN 0 ELSE (n - 1) - 0 + 1
    BY <2>1, IntervalPlaces
  <2> QED BY <2>1, <2>2
<1>10. indices' \in A!Injection(0..(n - 1), A!Rows)
  BY <1>6, <1>7, SameSizes DEF A!Injection, A!IsInjective
<1>11. /\ leaf_begin' = [l \in A!Leaf |-> 0]
       /\ leaf_count' = [l \in A!Leaf |-> IF l = 0 THEN n ELSE 0]
       /\ leaves' = 1 /\ growing' = TRUE
  BY SameSizes DEF StartTree
<1>12. A!StartTree(n)
  <2> HIDE DEF n
  <2> QED BY <1>4, <1>8, <1>9, <1>10, <1>11 DEF A!StartTree
<1> QED BY <1>2, <1>8, <1>9, <1>12

\* The rows of leaf l are reordered and its range is divided after k of them.
LEMMA SplitStep ==
  ASSUME IInv, NEW l \in Leaf, growing, l < leaves, leaves < NumLeaves, growing' = growing,
         NEW k \in 0..leaf_count[l], Divide(l, k),
         run'.kind = "none", DOMAIN indices' = DOMAIN indices,
         indices' \in [DOMAIN indices -> Rows],
         NEW old, old = IF run.kind = "leaf" THEN run.before ELSE indices,
         NEW order \in [RangeOf(l) -> RangeOf(l)],
         \A p, q \in RangeOf(l) : order[p] = order[q] => p = q,
         \A p \in RangeOf(l) : \E q \in RangeOf(l) : order[q] = p,
         \A p, q \in RangeOf(l) :
           p < q /\ (order[p] < leaf_begin[l] + k <=> order[q] < leaf_begin[l] + k)
             => order[p] < order[q],
         \A p \in RangeOf(l) : indices'[order[p]] = old[p],
         \A p \in DOMAIN indices \ RangeOf(l) : indices'[p] = old[p]
  PROVE  A!Split(l, k)
<1>1. /\ leaf_begin \in [Leaf -> Nat] /\ leaf_count \in [Leaf -> Nat]
      /\ leaf_begin[l] \in Nat /\ leaf_count[l] \in Nat /\ k \in Nat
  BY Promised
<1>2. DOMAIN indices = 0..(Cardinality(DOMAIN indices) - 1)
  BY DEF IInv
<1>3. A!Positions = DOMAIN indices
  BY <1>2 DEF A!Positions
<1>4. A!RangeOf(l) = RangeOf(l)
  BY DEF A!RangeOf, RangeOf
<1>5. /\ leaves' = leaves + 1
      /\ leaf_count' = [leaf_count EXCEPT ![l] = k, ![leaves] = leaf_count[l] - k]
      /\ leaf_begin' = [leaf_begin EXCEPT ![leaves] = leaf_begin[l] + k]
  <2>1. k + leaf_begin[l] = leaf_begin[l] + k
    BY <1>1
  <2> QED BY <2>1 DEF Divide
<1>6. order \in A!Bijection(A!RangeOf(l), A!RangeOf(l))
  BY <1>4 DEF A!Bijection, A!Injection, A!IsInjective, A!Surjection
<1>7. A!Stable(l, k, order)
  BY <1>4 DEF A!Stable
<1>8. /\ \A p \in A!RangeOf(l) : indices'[order[p]] = old[p]
      /\ \A p \in A!Positions \ A!RangeOf(l) : indices'[p] = old[p]
  BY <1>3, <1>4
<1>9. \E o \in A!Bijection(A!RangeOf(l), A!RangeOf(l)) :
        /\ A!Stable(l, k, o)
        /\ \A p \in A!RangeOf(l) : indices'[o[p]] = old[p]
        /\ \A p \in A!Positions \ A!RangeOf(l) : indices'[p] = old[p]
  BY <1>6, <1>7, <1>8
<1>10. indices' \in [A!Positions -> A!Rows]
  BY <1>3, SameSizes
<1>11. (IF run.kind = "leaf" THEN run.before ELSE indices)' = indices'
  OBVIOUS
<1> QED BY <1>5, <1>9, <1>10, <1>11 DEF A!Split

LEMMA SplitEmptyStep ==
  ASSUME IInv, NEW l \in Leaf, SplitEmpty(l)
  PROVE  A!Split(l, 0)
<1>1. /\ run.kind = "none" /\ run' = run /\ indices' = indices /\ growing' = growing
      /\ growing /\ l < leaves /\ leaves < NumLeaves /\ Divide(l, 0) /\ leaf_count[l] = 0
  BY IdleIndices DEF SplitEmpty
<1>2. leaf_begin[l] \in Nat
  BY Promised
<1>3. RangeOf(l) = {}
  BY <1>1, <1>2 DEF RangeOf
<1>4. indices \in [DOMAIN indices -> Rows]
  BY DEF IInv, TypeOK
<1> DEFINE order == [p \in RangeOf(l) |-> p]
<1>5. /\ order \in [RangeOf(l) -> RangeOf(l)] /\ 0 \in 0..leaf_count[l]
      /\ run'.kind = "none" /\ DOMAIN indices' = DOMAIN indices
      /\ indices' \in [DOMAIN indices -> Rows]
      /\ indices = IF run.kind = "leaf" THEN run.before ELSE indices
      /\ \A p \in DOMAIN indices \ RangeOf(l) : indices'[p] = indices[p]
  BY <1>1, <1>4
<1> HIDE DEF order
<1> QED BY <1>1, <1>3, <1>5, SplitStep

LEMMA FinishSplitStep ==
  ASSUME IInv, FinishSplit
  PROVE  run.leaf \in Leaf /\ LeftCnt \in 0..leaf_count[run.leaf] /\ A!Split(run.leaf, LeftCnt)
<1>1. /\ Running /\ run.kind = "leaf" /\ \A i \in Blocks : run.done[i] = "copied"
      /\ Divide(run.leaf, LeftCnt) /\ run'.kind = "none"
      /\ UNCHANGED <<indices, growing>>
  BY DEF FinishSplit, AllCopied, NoRun
<1>2. RunInv /\ RunShape /\ LeafRun /\ run.begin \in Nat /\ run.cnt \in Nat
  BY <1>1 DEF IInv, RunInv, RunShape
<1>3. PastBarrier
  BY <1>1 DEF PastBarrier
<1>4. LeftCnt = Cardinality(Lefts) /\ \A i \in Blocks : HasCopied(i)
  BY <1>1, <1>2, <1>3, Barrier DEF RunInv
<1> DEFINE l == run.leaf
           k == LeftCnt
           order == [p \in RangeOf(l) |-> Dest(p - run.begin)]
<1>5. /\ l \in Leaf /\ l < leaves /\ leaves < NumLeaves /\ growing
      /\ run.begin = leaf_begin[l] /\ run.cnt = leaf_count[l]
      /\ \A p \in DOMAIN indices \ RangeOf(l) : indices[p] = run.before[p]
  BY <1>2 DEF LeafRun
<1>6. RangeOf(l) = run.begin..(run.begin + run.cnt - 1)
  BY <1>5 DEF RangeOf
<1>7. k \in 0..leaf_count[l] /\ k \in Nat
  BY <1>2, <1>4, <1>5, Sides
<1>8. \A p \in RangeOf(l) : p - run.begin \in 0..(run.cnt - 1) /\ run.begin + (p - run.begin) = p
  BY <1>2, <1>6
<1>9. \A p \in RangeOf(l) : Dest(p - run.begin) \in RangeOf(l)
  BY <1>2, <1>6, <1>8, DestRange
<1>10. order \in [RangeOf(l) -> RangeOf(l)] /\ \A p \in RangeOf(l) : order[p] = Dest(p - run.begin)
  BY <1>9
<1> HIDE DEF order, l, k
<1>11. ASSUME NEW p \in RangeOf(l), NEW q \in RangeOf(l), order[p] = order[q] PROVE p = q
  <2>1. p - run.begin = q - run.begin
    BY <1>2, <1>8, <1>10, <1>11, DestInjective
  <2> QED BY <1>8, <2>1
<1>12. ASSUME NEW p \in RangeOf(l) PROVE \E q \in RangeOf(l) : order[q] = p
  <2>1. PICK r \in 0..(run.cnt - 1) : Dest(r) = p
    BY <1>2, <1>6, DestOnto
  <2>2. run.begin + r \in RangeOf(l) /\ (run.begin + r) - run.begin = r
    BY <1>2, <1>6
  <2> QED BY <1>10, <2>1, <2>2
<1>13. ASSUME NEW p \in RangeOf(l), NEW q \in RangeOf(l), p < q,
              order[p] < leaf_begin[l] + k <=> order[q] < leaf_begin[l] + k
       PROVE  order[p] < order[q]
  <2>1. /\ p - run.begin \in 0..(run.cnt - 1) /\ q - run.begin \in 0..(run.cnt - 1)
        /\ p - run.begin < q - run.begin
    BY <1>2, <1>6, <1>8, <1>13
  <2>2. p - run.begin \in Lefts <=> q - run.begin \in Lefts
    <3>1. leaf_begin[l] + k = run.begin + Cardinality(Lefts)
      BY <1>4, <1>5 DEF k
    <3> QED BY <1>2, <1>10, <1>13, <2>1, <3>1, DestRange
  <2> QED BY <1>2, <1>10, <2>1, <2>2, DestStable
<1>14. ASSUME NEW p \in RangeOf(l) PROVE indices'[order[p]] = run.before[p]
  <2>1. PICK i \in Blocks : p - run.begin \in Block(i)
    BY <1>2, <1>8, BlockOfRow
  <2>2. Out[Dest(p - run.begin)] = Original[p - run.begin]
    BY <1>4, <2>1 DEF HasCopied
  <2>3. Original[p - run.begin] = run.before[p]
    BY <1>1, <1>8 DEF Original
  <2>4. Out = indices
    BY <1>1 DEF Out
  <2> QED BY <1>1, <1>10, <2>2, <2>3, <2>4
<1>15. indices \in [DOMAIN indices -> Rows]
  BY DEF IInv, TypeOK
<1>16. /\ DOMAIN indices' = DOMAIN indices /\ indices' \in [DOMAIN indices -> Rows]
       /\ run.before = IF run.kind = "leaf" THEN run.before ELSE indices
       /\ \A p \in DOMAIN indices \ RangeOf(l) : indices'[p] = run.before[p]
       /\ growing' = growing
  BY <1>1, <1>5, <1>15
<1>17. Divide(l, k) /\ run'.kind = "none" /\ l \in Leaf /\ growing /\ l < leaves /\ leaves < NumLeaves
  BY <1>1, <1>5 DEF l, k
<1>18. A!Split(l, k)
  BY <1>7, <1>10, <1>11, <1>12, <1>13, <1>14, <1>16, <1>17, SplitStep
<1> QED BY <1>5, <1>7, <1>18 DEF l, k

\* Two sides of a range, one put in order before the other: every position is
\* taken once, and each side keeps its order.
TwoSided(L, R, b, n) ==
  [p \in b..(b + n - 1) |-> IF p \in L THEN b + Rank(L, p) ELSE b + Cardinality(L) + Rank(R, p)]

TwoSidedInOrder(L, R, b, n, order) ==
  /\ Cardinality(L) \in 0..n /\ Cardinality(R) = n - Cardinality(L)
  /\ order \in [b..(b + n - 1) -> b..(b + n - 1)]
  /\ \A p \in L : /\ order[p] = b + Rank(L, p)
                  /\ Rank(L, p) \in Nat /\ Rank(L, p) < Cardinality(L)
  /\ \A p \in R : /\ order[p] = b + Cardinality(L) + Rank(R, p)
                  /\ Rank(R, p) \in Nat /\ Rank(R, p) < Cardinality(R)
  /\ \A p, q \in b..(b + n - 1) : order[p] = order[q] => p = q
  /\ \A p \in b..(b + n - 1) : \E q \in b..(b + n - 1) : order[q] = p
  /\ \A p, q \in b..(b + n - 1) :
       p < q /\ (order[p] < b + Cardinality(L) <=> order[q] < b + Cardinality(L))
         => order[p] < order[q]

LEMMA TwoSides ==
  ASSUME NEW L, Places(L), NEW R, Places(R), NEW b \in Nat, NEW n \in Nat,
         L \cup R = b..(b + n - 1), L \cap R = {}
  PROVE  TwoSidedInOrder(L, R, b, n, TwoSided(L, R, b, n))
<1> DEFINE order == TwoSided(L, R, b, n)
           c == Cardinality(L)
           d == Cardinality(R)
           range == b..(b + n - 1)
<1>1. c \in Nat /\ d \in Nat /\ c + d = n
  <2>1. c \in Nat /\ d \in Nat
    BY PlacesFinite
  <2>2. Cardinality(L \cup R) = c + d
    BY PlacesUnion
  <2>3. b + n - 1 \in Int
    OBVIOUS
  <2>4. Cardinality(range) = IF b > b + n - 1 THEN 0 ELSE (b + n - 1) - b + 1
    BY <2>3, IntervalPlaces
  <2>5. Cardinality(range) = n
    BY <2>4
  <2> QED BY <2>1, <2>2, <2>5
<1>2. ASSUME NEW p \in L
      PROVE  p \in range /\ order[p] = b + Rank(L, p) /\ Rank(L, p) \in Nat /\ Rank(L, p) < c
  <2>1. Rank(L, p) \in Nat /\ Rank(L, p) < c
    BY RankBelow
  <2> QED BY <2>1 DEF TwoSided
<1>3. ASSUME NEW p \in R
      PROVE  p \in range /\ order[p] = b + c + Rank(R, p) /\ Rank(R, p) \in Nat /\ Rank(R, p) < d
  <2>1. Rank(R, p) \in Nat /\ Rank(R, p) < d
    BY RankBelow
  <2>2. p \in range /\ p \notin L
    OBVIOUS
  <2> QED BY <2>1, <2>2 DEF TwoSided
<1>4. \A p \in range : p \in L \/ p \in R
  OBVIOUS
<1>5. \A p \in range : order[p] \in range /\ (p \in L <=> order[p] < b + c)
  <2> SUFFICES ASSUME NEW p \in range PROVE order[p] \in range /\ (p \in L <=> order[p] < b + c)
    OBVIOUS
  <2>1. CASE p \in L
    BY <1>1, <1>2, <2>1
  <2>2. CASE p \in R
    <3>1. p \notin L
      BY <2>2
    <3>2. order[p] = b + c + Rank(R, p) /\ Rank(R, p) \in Nat /\ Rank(R, p) < d
      BY <1>3, <2>2
    <3> HIDE DEF c, d
    <3> QED BY <1>1, <3>1, <3>2
  <2> QED BY <1>4, <2>1, <2>2
<1>6. order \in [range -> range]
  BY <1>5 DEF TwoSided
<1> HIDE DEF c, d, range, order
<1>7. ASSUME NEW p \in range, NEW q \in range, order[p] = order[q] PROVE p = q
  <2>1. CASE p \in L
    <3>1. q \in L
      BY <1>5, <1>7, <2>1
    <3>2. Rank(L, p) = Rank(L, q)
      BY <1>2, <1>7, <2>1, <3>1
    <3> QED BY <2>1, <3>1, <3>2, RankInjective
  <2>2. CASE p \in R
    <3>1. q \in R
      BY <1>4, <1>5, <1>7, <2>2
    <3>2. Rank(R, p) = Rank(R, q)
      BY <1>1, <1>3, <1>7, <2>2, <3>1
    <3> QED BY <2>2, <3>1, <3>2, RankInjective
  <2> QED BY <1>4, <2>1, <2>2
<1>8. ASSUME NEW p \in range PROVE \E q \in range : order[q] = p
  <2>0. p \in Nat /\ b <= p /\ p < b + n
    BY DEF range
  <2>1. CASE p < b + c
    <3>1. p - b \in 0..(Cardinality(L) - 1)
      BY <1>1, <2>0, <2>1 DEF c
    <3>2. Nth(L, p - b) \in L /\ Rank(L, Nth(L, p - b)) = p - b
      BY <3>1, NthMember
    <3>3. order[Nth(L, p - b)] = b + (p - b)
      BY <1>2, <3>2
    <3> QED BY <1>2, <2>0, <3>2, <3>3
  <2>2. CASE ~(p < b + c)
    <3>1. p - b - c \in 0..(Cardinality(R) - 1)
      BY <1>1, <2>0, <2>2 DEF d
    <3>2. Nth(R, p - b - c) \in R /\ Rank(R, Nth(R, p - b - c)) = p - b - c
      BY <3>1, NthMember
    <3>3. order[Nth(R, p - b - c)] = b + c + (p - b - c)
      BY <1>3, <3>2
    <3>4. b + c + (p - b - c) = p
      BY <1>1, <2>0
    <3> QED BY <1>3, <3>2, <3>3, <3>4
  <2> QED BY <2>1, <2>2
<1>9. ASSUME NEW p \in range, NEW q \in range, p < q, order[p] < b + c <=> order[q] < b + c
      PROVE  order[p] < order[q]
  <2>0. p \in Nat /\ q \in Nat
    BY DEF range
  <2>1. CASE p \in L
    <3>1. q \in L
      BY <1>5, <1>9, <2>1
    <3>2. Rank(L, p) + 1 <= Rank(L, q)
      BY <1>9, <2>0, <2>1, RankStrict
    <3> QED BY <1>2, <2>1, <3>1, <3>2
  <2>2. CASE p \in R
    <3>1. q \in R
      BY <1>4, <1>5, <1>9, <2>2
    <3>2. Rank(R, p) + 1 <= Rank(R, q)
      BY <1>9, <2>0, <2>2, RankStrict
    <3> QED BY <1>1, <1>3, <2>2, <3>1, <3>2
  <2> QED BY <1>4, <2>1, <2>2
<1>10. c \in 0..n /\ d = n - c
  BY <1>1
<1> QED BY <1>2, <1>3, <1>6, <1>7, <1>8, <1>9, <1>10 DEF c, d, range, order, TwoSidedInOrder

LEMMA LeafRange ==
  ASSUME IInv, NEW l \in Leaf
  PROVE  /\ RangeOf(l) = leaf_begin[l] .. (leaf_begin[l] + leaf_count[l] - 1)
         /\ leaf_begin[l] \in Nat /\ leaf_count[l] \in Nat
         /\ RangeOf(l) \subseteq DOMAIN indices /\ Places(RangeOf(l))
         /\ \A p \in DOMAIN indices : p \in Nat
<1>1. /\ leaf_begin[l] \in Nat /\ leaf_count[l] \in Nat
      /\ leaf_begin[l] + leaf_count[l] <= Cardinality(DOMAIN indices)
      /\ Cardinality(DOMAIN indices) \in Nat
  BY Promised
<1>2. DOMAIN indices = 0..(Cardinality(DOMAIN indices) - 1)
  BY DEF IInv
<1>3. RangeOf(l) = leaf_begin[l] .. (leaf_begin[l] + leaf_count[l] - 1)
  BY DEF RangeOf
<1>4. RangeOf(l) \subseteq 0..(Cardinality(DOMAIN indices) - 1)
  BY <1>1, <1>3
<1>5. leaf_begin[l] + leaf_count[l] - 1 \in Int
  BY <1>1
<1>6. Places(RangeOf(l))
  BY <1>1, <1>3, <1>5, IntervalPlaces
<1>7. \A p \in 0..(Cardinality(DOMAIN indices) - 1) : p \in Nat
  BY <1>1
<1> QED BY <1>1, <1>2, <1>3, <1>4, <1>6, <1>7

LEMMA ApplyPartitionStep ==
  ASSUME IInv, NEW l \in Leaf, NEW goes \in SUBSET Rows, ApplyPartition(l, goes)
  PROVE  LET k == Cardinality({p \in RangeOf(l) : indices[p] \in goes})
         IN  k \in 0..leaf_count[l] /\ A!Split(l, k) /\ DOMAIN indices' = DOMAIN indices
             /\ indices' \in [DOMAIN indices -> Rows]
<1> DEFINE L == {p \in RangeOf(l) : indices[p] \in goes}
           R == RangeOf(l) \ L
           b == leaf_begin[l]
           n == leaf_count[l]
           c == Cardinality(L)
           d == Cardinality(R)
           inner == Written(indices, b, indices, L)
           order == TwoSided(L, R, b, n)
<1>1. /\ RangeOf(l) = b..(b + n - 1) /\ b \in Nat /\ n \in Nat
      /\ RangeOf(l) \subseteq DOMAIN indices
      /\ \A p \in DOMAIN indices : p \in Nat
  BY LeafRange
<1>2. Places(L) /\ Places(R) /\ L \cup R = b..(b + n - 1) /\ L \cap R = {}
      /\ L \subseteq RangeOf(l) /\ R \subseteq RangeOf(l)
  BY <1>1, LeafRange, PlacesSubset
<1>3. /\ run.kind = "none" /\ run' = run /\ growing' = growing
      /\ growing /\ l < leaves /\ leaves < NumLeaves /\ Divide(l, c)
      /\ indices' = Written(inner, b + c, indices, R)
  BY IdleIndices DEF ApplyPartition
<1> HIDE DEF L, R, b, n
<1>4. /\ c \in 0..n /\ d = n - c
      /\ order \in [b..(b + n - 1) -> b..(b + n - 1)]
      /\ \A p \in L : order[p] = b + Rank(L, p) /\ Rank(L, p) \in Nat /\ Rank(L, p) < c
      /\ \A p \in R : order[p] = b + c + Rank(R, p) /\ Rank(R, p) \in Nat /\ Rank(R, p) < d
      /\ \A p, q \in b..(b + n - 1) : order[p] = order[q] => p = q
      /\ \A p \in b..(b + n - 1) : \E q \in b..(b + n - 1) : order[q] = p
      /\ \A p, q \in b..(b + n - 1) :
           p < q /\ (order[p] < b + c <=> order[q] < b + c) => order[p] < order[q]
  <2>1. TwoSidedInOrder(L, R, b, n, order)
    BY <1>1, <1>2, TwoSides
  <2> HIDE DEF order
  <2> QED BY <2>1 DEF TwoSidedInOrder
<1> HIDE DEF order
<1>5. /\ c \in Nat /\ d \in Nat /\ b \in Int /\ b + c \in Int
      /\ \A p \in DOMAIN indices : p \in Int
  BY <1>1, <1>4
<1>6. /\ DOMAIN inner = DOMAIN indices
      /\ \A k \in 0..(c - 1) : b + k \in DOMAIN indices => inner[b + k] = indices[Nth(L, k)]
      /\ \A p \in DOMAIN indices : p < b \/ p >= b + c => inner[p] = indices[p]
  BY <1>5, WrittenFacts
<1> HIDE DEF inner
<1>7. /\ DOMAIN indices' = DOMAIN indices
      /\ \A k \in 0..(d - 1) : (b + c) + k \in DOMAIN indices => indices'[(b + c) + k] = indices[Nth(R, k)]
      /\ \A p \in DOMAIN indices : p < b + c \/ p >= (b + c) + d => indices'[p] = inner[p]
  <2>1. \A p \in DOMAIN inner : p \in Int
    BY <1>5, <1>6
  <2>2. /\ DOMAIN Written(inner, b + c, indices, R) = DOMAIN inner
        /\ \A k \in 0..(d - 1) : (b + c) + k \in DOMAIN inner =>
             Written(inner, b + c, indices, R)[(b + c) + k] = indices[Nth(R, k)]
        /\ \A p \in DOMAIN inner : p < b + c \/ p >= (b + c) + d =>
             Written(inner, b + c, indices, R)[p] = inner[p]
    BY <1>5, <2>1, WrittenFacts
  <2> QED BY <1>3, <1>6, <2>2
<1>8. ASSUME NEW p \in RangeOf(l) PROVE indices'[order[p]] = indices[p]
  <2>0. order[p] \in DOMAIN indices
    BY <1>1, <1>4
  <2>1. CASE p \in L
    <3>1. order[p] = b + Rank(L, p) /\ Rank(L, p) \in 0..(c - 1) /\ order[p] < b + c
      <4>1. order[p] = b + Rank(L, p) /\ Rank(L, p) \in Nat /\ Rank(L, p) < c
        BY <1>4, <2>1
      <4> HIDE DEF c
      <4> QED BY <1>5, <4>1
    <3>2. inner[order[p]] = indices[Nth(L, Rank(L, p))]
      BY <1>6, <2>0, <3>1
    <3>3. Nth(L, Rank(L, p)) = p
      BY <1>2, <2>1, NthOfRank
    <3>4. indices'[order[p]] = inner[order[p]]
      BY <1>7, <2>0, <3>1
    <3> QED BY <3>2, <3>3, <3>4
  <2>2. CASE p \in R
    <3>1. order[p] = (b + c) + Rank(R, p) /\ Rank(R, p) \in 0..(d - 1)
      BY <1>4, <1>5, <2>2
    <3>2. indices'[order[p]] = indices[Nth(R, Rank(R, p))]
      BY <1>7, <2>0, <3>1
    <3>3. Nth(R, Rank(R, p)) = p
      BY <1>2, <2>2, NthOfRank
    <3> QED BY <3>2, <3>3
  <2>3. p \in L \/ p \in R
    BY DEF R
  <2> QED BY <2>1, <2>2, <2>3
<1>9. ASSUME NEW p \in DOMAIN indices, p \notin RangeOf(l) PROVE indices'[p] = indices[p]
  <2>1. p < b \/ p >= b + n
    BY <1>1, <1>9
  <2>2. (p < b \/ p >= b + c) /\ (p < b + c \/ p >= (b + c) + d)
    BY <1>1, <1>4, <1>5, <2>1
  <2>3. indices'[p] = inner[p]
    BY <1>7, <2>2
  <2>4. inner[p] = indices[p]
    BY <1>6, <2>2
  <2> QED BY <2>3, <2>4
<1>10. indices \in [DOMAIN indices -> Rows]
  BY DEF IInv, TypeOK
<1>11. indices' \in [DOMAIN indices -> Rows]
  <2>1. ASSUME NEW p \in DOMAIN indices PROVE indices'[p] \in Rows
    <3>1. CASE p \in RangeOf(l)
      <4>1. PICK q \in RangeOf(l) : order[q] = p
        BY <1>1, <1>4, <3>1
      <4>2. indices[q] \in Rows
        BY <1>1, <1>10
      <4> QED BY <1>8, <4>1, <4>2
    <3>2. CASE p \notin RangeOf(l)
      BY <1>9, <1>10, <3>2
    <3> QED BY <3>1, <3>2
  <2>2. indices' = [p \in DOMAIN indices |-> indices'[p]]
    BY <1>3, <1>7 DEF Written
  <2> QED BY <2>1, <2>2
<1>12. c \in 0..leaf_count[l] /\ b = leaf_begin[l]
  BY <1>4 DEF n, b
<1> HIDE DEF c, d
<1>13. /\ order \in [RangeOf(l) -> RangeOf(l)]
       /\ \A p, q \in RangeOf(l) : order[p] = order[q] => p = q
       /\ \A p \in RangeOf(l) : \E q \in RangeOf(l) : order[q] = p
       /\ \A p, q \in RangeOf(l) :
            p < q /\ (order[p] < leaf_begin[l] + c <=> order[q] < leaf_begin[l] + c)
              => order[p] < order[q]
  BY <1>1, <1>4, <1>12
<1>14. /\ run'.kind = "none"
       /\ indices = IF run.kind = "leaf" THEN run.before ELSE indices
       /\ \A p \in DOMAIN indices \ RangeOf(l) : indices'[p] = indices[p]
  BY <1>3, <1>9
<1>15. A!Split(l, c)
  BY <1>3, <1>7, <1>8, <1>11, <1>12, <1>13, <1>14, SplitStep
<1> QED BY <1>7, <1>11, <1>12, <1>15 DEF c, L

-----------------------------------------------------------------------------
(* Placing the rows of an existing tree *)

\* The leaves of a prediction follow each other: leaf l + 1 begins where leaf l
\* ends.
LEMMA OffsetStep ==
  ASSUME NEW size \in Nat, NEW pred \in [Rows -> 0..(size - 1)], NEW l \in Nat
  PROVE  /\ Offset(pred, l) \in 0..NumData /\ Offset(pred, l + 1) \in 0..NumData
         /\ Cardinality(RowsPredicted(pred, l)) \in 0..NumData
         /\ Places(RowsPredicted(pred, l)) /\ RowsPredicted(pred, l) \subseteq Rows
         /\ Offset(pred, l + 1) = Offset(pred, l) + Cardinality(RowsPredicted(pred, l))
         /\ Offset(pred, 0) = 0
         /\ l >= size => RowsPredicted(pred, l) = {} /\ Offset(pred, l) = NumData
<1> DEFINE Below(m) == {r \in Rows : pred[r] < m}
<1>1. \A r \in Rows : pred[r] \in Nat /\ pred[r] < size
  OBVIOUS
<1>2. Below(l) \subseteq Rows /\ Below(l + 1) \subseteq Rows /\ RowsPredicted(pred, l) \subseteq Rows
  BY DEF RowsPredicted
<1>3. Below(l + 1) = Below(l) \cup RowsPredicted(pred, l) /\ Below(l) \cap RowsPredicted(pred, l) = {}
  <2>1. \A r \in Rows : pred[r] < l + 1 <=> (pred[r] < l \/ pred[r] = l)
    BY <1>1
  <2>2. \A r \in Rows : ~(pred[r] < l /\ pred[r] = l)
    BY <1>1
  <2> QED BY <2>1, <2>2 DEF RowsPredicted
<1>4. Below(0) = {}
  BY <1>1
<1>5. l >= size => Below(l) = Rows /\ RowsPredicted(pred, l) = {}
  <2> SUFFICES ASSUME l >= size PROVE Below(l) = Rows /\ RowsPredicted(pred, l) = {}
    OBVIOUS
  <2>1. \A r \in Rows : pred[r] < l /\ pred[r] # l
    BY <1>1
  <2> QED BY <2>1 DEF RowsPredicted
<1>6. \A m : Offset(pred, m) = Cardinality(Below(m))
  BY DEF Offset
<1> HIDE DEF Below
<1>7. /\ Places(Below(l)) /\ Places(Below(l + 1)) /\ Places(RowsPredicted(pred, l))
      /\ Cardinality(Below(l)) \in 0..NumData /\ Cardinality(Below(l + 1)) \in 0..NumData
      /\ Cardinality(RowsPredicted(pred, l)) \in 0..NumData
  BY <1>2, RowsPlaces
<1>8. Cardinality(Below(l + 1)) = Cardinality(Below(l)) + Cardinality(RowsPredicted(pred, l))
  BY <1>3, <1>7, PlacesUnion
<1>9. Cardinality(Below(0)) = 0
  BY <1>4, FS_EmptySet
<1>10. l >= size => RowsPredicted(pred, l) = {} /\ Cardinality(Below(l)) = NumData
  BY <1>5, RowsPlaces
<1> QED BY <1>2, <1>6, <1>7, <1>8, <1>9, <1>10

LEMMA OffsetMonotone ==
  ASSUME NEW size \in Nat, NEW pred \in [Rows -> 0..(size - 1)],
         NEW l \in Nat, NEW m \in Nat, l < m
  PROVE  Offset(pred, l + 1) <= Offset(pred, m)
<1>1. {r \in Rows : pred[r] < l + 1} \subseteq {r \in Rows : pred[r] < m}
  OBVIOUS
<1>2. {r \in Rows : pred[r] < m} \subseteq Rows
  OBVIOUS
<1>3. Places({r \in Rows : pred[r] < m})
  BY <1>2, RowsPlaces
<1> QED BY <1>1, <1>3, PlacesSubset DEF Offset

\* Every position belongs to the rows of one leaf.
LEMMA LeafAt ==
  ASSUME NEW size \in Nat \ {0}, NEW pred \in [Rows -> 0..(size - 1)], NEW p \in Rows
  PROVE  /\ \E l \in 0..(size - 1) : Offset(pred, l) <= p /\ p < Offset(pred, l + 1)
         /\ \A l, m \in Nat :
              /\ Offset(pred, l) <= p /\ p < Offset(pred, l + 1)
              /\ Offset(pred, m) <= p /\ p < Offset(pred, m + 1)
              => l = m
<1>0. p \in Nat /\ p < NumData /\ NumData \in Nat /\ size \in Nat
  BY PartitionAssumption DEF Rows
<1>1. \A l \in Nat : Offset(pred, l) \in Nat /\ Offset(pred, l + 1) \in Nat
  BY <1>0, OffsetStep
<1>2. Offset(pred, 0) = 0 /\ Offset(pred, size) = NumData
  <2>1. 0 \in Nat /\ size >= size
    BY <1>0
  <2> QED BY <1>0, <2>1, OffsetStep
<1> DEFINE Past == {l \in Nat : p < Offset(pred, l + 1)}
<1>3. size - 1 \in Past
  <2>1. size - 1 \in Nat /\ (size - 1) + 1 = size
    BY <1>0
  <2> QED BY <1>0, <1>2, <2>1
<1>4. PICK l \in Past : \A m \in Past : l <= m
  <2>1. Past \subseteq Nat /\ Past # {}
    BY <1>3
  <2> HIDE DEF Past
  <2> QED BY <2>1, NatHasMin
<1>5. l \in Nat /\ p < Offset(pred, l + 1) /\ l <= size - 1
  BY <1>3, <1>4
<1>6. Offset(pred, l) <= p
  <2>1. CASE l = 0
    BY <1>0, <1>2, <2>1
  <2>2. CASE l # 0
    <3>1. l - 1 \in Nat /\ (l - 1) + 1 = l /\ ~(l <= l - 1)
      BY <1>5, <2>2
    <3>2. l - 1 \notin Past
      BY <1>4, <3>1
    <3>3. ~(p < Offset(pred, l))
      BY <3>1, <3>2
    <3> QED BY <1>0, <1>1, <1>5, <3>3
  <2> QED BY <2>1, <2>2
<1>7. l \in 0..(size - 1)
  BY <1>0, <1>5
<1>8. ASSUME NEW a \in Nat, NEW b \in Nat, a < b,
             p < Offset(pred, a + 1), Offset(pred, b) <= p
      PROVE  FALSE
  <2>1. Offset(pred, a + 1) <= Offset(pred, b)
    BY <1>0, <1>8, OffsetMonotone
  <2> QED BY <1>0, <1>1, <1>8, <2>1
<1>9. \A a, b \in Nat :
        /\ Offset(pred, a) <= p /\ p < Offset(pred, a + 1)
        /\ Offset(pred, b) <= p /\ p < Offset(pred, b + 1)
        => a = b
  BY <1>8
<1> QED BY <1>5, <1>6, <1>7, <1>9

\* Members are enumerated in ascending order.
LEMMA NthAscends ==
  ASSUME NEW S, Places(S), NEW j \in 0..(Cardinality(S) - 1), NEW k \in 0..(Cardinality(S) - 1), j < k
  PROVE  Nth(S, j) < Nth(S, k)
<1>1. /\ Nth(S, j) \in S /\ Rank(S, Nth(S, j)) = j
      /\ Nth(S, k) \in S /\ Rank(S, Nth(S, k)) = k
  BY NthMember
<1>2. Nth(S, j) \in Nat /\ Nth(S, k) \in Nat
  BY <1>1, PlacesNat
<1>3. Nth(S, k) <= Nth(S, j) => k <= j
  BY <1>1, <1>2, RankMonotone
<1> QED BY <1>2, <1>3

LEMMA ResetStep ==
  ASSUME IInv, NEW size \in 1..NumLeaves, NEW pred \in [Rows -> 0..(size - 1)],
         ResetByLeafPred(size, pred)
  PROVE  A!ResetByLeafPred(size) /\ DOMAIN indices' = Rows /\ Cardinality(DOMAIN indices') = NumData
         /\ leaf_begin' \in [Leaf -> 0..NumData] /\ leaf_count' \in [Leaf -> 0..NumData]
<1> DEFINE O(l) == Offset(pred, l)
           P(l) == RowsPredicted(pred, l)
           C(l) == Cardinality(P(l))
           at(p) == CHOOSE l \in 0..(size - 1) : p \in O(l)..(O(l) + C(l) - 1)
<1>0. size \in Nat \ {0} /\ NumData \in Nat /\ NumLeaves \in Nat /\ size \in Nat
  BY PartitionAssumption
<1>1. \A l \in Nat : /\ O(l) \in 0..NumData /\ O(l + 1) \in 0..NumData /\ C(l) \in 0..NumData
                     /\ Places(P(l)) /\ P(l) \subseteq Rows /\ O(l + 1) = O(l) + C(l)
                     /\ l >= size => P(l) = {}
  BY <1>0, OffsetStep
<1>2. \A r \in Rows : \A l : r \in P(l) <=> pred[r] = l
  BY DEF RowsPredicted
<1>3. /\ indices' = [p \in Rows |-> Nth(P(at(p)), p - O(at(p)))]
      /\ leaf_count' = [l \in Leaf |-> C(l)]
      /\ leaf_begin' = [l \in Leaf |-> IF l < size THEN O(l) ELSE 0]
      /\ leaves' = size /\ growing' = FALSE
      /\ run' = run /\ run.kind = "none"
  BY IdleIndices DEF ResetByLeafPred
<1>4. \A p \in Rows : \A l \in Nat : p \in O(l)..(O(l) + C(l) - 1) <=> O(l) <= p /\ p < O(l + 1)
  <2> HIDE DEF O, C
  <2> SUFFICES ASSUME NEW p \in Rows, NEW l \in Nat
               PROVE  p \in O(l)..(O(l) + C(l) - 1) <=> O(l) <= p /\ p < O(l + 1)
    OBVIOUS
  <2>1. O(l) \in Nat /\ C(l) \in Nat /\ O(l + 1) = O(l) + C(l)
    BY <1>0, <1>1
  <2>2. p \in Nat
    BY DEF Rows
  <2> QED BY <2>1, <2>2
<1>5. \A p \in Rows :
        /\ \E l \in 0..(size - 1) : O(l) <= p /\ p < O(l + 1)
        /\ \A l, m \in Nat :
             /\ O(l) <= p /\ p < O(l + 1)
             /\ O(m) <= p /\ p < O(m + 1)
             => l = m
  BY <1>0, LeafAt
<1> HIDE DEF O, P, C
<1>6. \A p \in Rows : at(p) \in 0..(size - 1) /\ p \in O(at(p))..(O(at(p)) + C(at(p)) - 1)
  <2> SUFFICES ASSUME NEW p \in Rows
               PROVE  at(p) \in 0..(size - 1) /\ p \in O(at(p))..(O(at(p)) + C(at(p)) - 1)
    OBVIOUS
  <2>1. \E l \in 0..(size - 1) : p \in O(l)..(O(l) + C(l) - 1)
    BY <1>0, <1>4, <1>5
  <2> QED BY <2>1
<1> HIDE DEF at
<1>7. \A p \in Rows : at(p) \in Nat /\ O(at(p)) <= p /\ p < O(at(p) + 1) /\ at(p) < size
  BY <1>0, <1>4, <1>6
<1>8. ASSUME NEW p \in Rows
      PROVE  /\ p - O(at(p)) \in 0..(C(at(p)) - 1)
             /\ indices'[p] \in P(at(p)) /\ Rank(P(at(p)), indices'[p]) = p - O(at(p))
             /\ indices'[p] \in Rows /\ pred[indices'[p]] = at(p)
  <2>0. p \in Nat /\ O(at(p)) \in Nat /\ C(at(p)) \in Nat
    <3>1. at(p) \in Nat
      BY <1>7
    <3>2. O(at(p)) \in 0..NumData /\ C(at(p)) \in 0..NumData
      BY <1>1, <3>1
    <3> QED BY <1>0, <3>2 DEF Rows
  <2>1. p - O(at(p)) \in 0..(C(at(p)) - 1)
    <3>1. p \in O(at(p))..(O(at(p)) + C(at(p)) - 1)
      BY <1>6
    <3> QED BY <2>0, <3>1
  <2>2. indices'[p] = Nth(P(at(p)), p - O(at(p)))
    BY <1>3
  <2>3. Places(P(at(p))) /\ C(at(p)) = Cardinality(P(at(p)))
    BY <1>1, <1>7 DEF C
  <2>4. indices'[p] \in P(at(p)) /\ Rank(P(at(p)), indices'[p]) = p - O(at(p))
    BY <2>1, <2>2, <2>3, NthMember
  <2>5. indices'[p] \in Rows
    BY <1>1, <1>7, <2>4
  <2> QED BY <1>2, <2>1, <2>4, <2>5
<1>9. \A p \in Rows : \A l \in Nat : at(p) = l <=> p \in O(l)..(O(l) + C(l) - 1)
  BY <1>4, <1>5, <1>7
<1>10. ASSUME NEW p \in Rows, NEW q \in Rows, indices'[p] = indices'[q] PROVE p = q
  <2>1. at(p) = at(q)
    BY <1>8, <1>10
  <2>2. p - O(at(p)) = q - O(at(p))
    BY <1>8, <1>10, <2>1
  <2>3. p \in Nat /\ q \in Nat
    BY DEF Rows
  <2>4. O(at(p)) \in Nat
    BY <1>0, <1>1, <1>7
  <2> QED BY <2>2, <2>3, <2>4
<1>11. DOMAIN indices' = Rows /\ indices' \in [Rows -> Rows]
  BY <1>3, <1>8
<1>12. indices' \in A!Injection(A!Rows, A!Rows)
  BY <1>10, <1>11, SameSizes DEF A!Injection, A!IsInjective
<1>13. Cardinality(DOMAIN indices') = NumData
  BY <1>11, RowsPlaces
\* The ranges of the leaves.
<1>14. ASSUME NEW l \in Leaf
       PROVE  /\ leaf_begin'[l] \in 0..NumData /\ leaf_count'[l] \in 0..NumData
              /\ leaf_begin'[l] + leaf_count'[l] <= NumData
              /\ l >= size => leaf_count'[l] = 0
              /\ \A p \in Rows : p \in leaf_begin'[l]..(leaf_begin'[l] + leaf_count'[l] - 1)
                                   <=> at(p) = l
  <2>1. l \in Nat /\ leaf_count'[l] = C(l) /\ leaf_begin'[l] = IF l < size THEN O(l) ELSE 0
    BY <1>3 DEF Leaf
  <2>2. CASE l < size
    <3>1. leaf_begin'[l] = O(l)
      BY <2>1, <2>2
    <3>2. O(l) \in 0..NumData /\ C(l) \in 0..NumData /\ O(l) + C(l) <= NumData
      BY <1>1, <2>1
    <3>3. ~(l >= size)
      BY <1>0, <2>1, <2>2
    <3> QED BY <1>9, <2>1, <3>1, <3>2, <3>3
  <2>3. CASE ~(l < size)
    <3>1. P(l) = {} /\ leaf_begin'[l] = 0
      BY <1>0, <1>1, <2>1, <2>3
    <3>2. C(l) = 0
      BY <3>1, FS_EmptySet DEF C
    <3>3. \A p \in Rows : at(p) # l
      BY <1>7, <2>3
    <3>4. 0..(0 + 0 - 1) = {}
      OBVIOUS
    <3>5. \A p \in Rows : p \in leaf_begin'[l]..(leaf_begin'[l] + leaf_count'[l] - 1) <=> at(p) = l
      BY <2>1, <3>1, <3>2, <3>3, <3>4
    <3> QED BY <1>0, <2>1, <3>1, <3>2, <3>5
  <2> QED BY <2>2, <2>3
<1>15. leaf_begin' \in [Leaf -> 0..NumData] /\ leaf_count' \in [Leaf -> 0..NumData]
  BY <1>3, <1>14
<1>16. pred \in [Rows -> Leaf]
  BY <1>0 DEF Leaf
<1>17. ASSUME NEW l \in Leaf, NEW p \in Rows
       PROVE  pred[indices'[p]] = l <=>
                p \in leaf_begin'[l]..(leaf_begin'[l] + leaf_count'[l] - 1)
  BY <1>8, <1>14
<1>18. ASSUME NEW l \in Leaf,
              NEW p \in leaf_begin'[l]..(leaf_begin'[l] + leaf_count'[l] - 1),
              NEW q \in leaf_begin'[l]..(leaf_begin'[l] + leaf_count'[l] - 1), p < q
       PROVE  indices'[p] < indices'[q]
  <2>1. p \in Rows /\ q \in Rows
    BY <1>0, <1>14, SMTT(30) DEF Rows
  <2>2. at(p) = l /\ at(q) = l /\ l \in Nat
    BY <1>14, <2>1 DEF Leaf
  <2>3. /\ p - O(l) \in 0..(C(l) - 1) /\ q - O(l) \in 0..(C(l) - 1) /\ p - O(l) < q - O(l)
    <3>1. p - O(l) \in 0..(C(l) - 1) /\ q - O(l) \in 0..(C(l) - 1)
      BY <1>8, <2>1, <2>2
    <3>2. p \in Nat /\ q \in Nat
      BY <2>1 DEF Rows
    <3>3. O(l) \in Nat
      BY <1>0, <1>1, <2>2
    <3> QED BY <1>18, <3>1, <3>2, <3>3
  <2>4. Places(P(l)) /\ C(l) = Cardinality(P(l))
    BY <1>1, <2>2 DEF C
  <2>5. Nth(P(l), p - O(l)) < Nth(P(l), q - O(l))
    BY <2>3, <2>4, NthAscends
  <2> QED BY <1>3, <2>1, <2>2, <2>5
<1>21. \A l \in Leaf : /\ leaf_begin'[l] + leaf_count'[l] <= NumData
                       /\ l >= size => leaf_count'[l] = 0
  BY <1>14
<1>22. \E pr \in [Rows -> Leaf] : \A l \in Leaf : \A p \in Rows :
         pr[indices'[p]] = l <=> p \in leaf_begin'[l]..(leaf_begin'[l] + leaf_count'[l] - 1)
  BY <1>16, <1>17
<1>23. \A l \in Leaf :
         \A p, q \in leaf_begin'[l] .. (leaf_begin'[l] + leaf_count'[l] - 1) :
           p < q => indices'[p] < indices'[q]
  BY <1>18
<1>19. (IF run.kind = "leaf" THEN run.before ELSE indices)' = indices'
  BY <1>3
<1>20. A!ResetByLeafPred(size)
  <2> DEFINE now == (IF run.kind = "leaf" THEN run.before ELSE indices)'
  <2>0. now = indices'
    BY <1>19
  <2> HIDE DEF now
  <2>1. /\ leaf_begin' \in [A!Leaf -> 0..NumData] /\ leaf_count' \in [A!Leaf -> 0..NumData]
        /\ \A l \in A!Leaf : leaf_begin'[l] + leaf_count'[l] <= NumData
        /\ \A l \in A!Leaf : l >= size => leaf_count'[l] = 0
    BY <1>15, <1>21, SameSizes
  <2>2. \E pr \in [A!Rows -> A!Leaf] : \A l \in A!Leaf : \A p \in A!Rows :
          pr[now[p]] = l <=> p \in leaf_begin'[l]..(leaf_begin'[l] + leaf_count'[l] - 1)
    BY <1>22, <2>0, SameSizes
  <2>3. \A l \in A!Leaf :
          \A p, q \in leaf_begin'[l] .. (leaf_begin'[l] + leaf_count'[l] - 1) :
            p < q => now[p] < now[q]
    BY <1>23, <2>0, SameSizes
  <2>4. /\ now \in A!Injection(A!Rows, A!Rows) /\ leaves' = size /\ growing' = FALSE
        /\ Cardinality(DOMAIN indices)' = NumData
    BY <1>3, <1>12, <1>13, <2>0
  <2> QED BY <2>1, <2>2, <2>3, <2>4, Zenon DEF A!ResetByLeafPred, now
<1> QED BY <1>11, <1>13, <1>15, <1>20

-----------------------------------------------------------------------------
(* The invariant is kept *)

\* A data partition does what LeafPartition promises, step by step.
LEMMA AbstractStep ==
  ASSUME IInv, [Next]_vars
  PROVE  [A!Next]_(A!vars)
<1>1. ASSUME NEW goes \in SUBSET Rows, StartBagging(goes) PROVE A!Next
  BY <1>1, StartBaggingStep DEF A!Next
<1>2. CASE StartTree
  BY <1>2, StartTreeStep DEF A!Next
<1>3. CASE \/ FinishBagging
           \/ \E l \in Leaf : \E goes \in SUBSET Rows : BeginSplit(l, goes)
           \/ \E i \in 0..(setup.threads - 1) : SplitBlock(i) \/ CopyBlock(i)
  BY <1>3, HiddenSteps
<1>4. ASSUME NEW l \in Leaf, SplitEmpty(l) PROVE A!Next
  <2>1. A!Split(l, 0) /\ 0 \in 0..leaf_count[l]
    BY <1>4, SplitEmptyStep DEF SplitEmpty
  <2> QED BY <2>1, SameSizes DEF A!Next
<1>5. CASE FinishSplit
  <2>1. run.leaf \in Leaf /\ LeftCnt \in 0..leaf_count[run.leaf] /\ A!Split(run.leaf, LeftCnt)
    BY <1>5, FinishSplitStep
  <2> QED BY <2>1, SameSizes DEF A!Next
<1>6. ASSUME NEW l \in Leaf, NEW goes \in SUBSET Rows, ApplyPartition(l, goes) PROVE A!Next
  <2> DEFINE k == Cardinality({p \in RangeOf(l) : indices[p] \in goes})
  <2>1. k \in 0..leaf_count[l] /\ A!Split(l, k)
    BY <1>6, ApplyPartitionStep
  <2> HIDE DEF k
  <2> QED BY <2>1, SameSizes DEF A!Next
<1>7. ASSUME NEW size \in 1..NumLeaves, NEW pred \in [Rows -> 0..(size - 1)],
             ResetByLeafPred(size, pred)
      PROVE  A!Next
  <2>1. A!ResetByLeafPred(size)
    BY <1>7, ResetStep
  <2> QED BY <2>1 DEF A!Next
<1>8. CASE UNCHANGED vars
  BY <1>8 DEF vars, A!vars
<1> QED BY <1>1, <1>2, <1>3, <1>4, <1>5, <1>6, <1>7, <1>8 DEF Next

\* What a step must keep besides what LeafPartition promises.
Kept ==
  /\ bag_data_indices' \in [Rows -> Rows] /\ bag' \subseteq Rows
  /\ bagging' \in BOOLEAN /\ growing' \in BOOLEAN
  /\ left_' \in [Rows -> Rows \cup {Junk}] /\ right_' \in [Rows -> Rows \cup {Junk}]
  /\ setup' \in Setups
  /\ run'.kind = "leaf" => DOMAIN indices' = DOMAIN indices /\ indices' \in [DOMAIN indices -> Rows]
  /\ BagInv'
  /\ Running' => RunInv'
  /\ ~Running' => run' = NoRun

LEMMA KeptIsEnough ==
  ASSUME IInv, [Next]_vars, Kept
  PROVE  IInv'
<1>1. AbstractInv /\ DOMAIN indices = 0..(Cardinality(DOMAIN indices) - 1)
  BY DEF IInv
<1>2. AbstractInv'
  BY <1>1, AbstractStep, AbstractNextInv, PartitionAssumption
<1>3. A!TypeOK'
  BY <1>2 DEF AbstractInv
<1>4. /\ Cardinality(DOMAIN indices') \in 0..NumData
      /\ (IF run'.kind = "leaf" THEN run'.before ELSE indices')
           \in [0..(Cardinality(DOMAIN indices') - 1) -> Rows]
      /\ leaf_begin' \in [Leaf -> Nat] /\ leaf_count' \in [Leaf -> Nat]
      /\ leaves' \in 1..NumLeaves
      /\ \A l \in Leaf : leaf_begin'[l] + leaf_count'[l] <= Cardinality(DOMAIN indices')
  BY <1>3, SameSizes DEF A!TypeOK, A!Positions
<1>5. leaf_begin' \in [Leaf -> 0..NumData] /\ leaf_count' \in [Leaf -> 0..NumData]
  <2>1. ASSUME NEW l \in Leaf PROVE leaf_begin'[l] \in 0..NumData /\ leaf_count'[l] \in 0..NumData
    <3>1. leaf_begin'[l] \in Nat /\ leaf_count'[l] \in Nat
      BY <1>4
    <3>2. leaf_begin'[l] + leaf_count'[l] <= Cardinality(DOMAIN indices')
      BY <1>4
    <3> QED BY <1>4, <3>1, <3>2, PartitionAssumption
  <2> QED BY <1>4, <2>1
<1>6. /\ DOMAIN indices' = 0..(Cardinality(DOMAIN indices') - 1)
      /\ indices' \in [DOMAIN indices' -> Rows]
  <2>1. CASE run'.kind = "leaf"
    BY <1>1, <2>1 DEF Kept
  <2>2. CASE run'.kind # "leaf"
    BY <1>4, <2>2
  <2> QED BY <2>1, <2>2
<1>7. TypeOK'
  BY <1>4, <1>5, <1>6 DEF Kept, TypeOK
<1> QED BY <1>2, <1>6, <1>7 DEF Kept, IInv

LEMMA ScratchType == Scratch \in [Rows -> Rows \cup {Junk}]
BY DEF Scratch

\* Steps that leave the bag and any run alone.
LEMMA TreeStepKept ==
  ASSUME IInv, ~Running, growing' \in BOOLEAN,
         UNCHANGED <<setup, bag_data_indices, bag, bagging, run, left_, right_>>
  PROVE  Kept
<1>1. run' = NoRun /\ run'.kind = "none" /\ ~Running' /\ run.kind = "none"
  BY IdleIndices DEF Running
<1>2. BagInv'
  BY <1>1 DEF IInv, BagInv
<1> QED BY <1>1, <1>2 DEF IInv, TypeOK, Kept

\* When a bag is complete its rows come first, in order, and the others behind.
LEMMA FinishBaggingKept ==
  ASSUME IInv, FinishBagging
  PROVE  Kept
<1>1. /\ Running /\ run.kind = "bag" /\ \A i \in Blocks : run.done[i] = "copied"
      /\ bag' = run.goes /\ bagging' = TRUE
      /\ run' = NoRun /\ left_' = Scratch /\ right_' = Scratch
      /\ UNCHANGED <<setup, bag_data_indices, growing>>
  BY DEF FinishBagging, AllCopied
<1>2. RunInv /\ RunShape /\ BagRun
  BY <1>1 DEF IInv, RunInv
<1>3. run.begin = 0 /\ run.cnt = NumData /\ run.goes \subseteq Rows /\ NumData \in Nat
  BY <1>2, PartitionAssumption DEF BagRun
<1>4. 0..(run.cnt - 1) = Rows
  BY <1>3 DEF Rows
<1>5. Lefts = run.goes /\ Rights = Rows \ run.goes /\ \A q \in Rows : Original[q] = q
  BY <1>1, <1>3, <1>4 DEF Lefts, Rights, Original
<1>6. Cardinality(run.goes) \in Nat
  BY <1>2, <1>5, Sides
<1>7. ASSUME NEW q \in Rows PROVE bag_data_indices[Dest(q)] = q
  <2>1. PICK i \in Blocks : q \in Block(i)
    BY <1>2, <1>4, BlockOfRow
  <2>2. HasCopied(i)
    BY <1>1, <1>2 DEF RunInv
  <2> QED BY <1>1, <1>5, <2>1, <2>2 DEF HasCopied, Out
<1>8. ASSUME NEW p \in Rows
      PROVE  bag_data_indices[p] =
               IF p < Cardinality(run.goes) THEN Nth(run.goes, p)
               ELSE Nth(Rows \ run.goes, p - Cardinality(run.goes))
  <2> DEFINE c == Cardinality(run.goes)
  <2>0. p \in Nat /\ c \in Nat /\ p - 0 = p /\ 0 + c = c /\ p - 0 - c = p - c
    BY <1>6 DEF Rows
  <2>1. p \in run.begin..(run.begin + run.cnt - 1)
    BY <1>3, <2>0 DEF Rows
  <2>2. /\ p < 0 + c => Nth(run.goes, p - 0) \in run.goes /\ Dest(Nth(run.goes, p - 0)) = p
        /\ p >= 0 + c => /\ Nth(Rows \ run.goes, p - 0 - c) \in Rows \ run.goes
                         /\ Dest(Nth(Rows \ run.goes, p - 0 - c)) = p
    BY <1>2, <1>3, <1>5, <2>1, DestOnto
  <2> HIDE DEF c
  <2>3. CASE p < c
    <3>1. Nth(run.goes, p) \in Rows /\ Dest(Nth(run.goes, p)) = p
      BY <1>3, <2>0, <2>2, <2>3
    <3>2. bag_data_indices[p] = Nth(run.goes, p)
      BY <1>7, <3>1
    <3> QED BY <2>3, <3>2 DEF c
  <2>4. CASE ~(p < c)
    <3>1. Nth(Rows \ run.goes, p - c) \in Rows /\ Dest(Nth(Rows \ run.goes, p - c)) = p
      BY <2>0, <2>2, <2>4
    <3>2. bag_data_indices[p] = Nth(Rows \ run.goes, p - c)
      BY <1>7, <3>1
    <3> QED BY <2>4, <3>2 DEF c
  <2> QED BY <2>3, <2>4
<1>9. BagInv'
  BY <1>1, <1>8 DEF BagInv
<1>10. run'.kind = "none" /\ ~Running'
  BY <1>1 DEF NoRun, Running
<1> QED BY <1>1, <1>3, <1>9, <1>10, ScratchType DEF IInv, TypeOK, Kept

LEMMA StepKept ==
  ASSUME IInv, [Next]_vars
  PROVE  Kept
<1>0. /\ bag_data_indices \in [Rows -> Rows] /\ bag \subseteq Rows
      /\ bagging \in BOOLEAN /\ growing \in BOOLEAN /\ setup \in Setups
      /\ left_ \in [Rows -> Rows \cup {Junk}] /\ right_ \in [Rows -> Rows \cup {Junk}]
      /\ indices \in [DOMAIN indices -> Rows]
      /\ BagInv /\ (Running => RunInv) /\ (~Running => run = NoRun)
  BY DEF IInv, TypeOK
<1>1. ASSUME NEW goes \in SUBSET Rows, StartBagging(goes) PROVE Kept
  <2>1. RunInv' /\ run'.kind = "bag" /\ left_' = Scratch /\ right_' = Scratch
    BY <1>1, StartBaggingInv
  <2>2. growing' = FALSE /\ UNCHANGED <<setup, bag_data_indices, bag, bagging>>
    BY <1>1 DEF StartBagging
  <2>3. BagInv' /\ Running'
    BY <1>0, <2>1, <2>2 DEF BagInv, Running
  <2> QED BY <1>0, <2>1, <2>2, <2>3, ScratchType DEF Kept
<1>2. CASE StartTree
  BY <1>2, TreeStepKept DEF StartTree
<1>3. CASE FinishBagging
  BY <1>3, FinishBaggingKept
<1>4. ASSUME NEW l \in Leaf, NEW goes \in SUBSET Rows, BeginSplit(l, goes) PROVE Kept
  <2>1. RunInv' /\ run'.kind = "leaf" /\ left_' = Scratch /\ right_' = Scratch
    BY <1>4, BeginSplitInv
  <2>2. UNCHANGED <<setup, bag_data_indices, bag, bagging, indices, growing>> /\ run.kind = "none"
    BY <1>4, IdleIndices DEF BeginSplit
  <2>3. BagInv' /\ Running'
    BY <1>0, <2>1, <2>2 DEF BagInv, Running
  <2> QED BY <1>0, <2>1, <2>2, <2>3, ScratchType DEF Kept
<1>5. ASSUME NEW i, SplitBlock(i) PROVE Kept
  <2>1. /\ left_' \in [Rows -> Rows \cup {Junk}] /\ right_' \in [Rows -> Rows \cup {Junk}]
        /\ RunInv' /\ run'.kind = run.kind /\ Running
    BY <1>5, SplitBlockInv, SplitBlockFacts, SplitBlockScratch DEF SameRows
  <2>2. UNCHANGED <<setup, bag_data_indices, bag, bagging, indices, growing>>
    BY <1>5 DEF SplitBlock
  <2>3. BagInv' /\ Running'
    BY <1>0, <2>1, <2>2 DEF BagInv, Running
  <2> QED BY <1>0, <2>1, <2>2, <2>3 DEF Kept
<1>6. ASSUME NEW i, CopyBlock(i) PROVE Kept
  <2>1. RunInv' /\ run'.kind = run.kind /\ Running
    BY <1>6, CopyBlockInv, CopyBlockFacts DEF SameRows
  <2>2. UNCHANGED <<setup, bag, bagging, growing, left_, right_>>
    BY <1>6 DEF CopyBlock
  <2>3. /\ DOMAIN Out' = DOMAIN Out /\ Out' \in [DOMAIN Out -> Rows]
        /\ run.kind = "bag" => indices' = indices /\ Out' = bag_data_indices'
        /\ run.kind = "leaf" => bag_data_indices' = bag_data_indices /\ Out' = indices'
        /\ run.kind \in {"leaf", "bag"}
    BY <1>6, CopyBlockFacts DEF RunShape
  <2>4. bag_data_indices' \in [Rows -> Rows]
    BY <1>0, <2>3 DEF Out
  <2>5. run.kind = "leaf" => DOMAIN indices' = DOMAIN indices /\ indices' \in [DOMAIN indices -> Rows]
    BY <2>3 DEF Out
  <2>6. BagInv' /\ Running'
    BY <1>0, <2>1, <2>2, <2>3 DEF BagInv, Running
  <2> QED BY <1>0, <2>1, <2>2, <2>4, <2>5, <2>6 DEF Kept
<1>7. ASSUME NEW l \in Leaf, SplitEmpty(l) PROVE Kept
  BY <1>0, <1>7, TreeStepKept DEF SplitEmpty
<1>8. CASE FinishSplit
  <2>1. /\ run.kind = "leaf" /\ run' = NoRun /\ left_' = Scratch /\ right_' = Scratch
        /\ UNCHANGED <<setup, bag_data_indices, bag, bagging, growing>>
    BY <1>8 DEF FinishSplit
  <2>2. run'.kind = "none" /\ ~Running'
    BY <2>1 DEF NoRun, Running
  <2>3. BagInv'
    BY <1>0, <2>1, <2>2 DEF BagInv
  <2> QED BY <1>0, <2>1, <2>2, <2>3, ScratchType DEF Kept
<1>9. ASSUME NEW l \in Leaf, NEW goes \in SUBSET Rows, ApplyPartition(l, goes) PROVE Kept
  BY <1>0, <1>9, TreeStepKept DEF ApplyPartition
<1>10. ASSUME NEW size \in 1..NumLeaves, NEW pred \in [Rows -> 0..(size - 1)],
              ResetByLeafPred(size, pred)
       PROVE  Kept
  BY <1>10, TreeStepKept DEF ResetByLeafPred
<1>11. CASE UNCHANGED vars
  <2>1. UNCHANGED <<setup, bag_data_indices, bag, bagging, indices, leaf_begin, leaf_count,
                    leaves, growing, run, left_, right_>>
    BY <1>11 DEF vars
  <2>2. BagInv' /\ (Running' <=> Running)
    BY <1>0, <2>1 DEF BagInv, Running
  <2>3. Running => RunInv'
    <3> SUFFICES ASSUME Running PROVE RunInv'
      OBVIOUS
    <3>1. SameRows /\ Out' = Out /\ RunInv
      BY <1>0, <2>1 DEF SameRows, Out
    <3>2. /\ Original' = Original /\ Blocks' = Blocks /\ RunShape' = RunShape
          /\ \A i : Block(i)' = Block(i) /\ CurStart(i)' = CurStart(i)
          /\ \A i : LeftsOf(i)' = LeftsOf(i) /\ RightsOf(i)' = RightsOf(i)
          /\ \A q : Dest(q)' = Dest(q)
      BY <3>1, SameRowsFacts
    <3>3. \A i : HasCopied(i) => HasCopied(i)'
      BY <3>1, <3>2 DEF HasCopied
    <3>4. \A i : HasSplit(i) => HasSplit(i)'
      BY <2>1, <3>2 DEF HasSplit, RightScratch
    <3>5. (run.kind = "bag" => BagRun)' /\ (run.kind = "leaf" => LeafRun)'
      BY <2>1, <3>1, <3>2 DEF RunInv, BagRun, LeafRun, RangeOf
    <3>6. PastBarrier => PastBarrier'
      BY <2>1, <3>2 DEF PastBarrier
    <3> QED BY <2>1, <3>1, <3>2, <3>3, <3>4, <3>5, <3>6 DEF RunInv
  <2> QED BY <1>0, <2>1, <2>2, <2>3 DEF Kept
<1> QED BY <1>1, <1>2, <1>3, <1>4, <1>5, <1>6, <1>7, <1>8, <1>9, <1>10, <1>11 DEF Next

LEMMA IInvInit == Init => IInv
<1> SUFFICES ASSUME Init PROVE IInv
  OBVIOUS
<1>1. /\ run = NoRun /\ run.kind = "none" /\ ~Running /\ bag = Rows /\ ~bagging /\ growing = FALSE
      /\ leaves = 1 /\ DOMAIN indices = {} /\ indices = [p \in {} |-> 0]
  BY DEF Init, NoRun, Running
<1>2. Cardinality(DOMAIN indices) = 0 /\ 0..(0 - 1) = {} /\ 0..-1 = {}
  BY <1>1, FS_EmptySet
<1>3. A!Init
  BY <1>1, <1>2, SameSizes DEF Init, A!Init
<1>4. AbstractInv
  BY <1>3, AbstractInitInv, PartitionAssumption
<1>5. TypeOK
  <2>1. NumData \in Nat /\ NumLeaves \in Nat /\ NumLeaves >= 1
    BY PartitionAssumption
  <2>2. bag_data_indices \in [Rows -> Rows]
    <3>1. \A p \in Rows : 0 \in Rows
      BY <2>1 DEF Rows
    <3> QED BY <3>1 DEF Init
  <2>3. indices \in [DOMAIN indices -> Rows]
    BY <1>1
  <2>4. left_ = Scratch /\ right_ = Scratch
    BY DEF Init
  <2>5. leaf_begin \in [Leaf -> 0..NumData] /\ leaf_count \in [Leaf -> 0..NumData]
    BY <2>1 DEF Init
  <2>6. left_ \in [Rows -> Rows \cup {Junk}] /\ right_ \in [Rows -> Rows \cup {Junk}]
    BY <2>4, ScratchType
  <2>7. leaves \in 1..NumLeaves
    BY <1>1, <2>1
  <2>8. bag \subseteq Rows /\ bagging \in BOOLEAN /\ growing \in BOOLEAN
    BY DEF Init
  <2> QED BY <2>2, <2>3, <2>5, <2>6, <2>7, <2>8 DEF TypeOK
<1>6. BagInv
  BY <1>1 DEF BagInv
<1>7. setup \in Setups
  BY DEF Init
<1> QED BY <1>1, <1>2, <1>4, <1>5, <1>6, <1>7 DEF IInv

LEMMA IInvNext == IInv /\ [Next]_vars => IInv'
BY StepKept, KeptIsEnough

-----------------------------------------------------------------------------
(* What follows from the invariant *)

LEMMA Invariant == Spec => []IInv
<1>1. Init => IInv
  BY IInvInit
<1>2. IInv /\ [Next]_vars => IInv'
  BY IInvNext
<1> QED BY <1>1, <1>2, PTL DEF Spec

LEMMA CopiesDisjointHolds == IInv => CopiesDisjoint
<1> SUFFICES ASSUME IInv, Running, PastBarrier
             PROVE  LET target(i) == LeftTarget(i) \cup RightTarget(i)
                    IN  /\ \A i, j \in Blocks : i # j => target(i) \cap target(j) = {}
                        /\ \A i \in Blocks : LeftTarget(i) \cap RightTarget(i) = {}
                        /\ UNION {target(i) : i \in Blocks} = run.begin .. (run.begin + run.cnt - 1)
  BY DEF CopiesDisjoint
<1> DEFINE target(i) == LeftTarget(i) \cup RightTarget(i)
<1>1. RunShape
  BY DEF IInv, RunInv
<1>2. ASSUME NEW i \in Blocks
      PROVE  /\ \A p \in LeftTarget(i) : \E q \in LeftsOf(i) : Dest(q) = p
             /\ \A p \in RightTarget(i) : \E q \in RightsOf(i) : Dest(q) = p
             /\ \A q \in LeftsOf(i) : Dest(q) \in LeftTarget(i)
             /\ \A q \in RightsOf(i) : Dest(q) \in RightTarget(i)
  BY Targets
<1>3. ASSUME NEW i \in Blocks
      PROVE  /\ LeftsOf(i) \cup RightsOf(i) = Block(i) /\ LeftsOf(i) \cap RightsOf(i) = {}
             /\ Block(i) \subseteq 0..(run.cnt - 1)
  <2>1. i \in Nat
    BY <1>1 DEF Blocks, RunShape
  <2> QED BY <1>1, <2>1, BlockSides, InScratch
<1>4. ASSUME NEW i \in Blocks, NEW p
      PROVE  p \in target(i) <=> \E q \in Block(i) : Dest(q) = p
  BY <1>2, <1>3
<1>5. ASSUME NEW i \in Blocks, NEW j \in Blocks, i # j PROVE target(i) \cap target(j) = {}
  <2> SUFFICES ASSUME NEW p, p \in target(i), p \in target(j) PROVE FALSE
    OBVIOUS
  <2>1. PICK q \in Block(i) : Dest(q) = p
    BY <1>4
  <2>2. PICK r \in Block(j) : Dest(r) = p
    BY <1>4
  <2>3. q = r
    BY <1>1, <1>3, <2>1, <2>2, DestInjective
  <2> QED BY <1>1, <1>5, <2>3, BlocksDisjoint
<1>6. ASSUME NEW i \in Blocks PROVE LeftTarget(i) \cap RightTarget(i) = {}
  <2> SUFFICES ASSUME NEW p, p \in LeftTarget(i), p \in RightTarget(i) PROVE FALSE
    OBVIOUS
  <2>1. PICK q \in LeftsOf(i) : Dest(q) = p
    BY <1>2
  <2>2. PICK r \in RightsOf(i) : Dest(r) = p
    BY <1>2
  <2>3. q = r
    BY <1>1, <1>3, <2>1, <2>2, DestInjective
  <2> QED BY <1>3, <2>3
<1>7. UNION {target(i) : i \in Blocks} = run.begin .. (run.begin + run.cnt - 1)
  <2>1. ASSUME NEW i \in Blocks, NEW p \in target(i) PROVE p \in run.begin .. (run.begin + run.cnt - 1)
    BY <1>1, <1>3, <1>4, DestRange
  <2>2. ASSUME NEW p \in run.begin .. (run.begin + run.cnt - 1) PROVE \E i \in Blocks : p \in target(i)
    <3>1. PICK q \in 0..(run.cnt - 1) : Dest(q) = p
      BY <1>1, DestOnto
    <3>2. PICK i \in Blocks : q \in Block(i)
      BY <1>1, BlockOfRow
    <3> QED BY <1>4, <3>1, <3>2
  <2> HIDE DEF target
  <2> QED BY <2>1, <2>2
<1> QED BY <1>5, <1>6, <1>7

LEMMA DifferentQuotients ==
  ASSUME NEW p \in Nat, NEW q \in Nat, NEW e \in Nat, NEW m \in Nat \ {0}, p < e * m, e * m <= q
  PROVE  p \div m # q \div m
<1> DEFINE d == p \div m
<1>1. d \in Nat /\ m * d <= p
  BY Division
<1>2. q < m * (q \div m) + m
  BY Division
<1> HIDE DEF d
<1>3. d < e
  <2> SUFFICES ASSUME e <= d PROVE FALSE
    BY <1>1
  <2>1. m * e <= m * d /\ m * e = e * m /\ m * e \in Nat /\ m * d \in Nat
    BY <1>1
  <2> QED BY <1>1, <2>1
<1>4. m * (d + 1) <= m * e /\ m * (d + 1) = m * d + m /\ m * e = e * m /\ m * d \in Nat
  BY <1>1, <1>3
<1>5. ~(q < m * d + m)
  BY <1>4
<1>6. d # q \div m
  BY <1>2, <1>5
<1> QED BY <1>6 DEF d

LEMMA RandOfOneThreadHolds == IInv => RandOfOneThread
<1> SUFFICES ASSUME IInv, Running, run.kind = "bag", NEW i \in Blocks, NEW j \in Blocks, i # j,
                    NEW p \in Block(i), NEW q \in Block(j), p \div setup.minBag = q \div setup.minBag
             PROVE  FALSE
  BY DEF RandOfOneThread
<1>1. RunShape /\ BagRun
  BY DEF IInv, RunInv
<1>2. /\ i \in Nat /\ j \in Nat /\ i < run.nblock /\ j < run.nblock /\ run.nblock \in Nat
      /\ run.size \in Nat /\ run.cnt \in Nat
  BY <1>1 DEF Blocks, RunShape
<1>3. run.nblock > 1
  BY <1>2
<1>4. PICK k \in Nat : run.size = k * setup.minBag
  BY <1>1, <1>3 DEF BagRun
<1>5. setup.minBag \in Nat \ {0}
  BY SetupAssumption DEF IInv
\* A block that comes later begins at a multiple of the rows one generator serves.
<1>6. ASSUME NEW a \in Nat, NEW b \in Nat, a < b, NEW x \in Block(a), NEW y \in Block(b)
      PROVE  x \div setup.minBag # y \div setup.minBag
  <2>1. /\ x \in Int /\ Lo(a) <= x /\ x < Lo(a + 1) /\ y \in Int /\ Lo(b) <= y /\ y < Lo(b + 1)
        /\ Lo(a) \in 0..run.cnt /\ Lo(b) \in 0..run.cnt /\ Lo(b + 1) \in 0..run.cnt
        /\ Lo(a + 1) \in 0..run.cnt
    BY <1>1, BlockBounds
  <2>2. Lo(a + 1) <= Lo(b)
    BY <1>1, <1>6, LoMonotone
  <2>3. x \in Nat /\ y \in Nat /\ x < Lo(b)
    BY <1>2, <2>1, <2>2
  <2>4. b * run.size \in Nat /\ Lo(b) = b * run.size
    <3>1. b * run.size \in Nat
      BY <1>2
    <3>2. ~(Lo(b) = run.cnt)
      BY <1>2, <2>1
    <3> QED BY <3>1, <3>2 DEF Lo
  <2>5. b * run.size = (b * k) * setup.minBag /\ b * k \in Nat
    BY <1>4, <1>5
  <2> QED BY <1>5, <2>1, <2>3, <2>4, <2>5, DifferentQuotients, ZenonT(30)
<1>7. i < j \/ j < i
  BY <1>2
<1> QED BY <1>2, <1>6, <1>7

\* The arrays keep their types, and what two threads of a run touch is never
\* the same, for any number of threads and any size of the blocks: no two blocks
\* copy to the same position, and none share a random number generator
\* (src/include/LightGBM/utils/threading.h, ParallelPartitionRunner::Run).
THEOREM ThreadsApart == Spec => []BlocksApart
<1>1. IInv => BlocksApart
  BY CopiesDisjointHolds, RandOfOneThreadHolds DEF BlocksApart, IInv
<1> QED BY <1>1, Invariant, PTL

\* A bag drawn by any number of threads is in order: its rows first, ascending,
\* then the rows left out, ascending (src/src/boosting/bagging.hpp).
THEOREM BagInOrder == Spec => []BagThenRest
<1>1. IInv => BagThenRest
  <2> SUFFICES ASSUME IInv, ~Running, bagging
               PROVE  \A p \in Rows : LET n == Cardinality(bag)
                        IN  bag_data_indices[p] = IF p < n THEN Nth(bag, p) ELSE Nth(Rows \ bag, p - n)
    BY DEF BagThenRest
  <2>1. run.kind # "bag"
    BY IdleIndices
  <2> QED BY <2>1 DEF IInv, BagInv
<1> QED BY <1>1, Invariant, PTL

LEMMA SplitStepPlacesRows ==
  ASSUME IInv, [Next]_vars, run.kind = "leaf", run'.kind = "none",
         NEW l \in Leaf, NEW r \in Leaf, l = run.leaf, r = leaves
  PROVE  /\ {indices'[p] : p \in RangeOf(l)'} = run.goes
         /\ {indices'[p] : p \in RangeOf(r)'} = RowsAt(RangeOf(l)) \ run.goes
<1>1. FinishSplit
  <2>1. Running
    BY DEF Running
  <2>2. \A i : ~SplitBlock(i) /\ ~CopyBlock(i)
    BY SplitBlockFacts, CopyBlockFacts DEF SameRows
  <2>3. ~FinishBagging
    BY DEF FinishBagging
  <2>4. ~UNCHANGED vars
    BY DEF vars
  <2> QED BY <2>1, <2>2, <2>3, <2>4
          DEF Next, StartBagging, StartTree, BeginSplit, SplitEmpty, ApplyPartition, ResetByLeafPred
<1>2. /\ Running /\ \A i \in Blocks : run.done[i] = "copied"
      /\ Divide(run.leaf, LeftCnt) /\ indices' = indices
  BY <1>1 DEF FinishSplit, AllCopied
<1>3. RunInv /\ RunShape /\ LeafRun /\ run.begin \in Nat /\ run.cnt \in Nat /\ PastBarrier
  BY <1>2 DEF IInv, RunInv, RunShape, PastBarrier
<1>4. LeftCnt = Cardinality(Lefts) /\ \A i \in Blocks : HasCopied(i)
  BY <1>2, <1>3, Barrier DEF RunInv
<1> DEFINE c == Cardinality(Lefts)
<1>5. /\ l < r /\ run.begin = leaf_begin[l] /\ run.cnt = leaf_count[l]
      /\ RangeOf(l) = run.begin..(run.begin + run.cnt - 1)
      /\ run.goes \subseteq {run.before[p] : p \in RangeOf(l)}
  BY <1>3 DEF LeafRun, RangeOf
<1>6. c \in Nat /\ c <= run.cnt
  BY <1>3, Sides
<1> HIDE DEF c
<1>7. /\ RangeOf(l)' = run.begin..(run.begin + c - 1)
      /\ RangeOf(r)' = (run.begin + c)..(run.begin + run.cnt - 1)
  <2>1. leaf_begin \in [Leaf -> Nat] /\ leaf_count \in [Leaf -> Nat] /\ r # l
    BY <1>5, Promised DEF Leaf
  <2>2. /\ leaf_begin'[l] = run.begin /\ leaf_count'[l] = c
        /\ leaf_begin'[r] = c + run.begin /\ leaf_count'[r] = run.cnt - c
    BY <1>2, <1>4, <1>5, <2>1 DEF Divide, c
  <2>3. c + run.begin = run.begin + c /\ (run.begin + c) + (run.cnt - c) - 1 = run.begin + run.cnt - 1
    BY <1>3, <1>6
  <2> QED BY <2>2, <2>3 DEF RangeOf
\* The row now at the place of position q, and the side it is on.
<1>8. ASSUME NEW q \in 0..(run.cnt - 1)
      PROVE  /\ Dest(q) \in RangeOf(l) /\ indices[Dest(q)] = Original[q]
             /\ Dest(q) < run.begin + c <=> Original[q] \in run.goes
  <2>1. PICK i \in Blocks : q \in Block(i)
    BY <1>3, BlockOfRow
  <2>2. indices[Dest(q)] = Original[q]
    BY <1>4, <2>1 DEF HasCopied, Out
  <2>3. Dest(q) \in RangeOf(l)
    BY <1>3, <1>5, DestRange
  <2>4. q \in Lefts <=> Dest(q) < run.begin + c
    BY <1>3, DestRange DEF c
  <2> QED BY <2>2, <2>3, <2>4 DEF Lefts
<1>9. ASSUME NEW p \in RangeOf(l)
      PROVE  p < run.begin + c <=> indices[p] \in run.goes
  <2>1. PICK q \in 0..(run.cnt - 1) : Dest(q) = p
    BY <1>3, <1>5, DestOnto
  <2> QED BY <1>8, <2>1
<1>10. ASSUME NEW x \in run.goes PROVE \E p \in RangeOf(l) : indices[p] = x
  <2>1. PICK p \in RangeOf(l) : run.before[p] = x
    BY <1>5
  <2>2. p - run.begin \in 0..(run.cnt - 1) /\ run.begin + (p - run.begin) = p
    BY <1>3, <1>5
  <2>3. Original[p - run.begin] = x
    BY <2>1, <2>2 DEF Original
  <2> QED BY <1>8, <2>2, <2>3
<1>11. \A p : /\ p \in RangeOf(l)' <=> p \in RangeOf(l) /\ p < run.begin + c
              /\ p \in RangeOf(r)' <=> p \in RangeOf(l) /\ ~(p < run.begin + c)
  BY <1>3, <1>5, <1>6, <1>7
<1>12. {indices'[p] : p \in RangeOf(l)'} = run.goes
  BY <1>2, <1>9, <1>10, <1>11
<1>13. {indices'[p] : p \in RangeOf(r)'} = RowsAt(RangeOf(l)) \ run.goes
  BY <1>2, <1>9, <1>11 DEF RowsAt
<1> QED BY <1>12, <1>13

\* A split sends to the left leaf exactly the rows the split condition sends
\* there and the others to the right leaf, whatever the threads did in between.
THEOREM SplitCorrect == Spec => SplitPlacesRows
<1>1. IInv /\ [Next]_vars =>
        [\A l, r \in Leaf :
           run.kind = "leaf" /\ run'.kind = "none" /\ l = run.leaf /\ r = leaves =>
             /\ {indices'[p] : p \in RangeOf(l)'} = run.goes
             /\ {indices'[p] : p \in RangeOf(r)'} = RowsAt(RangeOf(l)) \ run.goes]_vars
  BY SplitStepPlacesRows
<1> QED BY <1>1, Invariant, PTL DEF Spec, SplitPlacesRows

\* Whatever the number of threads and the size of the blocks, the parallel
\* partition is a stable split of one range of rows at a time: every step of it
\* is a step LeafPartition promises, or one nobody who uses the partition sees.
THEOREM Refinement == Spec => ImplementsLeafPartition
<1>1. Init => Abstract!Init
  <2> SUFFICES ASSUME Init PROVE Abstract!Init
    OBVIOUS
  <2>1. run.kind = "none" /\ DOMAIN indices = {} /\ indices = [p \in {} |-> 0]
    BY DEF Init, NoRun
  <2>2. Cardinality(DOMAIN indices) = 0 /\ 0..-1 = {}
    BY <2>1, FS_EmptySet
  <2> QED BY <2>1, <2>2 DEF Init, Abstract!Init, Abstract!Leaf, Leaf
<1>2. IInv /\ [Next]_vars => [Abstract!Next]_(Abstract!vars)
  <2>1. A!Next => Abstract!Next
    BY Zenon DEF A!Next, Abstract!Next, A!StartTree, Abstract!StartTree, A!Split, Abstract!Split,
       A!ResetByLeafPred, Abstract!ResetByLeafPred, A!EndTree, Abstract!EndTree,
       A!Leaf, Abstract!Leaf, A!Rows, Abstract!Rows, A!Positions, Abstract!Positions,
       A!RangeOf, Abstract!RangeOf, A!Stable, Abstract!Stable,
       A!Injection, Abstract!Injection, A!IsInjective, Abstract!IsInjective,
       A!Bijection, Abstract!Bijection, A!Surjection, Abstract!Surjection
  <2>2. UNCHANGED A!vars => UNCHANGED Abstract!vars
    BY DEF A!vars, Abstract!vars
  <2> QED BY <2>1, <2>2, AbstractStep
<1> QED BY <1>1, <1>2, Invariant, PTL DEF Spec, ImplementsLeafPartition, Abstract!Spec

\* The arrays of the data partition keep their types and every leaf stays
\* inside the rows in use, while the threads of a run are at work too.
THEOREM TypeCorrect == Spec => []Abstract!TypeOK
<1>1. IInv => Abstract!TypeOK
  BY DEF IInv, AbstractInv, A!TypeOK, Abstract!TypeOK, A!Positions, Abstract!Positions,
         A!Rows, Abstract!Rows, A!Leaf, Abstract!Leaf
<1> QED BY <1>1, Invariant, PTL

\* Every row of a tree is in exactly one leaf, at exactly one position.
THEOREM RowsPartitioned ==
  Spec => [](Abstract!LeavesDisjoint /\ Abstract!LeavesCover /\ Abstract!RowsOnce)
<1>1. IInv => Abstract!LeavesDisjoint /\ Abstract!LeavesCover /\ Abstract!RowsOnce
  BY DEF IInv, AbstractInv, A!LeavesDisjoint, Abstract!LeavesDisjoint, A!LeavesCover,
         Abstract!LeavesCover, A!RowsOnce, Abstract!RowsOnce, A!Positions, Abstract!Positions,
         A!RangeOf, Abstract!RangeOf, A!Leaf, Abstract!Leaf
<1> QED BY <1>1, Invariant, PTL
=============================================================================
