----------------------- MODULE MetalTreeLearnerProofs -----------------------
(***************************************************************************)
(* Proofs about the Metal tree learner, for every number of rows, every    *)
(* layout of the columns and every threshold.                              *)
(*                                                                         *)
(* The first half is about the partition kernels: a thread that counts the *)
(* rows of the blocks before its block and of the threads before it in its *)
(* block puts every row where one pass over the leaf would put it, so the  *)
(* device's partition is the CPU's.  The second half follows the rows of a *)
(* leaf from the shared buffers they are staged in, by three callers at    *)
(* three times, through a dispatch that runs whenever it likes.            *)
(***************************************************************************)
EXTENDS MetalTreeLearner, FiniteSetTheorems, SequenceTheorems, WellFoundedInduction, TLAPS

-----------------------------------------------------------------------------
(* Natural numbers *)

\* Every set of natural numbers has a least element.
LEMMA NatHasMin ==
  ASSUME NEW S, S \subseteq Nat, S # {}
  PROVE  \E m \in S : \A n \in S : m <= n
<1>1. OpToRel(<, Nat) = {ss \in Nat \X Nat : ss[1] < ss[2]}
  BY Zenon DEF OpToRel
<1> DEFINE Less == {ss \in Nat \X Nat : ss[1] < ss[2]}
<1>2. IsWellFoundedOn(Less, Nat)
  BY <1>1, NatLessThanWellFounded, Zenon
<1> HIDE DEF Less
<1>3. PICK m \in S : \A n \in S : ~(<<n, m>> \in Less)
  BY <1>2, WFMin, Zenon
<1>4. ASSUME NEW n \in S PROVE m <= n
  <2>1. n \in Nat /\ m \in Nat
    OBVIOUS
  <2>2. n < m => <<n, m>> \in Less
    BY <2>1 DEF Less
  <2> QED
    BY <1>3, <2>1, <2>2
<1> QED
  BY <1>4

LEMMA Division ==
  ASSUME NEW a \in Nat, NEW b \in Nat, b # 0
  PROVE  a \div b \in Nat /\ b * (a \div b) <= a /\ a < b * (a \div b) + b
OBVIOUS

-----------------------------------------------------------------------------
(* Counting the members of a set of positions *)

\* How many members of S are below p, and a finite set of positions.
Rank(S, p) == Cardinality({y \in S : y < p})
Places(S) == S \subseteq Nat /\ \E n \in Nat : \A x \in S : x < n

LEMMA PlacesNat ==
  ASSUME NEW S, Places(S)
  PROVE  S \subseteq Nat /\ \A x \in S : x \in Nat
BY DEF Places

LEMMA PlacesFinite ==
  ASSUME NEW S, Places(S)
  PROVE  IsFiniteSet(S) /\ Cardinality(S) \in Nat
<1>1. PICK n \in Nat : \A x \in S : x < n
  BY DEF Places
<1>2. \A s \in S : s <= n
  BY <1>1 DEF Places
<1>3. IsFiniteSet(S)
  BY <1>2, FS_BoundedSetOfNaturals DEF Places
<1> QED BY <1>3, FS_CardinalityType

LEMMA PlacesSubset ==
  ASSUME NEW S, Places(S), NEW T, T \subseteq S
  PROVE  Places(T) /\ Cardinality(T) \in Nat /\ Cardinality(T) <= Cardinality(S)
<1>1. Places(T)
  BY DEF Places
<1>2. IsFiniteSet(S) /\ T \in SUBSET S
  BY PlacesFinite
<1> QED BY <1>1, <1>2, PlacesFinite, FS_Subset

LEMMA IntervalPlaces ==
  ASSUME NEW a \in Nat, NEW b \in Int
  PROVE  Places(a..b) /\ Cardinality(a..b) = IF a > b THEN 0 ELSE b - a + 1
<1>1. a..b \subseteq Nat
  OBVIOUS
<1>2. \A x \in a..b : x < (IF b >= 0 THEN b + 1 ELSE 0)
  OBVIOUS
<1>3. (IF b >= 0 THEN b + 1 ELSE 0) \in Nat
  OBVIOUS
<1>4. Places(a..b)
  BY <1>1, <1>2, <1>3 DEF Places
<1> QED BY <1>4, FS_Interval

LEMMA PlacesUnion ==
  ASSUME NEW S, Places(S), NEW T, Places(T), S \cap T = {}
  PROVE  Places(S \cup T) /\ Cardinality(S \cup T) = Cardinality(S) + Cardinality(T)
<1>1. /\ Cardinality(S) \in Nat /\ IsFiniteSet(S)
      /\ Cardinality(T) \in Nat /\ IsFiniteSet(T)
  BY PlacesFinite
<1>2. Cardinality(S \cap T) = 0
  BY FS_EmptySet
<1>3. IsFiniteSet(S \cup T) /\ Cardinality(S \cup T) = Cardinality(S) + Cardinality(T) - Cardinality(S \cap T)
  BY <1>1, FS_Union
<1>4. Cardinality(S) + Cardinality(T) - 0 = Cardinality(S) + Cardinality(T)
  BY <1>1
<1>5. Places(S \cup T)
  <2>1. PICK m \in Nat : \A x \in S : x < m
    BY DEF Places
  <2>2. PICK n \in Nat : \A x \in T : x < n
    BY DEF Places
  <2>3. \A x \in S \cup T : x < m + n
    BY <2>1, <2>2 DEF Places
  <2>4. m + n \in Nat
    OBVIOUS
  <2>5. S \subseteq Nat /\ T \subseteq Nat
    BY DEF Places
  <2> QED BY <2>3, <2>4, <2>5 DEF Places
<1> QED BY <1>2, <1>3, <1>4, <1>5

LEMMA RankType ==
  ASSUME NEW S, Places(S), NEW p
  PROVE  Rank(S, p) \in Nat /\ Cardinality(S) \in Nat /\ Rank(S, p) <= Cardinality(S)
<1>1. {x \in S : x < p} \subseteq S
  OBVIOUS
<1> QED BY <1>1, PlacesSubset, PlacesFinite DEF Rank

\* No member is below 0, and every member is below a bound.
LEMMA RankEnds ==
  ASSUME NEW S, Places(S), NEW n \in Nat, \A x \in S : x < n
  PROVE  Rank(S, 0) = 0 /\ Rank(S, n) = Cardinality(S)
<1>1. {x \in S : x < 0} = {}
  BY PlacesNat
<1>2. {x \in S : x < n} = S
  OBVIOUS
<1> QED BY <1>1, <1>2, FS_EmptySet DEF Rank

LEMMA RankStep ==
  ASSUME NEW S, Places(S), NEW p \in Nat
  PROVE  Rank(S, p + 1) = IF p \in S THEN Rank(S, p) + 1 ELSE Rank(S, p)
<1> DEFINE Low == {x \in S : x < p}
<1>0. \A x \in S : x \in Nat
  BY PlacesNat
<1>1. Low \subseteq S /\ p \notin Low
  BY PlacesNat
<1>2. IsFiniteSet(Low)
  BY <1>1, PlacesSubset, PlacesFinite
<1>3. ASSUME p \in S PROVE Rank(S, p + 1) = Rank(S, p) + 1
  <2>1. {x \in S : x < p + 1} = Low \cup {p}
    <3>1. \A x \in Nat : x < p + 1 <=> (x < p \/ x = p)
      OBVIOUS
    <3>2. \A x \in S : x < p + 1 <=> (x < p \/ x = p)
      BY <1>0, <3>1
    <3> QED BY <1>3, <3>2
  <2>2. Cardinality(Low \cup {p}) = Cardinality(Low) + 1
    BY <1>1, <1>2, FS_AddElement
  <2> QED BY <2>1, <2>2 DEF Rank
<1>4. ASSUME p \notin S PROVE Rank(S, p + 1) = Rank(S, p)
  <2>1. {x \in S : x < p + 1} = Low
    BY <1>0, <1>4
  <2> QED BY <2>1 DEF Rank
<1> QED BY <1>3, <1>4

LEMMA RankMonotone ==
  ASSUME NEW S, Places(S), NEW p \in Nat, NEW q \in Nat, p <= q
  PROVE  Rank(S, p) <= Rank(S, q)
<1>0. \A x \in S : x \in Nat
  BY PlacesNat
<1>1. {x \in S : x < p} \subseteq {x \in S : x < q} /\ {x \in S : x < q} \subseteq S
  BY <1>0
<1>2. Places({x \in S : x < q})
  BY <1>1, PlacesSubset
<1> QED BY <1>1, <1>2, PlacesSubset DEF Rank

\* Members are counted: a later position has seen one more.
LEMMA RankStrict ==
  ASSUME NEW S, Places(S), NEW p \in S, NEW q \in Nat, p < q
  PROVE  Rank(S, p) + 1 <= Rank(S, q)
<1>1. p \in Nat /\ p + 1 \in Nat /\ p + 1 <= q
  BY PlacesNat
<1> QED BY <1>1, RankStep, RankMonotone

LEMMA RankBelow ==
  ASSUME NEW S, Places(S), NEW p \in S
  PROVE  Rank(S, p) \in Nat /\ Rank(S, p) < Cardinality(S)
<1>1. p \in Nat /\ p + 1 \in Nat
  BY PlacesNat
<1>2. Rank(S, p + 1) = Rank(S, p) + 1
  BY <1>1, RankStep
<1> QED BY <1>1, <1>2, RankType

\* Two members of the same rank are the same.
LEMMA RankInjective ==
  ASSUME NEW S, Places(S), NEW p \in S, NEW q \in S, Rank(S, p) = Rank(S, q)
  PROVE  p = q
<1>1. p \in Nat /\ q \in Nat /\ Rank(S, p) \in Nat
  BY RankType DEF Places
<1> QED BY <1>1, RankStrict

\* Every rank below the number of members is the rank of a member.
LEMMA RankOnto ==
  ASSUME NEW S, Places(S), NEW k \in 0..(Cardinality(S) - 1)
  PROVE  \E p \in S : Rank(S, p) = k
<1> DEFINE Past == {p \in Nat : Rank(S, p + 1) > k}
<1>0. k \in Nat /\ k < Cardinality(S) /\ Cardinality(S) \in Nat
  BY PlacesFinite
<1>1. \A p \in Nat : Rank(S, p) \in Nat
  BY RankType
<1>2. PICK n \in Nat : \A x \in S : x < n
  BY DEF Places
<1>3. n + 1 \in Nat /\ \A x \in S : x < n + 1
  BY <1>2 DEF Places
<1>4. Rank(S, 0) = 0 /\ Rank(S, n + 1) = Cardinality(S)
  BY <1>3, RankEnds
<1>5. n \in Past
  BY <1>0, <1>4
<1>6. PICK m \in Past : \A p \in Past : m <= p
  <2>1. Past \subseteq Nat /\ Past # {}
    BY <1>5
  <2> HIDE DEF Past
  <2> QED BY <2>1, NatHasMin
<1>7. m \in Nat /\ Rank(S, m + 1) > k /\ Rank(S, m) \in Nat
  BY <1>1
<1>8. Rank(S, m) <= k
  <2>1. CASE m = 0
    BY <2>1, <1>0, <1>4
  <2>2. CASE m # 0
    <3>1. m - 1 \in Nat /\ (m - 1) + 1 = m /\ ~(m <= m - 1)
      BY <1>7, <2>2
    <3>2. m - 1 \notin Past
      BY <1>6, <3>1
    <3>3. ~(Rank(S, m) > k)
      BY <3>1, <3>2
    <3> QED BY <1>0, <1>7, <3>3
  <2> QED BY <2>1, <2>2
<1>9. Rank(S, m + 1) = IF m \in S THEN Rank(S, m) + 1 ELSE Rank(S, m)
  BY <1>7, RankStep
<1>10. m \in S /\ Rank(S, m) = k
  BY <1>0, <1>7, <1>8, <1>9
<1> QED BY <1>10

\* The k-th member, and the member of a given rank.
LEMMA NthMember ==
  ASSUME NEW S, Places(S), NEW k \in 0..(Cardinality(S) - 1)
  PROVE  Nth(S, k) \in S /\ Rank(S, Nth(S, k)) = k
<1>1. \E p \in S : Rank(S, p) = k
  BY RankOnto
<1> QED BY <1>1 DEF Nth, Rank

LEMMA NthOfRank ==
  ASSUME NEW S, Places(S), NEW p \in S
  PROVE  Nth(S, Rank(S, p)) = p
<1>1. Rank(S, p) \in 0..(Cardinality(S) - 1)
  BY RankBelow, PlacesFinite
<1>2. Nth(S, Rank(S, p)) \in S /\ Rank(S, Nth(S, Rank(S, p))) = Rank(S, p)
  BY <1>1, NthMember
<1> QED BY <1>2, RankInjective

-----------------------------------------------------------------------------
(* Rows in ascending order *)

Ascending(s) == \A p, q \in DOMAIN s : p < q => s[p] < s[q]

\* Rows taken from some positions keep their order.
LEMMA InOrderFacts ==
  ASSUME NEW n \in Nat, NEW s \in Seq(1..n), NEW P \in SUBSET (1..Len(s))
  PROVE  /\ InOrder(s, P) \in Seq(1..n)
         /\ Len(InOrder(s, P)) = Cardinality(P) /\ Cardinality(P) \in Nat
         /\ DOMAIN InOrder(s, P) = 1..Cardinality(P)
         /\ \A k \in 1..Cardinality(P) :
              InOrder(s, P)[k] = s[Nth(P, k - 1)] /\ Nth(P, k - 1) \in P
         /\ ToSet(InOrder(s, P)) = {s[p] : p \in P}
         /\ Ascending(s) => Ascending(InOrder(s, P))
<1> DEFINE c == Cardinality(P)
           t == InOrder(s, P)
<1>1. Places(P) /\ c \in Nat
  <2>1. Len(s) \in Nat
    OBVIOUS
  <2>2. Places(1..Len(s))
    BY <2>1, IntervalPlaces
  <2> QED BY <2>2, PlacesSubset
<1>2. ASSUME NEW k \in 1..c
      PROVE  Nth(P, k - 1) \in P /\ Rank(P, Nth(P, k - 1)) = k - 1
  <2>1. k - 1 \in 0..(c - 1)
    BY <1>1
  <2> QED BY <1>1, <2>1, NthMember
<1>3. t = [k \in 1..c |-> s[Nth(P, k - 1)]]
  BY DEF InOrder
<1>4. \A p \in 1..Len(s) : s[p] \in 1..n
  OBVIOUS
<1>5. t \in [1..c -> 1..n]
  BY <1>2, <1>3, <1>4
<1>6. t \in Seq(1..n) /\ Len(t) = c /\ DOMAIN t = 1..c
  BY <1>1, <1>5
<1>7. ToSet(t) = {s[p] : p \in P}
  <2>1. ASSUME NEW p \in P PROVE \E k \in 1..c : t[k] = s[p]
    <3>1. Rank(P, p) \in Nat /\ Rank(P, p) < c
      BY <1>1, RankBelow
    <3>2. Rank(P, p) + 1 \in 1..c /\ (Rank(P, p) + 1) - 1 = Rank(P, p)
      BY <1>1, <3>1
    <3>3. Nth(P, (Rank(P, p) + 1) - 1) = p
      BY <1>1, <3>2, NthOfRank
    <3> QED BY <1>3, <3>2, <3>3
  <2>2. ToSet(t) = {t[k] : k \in 1..c}
    BY <1>6 DEF ToSet
  <2>3. ASSUME NEW k \in 1..c PROVE \E p \in P : t[k] = s[p]
    BY <1>2, <1>3
  <2> HIDE DEF t, c
  <2>4. \A x : x \in {t[k] : k \in 1..c} <=> \E k \in 1..c : x = t[k]
    OBVIOUS
  <2>5. \A x : x \in {s[p] : p \in P} <=> \E p \in P : x = s[p]
    OBVIOUS
  <2>6. \A x : x \in {t[k] : k \in 1..c} <=> x \in {s[p] : p \in P}
    BY <2>1, <2>3, <2>4, <2>5, ZenonT(30)
  <2> QED BY <2>2, <2>6
<1>8. ASSUME Ascending(s), NEW j \in 1..c, NEW k \in 1..c, j < k
      PROVE  t[j] < t[k]
  <2> DEFINE p == Nth(P, j - 1)
             q == Nth(P, k - 1)
  <2>1. p \in P /\ q \in P /\ Rank(P, p) = j - 1 /\ Rank(P, q) = k - 1
    BY <1>2
  <2>2. p \in Nat /\ q \in Nat
    BY <2>1, <1>1, PlacesNat
  <2>3. ~(q <= p)
    <3>1. q <= p => Rank(P, q) <= Rank(P, p)
      BY <1>1, <2>2, RankMonotone
    <3> QED BY <3>1, <2>1, <1>8, <1>1
  <2>4. p < q /\ p \in DOMAIN s /\ q \in DOMAIN s
    BY <2>1, <2>2, <2>3
  <2>5. t[j] = s[p] /\ t[k] = s[q]
    BY <1>3
  <2> QED BY <2>4, <2>5, <1>8 DEF Ascending
<1>9. Ascending(s) => Ascending(t)
  BY <1>6, <1>8 DEF Ascending
<1>10. \A k \in 1..c : t[k] = s[Nth(P, k - 1)] /\ Nth(P, k - 1) \in P
  BY <1>2, <1>3
<1> QED BY <1>1, <1>6, <1>7, <1>9, <1>10

\* Ascending rows are at least as far on as their positions.
LEMMA AscendingFar ==
  ASSUME NEW n \in Nat, NEW s \in Seq(1..n), Ascending(s), NEW p \in 1..Len(s)
  PROVE  s[p] >= p
<1> DEFINE Low == {k \in 1..Len(s) : s[k] < k}
<1>1. SUFFICES Low = {}
  OBVIOUS
<1>2. SUFFICES ASSUME Low # {} PROVE FALSE
  OBVIOUS
<1>3. PICK m \in Low : \A k \in Low : m <= k
  <2>1. Low \subseteq Nat
    OBVIOUS
  <2> HIDE DEF Low
  <2> QED BY <1>2, <2>1, NatHasMin
<1>4. m \in 1..Len(s) /\ s[m] < m /\ s[m] \in 1..n
  OBVIOUS
<1>5. m # 1
  BY <1>4
<1>6. m - 1 \in 1..Len(s) /\ m - 1 < m /\ ~(m <= m - 1)
  BY <1>4, <1>5
<1>7. s[m - 1] < s[m]
  BY <1>4, <1>6 DEF Ascending
<1>8. m - 1 \notin Low
  BY <1>3, <1>6
<1>9. s[m - 1] \in 1..n /\ ~(s[m - 1] < m - 1)
  BY <1>6, <1>8
<1> QED BY <1>4, <1>7, <1>9

\* There are no more of them than rows, and if as many, they are all rows.
LEMMA AscendingAll ==
  ASSUME NEW n \in Nat, NEW s \in Seq(1..n), Ascending(s)
  PROVE  /\ Len(s) \in 0..n
         /\ Len(s) = n => \A p \in 1..n : s[p] = p
<1>1. Len(s) <= n
  <2>1. CASE Len(s) = 0
    BY <2>1
  <2>2. CASE Len(s) # 0
    <3>1. Len(s) \in 1..Len(s) /\ s[Len(s)] \in 1..n
      BY <2>2
    <3> QED BY <3>1, AscendingFar
  <2> QED BY <2>1, <2>2
<1>2. ASSUME Len(s) = n, NEW p \in 1..n, s[p] # p PROVE FALSE
  <2> DEFINE High == {k \in Nat : n - k \in 1..n /\ s[n - k] > n - k}
  <2>1. \A k \in 1..n : s[k] \in 1..n /\ s[k] >= k
    BY <1>2, AscendingFar, SMTT(30)
  <2>2. n - p \in High
    <3>1. n - p \in Nat /\ n - (n - p) = p
      OBVIOUS
    <3> QED BY <3>1, <2>1, <1>2
  <2>3. PICK m \in High : \A k \in High : m <= k
    <3>1. High \subseteq Nat /\ High # {}
      BY <2>2
    <3> HIDE DEF High
    <3> QED BY <3>1, NatHasMin
  <2>4. m \in Nat /\ n - m \in 1..n /\ s[n - m] > n - m
    OBVIOUS
  <2>5. m # 0
    BY <2>1, <2>4
  <2>6. m - 1 \in Nat /\ n - (m - 1) = (n - m) + 1 /\ (n - m) + 1 \in 1..n
    BY <2>4, <2>5
  <2>7. s[n - m] < s[(n - m) + 1]
    BY <2>4, <2>6, <1>2 DEF Ascending
  <2>8. s[(n - m) + 1] > (n - m) + 1
    BY <2>1, <2>4, <2>6, <2>7
  <2>9. m - 1 \in High
    BY <2>6, <2>8
  <2>10. m <= m - 1
    <3> HIDE DEF High
    <3> QED BY <2>3, <2>9
  <2> QED BY <2>4, <2>10
<1> QED BY <1>1, <1>2

LEMMA IdentityFacts ==
  ASSUME NEW n \in Nat
  PROVE  /\ Identity(n) \in Seq(1..n) /\ Len(Identity(n)) = n
         /\ DOMAIN Identity(n) = 1..n /\ Ascending(Identity(n))
         /\ \A p \in 1..n : Identity(n)[p] = p
<1>1. Identity(n) = [p \in 1..n |-> p] /\ Identity(n) \in [1..n -> 1..n]
  BY DEF Identity
<1> QED BY <1>1 DEF Ascending

-----------------------------------------------------------------------------
(* The partition kernels *)

\* The positions of the rows that go left, and of the others.
LeftPlaces(rows, goesLeft) == {p \in 1..Len(rows) : rows[p] \in goesLeft}
RightPlaces(rows, goesLeft) == (1..Len(rows)) \ LeftPlaces(rows, goesLeft)

\* Where a stable partition puts the row at p.
Dest(rows, goesLeft, p) ==
  LET L == LeftPlaces(rows, goesLeft)
      R == RightPlaces(rows, goesLeft)
  IN  IF p \in L THEN Rank(L, p) + 1 ELSE Cardinality(L) + Rank(R, p) + 1

LEMMA SidePlaces ==
  ASSUME NEW rows, Len(rows) \in Nat, NEW goesLeft
  PROVE  /\ Places(LeftPlaces(rows, goesLeft)) /\ Places(RightPlaces(rows, goesLeft))
         /\ Cardinality(LeftPlaces(rows, goesLeft)) \in Nat
         /\ Cardinality(RightPlaces(rows, goesLeft)) \in Nat
         /\ Cardinality(LeftPlaces(rows, goesLeft)) + Cardinality(RightPlaces(rows, goesLeft))
              = Len(rows)
<1> DEFINE L == LeftPlaces(rows, goesLeft)
           R == RightPlaces(rows, goesLeft)
<1>1. Places(1..Len(rows)) /\ Cardinality(1..Len(rows)) = Len(rows)
  BY IntervalPlaces
<1>2. L \subseteq 1..Len(rows) /\ R \subseteq 1..Len(rows) /\ L \cap R = {}
      /\ L \cup R = 1..Len(rows)
  BY DEF LeftPlaces, RightPlaces
<1>3. Places(L) /\ Places(R) /\ Cardinality(L) \in Nat /\ Cardinality(R) \in Nat
  BY <1>1, <1>2, PlacesSubset
<1>4. Cardinality(L \cup R) = Cardinality(L) + Cardinality(R)
  BY <1>2, <1>3, PlacesUnion
<1> QED BY <1>1, <1>2, <1>3, <1>4

\* Rows going left between two positions.
LEMMA LeftsBetween ==
  ASSUME NEW rows, Len(rows) \in Nat, NEW goesLeft,
         NEW a \in Nat, NEW b \in Nat, 1 <= a, a - 1 <= b, b <= Len(rows)
  PROVE  /\ Lefts(rows, goesLeft, a..b) \in Nat
         /\ Rank(LeftPlaces(rows, goesLeft), a) \in Nat
         /\ Rank(LeftPlaces(rows, goesLeft), b + 1)
              = Rank(LeftPlaces(rows, goesLeft), a) + Lefts(rows, goesLeft, a..b)
<1> DEFINE L == LeftPlaces(rows, goesLeft)
           Low == {y \in L : y < a}
           Mid == {p \in a..b : rows[p] \in goesLeft}
<1>1. Places(L)
  BY SidePlaces
<1>2. Low \subseteq L /\ Mid \subseteq L
  BY DEF LeftPlaces
<1>3. Places(Low) /\ Places(Mid) /\ Cardinality(Low) \in Nat /\ Cardinality(Mid) \in Nat
  BY <1>1, <1>2, PlacesSubset
<1>4. Low \cap Mid = {}
  BY DEF LeftPlaces
<1>5. {y \in L : y < b + 1} = Low \cup Mid
  BY DEF LeftPlaces
<1>6. Cardinality(Low \cup Mid) = Cardinality(Low) + Cardinality(Mid)
  BY <1>3, <1>4, PlacesUnion
<1>7. Lefts(rows, goesLeft, a..b) = Cardinality(Mid)
  BY DEF Lefts
<1> QED BY <1>3, <1>5, <1>6, <1>7 DEF Rank

\* Every position before p is one of a row going left or of another.
LEMMA RanksOfSides ==
  ASSUME NEW rows, Len(rows) \in Nat, NEW goesLeft, NEW p \in 1..Len(rows)
  PROVE  /\ Rank(LeftPlaces(rows, goesLeft), p) \in Nat
         /\ Rank(RightPlaces(rows, goesLeft), p) \in Nat
         /\ Rank(LeftPlaces(rows, goesLeft), p) + Rank(RightPlaces(rows, goesLeft), p) = p - 1
<1> DEFINE L == LeftPlaces(rows, goesLeft)
           R == RightPlaces(rows, goesLeft)
           LowL == {y \in L : y < p}
           LowR == {y \in R : y < p}
<1>1. Places(L) /\ Places(R)
  BY SidePlaces
<1>2. LowL \subseteq L /\ LowR \subseteq R /\ LowL \cap LowR = {} /\ LowL \cup LowR = 1..(p - 1)
  BY DEF LeftPlaces, RightPlaces
<1>3. Places(LowL) /\ Places(LowR) /\ Cardinality(LowL) \in Nat /\ Cardinality(LowR) \in Nat
  BY <1>1, <1>2, PlacesSubset
<1>4. Cardinality(1..(p - 1)) = p - 1
  <2>1. 1 > p - 1 => p - 1 = 0
    OBVIOUS
  <2> QED BY <2>1, IntervalPlaces
<1>5. Cardinality(LowL \cup LowR) = Cardinality(LowL) + Cardinality(LowR)
  BY <1>2, <1>3, PlacesUnion
<1> QED BY <1>2, <1>3, <1>4, <1>5 DEF Rank

\* Counting by blocks and threads, each thread finds the places a single pass
\* over the rows would give them.
LEMMA TargetIsStable ==
  ASSUME NEW rows, Len(rows) \in Nat, NEW goesLeft, NEW p \in 1..Len(rows)
  PROVE  Target(rows, goesLeft, p) = Dest(rows, goesLeft, p)
<1> DEFINE L == LeftPlaces(rows, goesLeft)
           R == RightPlaces(rows, goesLeft)
           block == (p - 1) \div BlockRows
           start == block * BlockRows
           turn == (p - 1 - start) \div ThreadRows
           thread == start + turn * ThreadRows
           total == Lefts(rows, goesLeft, 1..Len(rows))
           lte == LeftBase(rows, goesLeft, p)
           a == Lefts(rows, goesLeft, start + 1 .. thread)
           b == Lefts(rows, goesLeft, (thread + 1)..(p - 1))
<1>1. BlockRows \in Nat \ {0} /\ ThreadRows \in Nat \ {0}
  BY MetalAssumption
<1>2. start \in Nat /\ start <= p - 1
  <2>1. p - 1 \in Nat
    OBVIOUS
  <2>2. block \in Nat /\ BlockRows * block <= p - 1
    BY <1>1, <2>1, Division
  <2> HIDE DEF block
  <2>3. BlockRows * block = block * BlockRows /\ block * BlockRows \in Nat
    BY <1>1, <2>2
  <2> QED BY <2>2, <2>3
<1> HIDE DEF start
<1>3. thread \in Nat /\ start <= thread /\ thread <= p - 1
  <2>1. p - 1 - start \in Nat
    BY <1>2
  <2>2. turn \in Nat /\ ThreadRows * turn <= p - 1 - start
    BY <1>1, <2>1, Division
  <2> HIDE DEF turn
  <2>3. ThreadRows * turn = turn * ThreadRows /\ turn * ThreadRows \in Nat
    BY <1>1, <2>2
  <2> QED BY <1>2, <2>2, <2>3
<1> HIDE DEF thread
<1>4. total = Cardinality(L)
  BY DEF Lefts, LeftPlaces
<1>5. lte = Lefts(rows, goesLeft, 1..start)
  <2>1. RowsFrom(1, start, Len(rows)) = 1..start
    BY <1>2 DEF RowsFrom
  <2> QED BY <2>1 DEF LeftBase, start
<1>6. Rank(L, 1) = 0
  <2>1. {y \in L : y < 1} = {}
    BY DEF LeftPlaces
  <2> QED BY <2>1, FS_EmptySet DEF Rank
<1>7. /\ lte \in Nat /\ a \in Nat /\ b \in Nat
      /\ Rank(L, start + 1) = lte
      /\ Rank(L, thread + 1) = Rank(L, start + 1) + a
      /\ Rank(L, p) = Rank(L, thread + 1) + b
  <2>1. lte \in Nat /\ Rank(L, start + 1) = 0 + lte
    BY <1>2, <1>5, <1>6, LeftsBetween
  <2>2. a \in Nat /\ Rank(L, thread + 1) = Rank(L, start + 1) + a
    <3>1. start + 1 \in Nat /\ 1 <= start + 1 /\ (start + 1) - 1 <= thread /\ thread <= Len(rows)
      BY <1>2, <1>3
    <3> QED BY <1>3, <3>1, LeftsBetween
  <2>3. b \in Nat /\ Rank(L, (p - 1) + 1) = Rank(L, thread + 1) + b
    <3>1. thread + 1 \in Nat /\ 1 <= thread + 1 /\ (thread + 1) - 1 <= p - 1 /\ p - 1 <= Len(rows)
          /\ p - 1 \in Nat
      BY <1>2, <1>3
    <3> QED BY <3>1, LeftsBetween
  <2>4. (p - 1) + 1 = p
    OBVIOUS
  <2> QED BY <2>1, <2>2, <2>3, <2>4
<1>8. Rank(L, p) = lte + (a + b)
  BY <1>7
<1>9. Rank(R, p) = p - 1 - Rank(L, p) /\ Rank(L, p) \in Nat
  BY RanksOfSides
<1>10. Target(rows, goesLeft, p) =
         IF rows[p] \in goesLeft THEN lte + (a + b) + 1
         ELSE total + (start - lte) + ((thread - start) - a + (p - 1 - thread) - b) + 1
  BY DEF Target, start, thread
<1>11. rows[p] \in goesLeft <=> p \in L
  BY DEF LeftPlaces
<1>12. (start - lte) + ((thread - start) - a + (p - 1 - thread) - b) = p - 1 - (lte + (a + b))
  BY <1>2, <1>3, <1>7
<1>13. Cardinality(L) \in Nat
  BY SidePlaces
<1> HIDE DEF a, b, lte, total, L, R
<1>14. CASE p \in L
  BY <1>8, <1>10, <1>11, <1>14 DEF Dest, L, R
<1>15. CASE p \notin L
  <2>1. Rank(R, p) = (start - lte) + ((thread - start) - a + (p - 1 - thread) - b)
    BY <1>8, <1>9, <1>12
  <2>2. Target(rows, goesLeft, p) = Cardinality(L) + Rank(R, p) + 1
    BY <1>2, <1>3, <1>4, <1>7, <1>10, <1>11, <1>13, <1>15, <2>1
  <2> QED BY <1>15, <2>2 DEF Dest, L, R
<1> QED BY <1>14, <1>15

\* The row with k rows of its side before it is the only one put there.
LEMMA DestOfNth ==
  ASSUME NEW rows, Len(rows) \in Nat, NEW goesLeft,
         NEW L, L = LeftPlaces(rows, goesLeft), NEW R, R = RightPlaces(rows, goesLeft)
  PROVE  /\ \A k \in 1..Cardinality(L) :
              /\ Nth(L, k - 1) \in 1..Len(rows) /\ Dest(rows, goesLeft, Nth(L, k - 1)) = k
              /\ \A p \in 1..Len(rows) : Dest(rows, goesLeft, p) = k => p = Nth(L, k - 1)
         /\ \A k \in 1..Cardinality(R) :
              /\ Nth(R, k - 1) \in 1..Len(rows)
              /\ Dest(rows, goesLeft, Nth(R, k - 1)) = Cardinality(L) + k
              /\ \A p \in 1..Len(rows) :
                   Dest(rows, goesLeft, p) = Cardinality(L) + k => p = Nth(R, k - 1)
<1>1. /\ Places(L) /\ Places(R) /\ Cardinality(L) \in Nat /\ Cardinality(R) \in Nat
  BY SidePlaces
<1>2. L \subseteq 1..Len(rows) /\ R \subseteq 1..Len(rows)
      /\ \A p \in 1..Len(rows) : p \in R <=> p \notin L
  BY DEF LeftPlaces, RightPlaces
<1>3. \A p \in 1..Len(rows) :
        Dest(rows, goesLeft, p) = IF p \in L THEN Rank(L, p) + 1 ELSE Cardinality(L) + Rank(R, p) + 1
  BY DEF Dest
<1>4. /\ \A p \in L : Rank(L, p) \in Nat /\ Rank(L, p) < Cardinality(L)
      /\ \A p \in R : Rank(R, p) \in Nat /\ Rank(R, p) < Cardinality(R)
  BY <1>1, RankBelow
<1>5. ASSUME NEW k \in 1..Cardinality(L)
      PROVE  /\ Nth(L, k - 1) \in 1..Len(rows) /\ Dest(rows, goesLeft, Nth(L, k - 1)) = k
             /\ \A p \in 1..Len(rows) : Dest(rows, goesLeft, p) = k => p = Nth(L, k - 1)
  <2>1. Nth(L, k - 1) \in L /\ Rank(L, Nth(L, k - 1)) = k - 1
    <3>1. k - 1 \in 0..(Cardinality(L) - 1)
      BY <1>1
    <3> QED BY <1>1, <3>1, NthMember
  <2>2. Dest(rows, goesLeft, Nth(L, k - 1)) = k
    BY <1>2, <1>3, <2>1
  <2>3. ASSUME NEW p \in 1..Len(rows), Dest(rows, goesLeft, p) = k PROVE p = Nth(L, k - 1)
    <3>1. p \in L
      <4>1. p \in R => Cardinality(L) + Rank(R, p) + 1 > k
        BY <1>1, <1>4
      <4> QED BY <4>1, <1>2, <1>3, <2>3, <1>4, <1>1
    <3>2. Rank(L, p) = k - 1
      BY <3>1, <1>3, <1>4, <2>3
    <3> QED BY <1>1, <3>1, <3>2, <2>1, RankInjective
  <2> QED BY <1>2, <2>1, <2>2, <2>3
<1>6. ASSUME NEW k \in 1..Cardinality(R)
      PROVE  /\ Nth(R, k - 1) \in 1..Len(rows)
             /\ Dest(rows, goesLeft, Nth(R, k - 1)) = Cardinality(L) + k
             /\ \A p \in 1..Len(rows) :
                  Dest(rows, goesLeft, p) = Cardinality(L) + k => p = Nth(R, k - 1)
  <2>1. Nth(R, k - 1) \in R /\ Rank(R, Nth(R, k - 1)) = k - 1
    <3>1. k - 1 \in 0..(Cardinality(R) - 1)
      BY <1>1
    <3> QED BY <1>1, <3>1, NthMember
  <2>2. Dest(rows, goesLeft, Nth(R, k - 1)) = Cardinality(L) + k
    <3>1. Nth(R, k - 1) \notin L /\ Nth(R, k - 1) \in 1..Len(rows)
      BY <1>2, <2>1
    <3> QED BY <1>1, <1>3, <2>1, <3>1
  <2>3. ASSUME NEW p \in 1..Len(rows), Dest(rows, goesLeft, p) = Cardinality(L) + k
        PROVE  p = Nth(R, k - 1)
    <3>1. p \notin L
      BY <1>1, <1>3, <1>4, <2>3
    <3>2. p \in R /\ Rank(R, p) = k - 1
      BY <3>1, <1>1, <1>2, <1>3, <1>4, <2>3
    <3> QED BY <1>1, <3>2, <2>1, RankInjective
  <2> QED BY <1>2, <2>1, <2>2, <2>3
<1> QED BY <1>5, <1>6

\* What the scattering threads leave in the output buffer, in whatever order
\* they run: the left rows in their order, then the others in theirs.
LEMMA ScatteredRows ==
  ASSUME NEW rows, Len(rows) \in 0..NumData, NEW goesLeft, DOMAIN buf_indices_ = 1..NumData,
         NEW L, L = LeftPlaces(rows, goesLeft), NEW R, R = RightPlaces(rows, goesLeft)
  PROVE  /\ \A k \in 1..Cardinality(L) : Scattered(rows, goesLeft)[k] = rows[Nth(L, k - 1)]
         /\ \A k \in 1..Cardinality(R) :
              Scattered(rows, goesLeft)[Cardinality(L) + k] = rows[Nth(R, k - 1)]
<1>1. Len(rows) \in Nat /\ NumData \in Nat /\ Len(rows) <= NumData
  BY MetalAssumption
<1>2. /\ Cardinality(L) \in Nat /\ Cardinality(R) \in Nat
      /\ Cardinality(L) + Cardinality(R) = Len(rows)
  BY <1>1, SidePlaces
<1>3. ASSUME NEW q \in 1..NumData, NEW p \in 1..Len(rows), Dest(rows, goesLeft, p) = q,
             \A r \in 1..Len(rows) : Dest(rows, goesLeft, r) = q => r = p
      PROVE  Scattered(rows, goesLeft)[q] = rows[p]
  <2>1. \A r \in 1..Len(rows) : Target(rows, goesLeft, r) = Dest(rows, goesLeft, r)
    BY <1>1, TargetIsStable
  <2>2. Target(rows, goesLeft, p) = q /\ \A r \in 1..Len(rows) : Target(rows, goesLeft, r) = q => r = p
    BY <1>3, <2>1
  <2>3. (CHOOSE r \in 1..Len(rows) : Target(rows, goesLeft, r) = q) = p
    BY <2>2
  <2>4. Scattered(rows, goesLeft)[q] =
          IF \E r \in 1..Len(rows) : Target(rows, goesLeft, r) = q
          THEN rows[CHOOSE r \in 1..Len(rows) : Target(rows, goesLeft, r) = q]
          ELSE buf_indices_[q]
    BY DEF Scattered
  <2> QED BY <2>2, <2>3, <2>4
<1>4. ASSUME NEW k \in 1..Cardinality(L)
      PROVE  Scattered(rows, goesLeft)[k] = rows[Nth(L, k - 1)]
  <2>1. k \in 1..NumData
    BY <1>1, <1>2
  <2>2. /\ Nth(L, k - 1) \in 1..Len(rows) /\ Dest(rows, goesLeft, Nth(L, k - 1)) = k
        /\ \A p \in 1..Len(rows) : Dest(rows, goesLeft, p) = k => p = Nth(L, k - 1)
    BY <1>1, DestOfNth
  <2> QED BY <1>3, <2>1, <2>2
<1>5. ASSUME NEW k \in 1..Cardinality(R)
      PROVE  Scattered(rows, goesLeft)[Cardinality(L) + k] = rows[Nth(R, k - 1)]
  <2>1. Cardinality(L) + k \in 1..NumData
    BY <1>1, <1>2
  <2>2. /\ Nth(R, k - 1) \in 1..Len(rows)
        /\ Dest(rows, goesLeft, Nth(R, k - 1)) = Cardinality(L) + k
        /\ \A p \in 1..Len(rows) :
             Dest(rows, goesLeft, p) = Cardinality(L) + k => p = Nth(R, k - 1)
    BY <1>1, DestOfNth
  <2> QED BY <1>3, <2>1, <2>2
<1> QED BY <1>4, <1>5

\* Both sides of a split, as the CPU's partition makes them.
LEMMA KeptSides ==
  ASSUME NEW n \in Nat, NEW rows \in Seq(1..n), NEW goesLeft
  PROVE  /\ Kept(rows, goesLeft) = InOrder(rows, LeftPlaces(rows, goesLeft))
         /\ Kept(rows, ToSet(rows) \ goesLeft) = InOrder(rows, RightPlaces(rows, goesLeft))
<1>1. DOMAIN rows = 1..Len(rows)
  OBVIOUS
<1>2. {p \in DOMAIN rows : rows[p] \in goesLeft} = LeftPlaces(rows, goesLeft)
  BY <1>1 DEF LeftPlaces
<1>3. {p \in DOMAIN rows : rows[p] \in ToSet(rows) \ goesLeft} = RightPlaces(rows, goesLeft)
  BY <1>1 DEF LeftPlaces, RightPlaces, ToSet
<1> QED BY <1>2, <1>3 DEF Kept

\* The left rows in their order and then the others in theirs.
IsDivided(out, rows, goesLeft) ==
  LET L == LeftPlaces(rows, goesLeft)
      R == RightPlaces(rows, goesLeft)
  IN  /\ \A k \in 1..Cardinality(L) : out[k] = rows[Nth(L, k - 1)]
      /\ \A k \in 1..Cardinality(R) : out[Cardinality(L) + k] = rows[Nth(R, k - 1)]

\* Rows that lie like those of a stable partition are its two sides.
LEMMA SidesOf ==
  ASSUME NEW n \in Nat, NEW rows \in Seq(1..n), NEW goesLeft, NEW out,
         IsDivided(out, rows, goesLeft)
  PROVE  LET c == Cardinality(LeftPlaces(rows, goesLeft))
         IN  /\ SubSeq(out, 1, c) = Kept(rows, goesLeft)
             /\ SubSeq(out, c + 1, Len(rows)) = Kept(rows, ToSet(rows) \ goesLeft)
<1> DEFINE L == LeftPlaces(rows, goesLeft)
           R == RightPlaces(rows, goesLeft)
<1>0. /\ \A k \in 1..Cardinality(L) : out[k] = rows[Nth(L, k - 1)]
      /\ \A k \in 1..Cardinality(R) : out[Cardinality(L) + k] = rows[Nth(R, k - 1)]
  BY DEF IsDivided
<1> DEFINE c == Cardinality(L)
           d == Cardinality(R)
           left_kept == Kept(rows, goesLeft)
           right_kept == Kept(rows, ToSet(rows) \ goesLeft)
<1>1. /\ c \in Nat /\ d \in Nat /\ c + d = Len(rows) /\ Len(rows) \in Nat
  BY SidePlaces
<1>2. L \in SUBSET (1..Len(rows)) /\ R \in SUBSET (1..Len(rows))
  BY DEF LeftPlaces, RightPlaces
<1>3. left_kept = InOrder(rows, L) /\ right_kept = InOrder(rows, R)
  BY KeptSides
<1>4. /\ left_kept \in Seq(1..n) /\ Len(left_kept) = c
      /\ \A k \in 1..c : left_kept[k] = out[k]
  <2>1. /\ InOrder(rows, L) \in Seq(1..n) /\ Len(InOrder(rows, L)) = Cardinality(L)
        /\ \A k \in 1..Cardinality(L) : InOrder(rows, L)[k] = rows[Nth(L, k - 1)]
    BY <1>2, InOrderFacts
  <2> HIDE DEF left_kept, L
  <2> QED BY <1>0, <1>3, <2>1
<1>5. /\ right_kept \in Seq(1..n) /\ Len(right_kept) = d
      /\ \A k \in 1..d : right_kept[k] = out[c + k]
  <2>1. /\ InOrder(rows, R) \in Seq(1..n) /\ Len(InOrder(rows, R)) = Cardinality(R)
        /\ \A k \in 1..Cardinality(R) : InOrder(rows, R)[k] = rows[Nth(R, k - 1)]
    BY <1>2, InOrderFacts
  <2> HIDE DEF right_kept, L, R
  <2> QED BY <1>0, <1>3, <2>1
<1> HIDE DEF c, d, left_kept, right_kept
<1>6. SubSeq(out, 1, c) = left_kept
  <2>1. \A k \in 1..c : out[k] \in 1..n
    BY <1>4
  <2>2. SubSeq(out, 1, c) \in Seq(1..n) /\ Len(SubSeq(out, 1, c)) = c
        /\ \A k \in 1..c : SubSeq(out, 1, c)[k] = out[k]
    BY <1>1, <2>1
  <2> QED BY <1>4, <2>2, SeqEqual
<1>7. SubSeq(out, c + 1, Len(rows)) = right_kept
  <2>1. \A k \in (c + 1)..Len(rows) : out[k] \in 1..n
    <3>1. \A k \in (c + 1)..Len(rows) : k - c \in 1..d /\ c + (k - c) = k
      BY <1>1
    <3>2. \A k \in 1..d : right_kept[k] \in 1..n
      BY <1>5
    <3> QED BY <1>5, <3>1, <3>2
  <2>2. SubSeq(out, c + 1, Len(rows)) \in Seq(1..n) /\ Len(SubSeq(out, c + 1, Len(rows))) = d
        /\ \A k \in 1..d : SubSeq(out, c + 1, Len(rows))[k] = out[c + k]
    <3>1. Len(rows) - (c + 1) + 1 = d /\ (c + 1 <= Len(rows) \/ d = 0)
      BY <1>1
    <3>2. \A k \in 1..d : (c + 1) + k - 1 = c + k
      BY <1>1
    <3>3. c + 1 \in Int /\ Len(rows) \in Int
      BY <1>1
    <3>4. /\ SubSeq(out, c + 1, Len(rows)) \in Seq(1..n)
          /\ Len(SubSeq(out, c + 1, Len(rows))) = IF c + 1 <= Len(rows) THEN Len(rows) - (c + 1) + 1 ELSE 0
          /\ \A k \in 1..(Len(rows) - (c + 1) + 1) :
               SubSeq(out, c + 1, Len(rows))[k] = out[(c + 1) + k - 1]
      BY <2>1, <3>3, SubSeqProperties
    <3> QED BY <1>1, <3>1, <3>2, <3>4
  <2> QED BY <1>5, <2>2, SeqEqual
<1> QED BY <1>6, <1>7 DEF c, left_kept, right_kept

\* One side of a split: rows of the leaf, in their order.
LEMMA KeptFacts ==
  ASSUME NEW n \in Nat, NEW rows \in Seq(1..n), NEW S
  PROVE  /\ Kept(rows, S) \in Seq(1..n)
         /\ ToSet(Kept(rows, S)) = ToSet(rows) \cap S
         /\ Ascending(rows) => Ascending(Kept(rows, S))
<1> DEFINE P == {p \in DOMAIN rows : rows[p] \in S}
<1>1. P \in SUBSET (1..Len(rows)) /\ DOMAIN rows = 1..Len(rows)
  OBVIOUS
<1>2. Kept(rows, S) = InOrder(rows, P)
  BY DEF Kept
<1>3. {rows[p] : p \in P} = ToSet(rows) \cap S
  BY DEF ToSet
<1> HIDE DEF P
<1>4. /\ InOrder(rows, P) \in Seq(1..n) /\ ToSet(InOrder(rows, P)) = {rows[p] : p \in P}
      /\ Ascending(rows) => Ascending(InOrder(rows, P))
  BY <1>1, InOrderFacts
<1> QED BY <1>2, <1>3, <1>4

\* The output of a partition, of the device or of the CPU.
Output(rows, goesLeft, device) ==
  IF device THEN SubSeq(Scattered(rows, goesLeft), 1, Len(rows))
  ELSE Kept(rows, goesLeft) \o Kept(rows, ToSet(rows) \ goesLeft)

\* Device and CPU divide a leaf in the same two halves.
LEMMA OutputSides ==
  ASSUME NEW n \in Nat, NEW rows \in Seq(1..n), Len(rows) <= NumData, NEW goesLeft,
         NEW device \in BOOLEAN, DOMAIN buf_indices_ = 1..NumData
  PROVE  LET out == Output(rows, goesLeft, device)
             c == Lefts(rows, goesLeft, 1..Len(rows))
         IN  /\ SubSeq(out, 1, c) = Kept(rows, goesLeft)
             /\ SubSeq(out, c + 1, Len(rows)) = Kept(rows, ToSet(rows) \ goesLeft)
<1> DEFINE out == Output(rows, goesLeft, device)
           L == LeftPlaces(rows, goesLeft)
           R == RightPlaces(rows, goesLeft)
<1>1. Len(rows) \in Nat /\ NumData \in Nat /\ Len(rows) \in 0..NumData
  BY MetalAssumption
<1>2. /\ Cardinality(L) \in Nat /\ Cardinality(R) \in Nat
      /\ Cardinality(L) + Cardinality(R) = Len(rows)
  BY <1>1, SidePlaces
<1>3. Lefts(rows, goesLeft, 1..Len(rows)) = Cardinality(L)
  BY DEF Lefts, LeftPlaces
<1>4. /\ \A k \in 1..Cardinality(L) : out[k] = rows[Nth(L, k - 1)]
      /\ \A k \in 1..Cardinality(R) : out[Cardinality(L) + k] = rows[Nth(R, k - 1)]
  <2>1. CASE device
    <3> DEFINE all == Scattered(rows, goesLeft)
    <3>1. out = SubSeq(all, 1, Len(rows))
      BY <2>1 DEF Output
    <3>2. \A k \in 1..Len(rows) : SubSeq(all, 1, Len(rows))[k] = all[k]
      <4> DEFINE S == {all[k] : k \in 1..Len(rows)}
      <4>1. \A k \in 1..Len(rows) : all[k] \in S
        OBVIOUS
      <4> HIDE DEF S, all
      <4>2. \A k \in 1..(Len(rows) - 1 + 1) : SubSeq(all, 1, Len(rows))[k] = all[1 + k - 1]
        BY <1>1, <4>1, SubSeqProperties
      <4>3. \A k \in 1..Len(rows) : 1 + k - 1 = k
        OBVIOUS
      <4> QED BY <1>1, <4>2, <4>3
    <3>3. /\ \A k \in 1..Cardinality(L) : all[k] = rows[Nth(L, k - 1)]
          /\ \A k \in 1..Cardinality(R) : all[Cardinality(L) + k] = rows[Nth(R, k - 1)]
      BY <1>1, ScatteredRows
    <3>4. /\ \A k \in 1..Cardinality(L) : k \in 1..Len(rows)
          /\ \A k \in 1..Cardinality(R) : Cardinality(L) + k \in 1..Len(rows)
      BY <1>2
    <3> HIDE DEF all, out, L, R
    <3> QED BY <3>1, <3>2, <3>3, <3>4
  <2>2. CASE ~device
    <3> DEFINE s == InOrder(rows, L)
               t == InOrder(rows, R)
    <3>1. L \in SUBSET (1..Len(rows)) /\ R \in SUBSET (1..Len(rows))
      BY DEF LeftPlaces, RightPlaces
    <3> HIDE DEF L, R
    <3>2. /\ s \in Seq(1..n) /\ Len(s) = Cardinality(L)
          /\ \A k \in 1..Cardinality(L) : s[k] = rows[Nth(L, k - 1)]
      BY <3>1, InOrderFacts
    <3>3. /\ t \in Seq(1..n) /\ Len(t) = Cardinality(R)
          /\ \A k \in 1..Cardinality(R) : t[k] = rows[Nth(R, k - 1)]
      BY <3>1, InOrderFacts
    <3>4. out = s \o t
      BY <2>2, KeptSides DEF Output, L, R
    <3> HIDE DEF s, t, out
    <3>5. \A i \in 1..(Len(s) + Len(t)) : (s \o t)[i] = IF i <= Len(s) THEN s[i] ELSE t[i - Len(s)]
      BY <3>2, <3>3, ConcatProperties
    <3>6. \A k \in 1..Cardinality(L) : out[k] = s[k]
      BY <1>2, <3>2, <3>3, <3>4, <3>5
    <3>7. ASSUME NEW k \in 1..Cardinality(R) PROVE out[Cardinality(L) + k] = t[k]
      <4> DEFINE i == Cardinality(L) + k
      <4>1. i \in 1..(Len(s) + Len(t)) /\ ~(i <= Len(s)) /\ i - Len(s) = k
        BY <1>2, <3>2, <3>3
      <4> HIDE DEF i
      <4>2. out[i] = t[k]
        BY <3>4, <3>5, <4>1
      <4> QED BY <4>2 DEF i
    <3> QED BY <3>2, <3>3, <3>6, <3>7
  <2> QED BY <2>1, <2>2
<1>5. IsDivided(out, rows, goesLeft)
  <2> HIDE DEF out
  <2> QED BY <1>4 DEF IsDivided
<1> HIDE DEF out
<1>6. /\ SubSeq(out, 1, Cardinality(L)) = Kept(rows, goesLeft)
      /\ SubSeq(out, Cardinality(L) + 1, Len(rows)) = Kept(rows, ToSet(rows) \ goesLeft)
  BY <1>5, SidesOf
<1> QED BY <1>3, <1>6 DEF out

-----------------------------------------------------------------------------
(* The inductive invariant of the learner *)

Shapes ==
  /\ setup \in Setups
  /\ pc \in {"idle", "find", "launch", "cpu", "wait", "split"}
  /\ num_data_ \in 1..NumData /\ use_bagging_ \in BOOLEAN
  /\ bag \in Seq(1..num_data_) /\ leafRows \in [Leaves -> Seq(1..num_data_)]
  /\ numLeaves \in 1..MaxLeaves /\ left \in Leaves /\ right \in Leaves \cup {None}
  /\ treeFeatures \subseteq Features /\ is_used \subseteq Features
  /\ use_subtract \in BOOLEAN /\ which \in Children /\ captured \in BOOLEAN
  /\ buf_indices_ \in [1..NumData -> 1..num_data_ \cup {Stale}]
  /\ buf_grads_ \in [1..NumData -> 1..num_data_ \cup {Stale}]
  /\ buf_hess_ \in [1..NumData -> 1..num_data_ \cup {Stale}]
  /\ DOMAIN hist = Children

\* A bag is a part of the training data in its order; without one, or with all
\* rows in it, use_bagging_ is not set.
BagInOrder ==
  /\ Ascending(bag)
  /\ bag = <<>> => ~use_bagging_
  /\ bag # <<>> => num_data_ = NumData /\ use_bagging_ = (Len(bag) # NumData)

\* Between two trees there are no rows in leaves, and before the first split
\* all of them are in the root.
TreeInv ==
  /\ left < numLeaves
  /\ right = None => left = 0 /\ numLeaves = 1
  /\ right # None => right < numLeaves
  /\ pc = "idle" => right = None
  /\ \A l \in Leaves : pc = "idle" \/ l >= numLeaves => leafRows[l] = <<>>
  /\ pc # "idle" /\ right = None => leafRows[0] = RootRows

RowsInv == Shapes /\ BagInOrder /\ TreeInv /\ LeavesInOrder

\* A dispatch over rows reads these rows and their gradients.
Staged(rows) ==
  /\ \A p \in 1..Len(rows) : buf_grads_[p] = rows[p]
  /\ Len(rows) # num_data_ => \A p \in 1..Len(rows) : buf_indices_[p] = rows[p]
  /\ IF setup.constHess THEN captured ELSE \A p \in 1..Len(rows) : buf_hess_[p] = rows[p]

\* The root is staged before its search, and a smaller leaf before the launch.
StagedInTime ==
  /\ pc = "find" /\ right = None /\ ShouldUseMetal(Count(left), Columns) => Staged(leafRows[left])
  /\ pc = "launch" /\ which = "smaller" /\ MaybeMetal("smaller") => Staged(leafRows[SmallerLeaf])

\* A dispatch in flight is one over the leaf being built, whose rows are still
\* staged, and has not run or has summed them.
FlightInv ==
  flight # Nothing =>
    LET rows == leafRows[LeafOf(which)]
    IN  /\ pc \in {"cpu", "wait"}
        /\ Staged(rows)
        /\ flight = [child |-> which, rows |-> Len(rows), indices |-> UseIndices(Len(rows)),
                     mask |-> Masked, out |-> flight.out]
        /\ flight.out \in {Unknown, EntriesOf(rows)}

\* The features of a child built so far.
Has(child, features) ==
  \A f \in features : hist[child][f] = EntriesOf(leafRows[LeafOf(child)])

\* What of the histograms is complete: those of the smaller leaf while the
\* larger one is built, the CPU's while the device is waited for, all at the end.
HistInv ==
  /\ pc \in {"launch", "cpu", "wait"} /\ which = "larger" =>
       LargerNeeded /\ Has("smaller", is_used \cap treeFeatures)
  /\ pc = "wait" => Has(which, CpuFeatures \cap treeFeatures)
  /\ HistogramsOfOwnRows

IInv == RowsInv /\ StagedInTime /\ FlightInv /\ HistInv

LEMMA Sizes ==
  /\ NumData \in Nat \ {0} /\ MaxLeaves \in Nat /\ MaxLeaves > 1 /\ 0 \in Leaves /\ None \notin Leaves
  /\ Leaves = 0..(MaxLeaves - 1) /\ \A l \in Leaves : l \in Nat
BY MetalAssumption DEF Leaves, None

LEMMA TypeOfShapes ==
  ASSUME Shapes, FlightInv
  PROVE  MetalTypeOK
<1>1. \A p \in DOMAIN bag : bag[p] \in 1..num_data_
  <2>1. bag \in Seq(1..num_data_)
    BY DEF Shapes
  <2>2. \A s \in Seq(1..num_data_) : \A p \in DOMAIN s : s[p] \in 1..num_data_
    BY ElementOfSeq, LenProperties
  <2> QED BY <2>1, <2>2
<1>2. \A l \in Leaves : \A p \in DOMAIN leafRows[l] : leafRows[l][p] \in 1..num_data_
  <2>1. \A l \in Leaves : leafRows[l] \in Seq(1..num_data_)
    BY DEF Shapes
  <2>2. \A s \in Seq(1..num_data_) : \A p \in DOMAIN s : s[p] \in 1..num_data_
    BY ElementOfSeq, LenProperties
  <2> QED BY <2>1, <2>2
<1>3. \A b \in {buf_indices_, buf_grads_, buf_hess_} :
        \A p \in 1..NumData : b[p] \in 1..num_data_ \cup {Stale}
  BY DEF Shapes
<1>4. flight # Nothing => flight.child = which /\ pc \in {"cpu", "wait"}
  BY DEF FlightInv
<1> QED BY <1>1, <1>2, <1>3, <1>4 DEF Shapes, MetalTypeOK

LEMMA WrittenType ==
  ASSUME NEW n \in 1..NumData, NEW buffer \in [1..NumData -> 1..n \cup {Stale}],
         NEW rows \in Seq(1..n)
  PROVE  /\ Written(buffer, rows) \in [1..NumData -> 1..n \cup {Stale}]
         /\ Len(rows) <= NumData =>
              \A p \in 1..Len(rows) : Written(buffer, rows)[p] = rows[p]
<1>1. \A p \in 1..NumData : p <= Len(rows) => rows[p] \in 1..n
  BY Sizes
<1>2. Written(buffer, rows) = [p \in 1..NumData |-> IF p <= Len(rows) THEN rows[p] ELSE buffer[p]]
  BY DEF Written
<1> QED BY <1>1, <1>2, Sizes

LEMMA EmptyType == \A n : Empty \in [1..NumData -> 1..n \cup {Stale}]
BY DEF Empty

\* The rows of a leaf are no more than the buffers hold.
LEMMA LeafRows ==
  ASSUME RowsInv
  PROVE  /\ RootRows \in Seq(1..num_data_) /\ Ascending(RootRows)
         /\ Len(RootRows) \in 0..num_data_
         /\ \A l \in Leaves :
              /\ leafRows[l] \in Seq(1..num_data_) /\ Ascending(leafRows[l])
              /\ Len(leafRows[l]) \in 0..num_data_
              /\ Len(leafRows[l]) = num_data_ => \A p \in 1..num_data_ : leafRows[l][p] = p
<1>0. num_data_ \in Nat
  BY Sizes DEF RowsInv, Shapes
<1>1. RootRows \in Seq(1..num_data_) /\ Ascending(RootRows)
  BY <1>0, IdentityFacts DEF RowsInv, Shapes, BagInOrder, RootRows
<1>2. ASSUME NEW l \in Leaves PROVE leafRows[l] \in Seq(1..num_data_) /\ Ascending(leafRows[l])
  <2>1. leafRows[l] \in Seq(1..num_data_)
    BY DEF RowsInv, Shapes
  <2>2. CASE pc = "idle"
    <3>1. leafRows[l] = <<>>
      BY <2>2 DEF RowsInv, TreeInv
    <3> QED BY <2>1, <3>1 DEF Ascending
  <2>3. CASE pc # "idle"
    BY <2>1, <2>3 DEF RowsInv, LeavesInOrder, Ascending
  <2> QED BY <2>1, <2>2, <2>3
<1> QED BY <1>0, <1>1, <1>2, AscendingAll

LEMMA InitInv == Init => IInv
<1> SUFFICES ASSUME Init PROVE IInv
  OBVIOUS
<1>1. Shapes
  <2>1. \A n \in Nat : <<>> \in Seq(1..n)
    OBVIOUS
  <2>2. bag \in Seq(1..num_data_) /\ leafRows \in [Leaves -> Seq(1..num_data_)]
    BY <2>1, Sizes DEF Init
  <2>3. /\ buf_indices_ \in [1..NumData -> 1..num_data_ \cup {Stale}]
        /\ buf_grads_ \in [1..NumData -> 1..num_data_ \cup {Stale}]
        /\ buf_hess_ \in [1..NumData -> 1..num_data_ \cup {Stale}]
    BY EmptyType DEF Init
  <2>4. DOMAIN hist = Children
    BY DEF Init, Unbuilt
  <2>5. num_data_ \in 1..NumData /\ numLeaves \in 1..MaxLeaves
    BY Sizes DEF Init
  <2> QED BY <2>2, <2>3, <2>4, <2>5, Sizes DEF Init, Shapes, Children
<1>2. BagInOrder
  BY DEF Init, BagInOrder, Ascending
<1>3. TreeInv
  BY Sizes DEF Init, TreeInv
<1>4. LeavesInOrder /\ StagedInTime /\ FlightInv /\ HistInv
  BY DEF Init, LeavesInOrder, StagedInTime, FlightInv, HistInv, HistogramsOfOwnRows
<1> QED BY <1>1, <1>2, <1>3, <1>4 DEF IInv, RowsInv

-----------------------------------------------------------------------------
(* Between two trees *)

LEMMA IdleFlight == IInv /\ pc \notin {"cpu", "wait"} => flight = Nothing
BY DEF IInv, FlightInv

LEMMA SetBagInv == IInv /\ SetBag => IInv'
<1> SUFFICES ASSUME IInv, SetBag PROVE IInv'
  OBVIOUS
<1>1. PICK rows \in (SUBSET (1..NumData)) \ {{}} :
        /\ bag' = InOrder(Identity(NumData), rows)
        /\ use_bagging_' = (Cardinality(rows) # num_data_)
  BY DEF SetBag
<1>2. /\ pc = "idle" /\ num_data_ = NumData
      /\ UNCHANGED <<setup, pc, num_data_, tree, search, buffers, flight, hist>>
  BY DEF SetBag
<1>3. /\ bag' \in Seq(1..NumData) /\ Ascending(bag') /\ Len(bag') = Cardinality(rows)
      /\ Cardinality(rows) \in Nat
  <2>1. NumData \in Nat
    BY Sizes
  <2>2. /\ Identity(NumData) \in Seq(1..NumData) /\ Len(Identity(NumData)) = NumData
        /\ Ascending(Identity(NumData))
    BY <2>1, IdentityFacts
  <2>3. rows \in SUBSET (1..Len(Identity(NumData)))
    BY <2>2
  <2> QED BY <1>1, <2>1, <2>2, <2>3, InOrderFacts, ZenonT(30)
<1>4. bag' # <<>>
  <2>1. IsFiniteSet(rows)
    <3>1. IsFiniteSet(1..NumData)
      BY Sizes, FS_Interval
    <3> QED BY <3>1, FS_Subset
  <2>2. Cardinality(rows) # 0
    BY <2>1, FS_EmptySet
  <2> QED BY <1>3, <2>2
<1>5. Features' = Features
  BY <1>2 DEF Features, Columns
<1>6. Shapes'
  BY <1>1, <1>2, <1>3, <1>5 DEF IInv, RowsInv, Shapes, tree, search, buffers
<1>7. BagInOrder'
  <2>1. use_bagging_' = (Len(bag') # NumData)
    BY <1>1, <1>2, <1>3
  <2> QED BY <1>2, <1>3, <1>4, <2>1 DEF BagInOrder, Ascending
<1>8. TreeInv'
  BY <1>2 DEF IInv, RowsInv, TreeInv, tree
<1>9. pc' = "idle" /\ flight' = Nothing
  BY <1>2, IdleFlight
<1>10. (LeavesInOrder /\ StagedInTime /\ FlightInv /\ HistInv)'
  BY <1>9 DEF LeavesInOrder, StagedInTime, FlightInv, HistInv, HistogramsOfOwnRows
<1> QED BY <1>6, <1>7, <1>8, <1>10 DEF IInv, RowsInv

\* SetCopy and ResetTrainingData: other data, and no bag but of all of it.
LEMMA NewDataInv ==
  ASSUME IInv, pc = "idle", NEW n \in 1..NumData, NewBuffers(n), use_bagging_' = use_bagging_
  \/ (use_bagging_' = FALSE /\ bag = <<>>), bag = <<>> \/ n = NumData
  PROVE  IInv'
<1>1. /\ num_data_' = n /\ buf_indices_' = Empty /\ buf_grads_' = Empty /\ buf_hess_' = Empty
      /\ UNCHANGED <<setup, pc, bag, tree, search, captured, flight, hist>>
  BY DEF NewBuffers, ForgetBuffers
<1>2. Features' = Features
  BY <1>1 DEF Features, Columns
<1>3. /\ n \in Nat /\ num_data_ \in 1..NumData /\ NumData \in Nat
      /\ bag \in Seq(1..num_data_) /\ leafRows \in [Leaves -> Seq(1..num_data_)]
  BY Sizes DEF IInv, RowsInv, Shapes
<1>4. bag' \in Seq(1..n)
  <2>1. CASE bag = <<>>
    BY <1>1, <1>3, <2>1
  <2>2. CASE n = NumData
    <3>1. 1..num_data_ \subseteq 1..n
      BY <1>3, <2>2
    <3> QED BY <1>1, <1>3, <3>1, SeqMonotonic
  <2> QED BY <2>1, <2>2
<1>5. leafRows' \in [Leaves -> Seq(1..n)]
  <2>1. \A l \in Leaves : leafRows[l] = <<>>
    BY DEF IInv, RowsInv, TreeInv
  <2>2. <<>> \in Seq(1..n)
    OBVIOUS
  <2>3. leafRows' = leafRows
    BY <1>1 DEF tree
  <2> QED BY <1>3, <2>1, <2>2, <2>3
<1>6. Shapes'
  <2>1. /\ buf_indices_' \in [1..NumData -> 1..n \cup {Stale}]
        /\ buf_grads_' \in [1..NumData -> 1..n \cup {Stale}]
        /\ buf_hess_' \in [1..NumData -> 1..n \cup {Stale}]
    BY <1>1, EmptyType
  <2>2. use_bagging_' \in BOOLEAN
    BY DEF IInv, RowsInv, Shapes
  <2> QED BY <1>1, <1>2, <1>4, <1>5, <2>1, <2>2 DEF IInv, RowsInv, Shapes, tree, search
<1>7. BagInOrder'
  <2>1. bag' = bag /\ (bag # <<>> => num_data_' = NumData /\ use_bagging_' = use_bagging_)
    BY <1>1
  <2> QED BY <2>1 DEF IInv, RowsInv, BagInOrder, Ascending
<1>8. TreeInv'
  BY <1>1 DEF IInv, RowsInv, TreeInv, tree
<1>9. pc' = "idle" /\ flight' = Nothing
  BY <1>1, IdleFlight
<1>10. (LeavesInOrder /\ StagedInTime /\ FlightInv /\ HistInv)'
  BY <1>9 DEF LeavesInOrder, StagedInTime, FlightInv, HistInv, HistogramsOfOwnRows
<1> QED BY <1>6, <1>7, <1>8, <1>10 DEF IInv, RowsInv

LEMMA SetCopyInv == IInv /\ SetCopy => IInv'
<1> SUFFICES ASSUME IInv, SetCopy PROVE IInv'
  OBVIOUS
<1>1. PICK n \in 1..NumData : NewBuffers(n)
  BY DEF SetCopy
<1>2. pc = "idle" /\ bag = <<>> /\ use_bagging_' = FALSE
  BY DEF SetCopy
<1> QED BY <1>1, <1>2, NewDataInv

LEMMA ResetTrainingDataInv == IInv /\ ResetTrainingData => IInv'
<1> SUFFICES ASSUME IInv, ResetTrainingData PROVE IInv'
  OBVIOUS
<1>1. pc = "idle" /\ NewBuffers(NumData) /\ use_bagging_' = use_bagging_
  BY DEF ResetTrainingData
<1>2. NumData \in 1..NumData
  BY Sizes
<1> QED BY <1>1, <1>2, NewDataInv

-----------------------------------------------------------------------------
(* What the steps of a search leave alone *)

\* The rows of the leaves decide which of two leaves is the smaller one and
\* whether it is worth a dispatch.
LEMMA SameTree ==
  ASSUME UNCHANGED <<setup, num_data_, bag, tree>>
  PROVE  /\ Columns' = Columns /\ Features' = Features /\ RootRows' = RootRows
         /\ SmallerLeaf' = SmallerLeaf /\ LargerLeaf' = LargerLeaf
         /\ \A c : LeafOf(c)' = LeafOf(c)
         /\ \A k, S : ShouldUseMetal(k, S)' = ShouldUseMetal(k, S)
         /\ \A k : UseIndices(k)' = UseIndices(k)
         /\ \A k : Count(k)' = Count(k)
         /\ leafRows' = leafRows /\ left' = left /\ right' = right /\ numLeaves' = numLeaves
         /\ treeFeatures' = treeFeatures
<1>1. /\ leafRows' = leafRows /\ left' = left /\ right' = right /\ numLeaves' = numLeaves
      /\ treeFeatures' = treeFeatures /\ setup' = setup /\ num_data_' = num_data_ /\ bag' = bag
  BY DEF tree
<1>2. Columns' = Columns /\ Features' = Features /\ RootRows' = RootRows
  BY <1>1 DEF Columns, Features, RootRows, Identity
<1>3. \A k : Count(k)' = Count(k)
  BY <1>1 DEF Count
<1>4. SmallerLeaf' = SmallerLeaf
  BY <1>1 DEF Count, SmallerLeaf
<1>5. LargerLeaf' = LargerLeaf
  BY <1>1, <1>4 DEF LargerLeaf
<1>6. \A c : LeafOf(c)' = LeafOf(c)
  BY <1>4, <1>5 DEF LeafOf
<1>7. \A k, S : ShouldUseMetal(k, S)' = ShouldUseMetal(k, S)
  BY <1>1 DEF ShouldUseMetal
<1>8. \A k : UseIndices(k)' = UseIndices(k)
  BY <1>1 DEF UseIndices
<1> QED BY <1>1, <1>2, <1>3, <1>4, <1>5, <1>6, <1>7, <1>8

\* The parts of Shapes that a search changes.
Searched ==
  /\ is_used \subseteq Features /\ use_subtract \in BOOLEAN /\ which \in Children
  /\ DOMAIN hist = Children
Buffered ==
  /\ captured \in BOOLEAN
  /\ buf_indices_ \in [1..NumData -> 1..num_data_ \cup {Stale}]
  /\ buf_grads_ \in [1..NumData -> 1..num_data_ \cup {Stale}]
  /\ buf_hess_ \in [1..NumData -> 1..num_data_ \cup {Stale}]

LEMMA RowsKept ==
  ASSUME RowsInv, UNCHANGED <<setup, num_data_, use_bagging_, bag, tree>>, pc # "idle",
         pc' \in {"find", "launch", "cpu", "wait", "split"}, Searched', Buffered'
  PROVE  RowsInv'
<1>0. /\ leafRows' = leafRows /\ left' = left /\ right' = right /\ numLeaves' = numLeaves
      /\ treeFeatures' = treeFeatures /\ Features' = Features /\ RootRows' = RootRows
      /\ setup' = setup /\ num_data_' = num_data_ /\ bag' = bag /\ use_bagging_' = use_bagging_
  BY SameTree
<1>1. Shapes'
  BY <1>0 DEF RowsInv, Shapes, Searched, Buffered
<1>2. BagInOrder'
  BY <1>0 DEF RowsInv, BagInOrder, Ascending
<1>3. TreeInv'
  BY <1>0 DEF RowsInv, TreeInv
<1>4. LeavesInOrder'
  BY <1>0 DEF RowsInv, LeavesInOrder
<1> QED BY <1>1, <1>2, <1>3, <1>4 DEF RowsInv

LEMMA Parts == RowsInv => Searched /\ Buffered
BY DEF RowsInv, Shapes, Searched, Buffered

\* Steps that change no buffer keep what is staged.
LEMMA StagedKept ==
  ASSUME UNCHANGED <<setup, num_data_, tree, buffers>>
  PROVE  \A l : Staged(leafRows[l]) => Staged(leafRows[l])'
<1>1. leafRows' = leafRows /\ buf_indices_' = buf_indices_ /\ buf_grads_' = buf_grads_
      /\ buf_hess_' = buf_hess_ /\ captured' = captured
  BY DEF tree, buffers
<1> QED BY <1>1 DEF Staged

\* Staging a leaf makes it ready for a dispatch.
LEMMA StageFacts ==
  ASSUME RowsInv, NEW l \in Leaves, Stage(leafRows[l]), UNCHANGED <<setup, num_data_, tree>>
  PROVE  Buffered' /\ Staged(leafRows[l])'
<1> DEFINE rows == leafRows[l]
<1>1. /\ leafRows' = leafRows
      /\ rows \in Seq(1..num_data_) /\ num_data_ \in 1..NumData /\ Len(rows) <= NumData
  <2>1. num_data_ \in 1..NumData
    BY DEF RowsInv, Shapes
  <2>2. rows \in Seq(1..num_data_) /\ Len(rows) \in 0..num_data_
    BY LeafRows
  <2> QED BY <2>1, <2>2, Sizes DEF tree
<1>2. \A b \in [1..NumData -> 1..num_data_ \cup {Stale}] :
        /\ Written(b, rows) \in [1..NumData -> 1..num_data_ \cup {Stale}]
        /\ \A p \in 1..Len(rows) : Written(b, rows)[p] = rows[p]
  BY <1>1, WrittenType
<1>3. /\ buf_indices_' = Written(buf_indices_, rows) /\ buf_grads_' = Written(buf_grads_, rows)
      /\ buf_hess_' = IF setup.constHess THEN buf_hess_ ELSE Written(buf_hess_, rows)
      /\ captured' = (captured \/ setup.constHess)
  BY DEF Stage, StageGradients
<1>4. Buffered
  BY Parts
<1>5. Buffered'
  BY <1>2, <1>3, <1>4 DEF Buffered
<1>6. Staged(leafRows[l])'
  <2>1. /\ \A p \in 1..Len(rows) : buf_indices_'[p] = rows[p]
        /\ \A p \in 1..Len(rows) : buf_grads_'[p] = rows[p]
        /\ setup.constHess \/ \A p \in 1..Len(rows) : buf_hess_'[p] = rows[p]
        /\ setup.constHess => captured'
    BY <1>2, <1>3, <1>4 DEF Buffered
  <2> QED BY <1>1, <2>1 DEF Staged
<1> QED BY <1>5, <1>6

\* The leaf whose histograms are built.
LEMMA LeafOfChild ==
  ASSUME RowsInv
  PROVE  /\ SmallerLeaf \in Leaves /\ LeafOf("smaller") = SmallerLeaf
         /\ right = None => SmallerLeaf = left
         /\ right # None => LeafOf("larger") \in Leaves
         /\ LargerNeeded => LeafOf("larger") \in Leaves
<1>1. left \in Leaves /\ right \in Leaves \cup {None}
  BY DEF RowsInv, Shapes
<1>2. LeafOf("smaller") = SmallerLeaf /\ LeafOf("larger") = LargerLeaf
  BY DEF LeafOf
<1> QED BY <1>1, <1>2 DEF SmallerLeaf, LargerLeaf, LargerNeeded

\* What the CPU builds of a child.
LEMMA BuiltFacts ==
  ASSUME NEW h, DOMAIN h = Children, NEW child \in Children, NEW features
  PROVE  /\ DOMAIN Built(h, child, features) = Children
         /\ \A f \in features \cap Features :
              Built(h, child, features)[child][f] = EntriesOf(leafRows[LeafOf(child)])
         /\ \A f \in Features \ features : Built(h, child, features)[child][f] = h[child][f]
         /\ \A c \in Children \ {child} : Built(h, child, features)[c] = h[c]
<1> DEFINE entries == EntriesOf(leafRows[LeafOf(child)])
<1> HIDE DEF entries
<1>1. Built(h, child, features) =
        [h EXCEPT ![child] = [f \in Features |-> IF f \in features THEN entries ELSE h[child][f]]]
  BY DEF Built, entries
<1> QED BY <1>1 DEF entries

-----------------------------------------------------------------------------
(* Starting a tree *)

\* Without a bag, or with one of all rows, the gradients of all rows are staged
\* as they lie; otherwise those of the bag with its rows.
LEMMA StageRootFacts ==
  ASSUME RowsInv, StageRoot, UNCHANGED <<setup, num_data_, bag>>
  PROVE  /\ Buffered'
         /\ ShouldUseMetal(Len(RootRows), Columns) => Staged(RootRows)'
<1> DEFINE n == num_data_
           rows == RootRows
           whole == ~use_bagging_ /\ ShouldUseMetal(num_data_, Columns)
           part == Len(RootRows) # num_data_ /\ ShouldUseMetal(Len(RootRows), Columns)
           all(b) == IF whole THEN Written(b, Identity(num_data_)) ELSE b
           staged(b) == IF part THEN Written(all(b), RootRows) ELSE all(b)
           Buffer == [1..NumData -> 1..num_data_ \cup {Stale}]
<1>1. /\ buf_indices_' = IF part THEN Written(buf_indices_, rows) ELSE buf_indices_
      /\ buf_grads_' = staged(buf_grads_)
      /\ buf_hess_' = IF setup.constHess THEN buf_hess_ ELSE staged(buf_hess_)
      /\ captured' = (captured \/ (setup.constHess /\ (whole \/ part)))
  BY DEF StageRoot
<1>2. n \in 1..NumData /\ n \in Nat /\ NumData \in Nat
  BY Sizes DEF RowsInv, Shapes
<1>3. rows \in Seq(1..n) /\ Len(rows) \in 0..n /\ Ascending(rows)
  BY LeafRows
<1>4. Len(rows) = n => ~use_bagging_ /\ \A p \in 1..n : rows[p] = p
  <2>1. Len(rows) = n => \A p \in 1..n : rows[p] = p
    BY <1>2, <1>3, AscendingAll
  <2>2. Len(rows) = n => ~use_bagging_
    BY DEF RowsInv, BagInOrder, RootRows
  <2> QED BY <2>1, <2>2
<1>5. /\ Identity(n) \in Seq(1..n) /\ Len(Identity(n)) = n
      /\ \A p \in 1..n : Identity(n)[p] = p
  BY <1>2, IdentityFacts
<1>6. \A b \in Buffer : /\ Written(b, Identity(n)) \in Buffer
                        /\ \A p \in 1..n : Written(b, Identity(n))[p] = p
  <2>1. Len(Identity(n)) <= NumData
    BY <1>2, <1>5
  <2>2. \A s \in Seq(1..n) : Len(s) <= NumData =>
          \A b \in Buffer : /\ Written(b, s) \in Buffer
                           /\ \A p \in 1..Len(s) : Written(b, s)[p] = s[p]
    BY <1>2, WrittenType
  <2> HIDE DEF Buffer
  <2>3. \A b \in Buffer : /\ Written(b, Identity(n)) \in Buffer
                          /\ \A p \in 1..Len(Identity(n)) : Written(b, Identity(n))[p] = Identity(n)[p]
    BY <1>5, <2>1, <2>2
  <2> QED BY <1>5, <2>3
<1>7. \A b \in Buffer : /\ Written(b, rows) \in Buffer
                        /\ \A p \in 1..Len(rows) : Written(b, rows)[p] = rows[p]
  BY <1>2, <1>3, WrittenType
<1>8. captured \in BOOLEAN /\ buf_indices_ \in Buffer /\ buf_grads_ \in Buffer /\ buf_hess_ \in Buffer
  BY Parts DEF Buffered
<1>9. \A b \in Buffer : staged(b) \in Buffer
  BY <1>6, <1>7
<1>10. Buffered'
  BY <1>1, <1>7, <1>8, <1>9 DEF Buffered
<1>11. ASSUME ShouldUseMetal(Len(rows), Columns)
       PROVE  /\ part => \A b \in Buffer : \A p \in 1..Len(rows) : staged(b)[p] = rows[p]
              /\ ~part => \A b \in Buffer : \A p \in 1..Len(rows) : staged(b)[p] = rows[p]
              /\ whole \/ part
  <2>1. CASE Len(rows) # n
    <3>1. part
      BY <1>11, <2>1
    <3>2. \A b \in Buffer : all(b) \in Buffer
      BY <1>6
    <3>3. \A b \in Buffer : \A p \in 1..Len(rows) : staged(b)[p] = rows[p]
      BY <1>7, <3>1, <3>2
    <3> QED BY <3>1, <3>3
  <2>2. CASE Len(rows) = n
    <3>1. whole /\ ~part
      BY <1>4, <1>11, <2>2
    <3>2. \A b \in Buffer : \A p \in 1..Len(rows) : staged(b)[p] = rows[p]
      BY <1>4, <1>6, <2>2, <3>1
    <3> QED BY <3>1, <3>2
  <2> QED BY <2>1, <2>2
<1>12. ASSUME ShouldUseMetal(Len(rows), Columns) PROVE Staged(RootRows)'
  <2>1. RootRows' = rows /\ setup' = setup /\ num_data_' = n
    BY DEF RootRows, Identity
  <2>2. \A b \in Buffer : \A p \in 1..Len(rows) : staged(b)[p] = rows[p]
    BY <1>11, <1>12
  <2>3. Len(rows) # n => \A p \in 1..Len(rows) : buf_indices_'[p] = rows[p]
    BY <1>1, <1>7, <1>8, <1>12
  <2>4. setup.constHess => captured'
    BY <1>1, <1>11, <1>12
  <2> HIDE DEF staged
  <2>5. /\ \A p \in 1..Len(rows) : buf_grads_'[p] = rows[p]
        /\ ~setup.constHess => \A p \in 1..Len(rows) : buf_hess_'[p] = rows[p]
    BY <1>1, <1>8, <2>2
  <2> HIDE DEF rows, n
  <2> QED BY <2>1, <2>3, <2>4, <2>5 DEF Staged
<1> QED BY <1>10, <1>12

LEMMA BeforeTrainInv == IInv /\ BeforeTrain => IInv'
<1> SUFFICES ASSUME IInv, BeforeTrain PROVE IInv'
  OBVIOUS
<1>1. /\ pc = "idle" /\ StageRoot /\ leafRows' = [leafRows EXCEPT ![0] = RootRows]
      /\ treeFeatures' \in (SUBSET Features) \ {{}} /\ pc' = "find"
      /\ setup' = setup /\ num_data_' = num_data_ /\ use_bagging_' = use_bagging_ /\ bag' = bag
      /\ numLeaves' = numLeaves /\ left' = left /\ right' = right
      /\ UNCHANGED <<search, flight, hist>>
  BY DEF BeforeTrain
<1>2. RowsInv /\ Shapes /\ BagInOrder /\ TreeInv
  BY DEF IInv, RowsInv
<1>3. Features' = Features /\ RootRows' = RootRows /\ Columns' = Columns
  BY <1>1 DEF Features, Columns, RootRows, Identity
<1>4. /\ RootRows \in Seq(1..num_data_) /\ Ascending(RootRows)
      /\ \A l \in Leaves \ {0} : leafRows'[l] = <<>>
      /\ leafRows'[0] = RootRows /\ leafRows' \in [Leaves -> Seq(1..num_data_)]
  <2>1. RootRows \in Seq(1..num_data_) /\ Ascending(RootRows)
    BY <1>2, LeafRows
  <2>2. leafRows \in [Leaves -> Seq(1..num_data_)] /\ 0 \in Leaves
    BY <1>2, Sizes DEF Shapes
  <2>3. \A l \in Leaves : leafRows[l] = <<>>
    BY <1>1, <1>2 DEF TreeInv
  <2> QED BY <1>1, <2>1, <2>2, <2>3
<1>5. right' = None /\ left' = 0 /\ numLeaves' = 1
  BY <1>1, <1>2 DEF TreeInv
<1>6. Buffered' /\ (ShouldUseMetal(Len(RootRows), Columns) => Staged(RootRows)')
  BY <1>1, <1>2, StageRootFacts
<1>7. Shapes'
  BY <1>1, <1>2, <1>3, <1>4, <1>6 DEF Shapes, Buffered, search
<1>8. BagInOrder'
  BY <1>1, <1>2 DEF BagInOrder, Ascending
<1>9. TreeInv'
  BY <1>1, <1>3, <1>4, <1>5, Sizes DEF TreeInv
<1>10. LeavesInOrder'
  <2>1. \A l \in Leaves : \A p, q \in DOMAIN leafRows'[l] :
          p < q => leafRows'[l][p] < leafRows'[l][q]
    BY <1>4 DEF Ascending
  <2>2. ToSet(<<>>) = {}
    BY DEF ToSet
  <2>3. UNION {ToSet(leafRows'[l]) : l \in Leaves} = ToSet(RootRows)
    BY <1>4, <2>2, Sizes
  <2>4. \A k, l \in Leaves : k # l => ToSet(leafRows'[k]) \cap ToSet(leafRows'[l]) = {}
    BY <1>4, <2>2
  <2> QED BY <1>3, <2>1, <2>3, <2>4 DEF LeavesInOrder
<1>11. StagedInTime'
  <2>1. leafRows'[left'] = RootRows' /\ Count(left)' = Len(RootRows)
    BY <1>3, <1>4, <1>5 DEF Count, None
  <2>2. ShouldUseMetal(Len(RootRows), Columns)' = ShouldUseMetal(Len(RootRows), Columns)
    BY <1>1, <1>3 DEF ShouldUseMetal
  <2>3. ShouldUseMetal(Count(left), Columns)' => Staged(leafRows[left])'
    <3>1. ShouldUseMetal(Count(left), Columns)' = ShouldUseMetal(Len(RootRows), Columns)'
      BY <1>3, <2>1
    <3>2. Staged(leafRows[left])' = Staged(RootRows)'
      BY <2>1 DEF Staged
    <3> QED BY <1>6, <2>2, <3>1, <3>2
  <2> QED BY <1>1, <2>3 DEF StagedInTime
<1>12. flight' = Nothing
  BY <1>1, IdleFlight
<1>13. FlightInv' /\ HistInv'
  BY <1>1, <1>12 DEF FlightInv, HistInv, HistogramsOfOwnRows
<1> QED BY <1>7, <1>8, <1>9, <1>10, <1>11, <1>13 DEF IInv, RowsInv

-----------------------------------------------------------------------------
(* Searching a leaf and its sibling *)

LEMMA StageLeafFacts ==
  ASSUME RowsInv, StageLeaf, UNCHANGED <<setup, num_data_, tree>>
  PROVE  /\ Buffered'
         /\ right # None /\ ShouldUseMetal(Count(SmallerLeaf), Columns) =>
              Staged(leafRows[SmallerLeaf])'
         /\ right = None => UNCHANGED buffers
<1>1. CASE right # None /\ ShouldUseMetal(Count(SmallerLeaf), Columns)
  <2>1. SmallerLeaf \in Leaves /\ Stage(leafRows[SmallerLeaf])
    BY <1>1, LeafOfChild DEF StageLeaf
  <2> DEFINE l == SmallerLeaf
  <2> HIDE DEF l
  <2>2. l \in Leaves /\ Stage(leafRows[l])
    BY <2>1 DEF l
  <2>3. Buffered'
    BY <2>2, StageFacts
  <2>4. SmallerLeaf' = SmallerLeaf /\ leafRows' = leafRows
    <3>1. leafRows' = leafRows /\ left' = left /\ right' = right
      BY DEF tree
    <3> QED BY <3>1 DEF SmallerLeaf, Count
  <2>5. Staged(leafRows[SmallerLeaf])'
    <3>1. \A k \in Leaves : Stage(leafRows[k]) => Staged(leafRows[k])'
      BY StageFacts
    <3>2. Stage(leafRows[SmallerLeaf]) => Staged(leafRows[SmallerLeaf])'
      BY <2>1, <2>4, <3>1 DEF Staged
    <3> QED BY <2>1, <3>2
  <2> QED BY <1>1, <2>3, <2>5
<1>2. CASE ~(right # None /\ ShouldUseMetal(Count(SmallerLeaf), Columns))
  <2>1. UNCHANGED buffers
    BY <1>2 DEF StageLeaf
  <2>2. Buffered'
    <3>1. buf_indices_' = buf_indices_ /\ buf_grads_' = buf_grads_ /\ buf_hess_' = buf_hess_
          /\ captured' = captured
      BY <2>1 DEF buffers
    <3> QED BY <3>1, Parts DEF Buffered
  <2> QED BY <1>2, <2>1, <2>2
<1> QED BY <1>1, <1>2

LEMMA BeforeFindBestSplitInv == IInv /\ BeforeFindBestSplit => IInv'
<1> SUFFICES ASSUME IInv, BeforeFindBestSplit PROVE IInv'
  OBVIOUS
<1>1. /\ pc = "find" /\ StageLeaf /\ use_subtract' \in BOOLEAN
      /\ is_used' \subseteq treeFeatures \cup setup.forced
      /\ which' = "smaller" /\ hist' = Unbuilt /\ pc' = "launch"
      /\ UNCHANGED <<setup, num_data_, use_bagging_, bag, tree, flight>>
  BY DEF BeforeFindBestSplit
<1>2. RowsInv
  BY DEF IInv
<1>3. Searched'
  <2>1. treeFeatures \subseteq Features /\ setup.forced \subseteq Features
    <3>1. setup \in Setups /\ treeFeatures \subseteq Features
      BY <1>2 DEF RowsInv, Shapes
    <3>2. IsSetup(setup)
      BY <3>1, MetalAssumption
    <3> QED BY <3>1, <3>2 DEF IsSetup, Features, Columns
  <2>2. Features' = Features
    BY <1>1, SameTree
  <2> QED BY <1>1, <2>1, <2>2 DEF Searched, Children, Unbuilt
<1>4. /\ Buffered'
      /\ right # None /\ ShouldUseMetal(Count(SmallerLeaf), Columns) =>
           Staged(leafRows[SmallerLeaf])'
      /\ right = None => UNCHANGED buffers
  BY <1>1, <1>2, StageLeafFacts
<1>5. RowsInv'
  BY <1>1, <1>2, <1>3, <1>4, RowsKept
<1>6. StagedInTime'
  <2>1. MaybeMetal("smaller")' => ShouldUseMetal(Count(SmallerLeaf), Columns)
    BY <1>1, SameTree DEF MaybeMetal, LeafOf
  <2>2. CASE right # None
    BY <1>1, <1>4, <2>1, <2>2 DEF StagedInTime
  <2>3. CASE right = None
    <3>1. SmallerLeaf = left /\ SmallerLeaf' = SmallerLeaf /\ left' = left
      BY <1>1, <1>2, <2>3, LeafOfChild, SameTree
    <3>2. ShouldUseMetal(Count(left), Columns) => Staged(leafRows[left])
      BY <1>1, <2>3 DEF IInv, StagedInTime
    <3>3. Staged(leafRows[left]) => Staged(leafRows[left])'
      <4>1. leafRows' = leafRows /\ left' = left /\ buf_indices_' = buf_indices_
            /\ buf_grads_' = buf_grads_ /\ buf_hess_' = buf_hess_ /\ captured' = captured
            /\ setup' = setup /\ num_data_' = num_data_
        BY <1>1, <1>4, <2>3 DEF tree, buffers
      <4> QED BY <4>1 DEF Staged
    <3>4. Staged(leafRows[SmallerLeaf])' = Staged(leafRows[left])'
      BY <3>1 DEF Staged
    <3> QED BY <1>1, <2>1, <3>1, <3>2, <3>3, <3>4 DEF StagedInTime
  <2> QED BY <2>2, <2>3
<1>7. flight' = Nothing
  BY <1>1, IdleFlight
<1>8. FlightInv' /\ HistInv'
  BY <1>1, <1>7 DEF FlightInv, HistInv, HistogramsOfOwnRows
<1> QED BY <1>5, <1>6, <1>8 DEF IInv

LEMMA SkipInv == IInv /\ Skip => IInv'
<1> SUFFICES ASSUME IInv, Skip PROVE IInv'
  OBVIOUS
<1>1. /\ pc = "find" /\ StageLeaf /\ pc' = "split" /\ is_used' = {}
      /\ UNCHANGED <<setup, num_data_, use_bagging_, bag, tree, use_subtract, which, flight, hist>>
  BY DEF Skip
<1>2. RowsInv
  BY DEF IInv
<1>3. Searched' /\ Buffered'
  BY <1>1, <1>2, Parts, StageLeafFacts DEF Searched
<1>4. RowsInv'
  BY <1>1, <1>2, <1>3, RowsKept
<1>5. flight' = Nothing
  BY <1>1, IdleFlight
<1>6. StagedInTime' /\ FlightInv' /\ HistInv'
  BY <1>1, <1>5 DEF StagedInTime, FlightInv, HistInv, HistogramsOfOwnRows
<1> QED BY <1>4, <1>6 DEF IInv

\* What of a search depends on the leaves, its features and the dispatch.
LEMMA SameSearch ==
  ASSUME UNCHANGED <<setup, num_data_, bag, tree, is_used, use_subtract>>
  PROVE  /\ LargerNeeded' = LargerNeeded /\ Masked' = Masked
         /\ \A c : MaybeMetal(c)' = MaybeMetal(c)
         /\ is_used' = is_used /\ treeFeatures' = treeFeatures
         /\ \A c : leafRows'[LeafOf(c)'] = leafRows[LeafOf(c)]
         /\ \A c, S : Has(c, S) /\ hist'[c] = hist[c] => Has(c, S)'
<1>1. /\ setup' = setup /\ leafRows' = leafRows /\ right' = right /\ treeFeatures' = treeFeatures
      /\ is_used' = is_used /\ use_subtract' = use_subtract /\ Columns' = Columns
      /\ \A c : LeafOf(c)' = LeafOf(c) /\ \A k : Count(k)' = Count(k)
      /\ \A k, S : ShouldUseMetal(k, S)' = ShouldUseMetal(k, S)
  BY SameTree
<1>2. LargerNeeded' = LargerNeeded
  BY <1>1 DEF LargerNeeded
<1>3. Masked' = Masked
  BY <1>1 DEF Masked
<1>4. \A c : leafRows'[LeafOf(c)'] = leafRows[LeafOf(c)]
  BY <1>1
<1>5. \A c : MaybeMetal(c)' = MaybeMetal(c)
  <2>1. \A c : Count(LeafOf(c))' = Count(LeafOf(c))
    BY <1>1 DEF Count
  <2> TAKE c
  <2>2. ShouldUseMetal(Count(LeafOf(c)), Columns)' = ShouldUseMetal(Count(LeafOf(c)), Columns)
    BY <1>1, <2>1 DEF ShouldUseMetal
  <2> QED BY <1>2, <2>2 DEF MaybeMetal
<1>6. \A c, S : Has(c, S) /\ hist'[c] = hist[c] => Has(c, S)'
  BY <1>1 DEF Has, EntriesOf
<1> QED BY <1>1, <1>2, <1>3, <1>4, <1>5, <1>6

LEMMA ConstructSeriallyInv == IInv /\ ConstructSerially => IInv'
<1> SUFFICES ASSUME IInv, ConstructSerially PROVE IInv'
  OBVIOUS
<1> DEFINE small == Built(hist, "smaller", is_used)
           both == Built(small, "larger", is_used)
<1>1. /\ pc = "launch" /\ which = "smaller" /\ pc' = "split"
      /\ hist' = IF LargerNeeded THEN both ELSE small
      /\ UNCHANGED <<setup, num_data_, use_bagging_, bag, tree, search, buffers, flight>>
  BY DEF ConstructSerially
<1>2. RowsInv
  BY DEF IInv
<1>3. is_used' = is_used /\ use_subtract' = use_subtract /\ which' = which
  BY <1>1 DEF search
<1>4. Searched /\ Buffered /\ DOMAIN hist = Children
  BY <1>2, Parts DEF Searched
<1>5. /\ DOMAIN small = Children
      /\ \A f \in is_used : small["smaller"][f] = EntriesOf(leafRows[LeafOf("smaller")])
  BY <1>4, BuiltFacts DEF Searched, Children
<1>6. /\ DOMAIN both = Children
      /\ \A f \in is_used : both["larger"][f] = EntriesOf(leafRows[LeafOf("larger")])
      /\ both["smaller"] = small["smaller"]
  <2> HIDE DEF small
  <2>1. DOMAIN small = Children /\ "larger" \in Children /\ "smaller" \in Children \ {"larger"}
        /\ is_used \subseteq Features
    BY <1>4, <1>5 DEF Searched, Children
  <2> QED BY <2>1, BuiltFacts
<1>7. Searched' /\ Buffered'
  <2>1. Features' = Features /\ num_data_' = num_data_
    BY <1>1, SameTree
  <2> QED BY <1>1, <1>3, <1>4, <1>5, <1>6, <2>1 DEF Searched, Buffered, buffers
<1>8. RowsInv'
  BY <1>1, <1>2, <1>7, RowsKept
<1>9. HistogramsOfOwnRows'
  <2>1. /\ LargerNeeded' = LargerNeeded
        /\ \A c : leafRows'[LeafOf(c)'] = leafRows[LeafOf(c)]
    BY <1>1, <1>3, SameSearch
  <2>2. \A f \in is_used : hist'["smaller"][f] = EntriesOf(leafRows[LeafOf("smaller")])
    BY <1>1, <1>5, <1>6
  <2>3. LargerNeeded =>
          \A f \in is_used : hist'["larger"][f] = EntriesOf(leafRows[LeafOf("larger")])
    BY <1>1, <1>6
  <2>4. \A c \in Children : \A f \in is_used :
          c = "smaller" \/ LargerNeeded => hist'[c][f] = EntriesOf(leafRows[LeafOf(c)])
    BY <2>2, <2>3 DEF Children
  <2>5. \A c : EntriesOf(leafRows[LeafOf(c)])' = EntriesOf(leafRows[LeafOf(c)])
    BY <2>1 DEF EntriesOf
  <2> QED BY <1>3, <2>1, <2>4, <2>5 DEF HistogramsOfOwnRows
<1>10. flight' = Nothing
  <2>1. flight' = flight /\ pc \notin {"cpu", "wait"}
    BY <1>1
  <2> QED BY <2>1, IdleFlight
<1>11. StagedInTime' /\ FlightInv' /\ HistInv'
  BY <1>1, <1>9, <1>10 DEF StagedInTime, FlightInv, HistInv
<1> QED BY <1>8, <1>11 DEF IInv

LEMMA ConstructInv == IInv /\ Construct => IInv'
<1> SUFFICES ASSUME IInv, Construct PROVE IInv'
  OBVIOUS
<1>1. /\ pc = "launch" /\ pc' = "cpu"
      /\ Launch \/ (~Launches /\ UNCHANGED <<buffers, flight>>)
      /\ UNCHANGED <<setup, num_data_, use_bagging_, bag, tree, search, hist>>
  BY DEF Construct
<1>2. RowsInv /\ which \in Children
  BY DEF IInv, RowsInv, Shapes
<1>3. is_used' = is_used /\ use_subtract' = use_subtract /\ which' = which /\ hist' = hist
  BY <1>1 DEF search
<1> DEFINE l == LeafOf(which)
<1>4. Launch => l \in Leaves
  BY <1>2, LeafOfChild DEF Launch, Launches, MaybeMetal, Children
<1>5. Launch => Buffered' /\ Staged(leafRows[l])'
  <2> SUFFICES ASSUME Launch PROVE Buffered' /\ Staged(leafRows[l])'
    OBVIOUS
  <2>0. LeafOf(which)' = LeafOf(which) /\ leafRows' = leafRows
    <3>1. \A c : LeafOf(c)' = LeafOf(c)
      BY <1>1, SameTree
    <3> QED BY <1>1, <1>3, <3>1 DEF tree
  <2>1. CASE which = "smaller"
    <3>1. UNCHANGED buffers
      BY <2>1 DEF Launch
    <3>2. Staged(leafRows[SmallerLeaf])
      BY <1>1, <2>1 DEF IInv, StagedInTime, Launch, Launches
    <3>3. l = SmallerLeaf
      BY <2>1 DEF LeafOf
    <3>4. buf_indices_' = buf_indices_ /\ buf_grads_' = buf_grads_ /\ buf_hess_' = buf_hess_
          /\ captured' = captured /\ setup' = setup /\ num_data_' = num_data_
      BY <1>1, <3>1 DEF buffers
    <3>5. Buffered'
      BY <1>2, <3>4, Parts DEF Buffered
    <3>6. Staged(leafRows[l])
      BY <3>2, <3>3
    <3> HIDE DEF l
    <3>7. Staged(leafRows[l]) => Staged(leafRows[l])'
      BY <2>0, <3>4 DEF Staged, l
    <3> QED BY <3>5, <3>6, <3>7
  <2>2. CASE which = "larger"
    <3>1. Stage(leafRows[l])
      BY <2>2 DEF Launch
    <3>2. \A k \in Leaves : Stage(leafRows[k]) => Buffered' /\ Staged(leafRows[k])'
      BY <1>1, <1>2, StageFacts
    <3>3. Stage(leafRows[l]) => Buffered' /\ Staged(leafRows[l])'
      BY <1>4, <2>0, <3>2 DEF Staged
    <3> QED BY <3>1, <3>3
  <2> QED BY <1>2, <2>1, <2>2 DEF Children
<1>6. Buffered'
  <2>1. CASE Launch
    BY <1>5, <2>1
  <2>2. CASE UNCHANGED <<buffers, flight>>
    BY <1>1, <1>2, <2>2, Parts DEF Buffered, buffers
  <2> QED BY <1>1, <2>1, <2>2
<1>7. Searched'
  <2>1. Features' = Features /\ Searched
    BY <1>1, <1>2, SameTree, Parts
  <2> QED BY <1>3, <2>1 DEF Searched
<1>8. RowsInv'
  BY <1>1, <1>2, <1>6, <1>7, RowsKept
<1>9. FlightInv'
  <2>1. CASE Launch
    <3>1. flight' = [child |-> which, rows |-> Len(leafRows[l]),
                     indices |-> UseIndices(Len(leafRows[l])), mask |-> Masked, out |-> Unknown]
      BY <2>1 DEF Launch
    <3>2. /\ Masked' = Masked /\ leafRows'[LeafOf(which)'] = leafRows[l]
          /\ \A k : UseIndices(k)' = UseIndices(k)
      <4>1. \A c : leafRows'[LeafOf(c)'] = leafRows[LeafOf(c)]
        BY <1>1, <1>3, SameSearch
      <4>2. LeafOf(which)' = LeafOf(which) /\ leafRows' = leafRows
        <5>1. \A c : LeafOf(c)' = LeafOf(c)
          BY <1>1, SameTree
        <5> QED BY <1>1, <1>3, <5>1 DEF tree
      <4> QED BY <1>1, <1>3, <4>2, SameSearch, SameTree
    <3> DEFINE rows == leafRows[l]
    <3>3. flight' = [child |-> which', rows |-> Len(rows), indices |-> UseIndices(Len(rows))',
                     mask |-> Masked', out |-> flight'.out] /\ flight'.out = Unknown
      <4>1. UseIndices(Len(rows))' = UseIndices(Len(rows))
        BY <3>2 DEF UseIndices
      <4> QED BY <1>3, <3>1, <3>2, <4>1
    <3>4. Staged(leafRows[l])' /\ pc' = "cpu"
      BY <1>1, <1>5, <2>1
    <3>5. Unknown' = Unknown
      BY DEF Unknown
    <3> QED BY <3>2, <3>3, <3>4, <3>5 DEF FlightInv, UseIndices
  <2>2. CASE UNCHANGED <<buffers, flight>>
    BY <1>1, <2>2, IdleFlight DEF FlightInv
  <2> QED BY <1>1, <2>1, <2>2
<1>10. HistInv'
  <2>1. which = "larger" => LargerNeeded /\ Has("smaller", is_used \cap treeFeatures)
    BY <1>1 DEF IInv, HistInv
  <2>2. /\ LargerNeeded' = LargerNeeded /\ treeFeatures' = treeFeatures
        /\ Has("smaller", is_used \cap treeFeatures) => Has("smaller", is_used \cap treeFeatures)'
    <3>1. \A c, S : Has(c, S) /\ hist'[c] = hist[c] => Has(c, S)'
      BY <1>1, <1>3, SameSearch
    <3>2. treeFeatures' = treeFeatures /\ LargerNeeded' = LargerNeeded
      BY <1>1, <1>3, SameSearch
    <3> QED BY <1>3, <3>1, <3>2 DEF Has
  <2> QED BY <1>1, <1>3, <2>1, <2>2 DEF HistInv, HistogramsOfOwnRows
<1> QED BY <1>1, <1>8, <1>9, <1>10 DEF IInv, StagedInTime

\* A dispatch that is in flight has not run, or holds what it summed.
LEMMA OutFacts == Unknown # <<>> /\ Nothing.out # Unknown /\ \A c \in Children : c # Nothing.child
<1>1. Len(Unknown) = 1 /\ Len(<<>>) = 0
  BY DEF Unknown
<1> QED BY <1>1 DEF Nothing, Children

LEMMA RunKernelInv == IInv /\ RunKernel => IInv'
<1> SUFFICES ASSUME IInv, RunKernel PROVE IInv'
  OBVIOUS
<1> DEFINE l == LeafOf(which)
           rows == leafRows[l]
           result == [p \in 1..flight.rows |->
                        [row  |-> IF flight.indices THEN buf_indices_[p] ELSE p,
                         grad |-> buf_grads_[p],
                         hess |-> IF ~setup.constHess THEN buf_hess_[p]
                                  ELSE IF ~captured THEN Stale
                                  ELSE IF flight.indices THEN buf_indices_[p] ELSE p]]
<1>1. /\ flight.out = Unknown /\ flight' = [flight EXCEPT !.out = result]
      /\ UNCHANGED <<setup, pc, num_data_, use_bagging_, bag, tree, search, buffers, hist>>
  BY DEF RunKernel
<1>2. RowsInv /\ which \in Children /\ flight # Nothing
  BY <1>1, OutFacts DEF IInv, RowsInv, Shapes
<1>3. is_used' = is_used /\ use_subtract' = use_subtract /\ which' = which /\ hist' = hist
  BY <1>1 DEF search
<1>4. /\ pc \in {"cpu", "wait"} /\ Staged(rows)
      /\ flight = [child |-> which, rows |-> Len(rows), indices |-> UseIndices(Len(rows)),
                   mask |-> Masked, out |-> flight.out]
  BY <1>2 DEF IInv, FlightInv
<1>5. l \in Leaves
  <2>1. which = "larger" => LargerNeeded
    BY <1>4 DEF IInv, HistInv
  <2> QED BY <1>2, <2>1, LeafOfChild DEF Children
<1>6. /\ Len(rows) \in Nat
      /\ Len(rows) = num_data_ => \A p \in 1..Len(rows) : rows[p] = p
  <2>1. num_data_ \in Nat
    BY <1>2, Sizes DEF RowsInv, Shapes
  <2> QED BY <1>2, <1>5, <2>1, LeafRows
<1>7. result = EntriesOf(rows)
  <2>1. flight.rows = Len(rows) /\ flight.indices = (Len(rows) # num_data_)
    BY <1>4 DEF UseIndices
  <2>2. ASSUME NEW p \in 1..Len(rows)
        PROVE  /\ (IF flight.indices THEN buf_indices_[p] ELSE p) = rows[p]
               /\ buf_grads_[p] = rows[p]
               /\ (IF ~setup.constHess THEN buf_hess_[p]
                   ELSE IF ~captured THEN Stale
                   ELSE IF flight.indices THEN buf_indices_[p] ELSE p) = rows[p]
    BY <1>4, <1>6, <2>1 DEF Staged
  <2>3. \A p \in 1..Len(rows) :
          result[p] = [row |-> rows[p], grad |-> rows[p], hess |-> rows[p]]
    BY <2>1, <2>2
  <2>4. result = [p \in 1..Len(rows) |-> result[p]]
    BY <2>1
  <2> HIDE DEF result, rows
  <2> QED BY <2>3, <2>4 DEF EntriesOf
<1> HIDE DEF result
<1>8. flight' = [child |-> which, rows |-> Len(rows), indices |-> UseIndices(Len(rows)),
                 mask |-> Masked, out |-> EntriesOf(rows)]
  BY <1>1, <1>4, <1>7
<1>9. /\ Masked' = Masked /\ leafRows' = leafRows /\ LeafOf(which)' = l
      /\ \A c : MaybeMetal(c)' = MaybeMetal(c)
      /\ LargerNeeded' = LargerNeeded /\ treeFeatures' = treeFeatures
      /\ SmallerLeaf' = SmallerLeaf
      /\ setup' = setup /\ num_data_' = num_data_
      /\ buf_indices_' = buf_indices_ /\ buf_grads_' = buf_grads_ /\ buf_hess_' = buf_hess_
      /\ captured' = captured /\ pc' = pc
  <2>1. \A c : LeafOf(c)' = LeafOf(c)
    BY <1>1, SameTree
  <2>2. LeafOf(which)' = l
    BY <1>3, <2>1 DEF LeafOf
  <2>3. /\ Masked' = Masked /\ \A c : MaybeMetal(c)' = MaybeMetal(c)
        /\ LargerNeeded' = LargerNeeded
    BY <1>1, <1>3, SameSearch
  <2>4. SmallerLeaf' = SmallerLeaf
    BY <1>1, SameTree
  <2> QED BY <1>1, <2>2, <2>3, <2>4 DEF tree, buffers
<1>10. RowsInv'
  <2>1. Searched' /\ Buffered'
    <3>1. Features' = Features
      BY <1>1, SameTree
    <3> QED BY <1>2, <1>3, <1>9, <3>1, Parts DEF Searched, Buffered
  <2> QED BY <1>1, <1>2, <1>4, <2>1, RowsKept
<1>11. FlightInv'
  <2>1. Staged(leafRows[LeafOf(which)])'
    <3>1. leafRows'[LeafOf(which)'] = rows
      BY <1>9
    <3> HIDE DEF rows
    <3> QED BY <1>4, <1>9, <3>1 DEF Staged
  <2>2. EntriesOf(leafRows[LeafOf(which)])' = EntriesOf(rows)
    BY <1>9 DEF EntriesOf
  <2>3. UseIndices(Len(leafRows[LeafOf(which)]))' = UseIndices(Len(rows))
    BY <1>9 DEF UseIndices
  <2>4. Len(leafRows[LeafOf(which)])' = Len(rows)
    BY <1>9
  <2>5. flight' = [child |-> which', rows |-> Len(leafRows[LeafOf(which)])',
                   indices |-> UseIndices(Len(leafRows[LeafOf(which)]))',
                   mask |-> Masked', out |-> flight'.out]
        /\ flight'.out = EntriesOf(leafRows[LeafOf(which)])'
    BY <1>3, <1>8, <1>9, <2>2, <2>3, <2>4
  <2> QED BY <1>4, <1>9, <2>1, <2>5 DEF FlightInv
<1>12. HistInv'
  <2>1. flight' # Nothing
    <3>1. flight'.child = which
      BY <1>8
    <3> QED BY <1>2, <3>1, OutFacts
  <2>2. CpuFeatures' = CpuFeatures
    BY <1>2, <1>3, <1>9, <2>1 DEF CpuFeatures
  <2>3. /\ \A c, S : Has(c, S) => Has(c, S)'
    BY <1>1, <1>3, SameSearch
  <2>4. which = "larger" => LargerNeeded /\ Has("smaller", is_used \cap treeFeatures)
    BY <1>4 DEF IInv, HistInv
  <2>5. pc = "wait" => Has(which, CpuFeatures \cap treeFeatures)
    BY DEF IInv, HistInv
  <2>6. Has("smaller", is_used \cap treeFeatures) => Has("smaller", is_used \cap treeFeatures)'
    BY <1>3, <1>9, <2>3 DEF Has
  <2>7. Has(which, CpuFeatures \cap treeFeatures) => Has(which, CpuFeatures \cap treeFeatures)'
    BY <1>3, <1>9, <2>2, <2>3 DEF Has
  <2> QED BY <1>3, <1>4, <1>9, <2>4, <2>5, <2>6, <2>7 DEF HistInv, HistogramsOfOwnRows
<1>13. StagedInTime'
  BY <1>4, <1>9 DEF StagedInTime
<1> QED BY <1>10, <1>11, <1>12, <1>13 DEF IInv

LEMMA ConstructOnCpuInv == IInv /\ ConstructOnCpu => IInv'
<1> SUFFICES ASSUME IInv, ConstructOnCpu PROVE IInv'
  OBVIOUS
<1>1. /\ pc = "cpu" /\ hist' = Built(hist, which, CpuFeatures) /\ pc' = "wait"
      /\ UNCHANGED <<setup, num_data_, use_bagging_, bag, tree, search, buffers, flight>>
  BY DEF ConstructOnCpu
<1>2. RowsInv /\ Searched /\ Buffered
  BY Parts DEF IInv
<1>3. is_used' = is_used /\ use_subtract' = use_subtract /\ which' = which
  BY <1>1 DEF search
<1>4. treeFeatures \subseteq Features /\ Features' = Features
  BY <1>1, <1>2, SameTree DEF RowsInv, Shapes
<1>5. /\ DOMAIN hist' = Children
      /\ \A f \in CpuFeatures \cap Features : hist'[which][f] = EntriesOf(leafRows[LeafOf(which)])
      /\ \A c \in Children \ {which} : hist'[c] = hist[c]
  BY <1>1, <1>2, BuiltFacts DEF Searched
<1>6. /\ Masked' = Masked /\ leafRows' = leafRows /\ setup' = setup /\ num_data_' = num_data_
      /\ flight' = flight /\ treeFeatures' = treeFeatures /\ LargerNeeded' = LargerNeeded
      /\ buf_indices_' = buf_indices_ /\ buf_grads_' = buf_grads_ /\ buf_hess_' = buf_hess_
      /\ captured' = captured /\ \A c : LeafOf(c)' = LeafOf(c)
      /\ LeafOf(which)' = LeafOf(which)
  <2>1. \A c : LeafOf(c)' = LeafOf(c)
    BY <1>1, SameTree
  <2>2. LeafOf(which)' = LeafOf(which)
    BY <1>3, <2>1 DEF LeafOf
  <2>3. Masked' = Masked /\ LargerNeeded' = LargerNeeded
    BY <1>1, <1>3, SameSearch
  <2> QED BY <1>1, <2>1, <2>2, <2>3 DEF tree, buffers
<1>7. RowsInv'
  <2>1. Searched' /\ Buffered'
    BY <1>2, <1>3, <1>4, <1>5, <1>6 DEF Searched, Buffered
  <2> QED BY <1>1, <1>2, <2>1, RowsKept
<1>8. FlightInv'
  <2>1. CASE flight = Nothing
    BY <1>6, <2>1 DEF FlightInv
  <2>2. CASE flight # Nothing
    <3> DEFINE rows == leafRows[LeafOf(which)]
    <3>1. /\ Staged(rows) /\ flight.out \in {Unknown, EntriesOf(rows)}
          /\ flight = [child |-> which, rows |-> Len(rows), indices |-> UseIndices(Len(rows)),
                       mask |-> Masked, out |-> flight.out]
      BY <2>2 DEF IInv, FlightInv
    <3>2. leafRows'[LeafOf(which)'] = rows
      BY <1>6
    <3> HIDE DEF rows
    <3>3. Staged(leafRows[LeafOf(which)])'
      BY <1>6, <3>1, <3>2 DEF Staged
    <3>4. EntriesOf(leafRows[LeafOf(which)])' = EntriesOf(rows)
      BY <3>2 DEF EntriesOf
    <3>5. UseIndices(Len(leafRows[LeafOf(which)]))' = UseIndices(Len(rows))
      BY <1>6, <3>2 DEF UseIndices
    <3>6. flight' = [child |-> which', rows |-> Len(leafRows[LeafOf(which)])',
                     indices |-> UseIndices(Len(leafRows[LeafOf(which)]))',
                     mask |-> Masked', out |-> flight'.out]
          /\ flight'.out \in {Unknown, EntriesOf(leafRows[LeafOf(which)])'}
      BY <1>3, <1>6, <3>1, <3>2, <3>4, <3>5
    <3>7. Unknown' = Unknown
      BY DEF Unknown
    <3> QED BY <1>1, <3>3, <3>6, <3>7 DEF FlightInv
  <2> QED BY <2>1, <2>2
<1>9. HistInv'
  <2>1. CpuFeatures' = CpuFeatures
    BY <1>3, <1>6 DEF CpuFeatures, Nothing
  <2>2. EntriesOf(leafRows[LeafOf(which)])' = EntriesOf(leafRows[LeafOf(which)])
    BY <1>6 DEF EntriesOf
  <2>3. Has(which, CpuFeatures \cap treeFeatures)'
    BY <1>3, <1>4, <1>5, <1>6, <2>1, <2>2 DEF Has
  <2>4. which = "larger" => LargerNeeded /\ Has("smaller", is_used \cap treeFeatures)
    BY <1>1 DEF IInv, HistInv
  <2>5. which = "larger" => hist'["smaller"] = hist["smaller"]
    BY <1>5 DEF Children
  <2>6. which = "larger" => Has("smaller", is_used \cap treeFeatures)'
    BY <1>3, <1>6, <2>4, <2>5 DEF Has, EntriesOf
  <2> QED BY <1>1, <1>3, <1>6, <2>3, <2>4, <2>6 DEF HistInv, HistogramsOfOwnRows
<1> QED BY <1>1, <1>7, <1>8, <1>9 DEF IInv, StagedInTime

\* Every feature is in a column that is summed on the device, or the CPU's.
LEMMA EveryFeature ==
  ASSUME NEW f \in Features \cap is_used \cap treeFeatures
  PROVE  f \in setup.cpu \/ f \in UNION Masked
<1>1. CASE f \in setup.cpu
  BY <1>1
<1>2. CASE f \in UNION Columns
  <2>1. PICK col \in setup.dense \cup setup.packed : f \in col
    BY <1>2 DEF Columns
  <2>2. col \in Masked
    BY <2>1 DEF Masked
  <2> QED BY <2>1, <2>2
<1> QED BY <1>1, <1>2 DEF Features

LEMMA WaitAndGetInv == IInv /\ WaitAndGet => IInv'
<1> SUFFICES ASSUME IInv, WaitAndGet PROVE IInv'
  OBVIOUS
<1> DEFINE entries == EntriesOf(leafRows[LeafOf(which)])
           device == [f \in Features |-> IF f \in UNION flight.mask THEN flight.out
                                         ELSE hist[which][f]]
<1>1. /\ pc = "wait" /\ flight.out # Unknown /\ flight' = Nothing
      /\ hist' = IF flight = Nothing THEN hist ELSE [hist EXCEPT ![which] = device]
      /\ IF which = "smaller" /\ LargerNeeded
         THEN which' = "larger" /\ pc' = "launch" ELSE which' = which /\ pc' = "split"
      /\ UNCHANGED <<setup, num_data_, use_bagging_, bag, tree, is_used, use_subtract, buffers>>
  BY DEF WaitAndGet
<1>2. RowsInv /\ Searched /\ Buffered /\ which \in Children
  BY Parts DEF IInv, Searched
<1>3. /\ leafRows' = leafRows /\ treeFeatures' = treeFeatures /\ is_used' = is_used
      /\ use_subtract' = use_subtract /\ LargerNeeded' = LargerNeeded
      /\ Features' = Features /\ \A c : LeafOf(c)' = LeafOf(c)
      /\ \A c : EntriesOf(leafRows[LeafOf(c)])' = EntriesOf(leafRows[LeafOf(c)])
  <2>1. leafRows' = leafRows /\ Features' = Features /\ \A c : LeafOf(c)' = LeafOf(c)
    BY <1>1, SameTree
  <2>2. LargerNeeded' = LargerNeeded
    BY <1>1, SameSearch
  <2> QED BY <1>1, <2>1, <2>2 DEF tree, EntriesOf
<1>4. \A f \in CpuFeatures \cap treeFeatures : hist[which][f] = entries
  BY <1>1 DEF IInv, HistInv, Has
<1>5. is_used \subseteq Features /\ DOMAIN hist = Children
  BY <1>2 DEF Searched
<1>6. flight # Nothing => flight.mask = Masked /\ flight.out = entries
  <2>1. flight # Nothing => flight.mask = Masked
    BY DEF IInv, FlightInv
  <2>2. flight # Nothing => flight.out = entries
    BY <1>1 DEF IInv, FlightInv
  <2> QED BY <2>1, <2>2
<1> HIDE DEF entries
<1>7. /\ DOMAIN hist' = Children
      /\ \A f \in is_used \cap treeFeatures : hist'[which][f] = entries
      /\ \A c \in Children \ {which} : hist'[c] = hist[c]
  <2>1. CASE flight = Nothing
    <3>1. is_used \cap treeFeatures \subseteq CpuFeatures
      BY <2>1 DEF CpuFeatures
    <3> QED BY <1>1, <1>4, <1>5, <2>1, <3>1
  <2>2. CASE flight # Nothing
    <3>1. hist' = [hist EXCEPT ![which] = device]
      BY <1>1, <2>2
    <3>2. ASSUME NEW f \in is_used \cap treeFeatures PROVE device[f] = entries
      <4>1. f \in Features
        BY <1>5
      <4>2. CASE f \in UNION Masked
        BY <1>6, <2>2, <4>1, <4>2
      <4>3. CASE f \notin UNION Masked
        <5>1. f \in setup.cpu
          BY <4>1, <4>3, EveryFeature
        <5>2. f \in CpuFeatures
          BY <2>2, <5>1 DEF CpuFeatures
        <5> QED BY <1>4, <1>6, <2>2, <4>1, <4>3, <5>2
      <4> QED BY <4>2, <4>3
    <3> HIDE DEF device
    <3> QED BY <1>2, <1>5, <3>1, <3>2
  <2> QED BY <2>1, <2>2
<1>8. RowsInv'
  <2>1. Searched' /\ Buffered'
    BY <1>1, <1>2, <1>3, <1>7 DEF Searched, Buffered, Children, buffers
  <2> QED BY <1>1, <1>2, <2>1, RowsKept
<1>9. \A f \in is_used \cap treeFeatures : hist'[which][f] = EntriesOf(leafRows[LeafOf(which)])
  BY <1>7 DEF entries
<1>10. which = "larger" =>
         LargerNeeded /\ \A f \in is_used \cap treeFeatures :
                           hist'["smaller"][f] = EntriesOf(leafRows[LeafOf("smaller")])
  <2>1. which = "larger" => LargerNeeded /\ Has("smaller", is_used \cap treeFeatures)
    BY <1>1 DEF IInv, HistInv
  <2> QED BY <1>7, <2>1 DEF Has, Children
<1>11. HistInv'
  <2>1. CASE which = "smaller" /\ LargerNeeded
    <3>1. \A f \in is_used \cap treeFeatures :
            hist'["smaller"][f] = EntriesOf(leafRows[LeafOf("smaller")])
      BY <1>9, <2>1
    <3>2. Has("smaller", is_used \cap treeFeatures)'
      BY <1>3, <3>1 DEF Has
    <3>3. which' = "larger" /\ pc' = "launch"
      BY <1>1, <2>1
    <3> QED BY <1>3, <2>1, <3>2, <3>3 DEF HistInv, HistogramsOfOwnRows
  <2>2. CASE ~(which = "smaller" /\ LargerNeeded)
    <3>1. pc' = "split"
      BY <1>1, <2>2
    <3>2. ASSUME NEW c \in Children, c = "smaller" \/ LargerNeeded
          PROVE  \A f \in is_used \cap treeFeatures :
                   hist'[c][f] = EntriesOf(leafRows[LeafOf(c)])
      BY <1>2, <1>9, <1>10, <2>2, <3>2 DEF Children
    <3>3. HistogramsOfOwnRows'
      BY <1>3, <3>2 DEF HistogramsOfOwnRows
    <3> QED BY <3>1, <3>3 DEF HistInv
  <2> QED BY <2>1, <2>2
<1>12. FlightInv'
  BY <1>1 DEF FlightInv, Nothing
<1>13. StagedInTime'
  BY <1>1 DEF StagedInTime
<1> QED BY <1>8, <1>11, <1>12, <1>13 DEF IInv

-----------------------------------------------------------------------------
(* Partitioning a leaf *)

\* The partition moves rows within the buffers.
LEMMA ScatteredType ==
  ASSUME Buffered, NEW rows \in Seq(1..num_data_), NEW goesLeft
  PROVE  Scattered(rows, goesLeft) \in [1..NumData -> 1..num_data_ \cup {Stale}]
<1>1. DOMAIN buf_indices_ = 1..NumData
  BY DEF Buffered
<1>2. ASSUME NEW q \in 1..NumData
      PROVE  Scattered(rows, goesLeft)[q] \in 1..num_data_ \cup {Stale}
  <2>1. CASE \E p \in 1..Len(rows) : Target(rows, goesLeft, p) = q
    <3> DEFINE P(p) == Target(rows, goesLeft, p) = q
               at == CHOOSE p \in 1..Len(rows) : P(p)
    <3>1. at \in 1..Len(rows)
      <4>1. \E p \in 1..Len(rows) : P(p)
        BY <2>1
      <4> HIDE DEF P
      <4> QED BY <4>1
    <3>2. Scattered(rows, goesLeft)[q] = rows[at]
      BY <1>1, <2>1 DEF Scattered
    <3> HIDE DEF at
    <3>3. rows[at] \in 1..num_data_
      BY <3>1, ElementOfSeq
    <3> QED BY <3>2, <3>3
  <2>2. CASE ~\E p \in 1..Len(rows) : Target(rows, goesLeft, p) = q
    <3>1. Scattered(rows, goesLeft)[q] = buf_indices_[q]
      BY <1>1, <2>2 DEF Scattered
    <3> QED BY <3>1 DEF Buffered
  <2> QED BY <2>1, <2>2
<1>3. Scattered(rows, goesLeft) = [q \in 1..NumData |-> Scattered(rows, goesLeft)[q]]
  BY <1>1 DEF Scattered
<1> QED BY <1>2, <1>3

\* The two new leaves are the sides of the one that was split.
LEMMA PartitionedRows ==
  ASSUME RowsInv, NEW leaf \in Leaves, NEW f \in Features,
         NEW goesLeft \in SUBSET ToSet(leafRows[leaf]), PartitionLeaf(leaf, f, goesLeft)
  PROVE  /\ numLeaves \in Leaves /\ leaf # numLeaves /\ leaf \in Leaves
         /\ leafRows'[leaf] = Kept(leafRows[leaf], goesLeft)
         /\ leafRows'[numLeaves] = Kept(leafRows[leaf], ToSet(leafRows[leaf]) \ goesLeft)
         /\ \A l \in Leaves \ {leaf, numLeaves} : leafRows'[l] = leafRows[l]
         /\ DOMAIN leafRows' = Leaves
         /\ buf_indices_' \in [1..NumData -> 1..num_data_ \cup {Stale}]
<1> DEFINE rows == leafRows[leaf]
           n == Lefts(rows, goesLeft, 1..Len(rows))
           out == Output(rows, goesLeft, OnMetal(leaf, f))
<1>1. /\ leaf < numLeaves /\ numLeaves < MaxLeaves
      /\ buf_indices_' = IF OnMetal(leaf, f) THEN Scattered(rows, goesLeft) ELSE buf_indices_
      /\ leafRows' = [leafRows EXCEPT ![leaf] = SubSeq(out, 1, n),
                                      ![numLeaves] = SubSeq(out, n + 1, Len(rows))]
  BY DEF PartitionLeaf, Output
<1>2. /\ numLeaves \in Leaves /\ leaf # numLeaves /\ DOMAIN leafRows = Leaves
      /\ num_data_ \in 1..NumData /\ num_data_ \in Nat
  BY <1>1, Sizes DEF RowsInv, Shapes
<1>3. rows \in Seq(1..num_data_) /\ Len(rows) \in 0..num_data_ /\ Len(rows) <= NumData
  <2>1. rows \in Seq(1..num_data_) /\ Len(rows) \in 0..num_data_
    BY LeafRows
  <2> QED BY <1>2, <2>1, Sizes
<1>4. Buffered /\ OnMetal(leaf, f) \in BOOLEAN
  BY Parts DEF OnMetal
<1>5. /\ SubSeq(out, 1, n) = Kept(rows, goesLeft)
      /\ SubSeq(out, n + 1, Len(rows)) = Kept(rows, ToSet(rows) \ goesLeft)
  <2>1. DOMAIN buf_indices_ = 1..NumData
    BY <1>4 DEF Buffered
  <2> QED BY <1>2, <1>3, <1>4, <2>1, OutputSides
<1>6. buf_indices_' \in [1..NumData -> 1..num_data_ \cup {Stale}]
  <2>1. Scattered(rows, goesLeft) \in [1..NumData -> 1..num_data_ \cup {Stale}]
    BY <1>3, <1>4, ScatteredType
  <2> QED BY <1>1, <1>4, <2>1 DEF Buffered
<1> HIDE DEF out, n
<1> QED BY <1>1, <1>2, <1>5, <1>6

LEMMA PartitionLeafInv ==
  ASSUME IInv, NEW leaf \in Leaves, NEW f \in Features,
         NEW goesLeft \in SUBSET ToSet(leafRows[leaf]), PartitionLeaf(leaf, f, goesLeft)
  PROVE  IInv'
<1> DEFINE rows == leafRows[leaf]
           others == ToSet(rows) \ goesLeft
<1>1. /\ pc = "split" /\ numLeaves < MaxLeaves /\ leaf < numLeaves
      /\ numLeaves' = numLeaves + 1 /\ left' = leaf /\ right' = numLeaves
      /\ is_used' = {} /\ use_subtract' = FALSE /\ which' = "smaller" /\ hist' = Unbuilt
      /\ pc' = IF numLeaves' < MaxLeaves THEN "find" ELSE "split"
      /\ setup' = setup /\ num_data_' = num_data_ /\ use_bagging_' = use_bagging_ /\ bag' = bag
      /\ treeFeatures' = treeFeatures /\ buf_grads_' = buf_grads_ /\ buf_hess_' = buf_hess_
      /\ captured' = captured /\ flight' = flight
  BY DEF PartitionLeaf
<1>2. RowsInv /\ Shapes /\ TreeInv /\ LeavesInOrder /\ BagInOrder /\ Buffered
  BY Parts DEF IInv, RowsInv
<1>3. /\ numLeaves \in Leaves /\ leaf # numLeaves /\ leaf \in Leaves
      /\ leafRows'[leaf] = Kept(rows, goesLeft)
      /\ leafRows'[numLeaves] = Kept(rows, others)
      /\ \A l \in Leaves \ {leaf, numLeaves} : leafRows'[l] = leafRows[l]
      /\ DOMAIN leafRows' = Leaves
      /\ buf_indices_' \in [1..NumData -> 1..num_data_ \cup {Stale}]
      /\ leafRows' = [l \in Leaves |-> leafRows'[l]]
  <2>1. leafRows' = [l \in DOMAIN leafRows' |-> leafRows'[l]]
    BY DEF PartitionLeaf
  <2> QED BY <1>2, <2>1, PartitionedRows
<1>4. num_data_ \in Nat /\ rows \in Seq(1..num_data_) /\ Ascending(rows)
  <2>1. num_data_ \in Nat
    BY <1>2, Sizes DEF Shapes
  <2> QED BY <1>2, <2>1, LeafRows
<1>5. /\ Kept(rows, goesLeft) \in Seq(1..num_data_) /\ Kept(rows, others) \in Seq(1..num_data_)
      /\ ToSet(Kept(rows, goesLeft)) = ToSet(rows) \cap goesLeft
      /\ ToSet(Kept(rows, others)) = ToSet(rows) \cap others
      /\ Ascending(Kept(rows, goesLeft)) /\ Ascending(Kept(rows, others))
  <2>1. \A S : /\ Kept(rows, S) \in Seq(1..num_data_) /\ ToSet(Kept(rows, S)) = ToSet(rows) \cap S
               /\ Ascending(Kept(rows, S))
    BY <1>4, KeptFacts
  <2> QED BY <2>1
<1>6. leafRows' \in [Leaves -> Seq(1..num_data_)]
  BY <1>2, <1>3, <1>5, ZenonT(30) DEF Shapes
<1>7. Features' = Features /\ RootRows' = RootRows
  BY <1>1 DEF Features, Columns, RootRows, Identity
<1>8. Shapes'
  <2>1. numLeaves' \in 1..MaxLeaves /\ left' \in Leaves /\ right' \in Leaves
    BY <1>1, <1>2, <1>3, Sizes DEF Shapes
  <2>2. treeFeatures' \subseteq Features /\ DOMAIN hist' = Children /\ which' \in Children
    BY <1>1, <1>2 DEF Shapes, Unbuilt, Children
  <2> QED BY <1>1, <1>2, <1>3, <1>6, <1>7, <2>1, <2>2 DEF Shapes, Buffered
<1>9. BagInOrder'
  BY <1>1, <1>2 DEF BagInOrder, Ascending
<1>10. TreeInv'
  <2>1. numLeaves \in Nat /\ leaf \in Nat /\ None \notin Leaves
    BY <1>3, Sizes
  <2>2. \A l \in Leaves : l >= numLeaves' => leafRows'[l] = <<>>
    BY <1>1, <1>2, <1>3, <2>1, Sizes DEF TreeInv
  <2> QED BY <1>1, <1>3, <2>1, <2>2 DEF TreeInv
<1>11. LeavesInOrder'
  <2>1. \A l \in Leaves : Ascending(leafRows'[l])
    <3>1. \A l \in Leaves : Ascending(leafRows[l])
      BY <1>1, <1>2 DEF LeavesInOrder, Ascending
    <3> QED BY <1>3, <1>5, <3>1
  <2>2. /\ \A l \in Leaves \ {leaf, numLeaves} : ToSet(leafRows'[l]) = ToSet(leafRows[l])
        /\ ToSet(leafRows'[leaf]) = ToSet(rows) \cap goesLeft
        /\ ToSet(leafRows'[numLeaves]) = ToSet(rows) \cap others
        /\ ToSet(leafRows[numLeaves]) = {}
        /\ goesLeft \subseteq ToSet(rows)
    <3>1. leafRows[numLeaves] = <<>>
      BY <1>2, <1>3, Sizes DEF TreeInv
    <3>2. ToSet(<<>>) = {}
      BY DEF ToSet
    <3> QED BY <1>3, <1>5, <3>1, <3>2
  <2> DEFINE Old(l) == ToSet(leafRows[l])
             New(l) == ToSet(leafRows'[l])
  <2>3. /\ UNION {Old(l) : l \in Leaves} = ToSet(RootRows)
        /\ \A k, l \in Leaves : k # l => Old(k) \cap Old(l) = {}
    BY <1>1, <1>2 DEF LeavesInOrder
  <2>4. /\ \A l \in Leaves \ {leaf, numLeaves} : New(l) = Old(l)
        /\ New(leaf) = goesLeft /\ New(numLeaves) = Old(leaf) \ goesLeft
        /\ Old(numLeaves) = {} /\ goesLeft \subseteq Old(leaf)
    BY <2>2
  <2> HIDE DEF Old, New
  <2>5. \A k, l \in Leaves : k # l => New(k) \cap New(l) = {}
    <3>1. \A l \in Leaves \ {leaf, numLeaves} : Old(l) \cap Old(leaf) = {}
      BY <1>3, <2>3
    <3>2. \A l \in Leaves \ {leaf, numLeaves} :
            New(l) \cap New(leaf) = {} /\ New(l) \cap New(numLeaves) = {}
      BY <2>4, <3>1
    <3>3. New(leaf) \cap New(numLeaves) = {}
      BY <2>4
    <3>4. \A k, l \in Leaves \ {leaf, numLeaves} : k # l => New(k) \cap New(l) = {}
      BY <2>3, <2>4
    <3> QED BY <3>2, <3>3, <3>4
  <2>6. UNION {New(l) : l \in Leaves} = UNION {Old(l) : l \in Leaves}
    <3>1. \A x : (\E l \in Leaves : x \in New(l)) <=> (\E l \in Leaves : x \in Old(l))
      BY <1>3, <2>4
    <3> QED BY <3>1
  <2>7. /\ UNION {ToSet(leafRows'[l]) : l \in Leaves} = ToSet(RootRows)
        /\ \A k, l \in Leaves : k # l => ToSet(leafRows'[k]) \cap ToSet(leafRows'[l]) = {}
    BY <2>3, <2>5, <2>6 DEF New
  <2> QED BY <1>7, <2>1, <2>7 DEF LeavesInOrder, Ascending
<1>12. flight' = Nothing
  BY <1>1, IdleFlight
<1>13. right' # None
  BY <1>1, <1>3, Sizes
<1>14. StagedInTime' /\ FlightInv' /\ HistInv'
  BY <1>1, <1>12, <1>13 DEF StagedInTime, FlightInv, HistInv, HistogramsOfOwnRows
<1> QED BY <1>8, <1>9, <1>10, <1>11, <1>14 DEF IInv, RowsInv

LEMMA EndTreeInv == IInv /\ EndTree => IInv'
<1> SUFFICES ASSUME IInv, EndTree PROVE IInv'
  OBVIOUS
<1>1. /\ pc = "split" /\ pc' = "idle" /\ leafRows' = [l \in Leaves |-> <<>>]
      /\ numLeaves' = 1 /\ left' = 0 /\ right' = None /\ treeFeatures' = {}
      /\ is_used' = {} /\ use_subtract' = FALSE /\ which' = "smaller"
      /\ buf_indices_' = Empty /\ buf_grads_' = Empty /\ buf_hess_' = Empty /\ hist' = Unbuilt
      /\ setup' = setup /\ num_data_' = num_data_ /\ use_bagging_' = use_bagging_ /\ bag' = bag
      /\ captured' = captured /\ flight' = flight
  BY DEF EndTree, ForgetBuffers
<1>2. Shapes /\ BagInOrder
  BY DEF IInv, RowsInv
<1>3. Shapes'
  <2>1. <<>> \in Seq(1..num_data_)
    OBVIOUS
  <2>2. leafRows' \in [Leaves -> Seq(1..num_data_)]
    BY <1>1, <2>1
  <2>3. Empty \in [1..NumData -> 1..num_data_ \cup {Stale}]
    BY EmptyType
  <2>4. DOMAIN hist' = Children /\ which' \in Children /\ numLeaves' \in 1..MaxLeaves
    BY <1>1, Sizes DEF Unbuilt, Children
  <2> QED BY <1>1, <1>2, <2>2, <2>3, <2>4, Sizes DEF Shapes, Features, Columns
<1>4. BagInOrder'
  BY <1>1, <1>2 DEF BagInOrder, Ascending
<1>5. TreeInv'
  BY <1>1, Sizes DEF TreeInv
<1>6. flight' = Nothing
  BY <1>1, IdleFlight
<1>7. (LeavesInOrder /\ StagedInTime /\ FlightInv /\ HistInv)'
  BY <1>1, <1>6 DEF LeavesInOrder, StagedInTime, FlightInv, HistInv, HistogramsOfOwnRows
<1> QED BY <1>3, <1>4, <1>5, <1>7 DEF IInv, RowsInv

-----------------------------------------------------------------------------
(* The theorems *)

LEMMA StutterInv == IInv /\ UNCHANGED vars => IInv'
<1> SUFFICES ASSUME IInv, UNCHANGED vars PROVE IInv'
  OBVIOUS
<1>1. UNCHANGED <<setup, pc, num_data_, use_bagging_, bag, leafRows, numLeaves, left, right,
                  treeFeatures, is_used, use_subtract, which, buf_indices_, buf_grads_,
                  buf_hess_, captured, flight, hist>>
  BY DEF vars, tree, search, buffers
<1>2. UNCHANGED <<setup, num_data_, use_bagging_, bag, tree, search, buffers>>
  BY <1>1 DEF tree, search, buffers
<1>3. RowsInv'
  <2>1. Features' = Features /\ RootRows' = RootRows
    BY <1>2, SameTree
  <2>2. Shapes'
    BY <1>1, <2>1 DEF IInv, RowsInv, Shapes
  <2>3. BagInOrder' /\ TreeInv'
    BY <1>1, <2>1 DEF IInv, RowsInv, BagInOrder, Ascending, TreeInv
  <2>4. LeavesInOrder'
    BY <1>1, <2>1 DEF IInv, RowsInv, LeavesInOrder
  <2> QED BY <2>2, <2>3, <2>4 DEF RowsInv
<1>4. /\ LargerNeeded' = LargerNeeded /\ Masked' = Masked /\ SmallerLeaf' = SmallerLeaf
      /\ \A c : MaybeMetal(c)' = MaybeMetal(c)
      /\ \A c : LeafOf(c)' = LeafOf(c)
      /\ Columns' = Columns /\ \A k : Count(k)' = Count(k)
      /\ \A k, S : ShouldUseMetal(k, S)' = ShouldUseMetal(k, S)
      /\ CpuFeatures' = CpuFeatures
  <2>1. is_used' = is_used /\ use_subtract' = use_subtract
    BY <1>1
  <2> QED BY <1>1, <1>2, <2>1, SameTree, SameSearch DEF CpuFeatures, Nothing
<1>5. LeafOf(which)' = LeafOf(which)
  BY <1>1, <1>4 DEF LeafOf
<1>6. StagedInTime'
  <2>1. Count(left)' = Count(left)
    BY <1>1, <1>4 DEF Count
  <2>2. ShouldUseMetal(Count(left), Columns)' = ShouldUseMetal(Count(left), Columns)
    BY <1>1, <1>4, <2>1 DEF ShouldUseMetal
  <2> QED BY <1>1, <1>4, <2>2 DEF IInv, StagedInTime, Staged
<1>7. FlightInv'
  BY <1>1, <1>4, <1>5 DEF IInv, FlightInv, Staged, UseIndices, EntriesOf, Unknown, Nothing
<1>8. HistInv'
  BY <1>1, <1>4, <1>5 DEF IInv, HistInv, Has, HistogramsOfOwnRows, EntriesOf
<1> QED BY <1>3, <1>6, <1>7, <1>8 DEF IInv

LEMMA NextInv == IInv /\ [Next]_vars => IInv'
<1> SUFFICES ASSUME IInv, [Next]_vars PROVE IInv'
  OBVIOUS
<1>1. CASE SetBag
  BY <1>1, SetBagInv
<1>2. CASE SetCopy
  BY <1>2, SetCopyInv
<1>3. CASE ResetTrainingData
  BY <1>3, ResetTrainingDataInv
<1>4. CASE BeforeTrain
  BY <1>4, BeforeTrainInv
<1>5. CASE BeforeFindBestSplit
  BY <1>5, BeforeFindBestSplitInv
<1>6. CASE Skip
  BY <1>6, SkipInv
<1>7. CASE ConstructSerially
  BY <1>7, ConstructSeriallyInv
<1>8. CASE Construct
  BY <1>8, ConstructInv
<1>9. CASE RunKernel
  BY <1>9, RunKernelInv
<1>10. CASE ConstructOnCpu
  BY <1>10, ConstructOnCpuInv
<1>11. CASE WaitAndGet
  BY <1>11, WaitAndGetInv
<1>12. ASSUME NEW leaf \in Leaves, NEW f \in Features,
              NEW goesLeft \in SUBSET ToSet(leafRows[leaf]), PartitionLeaf(leaf, f, goesLeft)
       PROVE  IInv'
  BY <1>12, PartitionLeafInv
<1>13. CASE EndTree
  BY <1>13, EndTreeInv
<1>14. CASE UNCHANGED vars
  BY <1>14, StutterInv
<1> QED BY <1>1, <1>2, <1>3, <1>4, <1>5, <1>6, <1>7, <1>8, <1>9, <1>10, <1>11, <1>12, <1>13,
           <1>14 DEF Next

\* The inductive invariant holds in every state the learner reaches, whatever
\* the layout of the columns and the two thresholds.
THEOREM MetalInvariant == Spec => []IInv
<1>1. Init => IInv
  BY InitInv
<1>2. IInv /\ [Next]_vars => IInv'
  BY NextInv
<1> QED BY <1>1, <1>2, PTL DEF Spec

\* The buffers, counts and features of the learner (metal_tree_learner.cpp) keep
\* their shapes: no dispatch is in flight but over the leaf being searched.
THEOREM TypeCorrect == Spec => []MetalTypeOK
<1>1. IInv => MetalTypeOK
  BY TypeOfShapes DEF IInv, RowsInv
<1> QED BY <1>1, MetalInvariant, PTL

\* A search judges a leaf by its own rows and gradients
\* (ConstructMetalHistogramsAsync, WaitAndGetHistograms): for every data set,
\* every layout of columns and every threshold, whenever the dispatch runs.
THEOREM OwnRows == Spec => []HistogramsOfOwnRows
<1>1. IInv => HistogramsOfOwnRows
  BY DEF IInv, HistInv
<1> QED BY <1>1, MetalInvariant, PTL

\* The leaves of a tree divide the rows of its root, each in ascending order
\* (TryPartitionMetal and DataPartition::Split), however splits are shared
\* between the device and the CPU.
THEOREM LeavesDivide == Spec => []LeavesInOrder
<1>1. IInv => LeavesInOrder
  BY DEF IInv, RowsInv
<1> QED BY <1>1, MetalInvariant, PTL

\* A partition of the device (metal_partition_scan, metal_partition_scatter)
\* makes of a leaf the two leaves the CPU's makes (data_partition.hpp): for
\* every block size, thread size and choice of the rows that go left.
THEOREM DevicePartitionsAlike ==
  ASSUME NEW n \in Nat, NEW rows \in Seq(1..n), Len(rows) <= NumData,
         NEW goesLeft, DOMAIN buf_indices_ = 1..NumData
  PROVE  LET c == Lefts(rows, goesLeft, 1..Len(rows))
             device == SubSeq(Scattered(rows, goesLeft), 1, Len(rows))
             cpu == Kept(rows, goesLeft) \o Kept(rows, ToSet(rows) \ goesLeft)
         IN  /\ SubSeq(device, 1, c) = SubSeq(cpu, 1, c)
             /\ SubSeq(device, c + 1, Len(rows)) = SubSeq(cpu, c + 1, Len(rows))
<1>1. /\ Output(rows, goesLeft, TRUE) = SubSeq(Scattered(rows, goesLeft), 1, Len(rows))
      /\ Output(rows, goesLeft, FALSE) = Kept(rows, goesLeft) \o Kept(rows, ToSet(rows) \ goesLeft)
  BY DEF Output
<1> DEFINE c == Lefts(rows, goesLeft, 1..Len(rows))
<1>2. \A d \in BOOLEAN :
        /\ SubSeq(Output(rows, goesLeft, d), 1, c) = Kept(rows, goesLeft)
        /\ SubSeq(Output(rows, goesLeft, d), c + 1, Len(rows)) = Kept(rows, ToSet(rows) \ goesLeft)
  BY OutputSides
<1> HIDE DEF c
<1>3. /\ SubSeq(Output(rows, goesLeft, TRUE), 1, c) = SubSeq(Output(rows, goesLeft, FALSE), 1, c)
      /\ SubSeq(Output(rows, goesLeft, TRUE), c + 1, Len(rows)) =
           SubSeq(Output(rows, goesLeft, FALSE), c + 1, Len(rows))
  BY <1>2
<1> QED BY <1>1, <1>3 DEF c

=============================================================================
