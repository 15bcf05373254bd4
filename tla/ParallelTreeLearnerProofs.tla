--------------------- MODULE ParallelTreeLearnerProofs ---------------------
(***************************************************************************)
(* Proofs about the parallel tree learners, for any number of machines,    *)
(* rows and features, any distribution of rows and any sequence of trees.  *)
(***************************************************************************)
EXTENDS ParallelTreeLearner, FiniteSetTheorems, NaturalsInduction, WellFoundedInduction, TLAPS

-----------------------------------------------------------------------------
(* Types *)

Heaps     == SUBSET (Rows \cup {Junk})
Stages    == {"idle", "sum", "search", "gather", "copy", "scatter", "judge", "best", "split"}
Searching == {"search", "gather", "copy", "scatter", "judge", "best"}
Made      == [leaf : Leaves, feature : Features]
LeafSums  == [leaf : Leaves \cup {None}, sum : Heaps]
Vote      == [feature : Features, gain : Nat]

\* A split of a feature that a search has found or given up.
Found  == [feature : Features, gain : Nat \cup {MinScore}, left : Heaps, right : Heaps,
           left_count : Nat, right_count : Nat]
Splits == Found \cup {NoSplit}

TypeInv ==
  /\ job \in Jobs
  /\ round \in [Machines -> Nat]
  /\ pc \in [Machines -> Stages]
  /\ tree \in [Machines -> Seq(Made)]
  /\ part \in [Machines -> [Leaves -> SUBSET Rows]]
  /\ counts \in [Machines -> [Leaves -> Nat]]
  /\ pair \in [Machines -> [Sides -> LeafSums]]
  /\ hist \in [Machines -> [Leaves -> [Features -> Heaps]]]
  /\ splittable \in [Machines -> [Leaves -> [Features -> BOOLEAN]]]
  /\ used \in [Machines -> SUBSET Features]
  /\ best \in [Machines -> [Leaves -> Splits]]

\* The tree has room, its leaves are those the splits have made, and the
\* leaves without a row yet have nothing that could be split.
TreeInv(m) ==
  /\ round[m] <= Len(job.plan)
  /\ \A i \in DOMAIN tree[m] : tree[m][i].leaf <= i - 1
  /\ pc[m] # "idle" => Len(tree[m]) < NumLeaves - 1
  /\ pc[m] # "idle" => \A s \in Sides : LeafOf(m, s) <= Len(tree[m])
  /\ pc[m] # "idle" => SmallerLeaf(m) # None
  /\ \A l \in Leaves : l > Len(tree[m]) => best[m][l].gain <= 0
  /\ pc[m] \in Searching \ {"search"} => ~TooSmall(m)

\* Votes, gathered votes, the layout and what was received are about sampled
\* features and about leaves the machine has.
ExchangeInv(m) ==
  /\ \A s \in Sides : Len(votes[m][s]) <= TopK
  /\ pc[m] = "gather" => \A s \in Sides : votes[m][s] \in Seq(Found)
  /\ pc[m] = "copy" => \A s \in Sides : votes[m][s] \in Seq(Vote)
  /\ pc[m] \in {"gather", "copy"} => job.mode = "voting"
  /\ pc[m] \in {"gather", "copy"} => \A s \in Sides : LeafOf(m, s) = None => votes[m][s] = <<>>
  /\ \A n \in DOMAIN layout[m] :
       /\ layout[m][n].side \in Sides /\ layout[m][n].feature \in Features
       /\ job.mode # "voting" => layout[m][n].side = "smaller"
       /\ pc[m] = "scatter" => LeafOf(m, layout[m][n].side) # None
  /\ \A x \in DOMAIN got[m] :
       /\ x \in Sides \X Features /\ got[m][x] \in Heaps
       /\ job.mode # "voting" => x[1] = "smaller"

ExchangeTypes ==
  /\ votes \in [Machines -> [Sides -> Seq(Found) \cup Seq(Vote)]]
  /\ DOMAIN layout = Machines /\ DOMAIN got = Machines

-----------------------------------------------------------------------------
(* What machines have in common *)

\* How many rows leaf l has, in a view v: one for every search decision.
Size(j, v, l) ==
  IF l = None THEN 0 ELSE IF j.mode = "feature" THEN Cardinality(v.sizes[l]) ELSE v.sizes[l]
LeftIn(v)  == IF v.tree = <<>> THEN 0 ELSE Last(v.tree).leaf
RightIn(v) == IF v.tree = <<>> THEN None ELSE Len(v.tree)
SmallIn(j, v) == Size(j, v, LeftIn(v)) < 2 * MinData /\ Size(j, v, RightIn(v)) < 2 * MinData

\* The splits of the leaves of a search under way are not known to all.
Masked(j, v) ==
  [v EXCEPT !.best = [l \in Leaves |->
     IF v.stage = "search" /\ ~SmallIn(j, v) /\ \E s \in Sides : v.leaf[s] = l
       THEN NoSplit ELSE v.best[l]]]

\* What a machine knows that every machine comes to know: not its rows, nor
\* its own histograms and splits, nor how far its search is.
Known(m) ==
  [round |-> round[m],
   stage |-> IF pc[m] \in Searching THEN "search" ELSE pc[m],
   tree  |-> tree[m],
   sizes |-> IF job.mode = "feature" THEN part[m] ELSE counts[m],
   leaf  |-> [s \in Sides |-> LeafOf(m, s)],
   best  |-> best[m]]
View(m) == Masked(job, Known(m))

Views(j) ==
  [round : Nat, stage : Stages, tree : Seq(Made),
   sizes : IF j.mode = "feature" THEN [Leaves -> SUBSET Rows] ELSE [Leaves -> Nat],
   leaf : [Sides -> Int], best : [Leaves -> Splits]]

\* Whether a machine can go on without the others.
Can(j, v) ==
  \/ v.stage = "idle" /\ v.round < Len(j.plan)
  \/ v.stage = "search" /\ SmallIn(j, v)
  \/ v.stage = "split"

\* What it then knows: BeforeTrain, SkipSearch, Finish and Split of a view.
Begun(j, v) ==
  [round |-> v.round + 1, stage |-> IF j.mode = "feature" THEN "search" ELSE "sum", tree |-> <<>>,
   sizes |-> IF j.mode = "feature" THEN [l \in Leaves |-> IF l = 0 THEN j.plan[v.round + 1].bag ELSE {}]
             ELSE v.sizes,
   leaf  |-> [s \in Sides |-> IF s = "smaller" THEN 0 ELSE None],
   best  |-> [l \in Leaves |-> NoSplit]]

Skipped(v) ==
  [v EXCEPT !.stage = "split",
            !.best = [l \in Leaves |-> IF l \in {LeftIn(v), RightIn(v)}
                                         THEN [@[l] EXCEPT !.gain = MinScore] ELSE @[l]]]

Finished(v) == [v EXCEPT !.stage = "idle"]

Choice(b) ==
  CHOOSE l \in Leaves : \A k \in Leaves :
    ~Better(b[k], b[l]) /\ (Better(b[l], b[k]) \/ l <= k)
Chosen(v) == v.best[Choice(v.best)]

Grown(j, v) ==
  LET leaf == Choice(v.best)
      s == v.best[leaf]
      new == Len(v.tree) + 1
      goes == IF j.mode = "feature" THEN v.sizes[leaf] \cap j.goLeft[s.feature] ELSE s.left_count
      stays == IF j.mode = "feature" THEN v.sizes[leaf] \ j.goLeft[s.feature] ELSE s.right_count
      fewer == IF j.mode = "feature" THEN Cardinality(goes) < Cardinality(stays) ELSE goes < stays
  IN  [round |-> v.round, stage |-> IF new = NumLeaves - 1 THEN "idle" ELSE "search",
       tree  |-> Append(v.tree, [leaf |-> leaf, feature |-> s.feature]),
       sizes |-> [v.sizes EXCEPT ![leaf] = goes, ![new] = stays],
       leaf  |-> [x \in Sides |-> IF (x = "smaller") = fewer THEN leaf ELSE new],
       best  |-> v.best]

After(j, v) ==
  Masked(j, IF v.stage = "idle" THEN Begun(j, v)
            ELSE IF v.stage = "search" THEN Skipped(v)
            ELSE IF Chosen(v).gain > 0 THEN Grown(j, v) ELSE Finished(v))

\* w comes after v: it is in every set that v is in and that is closed under
\* the steps a machine can take alone.
Reaches(j, v, w) ==
  \A P \in SUBSET Views(j) :
    v \in P /\ (\A x \in P : Can(j, x) => After(j, x) \in P) => w \in P

\* Of two machines one is where the other one gets on its own.
RunInv ==
  \A m, n \in Machines : Reaches(job, View(m), View(n)) \/ Reaches(job, View(n), View(m))

IInv == TypeInv /\ ExchangeTypes /\ (\A m \in Machines : TreeInv(m) /\ ExchangeInv(m)) /\ RunInv
-----------------------------------------------------------------------------
\* Every set of natural numbers has a least element.
LEMMA NatHasMin ==
  ASSUME NEW S, S \subseteq Nat, S # {}
  PROVE  \E m \in S : \A n \in S : m <= n
<1>1. OpToRel(<, Nat) = {ss \in Nat \X Nat : ss[1] < ss[2]}
  BY Zenon DEF OpToRel
<1> DEFINE Less == {ss \in Nat \X Nat : ss[1] < ss[2]}
<1>2. IsWellFoundedOn(Less, Nat)
  BY <1>1, NatLessThanWellFounded, Zenon
<1> HIDE DEF Less
<1>3. PICK m \in S : \A n \in S : ~(<<n, m>> \in Less)
  BY <1>2, WFMin, Zenon
<1>4. ASSUME NEW n \in S PROVE m <= n
  <2>1. n \in Nat /\ m \in Nat
    OBVIOUS
  <2>2. n < m => <<n, m>> \in Less
    BY <2>1 DEF Less
  <2> QED
    BY <1>3, <2>1, <2>2
<1> QED
  BY <1>4

\* A set of natural numbers with 0 that is closed under successor up to a bound.
LEMMA NatUpTo ==
  ASSUME NEW n \in Nat, NEW S, 0 \in S, \A k \in 0..n : k \in S /\ k < n => k + 1 \in S
  PROVE  \A k \in 0..n : k \in S
<1> SUFFICES ASSUME NEW k \in 0..n, k \notin S PROVE FALSE
  OBVIOUS
<1> DEFINE Out == {j \in 0..n : j \notin S}
<1>1. PICK m \in Out : \A j \in Out : m <= j
  <2>1. Out \subseteq Nat /\ Out # {}
    OBVIOUS
  <2> HIDE DEF Out
  <2> QED BY <2>1, NatHasMin
<1>2. m # 0 /\ m \in 0..n /\ m \notin S
  OBVIOUS
<1>3. m - 1 \in 0..n /\ m - 1 < n /\ (m - 1) + 1 = m
  BY <1>2
<1>4. m - 1 \in S
  BY <1>1, <1>3
<1> QED BY <1>2, <1>3, <1>4

\* R relates any two elements of S, one way or the other, and is transitive.
Orders(R, S) ==
  /\ \A x, y \in S : x # y => <<x, y>> \in R \/ <<y, x>> \in R
  /\ \A x, y, z \in S : <<x, y>> \in R /\ <<y, z>> \in R => <<x, z>> \in R

\* A finite set that R orders has a first element.
LEMMA HasFirst ==
  ASSUME NEW S, IsFiniteSet(S), S # {}, NEW R, Orders(R, S)
  PROVE  \E x \in S : \A y \in S : x = y \/ <<x, y>> \in R
<1> DEFINE n == Cardinality(S)
           First(T) == \E x \in T : \A y \in T : x = y \/ <<x, y>> \in R
           Good == {k \in 0..n : \A T \in SUBSET S : Cardinality(T) = k /\ T # {} => First(T)}
<1>1. n \in Nat
  BY FS_CardinalityType
<1>2. 0 \in Good
  <2>1. ASSUME NEW T \in SUBSET S, Cardinality(T) = 0 PROVE T = {}
    BY <2>1, FS_Subset, FS_EmptySet
  <2> QED BY <1>1, <2>1
<1>3. ASSUME NEW k \in 0..n, k \in Good, k < n PROVE k + 1 \in Good
  <2> SUFFICES ASSUME NEW T \in SUBSET S, Cardinality(T) = k + 1, T # {} PROVE First(T)
    BY <1>1, <1>3
  <2>1. PICK z : z \in T
    OBVIOUS
  <2> DEFINE U == T \ {z}
  <2>2. IsFiniteSet(T)
    BY FS_Subset
  <2>3. Cardinality(U) = k
    BY <2>1, <2>2, FS_RemoveElement, <1>3, SMTT(30)
  <2>4. CASE U = {}
    <3>1. T = {z}
      BY <2>1, <2>4
    <3> QED BY <3>1
  <2>5. CASE U # {}
    <3>1. First(U)
      BY <1>3, <2>3, <2>5
    <3>2. PICK x \in U : \A y \in U : x = y \/ <<x, y>> \in R
      BY <3>1
    <3>3. x # z /\ x \in S /\ z \in S
      BY <2>1
    <3>4. CASE <<x, z>> \in R
      BY <3>2, <3>4, <2>1
    <3>5. CASE <<z, x>> \in R
      <4>1. ASSUME NEW y \in U PROVE <<z, y>> \in R
        BY <3>2, <3>3, <3>5, <2>1 DEF Orders
      <4> QED BY <4>1, <2>1
    <3> QED BY <3>3, <3>4, <3>5 DEF Orders
  <2> QED BY <2>4, <2>5
<1> HIDE DEF Good, n
<1>4. \A k \in 0..n : k \in Good
  BY <1>1, <1>2, <1>3, NatUpTo
<1>5. n \in Good
  BY <1>1, <1>4
<1> QED BY <1>5 DEF Good, n

\* A finite set that R orders strictly can be listed in that order.
Lists(q, S, R) ==
  /\ q \in [1..Cardinality(S) -> S]
  /\ \A i, j \in 1..Cardinality(S) : i < j => <<q[i], q[j]>> \in R

LEMMA HasList ==
  ASSUME NEW S, IsFiniteSet(S), NEW R, Orders(R, S)
  PROVE  \E q : Lists(q, S, R)
<1> DEFINE n == Cardinality(S)
           Good == {k \in 0..n : \A T \in SUBSET S : Cardinality(T) = k => \E q : Lists(q, T, R)}
<1>1. n \in Nat
  BY FS_CardinalityType
<1>2. 0 \in Good
  <2> SUFFICES ASSUME NEW T \in SUBSET S, Cardinality(T) = 0 PROVE \E q : Lists(q, T, R)
    BY <1>1
  <2>1. \A i : i \notin 1..0
    OBVIOUS
  <2>2. Lists([i \in 1..0 |-> i], T, R)
    BY <2>1 DEF Lists
  <2> QED BY <2>2
<1>3. ASSUME NEW k \in 0..n, k \in Good, k < n PROVE k + 1 \in Good
  <2> SUFFICES ASSUME NEW T \in SUBSET S, Cardinality(T) = k + 1 PROVE \E q : Lists(q, T, R)
    BY <1>1, <1>3
  <2>1. IsFiniteSet(T)
    BY FS_Subset
  <2>2. T # {}
    BY FS_EmptySet
  <2>3. Orders(R, T)
    BY DEF Orders
  <2>4. PICK z \in T : \A y \in T : z = y \/ <<z, y>> \in R
    BY <2>1, <2>2, <2>3, HasFirst
  <2> DEFINE U == T \ {z}
  <2>5. Cardinality(U) = k /\ k \in Nat
    <3>1. k \in Nat
      BY <1>1
    <3>2. Cardinality(U) = Cardinality(T) - 1
      BY <2>1, FS_RemoveElement
    <3> QED BY <3>1, <3>2
  <2>6. PICK q : Lists(q, U, R)
    BY <1>3, <2>5
  <2>7. q \in [1..k -> U] /\ \A i, j \in 1..k : i < j => <<q[i], q[j]>> \in R
    BY <2>5, <2>6 DEF Lists
  <2> DEFINE t == [i \in 1..(k + 1) |-> IF i = 1 THEN z ELSE q[i - 1]]
  <2>8. \A i \in 1..(k + 1) : i # 1 => i - 1 \in 1..k /\ q[i - 1] \in T /\ <<z, q[i - 1]>> \in R
    <3>1. \A i \in 1..(k + 1) : i # 1 => i - 1 \in 1..k
      BY <2>5
    <3>2. \A i \in 1..k : q[i] \in T /\ <<z, q[i]>> \in R
      BY <2>7, <2>4
    <3> QED BY <3>1, <3>2
  <2>9. t \in [1..(k + 1) -> T]
    BY <2>8
  <2>10. ASSUME NEW i \in 1..(k + 1), NEW j \in 1..(k + 1), i < j PROVE <<t[i], t[j]>> \in R
    <3>1. j # 1 /\ j - 1 \in 1..k
      BY <2>5, <2>10
    <3>2. CASE i = 1
      BY <3>1, <3>2, <2>8
    <3>3. CASE i # 1
      <4>1. i - 1 \in 1..k /\ i - 1 < j - 1
        BY <3>3, <2>10, <2>5
      <4> QED BY <3>1, <3>3, <4>1, <2>7
    <3> QED BY <3>2, <3>3
  <2> HIDE DEF t
  <2> QED BY <2>9, <2>10 DEF Lists
<1> HIDE DEF Good, n
<1>4. \A k \in 0..n : k \in Good
  BY <1>1, <1>2, <1>3, NatUpTo
<1>5. n \in Good
  BY <1>1, <1>4
<1> QED BY <1>5 DEF Good, n

-----------------------------------------------------------------------------
(* Views *)

\* Reaches is reflexive, and what can be reached can be reached from there on.
LEMMA ReachesItself ==
  ASSUME NEW j, NEW v PROVE Reaches(j, v, v)
BY DEF Reaches

LEMMA ReachesOneMore ==
  ASSUME NEW j, NEW v, NEW w, Reaches(j, v, w), Can(j, w)
  PROVE  Reaches(j, v, After(j, w))
BY DEF Reaches

\* Who is elsewhere can go on, and what is reached is reached from there.
LEMMA ReachesOneLess ==
  ASSUME NEW j, NEW v \in Views(j), NEW w, Reaches(j, v, w), v # w
  PROVE  Can(j, v) /\ Reaches(j, After(j, v), w)
<1>1. Can(j, v)
  <2> SUFFICES ASSUME ~Can(j, v) PROVE FALSE
    OBVIOUS
  <2>1. w \in {v}
    BY DEF Reaches
  <2> QED BY <2>1
<1>2. ASSUME NEW P \in SUBSET Views(j), After(j, v) \in P, \A x \in P : Can(j, x) => After(j, x) \in P
      PROVE  w \in P
  <2> DEFINE Q == P \cup {v}
  <2>1. Q \in SUBSET Views(j) /\ v \in Q
    OBVIOUS
  <2>2. \A x \in Q : Can(j, x) => After(j, x) \in Q
    BY <1>2
  <2>3. w \in Q
    BY <2>1, <2>2 DEF Reaches
  <2> QED BY <2>3
<1> QED BY <1>1, <1>2 DEF Reaches

\* One machine goes on alone: they are still one behind the other.
LEMMA StillInLine ==
  ASSUME NEW j, NEW v \in Views(j), NEW w \in Views(j), Can(j, v),
         Reaches(j, v, w) \/ Reaches(j, w, v)
  PROVE  Reaches(j, After(j, v), w) \/ Reaches(j, w, After(j, v))
<1>1. CASE Reaches(j, w, v)
  BY <1>1, ReachesOneMore
<1>2. CASE Reaches(j, v, w) /\ v # w
  BY <1>2, ReachesOneLess
<1>3. CASE v = w
  BY <1>3, ReachesItself, ReachesOneMore
<1> QED BY <1>1, <1>2, <1>3

\* Two that can go no further are at the same place.
LEMMA MeetInOne ==
  ASSUME NEW j, NEW v \in Views(j), NEW w \in Views(j), ~Can(j, v), ~Can(j, w),
         Reaches(j, v, w) \/ Reaches(j, w, v)
  PROVE  v = w
BY ReachesOneLess


-----------------------------------------------------------------------------
(* Splits and their order *)

\* What Better compares.
Ranked(s) == s.gain \in Int /\ s.feature \in Nat \cup {None}

LEMMA BetterIsAnOrder ==
  /\ \A s : ~Better(s, s) \/ ~Ranked(s)
  /\ \A s, t : Ranked(s) /\ Ranked(t) /\ s.feature # t.feature => Better(s, t) \/ Better(t, s)
  /\ \A s, t : Ranked(s) /\ Ranked(t) => ~(Better(s, t) /\ Better(t, s))
  /\ \A s, t, u : Ranked(s) /\ Ranked(t) /\ Ranked(u) /\ Better(s, t) /\ Better(t, u) => Better(s, u)
  /\ \A s, t, u : Ranked(s) /\ Ranked(t) /\ Ranked(u) /\ ~Better(s, t) /\ ~Better(t, u) => ~Better(s, u)
BY DEF Better, Ranked, None

\* Only NoSplit is of no feature.
LEMMA SplitsAre ==
  ASSUME NEW s \in Splits
  PROVE  /\ Ranked(s) /\ s.gain \in Nat \cup {MinScore} /\ s.feature \in Features \cup {None}
         /\ s.left \in Heaps /\ s.right \in Heaps
         /\ s.left_count \in Nat /\ s.right_count \in Nat
         /\ s.feature = None => s = NoSplit
         /\ s.gain > 0 => s \in Found /\ s.feature \in Features
         /\ [s EXCEPT !.gain = MinScore] \in Splits
         /\ [s EXCEPT !.gain = MinScore].gain = MinScore
<1>1. Features \subseteq Nat
  BY ParallelAssumption
<1>2. CASE s \in Found
  BY <1>1, <1>2 DEF Found, Splits, Ranked, None, MinScore
<1>3. CASE s = NoSplit
  <2>1. [s EXCEPT !.gain = MinScore] = NoSplit
    BY <1>3 DEF NoSplit
  <2>2. /\ s.gain = MinScore /\ s.feature = None /\ s.left = {} /\ s.right = {}
        /\ s.left_count = 0 /\ s.right_count = 0 /\ NoSplit.gain = MinScore
    BY <1>3 DEF NoSplit
  <2> QED BY <1>3, <2>1, <2>2 DEF Splits, Ranked, None, MinScore, Heaps
<1> QED BY <1>2, <1>3 DEF Splits

\* The best of finitely many splits is one of them.
LEMMA BestOfIs ==
  ASSUME NEW ss \in SUBSET Splits, IsFiniteSet(ss), ss # {}
  PROVE  BestOf(ss) \in ss /\ \A t \in ss : ~Better(t, BestOf(ss))
<1> DEFINE R == {x \in ss \X ss : ~Better(x[2], x[1])}
<1>1. \A s \in ss : Ranked(s)
  BY SplitsAre
<1>2. \A s, t \in ss : <<s, t>> \in R <=> ~Better(t, s)
  OBVIOUS
<1> HIDE DEF R
<1>3. Orders(R, ss)
  BY <1>1, <1>2, BetterIsAnOrder DEF Orders
<1>4. PICK s \in ss : \A t \in ss : s = t \/ <<s, t>> \in R
  BY <1>3, HasFirst
<1>5. \A t \in ss : ~Better(t, s)
  BY <1>1, <1>2, <1>4, BetterIsAnOrder
<1> QED BY <1>5 DEF BestOf

\* The leaf to split next.
LEMMA ChoiceIs ==
  ASSUME NEW b \in [Leaves -> Splits]
  PROVE  Choice(b) \in Leaves /\ \A k \in Leaves : ~Better(b[k], b[Choice(b)])
<1> DEFINE Before(l, k) == ~Better(b[k], b[l]) /\ (Better(b[l], b[k]) \/ l <= k)
           R == {x \in Leaves \X Leaves : Before(x[1], x[2])}
<1>1. \A l \in Leaves : Ranked(b[l]) /\ l \in Nat
  <2>1. \A l \in Leaves : Ranked(b[l])
    BY SplitsAre
  <2>2. \A l \in Leaves : l \in Nat
    BY ParallelAssumption DEF Leaves
  <2> QED BY <2>1, <2>2
<1>2. \A l, k \in Leaves : <<l, k>> \in R <=> Before(l, k)
  OBVIOUS
<1> HIDE DEF R
<1>3. Orders(R, Leaves)
  <2>1. ASSUME NEW l \in Leaves, NEW k \in Leaves, l # k PROVE Before(l, k) \/ Before(k, l)
    BY <1>1, <2>1, BetterIsAnOrder
  <2>2. ASSUME NEW l \in Leaves, NEW k \in Leaves, NEW i \in Leaves, Before(l, k), Before(k, i)
        PROVE  Before(l, i)
    <3>1. l \in Nat /\ k \in Nat /\ i \in Nat
      BY <1>1
    <3>2. Ranked(b[l]) /\ Ranked(b[k]) /\ Ranked(b[i])
      BY <1>1
    <3>3. ~Better(b[i], b[l])
      BY <3>2, <2>2, BetterIsAnOrder
    <3>4. CASE Better(b[l], b[k])
      <4>1. CASE Better(b[k], b[i])
        BY <3>2, <3>4, <4>1, <3>3, BetterIsAnOrder
      <4>2. CASE ~Better(b[k], b[i])
        <5>1. Better(b[l], b[i])
          BY <3>2, <3>4, <4>2, <2>2 DEF Better, Ranked
        <5> QED BY <5>1, <3>3
      <4> QED BY <4>1, <4>2
    <3>5. CASE ~Better(b[l], b[k]) /\ Better(b[k], b[i])
      <4>1. Better(b[l], b[i])
        BY <3>2, <3>5, <2>2 DEF Better, Ranked
      <4> QED BY <4>1, <3>3
    <3>6. CASE l <= k /\ k <= i
      BY <3>1, <3>3, <3>6
    <3> QED BY <2>2, <3>4, <3>5, <3>6
  <2> QED BY <1>2, <2>1, <2>2 DEF Orders
<1>4. IsFiniteSet(Leaves) /\ Leaves # {}
  <2>1. NumLeaves - 1 \in Nat
    BY ParallelAssumption
  <2>2. 0 \in Leaves
    BY <2>1 DEF Leaves
  <2> QED BY <2>1, <2>2, FS_Interval DEF Leaves
<1>5. PICK l \in Leaves : \A k \in Leaves : l = k \/ <<l, k>> \in R
  BY <1>3, <1>4, HasFirst
<1>6. \A k \in Leaves : Before(l, k)
  <2>1. Before(l, l)
    BY <1>1, BetterIsAnOrder
  <2> QED BY <1>2, <1>5, <2>1
<1> QED BY <1>6 DEF Choice

\* The k best of splits of different features.
LEMMA MaxKIs ==
  ASSUME NEW ss, IsFiniteSet(ss), NEW k \in Nat, \A s \in ss : Ranked(s),
         \A s, t \in ss : s.feature = t.feature => s = t
  PROVE  MaxK(ss, k) \in Seq(ss) /\ Len(MaxK(ss, k)) <= k /\ (ss = {} => MaxK(ss, k) = <<>>)
<1> DEFINE R == {x \in ss \X ss : Better(x[1], x[2])}
           n == Cardinality(ss)
           q == BestFirst(ss)
<1>1. \A s, t \in ss : <<s, t>> \in R <=> Better(s, t)
  OBVIOUS
<1>2. n \in Nat
  BY FS_CardinalityType
<1> HIDE DEF R
<1>3. Orders(R, ss)
  <2>1. ASSUME NEW s \in ss, NEW t \in ss, s # t PROVE Better(s, t) \/ Better(t, s)
    BY <2>1, BetterIsAnOrder
  <2>2. ASSUME NEW s \in ss, NEW t \in ss, NEW u \in ss, Better(s, t), Better(t, u) PROVE Better(s, u)
    BY <2>2, BetterIsAnOrder
  <2> QED BY <1>1, <2>1, <2>2 DEF Orders
<1>4. PICK p : Lists(p, ss, R)
  BY <1>3, HasList
<1>5. p \in [1..n -> ss] /\ \A i, j \in 1..n : i < j => Better(p[i], p[j])
  BY <1>1, <1>4 DEF Lists
<1>6. q \in [1..n -> ss]
  BY <1>5 DEF BestFirst
<1> DEFINE c == Lower(n, k)
<1>7. c \in Nat /\ c <= n /\ c <= k
  BY <1>2 DEF Lower
<1>8. q \in Seq(ss) /\ Len(q) = n
  BY <1>2, <1>6
<1>9. MaxK(ss, k) = SubSeq(q, 1, c)
  BY DEF MaxK
<1> HIDE DEF q, c, n
<1>10. SubSeq(q, 1, c) \in Seq(ss) /\ Len(SubSeq(q, 1, c)) = c
  BY <1>2, <1>7, <1>8
<1>11. ASSUME ss = {} PROVE MaxK(ss, k) = <<>>
  <2>1. n = 0
    BY <1>11, FS_EmptySet DEF n
  <2>2. c = 0
    BY <2>1, <1>7
  <2> QED BY <2>2, <1>9, <1>10
<1> QED BY <1>7, <1>9, <1>10, <1>11

-----------------------------------------------------------------------------
(* Steps of a view *)

\* Masking hides splits and leaves the rest.
LEMMA MaskedIs ==
  ASSUME NEW j, NEW v \in Views(j)
  PROVE  /\ Masked(j, v) \in Views(j)
         /\ Masked(j, v).round = v.round /\ Masked(j, v).stage = v.stage
         /\ Masked(j, v).tree = v.tree /\ Masked(j, v).sizes = v.sizes
         /\ Masked(j, v).leaf = v.leaf
         /\ ~(v.stage = "search" /\ ~SmallIn(j, v)) => Masked(j, v) = v
<1> DEFINE hidden(l) == v.stage = "search" /\ ~SmallIn(j, v) /\ \E s \in Sides : v.leaf[s] = l
           b == [l \in Leaves |-> IF hidden(l) THEN NoSplit ELSE v.best[l]]
<1>1. Masked(j, v) = [v EXCEPT !.best = b]
  BY DEF Masked
<1>2. v.best \in [Leaves -> Splits] /\ NoSplit \in Splits
  BY DEF Views, Splits
<1>3. b \in [Leaves -> Splits]
  BY <1>2
<1>4. ASSUME ~(v.stage = "search" /\ ~SmallIn(j, v)) PROVE b = v.best
  <2>1. \A l \in Leaves : ~hidden(l)
    BY <1>4
  <2> HIDE DEF hidden
  <2> QED BY <1>2, <2>1
<1> HIDE DEF b
<1>5. [v EXCEPT !.best = b] \in Views(j)
  BY <1>3 DEF Views
<1>6. ASSUME b = v.best PROVE [v EXCEPT !.best = b] = v
  BY <1>6 DEF Views
<1> QED BY <1>1, <1>4, <1>5, <1>6 DEF Views

LEMMA BegunIs ==
  ASSUME NEW j, IsJob(j), NEW v \in Views(j), v.round < Len(j.plan)
  PROVE  Begun(j, v) \in Views(j) /\ Begun(j, v).round = v.round + 1
<1> DEFINE bag == j.plan[v.round + 1].bag
<1>1. v.round \in Nat
  BY DEF Views
<1>2. bag \in SUBSET Rows
  <2> DEFINE Plans == [bag : SUBSET Rows, used : SUBSET Features]
  <2>1. j.plan \in Seq(Plans)
    BY DEF IsJob
  <2> HIDE DEF Plans
  <2>2. v.round + 1 \in 1..Len(j.plan)
    BY <1>1, <2>1
  <2>3. j.plan[v.round + 1] \in Plans
    BY <2>1, <2>2
  <2> QED BY <2>3 DEF Plans
<1> HIDE DEF bag
<1>3. (IF j.mode = "feature" THEN [l \in Leaves |-> IF l = 0 THEN bag ELSE {}] ELSE v.sizes)
      \in IF j.mode = "feature" THEN [Leaves -> SUBSET Rows] ELSE [Leaves -> Nat]
  <2>1. v.sizes \in IF j.mode = "feature" THEN [Leaves -> SUBSET Rows] ELSE [Leaves -> Nat]
    BY DEF Views
  <2> QED BY <1>2, <2>1
<1>4. [l \in Leaves |-> NoSplit] \in [Leaves -> Splits]
  BY DEF Splits
<1>5. [s \in Sides |-> IF s = "smaller" THEN 0 ELSE None] \in [Sides -> Int]
  BY DEF None
<1>6. (IF j.mode = "feature" THEN "search" ELSE "sum") \in Stages
  BY DEF Stages
<1>7. <<>> \in Seq(Made)
  OBVIOUS
<1> QED BY <1>1, <1>3, <1>4, <1>5, <1>6, <1>7 DEF Begun, bag, Views

LEMMA SkippedIs ==
  ASSUME NEW j, NEW v \in Views(j)
  PROVE  Skipped(v) \in Views(j) /\ Skipped(v).round = v.round /\ Skipped(v).tree = v.tree
<1> DEFINE b == [l \in Leaves |-> IF l \in {LeftIn(v), RightIn(v)}
                                    THEN [v.best[l] EXCEPT !.gain = MinScore] ELSE v.best[l]]
<1>1. \A l \in Leaves : v.best[l] \in Splits
  BY DEF Views
<1>2. \A l \in Leaves : [v.best[l] EXCEPT !.gain = MinScore] \in Splits
  BY <1>1, SplitsAre
<1>3. b \in [Leaves -> Splits]
  BY <1>1, <1>2
<1>4. Skipped(v) = [v EXCEPT !.stage = "split", !.best = b]
  BY DEF Skipped
<1> HIDE DEF b
<1>5. "split" \in Stages
  BY DEF Stages
<1> QED BY <1>3, <1>4, <1>5 DEF Views

\* Rows and sums of rows are finite.
LEMMA Finite ==
  /\ \A s \in SUBSET Rows : IsFiniteSet(s) /\ Cardinality(s) \in Nat
  /\ \A h \in Heaps : IsFiniteSet(h) /\ Cardinality(h) \in Nat
<1>1. IsFiniteSet(Rows) /\ IsFiniteSet(Rows \cup {Junk})
  BY ParallelAssumption, FS_AddElement
<1>2. \A s \in SUBSET Rows : IsFiniteSet(s)
  BY <1>1, FS_Subset
<1>3. \A s \in SUBSET (Rows \cup {Junk}) : IsFiniteSet(s)
  BY <1>1, FS_Subset
<1> QED BY <1>2, <1>3, FS_CardinalityType DEF Heaps

LEMMA GrownIs ==
  ASSUME NEW j, NEW v \in Views(j), Chosen(v).gain > 0
  PROVE  /\ Grown(j, v) \in Views(j) /\ Grown(j, v).round = v.round
         /\ \E x \in Made : Grown(j, v).tree = Append(v.tree, x)
<1> DEFINE leaf == Choice(v.best)
           s == v.best[leaf]
           new == Len(v.tree) + 1
           goes == IF j.mode = "feature" THEN v.sizes[leaf] \cap j.goLeft[s.feature] ELSE s.left_count
           stays == IF j.mode = "feature" THEN v.sizes[leaf] \ j.goLeft[s.feature] ELSE s.right_count
           fewer == IF j.mode = "feature" THEN Cardinality(goes) < Cardinality(stays) ELSE goes < stays
           Values == IF j.mode = "feature" THEN SUBSET Rows ELSE Nat
<1>1. /\ v.best \in [Leaves -> Splits] /\ v.tree \in Seq(Made) /\ v.round \in Nat
      /\ v.sizes \in [Leaves -> Values]
  BY DEF Views
<1>2. leaf \in Leaves
  BY <1>1, ChoiceIs
<1>3. s \in Splits /\ s.gain > 0
  BY <1>1, <1>2 DEF Chosen
<1>4. s.feature \in Features /\ s.left_count \in Nat /\ s.right_count \in Nat
  BY <1>3, SplitsAre
<1>5. v.sizes[leaf] \in Values
  BY <1>1, <1>2
<1>6. goes \in Values /\ stays \in Values
  BY <1>4, <1>5
<1> HIDE DEF leaf
<1>7. new \in Int /\ leaf \in Int
  <2>1. leaf \in Int
    BY <1>2 DEF Leaves
  <2> QED BY <1>1, <2>1
<1> HIDE DEF goes, stays, new
<1>8. [v.sizes EXCEPT ![leaf] = goes, ![new] = stays] \in [Leaves -> Values]
  <2> HIDE DEF Values
  <2> QED BY <1>1, <1>6
<1>9. [x \in Sides |-> IF (x = "smaller") = fewer THEN leaf ELSE new] \in [Sides -> Int]
  BY <1>7
<1> DEFINE made == [leaf |-> leaf, feature |-> s.feature]
<1>10. made \in Made
  BY <1>2, <1>4 DEF Made
<1>11. Append(v.tree, made) \in Seq(Made)
  BY <1>1, <1>10
<1>12. (IF new = NumLeaves - 1 THEN "idle" ELSE "search") \in Stages
  BY DEF Stages
<1>13. Grown(j, v) =
        [round |-> v.round, stage |-> IF new = NumLeaves - 1 THEN "idle" ELSE "search",
         tree  |-> Append(v.tree, made),
         sizes |-> [v.sizes EXCEPT ![leaf] = goes, ![new] = stays],
         leaf  |-> [x \in Sides |-> IF (x = "smaller") = fewer THEN leaf ELSE new],
         best  |-> v.best]
  BY Zenon DEF Grown, leaf, goes, stays, new
<1> DEFINE sizes == [v.sizes EXCEPT ![leaf] = goes, ![new] = stays]
           both == [x \in Sides |-> IF (x = "smaller") = fewer THEN leaf ELSE new]
           stage == IF new = NumLeaves - 1 THEN "idle" ELSE "search"
           t == Append(v.tree, made)
<1>14. sizes \in IF j.mode = "feature" THEN [Leaves -> SUBSET Rows] ELSE [Leaves -> Nat]
  BY <1>8
<1> HIDE DEF made, fewer, sizes, both, stage, t, s
<1>15. [round |-> v.round, stage |-> stage, tree |-> t, sizes |-> sizes, leaf |-> both, best |-> v.best]
       \in Views(j)
  BY <1>1, <1>9, <1>11, <1>12, <1>14 DEF Views, both, stage, t
<1> QED BY <1>10, <1>13, <1>15 DEF sizes, both, stage, t

LEMMA FinishedIs ==
  ASSUME NEW j, NEW v \in Views(j)
  PROVE  Finished(v) \in Views(j) /\ Finished(v).round = v.round /\ Finished(v).tree = v.tree
BY DEF Finished, Views, Stages

\* A machine's tree only grows, until the next one is begun.
LEMMA AfterIs ==
  ASSUME NEW j, IsJob(j), NEW v \in Views(j), Can(j, v)
  PROVE  /\ After(j, v) \in Views(j)
         /\ \/ After(j, v).round > v.round
            \/ /\ After(j, v).round = v.round
               /\ After(j, v).tree = v.tree \/ \E x \in Made : After(j, v).tree = Append(v.tree, x)
<1>1. CASE v.stage = "idle"
  <2>1. v.round < Len(j.plan) /\ v.round \in Nat
    BY <1>1 DEF Can, Views
  <2>2. After(j, v) = Masked(j, Begun(j, v))
    BY <1>1 DEF After
  <2> QED BY <2>1, <2>2, BegunIs, MaskedIs
<1>2. CASE v.stage = "search"
  <2>1. After(j, v) = Masked(j, Skipped(v))
    BY <1>2 DEF After
  <2> QED BY <2>1, SkippedIs, MaskedIs
<1>3. CASE v.stage \notin {"idle", "search"} /\ Chosen(v).gain > 0
  <2>1. After(j, v) = Masked(j, Grown(j, v))
    BY <1>3 DEF After
  <2> QED BY <1>3, <2>1, GrownIs, MaskedIs
<1>4. CASE v.stage \notin {"idle", "search"} /\ ~(Chosen(v).gain > 0)
  <2>1. After(j, v) = Masked(j, Finished(v))
    BY <1>4 DEF After
  <2> QED BY <2>1, FinishedIs, MaskedIs
<1> QED BY <1>1, <1>2, <1>3, <1>4

\* Of two machines in one tree, who is behind has a part of the other's tree.
LEMMA ReachedTree ==
  ASSUME NEW j, IsJob(j), NEW v \in Views(j), NEW w \in Views(j), Reaches(j, v, w), v.round = w.round
  PROVE  IsPrefix(v.tree, w.tree)
<1> DEFINE Later(x) == x.round > v.round \/ (x.round = v.round /\ IsPrefix(v.tree, x.tree))
           P == {x \in Views(j) : Later(x)}
<1>1. \A x \in Views(j) : x.round \in Nat /\ x.tree \in Seq(Made)
  BY DEF Views
<1>2. v \in P
  BY <1>1 DEF IsPrefix
<1>3. ASSUME NEW x \in P, Can(j, x) PROVE After(j, x) \in P
  <2> DEFINE y == After(j, x)
  <2>1. x \in Views(j) /\ Later(x)
    OBVIOUS
  <2>2. /\ y \in Views(j)
        /\ y.round > x.round \/ (y.round = x.round /\ (y.tree = x.tree \/ \E z \in Made : y.tree = Append(x.tree, z)))
    BY <1>3, <2>1, AfterIs
  <2> HIDE DEF y
  <2>3. CASE y.round > x.round
    <3>1. y.round > v.round
      BY <1>1, <2>1, <2>2, <2>3
    <3> QED BY <2>2, <3>1 DEF y
  <2>4. CASE y.round = x.round /\ y.tree = x.tree
    BY <2>1, <2>2, <2>4 DEF y
  <2>5. CASE y.round = x.round /\ \E z \in Made : y.tree = Append(x.tree, z)
    <3>1. PICK z \in Made : y.tree = Append(x.tree, z)
      BY <2>5
    <3>2. CASE IsPrefix(v.tree, x.tree)
      <4>1. v.tree \in Seq(Made) /\ x.tree \in Seq(Made)
        BY <1>1, <2>1
      <4>2. IsPrefix(v.tree, Append(x.tree, z))
        BY <3>2, <4>1 DEF IsPrefix
      <4> QED BY <2>1, <2>2, <2>5, <3>1, <4>2 DEF y
    <3>3. CASE x.round > v.round
      BY <2>2, <2>5, <3>3 DEF y
    <3> QED BY <2>1, <3>2, <3>3
  <2> QED BY <2>2, <2>3, <2>4, <2>5
<1>4. w \in P
  BY <1>2, <1>3 DEF Reaches
<1> QED BY <1>1, <1>4

\* A step that leaves a tree as it is leaves the counts of its leaves.
LEMMA AfterKeepsSizes ==
  ASSUME NEW j, IsJob(j), NEW v \in Views(j), Can(j, v),
         After(j, v).round = v.round, After(j, v).tree = v.tree
  PROVE  After(j, v).sizes = v.sizes
<1>1. v.round \in Nat /\ v.tree \in Seq(Made)
  BY DEF Views
<1>2. CASE v.stage = "idle"
  <2>1. v.round < Len(j.plan)
    BY <1>2 DEF Can
  <2>2. After(j, v) = Masked(j, Begun(j, v))
    BY <1>2 DEF After
  <2>3. After(j, v).round = v.round + 1
    BY <2>1, <2>2, BegunIs, MaskedIs
  <2> QED BY <1>1, <2>3
<1>3. CASE v.stage = "search"
  <2>1. After(j, v) = Masked(j, Skipped(v))
    BY <1>3 DEF After
  <2>2. Skipped(v).sizes = v.sizes
    BY DEF Skipped, Views
  <2> QED BY <2>1, <2>2, SkippedIs, MaskedIs
<1>4. CASE v.stage \notin {"idle", "search"} /\ Chosen(v).gain > 0
  <2>1. After(j, v) = Masked(j, Grown(j, v))
    BY <1>4 DEF After
  <2>2. PICK x \in Made : After(j, v).tree = Append(v.tree, x)
    BY <1>4, <2>1, GrownIs, MaskedIs
  <2>3. Len(Append(v.tree, x)) = Len(v.tree) + 1 /\ Len(v.tree) \in Nat
    BY <1>1
  <2> QED BY <2>2, <2>3
<1>5. CASE v.stage \notin {"idle", "search"} /\ ~(Chosen(v).gain > 0)
  <2>1. After(j, v) = Masked(j, Finished(v))
    BY <1>5 DEF After
  <2>2. Finished(v).sizes = v.sizes
    BY DEF Finished, Views
  <2> QED BY <2>1, <2>2, FinishedIs, MaskedIs
<1> QED BY <1>2, <1>3, <1>4, <1>5

\* Of two machines that made the same splits of one tree, both have the same
\* counts: only what begins a tree or splits a leaf changes them.
LEMMA ReachedSizes ==
  ASSUME NEW j, IsJob(j), NEW v \in Views(j), NEW w \in Views(j), Reaches(j, v, w),
         v.round = w.round, Len(v.tree) = Len(w.tree)
  PROVE  v.sizes = w.sizes
<1> DEFINE Later(x) == \/ x.round > v.round
                       \/ x.round = v.round /\ Len(x.tree) > Len(v.tree)
                       \/ x.round = v.round /\ x.tree = v.tree /\ x.sizes = v.sizes
           P == {x \in Views(j) : Later(x)}
<1>1. \A x \in Views(j) : x.round \in Nat /\ x.tree \in Seq(Made) /\ Len(x.tree) \in Nat
  BY DEF Views
<1>2. v \in P
  OBVIOUS
<1>3. ASSUME NEW x \in P, Can(j, x) PROVE After(j, x) \in P
  <2> DEFINE y == After(j, x)
  <2>1. x \in Views(j) /\ Later(x)
    OBVIOUS
  <2>2. /\ y \in Views(j)
        /\ y.round > x.round \/ (y.round = x.round /\ (y.tree = x.tree \/ \E z \in Made : y.tree = Append(x.tree, z)))
    BY <1>3, <2>1, AfterIs
  <2>3. y.round = x.round /\ y.tree = x.tree => y.sizes = x.sizes
    BY <1>3, <2>1, AfterKeepsSizes
  <2> HIDE DEF y
  <2>4. CASE y.round > x.round
    <3>1. y.round > v.round
      BY <1>1, <2>1, <2>2, <2>4
    <3> QED BY <2>2, <3>1 DEF y
  <2>5. CASE y.round = x.round /\ y.tree = x.tree
    BY <2>1, <2>2, <2>3, <2>5 DEF y
  <2>6. CASE y.round = x.round /\ \E z \in Made : y.tree = Append(x.tree, z)
    <3>1. PICK z \in Made : y.tree = Append(x.tree, z)
      BY <2>6
    <3>2. Len(y.tree) = Len(x.tree) + 1
      BY <1>1, <2>1, <3>1
    <3>3. Len(x.tree) \in Nat /\ Len(v.tree) \in Nat
      BY <1>1, <2>1
    <3>4. CASE x.round > v.round
      BY <2>2, <2>6, <3>4 DEF y
    <3>5. CASE x.round = v.round /\ Len(x.tree) >= Len(v.tree)
      BY <2>2, <2>6, <3>2, <3>3, <3>5 DEF y
    <3> QED BY <2>1, <3>3, <3>4, <3>5
  <2> QED BY <2>2, <2>4, <2>5, <2>6
<1>4. w \in P
  BY <1>2, <1>3 DEF Reaches
<1> QED BY <1>1, <1>4

-----------------------------------------------------------------------------
(* The exchange's layout *)

\* A sequence of steps, each from what the last one left.
IsRun(g, N, X, x0, F) ==
  g \in [0..N -> X] /\ g[0] = x0 /\ \A i \in 1..N : g[i] = F[<<i, g[i - 1]>>]

LEMMA HasRun ==
  ASSUME NEW N \in Nat, NEW X, NEW x0 \in X, NEW F \in [(1..N) \X X -> X]
  PROVE  \E g : IsRun(g, N, X, x0, F)
<1> DEFINE RunTo(k, g) == g \in [0..k -> X] /\ g[0] = x0 /\ \A i \in 1..k : g[i] = F[<<i, g[i - 1]>>]
           Good == {k \in 0..N : \E g : RunTo(k, g)}
<1>1. 0 \in Good
  <2> DEFINE g == [i \in 0..0 |-> x0]
  <2>1. g \in [0..0 -> X] /\ g[0] = x0
    OBVIOUS
  <2>2. \A i : i \notin 1..0
    OBVIOUS
  <2> HIDE DEF g
  <2>3. RunTo(0, g)
    BY <2>1, <2>2
  <2>4. 0 \in 0..N
    OBVIOUS
  <2> QED BY <2>3, <2>4
<1>2. ASSUME NEW k \in 0..N, k \in Good, k < N PROVE k + 1 \in Good
  <2>1. PICK g : RunTo(k, g)
    BY <1>2
  <2> DEFINE h == [i \in 0..(k + 1) |-> IF i = k + 1 THEN F[<<k + 1, g[k]>>] ELSE g[i]]
  <2>2. k \in Nat /\ k + 1 \in 1..N /\ g[k] \in X
    BY <1>2, <2>1
  <2>3. F[<<k + 1, g[k]>>] \in X
    BY <2>2
  <2>4. \A i \in 0..(k + 1) : i # k + 1 => i \in 0..k
    BY <2>2
  <2>5. h \in [0..(k + 1) -> X]
    BY <2>1, <2>3, <2>4
  <2>6. h[0] = x0
    BY <2>1, <2>2
  <2>7. ASSUME NEW i \in 1..(k + 1) PROVE h[i] = F[<<i, h[i - 1]>>]
    <3>1. i - 1 \in 0..(k + 1) /\ i - 1 # k + 1 /\ i \in 0..(k + 1)
      BY <2>2
    <3>2. h[i - 1] = g[i - 1]
      BY <3>1
    <3>3. CASE i = k + 1
      <4>1. i - 1 = k
        BY <3>3, <2>2
      <4>2. h[i] = F[<<k + 1, g[k]>>]
        BY <3>1, <3>3
      <4> QED BY <3>2, <3>3, <4>1, <4>2
    <3>4. CASE i # k + 1
      <4>1. i \in 1..k
        BY <3>4, <2>2
      <4>2. h[i] = g[i]
        BY <3>1, <3>4
      <4> QED BY <2>1, <3>2, <4>1, <4>2
    <3> QED BY <3>3, <3>4
  <2> HIDE DEF h
  <2>8. RunTo(k + 1, h)
    BY <2>5, <2>6, <2>7
  <2>9. k + 1 \in 0..N
    BY <2>2
  <2> QED BY <2>8, <2>9
<1> HIDE DEF Good
<1>3. \A k \in 0..N : k \in Good
  BY <1>1, <1>2, NatUpTo
<1>4. N \in Good
  BY <1>3
<1> QED BY <1>4 DEF Good, IsRun

\* Features by index.
LEMMA InOrderIs ==
  ASSUME NEW fs \in SUBSET Features
  PROVE  InOrder(fs) \in Seq(fs) /\ Len(InOrder(fs)) = Cardinality(fs) /\ Cardinality(fs) \in Nat
<1> DEFINE R == {x \in fs \X fs : x[1] < x[2]}
           n == Cardinality(fs)
<1>1. IsFiniteSet(fs) /\ \A f \in fs : f \in Nat
  BY ParallelAssumption, FS_Subset
<1>2. \A f, g \in fs : <<f, g>> \in R <=> f < g
  OBVIOUS
<1> HIDE DEF R
<1>3. Orders(R, fs)
  BY <1>1, <1>2 DEF Orders
<1>4. PICK q : Lists(q, fs, R)
  BY <1>1, <1>3, HasList
<1>5. q \in [1..n -> fs] /\ \A i, j \in 1..n : i < j => q[i] < q[j]
  BY <1>2, <1>4 DEF Lists
<1>6. InOrder(fs) \in [1..n -> fs]
  BY <1>5 DEF InOrder
<1>7. n \in Nat
  BY <1>1, FS_CardinalityType
<1> QED BY <1>6, <1>7

\* Every machine gets sampled features.
LEMMA FeatureDistributionIs ==
  ASSUME NEW fs \in SUBSET Features
  PROVE  FeatureDistribution(fs) \in [Machines -> Seq(fs)]
<1> DEFINE order == InOrder(fs)
           N == Len(order)
           weight(f) == IF job.mode = "feature" THEN NumBin[f] ELSE SizeOf(f)
           least(bins) == CHOOSE n \in Machines :
                            \A k \in Machines : bins[n] < bins[k] \/ (bins[n] = bins[k] /\ n <= k)
           x0 == [bins |-> [n \in Machines |-> 0], of |-> [n \in Machines |-> <<>>]]
           step(i, x) == LET before == x
                             n == least(before.bins)
                         IN  [bins |-> [before.bins EXCEPT ![n] = @ + weight(order[i])],
                              of |-> [before.of EXCEPT ![n] = Append(@, order[i])]]
           Gives(f) == f = [i \in 0..N |-> IF i = 0 THEN x0 ELSE step(i, f[i - 1])]
           X == [bins : [Machines -> Nat], of : [Machines -> Seq(fs)]]
           F == [p \in (1..N) \X X |-> step(p[1], p[2])]
<1>1. N \in Nat /\ \A i \in 1..N : order[i] \in fs
  BY InOrderIs
<1>2. \A f \in fs : weight(f) \in Nat
  BY ParallelAssumption DEF SizeOf
<1> HIDE DEF order, weight, least
<1>3. ASSUME NEW i \in 1..N, NEW x \in X PROVE step(i, x) \in X
  <2> DEFINE n == least(x.bins)
  <2>1. order[i] \in fs /\ weight(order[i]) \in Nat
    BY <1>1, <1>2
  <2>2. x.bins \in [Machines -> Nat] /\ x.of \in [Machines -> Seq(fs)]
    OBVIOUS
  <2> HIDE DEF n, X
  <2>3. [x.bins EXCEPT ![n] = @ + weight(order[i])] \in [Machines -> Nat]
    <3>1. ASSUME NEW b \in [Machines -> Nat], NEW w \in Nat
          PROVE  [b EXCEPT ![n] = @ + w] \in [Machines -> Nat]
      <4>1. \A k \in Machines : b[k] + w \in Nat
        OBVIOUS
      <4>2. CASE n \in Machines
        BY <4>1, <4>2
      <4>3. CASE n \notin Machines
        BY <4>3
      <4> QED BY <4>2, <4>3
    <3> QED BY <2>1, <2>2, <3>1
  <2>4. [x.of EXCEPT ![n] = Append(@, order[i])] \in [Machines -> Seq(fs)]
    <3>1. ASSUME NEW o \in [Machines -> Seq(fs)], NEW w \in fs
          PROVE  [o EXCEPT ![n] = Append(@, w)] \in [Machines -> Seq(fs)]
      <4>1. \A k \in Machines : Append(o[k], w) \in Seq(fs)
        OBVIOUS
      <4>2. CASE n \in Machines
        BY <4>1, <4>2
      <4>3. CASE n \notin Machines
        BY <4>3
      <4> QED BY <4>2, <4>3
    <3> QED BY <2>1, <2>2, <3>1
  <2> QED BY <2>3, <2>4 DEF n, X
<1>4. x0 \in X
  OBVIOUS
<1> HIDE DEF X, step, x0, N
<1>5. F \in [(1..N) \X X -> X]
  BY <1>3
<1>6. ASSUME NEW i \in 1..N, NEW x \in X PROVE F[<<i, x>>] = step(i, x)
  <2>1. <<i, x>> \in (1..N) \X X /\ <<i, x>>[1] = i /\ <<i, x>>[2] = x
    OBVIOUS
  <2> QED BY <2>1
<1> HIDE DEF F
<1>7. PICK g : IsRun(g, N, X, x0, F)
  BY <1>1, <1>4, <1>5, HasRun, Zenon
<1>8. Gives(g)
  <2>1. \A i \in 0..N : i # 0 => i \in 1..N /\ i - 1 \in 0..N
    BY <1>1 DEF N
  <2>2. \A i \in 0..N : g[i] = IF i = 0 THEN x0 ELSE step(i, g[i - 1])
    BY <1>6, <1>7, <2>1 DEF IsRun
  <2>3. g = [i \in 0..N |-> g[i]]
    BY <1>7 DEF IsRun
  <2> QED BY <2>2, <2>3
<1>9. ASSUME NEW f, Gives(f) PROVE f[N] \in X
  <2> DEFINE Typed == {i \in 0..N : f[i] \in X}
  <2>1. \A i \in 0..N : f[i] = IF i = 0 THEN x0 ELSE step(i, f[i - 1])
    BY <1>9
  <2>2. N \in Nat
    BY <1>1 DEF N
  <2>3. 0 \in Typed
    BY <2>1, <2>2, <1>4
  <2>4. ASSUME NEW k \in 0..N, k \in Typed, k < N PROVE k + 1 \in Typed
    <3>1. k + 1 \in 0..N /\ k + 1 # 0 /\ (k + 1) - 1 = k /\ k + 1 \in 1..N
      BY <2>2, <2>4
    <3>2. f[k + 1] = step(k + 1, f[k]) /\ f[k] \in X
      BY <2>1, <2>4, <3>1
    <3> QED BY <3>1, <3>2, <1>3
  <2> HIDE DEF Typed
  <2>5. \A k \in 0..N : k \in Typed
    BY <2>2, <2>3, <2>4, NatUpTo
  <2>6. N \in Typed
    BY <2>2, <2>5
  <2> QED BY <2>6 DEF Typed
<1>10. FeatureDistribution(fs) = (CHOOSE f : Gives(f))[N].of
  BY Zenon DEF FeatureDistribution, N, order, weight, least, x0, step
<1> HIDE DEF Gives
<1>11. Gives(CHOOSE f : Gives(f))
  BY <1>8, Zenon
<1>12. FeatureDistribution(fs) \in {x.of : x \in X}
  BY <1>9, <1>10, <1>11
<1> QED BY <1>12 DEF X

-----------------------------------------------------------------------------
(* Lists of histograms to send *)

\* Sequences of X, one after the other, are a sequence of X.
LEMMA FlattenIs ==
  ASSUME NEW X, NEW q \in Seq(Seq(X))
  PROVE  FlattenSeq(q) \in Seq(X)
<1> DEFINE N == Len(q)
           M == N - 1
           F == [p \in (1..M) \X Seq(X) |-> p[2] \o q[p[1] + 1]]
           Flat(f) == f = [i \in 1..N |-> IF i = 1 THEN q[i] ELSE f[i - 1] \o q[i]]
<1>1. N \in Nat /\ \A i \in 1..N : q[i] \in Seq(X)
  OBVIOUS
<1>2. CASE N = 0
  <2>1. FlattenSeq(q) = q
    BY <1>2 DEF FlattenSeq
  <2>2. q = <<>>
    BY <1>2
  <2> QED BY <2>1, <2>2
<1>3. CASE N # 0
  <2>1. M \in Nat /\ 1 \in 1..N
    BY <1>1, <1>3
  <2>2. \A i \in 1..M : i + 1 \in 1..N
    BY <1>1
  <2>3. F \in [(1..M) \X Seq(X) -> Seq(X)]
    <3>1. ASSUME NEW i \in 1..M, NEW x \in Seq(X) PROVE x \o q[i + 1] \in Seq(X)
      <4>1. q[i + 1] \in Seq(X)
        BY <1>1, <2>2
      <4> QED BY <4>1
    <3> HIDE DEF M, N
    <3> QED BY <3>1
  <2>4. ASSUME NEW i \in 1..M, NEW x \in Seq(X) PROVE F[<<i, x>>] = x \o q[i + 1]
    <3>1. <<i, x>> \in (1..M) \X Seq(X) /\ <<i, x>>[1] = i /\ <<i, x>>[2] = x
      OBVIOUS
    <3> HIDE DEF M
    <3> QED BY <3>1
  <2>5. q[1] \in Seq(X)
    BY <1>1, <2>1
  <2> HIDE DEF F, M
  <2>6. PICK g : IsRun(g, M, Seq(X), q[1], F)
    BY <2>1, <2>3, <2>5, HasRun, Zenon
  <2> DEFINE h == [i \in 1..N |-> g[i - 1]]
  <2>7. Flat(h)
    <3>1. ASSUME NEW i \in 1..N, i # 1 PROVE i - 1 \in 1..M /\ i - 1 \in 1..N /\ (i - 1) + 1 = i
      BY <1>1, <3>1 DEF M
    <3>2. ASSUME NEW i \in 1..N, i # 1 PROVE g[i - 1] = h[i - 1] \o q[i]
      <4>1. h[i - 1] = g[(i - 1) - 1]
        BY <3>1, <3>2
      <4>2. g[i - 1] = F[<<i - 1, g[(i - 1) - 1]>>]
        BY <3>1, <3>2, <2>6 DEF IsRun
      <4>3. g[(i - 1) - 1] \in Seq(X)
        <5>1. (i - 1) - 1 \in 0..M
          BY <3>1, <3>2, <2>1
        <5> QED BY <5>1, <2>6 DEF IsRun
      <4>4. F[<<i - 1, g[(i - 1) - 1]>>] = g[(i - 1) - 1] \o q[(i - 1) + 1]
        BY <2>4, <3>1, <3>2, <4>3
      <4> QED BY <4>1, <4>2, <4>4, <3>1, <3>2
    <3>3. g[1 - 1] = q[1]
      BY <2>6 DEF IsRun
    <3>4. \A i \in 1..N : g[i - 1] = IF i = 1 THEN q[i] ELSE h[i - 1] \o q[i]
      BY <3>2, <3>3
    <3> QED BY <3>4
  <2>8. ASSUME NEW f, Flat(f) PROVE f[N] \in Seq(X)
    <3> DEFINE Typed == {i \in 0..M : f[i + 1] \in Seq(X)}
    <3>1. \A i \in 1..N : f[i] = IF i = 1 THEN q[i] ELSE f[i - 1] \o q[i]
      BY <2>8
    <3>2. 0 \in Typed
      <4>1. f[1] = q[1]
        BY <3>1, <2>1
      <4> QED BY <4>1, <2>1, <2>5
    <3>3. ASSUME NEW k \in 0..M, k \in Typed, k < M PROVE k + 1 \in Typed
      <4>1. /\ k + 1 \in 0..M /\ (k + 1) + 1 \in 1..N /\ (k + 1) + 1 # 1
            /\ ((k + 1) + 1) - 1 = k + 1
        BY <2>1, <3>3 DEF M
      <4>2. f[(k + 1) + 1] = f[k + 1] \o q[(k + 1) + 1]
        BY <3>1, <4>1
      <4>3. q[(k + 1) + 1] \in Seq(X) /\ f[k + 1] \in Seq(X)
        BY <1>1, <4>1, <3>3
      <4>4. f[(k + 1) + 1] \in Seq(X)
        BY <4>2, <4>3
      <4> QED BY <4>1, <4>4
    <3> HIDE DEF Typed
    <3>4. \A k \in 0..M : k \in Typed
      BY <2>1, <3>2, <3>3, NatUpTo
    <3>5. M \in Typed /\ M + 1 = N
      BY <2>1, <3>4, <1>1 DEF M
    <3> QED BY <3>5 DEF Typed
  <2>9. FlattenSeq(q) = (CHOOSE f : Flat(f))[N]
    <3>1. FlattenSeq(q) = IF N = 0 THEN q ELSE (CHOOSE f : Flat(f))[N]
      BY Zenon DEF FlattenSeq
    <3> QED BY <3>1, <1>3
  <2> HIDE DEF Flat
  <2>10. Flat(CHOOSE f : Flat(f))
    BY <2>7, Zenon
  <2> QED BY <2>8, <2>9, <2>10
<1> QED BY <1>2, <1>3

\* Histograms to send.
Items == [to : Int, side : Sides, feature : Features]

LEMMA PlacedIs ==
  ASSUME NEW items \in Seq(Items)
  PROVE  /\ DOMAIN Placed(items) = DOMAIN items
         /\ \A n \in DOMAIN items : /\ Placed(items)[n].side = items[n].side
                                    /\ Placed(items)[n].feature = items[n].feature
                                    /\ items[n] \in Items
BY DEF Placed

\* Machines are numbered.
LEMMA MachinesAre ==
  ASSUME IsJob(job)
  PROVE  /\ Cardinality(Machines) \in Nat \ {0} /\ IsFiniteSet(Machines) /\ Machines # {}
         /\ Machines = 0..(Cardinality(Machines) - 1)
<1>1. IsFiniteSet(Machines) /\ Machines # {} /\ Machines = 0..(Cardinality(Machines) - 1)
  BY DEF IsJob, Machines
<1>2. Cardinality(Machines) \in Nat /\ Cardinality(Machines) # 0
  BY <1>1, FS_CardinalityType, FS_EmptySet
<1> QED BY <1>1, <1>2

\* Data parallel sends the smaller leaf's histogram of sampled features.
LEMMA PrepareBufferPosIs ==
  ASSUME IsJob(job), NEW fs \in SUBSET Features
  PROVE  \A n \in DOMAIN PrepareBufferPos(fs) :
           /\ PrepareBufferPos(fs)[n].side = "smaller"
           /\ PrepareBufferPos(fs)[n].feature \in Features
<1> DEFINE of == FeatureDistribution(fs)
           C == Cardinality(Machines)
           Small == [to : Int, side : {"smaller"}, feature : Features]
           q == [n \in 1..C |-> [i \in DOMAIN of[n - 1] |-> Item(n - 1, "smaller", of[n - 1][i])]]
<1>1. C \in Nat /\ \A n \in 1..C : n - 1 \in Machines
  BY MachinesAre
<1>2. of \in [Machines -> Seq(fs)]
  BY FeatureDistributionIs
<1> HIDE DEF of, C
<1>3. ASSUME NEW n \in 1..C
      PROVE  [i \in DOMAIN of[n - 1] |-> Item(n - 1, "smaller", of[n - 1][i])] \in Seq(Small)
  <2>1. of[n - 1] \in Seq(fs) /\ n - 1 \in Int
    BY <1>1, <1>2
  <2> DEFINE o == of[n - 1]
             m == n - 1
  <2>2. o \in Seq(fs) /\ m \in Int
    BY <2>1
  <2> HIDE DEF o, m
  <2>3. \A i \in DOMAIN o : Item(m, "smaller", o[i]) \in Small
    BY <2>2 DEF Item
  <2> HIDE DEF Small
  <2>4. [i \in DOMAIN o |-> Item(m, "smaller", o[i])] \in Seq(Small)
    BY <2>2, <2>3
  <2> QED BY <2>4 DEF o, m
<1> HIDE DEF Small
<1>4. q \in Seq(Seq(Small))
  BY <1>1, <1>3
<1> HIDE DEF q
<1>5. FlattenSeq(q) \in Seq(Small)
  BY <1>4, FlattenIs
<1> DEFINE items == FlattenSeq(q)
<1>6. \A n \in DOMAIN items : items[n] \in Small
  BY <1>5
<1>7. items \in Seq(Items)
  <2>1. Small \subseteq Items
    BY DEF Small, Items, Sides
  <2> HIDE DEF items
  <2> QED BY <2>1, <1>5 DEF items
<1>8. PrepareBufferPos(fs) = Placed(items)
  BY DEF PrepareBufferPos, q, of, C
<1> HIDE DEF items
<1> QED BY <1>6, <1>7, <1>8, PlacedIs DEF Small

-----------------------------------------------------------------------------
\* How many histograms of a side are in a list.
Taken(x, s) == Cardinality({i \in DOMAIN x : x[i].side = s})

LEMMA TakenIs ==
  ASSUME NEW x \in Seq(Items), NEW s
  PROVE  /\ Taken(x, s) \in Nat
         /\ \A e \in Items :
              Taken(Append(x, e), s) = IF e.side = s THEN Taken(x, s) + 1 ELSE Taken(x, s)
<1> DEFINE n == Len(x)
           old == {i \in DOMAIN x : x[i].side = s}
<1>1. n \in Nat /\ DOMAIN x = 1..n
  OBVIOUS
<1>2. IsFiniteSet(old) /\ Cardinality(old) \in Nat
  <2>1. IsFiniteSet(1..n)
    BY <1>1, FS_Interval
  <2>2. old \in SUBSET (1..n)
    BY <1>1
  <2> QED BY <2>1, <2>2, FS_Subset, FS_CardinalityType
<1>3. ASSUME NEW e \in Items
      PROVE  Taken(Append(x, e), s) = IF e.side = s THEN Taken(x, s) + 1 ELSE Taken(x, s)
  <2> DEFINE y == Append(x, e)
             new == {i \in DOMAIN y : y[i].side = s}
  <2>1. DOMAIN y = 1..(n + 1) /\ y[n + 1] = e /\ \A i \in 1..n : y[i] = x[i]
    OBVIOUS
  <2>2. n + 1 \notin old
    BY <1>1
  <2>3. new = IF e.side = s THEN old \cup {n + 1} ELSE old
    BY <1>1, <2>1
  <2> HIDE DEF old, new
  <2>4. Cardinality(new) = IF e.side = s THEN Cardinality(old) + 1 ELSE Cardinality(old)
    BY <1>2, <2>2, <2>3, FS_AddElement
  <2> QED BY <2>4 DEF Taken, old, new
<1> QED BY <1>2, <1>3 DEF Taken

LEMMA Division ==
  ASSUME NEW a \in Nat, NEW b \in Nat, b # 0
  PROVE  a \div b \in Nat /\ b * (a \div b) <= a /\ a < b * (a \div b) + b
OBVIOUS

\* Voting sends every histogram voted for, and no other one.
LEMMA CopyLocalHistogramIs ==
  ASSUME IsJob(job), NEW voted \in [Sides -> Seq(Vote)]
  PROVE  \A n \in DOMAIN CopyLocalHistogram(voted) :
           /\ CopyLocalHistogram(voted)[n].side \in Sides
           /\ CopyLocalHistogram(voted)[n].feature \in Features
           /\ voted[CopyLocalHistogram(voted)[n].side] # <<>>
<1> DEFINE total == Len(voted["smaller"]) + Len(voted["larger"])
           C == Cardinality(Machines)
           average == (total + C - 1) \div C
           turn(to, before) == IF before # <<>> /\ Last(before).to = to /\ Last(before).side = "smaller"
                                 THEN "larger" ELSE "smaller"
           other(t) == CHOOSE s \in Sides : s # t
           taken(before, s) == Cardinality({i \in DOMAIN before : before[i].side = s})
           side(t, before) == IF taken(before, t) < Len(voted[t]) THEN t ELSE other(t)
           step(n, x) ==
             LET before == x
                 to == (n - 1) \div average
                 sd == side(turn(to, before), before)
             IN  Append(before, Item(to, sd, voted[sd][taken(before, sd) + 1].feature))
           Gives(f) == f = [n \in 0..total |-> IF n = 0 THEN <<>> ELSE step(n, f[n - 1])]
           Good(n, x) == /\ x \in Seq(Items) /\ Taken(x, "smaller") + Taken(x, "larger") = n
                         /\ \A s \in Sides : Taken(x, s) <= Len(voted[s])
                         /\ \A i \in DOMAIN x : voted[x[i].side] # <<>>
           F == [p \in (1..total) \X Seq(Items) |-> IF step(p[1], p[2]) \in Seq(Items) THEN step(p[1], p[2]) ELSE <<>>]
<1>1. /\ "smaller" \in Sides /\ "larger" \in Sides
      /\ \A s \in Sides : voted[s] \in Seq(Vote) /\ Len(voted[s]) \in Nat
      /\ total \in Nat
  BY DEF Sides
<1>2. total # 0 => average \in Nat /\ average # 0
  <2>1. C \in Nat /\ C # 0
    BY MachinesAre
  <2>2. ASSUME total # 0 PROVE average \in Nat /\ average # 0
    <3> DEFINE a == total + C - 1
    <3>1. a \in Nat /\ a >= C
      BY <1>1, <2>1, <2>2
    <3> HIDE DEF a, C
    <3>2. a \div C \in Nat /\ a < C * (a \div C) + C
      BY <2>1, <3>1, Division
    <3>3. a \div C # 0
      <4> DEFINE d == a \div C
      <4>1. a < C * d + C
        BY <3>2
      <4> HIDE DEF d
      <4>2. d # 0
        BY <2>1, <3>1, <4>1
      <4> QED BY <4>2 DEF d
    <3> QED BY <3>2, <3>3 DEF a, C
  <2> QED BY <2>2
<1>3. \A t \in Sides : other(t) \in Sides /\ other(t) # t
  BY DEF Sides
<1>4. \A to, x : turn(to, x) \in Sides
  BY <1>1
<1>5. \A x, s : taken(x, s) = Taken(x, s)
  BY DEF Taken
<1> HIDE DEF average, turn, other, taken, total
<1>6. ASSUME NEW n \in 1..total, NEW x, Good(n - 1, x) PROVE Good(n, step(n, x))
  <2> DEFINE to == (n - 1) \div average
             t == turn(to, x)
             sd == side(t, x)
             v == voted[sd][Taken(x, sd) + 1]
             e == Item(to, sd, v.feature)
  <2>1. t \in Sides
    BY <1>4
  <2>2. to \in Int
    <3>1. n - 1 \in Nat /\ total # 0
      BY <1>1
    <3>2. average \in Nat /\ average # 0
      BY <3>1, <1>2
    <3> QED BY <3>1, <3>2, Division
  <2> HIDE DEF t, to
  <2>3. x \in Seq(Items) /\ \A s \in Sides : Taken(x, s) \in Nat
    <3>1. x \in Seq(Items)
      BY <1>6
    <3> QED BY <3>1, TakenIs
  <2>4. sd \in Sides /\ Taken(x, sd) < Len(voted[sd])
    <3>1. CASE Taken(x, t) < Len(voted[t])
      BY <2>1, <3>1, <1>5
    <3>2. CASE ~(Taken(x, t) < Len(voted[t]))
      <4>1. PICK o : o = other(t) /\ o \in Sides /\ o # t
        BY <1>3, <2>1
      <4>2. sd = o
        BY <3>2, <4>1, <1>5
      <4>3. (t = "smaller" /\ o = "larger") \/ (t = "larger" /\ o = "smaller")
        BY <2>1, <4>1 DEF Sides
      <4>4. Taken(x, "smaller") + Taken(x, "larger") = n - 1 /\ n <= total
        <5>1. Taken(x, "smaller") + Taken(x, "larger") = n - 1
          BY <1>6
        <5> QED BY <5>1, <1>1
      <4>5. total = Len(voted["smaller"]) + Len(voted["larger"])
        BY DEF total
      <4>6. /\ Taken(x, "smaller") \in Nat /\ Taken(x, "larger") \in Nat /\ n \in Int
            /\ Len(voted["smaller"]) \in Nat /\ Len(voted["larger"]) \in Nat
        BY <1>1, <2>3
      <4>7. Taken(x, o) < Len(voted[o])
        <5> DEFINE ts == Taken(x, "smaller")
                   tl == Taken(x, "larger")
                   ls == Len(voted["smaller"])
                   ll == Len(voted["larger"])
        <5>1. ts \in Nat /\ tl \in Nat /\ ls \in Nat /\ ll \in Nat /\ n \in Int
          BY <4>6
        <5>2. ts + tl = n - 1 /\ n <= total /\ total = ls + ll
          BY <4>4, <4>5
        <5>3. CASE t = "smaller" /\ o = "larger"
          <6>1. ~(ts < ls)
            BY <3>2, <5>3
          <6> HIDE DEF ts, tl, ls, ll
          <6>2. tl < ll
            BY <5>1, <5>2, <6>1
          <6> QED BY <5>3, <6>2 DEF tl, ll
        <5>4. CASE t = "larger" /\ o = "smaller"
          <6>1. ~(tl < ll)
            BY <3>2, <5>4
          <6> HIDE DEF ts, tl, ls, ll
          <6>2. ts < ls
            BY <5>1, <5>2, <6>1
          <6> QED BY <5>4, <6>2 DEF ts, ls
        <5> QED BY <4>3, <5>3, <5>4
      <4> HIDE DEF sd
      <4> QED BY <4>1, <4>2, <4>7
    <3> QED BY <3>1, <3>2
  <2> HIDE DEF sd
  <2>5. v \in Vote /\ voted[sd] # <<>>
    <3>1. voted[sd] \in Seq(Vote) /\ Taken(x, sd) \in Nat
      BY <1>1, <2>3, <2>4
    <3>2. Taken(x, sd) + 1 \in 1..Len(voted[sd])
      BY <3>1, <2>4
    <3> QED BY <3>1, <3>2
  <2> HIDE DEF v
  <2>6. e \in Items /\ e.side = sd
    BY <2>2, <2>4, <2>5 DEF Item, Items, Vote
  <2> HIDE DEF e
  <2>7. step(n, x) = Append(x, e)
    BY <1>5 DEF e, v, sd, t, to
  <2> DEFINE y == Append(x, e)
  <2>8. y \in Seq(Items)
    BY <2>3, <2>6
  <2>9. \A s \in Sides : Taken(y, s) = IF sd = s THEN Taken(x, s) + 1 ELSE Taken(x, s)
    BY <2>3, <2>6, TakenIs
  <2>10. \A i \in DOMAIN y : voted[y[i].side] # <<>>
    <3>1. \A i \in DOMAIN y : y[i] = e \/ (i \in DOMAIN x /\ y[i] = x[i])
      BY <2>3, <2>6
    <3> QED BY <3>1, <2>5, <2>6, <1>6
  <2> HIDE DEF y
  <2>11. \A s \in Sides : Taken(y, s) <= Len(voted[s])
    <3>1. ASSUME NEW s \in Sides PROVE Taken(y, s) <= Len(voted[s])
      <4>1. Taken(x, s) \in Nat /\ Taken(x, s) <= Len(voted[s]) /\ Len(voted[s]) \in Nat
        BY <1>1, <1>6, <2>3
      <4> QED BY <4>1, <2>4, <2>9
    <3> QED BY <3>1
  <2>12. Taken(y, "smaller") + Taken(y, "larger") = n
    <3>1. Taken(x, "smaller") + Taken(x, "larger") = n - 1
      BY <1>6
    <3>2. Taken(x, "smaller") \in Nat /\ Taken(x, "larger") \in Nat /\ n \in Int
      BY <1>1, <2>3
    <3>3. sd = "smaller" \/ sd = "larger"
      BY <2>4 DEF Sides
    <3>4. /\ Taken(y, "smaller") = IF sd = "smaller" THEN Taken(x, "smaller") + 1 ELSE Taken(x, "smaller")
          /\ Taken(y, "larger") = IF sd = "larger" THEN Taken(x, "larger") + 1 ELSE Taken(x, "larger")
      BY <1>1, <2>9
    <3> QED BY <3>1, <3>2, <3>3, <3>4
  <2>13. Good(n, y)
    BY <2>8, <2>10, <2>11, <2>12
  <2> HIDE DEF step, Good
  <2> QED BY <2>7, <2>13 DEF y
<1>7. Good(0, <<>>)
  <2>1. DOMAIN <<>> = {} /\ <<>> \in Seq(Items)
    OBVIOUS
  <2>2. \A s : {i \in DOMAIN <<>> : <<>>[i].side = s} = {}
    BY <2>1
  <2>3. \A s : Taken(<<>>, s) = 0
    BY <2>2, FS_EmptySet DEF Taken
  <2>4. Taken(<<>>, "smaller") + Taken(<<>>, "larger") = 0
    BY <2>3
  <2>5. \A s \in Sides : Taken(<<>>, s) <= Len(voted[s])
    BY <2>3, <1>1
  <2> QED BY <2>1, <2>4, <2>5
<1> HIDE DEF step
<1>8. F \in [(1..total) \X Seq(Items) -> Seq(Items)]
  OBVIOUS
<1>9. ASSUME NEW n \in 1..total, NEW x, Good(n - 1, x) PROVE F[<<n, x>>] = step(n, x)
  <2>1. <<n, x>> \in (1..total) \X Seq(Items) /\ <<n, x>>[1] = n /\ <<n, x>>[2] = x
    BY <1>9
  <2>2. step(n, x) \in Seq(Items)
    BY <1>6, <1>9
  <2> QED BY <2>1, <2>2
<1> HIDE DEF F
<1>10. PICK g : IsRun(g, total, Seq(Items), <<>>, F)
  <2>1. <<>> \in Seq(Items)
    OBVIOUS
  <2>2. total \in Nat
    BY <1>1
  <2> QED BY <1>8, <2>1, <2>2, HasRun, Zenon
<1> HIDE DEF Good
<1>11. ASSUME NEW f, f[0] = <<>>, \A n \in 1..total : Good(n - 1, f[n - 1]) => f[n] = step(n, f[n - 1])
       PROVE  \A n \in 0..total : Good(n, f[n])
  <2> DEFINE Typed == {n \in 0..total : Good(n, f[n])}
  <2>1. 0 \in Typed
    BY <1>1, <1>7, <1>11
  <2>2. ASSUME NEW k \in 0..total, k \in Typed, k < total PROVE k + 1 \in Typed
    <3>1. k + 1 \in 1..total /\ k + 1 \in 0..total /\ (k + 1) - 1 = k
      BY <1>1, <2>2
    <3>2. Good(k, f[k])
      BY <2>2
    <3>3. f[k + 1] = step(k + 1, f[k])
      BY <3>1, <3>2, <1>11
    <3>4. Good(k + 1, f[k + 1])
      BY <3>1, <3>2, <3>3, <1>6
    <3> QED BY <3>1, <3>4
  <2> HIDE DEF Typed
  <2>3. \A n \in 0..total : n \in Typed
    BY <1>1, <2>1, <2>2, NatUpTo
  <2> QED BY <2>3 DEF Typed
<1>12. Gives(g)
  <2>1. g[0] = <<>> /\ \A n \in 1..total : g[n] = F[<<n, g[n - 1]>>]
    BY <1>10 DEF IsRun
  <2>2. \A n \in 0..total : Good(n, g[n])
    BY <2>1, <1>9, <1>11
  <2>3. ASSUME NEW n \in 0..total, n # 0 PROVE g[n] = step(n, g[n - 1])
    <3>1. n \in 1..total /\ n - 1 \in 0..total
      BY <1>1, <2>3
    <3>2. Good(n - 1, g[n - 1])
      BY <2>2, <3>1
    <3> QED BY <2>1, <3>1, <3>2, <1>9
  <2>4. \A n \in 0..total : g[n] = IF n = 0 THEN <<>> ELSE step(n, g[n - 1])
    BY <2>1, <2>3
  <2>5. g = [n \in 0..total |-> g[n]]
    BY <1>10 DEF IsRun
  <2> QED BY <2>4, <2>5
<1>13. ASSUME NEW f, Gives(f) PROVE Good(total, f[total])
  <2>1. \A n \in 0..total : f[n] = IF n = 0 THEN <<>> ELSE step(n, f[n - 1])
    BY <1>13
  <2>2. f[0] = <<>>
    BY <2>1, <1>1
  <2>3. \A n \in 1..total : n \in 0..total /\ n # 0
    BY <1>1
  <2>4. \A n \in 1..total : f[n] = step(n, f[n - 1])
    BY <2>1, <2>3
  <2>5. \A n \in 0..total : Good(n, f[n])
    BY <2>2, <2>4, <1>11
  <2> QED BY <2>5, <1>1
<1>14. CopyLocalHistogram(voted) = Placed((CHOOSE f : Gives(f))[total])
  BY Zenon DEF CopyLocalHistogram, step, taken, other, turn, average, total
<1> HIDE DEF Gives
<1>15. Gives(CHOOSE f : Gives(f))
  BY <1>12, Zenon
<1>16. PICK x : Good(total, x) /\ CopyLocalHistogram(voted) = Placed(x)
  BY <1>13, <1>14, <1>15
<1>17. x \in Seq(Items) /\ \A i \in DOMAIN x : voted[x[i].side] # <<>>
  BY <1>16 DEF Good
<1>18. /\ DOMAIN Placed(x) = DOMAIN x
       /\ \A n \in DOMAIN x : /\ Placed(x)[n].side = x[n].side
                                /\ Placed(x)[n].feature = x[n].feature
                                /\ x[n] \in Items
  BY <1>17, PlacedIs
<1>19. \A n \in DOMAIN x : x[n].side \in Sides /\ x[n].feature \in Features
  BY <1>18 DEF Items
<1> QED BY <1>16, <1>17, <1>18, <1>19

-----------------------------------------------------------------------------
(* Histograms and the splits found in them *)

LEMMA HeapsAre ==
  /\ {Junk} \in Heaps /\ {} \in Heaps /\ SUBSET Rows \subseteq Heaps
  /\ \A a, b \in Heaps : Minus(a, b) \in Heaps /\ a \ b \in Heaps
BY DEF Heaps, Minus

LEMMA SumIs ==
  ASSUME NEW S, NEW h, \A n \in S : h[n] \in Heaps, DOMAIN h = S
  PROVE  Sum(h) \in Heaps
<1>1. UNION Range(h) \in Heaps
  BY DEF Range, Heaps
<1> QED BY <1>1, HeapsAre DEF Sum

\* The quotient of two products is none of a negative number.
LEMMA Quotient ==
  ASSUME NEW a \in Nat, NEW b \in Nat, NEW c \in Nat, c # 0
  PROVE  (2 * a * b + c) \div (2 * c) \in Nat
<1> DEFINE x == 2 * a * b + c
           y == 2 * c
<1>1. a * b \in Nat
  OBVIOUS
<1>2. x \in Nat /\ y \in Nat /\ y # 0
  <2>1. 2 * a * b = 2 * (a * b)
    OBVIOUS
  <2> QED BY <1>1, <2>1
<1> HIDE DEF x, y
<1>3. x \div y \in Nat
  BY <1>2, Division
<1> QED BY <1>3 DEF x, y

\* The estimate of a count is a number.
LEMMA EstimateIs ==
  ASSUME IsJob(job), NEW h, NEW sum, NEW n \in Nat
  PROVE  EstimatedCount(h, sum, n) \in Nat
<1> DEFINE a == job.hess[h \cap Rows]
           b == job.hess[sum \cap Rows]
<1>1. job.hess \in [SUBSET Rows -> Nat]
  BY DEF IsJob
<1>2. a \in Nat /\ b \in Nat
  BY <1>1
<1> HIDE DEF a, b
<1>3. b # 0 => (2 * n * a + b) \div (2 * b) \in Nat
  BY <1>2, Quotient
<1>4. EstimatedCount(h, sum, n) = IF b = 0 THEN 0 ELSE (2 * n * a + b) \div (2 * b)
  BY DEF EstimatedCount, a, b
<1> QED BY <1>3, <1>4

LEMMA SplitOfIs ==
  ASSUME IsJob(job), NEW f \in Features, NEW h \in Heaps, NEW sum \in Heaps, NEW n \in Nat, NEW min \in Nat
  PROVE  SplitOf(f, h, sum, n, min) \in Found /\ SplitOf(f, h, sum, n, min).feature = f
<1> DEFINE right == h \ job.goLeft[f]
           left == Minus(sum, right)
           gain == Cardinality(left) * Cardinality(right)
           rc == EstimatedCount(right, sum, n)
           lc == n - rc
<1>1. right \in Heaps
  BY DEF Heaps
<1>2. left \in Heaps
  BY <1>1, HeapsAre
<1>3. rc \in Nat
  BY EstimateIs
<1> HIDE DEF left, right, rc
<1>4. gain \in Nat
  BY <1>1, <1>2, Finite
<1>5. lc \in Int /\ (lc >= min => lc \in Nat)
  BY <1>3
<1> HIDE DEF gain, lc
<1>6. SplitOf(f, h, sum, n, min) =
        IF lc >= min /\ rc >= min /\ gain > 0
          THEN [feature |-> f, gain |-> gain, left |-> left, right |-> right,
                left_count |-> lc, right_count |-> rc]
          ELSE [NoSplit EXCEPT !.feature = f]
  BY DEF SplitOf, left, right, gain, rc, lc
<1>7. lc >= min => [feature |-> f, gain |-> gain, left |-> left, right |-> right,
                    left_count |-> lc, right_count |-> rc] \in Found
  BY <1>1, <1>2, <1>3, <1>4, <1>5 DEF Found
<1>8. [NoSplit EXCEPT !.feature = f] \in Found /\ [NoSplit EXCEPT !.feature = f].feature = f
  BY HeapsAre DEF Found, NoSplit
<1> QED BY <1>6, <1>7, <1>8

\* Of the splits of some features there are finitely many.
LEMMA FiniteSplits ==
  ASSUME NEW fs \in SUBSET Features, NEW F \in [fs -> Splits]
  PROVE  IsFiniteSet({F[f] : f \in fs})
<1>1. IsFiniteSet(fs)
  BY ParallelAssumption, FS_Subset
<1> DEFINE T == {F[f] : f \in fs}
           G == [f \in fs |-> F[f]]
<1>2. G \in Surjection(fs, T)
  BY DEF Surjection
<1> QED BY <1>1, <1>2, FS_Surjection

\* What each machine has.
LEMMA TypeParts ==
  ASSUME TypeInv, NEW m \in Machines
  PROVE  /\ IsJob(job) /\ round[m] \in Nat /\ pc[m] \in Stages /\ tree[m] \in Seq(Made)
         /\ part[m] \in [Leaves -> SUBSET Rows] /\ counts[m] \in [Leaves -> Nat]
         /\ pair[m] \in [Sides -> LeafSums] /\ hist[m] \in [Leaves -> [Features -> Heaps]]
         /\ splittable[m] \in [Leaves -> [Features -> BOOLEAN]] /\ used[m] \in SUBSET Features
         /\ best[m] \in [Leaves -> Splits]
         /\ \A s \in Sides : LeafOf(m, s) \in Leaves \cup {None} /\ pair[m][s].sum \in Heaps
<1>1. IsJob(job)
  BY ParallelAssumption DEF TypeInv
<1>2. round[m] \in Nat /\ pc[m] \in Stages /\ tree[m] \in Seq(Made)
  BY DEF TypeInv
<1>3. part[m] \in [Leaves -> SUBSET Rows] /\ counts[m] \in [Leaves -> Nat]
  BY DEF TypeInv
<1>4. pair[m] \in [Sides -> LeafSums] /\ hist[m] \in [Leaves -> [Features -> Heaps]]
  BY DEF TypeInv
<1>5. splittable[m] \in [Leaves -> [Features -> BOOLEAN]] /\ used[m] \in SUBSET Features
  BY DEF TypeInv
<1>6. best[m] \in [Leaves -> Splits]
  BY DEF TypeInv
<1>7. \A s \in Sides : LeafOf(m, s) \in Leaves \cup {None} /\ pair[m][s].sum \in Heaps
  BY <1>4 DEF LeafOf, LeafSums
<1> QED BY <1>1, <1>2, <1>3, <1>4, <1>5, <1>6, <1>7

\* Rows of a leaf, counted or estimated, are a number.
LEMMA CountsAre ==
  ASSUME TypeInv, NEW m \in Machines, NEW l \in Leaves \cup {None}
  PROVE  CountIn(m, l) \in Nat
<1>1. CASE l = None
  BY <1>1 DEF CountIn
<1>2. CASE l # None /\ job.mode = "feature"
  <2>1. part[m][l] \in SUBSET Rows
    BY <1>2, TypeParts
  <2> QED BY <1>2, <2>1, Finite DEF CountIn
<1>3. CASE l # None /\ job.mode # "feature"
  <2>1. counts[m][l] \in Nat
    BY <1>3, TypeParts
  <2> QED BY <1>3, <2>1 DEF CountIn
<1> QED BY <1>1, <1>2, <1>3

\* While a tree grows, the leaves searched are leaves.
LEMMA LeavesAre ==
  ASSUME TypeInv, NEW m \in Machines, TreeInv(m), pc[m] # "idle"
  PROVE  /\ Left(m) \in Leaves /\ Left(m) <= Len(tree[m])
         /\ Right(m) = IF tree[m] = <<>> THEN None ELSE Len(tree[m])
         /\ Right(m) \in Leaves \cup {None} /\ Len(tree[m]) \in Leaves /\ Len(tree[m]) + 1 \in Leaves
         /\ Len(tree[m]) \in Nat
         /\ SmallerLeaf(m) \in Leaves /\ LargerLeaf(m) \in Leaves \cup {None}
         /\ SmallerLeaf(m) = LeafOf(m, "smaller") /\ LargerLeaf(m) = LeafOf(m, "larger")
         /\ \A s \in TheSides(m) : s \in Sides /\ LeafOf(m, s) \in Leaves
<1>1. tree[m] \in Seq(Made) /\ NumLeaves - 1 \in Nat
  BY TypeParts, ParallelAssumption
<1>2. Len(tree[m]) \in Nat /\ Len(tree[m]) < NumLeaves - 1
  BY <1>1 DEF TreeInv
<1>3. Len(tree[m]) \in Leaves /\ Len(tree[m]) + 1 \in Leaves /\ 0 \in Leaves
  BY <1>1, <1>2 DEF Leaves
<1>4. Left(m) \in Leaves /\ Left(m) <= Len(tree[m])
  <2>1. CASE tree[m] = <<>>
    BY <1>1, <1>3, <2>1 DEF Left
  <2>2. CASE tree[m] # <<>>
    <3>1. Len(tree[m]) \in DOMAIN tree[m] /\ tree[m][Len(tree[m])] \in Made
      BY <1>1, <2>2
    <3>2. Left(m) = tree[m][Len(tree[m])].leaf
      BY <2>2 DEF Left, Last
    <3>3. Left(m) \in Leaves
      BY <3>1, <3>2 DEF Made
    <3>4. Left(m) <= Len(tree[m]) - 1
      BY <3>1, <3>2 DEF TreeInv
    <3>5. Left(m) \in Int
      BY <3>3 DEF Leaves
    <3> QED BY <3>3, <3>4, <3>5, <1>2
  <2> QED BY <2>1, <2>2
<1>5. Right(m) = IF tree[m] = <<>> THEN None ELSE Len(tree[m])
  BY DEF Right
<1>6. SmallerLeaf(m) = LeafOf(m, "smaller") /\ LargerLeaf(m) = LeafOf(m, "larger")
  BY DEF SmallerLeaf, LargerLeaf, LeafOf
<1>7. \A s \in Sides : LeafOf(m, s) \in Leaves \cup {None}
  BY TypeParts
<1>8. SmallerLeaf(m) # None /\ "smaller" \in Sides /\ "larger" \in Sides
  BY DEF TreeInv, Sides
<1>9. \A s \in TheSides(m) : s \in Sides /\ LeafOf(m, s) \in Leaves
  BY <1>7 DEF TheSides
<1> QED BY <1>2, <1>3, <1>4, <1>5, <1>6, <1>7, <1>8, <1>9

\* The left leaf's array moves to the right one, or stays.
LEMMA MovedIs ==
  ASSUME TypeInv, NEW m \in Machines, TreeInv(m), pc[m] # "idle", NEW X, NEW a \in [Leaves -> X]
  PROVE  Moved(m, a) \in [Leaves -> X]
<1>1. Left(m) \in Leaves /\ Right(m) \in Leaves \cup {None}
  BY LeavesAre
<1>2. CASE Right(m) # None
  <2>1. a[Left(m)] \in X /\ a[Right(m)] \in X
    BY <1>1, <1>2
  <2> QED BY <2>1 DEF Moved
<1>3. CASE Right(m) = None
  BY <1>3 DEF Moved
<1> QED BY <1>2, <1>3

-----------------------------------------------------------------------------
(* Views of machines *)

LEMMA ViewIs ==
  ASSUME TypeInv, NEW m \in Machines
  PROVE  /\ Known(m) \in Views(job) /\ View(m) \in Views(job)
         /\ SmallIn(job, Known(m)) <=> TooSmall(m)
         /\ SmallIn(job, View(m)) <=> TooSmall(m)
         /\ View(m).stage = Known(m).stage /\ View(m).round = round[m] /\ View(m).tree = tree[m]
         /\ View(m).leaf = [s \in Sides |-> LeafOf(m, s)]
         /\ pc[m] \notin Searching => View(m) = Known(m)
         /\ TooSmall(m) => View(m) = Known(m)
<1> DEFINE st == IF pc[m] \in Searching THEN "search" ELSE pc[m]
           sz == IF job.mode = "feature" THEN part[m] ELSE counts[m]
           lf == [s \in Sides |-> LeafOf(m, s)]
<1>1. st \in Stages
  BY TypeParts DEF Stages
<1>2. sz \in IF job.mode = "feature" THEN [Leaves -> SUBSET Rows] ELSE [Leaves -> Nat]
  BY TypeParts
<1>3. lf \in [Sides -> Int]
  <2>1. \A l \in Leaves \cup {None} : l \in Int
    BY DEF Leaves, None
  <2> QED BY <2>1, TypeParts
<1>4. round[m] \in Nat /\ tree[m] \in Seq(Made) /\ best[m] \in [Leaves -> Splits]
  BY TypeParts
<1> DEFINE K == [round |-> round[m], stage |-> st, tree |-> tree[m], sizes |-> sz, leaf |-> lf, best |-> best[m]]
<1>5. Known(m) = K
  BY DEF Known
<1> HIDE DEF st, sz, lf
<1>6. K \in Views(job) /\ K.stage = st /\ K.tree = tree[m] /\ K.sizes = sz /\ K.leaf = lf /\ K.round = round[m]
  BY <1>1, <1>2, <1>3, <1>4 DEF Views
<1> HIDE DEF K
<1>7. ASSUME NEW v, v.sizes = sz, v.tree = tree[m] PROVE SmallIn(job, v) <=> TooSmall(m)
  <2>1. LeftIn(v) = Left(m) /\ RightIn(v) = Right(m)
    BY <1>7 DEF LeftIn, RightIn, Left, Right
  <2>2. \A l : Size(job, v, l) = CountIn(m, l)
    BY <1>7 DEF Size, CountIn, sz
  <2> QED BY <2>1, <2>2 DEF SmallIn, TooSmall
<1>8. /\ View(m) \in Views(job)
      /\ View(m).round = K.round /\ View(m).stage = K.stage
      /\ View(m).tree = K.tree /\ View(m).sizes = K.sizes /\ View(m).leaf = K.leaf
      /\ ~(K.stage = "search" /\ ~SmallIn(job, K)) => View(m) = K
  BY <1>5, <1>6, MaskedIs DEF View
<1>9. (SmallIn(job, K) <=> TooSmall(m)) /\ (SmallIn(job, View(m)) <=> TooSmall(m))
  BY <1>6, <1>7, <1>8
<1>10. pc[m] \notin Searching => st # "search"
  BY DEF st, Searching
<1> QED BY <1>5, <1>6, <1>8, <1>9, <1>10 DEF lf

\* A machine between two searches' collectives is where it has to wait.
LEMMA Waits ==
  ASSUME TypeInv, NEW m \in Machines,
         pc[m] = "sum" \/ (pc[m] \in Searching /\ ~TooSmall(m))
  PROVE  ~Can(job, View(m))
<1>1. CASE pc[m] = "sum"
  <2>1. View(m).stage = "sum"
    BY <1>1, ViewIs DEF Known, Searching
  <2> QED BY <2>1 DEF Can
<1>2. CASE pc[m] \in Searching /\ ~TooSmall(m)
  <2>1. View(m).stage = "search" /\ ~SmallIn(job, View(m))
    BY <1>2, ViewIs DEF Known
  <2> QED BY <2>1 DEF Can
<1> QED BY <1>1, <1>2

\* All that wait are at the same place.
LEMMA AllMeet ==
  ASSUME TypeInv, RunInv,
         \A m \in Machines : pc[m] = "sum" \/ (pc[m] \in Searching /\ ~TooSmall(m))
  PROVE  \A m, n \in Machines : View(m) = View(n)
<1> SUFFICES ASSUME NEW m \in Machines, NEW n \in Machines PROVE View(m) = View(n)
  OBVIOUS
<1>1. View(m) \in Views(job) /\ View(n) \in Views(job)
  BY ViewIs
<1>2. ~Can(job, View(m)) /\ ~Can(job, View(n))
  BY Waits
<1>3. Reaches(job, View(m), View(n)) \/ Reaches(job, View(n), View(m))
  BY DEF RunInv
<1> QED BY <1>1, <1>2, <1>3, MeetInOne

\* One machine moves, and only as it can alone.
LEMMA OneMoves ==
  ASSUME TypeInv, RunInv, job' = job, NEW m \in Machines,
         \A n \in Machines : n # m => View(n)' = View(n),
         View(m)' = View(m) \/ (Can(job, View(m)) /\ View(m)' = After(job, View(m)))
  PROVE  RunInv'
<1> SUFFICES ASSUME NEW k \in Machines, NEW n \in Machines
             PROVE  Reaches(job, View(k)', View(n)') \/ Reaches(job, View(n)', View(k)')
  BY DEF RunInv, Machines
<1>1. \A x \in Machines : View(x) \in Views(job)
  BY ViewIs
<1>2. Reaches(job, View(k), View(n)) \/ Reaches(job, View(n), View(k))
  BY DEF RunInv
<1>3. CASE k = n
  BY <1>3, ReachesItself
<1>4. CASE View(m)' = View(m)
  <2>1. \A x \in Machines : View(x)' = View(x)
    BY <1>4
  <2> QED BY <1>2, <2>1
<1>5. CASE k # n /\ k = m /\ Can(job, View(m)) /\ View(m)' = After(job, View(m))
  <2>1. View(n)' = View(n) /\ View(k)' = After(job, View(k)) /\ Can(job, View(k))
    BY <1>5
  <2>2. Reaches(job, After(job, View(k)), View(n)) \/ Reaches(job, View(n), After(job, View(k)))
    BY <1>1, <1>2, <2>1, StillInLine
  <2> QED BY <2>1, <2>2
<1>6. CASE k # n /\ n = m /\ Can(job, View(m)) /\ View(m)' = After(job, View(m))
  <2>1. View(k)' = View(k) /\ View(n)' = After(job, View(n)) /\ Can(job, View(n))
    BY <1>6
  <2>2. Reaches(job, After(job, View(n)), View(k)) \/ Reaches(job, View(k), After(job, View(n)))
    BY <1>1, <1>2, <2>1, StillInLine
  <2> QED BY <2>1, <2>2
<1>7. CASE k # m /\ n # m
  <2>1. View(k)' = View(k) /\ View(n)' = View(n)
    BY <1>7
  <2> QED BY <1>2, <2>1
<1> QED BY <1>3, <1>4, <1>5, <1>6, <1>7

\* All machines are in one place.
LEMMA AllMove ==
  ASSUME job' = job, \A m, n \in Machines : View(m)' = View(n)'
  PROVE  RunInv'
<1> SUFFICES ASSUME NEW k \in Machines, NEW n \in Machines
             PROVE  Reaches(job, View(k)', View(n)') \/ Reaches(job, View(n)', View(k)')
  BY DEF RunInv, Machines
<1>1. View(k)' = View(n)'
  OBVIOUS
<1> QED BY <1>1, ReachesItself

\* What a step leaves to machine m.
Kept(m) ==
  /\ job' = job /\ round'[m] = round[m] /\ pc'[m] = pc[m] /\ tree'[m] = tree[m]
  /\ part'[m] = part[m] /\ counts'[m] = counts[m] /\ pair'[m] = pair[m]
  /\ layout'[m] = layout[m] /\ votes'[m] = votes[m] /\ got'[m] = got[m] /\ best'[m] = best[m]

LEMMA KeptIs ==
  ASSUME NEW m, Kept(m)
  PROVE  /\ TreeInv(m)' <=> TreeInv(m)
         /\ ExchangeInv(m)' <=> ExchangeInv(m)
         /\ View(m)' = View(m)
<1>1. \A l : CountIn(m, l)' = CountIn(m, l)
  BY DEF Kept, CountIn
<1>2. Left(m)' = Left(m) /\ Right(m)' = Right(m)
  BY DEF Kept, Left, Right
<1>3. TooSmall(m)' <=> TooSmall(m)
  BY <1>1, <1>2 DEF TooSmall
<1>4. \A s : LeafOf(m, s)' = LeafOf(m, s)
  BY DEF Kept, LeafOf
<1>5. SmallerLeaf(m)' = SmallerLeaf(m)
  BY DEF Kept, SmallerLeaf
<1>6. TreeInv(m)' <=> TreeInv(m)
  BY <1>3, <1>4, <1>5 DEF Kept, TreeInv
<1>7. ExchangeInv(m)' <=> ExchangeInv(m)
  BY <1>4 DEF Kept, ExchangeInv
<1>8. Known(m)' = Known(m)
  BY <1>4 DEF Kept, Known
<1>9. job' = job
  BY DEF Kept
<1>10. View(m)' = View(m)
  BY <1>8, <1>9 DEF View
<1> QED BY <1>6, <1>7, <1>10

-----------------------------------------------------------------------------
(* Steps of one machine *)

LEMMA StepKeeps ==
  ASSUME IInv, NEW m \in Machines, job' = job, TypeInv', ExchangeTypes',
         \A n \in Machines : n # m => Kept(n),
         TreeInv(m)', ExchangeInv(m)',
         View(m)' = View(m) \/ (Can(job, View(m)) /\ View(m)' = After(job, View(m)))
  PROVE  IInv'
<1>1. TypeInv /\ RunInv /\ \A n \in Machines : TreeInv(n) /\ ExchangeInv(n)
  BY DEF IInv
<1>2. Machines' = Machines
  BY DEF Machines
<1>3. \A n \in Machines : TreeInv(n)' /\ ExchangeInv(n)'
  BY <1>1, KeptIs
<1>4. RunInv'
  <2>1. \A n \in Machines : n # m => View(n)' = View(n)
    BY KeptIs
  <2> QED BY <1>1, <2>1, OneMoves
<1> QED BY <1>2, <1>3, <1>4 DEF IInv

\* What the tree and the rows of a machine are when a tree is begun.
LEMMA BeforeTrainKeeps ==
  ASSUME IInv, NEW m \in Machines, BeforeTrain(m)
  PROVE  IInv'
<1> DEFINE bag == job.plan[round[m] + 1].bag
           fs == job.plan[round[m] + 1].used
           mine == IF job.mode = "feature" THEN bag ELSE bag \cap job.own[m]
           us == IF job.mode = "feature" THEN Range(FeatureDistribution(fs)[m]) ELSE fs
           lay == IF job.mode = "data" THEN PrepareBufferPos(fs) ELSE <<>>
           rows == [l \in Leaves |-> IF l = 0 THEN mine ELSE {}]
           pr == [smaller |-> [leaf |-> 0, sum |-> mine], larger |-> [leaf |-> None, sum |-> {}]]
           nosplits == [l \in Leaves |-> NoSplit]
           at == IF job.mode = "feature" THEN "search" ELSE "sum"
<1>1. TypeInv /\ ExchangeTypes /\ TreeInv(m) /\ ExchangeInv(m) /\ IsJob(job) /\ Machines' = Machines
  BY TypeParts DEF IInv, BeforeTrain, Machines
<1>2. /\ pc[m] = "idle" /\ round[m] < Len(job.plan)
      /\ round' = [round EXCEPT ![m] = @ + 1] /\ used' = [used EXCEPT ![m] = us]
      /\ layout' = [layout EXCEPT ![m] = lay] /\ part' = [part EXCEPT ![m] = rows]
      /\ pair' = [pair EXCEPT ![m] = pr] /\ tree' = [tree EXCEPT ![m] = <<>>]
      /\ best' = [best EXCEPT ![m] = nosplits] /\ pc' = [pc EXCEPT ![m] = at]
      /\ job' = job /\ counts' = counts /\ hist' = hist /\ splittable' = splittable
      /\ votes' = votes /\ got' = got
  BY DEF BeforeTrain
<1>3. round[m] \in Nat /\ NumLeaves - 1 \in Nat /\ 0 < NumLeaves - 1
  BY <1>1, TypeParts, ParallelAssumption
<1>4. bag \in SUBSET Rows /\ fs \in SUBSET Features
  <2> DEFINE Plans == [bag : SUBSET Rows, used : SUBSET Features]
  <2>1. job.plan \in Seq(Plans)
    BY <1>1 DEF IsJob
  <2> HIDE DEF Plans
  <2>2. round[m] + 1 \in 1..Len(job.plan)
    BY <1>2, <1>3, <2>1
  <2>3. job.plan[round[m] + 1] \in Plans
    BY <2>1, <2>2
  <2> QED BY <2>3 DEF Plans
<1> HIDE DEF bag, fs
<1>5. mine \in SUBSET Rows
  BY <1>4
<1>6. us \in SUBSET Features
  <2>1. FeatureDistribution(fs)[m] \in Seq(fs)
    BY <1>4, FeatureDistributionIs
  <2>2. Range(FeatureDistribution(fs)[m]) \subseteq fs
    BY <2>1 DEF Range
  <2> QED BY <1>4, <2>2
<1>7. \A n \in DOMAIN lay : lay[n].side = "smaller" /\ lay[n].feature \in Features
  <2>1. DOMAIN <<>> = {}
    OBVIOUS
  <2>2. CASE job.mode = "data"
    BY <1>1, <1>4, <2>2, PrepareBufferPosIs
  <2>3. CASE job.mode # "data"
    BY <2>1, <2>3
  <2> QED BY <2>2, <2>3
<1>8. pr \in [Sides -> LeafSums] /\ pr["smaller"].leaf = 0 /\ pr["larger"].leaf = None
  <2>1. 0 \in Leaves
    BY <1>3 DEF Leaves
  <2>2. mine \in Heaps /\ {} \in Heaps
    BY <1>5, HeapsAre
  <2> HIDE DEF mine
  <2>3. [leaf |-> 0, sum |-> mine] \in LeafSums /\ [leaf |-> None, sum |-> {}] \in LeafSums
    BY <2>1, <2>2 DEF LeafSums
  <2> QED BY <2>3 DEF Sides
<1>9. rows \in [Leaves -> SUBSET Rows]
  BY <1>5
<1>10. nosplits \in [Leaves -> Splits] /\ \A l \in Leaves : nosplits[l].gain <= 0
  BY DEF Splits, NoSplit, MinScore
<1>11. at \in Stages /\ at \in {"search", "sum"}
  BY DEF Stages
<1> HIDE DEF mine, us, lay, rows, pr, nosplits, at
<1>12. TypeInv'
  <2>1. round' \in [Machines -> Nat] /\ pc' \in [Machines -> Stages]
    BY <1>1, <1>2, <1>3, <1>11 DEF TypeInv
  <2>2. tree' \in [Machines -> Seq(Made)] /\ part' \in [Machines -> [Leaves -> SUBSET Rows]]
    BY <1>1, <1>2, <1>9 DEF TypeInv
  <2>3. pair' \in [Machines -> [Sides -> LeafSums]] /\ used' \in [Machines -> SUBSET Features]
    BY <1>1, <1>2, <1>6, <1>8 DEF TypeInv
  <2>4. best' \in [Machines -> [Leaves -> Splits]]
    BY <1>1, <1>2, <1>10 DEF TypeInv
  <2> QED BY <1>1, <1>2, <2>1, <2>2, <2>3, <2>4 DEF TypeInv
<1>13. ExchangeTypes'
  BY <1>1, <1>2 DEF ExchangeTypes
<1>14. /\ round'[m] = round[m] + 1 /\ pc'[m] = at /\ tree'[m] = <<>> /\ part'[m] = rows
       /\ pair'[m] = pr /\ layout'[m] = lay /\ best'[m] = nosplits
  BY <1>1, <1>2 DEF TypeInv, ExchangeTypes
<1>15. \A n \in Machines : n # m => Kept(n)
  BY <1>1, <1>2 DEF TypeInv, ExchangeTypes, Kept
<1>16. TreeInv(m)'
  <2>1. round'[m] <= Len(job'.plan)
    BY <1>2, <1>3, <1>14, <1>1 DEF IsJob
  <2>2. Len(tree'[m]) = 0 /\ DOMAIN tree'[m] = {}
    BY <1>14
  <2>3. \A s \in Sides : pr[s].leaf <= 0
    BY <1>8 DEF Sides, None
  <2> QED BY <1>2, <1>3, <1>8, <1>10, <1>11, <1>14, <2>1, <2>2, <2>3 DEF TreeInv, LeafOf, SmallerLeaf, Searching, None
<1>17. ExchangeInv(m)'
  <2>1. \A s \in Sides : Len(votes'[m][s]) <= TopK
    BY <1>1, <1>2 DEF ExchangeInv
  <2>2. \A x \in DOMAIN got'[m] :
          /\ x \in Sides \X Features /\ got'[m][x] \in Heaps
          /\ job'.mode # "voting" => x[1] = "smaller"
    BY <1>1, <1>2 DEF ExchangeInv
  <2>3. pc'[m] \notin {"gather", "copy", "scatter"}
    BY <1>11, <1>14
  <2> QED BY <1>7, <1>14, <2>1, <2>2, <2>3 DEF ExchangeInv, Sides
<1>18. Can(job, View(m)) /\ View(m)' = After(job, View(m))
  <2>1. View(m) = Known(m) /\ Known(m).stage = "idle" /\ Known(m).round = round[m]
    BY <1>1, <1>2, ViewIs DEF Searching, Known
  <2>2. Can(job, View(m))
    BY <1>2, <2>1 DEF Can
  <2>3. Known(m)' = Begun(job, Known(m))
    <3>1. (IF pc'[m] \in Searching THEN "search" ELSE pc'[m]) = at
      BY <1>11, <1>14 DEF Searching
    <3>2. (IF job'.mode = "feature" THEN part'[m] ELSE counts'[m])
          = IF job.mode = "feature" THEN [l \in Leaves |-> IF l = 0 THEN job.plan[round[m] + 1].bag ELSE {}]
            ELSE counts[m]
      BY <1>2, <1>14 DEF rows, mine, bag
    <3>3. [s \in Sides |-> LeafOf(m, s)'] = [s \in Sides |-> IF s = "smaller" THEN 0 ELSE None]
      BY <1>8, <1>14 DEF LeafOf, Sides
    <3>4. Known(m).sizes = IF job.mode = "feature" THEN part[m] ELSE counts[m]
      BY DEF Known
    <3>5. Known(m)' = [round |-> round[m] + 1, stage |-> at, tree |-> <<>>,
                       sizes |-> IF job.mode = "feature"
                                   THEN [l \in Leaves |-> IF l = 0 THEN job.plan[round[m] + 1].bag ELSE {}]
                                   ELSE counts[m],
                       leaf |-> [s \in Sides |-> IF s = "smaller" THEN 0 ELSE None],
                       best |-> nosplits]
      BY <1>14, <3>1, <3>2, <3>3 DEF Known
    <3> QED BY <2>1, <3>4, <3>5 DEF Begun, at, nosplits
  <2>4. View(m)' = Masked(job, Begun(job, Known(m)))
    BY <1>2, <2>3 DEF View
  <2> QED BY <2>1, <2>2, <2>4 DEF After
<1> QED BY <1>2, <1>12, <1>13, <1>15, <1>16, <1>17, <1>18, StepKeeps

-----------------------------------------------------------------------------
\* A step of a search shows to nobody: it changes the splits of the leaves
\* searched and nothing else that others will know.
LEMMA SearchGoesOn ==
  ASSUME TypeInv, NEW m \in Machines, TreeInv(m), job' = job,
         pc[m] \in Searching, pc'[m] \in Searching, ~TooSmall(m),
         round'[m] = round[m], tree'[m] = tree[m], part'[m] = part[m], counts'[m] = counts[m],
         pair'[m] = pair[m], best'[m] \in [Leaves -> Splits],
         \A l \in Leaves : (\A s \in Sides : LeafOf(m, s) # l) => best'[m][l] = best[m][l]
  PROVE  View(m)' = View(m) /\ TreeInv(m)'
<1>1. \A l : CountIn(m, l)' = CountIn(m, l)
  BY DEF CountIn
<1>2. Left(m)' = Left(m) /\ Right(m)' = Right(m)
  BY DEF Left, Right
<1>3. ~TooSmall(m)'
  BY <1>1, <1>2 DEF TooSmall
<1>4. \A s : LeafOf(m, s)' = LeafOf(m, s)
  BY DEF LeafOf
<1>5. TreeInv(m)'
  <2>1. pc[m] # "idle"
    BY DEF Searching
  <2>2. SmallerLeaf(m)' = SmallerLeaf(m)
    BY DEF SmallerLeaf
  <2>3. ASSUME NEW l \in Leaves, l > Len(tree[m]) PROVE best'[m][l].gain <= 0
    <3>1. \A s \in Sides : LeafOf(m, s) <= Len(tree[m]) /\ LeafOf(m, s) \in Leaves \cup {None}
      BY <2>1, TypeParts DEF TreeInv
    <3>2. \A s \in Sides : LeafOf(m, s) # l
      <4>1. l \in Int /\ Len(tree[m]) \in Int
        BY TypeParts DEF Leaves
      <4> QED BY <2>3, <3>1, <4>1
    <3> QED BY <2>3, <3>2 DEF TreeInv
  <2> QED BY <1>3, <1>4, <2>1, <2>2, <2>3 DEF TreeInv
<1>6. Known(m).stage = "search" /\ Known(m)' = [Known(m) EXCEPT !.best = best'[m]]
  <2>1. [s \in Sides |-> LeafOf(m, s)'] = [s \in Sides |-> LeafOf(m, s)]
    BY <1>4
  <2> DEFINE sz == IF job.mode = "feature" THEN part[m] ELSE counts[m]
             lf == [s \in Sides |-> LeafOf(m, s)]
             rec(b) == [round |-> round[m], stage |-> "search", tree |-> tree[m], sizes |-> sz,
                        leaf |-> lf, best |-> b]
  <2>2. Known(m) = rec(best[m])
    BY DEF Known
  <2>3. Known(m)' = rec(best'[m])
    <3>1. (IF job'.mode = "feature" THEN part'[m] ELSE counts'[m]) = sz
      OBVIOUS
    <3> QED BY <2>1, <3>1 DEF Known
  <2> HIDE DEF sz, lf
  <2> QED BY <2>2, <2>3
<1> DEFINE K == Known(m)
           K2 == [K EXCEPT !.best = best'[m]]
<1>7. K \in Views(job) /\ (SmallIn(job, K) <=> TooSmall(m)) /\ K.best = best[m]
      /\ K.leaf = [s \in Sides |-> LeafOf(m, s)]
  BY ViewIs DEF Known
<1> HIDE DEF K
<1>8. /\ K2.stage = K.stage /\ K2.leaf = K.leaf /\ K2.tree = K.tree /\ K2.sizes = K.sizes
      /\ K2.round = K.round /\ K2.best = best'[m] /\ K2 \in Views(job)
  BY <1>7 DEF Views
<1>9. SmallIn(job, K2) <=> SmallIn(job, K)
  BY <1>8 DEF SmallIn, Size, LeftIn, RightIn
<1> DEFINE hidden(l) == \E s \in Sides : K.leaf[s] = l
           b == [l \in Leaves |-> IF hidden(l) THEN NoSplit ELSE best[m][l]]
<1>10. \A l \in Leaves : ~hidden(l) => best'[m][l] = best[m][l]
  BY <1>7
<1>11. Masked(job, K) = [K EXCEPT !.best = b]
  <2>1. K.stage = "search" /\ ~SmallIn(job, K)
    BY <1>6, <1>7 DEF K
  <2> QED BY <2>1, <1>7 DEF Masked
<1>12. Masked(job, K2) = [K2 EXCEPT !.best = b]
  <2>1. K2.stage = "search" /\ ~SmallIn(job, K2)
    BY <1>6, <1>7, <1>8, <1>9 DEF K
  <2>2. [l \in Leaves |-> IF K2.stage = "search" /\ ~SmallIn(job, K2) /\ \E s \in Sides : K2.leaf[s] = l
                            THEN NoSplit ELSE K2.best[l]] = b
    <3> HIDE DEF K2, hidden
    <3>1. \A l \in Leaves : (K2.stage = "search" /\ ~SmallIn(job, K2) /\ \E s \in Sides : K2.leaf[s] = l) <=> hidden(l)
      BY <2>1, <1>8 DEF hidden
    <3> QED BY <3>1, <1>8, <1>10
  <2> HIDE DEF K2, b
  <2> QED BY <2>2 DEF Masked
<1>13. [K2 EXCEPT !.best = b] = [K EXCEPT !.best = b]
  <2> HIDE DEF b
  <2> QED BY <1>7 DEF Views
<1>14. View(m)' = Masked(job, K2)
  BY <1>6 DEF View, K
<1> QED BY <1>5, <1>11, <1>12, <1>13, <1>14 DEF View, K

\* The histograms of the smaller leaf are built.
LEMMA WithSmallerIs ==
  ASSUME TypeInv, NEW m \in Machines, TreeInv(m), pc[m] # "idle",
         NEW a \in [Leaves -> [Features -> Heaps]], NEW fs
  PROVE  WithSmaller(m, a, fs) \in [Leaves -> [Features -> Heaps]]
<1> DEFINE H == [Features -> Heaps]
           x == SmallerLeaf(m)
           new == [f \in Features |-> IF f \in fs THEN part[m][x] ELSE a[x][f]]
<1>1. x \in Leaves
  BY LeavesAre
<1>2. part[m][x] \in Heaps /\ a[x] \in H
  BY <1>1, TypeParts, HeapsAre
<1>3. new \in H
  BY <1>2
<1>4. WithSmaller(m, a, fs) = [a EXCEPT ![x] = new]
  BY DEF WithSmaller
<1>5. a \in [Leaves -> H]
  OBVIOUS
<1> HIDE DEF new, x, H
<1>6. WithSmaller(m, a, fs) \in [Leaves -> H]
  BY <1>3, <1>4, <1>5
<1> QED BY <1>6 DEF H

LEMMA FindBestSplitsKeeps ==
  ASSUME IInv, NEW m \in Machines, FindBestSplits(m)
  PROVE  IInv'
<1> DEFINE h == WithSmaller(m, Moved(m, hist[m]), used[m])
<1>1. TypeInv /\ ExchangeTypes /\ TreeInv(m) /\ ExchangeInv(m) /\ IsJob(job) /\ Machines' = Machines
  BY TypeParts DEF IInv, FindBestSplits, Machines
<1>2. /\ pc[m] = "search" /\ ~TooSmall(m) /\ job.mode = "data"
      /\ hist' = [hist EXCEPT ![m] = h] /\ pc' = [pc EXCEPT ![m] = "scatter"]
      /\ job' = job /\ round' = round /\ tree' = tree /\ part' = part /\ counts' = counts
      /\ pair' = pair /\ splittable' = splittable /\ used' = used /\ layout' = layout
      /\ votes' = votes /\ got' = got /\ best' = best
  BY DEF FindBestSplits
<1>3. h \in [Leaves -> [Features -> Heaps]]
  <2>1. pc[m] # "idle" /\ hist[m] \in [Leaves -> [Features -> Heaps]]
    BY <1>1, <1>2, TypeParts
  <2> QED BY <1>1, <2>1, MovedIs, WithSmallerIs
<1> HIDE DEF h
<1>4. TypeInv'
  <2>1. hist' \in [Machines -> [Leaves -> [Features -> Heaps]]] /\ pc' \in [Machines -> Stages]
    BY <1>1, <1>2, <1>3 DEF TypeInv, Stages
  <2> QED BY <1>1, <1>2, <2>1 DEF TypeInv
<1>5. ExchangeTypes'
  BY <1>1, <1>2 DEF ExchangeTypes
<1>6. \A n \in Machines : n # m => Kept(n)
  BY <1>1, <1>2 DEF TypeInv, Kept
<1>7. pc'[m] = "scatter"
  BY <1>1, <1>2 DEF TypeInv
<1>8. View(m)' = View(m) /\ TreeInv(m)'
  <2>1. pc[m] \in Searching /\ pc'[m] \in Searching
    BY <1>2, <1>7 DEF Searching
  <2>2. best'[m] \in [Leaves -> Splits]
    BY <1>1, <1>2, TypeParts
  <2> QED BY <1>1, <1>2, <2>1, <2>2, SearchGoesOn
<1>9. ExchangeInv(m)'
  <2>1. \A s : LeafOf(m, s)' = LeafOf(m, s)
    BY <1>2 DEF LeafOf
  <2>2. LeafOf(m, "smaller") # None
    <3>1. None \notin Leaves
      BY DEF Leaves, None
    <3>2. pc[m] # "idle"
      BY <1>2
    <3> QED BY <1>1, <3>1, <3>2, LeavesAre
  <2>3. ExchangeInv(m)
    BY <1>1
  <2> QED BY <1>2, <1>7, <2>1, <2>2, <2>3 DEF ExchangeInv
<1> QED BY <1>2, <1>4, <1>5, <1>6, <1>8, <1>9, StepKeeps

\* What the search of a machine's own rows or features finds.
LEMMA LocalIs ==
  ASSUME TypeInv, NEW m \in Machines, TreeInv(m), pc[m] # "idle", SearchLocally(m)
  PROVE  /\ hist' \in [Machines -> [Leaves -> [Features -> Heaps]]]
         /\ splittable' \in [Machines -> [Leaves -> [Features -> BOOLEAN]]]
         /\ \A n \in Machines : n # m => hist'[n] = hist[n] /\ splittable'[n] = splittable[n]
         /\ Worth(m) \in SUBSET Features
         /\ \A s \in TheSides(m), f \in Features :
              LocalSplit(m, s, f) \in Found /\ LocalSplit(m, s, f).feature = f
<1> DEFINE H == [Features -> Heaps]
           h == WithSmaller(m, Moved(m, hist[m]), Worth(m))
           x == LargerLeaf(m)
           y == SmallerLeaf(m)
           new == [f \in Features |-> IF f \in Worth(m) THEN Minus(ParentHistogram(m, h[x][f]), h[y][f])
                                      ELSE h[x][f]]
<1>1. /\ hist' = [hist EXCEPT ![m] = LocalHistograms(m)]
      /\ splittable' = [splittable EXCEPT ![m] = SplittableAfter(m)]
  BY DEF SearchLocally
<1>2. hist[m] \in [Leaves -> H] /\ splittable[m] \in [Leaves -> [Features -> BOOLEAN]]
      /\ used[m] \in SUBSET Features
  BY TypeParts
<1>3. h \in [Leaves -> H]
  BY <1>2, MovedIs, WithSmallerIs
<1>4. x \in Leaves \cup {None} /\ y \in Leaves
  BY LeavesAre
<1>5. LocalHistograms(m) = IF Right(m) = None THEN h ELSE [h EXCEPT ![x] = new]
  BY DEF LocalHistograms
<1> HIDE DEF h, H
<1>6. LocalHistograms(m) \in [Leaves -> H]
  <2>1. CASE x \in Leaves
    <3>1. h[x] \in [Features -> Heaps] /\ h[y] \in [Features -> Heaps]
      BY <1>3, <1>4, <2>1 DEF H
    <3>2. \A g \in Heaps : ParentHistogram(m, g) \in Heaps
      BY HeapsAre DEF ParentHistogram
    <3>3. \A f \in Features : Minus(ParentHistogram(m, h[x][f]), h[y][f]) \in Heaps
      BY <3>1, <3>2, HeapsAre
    <3>4. new \in H
      BY <3>1, <3>3 DEF H
    <3> HIDE DEF new
    <3> QED BY <1>3, <1>5, <3>4
  <2>2. CASE x \notin Leaves
    <3> HIDE DEF new
    <3>1. [h EXCEPT ![x] = new] = h
      BY <1>3, <2>2
    <3> QED BY <1>3, <1>5, <3>1
  <2> QED BY <2>1, <2>2
<1> HIDE DEF x, y, new
<1>7. SplittableAfter(m) \in [Leaves -> [Features -> BOOLEAN]]
  <2> DEFINE old == Moved(m, splittable[m])
             finds(l, f) == f \in Worth(m) /\ \E s \in TheSides(m) : LeafOf(m, s) = l /\ LocalSplit(m, s, f).gain > 0
             keeps(l, f) == f \notin used[m] \/ \A s \in TheSides(m) : LeafOf(m, s) # l
  <2>1. old \in [Leaves -> [Features -> BOOLEAN]]
    BY <1>2, MovedIs
  <2>2. SplittableAfter(m) = [l \in Leaves |-> [f \in Features |-> IF keeps(l, f) THEN old[l][f] ELSE finds(l, f)]]
    BY DEF SplittableAfter
  <2>3. \A l, f : finds(l, f) \in BOOLEAN
    OBVIOUS
  <2> HIDE DEF old, finds, keeps
  <2>4. \A l \in Leaves, f \in Features : (IF keeps(l, f) THEN old[l][f] ELSE finds(l, f)) \in BOOLEAN
    BY <2>1, <2>3
  <2> QED BY <2>2, <2>4
<1>8. Worth(m) \in SUBSET Features
  BY <1>2 DEF Worth
<1>9. hist'[m] \in [Leaves -> [Features -> Heaps]] /\ hist' \in [Machines -> [Leaves -> [Features -> Heaps]]]
  BY <1>1, <1>6 DEF TypeInv, H
<1>10. splittable' \in [Machines -> [Leaves -> [Features -> BOOLEAN]]]
  BY <1>1, <1>7 DEF TypeInv
<1>11. \A n \in Machines : n # m => hist'[n] = hist[n] /\ splittable'[n] = splittable[n]
  BY <1>1 DEF TypeInv
<1>12. ASSUME NEW s \in TheSides(m), NEW f \in Features
       PROVE  LocalSplit(m, s, f) \in Found /\ LocalSplit(m, s, f).feature = f
  <2>1. s \in Sides /\ LeafOf(m, s) \in Leaves
    BY LeavesAre
  <2>2. hist'[m][LeafOf(m, s)][f] \in Heaps
    BY <1>9, <2>1
  <2>3. part[m][LeafOf(m, s)] \in Heaps /\ pair[m][s].sum \in Heaps
    BY <2>1, TypeParts, HeapsAre
  <2>4. LocalSum(m, s) \in Heaps
    BY <2>3 DEF LocalSum
  <2>5. Cardinality(part[m][LeafOf(m, s)]) \in Nat
    BY <2>1, TypeParts, Finite
  <2>6. LocalMin \in Nat
    <3>1. MinData \in Nat /\ Cardinality(Machines) \in Nat /\ Cardinality(Machines) # 0
      BY ParallelAssumption, MachinesAre, TypeParts
    <3>2. MinData \div Cardinality(Machines) \in Nat
      BY <3>1, Division
    <3> QED BY <3>1, <3>2 DEF LocalMin
  <2> QED BY <2>2, <2>4, <2>5, <2>6, TypeParts, SplitOfIs DEF LocalSplit
<1> QED BY <1>8, <1>9, <1>10, <1>11, <1>12

-----------------------------------------------------------------------------
LEMMA FindBestOfOwnFeaturesKeeps ==
  ASSUME IInv, NEW m \in Machines, FindBestOfOwnFeatures(m)
  PROVE  IInv'
<1> DEFINE of(l) == {LocalSplit(m, s, f) : f \in Worth(m), s \in {x \in TheSides(m) : LeafOf(m, x) = l}}
           b == [l \in Leaves |-> IF \E s \in TheSides(m) : LeafOf(m, s) = l
                                    THEN BestOf({NoSplit} \cup of(l)) ELSE best[m][l]]
<1>1. TypeInv /\ ExchangeTypes /\ TreeInv(m) /\ ExchangeInv(m) /\ IsJob(job) /\ Machines' = Machines
  BY TypeParts DEF IInv, FindBestOfOwnFeatures, Machines
<1>2. /\ pc[m] = "search" /\ ~TooSmall(m) /\ job.mode = "feature" /\ SearchLocally(m)
      /\ best' = [best EXCEPT ![m] = b] /\ pc' = [pc EXCEPT ![m] = "best"]
      /\ job' = job /\ round' = round /\ tree' = tree /\ part' = part /\ counts' = counts
      /\ pair' = pair /\ used' = used /\ layout' = layout /\ votes' = votes /\ got' = got
  BY DEF FindBestOfOwnFeatures
<1>3. pc[m] # "idle"
  BY <1>2
<1>4. /\ hist' \in [Machines -> [Leaves -> [Features -> Heaps]]]
      /\ splittable' \in [Machines -> [Leaves -> [Features -> BOOLEAN]]]
      /\ \A n \in Machines : n # m => hist'[n] = hist[n] /\ splittable'[n] = splittable[n]
      /\ Worth(m) \in SUBSET Features
      /\ \A s \in TheSides(m), f \in Features :
           LocalSplit(m, s, f) \in Found /\ LocalSplit(m, s, f).feature = f
  BY <1>1, <1>2, <1>3, LocalIs
<1>5. ASSUME NEW l \in Leaves PROVE BestOf({NoSplit} \cup of(l)) \in Splits
  <2> DEFINE T(s) == IF s \in TheSides(m) THEN {LocalSplit(m, s, f) : f \in Worth(m)} ELSE {}
  <2>1. ASSUME NEW s PROVE IsFiniteSet(T(s))
    <3>1. CASE s \in TheSides(m)
      <4> DEFINE F == [f \in Worth(m) |-> LocalSplit(m, s, f)]
      <4>1. F \in [Worth(m) -> Splits]
        BY <1>4, <3>1 DEF Splits
      <4>2. T(s) = {F[f] : f \in Worth(m)}
        BY <3>1
      <4> HIDE DEF F, T
      <4> QED BY <1>4, <4>1, <4>2, FiniteSplits
    <3>2. CASE s \notin TheSides(m)
      BY <3>2, FS_EmptySet
    <3> QED BY <3>1, <3>2
  <2> DEFINE all == T("smaller") \cup T("larger") \cup {NoSplit}
             ss == {NoSplit} \cup of(l)
  <2>2. IsFiniteSet(all)
    <3> HIDE DEF T
    <3> QED BY <2>1, FS_Union, FS_AddElement
  <2>3. ss \subseteq all
    <3>1. \A s \in TheSides(m) : s = "smaller" \/ s = "larger"
      BY DEF TheSides, Sides
    <3> QED BY <3>1
  <2>4. ss \subseteq Splits
    BY <1>4 DEF Splits
  <2>5. NoSplit \in ss
    OBVIOUS
  <2> HIDE DEF all, ss
  <2>6. IsFiniteSet(ss)
    BY <2>2, <2>3, FS_Subset
  <2>7. BestOf(ss) \in Splits
    BY <2>4, <2>5, <2>6, BestOfIs
  <2> QED BY <2>7 DEF ss
<1>6. b \in [Leaves -> Splits]
  <2>1. best[m] \in [Leaves -> Splits]
    BY <1>1, TypeParts
  <2> HIDE DEF of
  <2> QED BY <1>5, <2>1
<1>7. \A l \in Leaves : (\A s \in Sides : LeafOf(m, s) # l) => b[l] = best[m][l]
  BY DEF TheSides
<1> HIDE DEF b
<1>8. best'[m] = b /\ pc'[m] = "best" /\ \A n \in Machines : n # m => best'[n] = best[n] /\ pc'[n] = pc[n]
  BY <1>1, <1>2 DEF TypeInv
<1>9. TypeInv'
  <2>1. best' \in [Machines -> [Leaves -> Splits]] /\ pc' \in [Machines -> Stages]
    BY <1>1, <1>2, <1>6 DEF TypeInv, Stages
  <2> QED BY <1>1, <1>2, <1>4, <2>1 DEF TypeInv
<1>10. ExchangeTypes'
  BY <1>1, <1>2 DEF ExchangeTypes
<1>11. \A n \in Machines : n # m => Kept(n)
  BY <1>2, <1>8 DEF Kept
<1>12. View(m)' = View(m) /\ TreeInv(m)'
  <2>1. pc[m] \in Searching /\ pc'[m] \in Searching
    BY <1>2, <1>8 DEF Searching
  <2> QED BY <1>1, <1>2, <1>6, <1>7, <1>8, <2>1, SearchGoesOn
<1>13. ExchangeInv(m)'
  <2>1. pc'[m] \notin {"gather", "copy", "scatter"}
    BY <1>8
  <2> QED BY <1>1, <1>2, <2>1 DEF ExchangeInv
<1> QED BY <1>2, <1>9, <1>10, <1>11, <1>12, <1>13, StepKeeps

LEMMA FindLocalVotesKeeps ==
  ASSUME IInv, NEW m \in Machines, FindLocalVotes(m)
  PROVE  IInv'
<1> DEFINE of(s) == {LocalSplit(m, s, f) : f \in Worth(m)}
           vs == [s \in Sides |-> IF s \in TheSides(m) THEN MaxK(of(s), TopK) ELSE <<>>]
<1>1. TypeInv /\ ExchangeTypes /\ TreeInv(m) /\ ExchangeInv(m) /\ IsJob(job) /\ Machines' = Machines
  BY TypeParts DEF IInv, FindLocalVotes, Machines
<1>2. /\ pc[m] = "search" /\ ~TooSmall(m) /\ job.mode = "voting" /\ SearchLocally(m)
      /\ votes' = [votes EXCEPT ![m] = vs] /\ pc' = [pc EXCEPT ![m] = "gather"]
      /\ job' = job /\ round' = round /\ tree' = tree /\ part' = part /\ counts' = counts
      /\ pair' = pair /\ used' = used /\ layout' = layout /\ best' = best /\ got' = got
  BY DEF FindLocalVotes
<1>3. pc[m] # "idle" /\ TopK \in Nat
  BY <1>2, ParallelAssumption
<1>4. /\ hist' \in [Machines -> [Leaves -> [Features -> Heaps]]]
      /\ splittable' \in [Machines -> [Leaves -> [Features -> BOOLEAN]]]
      /\ Worth(m) \in SUBSET Features
      /\ \A s \in TheSides(m), f \in Features :
           LocalSplit(m, s, f) \in Found /\ LocalSplit(m, s, f).feature = f
  BY <1>1, <1>2, <1>3, LocalIs
<1>5. ASSUME NEW s \in TheSides(m)
      PROVE  MaxK(of(s), TopK) \in Seq(Found) /\ Len(MaxK(of(s), TopK)) <= TopK
  <2> DEFINE F == [f \in Worth(m) |-> LocalSplit(m, s, f)]
  <2>1. F \in [Worth(m) -> Splits]
    BY <1>4 DEF Splits
  <2>2. of(s) = {F[f] : f \in Worth(m)}
    OBVIOUS
  <2>3. of(s) \subseteq Found /\ \A x, y \in of(s) : x.feature = y.feature => x = y
    BY <1>4
  <2> DEFINE ss == of(s)
  <2> HIDE DEF F, of
  <2>4. IsFiniteSet(ss)
    BY <1>4, <2>1, <2>2, FiniteSplits
  <2>5. \A x \in ss : Ranked(x)
    BY <2>3, SplitsAre DEF Splits
  <2>6. MaxK(ss, TopK) \in Seq(ss) /\ Len(MaxK(ss, TopK)) <= TopK
    <3>1. \A x, y \in ss : x.feature = y.feature => x = y
      BY <2>3
    <3> HIDE DEF ss
    <3> QED BY <1>3, <2>4, <2>5, <3>1, MaxKIs
  <2>7. ss \subseteq Found
    BY <2>3
  <2> HIDE DEF ss
  <2>8. MaxK(ss, TopK) \in Seq(Found)
    BY <2>6, <2>7
  <2> QED BY <2>6, <2>8 DEF ss
<1> HIDE DEF of
<1>6. vs \in [Sides -> Seq(Found)] /\ \A s \in Sides : Len(vs[s]) <= TopK
  <2>1. \A s \in Sides : s \in TheSides(m) => vs[s] = MaxK(of(s), TopK)
    OBVIOUS
  <2>2. \A s \in Sides : s \notin TheSides(m) => vs[s] = <<>>
    OBVIOUS
  <2>3. <<>> \in Seq(Found) /\ Len(<<>>) <= TopK
    BY <1>3
  <2>4. \A s \in Sides : vs[s] \in Seq(Found) /\ Len(vs[s]) <= TopK
    BY <1>5, <2>1, <2>2, <2>3
  <2>5. vs = [s \in Sides |-> vs[s]]
    OBVIOUS
  <2> HIDE DEF vs
  <2> QED BY <2>4, <2>5
<1>7. \A s \in Sides : LeafOf(m, s) = None => vs[s] = <<>>
  BY DEF TheSides
<1> HIDE DEF vs
<1>8. votes'[m] = vs /\ pc'[m] = "gather" /\ \A n \in Machines : n # m => votes'[n] = votes[n] /\ pc'[n] = pc[n]
  BY <1>1, <1>2 DEF TypeInv, ExchangeTypes
<1>9. TypeInv'
  <2>1. pc' \in [Machines -> Stages]
    BY <1>1, <1>2 DEF TypeInv, Stages
  <2> QED BY <1>1, <1>2, <1>4, <2>1 DEF TypeInv
<1>10. ExchangeTypes'
  <2>1. vs \in [Sides -> Seq(Found) \cup Seq(Vote)]
    BY <1>6
  <2> QED BY <1>1, <1>2, <2>1 DEF ExchangeTypes
<1>11. \A n \in Machines : n # m => Kept(n)
  BY <1>2, <1>8 DEF Kept
<1>12. View(m)' = View(m) /\ TreeInv(m)'
  <2>1. pc[m] \in Searching /\ pc'[m] \in Searching
    BY <1>2, <1>8 DEF Searching
  <2>2. best'[m] \in [Leaves -> Splits]
    BY <1>1, <1>2, TypeParts
  <2> QED BY <1>1, <1>2, <1>8, <2>1, <2>2, SearchGoesOn
<1>13. ExchangeInv(m)'
  <2>1. \A s : LeafOf(m, s)' = LeafOf(m, s)
    BY <1>2 DEF LeafOf
  <2>2. ExchangeInv(m)
    BY <1>1
  <2>3. \A s \in Sides : votes'[m][s] \in Seq(Found)
    BY <1>6, <1>8
  <2> QED BY <1>2, <1>6, <1>7, <1>8, <2>1, <2>2, <2>3 DEF ExchangeInv
<1> QED BY <1>2, <1>9, <1>10, <1>11, <1>12, <1>13, StepKeeps

LEMMA CopyVotedKeeps ==
  ASSUME IInv, NEW m \in Machines, CopyVoted(m)
  PROVE  IInv'
<1> DEFINE lay == CopyLocalHistogram(votes[m])
           none == [s \in Sides |-> <<>>]
<1>1. TypeInv /\ ExchangeTypes /\ TreeInv(m) /\ ExchangeInv(m) /\ IsJob(job) /\ Machines' = Machines
  BY TypeParts DEF IInv, CopyVoted, Machines
<1>2. /\ pc[m] = "copy" /\ votes' = [votes EXCEPT ![m] = none] /\ layout' = [layout EXCEPT ![m] = lay]
      /\ pc' = [pc EXCEPT ![m] = "scatter"]
      /\ job' = job /\ round' = round /\ tree' = tree /\ part' = part /\ counts' = counts
      /\ pair' = pair /\ used' = used /\ best' = best /\ got' = got
      /\ hist' = hist /\ splittable' = splittable
  BY DEF CopyVoted
<1>3. votes[m] \in [Sides -> Seq(Vote)]
  <2>1. votes[m] \in [Sides -> Seq(Found) \cup Seq(Vote)]
    BY <1>1 DEF ExchangeTypes
  <2>2. \A s \in Sides : votes[m][s] \in Seq(Vote)
    BY <1>1, <1>2 DEF ExchangeInv
  <2> QED BY <2>1, <2>2
<1>4. \A n \in DOMAIN lay : /\ lay[n].side \in Sides /\ lay[n].feature \in Features
                            /\ votes[m][lay[n].side] # <<>>
  BY <1>1, <1>3, CopyLocalHistogramIs
<1> HIDE DEF lay
<1>5. none \in [Sides -> Seq(Found)] /\ \A s \in Sides : none[s] = <<>>
  OBVIOUS
<1> HIDE DEF none
<1>6. /\ votes'[m] = none /\ layout'[m] = lay /\ pc'[m] = "scatter"
      /\ \A n \in Machines : n # m => votes'[n] = votes[n] /\ layout'[n] = layout[n] /\ pc'[n] = pc[n]
  BY <1>1, <1>2 DEF TypeInv, ExchangeTypes
<1>7. TypeInv'
  <2>1. pc' \in [Machines -> Stages]
    BY <1>1, <1>2 DEF TypeInv, Stages
  <2> QED BY <1>1, <1>2, <2>1 DEF TypeInv
<1>8. ExchangeTypes'
  <2>1. none \in [Sides -> Seq(Found) \cup Seq(Vote)]
    BY <1>5
  <2> QED BY <1>1, <1>2, <2>1 DEF ExchangeTypes
<1>9. \A n \in Machines : n # m => Kept(n)
  BY <1>2, <1>6 DEF Kept
<1>10. View(m)' = View(m) /\ TreeInv(m)'
  <2>1. pc[m] \in Searching /\ pc'[m] \in Searching
    BY <1>2, <1>6 DEF Searching
  <2>2. best'[m] \in [Leaves -> Splits]
    BY <1>1, <1>2, TypeParts
  <2>3. ~TooSmall(m)
    BY <1>1, <1>2 DEF TreeInv, Searching
  <2> QED BY <1>1, <1>2, <1>6, <2>1, <2>2, <2>3, SearchGoesOn
<1>11. ExchangeInv(m)'
  <2>1. \A s : LeafOf(m, s)' = LeafOf(m, s)
    BY <1>2 DEF LeafOf
  <2>2. \A n \in DOMAIN lay : LeafOf(m, lay[n].side) # None
    BY <1>1, <1>2, <1>4 DEF ExchangeInv
  <2>3. \A s \in Sides : Len(votes'[m][s]) <= TopK
    BY <1>5, <1>6, ParallelAssumption
  <2>4. job.mode # "voting" => \A n \in DOMAIN lay : lay[n].side = "smaller"
    BY <1>1, <1>2 DEF ExchangeInv
  <2>5. \A x \in DOMAIN got'[m] :
          /\ x \in Sides \X Features /\ got'[m][x] \in Heaps
          /\ job'.mode # "voting" => x[1] = "smaller"
    BY <1>1, <1>2 DEF ExchangeInv
  <2> QED BY <1>2, <1>4, <1>6, <2>1, <2>2, <2>3, <2>4, <2>5 DEF ExchangeInv
<1> QED BY <1>2, <1>7, <1>8, <1>9, <1>10, <1>11, StepKeeps

-----------------------------------------------------------------------------
\* A view with another stage and other splits.
IsView(v, r, s, t, z, f, b) ==
  v = [round |-> r, stage |-> s, tree |-> t, sizes |-> z, leaf |-> f, best |-> b]

Changed(v, w, b) == w = [v EXCEPT !.stage = "split", !.best = b]

LEMMA TwoFieldsChange ==
  ASSUME NEW r, NEW t, NEW z, NEW f, NEW a, NEW b, NEW v, NEW w,
         IsView(v, r, "search", t, z, f, a), Changed(v, w, b)
  PROVE  IsView(w, r, "split", t, z, f, b)
BY DEF IsView, Changed

LEMMA SkipSearchKeeps ==
  ASSUME IInv, NEW m \in Machines, SkipSearch(m)
  PROVE  IInv'
<1> DEFINE b == [l \in Leaves |-> IF l \in {Left(m), Right(m)}
                                    THEN [best[m][l] EXCEPT !.gain = MinScore] ELSE best[m][l]]
<1>1. TypeInv /\ ExchangeTypes /\ TreeInv(m) /\ ExchangeInv(m) /\ IsJob(job) /\ Machines' = Machines
  BY TypeParts DEF IInv, SkipSearch, Machines
<1>2. /\ pc[m] = "search" /\ TooSmall(m)
      /\ best' = [best EXCEPT ![m] = b] /\ pc' = [pc EXCEPT ![m] = "split"]
      /\ job' = job /\ round' = round /\ tree' = tree /\ part' = part /\ counts' = counts
      /\ pair' = pair /\ used' = used /\ layout' = layout /\ votes' = votes /\ got' = got
      /\ hist' = hist /\ splittable' = splittable
  BY DEF SkipSearch
<1>3. \A l \in Leaves : /\ best[m][l] \in Splits /\ [best[m][l] EXCEPT !.gain = MinScore] \in Splits
                        /\ [best[m][l] EXCEPT !.gain = MinScore].gain <= 0
  <2>1. \A l \in Leaves : best[m][l] \in Splits
    BY <1>1, TypeParts
  <2> QED BY <2>1, SplitsAre DEF MinScore
<1>4. b \in [Leaves -> Splits] /\ \A l \in Leaves : b[l] = best[m][l] \/ b[l].gain <= 0
  BY <1>3
<1>5. b = [l \in Leaves |-> IF l \in {Left(m), Right(m)}
                              THEN [best[m][l] EXCEPT !.gain = MinScore] ELSE best[m][l]]
  OBVIOUS
<1> HIDE DEF b
<1>6. best'[m] = b /\ pc'[m] = "split" /\ \A n \in Machines : n # m => best'[n] = best[n] /\ pc'[n] = pc[n]
  BY <1>1, <1>2 DEF TypeInv
<1>7. TypeInv'
  <2>1. best' \in [Machines -> [Leaves -> Splits]] /\ pc' \in [Machines -> Stages]
    BY <1>1, <1>2, <1>4 DEF TypeInv, Stages
  <2> QED BY <1>1, <1>2, <2>1 DEF TypeInv
<1>8. ExchangeTypes'
  BY <1>1, <1>2 DEF ExchangeTypes
<1>9. \A n \in Machines : n # m => Kept(n)
  BY <1>2, <1>6 DEF Kept
<1>10. TreeInv(m)'
  <2>1. \A s : LeafOf(m, s)' = LeafOf(m, s)
    BY <1>2 DEF LeafOf
  <2>2. SmallerLeaf(m)' = SmallerLeaf(m)
    BY <1>2 DEF SmallerLeaf
  <2> QED BY <1>1, <1>2, <1>4, <1>6, <2>1, <2>2 DEF TreeInv, Searching
<1>11. ExchangeInv(m)'
  BY <1>1, <1>2, <1>6 DEF ExchangeInv
<1>12. Can(job, View(m)) /\ View(m)' = After(job, View(m))
  <2>1. View(m) = Known(m) /\ Known(m).stage = "search" /\ SmallIn(job, View(m))
    BY <1>1, <1>2, ViewIs DEF Searching, Known
  <2>2. Can(job, View(m))
    BY <2>1 DEF Can
  <2> DEFINE sz == IF job.mode = "feature" THEN part[m] ELSE counts[m]
             lf == [s \in Sides |-> LeafOf(m, s)]
  <2>3. Known(m) = [round |-> round[m], stage |-> "search", tree |-> tree[m], sizes |-> sz,
                    leaf |-> lf, best |-> best[m]]
    BY <1>2 DEF Known, Searching
  <2>4. Known(m)' = [round |-> round[m], stage |-> "split", tree |-> tree[m], sizes |-> sz,
                     leaf |-> lf, best |-> b]
    <3>1. [s \in Sides |-> LeafOf(m, s)'] = lf
      BY <1>2 DEF LeafOf
    <3>2. (IF pc'[m] \in Searching THEN "search" ELSE pc'[m]) = "split"
      BY <1>6 DEF Searching
    <3> QED BY <1>2, <1>6, <3>1, <3>2 DEF Known
  <2>5. LeftIn(Known(m)) = Left(m) /\ RightIn(Known(m)) = Right(m)
    BY <2>3 DEF LeftIn, RightIn, Left, Right
  <2> HIDE DEF sz, lf
  <2>6. Known(m)' = Skipped(Known(m))
    <3>1. Changed(Known(m), Skipped(Known(m)), b)
      <4>1. Known(m).best = best[m]
        BY <2>3
      <4> QED BY <4>1, <2>5, <1>5 DEF Skipped, Changed
    <3>2. IsView(Known(m), round[m], "search", tree[m], sz, lf, best[m])
      BY <2>3 DEF IsView
    <3>3. IsView(Skipped(Known(m)), round[m], "split", tree[m], sz, lf, b)
      BY <3>1, <3>2, TwoFieldsChange, Zenon
    <3> QED BY <2>4, <3>3, Zenon DEF IsView
  <2>7. View(m)' = Masked(job, Skipped(Known(m)))
    BY <1>2, <2>6 DEF View
  <2> QED BY <2>1, <2>2, <2>7 DEF After
<1> QED BY <1>2, <1>7, <1>8, <1>9, <1>10, <1>11, <1>12, StepKeeps

LEMMA FinishKeeps ==
  ASSUME IInv, NEW m \in Machines, Finish(m)
  PROVE  IInv'
<1>1. TypeInv /\ ExchangeTypes /\ TreeInv(m) /\ ExchangeInv(m) /\ IsJob(job) /\ Machines' = Machines
  BY TypeParts DEF IInv, Finish, Machines
<1>2. /\ pc[m] = "split" /\ best[m][BestLeaf(m)].gain <= 0
      /\ pc' = [pc EXCEPT ![m] = "idle"] /\ best' = best
      /\ job' = job /\ round' = round /\ tree' = tree /\ part' = part /\ counts' = counts
      /\ pair' = pair /\ used' = used /\ layout' = layout /\ votes' = votes /\ got' = got
      /\ hist' = hist /\ splittable' = splittable
  BY DEF Finish
<1>3. pc'[m] = "idle" /\ \A n \in Machines : n # m => pc'[n] = pc[n]
  BY <1>1, <1>2 DEF TypeInv
<1>4. TypeInv'
  <2>1. pc' \in [Machines -> Stages]
    BY <1>1, <1>2 DEF TypeInv, Stages
  <2> QED BY <1>1, <1>2, <2>1 DEF TypeInv
<1>5. ExchangeTypes'
  BY <1>1, <1>2 DEF ExchangeTypes
<1>6. \A n \in Machines : n # m => Kept(n)
  BY <1>2, <1>3 DEF Kept
<1>7. TreeInv(m)'
  BY <1>1, <1>2, <1>3 DEF TreeInv, Searching
<1>8. ExchangeInv(m)'
  BY <1>1, <1>2, <1>3 DEF ExchangeInv
<1>9. Can(job, View(m)) /\ View(m)' = After(job, View(m))
  <2>1. View(m) = Known(m) /\ Known(m).stage = "split" /\ Known(m).best = best[m]
    BY <1>1, <1>2, ViewIs DEF Searching, Known
  <2>2. Can(job, View(m))
    BY <2>1 DEF Can
  <2>3. ~(Chosen(Known(m)).gain > 0)
    <3>1. Chosen(Known(m)) = best[m][BestLeaf(m)]
      BY <2>1 DEF Chosen, Choice, BestLeaf
    <3>2. best[m] \in [Leaves -> Splits]
      BY <1>1, TypeParts
    <3>3. BestLeaf(m) \in Leaves
      BY <3>2, ChoiceIs DEF Choice, BestLeaf
    <3>4. best[m][BestLeaf(m)].gain \in Int
      BY <3>2, <3>3, SplitsAre DEF Ranked
    <3> QED BY <1>2, <3>1, <3>4
  <2>4. Known(m)' = Finished(Known(m))
    <3> DEFINE sz == IF job.mode = "feature" THEN part[m] ELSE counts[m]
               lf == [s \in Sides |-> LeafOf(m, s)]
    <3>1. Known(m) = [round |-> round[m], stage |-> "split", tree |-> tree[m], sizes |-> sz,
                      leaf |-> lf, best |-> best[m]]
      BY <1>2 DEF Known, Searching
    <3>2. Known(m)' = [round |-> round[m], stage |-> "idle", tree |-> tree[m], sizes |-> sz,
                       leaf |-> lf, best |-> best[m]]
      <4>1. [s \in Sides |-> LeafOf(m, s)'] = lf
        BY <1>2 DEF LeafOf
      <4>2. (IF pc'[m] \in Searching THEN "search" ELSE pc'[m]) = "idle"
        BY <1>3 DEF Searching
      <4> QED BY <1>2, <1>3, <4>1, <4>2 DEF Known
    <3> HIDE DEF sz, lf
    <3> QED BY <3>1, <3>2 DEF Finished
  <2>5. View(m)' = Masked(job, Finished(Known(m)))
    BY <1>2, <2>4 DEF View
  <2> QED BY <2>1, <2>2, <2>3, <2>5 DEF After
<1> QED BY <1>2, <1>4, <1>5, <1>6, <1>7, <1>8, <1>9, StepKeeps

-----------------------------------------------------------------------------
\* A split leaves the tree with one leaf more, known to all by the same reckoning.
LEMMA SplitKeeps ==
  ASSUME IInv, NEW m \in Machines, Split(m)
  PROVE  IInv'
<1> DEFINE leaf == BestLeaf(m)
           s == best[m][leaf]
           new == Len(tree[m]) + 1
           goes == part[m][leaf] \cap job.goLeft[s.feature]
           stays == part[m][leaf] \ job.goLeft[s.feature]
           n == SplitCounts(s, goes, stays)
           l == [leaf |-> leaf, sum |-> s.left]
           r == [leaf |-> new, sum |-> s.right]
           made == [leaf |-> leaf, feature |-> s.feature]
           pr == IF n[1] < n[2] THEN [smaller |-> l, larger |-> r] ELSE [smaller |-> r, larger |-> l]
           at == IF new = NumLeaves - 1 THEN "idle" ELSE "search"
<1>1. TypeInv /\ ExchangeTypes /\ TreeInv(m) /\ ExchangeInv(m) /\ IsJob(job) /\ Machines' = Machines
  BY TypeParts DEF IInv, Split, Machines
<1>2. /\ pc[m] = "split" /\ s.gain > 0
      /\ tree' = [tree EXCEPT ![m] = Append(@, made)]
      /\ part' = [part EXCEPT ![m][leaf] = goes, ![m][new] = stays]
      /\ counts' = [counts EXCEPT ![m][leaf] = n[1], ![m][new] = n[2]]
      /\ pair' = [pair EXCEPT ![m] = pr] /\ pc' = [pc EXCEPT ![m] = at]
      /\ job' = job /\ round' = round /\ hist' = hist /\ splittable' = splittable
      /\ used' = used /\ layout' = layout /\ votes' = votes /\ got' = got /\ best' = best
  BY DEF Split
<1>3. /\ best[m] \in [Leaves -> Splits] /\ part[m] \in [Leaves -> SUBSET Rows]
      /\ counts[m] \in [Leaves -> Nat] /\ tree[m] \in Seq(Made)
  BY <1>1, TypeParts
<1>4. leaf = Choice(best[m])
  BY DEF BestLeaf, Choice
<1>5. leaf \in Leaves
  BY <1>3, <1>4, ChoiceIs
<1> HIDE DEF leaf
<1>6. /\ s \in Splits /\ s \in Found /\ s.feature \in Features
      /\ s.left \in Heaps /\ s.right \in Heaps
  <2>1. s \in Splits
    BY <1>3, <1>5
  <2> QED BY <2>1, <1>2, SplitsAre
<1>7. /\ Len(tree[m]) \in Nat /\ Len(tree[m]) < NumLeaves - 1 /\ new \in Leaves /\ new # leaf
      /\ leaf <= Len(tree[m]) /\ leaf \in Nat /\ new \in Nat /\ NumLeaves \in Nat
      /\ new <= NumLeaves - 1
  <2>1. Len(tree[m]) \in Nat /\ Len(tree[m]) < NumLeaves - 1 /\ new \in Leaves
    BY <1>1, <1>2, LeavesAre DEF TreeInv
  <2>2. ~(leaf > Len(tree[m]))
    <3>1. leaf > Len(tree[m]) => s.gain <= 0
      BY <1>1, <1>5 DEF TreeInv
    <3>2. s.gain \in Int
      BY <1>6, SplitsAre DEF Ranked
    <3>3. s.gain > 0
      BY <1>2
    <3> QED BY <3>1, <3>2, <3>3
  <2>3. leaf \in Nat /\ NumLeaves \in Nat
    BY <1>5, ParallelAssumption DEF Leaves
  <2> QED BY <2>1, <2>2, <2>3 DEF Leaves
<1>8. goes \in SUBSET Rows /\ stays \in SUBSET Rows
  BY <1>3, <1>5
<1>9. n[1] \in Nat /\ n[2] \in Nat
  <2>1. Cardinality(goes) \in Nat /\ Cardinality(stays) \in Nat
    BY <1>8, Finite
  <2>2. s.left_count \in Nat /\ s.right_count \in Nat
    BY <1>6, SplitsAre
  <2> HIDE DEF goes, stays, s
  <2> QED BY <2>1, <2>2 DEF SplitCounts
<1>10. made \in Made
  BY <1>5, <1>6 DEF Made
<1>11. /\ pr \in [Sides -> LeafSums]
       /\ pr["smaller"].leaf = IF n[1] < n[2] THEN leaf ELSE new
       /\ pr["larger"].leaf = IF n[1] < n[2] THEN new ELSE leaf
  <2>1. l \in LeafSums /\ r \in LeafSums /\ l.leaf = leaf /\ r.leaf = new
    <3> HIDE DEF s, new
    <3> QED BY <1>5, <1>6, <1>7 DEF LeafSums
  <2> HIDE DEF l, r, n
  <2> QED BY <2>1 DEF Sides
<1>12. at \in Stages /\ at \in {"idle", "search"} /\ (at # "idle" => new # NumLeaves - 1)
  BY DEF Stages
<1> DEFINE rows == [part[m] EXCEPT ![leaf] = goes, ![new] = stays]
           cs == [counts[m] EXCEPT ![leaf] = n[1], ![new] = n[2]]
           t == Append(tree[m], made)
<1> HIDE DEF goes, stays, n, made, pr, at, s
<1>13. /\ rows \in [Leaves -> SUBSET Rows] /\ cs \in [Leaves -> Nat] /\ t \in Seq(Made)
       /\ Len(t) = new /\ t[new] = made /\ \A i \in 1..Len(tree[m]) : t[i] = tree[m][i]
  <2>1. rows \in [Leaves -> SUBSET Rows]
    BY <1>3, <1>8
  <2>2. cs \in [Leaves -> Nat]
    BY <1>3, <1>9
  <2>3. /\ t \in Seq(Made) /\ Len(t) = new /\ t[new] = made
        /\ \A i \in 1..Len(tree[m]) : t[i] = tree[m][i]
    BY <1>3, <1>10
  <2> QED BY <2>1, <2>2, <2>3
<1>14. /\ part' = [part EXCEPT ![m] = rows] /\ counts' = [counts EXCEPT ![m] = cs]
       /\ tree' = [tree EXCEPT ![m] = t]
  <2>1. part \in [Machines -> [Leaves -> SUBSET Rows]] /\ counts \in [Machines -> [Leaves -> Nat]]
    BY <1>1 DEF TypeInv
  <2> HIDE DEF new
  <2> QED BY <1>2, <2>1
<1> HIDE DEF rows, cs, t
<1>15. /\ tree'[m] = t /\ part'[m] = rows /\ counts'[m] = cs /\ pair'[m] = pr /\ pc'[m] = at
       /\ \A k \in Machines : k # m => /\ tree'[k] = tree[k] /\ part'[k] = part[k]
                                       /\ counts'[k] = counts[k] /\ pair'[k] = pair[k]
                                       /\ pc'[k] = pc[k]
  BY <1>1, <1>2, <1>14 DEF TypeInv
<1>16. TypeInv'
  <2>1. pc' \in [Machines -> Stages] /\ tree' \in [Machines -> Seq(Made)]
    BY <1>1, <1>2, <1>12, <1>13, <1>14 DEF TypeInv
  <2>2. part' \in [Machines -> [Leaves -> SUBSET Rows]] /\ counts' \in [Machines -> [Leaves -> Nat]]
    BY <1>1, <1>13, <1>14 DEF TypeInv
  <2>3. pair' \in [Machines -> [Sides -> LeafSums]]
    BY <1>1, <1>2, <1>11 DEF TypeInv
  <2> QED BY <1>1, <1>2, <2>1, <2>2, <2>3 DEF TypeInv
<1>17. ExchangeTypes'
  BY <1>1, <1>2 DEF ExchangeTypes
<1>18. \A k \in Machines : k # m => Kept(k)
  BY <1>2, <1>15 DEF Kept
<1>19. TreeInv(m)'
  <2>1. round'[m] <= Len(job'.plan)
    BY <1>1, <1>2 DEF TreeInv
  <2>2. ASSUME NEW i \in DOMAIN tree'[m] PROVE tree'[m][i].leaf <= i - 1
    <3>1. i \in 1..new
      BY <1>13, <1>15
    <3>2. CASE i = new
      <4>1. made.leaf = leaf
        BY DEF made
      <4> QED BY <1>7, <1>13, <1>15, <3>2, <4>1
    <3>3. CASE i # new
      <4>1. i \in 1..Len(tree[m]) /\ i \in DOMAIN tree[m]
        BY <1>3, <1>7, <3>1, <3>3
      <4>2. tree[m][i].leaf <= i - 1
        BY <1>1, <4>1 DEF TreeInv
      <4> QED BY <1>13, <1>15, <4>1, <4>2
    <3> QED BY <3>2, <3>3
  <2>3. pc'[m] # "idle" => Len(tree'[m]) < NumLeaves - 1
    BY <1>7, <1>12, <1>13, <1>15
  <2>4. \A x \in Sides : LeafOf(m, x)' <= Len(tree'[m])
    <3>1. LeafOf(m, "smaller")' <= new /\ LeafOf(m, "larger")' <= new
      BY <1>7, <1>11, <1>15 DEF LeafOf
    <3> QED BY <3>1, <1>13, <1>15 DEF Sides
  <2>5. SmallerLeaf(m)' # None
    BY <1>7, <1>11, <1>15 DEF SmallerLeaf, None
  <2>6. ASSUME NEW k \in Leaves, k > Len(tree'[m]) PROVE best'[m][k].gain <= 0
    <3>1. k \in Int
      BY DEF Leaves
    <3>2. k > Len(tree[m])
      BY <1>7, <1>13, <1>15, <2>6, <3>1
    <3> QED BY <1>1, <1>2, <3>2 DEF TreeInv
  <2>7. pc'[m] \notin Searching \ {"search"}
    BY <1>12, <1>15 DEF Searching
  <2> QED BY <2>1, <2>2, <2>3, <2>4, <2>5, <2>6, <2>7 DEF TreeInv
<1>20. ExchangeInv(m)'
  <2>1. pc'[m] \notin {"gather", "copy", "scatter"}
    BY <1>12, <1>15
  <2> QED BY <1>1, <1>2, <2>1 DEF ExchangeInv
<1>21. Can(job, View(m)) /\ View(m)' = After(job, View(m))
  <2> DEFINE K == Known(m)
             szs == IF job.mode = "feature" THEN rows ELSE cs
             both == [x \in Sides |-> IF (x = "smaller") = (n[1] < n[2]) THEN leaf ELSE new]
  <2>1. View(m) = K /\ K.stage = "split"
    BY <1>1, <1>2, ViewIs DEF Searching, Known
  <2>2. Can(job, View(m))
    BY <2>1 DEF Can
  <2>3. /\ K.round = round[m] /\ K.tree = tree[m] /\ K.best = best[m]
        /\ K.sizes = IF job.mode = "feature" THEN part[m] ELSE counts[m]
    BY DEF Known
  <2> HIDE DEF K
  <2>4. Choice(K.best) = leaf /\ Chosen(K) = s
    BY <1>4, <2>3 DEF Chosen, s
  <2>5. Known(m)' = [round |-> round[m], stage |-> at, tree |-> t, sizes |-> szs,
                     leaf |-> both, best |-> best[m]]
    <3>1. (IF pc'[m] \in Searching THEN "search" ELSE pc'[m]) = at
      BY <1>12, <1>15 DEF Searching
    <3>0. job' = job /\ round'[m] = round[m] /\ best'[m] = best[m]
      BY <1>2
    <3>2. (IF job'.mode = "feature" THEN part'[m] ELSE counts'[m]) = szs
      BY <1>15, <3>0
    <3>3. [x \in Sides |-> LeafOf(m, x)'] = both
      <4>1. LeafOf(m, "smaller")' = both["smaller"] /\ LeafOf(m, "larger")' = both["larger"]
        BY <1>11, <1>15 DEF LeafOf, Sides
      <4> HIDE DEF new
      <4> QED BY <4>1 DEF Sides
    <3> HIDE DEF szs, both
    <3> QED BY <1>15, <3>0, <3>1, <3>2, <3>3 DEF Known
  <2>6. Grown(job, K) = [round |-> round[m], stage |-> at, tree |-> t, sizes |-> szs,
                         leaf |-> both, best |-> best[m]]
    <3> DEFINE go == IF job.mode = "feature" THEN K.sizes[leaf] \cap job.goLeft[s.feature]
                     ELSE s.left_count
               st == IF job.mode = "feature" THEN K.sizes[leaf] \ job.goLeft[s.feature]
                     ELSE s.right_count
               fewer == IF job.mode = "feature" THEN Cardinality(go) < Cardinality(st) ELSE go < st
    <3>1. Grown(job, K) =
            [round |-> K.round, stage |-> IF Len(K.tree) + 1 = NumLeaves - 1 THEN "idle" ELSE "search",
             tree  |-> Append(K.tree, [leaf |-> leaf, feature |-> s.feature]),
             sizes |-> [K.sizes EXCEPT ![leaf] = go, ![Len(K.tree) + 1] = st],
             leaf  |-> [x \in Sides |-> IF (x = "smaller") = fewer THEN leaf ELSE Len(K.tree) + 1],
             best  |-> K.best]
      BY <2>4, Zenon DEF Grown, Chosen
    <3>2. (fewer <=> n[1] < n[2]) /\ [K.sizes EXCEPT ![leaf] = go, ![new] = st] = szs
      <4>1. CASE job.mode = "feature"
        <5>1. go = goes /\ st = stays
          BY <2>3, <4>1 DEF goes, stays
        <5>2. n[1] = Cardinality(goes) /\ n[2] = Cardinality(stays)
          BY <4>1 DEF n, SplitCounts
        <5> HIDE DEF go, st, new
        <5> QED BY <2>3, <4>1, <5>1, <5>2 DEF rows
      <4>2. CASE job.mode # "feature"
        <5>1. go = n[1] /\ st = n[2]
          BY <4>2 DEF n, SplitCounts
        <5> HIDE DEF go, st, new
        <5> QED BY <2>3, <4>2, <5>1 DEF cs
      <4> QED BY <4>1, <4>2
    <3> HIDE DEF go, st, szs
    <3>3. both = [x \in Sides |-> IF (x = "smaller") = fewer THEN leaf ELSE new]
      BY <3>2
    <3> HIDE DEF fewer, both
    <3> QED BY <2>3, <3>1, <3>2, <3>3, Zenon DEF at, t, made
  <2>7. View(m)' = Masked(job, Grown(job, K))
    BY <1>2, <2>5, <2>6 DEF View
  <2>8. Chosen(K).gain > 0
    BY <1>2, <2>4
  <2> QED BY <2>1, <2>2, <2>7, <2>8 DEF After
<1> QED BY <1>2, <1>16, <1>17, <1>18, <1>19, <1>20, <1>21, StepKeeps

-----------------------------------------------------------------------------
-----------------------------------------------------------------------------
\* What is searched once the histograms have been exchanged.
LEMMA SummedIs ==
  ASSUME TypeInv, NEW m \in Machines, TreeInv(m), ExchangeInv(m), pc[m] = "judge"
  PROVE  /\ Aggregated(m) \in SUBSET Features
         /\ Summed(m) \in [Leaves -> [Features -> Heaps]]
<1>1. \A x \in DOMAIN got[m] : x \in Sides \X Features /\ got[m][x] \in Heaps
                               /\ (job.mode # "voting" => x[1] = "smaller")
  BY DEF ExchangeInv
<1>2. Aggregated(m) \in SUBSET Features
  BY <1>1 DEF Aggregated
<1>3. hist[m] \in [Leaves -> [Features -> Heaps]]
  BY TypeParts
<1>4. CASE job.mode = "voting"
  BY <1>2, <1>3, <1>4 DEF Summed
<1>5. CASE job.mode # "voting"
  <2> DEFINE small == [f \in Features |-> IF f \in Aggregated(m) THEN got[m][<<"smaller", f>>]
                                          ELSE hist[m][SmallerLeaf(m)][f]]
             less(l) == [f \in Features |-> IF f \in Aggregated(m) THEN Minus(hist[m][l][f], small[f])
                                            ELSE hist[m][l][f]]
             all == [l \in Leaves |-> IF l = SmallerLeaf(m) THEN small
                                      ELSE IF l # LargerLeaf(m) THEN hist[m][l] ELSE less(l)]
  <2>1. ASSUME NEW f \in Aggregated(m) PROVE got[m][<<"smaller", f>>] \in Heaps
    <3>1. PICK x \in DOMAIN got[m] : x[2] = f
      BY DEF Aggregated
    <3>2. x = <<"smaller", f>>
      BY <1>1, <1>5, <3>1
    <3> QED BY <1>1, <3>1, <3>2
  <2>2. SmallerLeaf(m) \in Leaves
    BY LeavesAre
  <2>3. small \in [Features -> Heaps]
    BY <1>3, <2>1, <2>2
  <2> HIDE DEF small
  <2>4. \A l \in Leaves : less(l) \in [Features -> Heaps]
    <3>1. \A l \in Leaves, f \in Features : hist[m][l][f] \in Heaps /\ small[f] \in Heaps
      BY <1>3, <2>3
    <3> QED BY <3>1, HeapsAre
  <2>5. all \in [Leaves -> [Features -> Heaps]]
    <3> HIDE DEF less
    <3> QED BY <1>3, <2>3, <2>4
  <2> HIDE DEF less
  <2>6. Summed(m) = all
    BY <1>5 DEF Summed, small, less
  <2> QED BY <1>2, <2>5, <2>6
<1> QED BY <1>4, <1>5

LEMMA JudgedIs ==
  ASSUME TypeInv, NEW m \in Machines, TreeInv(m), ExchangeInv(m), pc[m] = "judge",
         hist'[m] = Summed(m), NEW s \in TheSides(m)
  PROVE  BestOf({NoSplit} \cup {Judge(m, s, j[1], j[2]) : j \in Judged(m, s)})
         \in Splits
<1> DEFINE H(f) == IF job.mode = "voting" THEN got[m][<<s, f>>] ELSE hist'[m][LeafOf(m, s)][f]
           fs == IF job.mode = "voting" THEN {y[2] : y \in {x \in DOMAIN got[m] : x[1] = s}}
                 ELSE Aggregated(m)
           F == [f \in fs |-> Judge(m, s, f, H(f))]
           ss == {NoSplit} \cup {F[f] : f \in fs}
<1>1. \A x \in DOMAIN got[m] : x \in Sides \X Features /\ got[m][x] \in Heaps
  BY DEF ExchangeInv
<1>2. \A x \in DOMAIN got[m] : x[2] \in Features /\ x = <<x[1], x[2]>>
  BY <1>1
<1>3. s \in Sides /\ LeafOf(m, s) \in Leaves /\ pair[m][s].sum \in Heaps
  BY LeavesAre, TypeParts
<1>4. fs \in SUBSET Features
  BY <1>2, SummedIs
<1>5. ASSUME NEW f \in fs PROVE H(f) \in Heaps
  <2>1. CASE job.mode = "voting"
    <3>1. PICK x \in DOMAIN got[m] : x[1] = s /\ x[2] = f
      BY <2>1
    <3>2. x = <<s, f>>
      BY <1>2, <3>1
    <3> QED BY <1>1, <2>1, <3>1, <3>2
  <2>2. CASE job.mode # "voting"
    <3>1. Summed(m) \in [Leaves -> [Features -> Heaps]]
      BY SummedIs
    <3> QED BY <1>3, <1>4, <2>2, <3>1
  <2> QED BY <2>1, <2>2
<1>6. {Judge(m, s, j[1], j[2]) : j \in Judged(m, s)}
      = {Judge(m, s, f, H(f)) : f \in fs}
  <2>1. CASE job.mode = "voting"
    <3>1. Judged(m, s) = {<<x[2], got[m][x]>> : x \in {y \in DOMAIN got[m] : y[1] = s}}
      BY <2>1 DEF Judged
    <3>2. ASSUME NEW j \in Judged(m, s) PROVE j[1] \in fs /\ j[2] = H(j[1])
      <4>1. PICK x \in DOMAIN got[m] : x[1] = s /\ j = <<x[2], got[m][x]>>
        BY <3>1
      <4>2. x = <<s, j[1]>>
        BY <1>2, <4>1
      <4> QED BY <2>1, <4>1, <4>2
    <3>3. ASSUME NEW f \in fs PROVE \E j \in Judged(m, s) : j[1] = f /\ j[2] = H(f)
      <4>1. PICK x \in DOMAIN got[m] : x[1] = s /\ x[2] = f
        BY <2>1
      <4>2. x = <<s, f>>
        BY <1>2, <4>1
      <4>3. <<f, got[m][x]>> \in Judged(m, s)
        BY <3>1, <4>1
      <4> QED BY <2>1, <4>2, <4>3
    <3> HIDE DEF fs, H
    <3> QED BY <3>2, <3>3
  <2>2. CASE job.mode # "voting"
    <3>1. Judged(m, s) = {<<f, H(f)>> : f \in fs}
      BY <2>2 DEF Judged
    <3> DEFINE S(x) == Judge(m, s, x[1], x[2])
    <3>2. \A f \in fs : S(<<f, H(f)>>) = Judge(m, s, f, H(f))
      OBVIOUS
    <3> HIDE DEF fs, H, S
    <3>3. {S(j) : j \in Judged(m, s)} = {Judge(m, s, f, H(f)) : f \in fs}
      BY <3>1, <3>2, ZenonT(30)
    <3> QED BY <3>3 DEF S
  <2> QED BY <2>1, <2>2
<1> HIDE DEF fs, H
<1>7. F \in [fs -> Splits]
  <2>1. CountIn(m, LeafOf(m, s)) \in Nat /\ MinData \in Nat /\ IsJob(job)
    BY <1>3, TypeParts, CountsAre, ParallelAssumption
  <2>2. \A f \in fs : Judge(m, s, f, H(f)) \in Found
    BY <1>3, <1>4, <1>5, <2>1, SplitOfIs DEF Judge
  <2> QED BY <2>2 DEF Splits
<1>8. {Judge(m, s, f, H(f)) : f \in fs} = {F[f] : f \in fs}
  OBVIOUS
<1> HIDE DEF F
<1>9. IsFiniteSet(ss) /\ ss \subseteq Splits /\ NoSplit \in ss
  <2>1. IsFiniteSet({F[f] : f \in fs})
    BY <1>4, <1>7, FiniteSplits
  <2>2. IsFiniteSet({F[f] : f \in fs} \cup {NoSplit})
    BY <2>1, FS_AddElement
  <2>3. {F[f] : f \in fs} \cup {NoSplit} = ss
    OBVIOUS
  <2>4. ss \subseteq Splits
    BY <1>7 DEF Splits
  <2> QED BY <2>2, <2>3, <2>4
<1> HIDE DEF ss
<1>10. BestOf(ss) \in Splits
  BY <1>9, BestOfIs
<1> QED BY <1>6, <1>8, <1>10 DEF ss

LEMMA FindBestSplitsFromHistogramsKeeps ==
  ASSUME IInv, NEW m \in Machines, FindBestSplitsFromHistograms(m)
  PROVE  IInv'
<1> DEFINE from(s) == BestOf({NoSplit} \cup {Judge(m, s, j[1], j[2]) : j \in Judged(m, s)})
           side(l) == CHOOSE x \in TheSides(m) : LeafOf(m, x) = l
           b == [l \in Leaves |-> IF \E s \in TheSides(m) : LeafOf(m, s) = l
                                    THEN from(side(l)) ELSE best[m][l]]
<1>1. TypeInv /\ ExchangeTypes /\ TreeInv(m) /\ ExchangeInv(m) /\ IsJob(job) /\ Machines' = Machines
  BY TypeParts DEF IInv, FindBestSplitsFromHistograms, Machines
<1>2. /\ pc[m] = "judge" /\ hist' = [hist EXCEPT ![m] = Summed(m)]
      /\ best' = [best EXCEPT ![m] = b] /\ pc' = [pc EXCEPT ![m] = "best"]
      /\ got' = [got EXCEPT ![m] = <<>>]
      /\ job' = job /\ round' = round /\ tree' = tree /\ part' = part /\ counts' = counts
      /\ pair' = pair /\ used' = used /\ layout' = layout /\ votes' = votes
      /\ splittable' = splittable
  BY DEF FindBestSplitsFromHistograms
<1>3. hist' \in [Machines -> [Leaves -> [Features -> Heaps]]] /\ hist'[m] = Summed(m)
  <2>1. Summed(m) \in [Leaves -> [Features -> Heaps]]
    BY <1>1, <1>2, SummedIs
  <2> QED BY <1>1, <1>2, <2>1 DEF TypeInv
<1>4. ASSUME NEW s \in TheSides(m) PROVE from(s) \in Splits
  BY <1>1, <1>2, <1>3, JudgedIs
<1>5. b \in [Leaves -> Splits]
  <2>1. best[m] \in [Leaves -> Splits]
    BY <1>1, TypeParts
  <2>2. ASSUME NEW l \in Leaves, \E s \in TheSides(m) : LeafOf(m, s) = l PROVE side(l) \in TheSides(m)
    BY <2>2
  <2> HIDE DEF from, side
  <2> QED BY <1>4, <2>1, <2>2
<1>6. \A l \in Leaves : (\A s \in Sides : LeafOf(m, s) # l) => b[l] = best[m][l]
  BY DEF TheSides
<1> HIDE DEF b
<1>7. /\ best'[m] = b /\ pc'[m] = "best" /\ got'[m] = <<>>
      /\ \A n \in Machines : n # m => best'[n] = best[n] /\ pc'[n] = pc[n] /\ got'[n] = got[n]
  BY <1>1, <1>2 DEF TypeInv, ExchangeTypes
<1>8. TypeInv'
  <2>1. best' \in [Machines -> [Leaves -> Splits]] /\ pc' \in [Machines -> Stages]
    BY <1>1, <1>2, <1>5 DEF TypeInv, Stages
  <2> QED BY <1>1, <1>2, <1>3, <2>1 DEF TypeInv
<1>9. ExchangeTypes'
  BY <1>1, <1>2 DEF ExchangeTypes
<1>10. \A n \in Machines : n # m => Kept(n)
  BY <1>2, <1>7 DEF Kept
<1>11. View(m)' = View(m) /\ TreeInv(m)'
  <2>1. pc[m] \in Searching /\ pc'[m] \in Searching
    BY <1>2, <1>7 DEF Searching
  <2>2. ~TooSmall(m)
    BY <1>1, <1>2 DEF TreeInv, Searching
  <2> QED BY <1>1, <1>2, <1>5, <1>6, <1>7, <2>1, <2>2, SearchGoesOn
<1>12. ExchangeInv(m)'
  <2>1. pc'[m] \notin {"gather", "copy", "scatter"} /\ DOMAIN got'[m] = {}
    BY <1>7
  <2> QED BY <1>1, <1>2, <2>1 DEF ExchangeInv
<1> QED BY <1>2, <1>8, <1>9, <1>10, <1>11, <1>12, StepKeeps

-----------------------------------------------------------------------------
-----------------------------------------------------------------------------
(* Steps of all machines *)

LEMMA AllKeep ==
  ASSUME job' = job, TypeInv', ExchangeTypes',
         \A m \in Machines : TreeInv(m)' /\ ExchangeInv(m)',
         \A m, n \in Machines : View(m)' = View(n)'
  PROVE  IInv'
<1>1. Machines' = Machines
  BY DEF Machines
<1>2. RunInv'
  BY AllMove
<1> QED BY <1>1, <1>2 DEF IInv

\* What two machines with the same view have in common.
LEMMA SeenAlike ==
  ASSUME TypeInv, NEW m \in Machines, NEW n \in Machines, View(m) = View(n)
  PROVE  /\ round[m] = round[n] /\ tree[m] = tree[n]
         /\ IF job.mode = "feature" THEN part[m] = part[n] ELSE counts[m] = counts[n]
         /\ \A s \in Sides : LeafOf(m, s) = LeafOf(n, s)
         /\ \A l \in Leaves : (\A s \in Sides : LeafOf(m, s) # l) => best[m][l] = best[n][l]
         /\ pc[m] \notin Searching /\ pc[n] \notin Searching => best[m] = best[n]
<1>1. View(m).round = round[m] /\ View(n).round = round[n] /\ View(m).tree = tree[m] /\ View(n).tree = tree[n]
  BY ViewIs
<1>2. \A k \in Machines : View(k).sizes = IF job.mode = "feature" THEN part[k] ELSE counts[k]
  <2> SUFFICES ASSUME NEW k \in Machines
               PROVE  View(k).sizes = IF job.mode = "feature" THEN part[k] ELSE counts[k]
    OBVIOUS
  <2>1. Known(k) \in Views(job)
    BY ViewIs
  <2>2. View(k).sizes = Known(k).sizes
    BY <2>1, MaskedIs DEF View
  <2>3. Known(k).sizes = IF job.mode = "feature" THEN part[k] ELSE counts[k]
    BY DEF Known
  <2> QED BY <2>2, <2>3
<1>3. \A s \in Sides : LeafOf(m, s) = LeafOf(n, s)
  <2>1. [s \in Sides |-> LeafOf(m, s)] = [s \in Sides |-> LeafOf(n, s)]
    BY ViewIs
  <2> QED BY <2>1
<1>4. ASSUME NEW k \in Machines, NEW l \in Leaves, \A s \in Sides : LeafOf(k, s) # l
      PROVE  View(k).best[l] = best[k][l]
  <2>1. Known(k).best = best[k] /\ Known(k).leaf = [s \in Sides |-> LeafOf(k, s)]
    BY DEF Known
  <2>2. Known(k) \in Views(job)
    BY ViewIs
  <2> DEFINE K == Known(k)
             b == [x \in Leaves |-> IF K.stage = "search" /\ ~SmallIn(job, K) /\ \E s \in Sides : K.leaf[s] = x
                                      THEN NoSplit ELSE K.best[x]]
  <2> HIDE DEF K
  <2>3. Masked(job, K) = [K EXCEPT !.best = b]
    BY DEF Masked
  <2>4. [K EXCEPT !.best = b].best = b
    <3> HIDE DEF b
    <3> QED BY <2>2 DEF Views, K
  <2>5. b[l] = K.best[l]
    BY <1>4, <2>1 DEF K
  <2> QED BY <2>1, <2>3, <2>4, <2>5 DEF View, K
<1>5. pc[m] \notin Searching /\ pc[n] \notin Searching => best[m] = best[n]
  <2> HAVE pc[m] \notin Searching /\ pc[n] \notin Searching
  <2>1. Known(m) = Known(n)
    BY ViewIs
  <2>2. Known(m).best = best[m] /\ Known(n).best = best[n]
    BY DEF Known
  <2> QED BY <2>1, <2>2
<1> QED BY <1>1, <1>2, <1>3, <1>4, <1>5

\* The root is counted, alike by all machines.
LEMMA AllreduceRootKeeps ==
  ASSUME IInv, AllreduceRoot
  PROVE  IInv'
<1> DEFINE h == [m \in Machines |-> pair[m].smaller.sum]
           sum == Sum(h)
           pr(m) == [pair[m] EXCEPT !.smaller.sum = sum]
           cs(m) == [counts[m] EXCEPT ![0] = Cardinality(sum)]
<1>1. TypeInv /\ ExchangeTypes /\ RunInv /\ Machines' = Machines
      /\ \A m \in Machines : TreeInv(m) /\ ExchangeInv(m)
  BY DEF IInv, AllreduceRoot, Machines
<1>2. /\ \A m \in Machines : pc[m] = "sum"
      /\ pc' = [m \in Machines |-> "search"]
      /\ pair' = [m \in Machines |-> pr(m)] /\ counts' = [m \in Machines |-> cs(m)]
      /\ job' = job /\ round' = round /\ tree' = tree /\ part' = part /\ hist' = hist
      /\ splittable' = splittable /\ used' = used /\ layout' = layout /\ votes' = votes
      /\ got' = got /\ best' = best
  BY DEF AllreduceRoot, AllAt, AllGoTo, RootCounts
<1>3. sum \in Heaps /\ Cardinality(sum) \in Nat
  <2>1. \A m \in Machines : h[m] \in Heaps
    BY <1>1, TypeParts DEF Sides
  <2> HIDE DEF h
  <2>2. DOMAIN h = Machines
    BY DEF h
  <2> QED BY <2>1, <2>2, SumIs, Finite
<1> HIDE DEF sum
<1>4. ASSUME NEW m \in Machines
      PROVE  /\ pr(m) \in [Sides -> LeafSums] /\ \A s \in Sides : pr(m)[s].leaf = LeafOf(m, s)
             /\ cs(m) \in [Leaves -> Nat]
  <2>1. pair[m] \in [Sides -> LeafSums]
    BY <1>1, TypeParts
  <2>2. counts[m] \in [Leaves -> Nat]
    BY <1>1, TypeParts
  <2>3. [pair[m].smaller EXCEPT !.sum = sum] \in LeafSums
        /\ [pair[m].smaller EXCEPT !.sum = sum].leaf = pair[m].smaller.leaf
    BY <1>3, <2>1 DEF LeafSums, Sides
  <2>4. pr(m) \in [Sides -> LeafSums] /\ \A s \in Sides : pr(m)[s].leaf = LeafOf(m, s)
    <3> DEFINE new == [pair[m].smaller EXCEPT !.sum = sum]
    <3>1. pr(m) = [pair[m] EXCEPT !["smaller"] = new]
      OBVIOUS
    <3> HIDE DEF new
    <3>2. new \in LeafSums /\ new.leaf = pair[m]["smaller"].leaf
      BY <2>3 DEF new
    <3> HIDE DEF pr
    <3> QED BY <2>1, <3>1, <3>2 DEF LeafOf, Sides
  <2>5. cs(m) \in [Leaves -> Nat]
    BY <1>3, <2>2
  <2> QED BY <2>4, <2>5
<1> HIDE DEF pr, cs
<1>5. \A m \in Machines : pc'[m] = "search" /\ pair'[m] = pr(m) /\ counts'[m] = cs(m)
  BY <1>2
<1>6. TypeInv'
  <2>1. pc' \in [Machines -> Stages]
    BY <1>2 DEF Stages
  <2>2. pair' \in [Machines -> [Sides -> LeafSums]] /\ counts' \in [Machines -> [Leaves -> Nat]]
    BY <1>2, <1>4
  <2> QED BY <1>1, <1>2, <2>1, <2>2 DEF TypeInv
<1>7. ExchangeTypes'
  BY <1>1, <1>2 DEF ExchangeTypes
<1>8. \A m \in Machines, s \in Sides : LeafOf(m, s)' = LeafOf(m, s)
  BY <1>4, <1>5 DEF LeafOf
<1>9. ASSUME NEW m \in Machines PROVE TreeInv(m)' /\ ExchangeInv(m)'
  <2>1. SmallerLeaf(m)' = SmallerLeaf(m)
    <3>1. LeafOf(m, "smaller")' = LeafOf(m, "smaller")
      BY <1>8 DEF Sides
    <3> QED BY <3>1 DEF LeafOf, SmallerLeaf
  <2>2. pc[m] = "sum" /\ pc'[m] = "search"
    BY <1>2, <1>5
  <2>3. TreeInv(m)'
    BY <1>1, <1>2, <1>8, <2>1, <2>2 DEF TreeInv
  <2>4. ExchangeInv(m)'
    BY <1>1, <1>2, <2>2 DEF ExchangeInv
  <2> QED BY <2>3, <2>4
<1>10. ASSUME NEW m \in Machines, NEW n \in Machines PROVE View(m)' = View(n)'
  <2>1. View(m) = View(n)
    BY <1>1, <1>2, AllMeet
  <2>2. /\ round[m] = round[n] /\ tree[m] = tree[n] /\ best[m] = best[n]
        /\ IF job.mode = "feature" THEN part[m] = part[n] ELSE counts[m] = counts[n]
        /\ \A s \in Sides : LeafOf(m, s) = LeafOf(n, s)
    BY <1>1, <1>2, <2>1, SeenAlike DEF Searching
  <2>3. (IF job'.mode = "feature" THEN part'[m] ELSE counts'[m])
        = IF job'.mode = "feature" THEN part'[n] ELSE counts'[n]
    BY <1>2, <1>5, <2>2 DEF cs
  <2>4. [s \in Sides |-> LeafOf(m, s)'] = [s \in Sides |-> LeafOf(n, s)']
    BY <1>8, <2>2
  <2>5. round'[m] = round'[n] /\ tree'[m] = tree'[n] /\ best'[m] = best'[n] /\ pc'[m] = pc'[n]
    BY <1>2, <1>5, <2>2
  <2>6. Known(m)' = Known(n)'
    BY <2>3, <2>4, <2>5 DEF Known
  <2> QED BY <2>6 DEF View
<1> QED BY <1>2, <1>6, <1>7, <1>9, <1>10, AllKeep

-----------------------------------------------------------------------------
-----------------------------------------------------------------------------
\* In a collective of a search: all machines search, and see the same.
LEMMA AllSearch ==
  ASSUME IInv, NEW where, where \in Searching \ {"search"}, \A m \in Machines : pc[m] = where
  PROVE  /\ \A m \in Machines : /\ TypeInv /\ TreeInv(m) /\ ExchangeInv(m) /\ pc[m] \in Searching
                                /\ pc[m] # "idle" /\ ~TooSmall(m)
         /\ \A m, n \in Machines : View(m) = View(n)
<1>1. TypeInv /\ RunInv /\ \A m \in Machines : TreeInv(m) /\ ExchangeInv(m)
  BY DEF IInv
<1>2. \A m \in Machines : pc[m] \in Searching /\ ~TooSmall(m)
  BY <1>1 DEF TreeInv
<1>3. \A m \in Machines : pc[m] # "idle"
  BY DEF Searching
<1>4. \A m, n \in Machines : View(m) = View(n)
  BY <1>1, <1>2, AllMeet
<1> QED BY <1>1, <1>2, <1>3, <1>4

\* All machines go on in a search, and still see the same.
LEMMA AllSearchOn ==
  ASSUME IInv, NEW where, where \in Searching \ {"search"}, \A m \in Machines : pc[m] = where,
         NEW next, next \in Searching, \A m \in Machines : pc'[m] = next,
         job' = job, round' = round, tree' = tree, part' = part, counts' = counts,
         pair' = pair, best' = best, TypeInv', ExchangeTypes', \A m \in Machines : ExchangeInv(m)'
  PROVE  IInv'
<1>1. ASSUME NEW m \in Machines PROVE View(m)' = View(m) /\ TreeInv(m)'
  <2>1. TypeInv /\ TreeInv(m) /\ pc[m] \in Searching /\ ~TooSmall(m) /\ pc'[m] \in Searching
    BY AllSearch
  <2>2. best'[m] \in [Leaves -> Splits]
    BY <2>1, TypeParts
  <2> QED BY <2>1, <2>2, SearchGoesOn
<1>2. \A m, n \in Machines : View(m)' = View(n)'
  BY <1>1, AllSearch
<1> QED BY <1>1, <1>2, AllKeep

\* What is gathered is voted for by some machine, and about as many features
\* as a machine may name.
LEMMA GlobalVotingIs ==
  ASSUME IsJob(job), ExchangeTypes, NEW s \in Sides, \A m \in Machines : votes[m][s] \in Seq(Found)
  PROVE  /\ GlobalVoting(s) \in Seq(Vote) /\ Len(GlobalVoting(s)) <= TopK
         /\ (\A m \in Machines : votes[m][s] = <<>>) => GlobalVoting(s) = <<>>
<1> DEFINE cast == UNION {Range(votes[m][s]) : m \in Machines}
           all == {v \in {Weighted(w) : w \in cast} : v.gain > 0}
           top(f) == CHOOSE v \in all : v.feature = f /\ \A w \in all : w.feature = f => w.gain <= v.gain
           fs == {v.feature : v \in all}
           ss == {top(f) : f \in fs}
<1>1. cast \subseteq Found
  <2>1. \A m \in Machines : Range(votes[m][s]) \subseteq Found
    BY DEF Range
  <2> QED BY <2>1
<1>2. IsFiniteSet(cast)
  <2>1. ASSUME NEW m \in Machines PROVE IsFiniteSet(Range(votes[m][s]))
    <3> DEFINE q == votes[m][s]
    <3>1. q \in Seq(Found) /\ Len(q) \in Nat /\ DOMAIN q = 1..Len(q)
      OBVIOUS
    <3>2. IsFiniteSet(1..Len(q))
      BY <3>1, FS_Interval
    <3> HIDE DEF q
    <3> DEFINE G == [i \in 1..Len(q) |-> q[i]]
    <3>3. G \in Surjection(1..Len(q), Range(q))
      BY <3>1 DEF Surjection, Range
    <3> QED BY <3>2, <3>3, FS_Surjection DEF q
  <2> DEFINE G == [m \in Machines |-> Range(votes[m][s])]
             R == {Range(votes[m][s]) : m \in Machines}
  <2>2. G \in Surjection(Machines, R)
    BY DEF Surjection
  <2>3. IsFiniteSet(R)
    BY <2>2, MachinesAre, FS_Surjection
  <2>4. \A T \in R : IsFiniteSet(T)
    BY <2>1
  <2> HIDE DEF R
  <2>5. IsFiniteSet(UNION R)
    BY <2>3, <2>4, FS_UNION
  <2> QED BY <2>5 DEF R
<1>3. \A w \in cast : /\ Weighted(w).feature \in Features /\ Weighted(w).gain \in Int
                      /\ Weighted(w).gain > 0 => Weighted(w) \in Vote
  <2> SUFFICES ASSUME NEW w \in cast
               PROVE  /\ Weighted(w).feature \in Features /\ Weighted(w).gain \in Int
                      /\ Weighted(w).gain > 0 => Weighted(w) \in Vote
    OBVIOUS
  <2>1. w \in Found
    BY <1>1
  <2>2. /\ w.feature \in Features /\ w.gain \in Int
        /\ w.left_count \in Nat /\ w.right_count \in Nat
    BY <2>1 DEF Found, MinScore
  <2>4. w.gain * (w.left_count + w.right_count) \in Int
    BY <2>2
  <2> DEFINE g == w.gain * (w.left_count + w.right_count)
  <2>5. Weighted(w) = [feature |-> w.feature, gain |-> g]
    BY DEF Weighted
  <2>6. g \in Int
    BY <2>4
  <2> HIDE DEF g
  <2> QED BY <2>2, <2>5, <2>6 DEF Vote
<1>4. all \subseteq Vote /\ IsFiniteSet(all)
  <2> DEFINE W == {Weighted(w) : w \in cast}
             G == [w \in cast |-> Weighted(w)]
  <2>1. G \in Surjection(cast, W)
    <3> HIDE DEF cast
    <3> QED BY DEF Surjection
  <2>2. IsFiniteSet(W)
    <3> HIDE DEF cast, W, G
    <3> QED BY <1>2, <2>1, FS_Surjection
  <2>3. all \subseteq W /\ all \subseteq Vote
    BY <1>3
  <2> HIDE DEF all, W
  <2> QED BY <2>2, <2>3, FS_Subset
<1>5. ASSUME \A m \in Machines : votes[m][s] = <<>> PROVE all = {}
  <2>1. \A m \in Machines : Range(votes[m][s]) = {}
    BY <1>5 DEF Range
  <2>2. cast = {}
    BY <2>1
  <2> HIDE DEF cast
  <2> QED BY <2>2
<1> HIDE DEF cast, all
<1>6. ASSUME NEW f \in fs PROVE top(f) \in all /\ top(f).feature = f
  <2> DEFINE af == {v \in all : v.feature = f}
             R == {x \in af \X af : x[2].gain <= x[1].gain}
  <2>1. af # {} /\ IsFiniteSet(af)
    <3>1. af \subseteq all /\ af # {}
      OBVIOUS
    <3> QED BY <1>4, <3>1, FS_Subset
  <2>2. \A v \in af : v.gain \in Nat
    BY <1>4 DEF Vote
  <2>3. \A x, y \in af : <<x, y>> \in R <=> y.gain <= x.gain
    OBVIOUS
  <2> HIDE DEF R, af
  <2>4. Orders(R, af)
    BY <2>2, <2>3 DEF Orders
  <2>5. PICK v \in af : \A w \in af : v = w \/ <<v, w>> \in R
    BY <2>1, <2>4, HasFirst
  <2>6. ASSUME NEW w \in af PROVE w.gain <= v.gain
    <3>1. v.gain \in Nat
      BY <2>2, <2>5
    <3>2. CASE v = w
      BY <3>1, <3>2
    <3>3. CASE v # w
      BY <2>3, <2>5, <3>3
    <3> QED BY <3>2, <3>3
  <2>7. v \in all /\ v.feature = f /\ \A w \in all : w.feature = f => w.gain <= v.gain
    BY <2>5, <2>6 DEF af
  <2> QED BY <2>7
<1> HIDE DEF top
<1>7. ss \subseteq all /\ \A x, y \in ss : x.feature = y.feature => x = y
  BY <1>6
<1>8. IsFiniteSet(ss)
  BY <1>4, <1>7, FS_Subset
<1>9. \A x \in ss : Ranked(x)
  <2>1. ASSUME NEW x \in Vote PROVE x.gain \in Int /\ x.feature \in Nat
    <3>1. x.gain \in Nat /\ x.feature \in Features
      BY DEF Vote
    <3>2. Features \subseteq Nat
      BY ParallelAssumption
    <3>3. x.feature \in Nat
      BY <3>1, <3>2
    <3>4. x.gain \in Int
      BY <3>1
    <3> QED BY <3>3, <3>4
  <2>2. ss \subseteq Vote
    BY <1>4, <1>7
  <2> HIDE DEF ss
  <2> QED BY <2>1, <2>2 DEF Ranked
<1>10. all = {} => ss = {}
  OBVIOUS
<1>11. GlobalVoting(s) = MaxK(ss, TopK)
  BY Zenon DEF GlobalVoting, all, cast, top
<1> HIDE DEF ss
<1>12. /\ MaxK(ss, TopK) \in Seq(ss) /\ Len(MaxK(ss, TopK)) <= TopK
       /\ (ss = {} => MaxK(ss, TopK) = <<>>)
  BY <1>7, <1>8, <1>9, MaxKIs, ParallelAssumption
<1>13. ss \subseteq Vote
  BY <1>4, <1>7
<1>14. \A q \in Seq(ss) : q \in Seq(Vote)
  BY <1>13
<1> QED BY <1>5, <1>10, <1>11, <1>12, <1>14

LEMMA AllgatherVotesKeeps ==
  ASSUME IInv, AllgatherVotes
  PROVE  IInv'
<1>1. TypeInv /\ ExchangeTypes /\ Machines' = Machines
      /\ \A m \in Machines : TreeInv(m) /\ ExchangeInv(m)
  BY DEF IInv, AllgatherVotes, Machines
<1>2. /\ \A m \in Machines : pc[m] = "gather"
      /\ pc' = [m \in Machines |-> "copy"]
      /\ votes' = [m \in Machines |-> [s \in Sides |-> GlobalVoting(s)]]
      /\ job' = job /\ round' = round /\ tree' = tree /\ part' = part /\ counts' = counts
      /\ pair' = pair /\ hist' = hist /\ splittable' = splittable /\ used' = used
      /\ layout' = layout /\ got' = got /\ best' = best
  BY DEF AllgatherVotes, AllAt, AllGoTo
<1>3. IsJob(job) /\ Machines # {}
  <2>1. IsJob(job)
    BY <1>1, ParallelAssumption DEF TypeInv
  <2> QED BY <2>1, MachinesAre
<1>4. ASSUME NEW s \in Sides
      PROVE  /\ GlobalVoting(s) \in Seq(Vote) /\ Len(GlobalVoting(s)) <= TopK
             /\ (\A m \in Machines : votes[m][s] = <<>>) => GlobalVoting(s) = <<>>
  <2>1. \A m \in Machines : votes[m][s] \in Seq(Found)
    BY <1>1, <1>2 DEF ExchangeInv
  <2> QED BY <1>1, <1>3, <2>1, GlobalVotingIs
<1>5. "gather" \in Searching \ {"search"} /\ "copy" \in Searching
  BY DEF Searching
<1>6. \A m, n \in Machines : View(m) = View(n)
  BY <1>2, <1>5, AllSearch
<1>7. TypeInv'
  <2>1. pc' \in [Machines -> Stages]
    BY <1>2 DEF Stages
  <2> QED BY <1>1, <1>2, <2>1 DEF TypeInv
<1>8. ExchangeTypes'
  BY <1>1, <1>2, <1>4 DEF ExchangeTypes
<1>9. ASSUME NEW m \in Machines PROVE ExchangeInv(m)'
  <2>1. \A s \in Sides : votes'[m][s] = GlobalVoting(s)
    BY <1>2
  <2>2. pc'[m] = "copy" /\ pc[m] = "gather"
    BY <1>2
  <2>3. \A s : LeafOf(m, s)' = LeafOf(m, s)
    BY <1>2 DEF LeafOf
  <2>4. ASSUME NEW s \in Sides, LeafOf(m, s) = None PROVE votes'[m][s] = <<>>
    <3>1. ASSUME NEW n \in Machines PROVE votes[n][s] = <<>>
      <4>1. LeafOf(n, s) = None
        BY <1>1, <1>6, <2>4, SeenAlike
      <4> QED BY <1>1, <1>2, <4>1 DEF ExchangeInv
    <3> QED BY <1>4, <2>1, <3>1
  <2>5. job.mode = "voting"
    BY <1>1, <2>2 DEF ExchangeInv
  <2>6. \A s \in Sides : votes'[m][s] \in Seq(Vote) /\ Len(votes'[m][s]) <= TopK
    BY <1>4, <2>1
  <2>7. \A n \in DOMAIN layout[m] : layout[m][n].side \in Sides /\ layout[m][n].feature \in Features
    BY <1>1 DEF ExchangeInv
  <2>8. \A x \in DOMAIN got[m] : x \in Sides \X Features /\ got[m][x] \in Heaps
    BY <1>1 DEF ExchangeInv
  <2> QED BY <1>2, <2>2, <2>3, <2>4, <2>5, <2>6, <2>7, <2>8 DEF ExchangeInv
<1>10. \A m \in Machines : pc'[m] = "copy"
  BY <1>2
<1> QED BY <1>2, <1>5, <1>7, <1>8, <1>9, <1>10, AllSearchOn

-----------------------------------------------------------------------------
-----------------------------------------------------------------------------
\* What is in a buffer is a histogram, or no histogram at all.
LEMMA AtIs ==
  ASSUME TypeInv, NEW k \in Machines, ExchangeInv(k), pc[k] = "scatter", NEW p
  PROVE  At(k, p)[2] \in Heaps
<1> DEFINE ns == {n \in DOMAIN layout[k] : layout[k][n].write = p}
           i == CHOOSE n \in ns : TRUE
           it == layout[k][i]
<1>1. CASE ns = {}
  <2>1. At(k, p) = <<None, {Junk}>>
    BY <1>1 DEF At
  <2> QED BY <2>1, HeapsAre
<1>2. CASE ns # {}
  <2>1. i \in DOMAIN layout[k]
    BY <1>2
  <2>2. it.side \in Sides /\ it.feature \in Features /\ LeafOf(k, it.side) # None
    BY <2>1 DEF ExchangeInv
  <2>3. LeafOf(k, it.side) \in Leaves
    BY <2>2, TypeParts
  <2>4. hist[k][LeafOf(k, it.side)][it.feature] \in Heaps
    <3>1. hist[k] \in [Leaves -> [Features -> Heaps]]
      BY TypeParts
    <3> HIDE DEF it
    <3> QED BY <2>2, <2>3, <3>1
  <2>5. At(k, p) = <<it.feature, hist[k][LeafOf(k, it.side)][it.feature]>>
    BY <1>2 DEF At
  <2> HIDE DEF it
  <2> QED BY <2>4, <2>5
<1> QED BY <1>1, <1>2

LEMMA ReceivedIs ==
  ASSUME TypeInv, \A k \in Machines : ExchangeInv(k) /\ pc[k] = "scatter", NEW m \in Machines
  PROVE  \A x \in DOMAIN Received(m) :
           /\ x \in Sides \X Features /\ Received(m)[x] \in Heaps
           /\ job.mode # "voting" => x[1] = "smaller"
<1> DEFINE lay == layout[m]
           mine == {n \in DOMAIN lay : lay[n].to = m}
           start == SizeOfItems(lay, {n \in DOMAIN lay : lay[n].to < m})
           sum(n) == IF \A k \in Machines : At(k, start + lay[n].read)[1] = lay[n].feature
                       THEN Sum([k \in Machines |-> At(k, start + lay[n].read)[2]]) ELSE {Junk}
           keys == {<<lay[n].side, lay[n].feature>> : n \in mine}
           r == [x \in keys |-> sum(CHOOSE n \in mine : x = <<lay[n].side, lay[n].feature>>)]
<1>1. Received(m) = r
  BY DEF Received
<1>2. ASSUME NEW n PROVE sum(n) \in Heaps
  <2> DEFINE h == [k \in Machines |-> At(k, start + lay[n].read)[2]]
  <2>1. \A k \in Machines : At(k, start + lay[n].read)[2] \in Heaps
    BY AtIs
  <2>2. (\A k \in Machines : h[k] \in Heaps) /\ DOMAIN h = Machines
    BY <2>1
  <2> HIDE DEF h
  <2>3. Sum(h) \in Heaps
    BY <2>2, SumIs
  <2> QED BY <2>3, HeapsAre DEF h
<1>3. \A n \in mine : /\ lay[n].side \in Sides /\ lay[n].feature \in Features
                      /\ job.mode # "voting" => lay[n].side = "smaller"
  BY DEF ExchangeInv
<1> HIDE DEF sum
<1>4. \A x \in keys : x \in Sides \X Features /\ (job.mode # "voting" => x[1] = "smaller")
  BY <1>3
<1>5. DOMAIN r = keys /\ \A x \in keys : r[x] \in Heaps
  BY <1>2
<1> HIDE DEF r, keys
<1> QED BY <1>1, <1>4, <1>5

LEMMA ReduceScatterKeeps ==
  ASSUME IInv, ReduceScatter
  PROVE  IInv'
<1>1. TypeInv /\ ExchangeTypes /\ Machines' = Machines
      /\ \A m \in Machines : TreeInv(m) /\ ExchangeInv(m)
  BY DEF IInv, ReduceScatter, Machines
<1>2. /\ \A m \in Machines : pc[m] = "scatter"
      /\ pc' = [m \in Machines |-> "judge"] /\ got' = [m \in Machines |-> Received(m)]
      /\ job' = job /\ round' = round /\ tree' = tree /\ part' = part /\ counts' = counts
      /\ pair' = pair /\ hist' = hist /\ splittable' = splittable /\ used' = used
      /\ layout' = layout /\ votes' = votes /\ best' = best
  BY DEF ReduceScatter, AllAt, AllGoTo
<1>3. "scatter" \in Searching \ {"search"} /\ "judge" \in Searching
  BY DEF Searching
<1>4. TypeInv'
  <2>1. pc' \in [Machines -> Stages]
    BY <1>2 DEF Stages
  <2> QED BY <1>1, <1>2, <2>1 DEF TypeInv
<1>5. ExchangeTypes'
  BY <1>1, <1>2 DEF ExchangeTypes
<1>6. ASSUME NEW m \in Machines PROVE ExchangeInv(m)'
  <2>1. pc'[m] = "judge" /\ got'[m] = Received(m)
    BY <1>2
  <2>2. \A x \in DOMAIN Received(m) :
          /\ x \in Sides \X Features /\ Received(m)[x] \in Heaps
          /\ job.mode # "voting" => x[1] = "smaller"
    BY <1>1, <1>2, ReceivedIs
  <2> QED BY <1>1, <1>2, <2>1, <2>2 DEF ExchangeInv
<1>7. \A m \in Machines : pc'[m] = "judge"
  BY <1>2
<1> QED BY <1>2, <1>3, <1>4, <1>5, <1>6, <1>7, AllSearchOn

\* The agreed split is the best one offered; where voting keeps its own,
\* nobody has found anything.
LEMMA AgreedIs ==
  ASSUME TypeInv, \A n \in Machines : TreeInv(n) /\ pc[n] # "idle", NEW m \in Machines, NEW s \in Sides
  PROVE  /\ Agreed(m, s) = BestOf({Offered(n, s) : n \in Machines})
         /\ Agreed(m, s) \in Splits
<1> DEFINE ss == {Offered(n, s) : n \in Machines}
           G == [n \in Machines |-> Offered(n, s)]
<1>1. ASSUME NEW n \in Machines PROVE Offered(n, s) \in Splits
  <2>1. CASE s \in TheSides(n)
    <3>1. LeafOf(n, s) \in Leaves
      BY <2>1, LeavesAre
    <3>2. best[n][LeafOf(n, s)] \in Splits
      BY <3>1, TypeParts
    <3> QED BY <2>1, <3>2 DEF Offered
  <2>2. CASE s \notin TheSides(n)
    BY <2>2 DEF Offered, Splits
  <2> QED BY <2>1, <2>2
<1>2. ss \in SUBSET Splits /\ Offered(m, s) \in ss
  BY <1>1
<1>3. IsFiniteSet(ss)
  <2>1. IsJob(job)
    BY TypeParts
  <2>2. G \in Surjection(Machines, ss)
    BY DEF Surjection
  <2> HIDE DEF ss, G
  <2> QED BY <2>1, <2>2, MachinesAre, FS_Surjection
<1> DEFINE all == BestOf(ss)
<1>4. all \in ss /\ \A t \in ss : ~Better(t, all)
  <2> HIDE DEF ss
  <2> QED BY <1>2, <1>3, BestOfIs
<1>5. ASSUME all.feature = None PROVE Offered(m, s) = all
  <2>1. all = NoSplit
    BY <1>2, <1>4, <1>5, SplitsAre
  <2> DEFINE t == Offered(m, s)
  <2>2. t \in Splits /\ ~Better(t, NoSplit)
    BY <1>2, <1>4, <2>1
  <2>3. t.gain \in Nat \cup {MinScore} /\ (t.feature = None => t = NoSplit)
    BY <2>2, SplitsAre
  <2> HIDE DEF t
  <2>4. NoSplit.gain = MinScore /\ NoSplit.feature = None
    BY DEF NoSplit
  <2>5. t.feature = None
    BY <2>2, <2>3, <2>4 DEF Better, MinScore
  <2> QED BY <2>1, <2>3, <2>5 DEF t
<1>6. Agreed(m, s) = IF job.mode = "voting" /\ s = "larger" /\ all.feature = None THEN Offered(m, s) ELSE all
  BY DEF Agreed
<1> HIDE DEF all
<1>7. Agreed(m, s) = all
  BY <1>5, <1>6
<1> HIDE DEF ss
<1>8. all \in Splits
  BY <1>2, <1>4
<1> QED BY <1>7, <1>8 DEF all, ss

\* All machines come out of the search with the same splits.
LEMMA SyncUpGlobalBestSplitKeeps ==
  ASSUME IInv, SyncUpGlobalBestSplit
  PROVE  IInv'
<1> DEFINE side(m, l) == CHOOSE s \in TheSides(m) : LeafOf(m, s) = l
           b(m) == [l \in Leaves |-> IF \E s \in TheSides(m) : LeafOf(m, s) = l
                                       THEN Agreed(m, side(m, l)) ELSE best[m][l]]
<1>1. TypeInv /\ ExchangeTypes /\ Machines' = Machines
      /\ \A m \in Machines : TreeInv(m) /\ ExchangeInv(m)
  BY DEF IInv, SyncUpGlobalBestSplit, Machines
<1>2. /\ \A m \in Machines : pc[m] = "best"
      /\ pc' = [m \in Machines |-> "split"] /\ best' = [m \in Machines |-> b(m)]
      /\ job' = job /\ round' = round /\ tree' = tree /\ part' = part /\ counts' = counts
      /\ pair' = pair /\ hist' = hist /\ splittable' = splittable /\ used' = used
      /\ layout' = layout /\ votes' = votes /\ got' = got
  BY DEF SyncUpGlobalBestSplit, AllAt, AllGoTo
<1>3. "best" \in Searching \ {"search"}
  BY DEF Searching
<1>4. /\ \A m \in Machines : pc[m] # "idle"
      /\ \A m, n \in Machines : View(m) = View(n)
  BY <1>2, <1>3, AllSearch
<1>5. \A m \in Machines, s \in Sides : /\ Agreed(m, s) = BestOf({Offered(n, s) : n \in Machines})
                                       /\ Agreed(m, s) \in Splits
  BY <1>1, <1>4, AgreedIs
<1>6. ASSUME NEW m \in Machines, NEW l \in Leaves, \E s \in TheSides(m) : LeafOf(m, s) = l
      PROVE  side(m, l) \in TheSides(m) /\ side(m, l) \in Sides /\ LeafOf(m, side(m, l)) = l
  BY <1>6 DEF TheSides
<1>7. ASSUME NEW m \in Machines PROVE b(m) \in [Leaves -> Splits]
  <2>1. best[m] \in [Leaves -> Splits]
    BY <1>1, TypeParts
  <2> HIDE DEF side
  <2> QED BY <1>5, <1>6, <2>1
<1>8. ASSUME NEW m \in Machines, NEW n \in Machines
      PROVE  /\ b(m) = b(n) /\ round[m] = round[n] /\ tree[m] = tree[n]
             /\ IF job.mode = "feature" THEN part[m] = part[n] ELSE counts[m] = counts[n]
             /\ \A s \in Sides : LeafOf(m, s) = LeafOf(n, s)
  <2>1. View(m) = View(n)
    BY <1>4
  <2>2. /\ round[m] = round[n] /\ tree[m] = tree[n]
        /\ IF job.mode = "feature" THEN part[m] = part[n] ELSE counts[m] = counts[n]
        /\ \A s \in Sides : LeafOf(m, s) = LeafOf(n, s)
        /\ \A l \in Leaves : (\A s \in Sides : LeafOf(m, s) # l) => best[m][l] = best[n][l]
    BY <1>1, <2>1, SeenAlike
  <2>3. TheSides(m) = TheSides(n)
    BY <2>2 DEF TheSides
  <2>4. ASSUME NEW l \in Leaves PROVE b(m)[l] = b(n)[l]
    <3>1. CASE \E s \in TheSides(m) : LeafOf(m, s) = l
      <4>1. {s \in TheSides(m) : LeafOf(m, s) = l} = {s \in TheSides(n) : LeafOf(n, s) = l}
        BY <2>2, <2>3 DEF TheSides
      <4>2. side(m, l) = side(n, l)
        <5>1. \A s : (s \in TheSides(m) /\ LeafOf(m, s) = l) <=> (s \in TheSides(n) /\ LeafOf(n, s) = l)
          BY <4>1
        <5> QED BY <5>1
      <4>3. side(m, l) \in Sides
        BY <1>6, <3>1
      <4>4. \E s \in TheSides(n) : LeafOf(n, s) = l
        BY <3>1, <4>1
      <4> HIDE DEF side
      <4>5. b(m)[l] = Agreed(m, side(m, l)) /\ b(n)[l] = Agreed(n, side(n, l))
        BY <3>1, <4>4
      <4> QED BY <1>5, <4>2, <4>3, <4>5
    <3>2. CASE ~\E s \in TheSides(m) : LeafOf(m, s) = l
      <4>1. \A s \in Sides : LeafOf(m, s) # l
        <5>1. l # None
          BY DEF Leaves, None
        <5> QED BY <3>2, <5>1 DEF TheSides
      <4>2. ~\E s \in TheSides(n) : LeafOf(n, s) = l
        BY <2>2, <4>1 DEF TheSides
      <4> HIDE DEF side
      <4>3. b(m)[l] = best[m][l] /\ b(n)[l] = best[n][l]
        BY <3>2, <4>2
      <4> QED BY <2>2, <4>1, <4>3
    <3> QED BY <3>1, <3>2
  <2>5. b(m) = b(n)
    <3>1. b(m) \in [Leaves -> Splits] /\ b(n) \in [Leaves -> Splits]
      BY <1>7
    <3> HIDE DEF b
    <3> QED BY <2>4, <3>1
  <2> QED BY <2>2, <2>5
<1>9. ASSUME NEW m \in Machines, NEW l \in Leaves, l > Len(tree[m]) PROVE b(m)[l].gain <= 0
  <2>1. \A s \in Sides : LeafOf(m, s) <= Len(tree[m]) /\ LeafOf(m, s) \in Leaves \cup {None}
    BY <1>1, <1>4, TypeParts DEF TreeInv
  <2>2. l \in Int /\ Len(tree[m]) \in Int
    BY <1>1, TypeParts DEF Leaves
  <2>3. \A s \in Sides : LeafOf(m, s) # l
    BY <1>9, <2>1, <2>2
  <2>4. b(m)[l] = best[m][l]
    BY <2>3 DEF TheSides
  <2> QED BY <1>1, <1>9, <2>4 DEF TreeInv
<1> HIDE DEF b
<1>10. \A m \in Machines : pc'[m] = "split" /\ best'[m] = b(m)
  BY <1>2
<1>11. TypeInv'
  <2>1. pc' \in [Machines -> Stages] /\ best' \in [Machines -> [Leaves -> Splits]]
    BY <1>2, <1>7 DEF Stages
  <2> QED BY <1>1, <1>2, <2>1 DEF TypeInv
<1>12. ExchangeTypes'
  BY <1>1, <1>2 DEF ExchangeTypes
<1>13. ASSUME NEW m \in Machines PROVE TreeInv(m)' /\ ExchangeInv(m)'
  <2>1. (\A s : LeafOf(m, s)' = LeafOf(m, s)) /\ SmallerLeaf(m)' = SmallerLeaf(m)
    BY <1>2 DEF LeafOf, SmallerLeaf
  <2>2. TreeInv(m)'
    BY <1>1, <1>2, <1>4, <1>9, <1>10, <2>1 DEF TreeInv, Searching
  <2>3. ExchangeInv(m)'
    BY <1>1, <1>2, <1>10 DEF ExchangeInv
  <2> QED BY <2>2, <2>3
<1>14. ASSUME NEW m \in Machines, NEW n \in Machines PROVE View(m)' = View(n)'
  <2>1. (IF job'.mode = "feature" THEN part'[m] ELSE counts'[m])
        = IF job'.mode = "feature" THEN part'[n] ELSE counts'[n]
    BY <1>2, <1>8
  <2>2. [s \in Sides |-> LeafOf(m, s)'] = [s \in Sides |-> LeafOf(n, s)']
    BY <1>2, <1>8 DEF LeafOf
  <2>3. round'[m] = round'[n] /\ tree'[m] = tree'[n] /\ best'[m] = best'[n] /\ pc'[m] = pc'[n]
    BY <1>2, <1>8, <1>10
  <2>4. Known(m)' = Known(n)'
    BY <2>1, <2>2, <2>3 DEF Known
  <2> QED BY <2>4 DEF View
<1> QED BY <1>2, <1>11, <1>12, <1>13, <1>14, AllKeep

-----------------------------------------------------------------------------
-----------------------------------------------------------------------------
(* The theorems *)

LEMMA StartsRight ==
  ASSUME Init
  PROVE  IInv
<1>1. job \in Jobs /\ IsJob(job) /\ Len(job.plan) \in Nat
  <2>1. job \in Jobs /\ IsJob(job)
    BY ParallelAssumption DEF Init
  <2>2. job.plan \in Seq([bag : SUBSET Rows, used : SUBSET Features])
    BY <2>1 DEF IsJob
  <2> QED BY <2>1, <2>2
<1>2. TypeInv
  <2>1. round \in [Machines -> Nat] /\ pc \in [Machines -> Stages] /\ tree \in [Machines -> Seq(Made)]
    BY DEF Init, Stages
  <2>2. /\ part \in [Machines -> [Leaves -> SUBSET Rows]] /\ counts \in [Machines -> [Leaves -> Nat]]
        /\ best \in [Machines -> [Leaves -> Splits]] /\ used \in [Machines -> SUBSET Features]
    BY DEF Init, Empty, Splits
  <2>3. pair \in [Machines -> [Sides -> LeafSums]]
    <3>1. [leaf |-> None, sum |-> {}] \in LeafSums
      BY HeapsAre DEF LeafSums
    <3> QED BY <3>1 DEF Init
  <2>4. hist \in [Machines -> [Leaves -> [Features -> Heaps]]]
    BY HeapsAre DEF Init, Empty
  <2>5. splittable \in [Machines -> [Leaves -> [Features -> BOOLEAN]]]
    BY DEF Init, Empty
  <2> QED BY <1>1, <2>1, <2>2, <2>3, <2>4, <2>5 DEF TypeInv
<1>3. ExchangeTypes
  BY DEF Init, ExchangeTypes
<1>4. ASSUME NEW m \in Machines PROVE TreeInv(m) /\ ExchangeInv(m)
  <2>1. /\ pc[m] = "idle" /\ round[m] = 0 /\ tree[m] = <<>> /\ layout[m] = <<>> /\ got[m] = <<>>
        /\ votes[m] = [s \in Sides |-> <<>>] /\ best[m] = [l \in Leaves |-> NoSplit]
    BY DEF Init, Empty
  <2>2. TreeInv(m)
    BY <1>1, <2>1 DEF TreeInv, Searching, NoSplit, MinScore
  <2>3. ExchangeInv(m)
    BY <2>1, ParallelAssumption DEF ExchangeInv
  <2> QED BY <2>2, <2>3
<1>5. RunInv
  <2> SUFFICES ASSUME NEW m \in Machines, NEW n \in Machines PROVE View(m) = View(n)
    BY ReachesItself DEF RunInv
  <2>1. /\ pc[m] = pc[n] /\ round[m] = round[n] /\ tree[m] = tree[n] /\ best[m] = best[n]
        /\ part[m] = part[n] /\ counts[m] = counts[n] /\ pair[m] = pair[n]
    BY DEF Init, Empty
  <2>2. [s \in Sides |-> LeafOf(m, s)] = [s \in Sides |-> LeafOf(n, s)]
    BY <2>1 DEF LeafOf
  <2>3. Known(m) = Known(n)
    BY <2>1, <2>2 DEF Known
  <2> QED BY <2>3 DEF View
<1> QED BY <1>2, <1>3, <1>4, <1>5 DEF IInv

LEMMA StutterKeeps ==
  ASSUME IInv, UNCHANGED vars
  PROVE  IInv'
<1>1. TypeInv /\ ExchangeTypes /\ RunInv /\ \A m \in Machines : TreeInv(m) /\ ExchangeInv(m)
  BY DEF IInv
<1>2. \A m \in Machines : Kept(m)
  BY DEF vars, Kept
<1>3. \A m \in Machines : TreeInv(m)' /\ ExchangeInv(m)' /\ View(m)' = View(m)
  BY <1>1, <1>2, KeptIs
<1>4. TypeInv' /\ ExchangeTypes' /\ job' = job /\ Machines' = Machines
  BY <1>1 DEF vars, TypeInv, ExchangeTypes, Machines
<1>5. RunInv'
  BY <1>1, <1>3, <1>4 DEF RunInv
<1> QED BY <1>3, <1>4, <1>5 DEF IInv

\* Machines that do not wait go on by the same reckoning, those that wait meet:
\* this is what every step of the three learners keeps.
THEOREM Inductive == Spec => []IInv
<1>1. Init => IInv
  BY StartsRight
<1>2. IInv /\ [Next]_vars => IInv'
  <2> SUFFICES ASSUME IInv, [Next]_vars PROVE IInv'
    OBVIOUS
  <2>1. ASSUME NEW m \in Machines, Step(m) PROVE IInv'
    <3>1. CASE BeforeTrain(m)
      BY <3>1, BeforeTrainKeeps
    <3>2. CASE SkipSearch(m)
      BY <3>2, SkipSearchKeeps
    <3>3. CASE FindBestSplits(m)
      BY <3>3, FindBestSplitsKeeps
    <3>4. CASE FindBestOfOwnFeatures(m)
      BY <3>4, FindBestOfOwnFeaturesKeeps
    <3>5. CASE FindLocalVotes(m)
      BY <3>5, FindLocalVotesKeeps
    <3>6. CASE CopyVoted(m)
      BY <3>6, CopyVotedKeeps
    <3>7. CASE FindBestSplitsFromHistograms(m)
      BY <3>7, FindBestSplitsFromHistogramsKeeps
    <3>8. CASE Finish(m)
      BY <3>8, FinishKeeps
    <3>9. CASE Split(m)
      BY <3>9, SplitKeeps
    <3> QED BY <2>1, <3>1, <3>2, <3>3, <3>4, <3>5, <3>6, <3>7, <3>8, <3>9 DEF Step
  <2>2. CASE AllreduceRoot
    BY <2>2, AllreduceRootKeeps
  <2>3. CASE AllgatherVotes
    BY <2>3, AllgatherVotesKeeps
  <2>4. CASE ReduceScatter
    BY <2>4, ReduceScatterKeeps
  <2>5. CASE SyncUpGlobalBestSplit
    BY <2>5, SyncUpGlobalBestSplitKeeps
  <2>6. CASE Terminating
    BY <2>6, StutterKeeps DEF Terminating
  <2>7. CASE UNCHANGED vars
    BY <2>7, StutterKeeps
  <2> QED BY <2>1, <2>2, <2>3, <2>4, <2>5, <2>6, <2>7 DEF Next
<1> QED BY <1>1, <1>2, PTL DEF Spec

\* Votes, gathered votes, received histograms and splits are about features,
\* leaves of the tree and sets of rows, and no tree outgrows the plan.
THEOREM TypeCorrect == Spec => []TypeOK
<1>1. IInv => TypeOK
  <2> SUFFICES ASSUME IInv PROVE TypeOK
    OBVIOUS
  <2>1. TypeInv /\ \A m \in Machines : TreeInv(m) /\ ExchangeInv(m)
    BY DEF IInv
  <2>2. IsJob(job)
    BY <2>1, ParallelAssumption DEF TypeInv
  <2>3. ASSUME NEW m \in Machines
        PROVE  /\ round[m] \in 0..Len(job.plan)
               /\ pc[m] \in {"idle", "sum", "search", "gather", "copy", "scatter", "judge", "best", "split"}
               /\ DOMAIN got[m] \subseteq Sides \X Features
               /\ \A s \in Sides : Len(votes[m][s]) <= TopK
               /\ \A s \in Sides : pair[m][s].leaf \in Leaves \cup {None}
    <3>1. round[m] \in Nat /\ pc[m] \in Stages
      BY <2>1, TypeParts
    <3>2. round[m] <= Len(job.plan) /\ Len(job.plan) \in Nat
      BY <2>1, <2>2 DEF TreeInv, IsJob
    <3>3. \A s \in Sides : pair[m][s].leaf \in Leaves \cup {None}
      BY <2>1, TypeParts DEF LeafOf
    <3>4. DOMAIN got[m] \subseteq Sides \X Features /\ \A s \in Sides : Len(votes[m][s]) <= TopK
      BY <2>1 DEF ExchangeInv
    <3> QED BY <3>1, <3>2, <3>3, <3>4 DEF Stages
  <2>4. ASSUME NEW m \in Machines, NEW i \in DOMAIN tree[m]
        PROVE  tree[m][i].leaf \in 0..(i - 1) /\ tree[m][i].feature \in Features
    <3>1. tree[m] \in Seq(Made)
      BY <2>1, TypeParts
    <3>2. tree[m][i] \in Made /\ i \in Nat
      BY <3>1
    <3>3. tree[m][i].leaf <= i - 1
      BY <2>1 DEF TreeInv
    <3>4. tree[m][i].leaf \in Nat /\ tree[m][i].feature \in Features
      BY <3>2, ParallelAssumption DEF Made, Leaves
    <3> QED BY <3>2, <3>3, <3>4
  <2>5. ASSUME NEW m \in Machines, NEW l \in Leaves
        PROVE  /\ part[m][l] \subseteq Rows /\ counts[m][l] \in Nat
               /\ \A f \in Features : /\ hist[m][l][f] \subseteq Rows \cup {Junk}
                                      /\ splittable[m][l][f] \in BOOLEAN
               /\ best[m][l].feature \in Features \cup {None}
    <3>1. part[m] \in [Leaves -> SUBSET Rows] /\ counts[m] \in [Leaves -> Nat]
      BY <2>1, TypeParts
    <3>2. hist[m] \in [Leaves -> [Features -> Heaps]] /\ splittable[m] \in [Leaves -> [Features -> BOOLEAN]]
      BY <2>1, TypeParts
    <3>3. \A f \in Features : hist[m][l][f] \in Heaps
      BY <3>2
    <3>4. best[m][l] \in Splits
      BY <2>1, TypeParts
    <3>5. best[m][l].feature \in Features \cup {None}
      BY <3>4, SplitsAre
    <3> QED BY <3>1, <3>2, <3>3, <3>5 DEF Heaps
  <2> QED BY <2>2, <2>3, <2>4, <2>5 DEF TypeOK
<1> QED BY <1>1, Inductive, PTL

\* No machine ever grows another tree than the others, though none of them
\* sends its tree: of two in one tree, one has made the splits of the other.
THEOREM Agreement == Spec => []MachinesAgree
<1>1. IInv => MachinesAgree
  <2> SUFFICES ASSUME IInv, NEW m \in Machines, NEW n \in Machines, round[m] = round[n]
               PROVE  IsPrefix(tree[m], tree[n]) \/ IsPrefix(tree[n], tree[m])
    BY DEF MachinesAgree
  <2>1. TypeInv /\ RunInv
    BY DEF IInv
  <2>2. IsJob(job)
    BY <2>1, TypeParts
  <2>3. /\ View(m) \in Views(job) /\ View(m).round = round[m] /\ View(m).tree = tree[m]
        /\ View(n) \in Views(job) /\ View(n).round = round[n] /\ View(n).tree = tree[n]
    BY <2>1, ViewIs
  <2>4. CASE Reaches(job, View(m), View(n))
    BY <2>2, <2>3, <2>4, ReachedTree
  <2>5. CASE Reaches(job, View(n), View(m))
    BY <2>2, <2>3, <2>5, ReachedTree
  <2> QED BY <2>1, <2>4, <2>5 DEF RunInv
<1> QED BY <1>1, Inductive, PTL

-----------------------------------------------------------------------------
(* Who judges which features *)

\* Each of the features is at one place of the order.
LEMMA InOrderHasAll ==
  ASSUME NEW fs \in SUBSET Features
  PROVE  /\ \A i, j \in 1..Len(InOrder(fs)) : InOrder(fs)[i] = InOrder(fs)[j] => i = j
         /\ \A f \in fs : \E i \in 1..Len(InOrder(fs)) : InOrder(fs)[i] = f
<1> DEFINE R == {x \in fs \X fs : x[1] < x[2]}
           n == Cardinality(fs)
           s == InOrder(fs)
<1>1. IsFiniteSet(fs) /\ \A f \in fs : f \in Nat
  BY ParallelAssumption, FS_Subset
<1>2. \A f, g \in fs : <<f, g>> \in R <=> f < g
  OBVIOUS
<1> HIDE DEF R
<1>3. Orders(R, fs)
  BY <1>1, <1>2 DEF Orders
<1>4. PICK q : Lists(q, fs, R)
  BY <1>1, <1>3, HasList
<1>5. q \in [1..n -> fs] /\ \A i, j \in 1..n : i < j => q[i] < q[j]
  BY <1>2, <1>4 DEF Lists
<1>6. s \in [1..n -> fs] /\ \A i, j \in 1..n : i < j => s[i] < s[j]
  BY <1>5 DEF InOrder
<1>7. n \in Nat /\ Len(s) = n
  BY InOrderIs
<1> HIDE DEF n, s
<1>8. \A i, j \in 1..n : s[i] = s[j] => i = j
  <2> SUFFICES ASSUME NEW i \in 1..n, NEW j \in 1..n, s[i] = s[j], i # j PROVE FALSE
    OBVIOUS
  <2>1. s[i] \in Nat /\ s[j] \in Nat
    BY <1>1, <1>6
  <2>2. i < j \/ j < i
    BY <1>7
  <2> QED BY <1>6, <2>1, <2>2
<1>9. s \in Injection(1..n, fs)
  BY <1>6, <1>8 DEF Injection, IsInjective
<1>10. Cardinality(1..n) = n
  BY <1>7, FS_Interval
<1>11. s \in Surjection(1..n, fs)
  BY <1>1, <1>9, <1>10, FS_Injection DEF n
<1> QED BY <1>7, <1>8, <1>11 DEF Surjection, s

\* The machine with the fewest bins, of several the first one.
Least(bins) ==
  CHOOSE n \in Machines : \A k \in Machines : bins[n] < bins[k] \/ (bins[n] = bins[k] /\ n <= k)

\* The machine with the fewest bins is one of the machines.
LEMMA LeastIs ==
  ASSUME IsJob(job), NEW bins \in [Machines -> Nat]
  PROVE  Least(bins) \in Machines
<1> DEFINE R == {x \in Machines \X Machines : bins[x[1]] < bins[x[2]] \/ (bins[x[1]] = bins[x[2]] /\ x[1] < x[2])}
<1>1. IsFiniteSet(Machines) /\ Machines # {} /\ Machines \subseteq Nat
  BY MachinesAre
<1>2. \A n, k \in Machines : <<n, k>> \in R <=> (bins[n] < bins[k] \/ (bins[n] = bins[k] /\ n < k))
  OBVIOUS
<1> HIDE DEF R
<1>3. \A n \in Machines : bins[n] \in Nat /\ n \in Nat
  BY <1>1
<1>4. Orders(R, Machines)
  BY <1>2, <1>3 DEF Orders
<1>5. PICK n \in Machines : \A k \in Machines : n = k \/ <<n, k>> \in R
  BY <1>1, <1>4, HasFirst
<1>6. \A k \in Machines : bins[n] < bins[k] \/ (bins[n] = bins[k] /\ n <= k)
  <2> SUFFICES ASSUME NEW k \in Machines PROVE bins[n] < bins[k] \/ (bins[n] = bins[k] /\ n <= k)
    OBVIOUS
  <2>1. n \in Nat /\ k \in Nat
    BY <1>3
  <2>2. CASE n = k
    BY <2>1, <2>2
  <2>3. CASE n # k
    <3>1. bins[n] < bins[k] \/ (bins[n] = bins[k] /\ n < k)
      BY <1>2, <1>5, <2>3
    <3> QED BY <2>1, <3>1
  <2> QED BY <2>2, <2>3
<1> DEFINE P(x) == \A k \in Machines : bins[x] < bins[k] \/ (bins[x] = bins[k] /\ x <= k)
<1>7. \E x \in Machines : P(x)
  BY <1>6
<1>8. Least(bins) = CHOOSE x \in Machines : P(x)
  BY DEF Least
<1> HIDE DEF P
<1> QED BY <1>7, <1>8, Zenon

\* One feature more for one machine.
Weight(f) == IF job.mode = "feature" THEN NumBin[f] ELSE SizeOf(f)
Dealt(order, i, x) ==
  [bins |-> [x.bins EXCEPT ![Least(x.bins)] = @ + Weight(order[i])],
   of |-> [x.of EXCEPT ![Least(x.bins)] = Append(@, order[i])]]
Undealt == [bins |-> [n \in Machines |-> 0], of |-> [n \in Machines |-> <<>>]]
Hands(fs) == [bins : [Machines -> Nat], of : [Machines -> Seq(fs)]]

\* Dealing one more feature leaves every machine a sequence of features.
LEMMA DealtIs ==
  ASSUME IsJob(job), NEW fs \in SUBSET Features, NEW i \in 1..Len(InOrder(fs)), NEW x \in Hands(fs)
  PROVE  Dealt(InOrder(fs), i, x) \in Hands(fs)
<1> DEFINE f == InOrder(fs)[i]
           n == Least(x.bins)
<1>1. f \in fs /\ Weight(f) \in Nat
  <2>1. f \in fs
    BY InOrderIs
  <2>2. \A g \in Features : NumBin[g] \in Nat \ {0, 1}
    BY ParallelAssumption
  <2>3. \A g \in Features : Weight(g) \in Nat
    BY <2>2 DEF SizeOf, Weight
  <2> QED BY <2>1, <2>3
<1>2. x.bins \in [Machines -> Nat] /\ x.of \in [Machines -> Seq(fs)]
  BY DEF Hands
<1>3. n \in Machines
  BY <1>2, LeastIs
<1> HIDE DEF f, n
<1>4. [x.bins EXCEPT ![n] = @ + Weight(f)] \in [Machines -> Nat]
  BY <1>1, <1>2, <1>3
<1>5. [x.of EXCEPT ![n] = Append(@, f)] \in [Machines -> Seq(fs)]
  BY <1>1, <1>2, <1>3
<1> QED BY <1>4, <1>5 DEF Dealt, Hands, f, n

\* The distribution deals the features in their order.
IsDeal(g, fs) ==
  /\ g \in [0..Len(InOrder(fs)) -> Hands(fs)]
  /\ g[0] = Undealt
  /\ \A i \in 1..Len(InOrder(fs)) : g[i] = Dealt(InOrder(fs), i, g[i - 1])

\* The distribution is what dealing the features one by one, most bins first,
\* ends in.
LEMMA DistributionIsDealt ==
  ASSUME IsJob(job), NEW fs \in SUBSET Features
  PROVE  \E g : IsDeal(g, fs) /\ FeatureDistribution(fs) = g[Len(InOrder(fs))].of
<1> DEFINE order == InOrder(fs)
           N == Len(order)
           Gives(f) == f = [i \in 0..N |-> IF i = 0 THEN Undealt ELSE Dealt(order, i, f[i - 1])]
           X == Hands(fs)
           F == [p \in (1..N) \X X |-> Dealt(order, p[1], p[2])]
<1>1. N \in Nat
  BY InOrderIs
<1>2. \A i \in 1..N, x \in X : Dealt(order, i, x) \in X
  BY DealtIs
<1>3. Undealt \in X
  BY DEF Undealt, Hands
<1>4. FeatureDistribution(fs) = (CHOOSE f : Gives(f))[N].of
  BY Zenon DEF FeatureDistribution, Weight, Least, Undealt, Dealt
<1> HIDE DEF X, order
<1>5. F \in [(1..N) \X X -> X]
  BY <1>2
<1>6. ASSUME NEW i \in 1..N, NEW x \in X PROVE F[<<i, x>>] = Dealt(order, i, x)
  <2>1. <<i, x>> \in (1..N) \X X /\ <<i, x>>[1] = i /\ <<i, x>>[2] = x
    OBVIOUS
  <2> QED BY <2>1
<1> HIDE DEF F, N
<1>7. PICK g : IsRun(g, N, X, Undealt, F)
  BY <1>1, <1>3, <1>5, HasRun, Zenon
<1>8. \A i \in 0..N : i # 0 => i \in 1..N /\ i - 1 \in 0..N
  BY <1>1
<1>9. Gives(g)
  <2>1. \A i \in 0..N : g[i] = IF i = 0 THEN Undealt ELSE Dealt(order, i, g[i - 1])
    BY <1>6, <1>7, <1>8 DEF IsRun
  <2>2. g = [i \in 0..N |-> g[i]]
    BY <1>7 DEF IsRun
  <2> QED BY <2>1, <2>2
<1>10. Gives(CHOOSE f : Gives(f))
  BY <1>9, Zenon
<1> DEFINE h == CHOOSE f : Gives(f)
<1>11. h = [i \in 0..N |-> IF i = 0 THEN Undealt ELSE Dealt(order, i, h[i - 1])]
  BY <1>10
<1> HIDE DEF h, Gives
<1>12. h[0] = Undealt /\ \A i \in 1..N : h[i] = Dealt(order, i, h[i - 1])
  <2>1. 0 \in 0..N /\ \A i \in 1..N : i \in 0..N /\ i # 0
    BY <1>1
  <2> QED BY <1>11, <2>1
<1>13. \A i \in 0..N : h[i] \in X
  <2> DEFINE Typed == {i \in 0..N : h[i] \in X}
  <2>1. 0 \in Typed
    BY <1>1, <1>3, <1>12
  <2>2. ASSUME NEW k \in 0..N, k \in Typed, k < N PROVE k + 1 \in Typed
    <3>1. k + 1 \in 1..N /\ (k + 1) - 1 = k /\ k + 1 \in 0..N /\ h[k] \in X
      BY <1>1, <2>2
    <3> QED BY <1>2, <1>12, <3>1 DEF N
  <2> HIDE DEF Typed
  <2>3. \A k \in 0..N : k \in Typed
    BY <1>1, <2>1, <2>2, NatUpTo
  <2> QED BY <2>3 DEF Typed
<1>14. h \in [0..N -> X]
  BY <1>11, <1>13
<1>15. IsDeal(h, fs)
  BY <1>12, <1>14 DEF IsDeal, N, X, order
<1> QED BY <1>4, <1>15 DEF h, N, order
\* What the machines hold after i features: the first i, each of them once.
HandsOut(of, order, i) ==
  /\ \A n \in Machines : \A a \in DOMAIN of[n] : \E j \in 1..i : of[n][a] = order[j]
  /\ \A j \in 1..i : \E n \in Machines : \E a \in DOMAIN of[n] : of[n][a] = order[j]
  /\ \A n, k \in Machines : \A a \in DOMAIN of[n], b \in DOMAIN of[k] :
       of[n][a] = of[k][b] => n = k /\ a = b

\* Handing out the next feature hands out each of the features so far once.
LEMMA OneMoreOut ==
  ASSUME NEW X, NEW of \in [Machines -> Seq(X)], NEW order, NEW i \in Nat, order[i + 1] \in X,
         HandsOut(of, order, i), \A j, k \in 1..(i + 1) : order[j] = order[k] => j = k,
         NEW n \in Machines
  PROVE  HandsOut([of EXCEPT ![n] = Append(@, order[i + 1])], order, i + 1)
<1> DEFINE f == order[i + 1]
           new == [of EXCEPT ![n] = Append(@, f)]
           L == Len(of[n])
<1>1. /\ \A k \in Machines : of[k] \in Seq(X)
      /\ L \in Nat /\ DOMAIN of[n] = 1..L /\ f \in X
  OBVIOUS
<1>2. /\ DOMAIN new[n] = 1..(L + 1) /\ new[n][L + 1] = f
      /\ \A a \in 1..L : new[n][a] = of[n][a]
      /\ \A k \in Machines : k # n => new[k] = of[k]
  BY <1>1
<1>3. \A j \in 1..i : j \in 1..(i + 1) /\ order[j] # f
  <2>1. i + 1 \in 1..(i + 1) /\ \A j \in 1..i : j \in 1..(i + 1) /\ j # i + 1
    OBVIOUS
  <2> QED BY <2>1
<1>4. \A k \in Machines : \A a \in DOMAIN of[k] : of[k][a] # f
  <2> SUFFICES ASSUME NEW k \in Machines, NEW a \in DOMAIN of[k] PROVE of[k][a] # f
    OBVIOUS
  <2>1. PICK j \in 1..i : of[k][a] = order[j]
    BY DEF HandsOut
  <2> HIDE DEF f
  <2> QED BY <2>1, <1>3
<1> HIDE DEF f, new, L
<1>5. \A a \in DOMAIN new[n] : a = L + 1 \/ a \in DOMAIN of[n]
  BY <1>1, <1>2
<1>6. ASSUME NEW k \in Machines, NEW a \in DOMAIN new[k] PROVE \E j \in 1..(i + 1) : new[k][a] = order[j]
  <2>1. CASE k = n /\ a = L + 1
    BY <1>2, <2>1 DEF f
  <2>2. CASE ~(k = n /\ a = L + 1)
    <3>1. a \in DOMAIN of[k] /\ new[k][a] = of[k][a]
      BY <1>1, <1>2, <1>5, <2>2
    <3> QED BY <3>1, <1>3 DEF HandsOut
  <2> QED BY <2>1, <2>2
<1>7. ASSUME NEW j \in 1..(i + 1) PROVE \E k \in Machines : \E a \in DOMAIN new[k] : new[k][a] = order[j]
  <2>1. CASE j = i + 1
    <3>1. L + 1 \in DOMAIN new[n] /\ new[n][L + 1] = order[j]
      BY <1>1, <1>2, <2>1 DEF f
    <3> QED BY <3>1
  <2>2. CASE j # i + 1
    <3>1. j \in 1..i
      BY <2>2
    <3>4. PICK k \in Machines : \E a \in DOMAIN of[k] : of[k][a] = order[j]
      BY <3>1 DEF HandsOut
    <3>2. PICK a \in DOMAIN of[k] : of[k][a] = order[j]
      BY <3>4
    <3>3. a \in DOMAIN new[k] /\ new[k][a] = of[k][a]
      <4>1. CASE k = n
        <5>1. a \in 1..L /\ L \in Nat
          BY <1>1, <4>1
        <5>2. a \in 1..(L + 1)
          BY <5>1
        <5> QED BY <1>2, <4>1, <5>1, <5>2
      <4>2. CASE k # n
        BY <1>2, <4>2
      <4> QED BY <4>1, <4>2
    <3> QED BY <3>2, <3>3
  <2> QED BY <2>1, <2>2
<1>8. ASSUME NEW k \in Machines, NEW m \in Machines, NEW a \in DOMAIN new[k], NEW b \in DOMAIN new[m],
             new[k][a] = new[m][b]
      PROVE  k = m /\ a = b
  <2>1. \A l \in Machines : \A c \in DOMAIN new[l] :
          (l = n /\ c = L + 1 /\ new[l][c] = f) \/ (c \in DOMAIN of[l] /\ new[l][c] = of[l][c])
    BY <1>1, <1>2, <1>5
  <2>2. \/ k = n /\ a = L + 1 /\ new[k][a] = f
        \/ a \in DOMAIN of[k] /\ new[k][a] = of[k][a] /\ of[k][a] # f
    BY <2>1, <1>4
  <2>3. \/ m = n /\ b = L + 1 /\ new[m][b] = f
        \/ b \in DOMAIN of[m] /\ new[m][b] = of[m][b] /\ of[m][b] # f
    BY <2>1, <1>4
  <2> QED BY <2>2, <2>3, <1>8 DEF HandsOut
<1> QED BY <1>6, <1>7, <1>8 DEF HandsOut, new, f

\* Every sampled feature is judged by one machine.
LEMMA DistributionHasAll ==
  ASSUME IsJob(job), NEW fs \in SUBSET Features
  PROVE  /\ FeatureDistribution(fs) \in [Machines -> Seq(fs)]
         /\ \A f \in fs : \E n \in Machines : f \in Range(FeatureDistribution(fs)[n])
         /\ \A n, k \in Machines :
              \A a \in DOMAIN FeatureDistribution(fs)[n], b \in DOMAIN FeatureDistribution(fs)[k] :
                FeatureDistribution(fs)[n][a] = FeatureDistribution(fs)[k][b] => n = k /\ a = b
<1> DEFINE order == InOrder(fs)
           N == Len(order)
<1>1. N \in Nat /\ (\A i \in 1..N : order[i] \in fs) /\ (\A i, j \in 1..N : order[i] = order[j] => i = j)
      /\ \A f \in fs : \E i \in 1..N : order[i] = f
  BY InOrderIs, InOrderHasAll
<1>2. PICK g : IsDeal(g, fs) /\ FeatureDistribution(fs) = g[N].of
  BY DistributionIsDealt
<1>3. /\ g \in [0..N -> Hands(fs)] /\ g[0] = Undealt
      /\ \A i \in 1..N : g[i] = Dealt(order, i, g[i - 1])
  BY <1>2 DEF IsDeal
<1> HIDE DEF order, N
<1> DEFINE Good == {i \in 0..N : HandsOut(g[i].of, order, i)}
<1>4. 0 \in Good
  <2>1. \A n \in Machines : g[0].of[n] = <<>> /\ DOMAIN g[0].of[n] = {}
    BY <1>3 DEF Undealt
  <2>2. \A j : j \notin 1..0
    OBVIOUS
  <2> QED BY <1>1, <2>1, <2>2 DEF HandsOut
<1>5. ASSUME NEW i \in 0..N, i \in Good, i < N PROVE i + 1 \in Good
  <2>1. i \in Nat /\ i + 1 \in 1..N /\ (i + 1) - 1 = i /\ i + 1 \in 0..N /\ i \in 0..N
    BY <1>1, <1>5
  <2>2. \A j \in 1..(i + 1) : j \in 1..N
    BY <1>1, <2>1
  <2>3. g[i] \in Hands(fs) /\ g[i + 1] = Dealt(order, i + 1, g[i])
    BY <1>3, <2>1
  <2>4. g[i].of \in [Machines -> Seq(fs)] /\ g[i].bins \in [Machines -> Nat]
    BY <2>3 DEF Hands
  <2>5. Least(g[i].bins) \in Machines
    BY <2>4, LeastIs
  <2> DEFINE n == Least(g[i].bins)
             of == g[i].of
  <2>6. g[i + 1].of = [of EXCEPT ![n] = Append(@, order[i + 1])]
    BY <2>3 DEF Dealt
  <2>7. HandsOut(of, order, i) /\ order[i + 1] \in fs
    BY <1>1, <1>5, <2>1
  <2>8. \A j, k \in 1..(i + 1) : order[j] = order[k] => j = k
    BY <1>1, <2>2
  <2>9. n \in Machines /\ of \in [Machines -> Seq(fs)]
    BY <2>4, <2>5
  <2> HIDE DEF n, of
  <2>10. HandsOut([of EXCEPT ![n] = Append(@, order[i + 1])], order, i + 1)
    BY <2>1, <2>7, <2>8, <2>9, OneMoreOut
  <2> QED BY <2>1, <2>6, <2>10
<1>6. \A i \in 0..N : i \in Good
  <2> HIDE DEF Good
  <2> QED BY <1>1, <1>4, <1>5, NatUpTo
<1>7. HandsOut(FeatureDistribution(fs), order, N) /\ N \in 0..N
  BY <1>1, <1>2, <1>6
<1>8. FeatureDistribution(fs) \in [Machines -> Seq(fs)]
  BY <1>2, <1>3, <1>7 DEF Hands
<1> DEFINE of == FeatureDistribution(fs)
<1> HIDE DEF of
<1>9. ASSUME NEW f \in fs PROVE \E n \in Machines : f \in Range(of[n])
  <2>1. PICK i \in 1..N : order[i] = f
    BY <1>1
  <2>2. PICK n \in Machines : \E a \in DOMAIN of[n] : of[n][a] = f
    BY <1>7, <2>1 DEF HandsOut, of
  <2> QED BY <2>2 DEF Range
<1> QED BY <1>7, <1>8, <1>9 DEF HandsOut, of

\* Sequences of X are put one after the other.
LEMMA FlattenSteps ==
  ASSUME NEW X, NEW q \in Seq(Seq(X)), Len(q) # 0
  PROVE  \E h : /\ h \in [1..Len(q) -> Seq(X)] /\ h[1] = q[1]
                /\ \A i \in 1..Len(q) : i # 1 => h[i] = h[i - 1] \o q[i]
                /\ FlattenSeq(q) = h[Len(q)]
<1> DEFINE N == Len(q)
           M == N - 1
           F == [p \in (1..M) \X Seq(X) |-> p[2] \o q[p[1] + 1]]
           Flat(f) == f = [i \in 1..N |-> IF i = 1 THEN q[i] ELSE f[i - 1] \o q[i]]
<1>1. N \in Nat /\ N # 0 /\ (\A i \in 1..N : q[i] \in Seq(X)) /\ M \in Nat /\ 1 \in 1..N
  OBVIOUS
<1>2. \A i \in 1..M : i + 1 \in 1..N
  BY <1>1
<1>3. F \in [(1..M) \X Seq(X) -> Seq(X)]
  <2>1. ASSUME NEW i \in 1..M, NEW x \in Seq(X) PROVE x \o q[i + 1] \in Seq(X)
    <3>1. q[i + 1] \in Seq(X)
      BY <1>1, <1>2
    <3> QED BY <3>1
  <2> HIDE DEF M, N
  <2> QED BY <2>1
<1>4. ASSUME NEW i \in 1..M, NEW x \in Seq(X) PROVE F[<<i, x>>] = x \o q[i + 1]
  <2>1. <<i, x>> \in (1..M) \X Seq(X) /\ <<i, x>>[1] = i /\ <<i, x>>[2] = x
    OBVIOUS
  <2> HIDE DEF M
  <2> QED BY <2>1
<1>5. q[1] \in Seq(X)
  BY <1>1
<1> HIDE DEF F
<1>6. PICK g : IsRun(g, M, Seq(X), q[1], F)
  <2> HIDE DEF M
  <2> QED BY <1>1, <1>3, <1>5, HasRun, Zenon
<1>7. \A i \in 1..N : i # 1 => i - 1 \in 1..M /\ i - 1 \in 1..N /\ (i - 1) + 1 = i
  BY <1>1
<1> HIDE DEF M
<1> DEFINE h == [i \in 1..N |-> g[i - 1]]
<1>8. Flat(h)
  <2>1. ASSUME NEW i \in 1..N, i # 1 PROVE g[i - 1] = h[i - 1] \o q[i]
    <3>1. h[i - 1] = g[(i - 1) - 1]
      BY <1>7, <2>1
    <3>2. g[i - 1] = F[<<i - 1, g[(i - 1) - 1]>>]
      BY <1>7, <2>1, <1>6 DEF IsRun
    <3>3. g[(i - 1) - 1] \in Seq(X)
      <4>1. (i - 1) - 1 \in 0..M
        BY <1>7, <2>1, <1>1
      <4> QED BY <4>1, <1>6 DEF IsRun
    <3> QED BY <1>4, <1>7, <2>1, <3>1, <3>2, <3>3
  <2>2. g[1 - 1] = q[1]
    BY <1>6 DEF IsRun
  <2>3. \A i \in 1..N : g[i - 1] = IF i = 1 THEN q[i] ELSE h[i - 1] \o q[i]
    BY <2>1, <2>2
  <2> QED BY <2>3
<1>9. FlattenSeq(q) = (CHOOSE f : Flat(f))[N]
  <2>1. FlattenSeq(q) = IF N = 0 THEN q ELSE (CHOOSE f : Flat(f))[N]
    BY Zenon DEF FlattenSeq
  <2> QED BY <2>1, <1>1
<1>10. Flat(CHOOSE f : Flat(f))
  <2> HIDE DEF Flat
  <2> QED BY <1>8, Zenon
<1> HIDE DEF h
<1> DEFINE f == CHOOSE e : Flat(e)
<1>11. f = [i \in 1..N |-> IF i = 1 THEN q[i] ELSE f[i - 1] \o q[i]]
  BY <1>10
<1>12. FlattenSeq(q) = f[N]
  BY <1>9
<1> HIDE DEF f, Flat
<1>13. f[1] = q[1] /\ \A i \in 1..N : i # 1 => f[i] = f[i - 1] \o q[i]
  BY <1>1, <1>11
<1>14. \A i \in 1..N : f[i] \in Seq(X)
  <2> DEFINE Typed == {i \in 0..M : f[i + 1] \in Seq(X)}
  <2>1. 0 \in Typed
    BY <1>1, <1>5, <1>13 DEF M
  <2>2. ASSUME NEW k \in 0..M, k \in Typed, k < M PROVE k + 1 \in Typed
    <3>1. /\ k + 1 \in 0..M /\ (k + 1) + 1 \in 1..N /\ (k + 1) + 1 # 1
          /\ ((k + 1) + 1) - 1 = k + 1
      BY <1>1, <2>2 DEF M
    <3>2. f[(k + 1) + 1] = f[k + 1] \o q[(k + 1) + 1]
      BY <1>13, <3>1
    <3>3. q[(k + 1) + 1] \in Seq(X) /\ f[k + 1] \in Seq(X)
      BY <1>1, <3>1, <2>2
    <3>4. f[(k + 1) + 1] \in Seq(X)
      BY <3>2, <3>3
    <3> QED BY <3>1, <3>4
  <2> HIDE DEF Typed
  <2>3. \A k \in 0..M : k \in Typed
    BY <1>1, <2>1, <2>2, NatUpTo
  <2>4. \A i \in 1..N : i - 1 \in 0..M /\ (i - 1) + 1 = i
    BY <1>1 DEF M
  <2> QED BY <2>3, <2>4 DEF Typed
<1>15. f \in [1..N -> Seq(X)]
  BY <1>11, <1>14
<1> HIDE DEF N
<1> QED BY <1>12, <1>13, <1>15 DEF N

\* The items of machines 0 to n - 1: machine by machine, all features of each,
\* every feature once.
ItemsUpTo(x, of, n) ==
  /\ x \in Seq(Items)
  /\ \A k \in DOMAIN x : /\ x[k].side = "smaller" /\ x[k].to \in 0..(n - 1)
                         /\ \E a \in DOMAIN of[x[k].to] : x[k].feature = of[x[k].to][a]
  /\ \A j, k \in DOMAIN x : j < k => x[j].to <= x[k].to
  /\ \A j, k \in DOMAIN x : x[j].feature = x[k].feature => j = k
  /\ \A m \in 0..(n - 1) : \A a \in DOMAIN of[m] :
       \E k \in DOMAIN x : x[k].to = m /\ x[k].feature = of[m][a]
ItemsFor(of, n) == [i \in DOMAIN of[n] |-> Item(n, "smaller", of[n][i])]

\* The next machine's items follow those of the machines before it, none twice.
LEMMA OneMachineMore ==
  ASSUME NEW C \in Nat, NEW of \in [0..(C - 1) -> Seq(Features)],
         \A n, k \in 0..(C - 1) : \A a \in DOMAIN of[n], b \in DOMAIN of[k] :
           of[n][a] = of[k][b] => n = k /\ a = b,
         NEW n \in 0..(C - 1), NEW x, ItemsUpTo(x, of, n)
  PROVE  ItemsUpTo(x \o ItemsFor(of, n), of, n + 1)
<1> DEFINE y == ItemsFor(of, n)
           z == x \o y
           L == Len(x)
           N == Len(of[n])
<1>1. of[n] \in Seq(Features) /\ N \in Nat /\ DOMAIN of[n] = 1..N /\ n \in Nat /\ n \in Int
  OBVIOUS
<1>2. \A i \in 1..N : of[n][i] \in Features
  BY <1>1
<1>3. /\ DOMAIN y = 1..N
      /\ \A i \in 1..N : y[i].to = n /\ y[i].side = "smaller" /\ y[i].feature = of[n][i] /\ y[i] \in Items
  BY <1>1, <1>2 DEF ItemsFor, Item, Items, Sides
<1>4. y \in Seq(Items) /\ Len(y) = N
  <2>1. y \in [1..N -> Items]
    BY <1>3 DEF ItemsFor
  <2> HIDE DEF y, N
  <2> QED BY <1>1, <2>1
<1>5. x \in Seq(Items) /\ L \in Nat /\ DOMAIN x = 1..L
  BY DEF ItemsUpTo
<1> HIDE DEF y, N, L
<1>6. z \in Seq(Items) /\ DOMAIN z = 1..(L + N)
      /\ \A k \in 1..(L + N) : z[k] = IF k <= L THEN x[k] ELSE y[k - L]
  <2>1. ASSUME NEW a \in Seq(Items), NEW b \in Seq(Items)
        PROVE  /\ a \o b \in Seq(Items) /\ DOMAIN (a \o b) = 1..(Len(a) + Len(b))
               /\ \A k \in 1..(Len(a) + Len(b)) : (a \o b)[k] = IF k <= Len(a) THEN a[k] ELSE b[k - Len(a)]
    OBVIOUS
  <2> QED BY <1>4, <1>5, <2>1 DEF L
<1> HIDE DEF z
\* Where an item is from.
<1>7. ASSUME NEW k \in DOMAIN z
      PROVE  \/ k \in DOMAIN x /\ z[k] = x[k] /\ k <= L
             \/ /\ k > L /\ k - L \in 1..N /\ z[k] = y[k - L]
                /\ z[k].to = n /\ z[k].side = "smaller" /\ z[k].feature = of[n][k - L]
  <2>1. CASE k <= L
    BY <1>5, <1>6, <2>1
  <2>2. CASE k > L
    <3>1. k - L \in 1..N
      BY <1>1, <1>5, <1>6, <2>2
    <3> QED BY <1>3, <1>5, <1>6, <2>2, <3>1
  <2> QED BY <1>5, <1>6, <2>1, <2>2
<1>8. ASSUME NEW k \in DOMAIN z
      PROVE  /\ z[k].side = "smaller" /\ z[k].to \in 0..n
             /\ \E a \in DOMAIN of[z[k].to] : z[k].feature = of[z[k].to][a]
  <2>1. CASE k \in DOMAIN x /\ z[k] = x[k]
    BY <1>1, <2>1, SMTT(30) DEF ItemsUpTo
  <2>2. CASE k - L \in 1..N /\ z[k].to = n /\ z[k].side = "smaller" /\ z[k].feature = of[n][k - L]
    BY <1>1, <2>2
  <2> QED BY <1>7, <2>1, <2>2
<1>9. ASSUME NEW j \in DOMAIN z, NEW k \in DOMAIN z, j < k PROVE z[j].to <= z[k].to
  <2>1. CASE k <= L
    <3>1. j <= L
      BY <1>5, <1>6, <1>9, <2>1
    <3>2. j \in DOMAIN x /\ k \in DOMAIN x /\ z[j] = x[j] /\ z[k] = x[k]
      BY <1>5, <1>6, <1>7, <2>1, <3>1
    <3> QED BY <1>9, <3>2 DEF ItemsUpTo
  <2>2. CASE k > L
    <3>1. z[k].to = n /\ z[j].to \in 0..n
      BY <1>5, <1>6, <1>7, <1>8, <2>2
    <3> QED BY <1>1, <3>1
  <2> QED BY <1>5, <1>6, <2>1, <2>2
<1>10. ASSUME NEW j \in DOMAIN z, NEW k \in DOMAIN z, z[j].feature = z[k].feature PROVE j = k
  <2>1. ASSUME NEW i \in DOMAIN x, NEW a \in DOMAIN of[n] PROVE x[i].feature # of[n][a]
    <3>1. PICK b \in DOMAIN of[x[i].to] : x[i].feature = of[x[i].to][b]
      BY DEF ItemsUpTo
    <3>2. x[i].to \in 0..(n - 1)
      BY DEF ItemsUpTo
    <3>3. x[i].to \in 0..(C - 1) /\ x[i].to # n
      BY <3>2, <1>1
    <3>4. of[x[i].to][b] # of[n][a]
      BY <3>3
    <3> QED BY <3>1, <3>4
  <2>2. \/ j \in DOMAIN x /\ z[j].feature = x[j].feature
        \/ j - L \in DOMAIN of[n] /\ z[j].feature = of[n][j - L]
    BY <1>1, <1>7
  <2>3. \/ k \in DOMAIN x /\ z[k].feature = x[k].feature
        \/ k - L \in DOMAIN of[n] /\ z[k].feature = of[n][k - L]
    BY <1>1, <1>7
  <2>4. CASE j \in DOMAIN x /\ z[j].feature = x[j].feature
    <3>1. k \in DOMAIN x /\ z[k].feature = x[k].feature
      BY <2>1, <2>3, <2>4, <1>10
    <3> QED BY <1>10, <2>4, <3>1 DEF ItemsUpTo
  <2>5. CASE j - L \in DOMAIN of[n] /\ z[j].feature = of[n][j - L]
    <3>1. k - L \in DOMAIN of[n] /\ z[k].feature = of[n][k - L]
      BY <2>1, <2>3, <2>5, <1>10
    <3>4. of[n][j - L] = of[n][k - L] /\ j - L \in DOMAIN of[n] /\ k - L \in DOMAIN of[n]
      BY <1>10, <2>5, <3>1
    <3>2. j - L = k - L
      <4>1. \A a, b \in DOMAIN of[n] : of[n][a] = of[n][b] => a = b
        OBVIOUS
      <4> DEFINE a == j - L
                 b == k - L
      <4>2. of[n][a] = of[n][b] /\ a \in DOMAIN of[n] /\ b \in DOMAIN of[n]
        BY <3>4
      <4> HIDE DEF a, b
      <4>3. a = b
        BY <4>1, <4>2
      <4> QED BY <4>3 DEF a, b
    <3>3. j \in Int /\ k \in Int /\ L \in Int
      <4>1. \A e \in 1..(L + N) : e \in Int
        OBVIOUS
      <4> QED BY <4>1, <1>5, <1>6
    <3> QED BY <3>2, <3>3
  <2> QED BY <2>2, <2>4, <2>5
<1>11. ASSUME NEW m \in 0..n, NEW a \in DOMAIN of[m]
       PROVE  \E k \in DOMAIN z : z[k].to = m /\ z[k].feature = of[m][a]
  <2>1. CASE m = n
    <3>1. a \in 1..N /\ L + a \in DOMAIN z /\ ~(L + a <= L) /\ (L + a) - L = a
      BY <1>1, <1>5, <1>6, <2>1
    <3>2. z[L + a] = y[a]
      BY <1>6, <3>1
    <3> QED BY <1>3, <2>1, <3>1, <3>2
  <2>2. CASE m # n
    <3>1. m \in 0..(n - 1)
      BY <1>1, <2>2
    <3>2. PICK k \in DOMAIN x : x[k].to = m /\ x[k].feature = of[m][a]
      BY <3>1 DEF ItemsUpTo
    <3>3. k \in DOMAIN z /\ z[k] = x[k]
      BY <1>1, <1>5, <1>6
    <3> QED BY <3>2, <3>3
  <2> QED BY <2>1, <2>2
<1>12. (n + 1) - 1 = n
  BY <1>1
<1> QED BY <1>6, <1>8, <1>9, <1>10, <1>11, <1>12 DEF ItemsUpTo, z, y

\* Data parallel: the summed histograms go machine by machine.
LEMMA BufferHasAll ==
  ASSUME IsJob(job), NEW fs \in SUBSET Features
  PROVE  \E items : /\ ItemsUpTo(items, FeatureDistribution(fs), Cardinality(Machines))
                    /\ PrepareBufferPos(fs) = Placed(items)
<1> DEFINE of == FeatureDistribution(fs)
           C == Cardinality(Machines)
           q == [n \in 1..C |-> [i \in DOMAIN of[n - 1] |-> Item(n - 1, "smaller", of[n - 1][i])]]
<1>1. C \in Nat /\ C # 0 /\ Machines = 0..(C - 1)
  BY MachinesAre
<1>2. /\ of \in [Machines -> Seq(fs)]
      /\ \A n, k \in Machines : \A a \in DOMAIN of[n], b \in DOMAIN of[k] :
           of[n][a] = of[k][b] => n = k /\ a = b
  BY DistributionHasAll
<1>3. PrepareBufferPos(fs) = Placed(FlattenSeq(q))
  BY DEF PrepareBufferPos
<1> HIDE DEF of, C
<1>4. of \in [0..(C - 1) -> Seq(Features)]
  <2>1. \A n \in Machines : of[n] \in Seq(Features)
    BY <1>2
  <2> QED BY <1>1, <1>2, <2>1
<1>5. \A n, k \in 0..(C - 1) : \A a \in DOMAIN of[n], b \in DOMAIN of[k] :
        of[n][a] = of[k][b] => n = k /\ a = b
  BY <1>1, <1>2
<1>6. \A n \in 1..C : n - 1 \in 0..(C - 1) /\ n - 1 \in Int
  BY <1>1
<1>7. \A n \in 1..C : q[n] = ItemsFor(of, n - 1)
  BY DEF ItemsFor
<1>8. ASSUME NEW n \in 0..(C - 1) PROVE ItemsFor(of, n) \in Seq(Items)
  <2> DEFINE o == of[n]
  <2>1. o \in Seq(Features) /\ n \in Int
    BY <1>4, <1>1
  <2>2. ItemsFor(of, n) = [i \in DOMAIN o |-> Item(n, "smaller", o[i])]
    BY DEF ItemsFor
  <2> HIDE DEF o
  <2>3. \A i \in DOMAIN o : Item(n, "smaller", o[i]) \in Items
    BY <2>1 DEF Item, Items, Sides
  <2> HIDE DEF Items
  <2>4. [i \in DOMAIN o |-> Item(n, "smaller", o[i])] \in Seq(Items)
    BY <2>1, <2>3
  <2> QED BY <2>2, <2>4
<1>9. q \in Seq(Seq(Items)) /\ Len(q) = C
  <2>1. \A n \in 1..C : q[n] \in Seq(Items)
    BY <1>6, <1>7, <1>8
  <2>2. q \in [1..C -> Seq(Items)]
    BY <2>1
  <2> HIDE DEF q
  <2> QED BY <1>1, <2>2
<1> HIDE DEF q
<1>10. PICK h : /\ h \in [1..C -> Seq(Items)] /\ h[1] = q[1]
                /\ \A i \in 1..C : i # 1 => h[i] = h[i - 1] \o q[i]
                /\ FlattenSeq(q) = h[C]
  BY <1>1, <1>9, FlattenSteps
<1> DEFINE Good == {n \in 0..(C - 1) : ItemsUpTo(h[n + 1], of, n + 1)}
<1>11. 0 \in Good
  <2>1. ItemsUpTo(<<>>, of, 0)
    <3>1. \A m : m \notin 0..(0 - 1)
      OBVIOUS
    <3> QED BY <3>1 DEF ItemsUpTo
  <2>2. 0 \in 0..(C - 1) /\ 1 \in 1..C
    BY <1>1
  <2>3. ItemsUpTo(<<>> \o ItemsFor(of, 0), of, 0 + 1)
    BY <1>1, <1>4, <1>5, <2>1, <2>2, OneMachineMore
  <2>4. <<>> \o ItemsFor(of, 0) = h[0 + 1]
    <3>1. q[1] = ItemsFor(of, 0) /\ ItemsFor(of, 0) \in Seq(Items)
      BY <1>7, <1>8, <2>2
    <3>2. \A a \in Seq(Items) : <<>> \o a = a
      OBVIOUS
    <3> QED BY <3>1, <3>2, <1>10
  <2> QED BY <2>2, <2>3, <2>4
<1>12. ASSUME NEW n \in 0..(C - 1), n \in Good, n < C - 1 PROVE n + 1 \in Good
  <2>1. /\ n + 1 \in 0..(C - 1) /\ (n + 1) + 1 \in 1..C /\ (n + 1) + 1 # 1
        /\ ((n + 1) + 1) - 1 = n + 1
    BY <1>1, <1>12
  <2>2. ItemsUpTo(h[n + 1] \o ItemsFor(of, n + 1), of, (n + 1) + 1)
    BY <1>1, <1>4, <1>5, <1>12, <2>1, OneMachineMore
  <2>3. h[(n + 1) + 1] = h[n + 1] \o q[(n + 1) + 1] /\ q[(n + 1) + 1] = ItemsFor(of, n + 1)
    BY <1>7, <1>10, <2>1
  <2> QED BY <2>1, <2>2, <2>3
<1> HIDE DEF Good
<1>13. \A n \in 0..(C - 1) : n \in Good
  BY <1>1, <1>11, <1>12, NatUpTo
<1>14. C - 1 \in 0..(C - 1) /\ (C - 1) + 1 = C
  BY <1>1
<1>15. ItemsUpTo(h[C], of, C)
  BY <1>13, <1>14 DEF Good
<1> QED BY <1>3, <1>10, <1>15 DEF of, C

-----------------------------------------------------------------------------
(* Where histograms are in the buffer *)

\* A property of sets that the empty set has, and every set whose smaller
\* sets all have it, belongs to every finite set.
LEMMA SetsGrow ==
  ASSUME NEW S, IsFiniteSet(S), NEW Good, {} \in Good,
         \A T \in SUBSET S : T # {} /\ (\A x \in T : T \ {x} \in Good) => T \in Good
  PROVE  \A T \in SUBSET S : T \in Good
<1> SUFFICES ASSUME NEW U \in SUBSET S, U \notin Good PROVE FALSE
  OBVIOUS
<1> DEFINE Bad == {T \in SUBSET S : T \notin Good}
           Sizes == {Cardinality(T) : T \in Bad}
<1>1. \A T \in SUBSET S : IsFiniteSet(T) /\ Cardinality(T) \in Nat
  BY FS_Subset, FS_CardinalityType
<1>2. Sizes \subseteq Nat /\ Sizes # {}
  BY <1>1
<1>3. PICK m \in Sizes : \A n \in Sizes : m <= n
  BY <1>2, NatHasMin
<1>4. PICK T \in Bad : Cardinality(T) = m
  OBVIOUS
<1>5. ASSUME NEW x \in T PROVE T \ {x} \in Good
  <2>1. T \ {x} \in SUBSET S /\ Cardinality(T \ {x}) = Cardinality(T) - 1
    BY <1>1, FS_RemoveElement
  <2>2. Cardinality(T) \in Nat /\ ~(Cardinality(T) <= Cardinality(T) - 1)
    BY <1>1
  <2> QED BY <1>3, <1>4, <2>1, <2>2
<1> QED BY <1>5

\* The sizes of items, added up one by one.
AnyOf(s) == CHOOSE x \in s : TRUE
SizeAt(items, n) == SizeOf(items[n].feature)
Sized(items, S) == IsFiniteSet(S) /\ \A n \in S : SizeAt(items, n) \in Nat
IsSizes(g, items, S) ==
  /\ g \in [SUBSET S -> Nat]
  /\ \A T \in SUBSET S : g[T] = IF T = {} THEN 0 ELSE SizeAt(items, AnyOf(T)) + g[T \ {AnyOf(T)}]

\* The sizes of all subsets of the items are computed by a function of them.
LEMMA SizesExist ==
  ASSUME NEW items, NEW S, Sized(items, S)
  PROVE  \E g : IsSizes(g, items, S)
<1> DEFINE Peel(g, T) == IF T = {} THEN 0 ELSE SizeAt(items, AnyOf(T)) + g[T \ {AnyOf(T)}]
           Upto(g, n) == \A T \in SUBSET S : Cardinality(T) <= n => g[T] = Peel(g, T)
           N == Cardinality(S)
           Good == {n \in 0..N : \E g \in [SUBSET S -> Nat] : Upto(g, n)}
<1>0. IsFiniteSet(S) /\ \A n \in S : SizeAt(items, n) \in Nat
  BY DEF Sized
<1>1. \A T \in SUBSET S : IsFiniteSet(T) /\ Cardinality(T) \in Nat /\ Cardinality(T) <= N
  BY <1>0, FS_Subset, FS_CardinalityType
<1>2. N \in Nat
  BY <1>0, FS_CardinalityType
<1>3. \A T \in SUBSET S : T # {} => AnyOf(T) \in T
  BY DEF AnyOf
<1>4. ASSUME NEW T \in SUBSET S, T # {}
      PROVE  /\ AnyOf(T) \in S /\ T \ {AnyOf(T)} \in SUBSET S
             /\ Cardinality(T \ {AnyOf(T)}) = Cardinality(T) - 1
  BY <1>1, <1>3, <1>4, FS_RemoveElement
<1>5. 0 \in Good
  <2> DEFINE g == [T \in SUBSET S |-> 0]
  <2>1. ASSUME NEW T \in SUBSET S, Cardinality(T) <= 0 PROVE g[T] = Peel(g, T)
    <3>1. T = {}
      BY <1>1, <2>1, FS_EmptySet
    <3> QED BY <3>1
  <2>2. g \in [SUBSET S -> Nat]
    OBVIOUS
  <2> HIDE DEF g
  <2> QED BY <1>2, <2>1, <2>2
<1>6. ASSUME NEW n \in 0..N, n \in Good, n < N PROVE n + 1 \in Good
  <2>1. PICK g \in [SUBSET S -> Nat] : Upto(g, n)
    BY <1>6
  <2> DEFINE h == [T \in SUBSET S |-> IF Cardinality(T) <= n THEN g[T] ELSE Peel(g, T)]
  <2>2. h \in [SUBSET S -> Nat]
    <3>1. \A T \in SUBSET S : Peel(g, T) \in Nat
      BY <1>0, <1>4
    <3> HIDE DEF Peel
    <3> QED BY <3>1
  <2>3. ASSUME NEW T \in SUBSET S, Cardinality(T) <= n + 1 PROVE h[T] = Peel(h, T)
    <3>1. h[T] = Peel(g, T)
      BY <2>1
    <3>2. CASE T = {}
      BY <3>1, <3>2
    <3>3. CASE T # {}
      <4>1. /\ T \ {AnyOf(T)} \in SUBSET S /\ Cardinality(T \ {AnyOf(T)}) = Cardinality(T) - 1
            /\ Cardinality(T) \in Nat
        BY <1>1, <1>4, <3>3
      <4>2. Cardinality(T \ {AnyOf(T)}) <= n
        BY <1>2, <2>3, <4>1
      <4>3. h[T \ {AnyOf(T)}] = g[T \ {AnyOf(T)}]
        BY <4>1, <4>2
      <4> HIDE DEF h
      <4> QED BY <3>1, <3>3, <4>3
    <3> QED BY <3>2, <3>3
  <2> HIDE DEF h, Peel
  <2>4. n + 1 \in 0..N
    BY <1>2, <1>6
  <2> QED BY <2>2, <2>3, <2>4
<1> HIDE DEF Good
<1>7. \A n \in 0..N : n \in Good
  BY <1>2, <1>5, <1>6, NatUpTo
<1>8. PICK g \in [SUBSET S -> Nat] : Upto(g, N)
  <2>1. N \in 0..N
    BY <1>2
  <2> HIDE DEF Upto, N
  <2> QED BY <2>1, <1>7 DEF Good
<1> HIDE DEF N
<1>9. \A T \in SUBSET S : g[T] = Peel(g, T)
  BY <1>1, <1>8
<1>10. IsSizes(g, items, S)
  BY <1>9 DEF IsSizes
<1> QED BY <1>10

\* Whichever item is counted first, the sum is the same.
AddsUp(g, items, S) ==
  \A T \in SUBSET S : \A x \in T : g[T] = SizeAt(items, x) + g[T \ {x}]

\* They add up in whatever order the items are taken.
LEMMA SizesSplit ==
  ASSUME NEW items, NEW S, Sized(items, S),
         NEW g, IsSizes(g, items, S)
  PROVE  AddsUp(g, items, S)
<1> DEFINE Good == {T \in SUBSET S : \A x \in T : g[T] = SizeAt(items, x) + g[T \ {x}]}
<1>0. /\ g \in [SUBSET S -> Nat]
      /\ IsFiniteSet(S) /\ \A n \in S : SizeAt(items, n) \in Nat
  BY DEF IsSizes, Sized
<1>1. {} \in Good
  OBVIOUS
<1>2. ASSUME NEW T \in SUBSET S, T # {}, \A x \in T : T \ {x} \in Good PROVE T \in Good
  <2> SUFFICES ASSUME NEW x \in T PROVE g[T] = SizeAt(items, x) + g[T \ {x}]
    OBVIOUS
  <2> DEFINE y == AnyOf(T)
  <2>1. y \in T
    BY <1>2 DEF AnyOf
  <2>2. g[T] = SizeAt(items, y) + g[T \ {y}]
    BY <1>2 DEF IsSizes
  <2> HIDE DEF y
  <2>3. CASE x = y
    BY <2>2, <2>3
  <2>4. CASE x # y
    <3>1. x \in T \ {y} /\ y \in T \ {x}
      BY <2>1, <2>4
    <3>2. g[T \ {y}] = SizeAt(items, x) + g[(T \ {y}) \ {x}]
      BY <1>2, <2>1, <3>1
    <3>3. g[T \ {x}] = SizeAt(items, y) + g[(T \ {x}) \ {y}]
      BY <1>2, <3>1
    <3>4. (T \ {y}) \ {x} = (T \ {x}) \ {y}
      OBVIOUS
    <3>5. SizeAt(items, x) \in Nat /\ SizeAt(items, y) \in Nat /\ g[(T \ {x}) \ {y}] \in Nat
      BY <1>0, <2>1
    <3>6. \A a, b, w \in Nat : a + (b + w) = b + (a + w)
      OBVIOUS
    <3>7. g[T] = SizeAt(items, y) + (SizeAt(items, x) + g[(T \ {x}) \ {y}])
      BY <2>2, <3>2, <3>4, Zenon
    <3>8. g[T] = SizeAt(items, x) + (SizeAt(items, y) + g[(T \ {x}) \ {y}])
      BY <3>5, <3>6, <3>7, Zenon
    <3> QED BY <3>3, <3>8, Zenon
  <2> QED BY <2>3, <2>4
<1> HIDE DEF Good
<1>3. \A T \in SUBSET S : T \in Good
  BY <1>0, <1>1, <1>2, SetsGrow
<1> QED BY <1>3 DEF Good, AddsUp

\* A set of items takes up the sizes of its items.
LEMMA SizesAre ==
  ASSUME NEW items, NEW S, Sized(items, S)
  PROVE  /\ SizeOfItems(items, {}) = 0
         /\ \A T \in SUBSET S :
              /\ SizeOfItems(items, T) \in Nat
              /\ \A x \in T : SizeOfItems(items, T) = SizeAt(items, x) + SizeOfItems(items, T \ {x})
<1>1. PICK G : IsSizes(G, items, S)
  BY SizesExist
<1>2. ASSUME NEW T \in SUBSET S PROVE SizeOfItems(items, T) = G[T]
  <2> DEFINE Eq(g) == g = [s \in SUBSET T |-> IF s = {} THEN 0
                                              ELSE SizeAt(items, AnyOf(s)) + g[s \ {AnyOf(s)}]]
             f == CHOOSE g : Eq(g)
             r == [s \in SUBSET T |-> G[s]]
  <2>1. SizeOfItems(items, T) = f[T]
    BY Zenon DEF SizeOfItems, MapThenSumSet, MapThenFoldSet, AnyOf, SizeAt
  <2>2. \A s \in SUBSET T : s \in SUBSET S /\ s \ {AnyOf(s)} \in SUBSET T
    OBVIOUS
  <2>3. Eq(r)
    <3>1. \A s \in SUBSET T : G[s] = IF s = {} THEN 0 ELSE SizeAt(items, AnyOf(s)) + r[s \ {AnyOf(s)}]
      BY <1>1, <2>2 DEF IsSizes
    <3> QED BY <3>1
  <2> HIDE DEF r
  <2>4. Eq(f)
    <3> HIDE DEF Eq
    <3> QED BY <2>3, Zenon
  <2> HIDE DEF f
  <2>5. \A s \in SUBSET T : f[s] = IF s = {} THEN 0 ELSE SizeAt(items, AnyOf(s)) + f[s \ {AnyOf(s)}]
    BY <2>4
  <2> DEFINE Good == {s \in SUBSET T : f[s] = G[s]}
  <2>6. {} \in Good
    BY <1>1, <2>5 DEF IsSizes
  <2>7. ASSUME NEW U \in SUBSET T, U # {}, \A x \in U : U \ {x} \in Good PROVE U \in Good
    <3>1. AnyOf(U) \in U
      BY <2>7 DEF AnyOf
    <3>2. G[U] = SizeAt(items, AnyOf(U)) + G[U \ {AnyOf(U)}]
      BY <1>1, <2>2, <2>7 DEF IsSizes
    <3>3. f[U] = SizeAt(items, AnyOf(U)) + f[U \ {AnyOf(U)}]
      BY <2>5, <2>7
    <3>4. f[U \ {AnyOf(U)}] = G[U \ {AnyOf(U)}]
      BY <2>7, <3>1
    <3> QED BY <3>2, <3>3, <3>4
  <2> HIDE DEF Good
  <2>8. IsFiniteSet(T)
    BY FS_Subset DEF Sized
  <2>9. \A U \in SUBSET T : U \in Good
    BY <2>6, <2>7, <2>8, SetsGrow
  <2> QED BY <2>1, <2>9 DEF Good
<1>3. \A T \in SUBSET S : \A x \in T : G[T] = SizeAt(items, x) + G[T \ {x}]
  <2>1. AddsUp(G, items, S)
    BY <1>1, SizesSplit
  <2> QED BY <2>1 DEF AddsUp
<1>4. \A T \in SUBSET S : G[T] \in Nat
  BY <1>1 DEF IsSizes
<1>5. G[{}] = 0
  BY <1>1 DEF IsSizes
<1>6. SizeOfItems(items, {}) = 0
  BY <1>2, <1>5
<1>7. ASSUME NEW T \in SUBSET S, NEW x \in T
      PROVE  SizeOfItems(items, T) = SizeAt(items, x) + SizeOfItems(items, T \ {x})
  <2>1. T \ {x} \in SUBSET S
    OBVIOUS
  <2> QED BY <1>2, <1>3, <2>1
<1> QED BY <1>2, <1>4, <1>6, <1>7

\* The items of two sets without a common one.
LEMMA SizesAdd ==
  ASSUME NEW items, NEW S, Sized(items, S),
         NEW A \in SUBSET S, NEW B \in SUBSET S, A \cap B = {}
  PROVE  SizeOfItems(items, A \cup B) = SizeOfItems(items, A) + SizeOfItems(items, B)
<1> DEFINE W(T) == SizeOfItems(items, T)
           Good == {T \in SUBSET B : W(A \cup T) = W(A) + W(T)}
<1>1. /\ W({}) = 0
      /\ \A T \in SUBSET S : W(T) \in Nat /\ \A x \in T : W(T) = SizeAt(items, x) + W(T \ {x})
  BY SizesAre
<1> HIDE DEF W
<1>2. {} \in Good
  <2>1. A \cup {} = A /\ W(A) \in Nat
    BY <1>1
  <2> QED BY <1>1, <2>1
<1>3. ASSUME NEW T \in SUBSET B, T # {}, \A x \in T : T \ {x} \in Good PROVE T \in Good
  <2>1. PICK x \in T : TRUE
    BY <1>3
  <2>2. (A \cup T) \ {x} = A \cup (T \ {x}) /\ A \cup T \in SUBSET S /\ T \in SUBSET S
        /\ T \ {x} \in SUBSET S
    OBVIOUS
  <2>3. W(A \cup T) = SizeAt(items, x) + W(A \cup (T \ {x})) /\ W(T) = SizeAt(items, x) + W(T \ {x})
    BY <1>1, <2>2
  <2>4. W(A \cup (T \ {x})) = W(A) + W(T \ {x})
    BY <1>3
  <2>5. W(A) \in Nat /\ W(T \ {x}) \in Nat /\ SizeAt(items, x) \in Nat
    BY <1>1, <2>2 DEF Sized
  <2> QED BY <2>3, <2>4, <2>5
<1> HIDE DEF Good
<1>4. IsFiniteSet(B)
  BY FS_Subset DEF Sized
<1>5. \A T \in SUBSET B : T \in Good
  BY <1>2, <1>3, <1>4, SetsGrow
<1>6. B \in Good
  BY <1>5
<1> QED BY <1>6 DEF Good, W

\* Lists of items of the same features have the same sizes.
LEMMA SizesSame ==
  ASSUME NEW items, NEW lay, NEW S, Sized(items, S),
         \A n \in S : lay[n].feature = items[n].feature
  PROVE  SizeOfItems(lay, S) = SizeOfItems(items, S)
<1> DEFINE W(T) == SizeOfItems(items, T)
           V(T) == SizeOfItems(lay, T)
           Good == {T \in SUBSET S : V(T) = W(T)}
<1>0. \A n \in S : SizeAt(lay, n) = SizeAt(items, n)
  BY DEF SizeAt
<1>1. /\ W({}) = 0
      /\ \A T \in SUBSET S : \A x \in T : W(T) = SizeAt(items, x) + W(T \ {x})
  BY SizesAre
<1>2. /\ V({}) = 0
      /\ \A T \in SUBSET S : \A x \in T : V(T) = SizeAt(lay, x) + V(T \ {x})
  <2>1. Sized(lay, S)
    BY <1>0 DEF Sized
  <2> QED BY <2>1, SizesAre
<1> HIDE DEF W, V
<1>3. {} \in Good
  BY <1>1, <1>2
<1>4. ASSUME NEW T \in SUBSET S, T # {}, \A x \in T : T \ {x} \in Good PROVE T \in Good
  <2>1. PICK x \in T : TRUE
    BY <1>4
  <2>2. V(T) = SizeAt(lay, x) + V(T \ {x}) /\ W(T) = SizeAt(items, x) + W(T \ {x})
    BY <1>1, <1>2
  <2>3. V(T \ {x}) = W(T \ {x}) /\ SizeAt(lay, x) = SizeAt(items, x)
    BY <1>0, <1>4
  <2> QED BY <2>2, <2>3
<1> HIDE DEF Good
<1>5. S \in Good
  BY <1>3, <1>4, SetsGrow DEF Sized
<1> QED BY <1>5 DEF Good, V, W

\* In a list machine by machine no two histograms start at one place, and where
\* one is in the block of its machine, behind the blocks of the machines before,
\* is where it was written.
LEMMA PlacedWell ==
  ASSUME NEW of, NEW C, NEW items, ItemsUpTo(items, of, C)
  PROVE  /\ DOMAIN Placed(items) = DOMAIN items
         /\ \A n \in DOMAIN items :
              /\ Placed(items)[n].to = items[n].to /\ Placed(items)[n].side = items[n].side
              /\ Placed(items)[n].feature = items[n].feature
         /\ \A n, k \in DOMAIN items : Placed(items)[n].write = Placed(items)[k].write => n = k
         /\ \A n \in DOMAIN items :
              SizeOfItems(Placed(items), {k \in DOMAIN items : Placed(items)[k].to < items[n].to})
              + Placed(items)[n].read = Placed(items)[n].write
<1> DEFINE D == DOMAIN items
           lay == Placed(items)
           W(T) == SizeOfItems(items, T)
<1>1. items \in Seq(Items) /\ D = 1..Len(items) /\ Len(items) \in Nat
  BY DEF ItemsUpTo
<1>2. IsFiniteSet(D)
  BY <1>1, FS_Interval
<1>3. \A n \in D : items[n].feature \in Features /\ items[n].to \in Int
  <2>1. \A n \in D : items[n] \in Items
    BY <1>1
  <2> QED BY <2>1 DEF Items
<1>4. \A n \in D : SizeAt(items, n) \in Nat /\ SizeAt(items, n) >= 1
  <2>1. \A f \in Features : NumBin[f] \in Nat \ {0, 1}
    BY ParallelAssumption
  <2>2. \A f \in Features : SizeOf(f) \in Nat /\ SizeOf(f) >= 1
    BY <2>1 DEF SizeOf
  <2> QED BY <1>3, <2>2 DEF SizeAt
<1>5. /\ DOMAIN lay = D
      /\ \A n \in D : /\ lay[n].to = items[n].to /\ lay[n].side = items[n].side
                      /\ lay[n].feature = items[n].feature
                      /\ lay[n].write = W(1..(n - 1))
                      /\ lay[n].read = W({k \in 1..(n - 1) : items[k].to = items[n].to})
  BY DEF Placed, ReadStart
<1> HIDE DEF lay
<1>11. Sized(items, D)
  BY <1>2, <1>4 DEF Sized
<1>6. \A A, B \in SUBSET D : A \cap B = {} => W(A \cup B) = W(A) + W(B)
  BY <1>11, SizesAdd
<1>7. \A A \in SUBSET D : W(A) \in Nat /\ \A n \in A : W(A) = SizeAt(items, n) + W(A \ {n})
  BY <1>11, SizesAre
<1> HIDE DEF W
<1>8. ASSUME NEW n \in D, NEW k \in D, n < k PROVE lay[n].write < lay[k].write
  <2> DEFINE A == 1..(n - 1)
             B == n..(k - 1)
  <2>1. A \in SUBSET D /\ B \in SUBSET D /\ A \cap B = {} /\ A \cup B = 1..(k - 1) /\ n \in B
        /\ B \ {n} \in SUBSET D
    BY <1>1, <1>8
  <2> HIDE DEF A, B
  <2>2. W(1..(k - 1)) = W(A) + W(B) /\ W(A) \in Nat /\ W(B) \in Nat
    BY <1>6, <1>7, <2>1
  <2>3. W(B) = SizeAt(items, n) + W(B \ {n}) /\ W(B \ {n}) \in Nat
    BY <1>7, <2>1
  <2>4. W(B) >= 1
    BY <1>4, <2>2, <2>3
  <2>5. lay[n].write = W(A) /\ lay[k].write = W(1..(k - 1))
    BY <1>5 DEF A
  <2> QED BY <2>2, <2>4, <2>5
<1>9. ASSUME NEW n \in D, NEW k \in D, lay[n].write = lay[k].write PROVE n = k
  <2>1. lay[n].write \in Nat /\ lay[k].write \in Nat
    <3>1. 1..(n - 1) \in SUBSET D /\ 1..(k - 1) \in SUBSET D
      BY <1>1
    <3> QED BY <1>5, <1>7, <3>1
  <2>2. ~(n < k) /\ ~(k < n)
    BY <1>8, <1>9, <2>1
  <2> QED BY <1>1, <2>2
<1>10. ASSUME NEW n \in D
       PROVE  SizeOfItems(lay, {k \in D : lay[k].to < items[n].to}) + lay[n].read = lay[n].write
  <2> DEFINE A == {k \in D : lay[k].to < items[n].to}
             B == {k \in 1..(n - 1) : items[k].to = items[n].to}
  <2>1. \A j, k \in D : j < k => items[j].to <= items[k].to
    BY DEF ItemsUpTo
  <2>2. 1..(n - 1) \in SUBSET D
    BY <1>1
  <2>3. ASSUME NEW k \in A PROVE k \in 1..(n - 1)
    <3>1. k \in D /\ items[k].to < items[n].to
      BY <1>5
    <3>2. ~(n < k) /\ n # k
      BY <1>3, <2>1, <3>1
    <3> QED BY <1>1, <3>1, <3>2
  <2>4. ASSUME NEW k \in 1..(n - 1), k \notin B PROVE k \in A
    <3>1. k \in D /\ k < n
      BY <1>1, <2>2
    <3>2. items[k].to <= items[n].to
      BY <2>1, <3>1
    <3>3. items[k].to # items[n].to
      BY <2>4
    <3>4. items[k].to < items[n].to
      BY <1>3, <3>1, <3>2, <3>3
    <3>5. k \in D /\ lay[k].to < items[n].to
      BY <1>5, <3>1, <3>4
    <3> QED BY <3>5
  <2>5. A \cap B = {}
    <3> SUFFICES ASSUME NEW k \in A, k \in B PROVE FALSE
      OBVIOUS
    <3>1. k \in D /\ items[k].to < items[n].to /\ items[k].to = items[n].to
      BY <1>5
    <3> QED BY <1>3, <3>1
  <2>6. A \in SUBSET D /\ B \in SUBSET D
    BY <2>2
  <2>7. A \cup B = 1..(n - 1)
    BY <2>3, <2>4
  <2>8. SizeOfItems(lay, A) = W(A)
    <3>1. IsFiniteSet(A)
      BY <1>2, <2>6, FS_Subset
    <3> HIDE DEF A
    <3>2. Sized(items, A) /\ (\A k \in A : lay[k].feature = items[k].feature)
      BY <1>4, <1>5, <2>6, <3>1 DEF Sized
    <3> QED BY <3>2, SizesSame DEF W
  <2>9. lay[n].read = W(B) /\ lay[n].write = W(1..(n - 1))
    BY <1>5
  <2> HIDE DEF A, B
  <2>10. W(A \cup B) = W(A) + W(B)
    BY <1>6, <2>5, <2>6
  <2> QED BY <2>7, <2>8, <2>9, <2>10 DEF A
<1> QED BY <1>5, <1>9, <1>10 DEF lay

-----------------------------------------------------------------------------
(* The rows of a leaf *)

\* The leaves row r is in, from the root on, while the splits of t are made.
IsPath(t, r, p) ==
  /\ p[0] = 0
  /\ \A i \in 1..Len(t) :
       p[i] = IF p[i - 1] = t[i].leaf /\ r \notin job.goLeft[t[i].feature] THEN i ELSE p[i - 1]
Paths(t) == [0..Len(t) -> 0..Len(t)]
RowsOf(t, l) == {r \in Rows : \E p \in Paths(t) : IsPath(t, r, p) /\ p[Len(t)] = l}

\* After i splits a row is in one of the leaves made by then.
LEMMA PathsGrow ==
  ASSUME NEW t \in Seq(Made), NEW r, NEW p \in Paths(t), IsPath(t, r, p)
  PROVE  \A i \in 0..Len(t) : p[i] \in 0..i
<1> DEFINE N == Len(t)
           Good == {i \in 0..N : p[i] \in 0..i}
<1>1. N \in Nat
  OBVIOUS
<1> HIDE DEF N
<1>2. 0 \in Good
  BY <1>1 DEF IsPath
<1>3. ASSUME NEW i \in 0..N, i \in Good, i < N PROVE i + 1 \in Good
  <2>1. i + 1 \in 1..N /\ i + 1 \in 0..N /\ (i + 1) - 1 = i /\ p[i] \in 0..i
    BY <1>1, <1>3
  <2>2. p[i + 1] = i + 1 \/ p[i + 1] = p[i]
    BY <2>1 DEF IsPath, N
  <2> QED BY <2>1, <2>2
<1> HIDE DEF Good
<1>4. \A i \in 0..N : i \in Good
  BY <1>1, <1>2, <1>3, NatUpTo
<1> QED BY <1>4 DEF Good, N

\* A row is in one leaf only.
LEMMA PathsMeet ==
  ASSUME NEW t \in Seq(Made), NEW r, NEW p \in Paths(t), IsPath(t, r, p),
         NEW q \in Paths(t), IsPath(t, r, q)
  PROVE  p[Len(t)] = q[Len(t)]
<1> DEFINE N == Len(t)
           Good == {i \in 0..N : p[i] = q[i]}
<1>1. N \in Nat
  OBVIOUS
<1> HIDE DEF N
<1>2. 0 \in Good
  BY <1>1 DEF IsPath
<1>3. ASSUME NEW i \in 0..N, i \in Good, i < N PROVE i + 1 \in Good
  <2>1. i + 1 \in 1..N /\ i + 1 \in 0..N /\ (i + 1) - 1 = i /\ p[i] = q[i]
    BY <1>1, <1>3
  <2>2. p[i + 1] = q[i + 1]
    BY <2>1 DEF IsPath, N
  <2> QED BY <2>1, <2>2
<1> HIDE DEF Good
<1>4. \A i \in 0..N : i \in Good
  BY <1>1, <1>2, <1>3, NatUpTo
<1>5. N \in 0..N
  BY <1>1
<1> QED BY <1>4, <1>5 DEF Good, N

\* No row is in two leaves.
LEMMA LeavesApart ==
  ASSUME NEW t \in Seq(Made), NEW l, NEW k, l # k
  PROVE  RowsOf(t, l) \cap RowsOf(t, k) = {}
BY PathsMeet DEF RowsOf

\* All rows are at the root of a tree without a split.
LEMMA RootRows ==
  /\ RowsOf(<<>>, 0) = Rows
  /\ \A l : l # 0 => RowsOf(<<>>, l) = {}
<1> DEFINE p0 == [i \in 0..0 |-> 0]
<1>1. Len(<<>>) = 0 /\ 1..0 = {} /\ p0 \in [0..0 -> 0..0] /\ p0[0] = 0
  OBVIOUS
<1> HIDE DEF p0
<1>2. \A r : IsPath(<<>>, r, p0)
  BY <1>1 DEF IsPath
<1>3. \A p \in Paths(<<>>) : p[0] = 0
  BY <1>1 DEF Paths
<1> QED BY <1>1, <1>2, <1>3 DEF RowsOf, Paths

\* A split divides one leaf and leaves the others alone.
LEMMA SplitDivides ==
  ASSUME NEW t \in Seq(Made), NEW s \in Made, s.leaf <= Len(t)
  PROVE  LET w == Append(t, s)
             new == Len(t) + 1
         IN  /\ RowsOf(w, s.leaf) = RowsOf(t, s.leaf) \cap job.goLeft[s.feature]
             /\ RowsOf(w, new) = RowsOf(t, s.leaf) \ job.goLeft[s.feature]
             /\ \A l : l # s.leaf /\ l # new => RowsOf(w, l) = RowsOf(t, l)
<1> DEFINE w == Append(t, s)
           N == Len(t)
           Next1(r, l) == IF l = s.leaf /\ r \notin job.goLeft[s.feature] THEN N + 1 ELSE l
<1>1. /\ N \in Nat /\ w \in Seq(Made) /\ Len(w) = N + 1 /\ w[N + 1] = s
      /\ \A i \in 1..N : w[i] = t[i]
  OBVIOUS
<1>2. s.leaf \in 0..N
  BY ParallelAssumption DEF Made, Leaves
<1> HIDE DEF w
<1>3. ASSUME NEW r, NEW p \in Paths(w), IsPath(w, r, p)
      PROVE  \E q \in Paths(t) : IsPath(t, r, q) /\ p[N + 1] = Next1(r, q[N])
  <2> DEFINE q == [i \in 0..N |-> p[i]]
  <2>1. \A i \in 0..(N + 1) : p[i] \in 0..i
    BY <1>1, <1>3, PathsGrow
  <2>2. q \in [0..N -> 0..N]
    BY <1>1, <2>1
  <2>3. \A i \in 0..N : q[i] = p[i]
    OBVIOUS
  <2> HIDE DEF q
  <2>4. ASSUME NEW i \in 1..N
        PROVE  q[i] = IF q[i - 1] = t[i].leaf /\ r \notin job.goLeft[t[i].feature] THEN i ELSE q[i - 1]
    <3>1. i \in 1..(N + 1) /\ i \in 0..N /\ i - 1 \in 0..N
      BY <1>1
    <3> QED BY <1>1, <1>3, <2>3, <3>1 DEF IsPath
  <2>5. q[0] = 0
    BY <1>1, <1>3, <2>3 DEF IsPath
  <2>6. p[N + 1] = Next1(r, q[N])
    <3>1. N + 1 \in 1..(N + 1) /\ N \in 0..N /\ (N + 1) - 1 = N
      BY <1>1
    <3> QED BY <1>1, <1>3, <2>3, <3>1 DEF IsPath
  <2>7. IsPath(t, r, q)
    BY <2>4, <2>5 DEF IsPath
  <2> QED BY <2>2, <2>6, <2>7 DEF Paths
<1>4. ASSUME NEW r, NEW q \in Paths(t), IsPath(t, r, q)
      PROVE  \E p \in Paths(w) : IsPath(w, r, p) /\ p[N + 1] = Next1(r, q[N])
  <2> DEFINE p == [i \in 0..(N + 1) |-> IF i = N + 1 THEN Next1(r, q[N]) ELSE q[i]]
  <2>1. \A i \in 0..N : q[i] \in 0..N
    BY DEF Paths
  <2>2. Next1(r, q[N]) \in 0..(N + 1)
    BY <1>1, <2>1
  <2> HIDE DEF Next1
  <2>3. p \in [0..(N + 1) -> 0..(N + 1)]
    BY <1>1, <2>1, <2>2
  <2>4. /\ \A i \in 0..N : p[i] = q[i]
        /\ p[N + 1] = Next1(r, q[N])
    BY <1>1
  <2> HIDE DEF p
  <2>5. ASSUME NEW i \in 1..(N + 1)
        PROVE  p[i] = IF p[i - 1] = w[i].leaf /\ r \notin job.goLeft[w[i].feature] THEN i ELSE p[i - 1]
    <3>1. CASE i = N + 1
      <4>1. i - 1 = N /\ N \in 0..N
        BY <1>1, <3>1
      <4> QED BY <1>1, <2>4, <3>1, <4>1 DEF Next1
    <3>2. CASE i # N + 1
      <4>1. i \in 1..N /\ i \in 0..N /\ i - 1 \in 0..N
        BY <1>1, <3>2
      <4> QED BY <1>1, <1>4, <2>4, <4>1 DEF IsPath
    <3> QED BY <3>1, <3>2
  <2>6. p[0] = 0
    BY <1>1, <1>4, <2>4 DEF IsPath
  <2>7. IsPath(w, r, p)
    BY <1>1, <2>5, <2>6 DEF IsPath
  <2> QED BY <1>1, <2>3, <2>4, <2>7 DEF Paths
<1>5. \A q \in Paths(t) : q[N] \in 0..N
  BY <1>1 DEF Paths
<1> DEFINE Ends(r, l) == \E q \in Paths(t) : IsPath(t, r, q) /\ q[N] = l
<1>6. ASSUME NEW k
      PROVE  RowsOf(w, k) = {r \in Rows : \E l \in 0..N : Ends(r, l) /\ Next1(r, l) = k}
  <2>1. RowsOf(w, k) = {r \in Rows : \E p \in Paths(w) : IsPath(w, r, p) /\ p[N + 1] = k}
    BY <1>1 DEF RowsOf
  <2> HIDE DEF Next1, N
  <2>2. ASSUME NEW r
        PROVE (\E p \in Paths(w) : IsPath(w, r, p) /\ p[N + 1] = k)
              <=> \E l \in 0..N : Ends(r, l) /\ Next1(r, l) = k
    BY <1>3, <1>4, <1>5
  <2> HIDE DEF Ends
  <2> QED BY <2>1, <2>2
<1>7. \A k : RowsOf(t, k) = {r \in Rows : Ends(r, k)}
  BY DEF RowsOf
<1>8. \A r, k : Ends(r, k) => k \in 0..N
  BY <1>5
<1> HIDE DEF Ends
<1>9. RowsOf(w, s.leaf) = RowsOf(t, s.leaf) \cap job.goLeft[s.feature]
  <2>1. \A r, l : l \in 0..N => (Next1(r, l) = s.leaf <=> l = s.leaf /\ r \in job.goLeft[s.feature])
    BY <1>1, <1>2
  <2> HIDE DEF Next1, N
  <2> QED BY <1>2, <1>6, <1>7, <1>8, <2>1
<1>10. RowsOf(w, N + 1) = RowsOf(t, s.leaf) \ job.goLeft[s.feature]
  <2>1. \A r, l : l \in 0..N => (Next1(r, l) = N + 1 <=> l = s.leaf /\ r \notin job.goLeft[s.feature])
    BY <1>1, <1>2
  <2> HIDE DEF Next1, N
  <2> QED BY <1>2, <1>6, <1>7, <1>8, <2>1
<1>11. ASSUME NEW k, k # s.leaf, k # N + 1
       PROVE  RowsOf(w, k) = RowsOf(t, k)
  <2>1. \A r, l : l \in 0..N => (Next1(r, l) = k <=> l = k)
    BY <1>1, <1>2, <1>11
  <2> HIDE DEF Next1, N
  <2>2. RowsOf(w, k) = {r \in Rows : \E l \in 0..N : Ends(r, l) /\ Next1(r, l) = k}
    BY <1>6
  <2>3. \A r : (\E l \in 0..N : Ends(r, l) /\ Next1(r, l) = k) <=> Ends(r, k)
    BY <1>8, <2>1
  <2> QED BY <1>7, <2>2, <2>3
<1> QED BY <1>9, <1>10, <1>11 DEF w

-----------------------------------------------------------------------------
(* What is received *)

\* Machine m receives the sums of the histograms it has to judge, and no others.
LEMMA ReceivedSums ==
  ASSUME IsJob(job), NEW fs \in SUBSET Features,
         \A k \in Machines : layout[k] = PrepareBufferPos(fs), NEW m \in Machines
  PROVE  /\ DOMAIN Received(m) = {<<"smaller", f>> : f \in Range(FeatureDistribution(fs)[m])}
         /\ \A f \in Range(FeatureDistribution(fs)[m]) :
              Received(m)[<<"smaller", f>>] = Sum([k \in Machines |-> hist[k][SmallerLeaf(k)][f]])
<1> DEFINE of == FeatureDistribution(fs)
           C == Cardinality(Machines)
           lay == layout[m]
<1>1. Machines = 0..(C - 1)
  BY MachinesAre
<1>2. PICK items : ItemsUpTo(items, of, C) /\ lay = Placed(items)
  BY BufferHasAll
<1>3. of \in [Machines -> Seq(fs)]
  BY DistributionHasAll
<1> HIDE DEF of, C
<1>4. /\ DOMAIN lay = DOMAIN items
      /\ \A n \in DOMAIN items :
           lay[n].to = items[n].to /\ lay[n].side = items[n].side /\ lay[n].feature = items[n].feature
      /\ \A n, k \in DOMAIN items : lay[n].write = lay[k].write => n = k
      /\ \A n \in DOMAIN items :
           SizeOfItems(lay, {k \in DOMAIN items : lay[k].to < items[n].to}) + lay[n].read = lay[n].write
  BY <1>2, PlacedWell
<1> DEFINE mine == {n \in DOMAIN lay : lay[n].to = m}
           start == SizeOfItems(lay, {n \in DOMAIN lay : lay[n].to < m})
           total(n) == IF \A k \in Machines : At(k, start + lay[n].read)[1] = lay[n].feature
                         THEN Sum([k \in Machines |-> At(k, start + lay[n].read)[2]]) ELSE {Junk}
           keys == {<<lay[n].side, lay[n].feature>> : n \in mine}
           the(x) == CHOOSE n \in mine : x = <<lay[n].side, lay[n].feature>>
<1>5. Received(m) = [x \in keys |-> total(the(x))]
  BY DEF Received, lay
<1> HIDE DEF lay
<1>6. ASSUME NEW n \in mine
      PROVE  total(n) = Sum([k \in Machines |-> hist[k][SmallerLeaf(k)][lay[n].feature]])
  <2>1. n \in DOMAIN items /\ lay[n].to = m /\ items[n].to = m /\ start + lay[n].read = lay[n].write
    BY <1>4
  <2>2. lay[n].side = "smaller"
    BY <1>2, <1>4, <2>1 DEF ItemsUpTo
  <2>3. ASSUME NEW k \in Machines
        PROVE  At(k, start + lay[n].read) = <<lay[n].feature, hist[k][SmallerLeaf(k)][lay[n].feature]>>
    <3> DEFINE ns == {j \in DOMAIN layout[k] : layout[k][j].write = lay[n].write}
    <3>1. layout[k] = lay
      BY DEF lay
    <3>2. ns = {n}
      BY <1>4, <2>1, <3>1
    <3>3. (CHOOSE j \in ns : TRUE) = n
      BY <3>2
    <3>4. LeafOf(k, lay[n].side) = SmallerLeaf(k)
      BY <2>2 DEF LeafOf, SmallerLeaf
    <3> QED BY <2>1, <3>1, <3>2, <3>3, <3>4 DEF At
  <2>4. \A k \in Machines : At(k, start + lay[n].read)[1] = lay[n].feature
    BY <2>3
  <2>5. [k \in Machines |-> At(k, start + lay[n].read)[2]]
        = [k \in Machines |-> hist[k][SmallerLeaf(k)][lay[n].feature]]
    BY <2>3
  <2> HIDE DEF start
  <2> QED BY <2>4, <2>5
<1> HIDE DEF total
<1>7. ASSUME NEW n \in mine PROVE lay[n].side = "smaller" /\ lay[n].feature \in Range(of[m])
  <2>1. n \in DOMAIN items /\ items[n].to = m
    BY <1>4
  <2>2. items[n].side = "smaller" /\ \E a \in DOMAIN of[m] : items[n].feature = of[m][a]
    BY <1>2, <2>1 DEF ItemsUpTo
  <2> QED BY <1>4, <2>1, <2>2 DEF Range
<1>8. ASSUME NEW f \in Range(of[m]) PROVE \E n \in mine : lay[n].side = "smaller" /\ lay[n].feature = f
  <2>1. PICK a \in DOMAIN of[m] : of[m][a] = f
    BY DEF Range
  <2>2. PICK n \in DOMAIN items : items[n].to = m /\ items[n].feature = f
    BY <1>1, <1>2, <2>1 DEF ItemsUpTo
  <2> QED BY <1>4, <1>7, <2>2
<1>9. keys = {<<"smaller", f>> : f \in Range(of[m])}
  <2>1. \A n \in mine : <<lay[n].side, lay[n].feature>> \in {<<"smaller", f>> : f \in Range(of[m])}
    BY <1>7
  <2>2. \A f \in Range(of[m]) : <<"smaller", f>> \in keys
    BY <1>8
  <2> QED BY <2>1, <2>2
<1>10. ASSUME NEW f \in Range(of[m])
       PROVE  Received(m)[<<"smaller", f>>] = Sum([k \in Machines |-> hist[k][SmallerLeaf(k)][f]])
  <2>1. <<"smaller", f>> \in keys
    BY <1>9
  <2> DEFINE n == the(<<"smaller", f>>)
  <2>2. n \in mine /\ <<"smaller", f>> = <<lay[n].side, lay[n].feature>>
    BY <1>8
  <2>3. lay[n].feature = f
    BY <2>2
  <2>4. Received(m)[<<"smaller", f>>] = total(n)
    <3> HIDE DEF the, keys
    <3> QED BY <1>5, <2>1
  <2> HIDE DEF n
  <2> QED BY <1>6, <2>2, <2>3, <2>4
<1>11. DOMAIN Received(m) = keys
  BY <1>5
<1> QED BY <1>9, <1>10, <1>11 DEF of

-----------------------------------------------------------------------------
(* What feature and data parallel know between two steps *)

\* The trainings compared with one machine: feature parallel estimates with
\* exact counts, but what it gives up below a leaf is given up by an estimate.
Comparable == job.mode = "data" \/ (job.mode = "feature" /\ ConstantHessian)

\* The rows of all machines, those one has, and of these the bagged ones of the
\* tree being grown, all and by leaf.
Everywhere   == IF job.mode = "feature" THEN Rows ELSE UNION {job.own[m] : m \in Machines}
Own(m)       == IF job.mode = "feature" THEN Rows ELSE job.own[m]
Bag(m)       == job.plan[round[m]].bag \cap Everywhere
InLeaf(m, l) == RowsOf(tree[m], l) \cap Bag(m)

\* The sampled features, and those machine m has to judge.
InUse(m)  == job.plan[round[m]].used
Charge(m) == Range(FeatureDistribution(InUse(m))[m])

\* A leaf has the rows the splits send there.
PartInv(m) ==
  /\ pc[m] # "idle" => round[m] > 0
  /\ round[m] > 0 => \A l \in Leaves : part[m][l] = InLeaf(m, l) \cap Own(m)

\* The smaller and the larger leaf, and the sums over all their rows.
PairInv(m) ==
  pc[m] # "idle" =>
  LET small == Right(m) = None \/ CountIn(m, Left(m)) < CountIn(m, Right(m))
  IN  /\ SmallerLeaf(m) = IF small THEN Left(m) ELSE Right(m)
      /\ LargerLeaf(m) = IF small THEN Right(m) ELSE Left(m)
      /\ pc[m] # "sum" => \A s \in TheSides(m) : pair[m][s].sum = InLeaf(m, LeafOf(m, s))
      /\ pc[m] = "sum" => tree[m] = <<>> /\ pair[m]["smaller"].sum = part[m][0]

\* With constant hessians a leaf's count is that of its rows on all machines.
CountInv(m) ==
  ConstantHessian /\ pc[m] \notin {"idle", "sum"} =>
    \A l \in LeavesOf(m) : CountIn(m, l) = Cardinality(InLeaf(m, l))

\* What was set up for the tree.
PlanInv(m) ==
  pc[m] # "idle" =>
  /\ used[m] = IF job.mode = "feature" THEN Charge(m) ELSE InUse(m)
  /\ job.mode = "data" => layout[m] = PrepareBufferPos(InUse(m))
  /\ job.mode = "feature" => pc[m] \in {"search", "best", "split"}
  /\ pc[m] \in {"sum", "search", "scatter", "judge", "best", "split"}

\* The split of rows S by feature f, S being taken for n rows or for what it is.
ByCount(f, S, n) == SplitOf(f, S, S, n, MinData)
ByRows(f, S)     == ByCount(f, S, Cardinality(S))

\* The histograms at leaf l are those of rows S, but for features that cannot
\* split S.
Holds(m, l, S) ==
  \A f \in Charge(m) :
    IF job.mode = "data" \/ splittable[m][l][f] THEN hist[m][l][f] = S ELSE ByRows(f, S).gain <= 0
InPair(m, l) == l = Left(m) \/ l = Right(m)
Parent(m)    == InLeaf(m, Left(m)) \cup InLeaf(m, Right(m))

\* Leaves that may be split have their histograms; while the two new leaves are
\* searched their parent's is where the larger leaf expects it.
HistInv(m) ==
  /\ pc[m] \notin {"idle", "sum"} =>
       \A l \in LeavesOf(m) : ~InPair(m, l) /\ best[m][l].gain > 0 => Holds(m, l, InLeaf(m, l))
  /\ pc[m] = "search" => (Right(m) # None => Holds(m, Left(m), Parent(m)))
  /\ pc[m] \in {"scatter", "judge"} =>
       /\ \A f \in InUse(m) : hist[m][SmallerLeaf(m)][f] = part[m][SmallerLeaf(m)]
       /\ Right(m) # None => Holds(m, LargerLeaf(m), Parent(m))
  /\ pc[m] \in {"best", "split"} =>
       \A l \in LeavesOf(m) : InPair(m, l) /\ (pc[m] = "best" \/ best[m][l].gain > 0)
                                => Holds(m, l, InLeaf(m, l))

\* The split kept for leaf l is one of the leaf, and no split of it by a
\* feature of fs is better.
Offers(m, l, fs) ==
  LET b == best[m][l]
      found(f) == ByCount(f, InLeaf(m, l), CountIn(m, l))
  IN  /\ b.gain > 0 => \E f \in InUse(m) : b = found(f)
      /\ \A f \in fs : found(f).gain > 0 => ~Better(found(f), b)

\* A search leaves the best split of the features in charge, the exchange that
\* of all features.
BestInv(m) ==
  /\ pc[m] \notin {"idle", "sum"} => \A l \in LeavesOf(m) : ~InPair(m, l) => Offers(m, l, InUse(m))
  /\ pc[m] = "best" => \A l \in LeavesOf(m) : InPair(m, l) => Offers(m, l, Charge(m))
  /\ pc[m] = "split" => \A l \in LeavesOf(m) : InPair(m, l) => Offers(m, l, InUse(m))

\* What is received are the histograms over all machines.
GotInv(m) ==
  pc[m] = "judge" =>
    /\ DOMAIN got[m] = {<<"smaller", f>> : f \in Charge(m)}
    /\ \A f \in Charge(m) : got[m][<<"smaller", f>>] = InLeaf(m, SmallerLeaf(m))

MachineInv(m) ==
  PartInv(m) /\ PairInv(m) /\ CountInv(m) /\ PlanInv(m) /\ HistInv(m) /\ BestInv(m) /\ GotInv(m)
SearchInv == Comparable => \A m \in Machines : MachineInv(m)

-----------------------------------------------------------------------------
(* Splits by the rows of a leaf *)

\* Rows can be counted.
LEMMA RowsAreFinite ==
  ASSUME NEW S \in SUBSET Rows
  PROVE  IsFiniteSet(S) /\ Cardinality(S) \in Nat /\ S \in Heaps
BY ParallelAssumption, FS_Subset, FS_CardinalityType DEF Heaps

\* How many rows of a leaf with n rows S are taken to go right.
RightCount(f, S, n) == EstimatedCount(S \ job.goLeft[f], S, n)

\* Both sides have rows, and are taken to have enough; and the split that has
\* these sides and counts.
Fits(f, S, n) ==
  /\ n - RightCount(f, S, n) >= MinData /\ RightCount(f, S, n) >= MinData
  /\ S \cap job.goLeft[f] # {} /\ S \ job.goLeft[f] # {}
Divides(t, f, S) == t.left = S \cap job.goLeft[f] /\ t.right = S \ job.goLeft[f]
Counted(t, f, S, n) ==
  t.left_count = n - RightCount(f, S, n) /\ t.right_count = RightCount(f, S, n)

\* A split of the rows of a leaf has both of its sides from these rows, and the
\* leaf's count is divided between them.
LEMMA ByCountIs ==
  ASSUME IsJob(job), NEW f \in Features, NEW S \in SUBSET Rows, NEW n \in Nat
  PROVE  /\ ByCount(f, S, n) \in Found /\ ByCount(f, S, n).feature = f
         /\ RightCount(f, S, n) \in Nat
         /\ ByCount(f, S, n).gain > 0 <=> Fits(f, S, n)
         /\ ByCount(f, S, n).gain > 0 => /\ Divides(ByCount(f, S, n), f, S)
                                         /\ Counted(ByCount(f, S, n), f, S, n)
<1> DEFINE left == S \cap job.goLeft[f]
           right == S \ job.goLeft[f]
           gain == Cardinality(left) * Cardinality(right)
           rc == RightCount(f, S, n)
<1>1. /\ S \in Heaps /\ Cardinality(left) \in Nat /\ Cardinality(right) \in Nat
      /\ left = {} <=> Cardinality(left) = 0
      /\ right = {} <=> Cardinality(right) = 0
  BY RowsAreFinite, FS_EmptySet
<1>2. ByCount(f, S, n) \in Found /\ ByCount(f, S, n).feature = f
  BY <1>1, SplitOfIs, ParallelAssumption DEF ByCount
<1>3. Minus(S, right) = left
  BY DEF Minus
<1>4. rc \in Nat
  BY EstimateIs DEF RightCount
<1> HIDE DEF left, right, rc
<1>5. ByCount(f, S, n) =
        IF n - rc >= MinData /\ rc >= MinData /\ gain > 0
          THEN [feature |-> f, gain |-> gain, left |-> left, right |-> right,
                left_count |-> n - rc, right_count |-> rc]
          ELSE [NoSplit EXCEPT !.feature = f]
  BY <1>3 DEF ByCount, SplitOf, right, rc, RightCount
<1>6. \A a, b \in Nat : a # 0 /\ b # 0 <=> a * b > 0
  OBVIOUS
<1>7. gain > 0 <=> left # {} /\ right # {}
  BY <1>1, <1>6
<1> HIDE DEF gain
<1>8. ~([NoSplit EXCEPT !.feature = f].gain > 0)
  BY DEF NoSplit, MinScore
<1>9. /\ ByCount(f, S, n).gain > 0 <=> n - rc >= MinData /\ rc >= MinData /\ left # {} /\ right # {}
      /\ ByCount(f, S, n).gain > 0 => /\ ByCount(f, S, n).left = left
                                      /\ ByCount(f, S, n).right = right
                                      /\ ByCount(f, S, n).left_count = n - rc
                                      /\ ByCount(f, S, n).right_count = rc
  <2>1. CASE n - rc >= MinData /\ rc >= MinData /\ gain > 0
    BY <1>5, <1>7, <2>1
  <2>2. CASE ~(n - rc >= MinData /\ rc >= MinData /\ gain > 0)
    BY <1>5, <1>7, <1>8, <2>2
  <2> QED BY <2>1, <2>2
<1> QED BY <1>2, <1>4, <1>9, Zenon DEF left, right, rc, Fits, Divides, Counted

\* The estimate of a part of d, in parts of 1 / (2 d), is rounded to the part.
LEMMA Rounding ==
  ASSUME NEW c \in Nat, NEW d \in Nat, d # 0
  PROVE  (2 * (c * d) + d) \div (2 * d) = c
<1> DEFINE a == 2 * (c * d) + d
           q == a \div (2 * d)
<1>1. c * d \in Nat /\ a \in Nat /\ 2 * d \in Nat /\ 2 * d # 0
  OBVIOUS
<1>2. q \in Nat /\ (2 * d) * q <= a /\ a < (2 * d) * q + 2 * d
  BY <1>1, Division
<1> HIDE DEF q
<1>3. (2 * d) * q = 2 * (d * q) /\ d * q \in Nat
  BY <1>2
<1>4. \A x, y \in Nat : x < y => d * x + d <= d * y
  OBVIOUS
<1>5. c * d = d * c
  OBVIOUS
<1>6. ~(q > c)
  BY <1>2, <1>3, <1>4, <1>5
<1>7. ~(q < c)
  BY <1>2, <1>3, <1>4, <1>5
<1> QED BY <1>2, <1>6, <1>7 DEF q

\* With constant hessians, estimates from an exact count are exact.
LEMMA EstimatesExact ==
  ASSUME IsJob(job), ConstantHessian, NEW S \in SUBSET Rows, NEW R \in SUBSET S, S # {}
  PROVE  EstimatedCount(R, S, Cardinality(S)) = Cardinality(R)
<1>1. PICK r \in S : TRUE
  OBVIOUS
<1>2. PICK n, c, w : n = Cardinality(S) /\ c = Cardinality(R) /\ w = job.hess[{r}]
  OBVIOUS
<1>3. R \cap Rows = R /\ S \cap Rows = S /\ R \in SUBSET Rows /\ r \in Rows
  BY <1>1
<1>4. job.hess[S] = n * w /\ job.hess[R] = c * w /\ w > 0 /\ w \in Nat
  <2>1. job.hess \in [SUBSET Rows -> Nat]
    BY DEF IsJob
  <2> QED BY <1>2, <1>3, <2>1 DEF ConstantHessian
<1>5. n \in Nat /\ c \in Nat /\ n # 0
  BY <1>2, <1>3, RowsAreFinite, FS_EmptySet
<1>6. n * w \in Nat /\ n * w # 0
  BY <1>4, <1>5
<1>7. 2 * n * (c * w) = 2 * (c * (n * w))
  BY <1>4, <1>5
<1>8. EstimatedCount(R, S, n) = (2 * n * (c * w) + n * w) \div (2 * (n * w))
  BY <1>3, <1>4, <1>6 DEF EstimatedCount
<1>9. (2 * (c * (n * w)) + n * w) \div (2 * (n * w)) = c
  BY <1>5, <1>6, Rounding
<1> QED BY <1>2, <1>7, <1>8, <1>9

\* The two sides of a threshold are all rows.
LEMMA SidesAdd ==
  ASSUME NEW S \in SUBSET Rows, NEW G
  PROVE  /\ Cardinality(S \cap G) \in Nat /\ Cardinality(S \ G) \in Nat
         /\ Cardinality(S) = Cardinality(S \cap G) + Cardinality(S \ G)
<1> DEFINE left == S \cap G
           right == S \ G
<1>1. S = left \cup right /\ left \cap right = {} /\ left \in SUBSET Rows /\ right \in SUBSET Rows
  OBVIOUS
<1> HIDE DEF left, right
<1>2. Cardinality(left \cap right) = 0
  BY <1>1, FS_EmptySet
<1>3. Cardinality(left \cup right) = Cardinality(left) + Cardinality(right) - Cardinality(left \cap right)
  BY <1>1, RowsAreFinite, FS_Union
<1>4. Cardinality(left) \in Nat /\ Cardinality(right) \in Nat
  BY <1>1, RowsAreFinite
<1>5. Cardinality(left) \in Nat /\ Cardinality(right) \in Nat
      /\ Cardinality(S) = Cardinality(left) + Cardinality(right)
  BY <1>1, <1>2, <1>3, <1>4
<1> QED BY <1>5, Zenon DEF left, right

\* A split counted exactly leaves both sides as many rows as it must.
LEMMA ByRowsIs ==
  ASSUME IsJob(job), ConstantHessian, NEW f \in Features, NEW S \in SUBSET Rows
  PROVE  /\ ByRows(f, S).gain > 0 <=> /\ Cardinality(S \cap job.goLeft[f]) >= MinData
                                      /\ Cardinality(S \ job.goLeft[f]) >= MinData
         /\ ByRows(f, S).gain > 0 => /\ ByRows(f, S).left_count = Cardinality(S \cap job.goLeft[f])
                                     /\ ByRows(f, S).right_count = Cardinality(S \ job.goLeft[f])
<1> DEFINE left == S \cap job.goLeft[f]
           right == S \ job.goLeft[f]
           rc == RightCount(f, S, Cardinality(S))
<1>1. /\ Cardinality(left) \in Nat /\ Cardinality(right) \in Nat
      /\ Cardinality(S) = Cardinality(left) + Cardinality(right)
      /\ MinData \in Nat /\ MinData # 0
  BY SidesAdd, ParallelAssumption
<1>2. /\ ByRows(f, S).gain > 0 <=> /\ Cardinality(S) - rc >= MinData /\ rc >= MinData
                                   /\ left # {} /\ right # {}
      /\ ByRows(f, S).gain > 0 => /\ ByRows(f, S).left_count = Cardinality(S) - rc
                                  /\ ByRows(f, S).right_count = rc
  <2>1. PICK n \in Nat : n = Cardinality(S)
    BY RowsAreFinite
  <2> DEFINE t == ByCount(f, S, n)
  <2>2. /\ t.gain > 0 <=> n - rc >= MinData /\ rc >= MinData /\ left # {} /\ right # {}
        /\ t.gain > 0 => t.left_count = n - rc /\ t.right_count = rc
    <3>1. rc = RightCount(f, S, n)
      BY <2>1
    <3> HIDE DEF rc
    <3>2. t.gain > 0 <=> /\ n - RightCount(f, S, n) >= MinData /\ RightCount(f, S, n) >= MinData
                         /\ left # {} /\ right # {}
      <4>1. t.gain > 0 <=> Fits(f, S, n)
        BY ByCountIs
      <4> HIDE DEF t
      <4> QED BY <4>1, Zenon DEF Fits
    <3>3. t.gain > 0 => t.left_count = n - RightCount(f, S, n) /\ t.right_count = RightCount(f, S, n)
      <4>1. t.gain > 0 => Counted(t, f, S, n)
        BY ByCountIs
      <4> HIDE DEF t
      <4> QED BY <4>1, Zenon DEF Counted
    <3> QED BY <3>1, <3>2, <3>3, Zenon
  <2> QED BY <2>1, <2>2 DEF ByRows
<1>3. S # {} => rc = Cardinality(right)
  BY EstimatesExact DEF RightCount
<1>4. Cardinality(left) >= MinData /\ Cardinality(right) >= MinData => left # {} /\ right # {}
  BY <1>1, FS_EmptySet
<1>5. left # {} => S # {}
  OBVIOUS
<1> HIDE DEF left, right, rc
<1> QED BY <1>1, <1>2, <1>3, <1>4, <1>5 DEF left, right

\* What cannot split a set of rows cannot split a part of it.
LEMMA PartsSplitLess ==
  ASSUME IsJob(job), ConstantHessian,
         NEW f \in Features, NEW S \in SUBSET Rows, NEW T \in SUBSET S, ByRows(f, T).gain > 0
  PROVE  ByRows(f, S).gain > 0
<1> DEFINE G == job.goLeft[f]
<1>1. T \in SUBSET Rows /\ T \cap G \subseteq S \cap G /\ T \ G \subseteq S \ G
  OBVIOUS
<1>2. Cardinality(T \cap G) >= MinData /\ Cardinality(T \ G) >= MinData
  BY <1>1, ByRowsIs
<1>3. Cardinality(T \cap G) <= Cardinality(S \cap G) /\ Cardinality(T \ G) <= Cardinality(S \ G)
  BY <1>1, RowsAreFinite, FS_Subset
<1>4. /\ Cardinality(T \cap G) \in Nat /\ Cardinality(T \ G) \in Nat /\ MinData \in Nat
      /\ Cardinality(S \cap G) \in Nat /\ Cardinality(S \ G) \in Nat
  BY <1>1, RowsAreFinite, ParallelAssumption
<1>5. Cardinality(S \cap G) >= MinData /\ Cardinality(S \ G) >= MinData
  BY <1>2, <1>3, <1>4
<1> QED BY <1>5, ByRowsIs

\* A leaf whose count is too small cannot be split.
LEMMA SmallSplitsNot ==
  ASSUME IsJob(job), NEW f \in Features, NEW S \in SUBSET Rows, NEW n \in Nat, n < 2 * MinData
  PROVE  ~(ByCount(f, S, n).gain > 0)
<1> DEFINE rc == RightCount(f, S, n)
<1>1. rc \in Nat /\ (ByCount(f, S, n).gain > 0 => n - rc >= MinData /\ rc >= MinData)
  <2>1. rc \in Nat /\ (ByCount(f, S, n).gain > 0 => Fits(f, S, n))
    BY ByCountIs
  <2> QED BY <2>1 DEF Fits
<1>2. MinData \in Nat
  BY ParallelAssumption
<1> HIDE DEF rc
<1> QED BY <1>1, <1>2

-----------------------------------------------------------------------------
(* What a step leaves alone *)

\* What the setup alone decides stays while the job does.
LEMMA SameJob ==
  ASSUME job' = job
  PROVE  /\ Machines' = Machines /\ Everywhere' = Everywhere
         /\ \A m : Own(m)' = Own(m)
         /\ \A t, l : RowsOf(t, l)' = RowsOf(t, l)
         /\ (Comparable' <=> Comparable) /\ (ConstantHessian' <=> ConstantHessian)
         /\ \A f, S, n : ByCount(f, S, n)' = ByCount(f, S, n)
         /\ \A f, S : ByRows(f, S)' = ByRows(f, S)
         /\ \A fs : FeatureDistribution(fs)' = FeatureDistribution(fs)
         /\ \A fs : PrepareBufferPos(fs)' = PrepareBufferPos(fs)
<1>0. (ConstantHessian' <=> ConstantHessian) /\ (Comparable' <=> Comparable)
  BY DEF ConstantHessian, Comparable
<1>1. Machines' = Machines /\ Everywhere' = Everywhere /\ \A m : Own(m)' = Own(m)
  BY DEF Machines, Everywhere, Own
<1>2. \A t, l : RowsOf(t, l)' = RowsOf(t, l)
  BY DEF RowsOf, IsPath
<1>3. /\ \A f, S, n : ByCount(f, S, n)' = ByCount(f, S, n)
      /\ \A f, S : ByRows(f, S)' = ByRows(f, S)
  BY DEF ByRows, ByCount, SplitOf, EstimatedCount
<1>4. \A fs : FeatureDistribution(fs)' = FeatureDistribution(fs)
  BY SMT DEF FeatureDistribution, InOrder, Machines, SizeOf
<1>5. \A fs : PrepareBufferPos(fs)' = PrepareBufferPos(fs)
  <2> SUFFICES ASSUME NEW fs PROVE PrepareBufferPos(fs)' = PrepareBufferPos(fs)
    OBVIOUS
  <2>1. FeatureDistribution(fs)' = FeatureDistribution(fs)
    BY <1>4
  <2> QED BY <2>1, Zenon DEF PrepareBufferPos, Machines
<1> QED BY <1>0, <1>1, <1>2, <1>3, <1>4, <1>5

\* The tree that machine m grows, with its rows and features, stays the same.
SameTree(m) == job' = job /\ round'[m] = round[m] /\ tree'[m] = tree[m]

\* So does what the tree decides while it stays the same.
LEMMA SameTreeIs ==
  ASSUME NEW m, SameTree(m)
  PROVE  /\ Left(m)' = Left(m) /\ Right(m)' = Right(m) /\ LeavesOf(m)' = LeavesOf(m)
         /\ \A l : InPair(m, l)' <=> InPair(m, l)
         /\ \A l : InLeaf(m, l)' = InLeaf(m, l)
         /\ Own(m)' = Own(m) /\ Parent(m)' = Parent(m)
         /\ InUse(m)' = InUse(m) /\ Charge(m)' = Charge(m)
         /\ PrepareBufferPos(InUse(m))' = PrepareBufferPos(InUse(m))
<1>1. job' = job /\ round'[m] = round[m] /\ tree'[m] = tree[m]
  BY DEF SameTree
<1>2. Left(m)' = Left(m) /\ Right(m)' = Right(m) /\ LeavesOf(m)' = LeavesOf(m)
  BY <1>1 DEF Left, Right, LeavesOf
<1>3. \A l : InPair(m, l)' <=> InPair(m, l)
  BY <1>2 DEF InPair
<1>4. Bag(m)' = Bag(m) /\ InUse(m)' = InUse(m) /\ Own(m)' = Own(m)
  BY <1>1, SameJob DEF Bag, InUse
<1>5. \A l : InLeaf(m, l)' = InLeaf(m, l)
  BY <1>1, <1>4, SameJob DEF InLeaf
<1>6. Parent(m)' = Parent(m)
  BY <1>2, <1>5 DEF Parent
<1>7. Charge(m)' = Charge(m)
  BY <1>1, <1>4, SameJob DEF Charge
<1>8. PrepareBufferPos(InUse(m))' = PrepareBufferPos(InUse(m))
  BY <1>1, <1>4, SameJob
<1> QED BY <1>2, <1>3, <1>4, <1>5, <1>6, <1>7, <1>8

\* Of a machine on which a step has no effect all stays true.
Untouched(m) ==
  /\ SameTree(m) /\ pc'[m] = pc[m]
  /\ part'[m] = part[m] /\ counts'[m] = counts[m] /\ pair'[m] = pair[m]
  /\ hist'[m] = hist[m] /\ splittable'[m] = splittable[m] /\ used'[m] = used[m]
  /\ layout'[m] = layout[m] /\ got'[m] = got[m] /\ best'[m] = best[m]

\* The parts of the invariant, each with the state it is about.
LEMMA PartStays ==
  ASSUME NEW m, SameTree(m), part'[m] = part[m], pc'[m] # "idle" => pc[m] # "idle", PartInv(m)
  PROVE  PartInv(m)'
<1>1. /\ pc[m] # "idle" => round[m] > 0
      /\ round[m] > 0 => \A l \in Leaves : part[m][l] = InLeaf(m, l) \cap Own(m)
  BY DEF PartInv
<1>2. \A l : InLeaf(m, l)' = InLeaf(m, l)
  BY SameTreeIs
<1>3. Own(m)' = Own(m) /\ round'[m] = round[m]
  BY SameTreeIs DEF SameTree
<1> QED BY <1>1, <1>2, <1>3 DEF PartInv

\* Counts are those of the rows or the ones stored.
LEMMA CountsSame ==
  ASSUME NEW m, job' = job, part'[m] = part[m], counts'[m] = counts[m]
  PROVE  \A l : CountIn(m, l)' = CountIn(m, l)
BY DEF CountIn

\* The pair to be searched stays while leaves and their sums do.
LEMMA PairStays ==
  ASSUME NEW m, SameTree(m), part'[m] = part[m], counts'[m] = counts[m], pair'[m] = pair[m],
         pc'[m] # "idle" => pc[m] # "idle" /\ (pc[m] = "sum" <=> pc'[m] = "sum"), PairInv(m)
  PROVE  PairInv(m)'
<1>1. \A l : CountIn(m, l)' = CountIn(m, l)
  BY CountsSame DEF SameTree
<1>2. Left(m)' = Left(m) /\ Right(m)' = Right(m) /\ \A l : InLeaf(m, l)' = InLeaf(m, l)
  BY SameTreeIs
<1>3. SmallerLeaf(m)' = SmallerLeaf(m) /\ LargerLeaf(m)' = LargerLeaf(m)
      /\ \A s : LeafOf(m, s)' = LeafOf(m, s)
  BY DEF SmallerLeaf, LargerLeaf, LeafOf
<1>4. TheSides(m)' = TheSides(m)
  BY <1>3 DEF TheSides
<1>5. tree'[m] = tree[m]
  BY DEF SameTree
<1> QED BY <1>1, <1>2, <1>3, <1>4, <1>5 DEF PairInv

\* Counts are global still while leaves and counts stay the same.
LEMMA CountStays ==
  ASSUME NEW m, SameTree(m), part'[m] = part[m], counts'[m] = counts[m],
         pc'[m] \notin {"idle", "sum"} => pc[m] \notin {"idle", "sum"}, CountInv(m)
  PROVE  CountInv(m)'
<1>1. \A l : CountIn(m, l)' = CountIn(m, l)
  BY CountsSame DEF SameTree
<1>2. LeavesOf(m)' = LeavesOf(m) /\ \A l : InLeaf(m, l)' = InLeaf(m, l)
  BY SameTreeIs
<1>3. ConstantHessian' <=> ConstantHessian
  BY SameJob DEF SameTree
<1> QED BY <1>1, <1>2, <1>3 DEF CountInv

\* The setup of a tree lasts until it is grown.
LEMMA PlanStays ==
  ASSUME NEW m, SameTree(m), used'[m] = used[m], layout'[m] = layout[m],
         pc'[m] # "idle" => pc[m] # "idle",
         pc'[m] # "idle" =>
           /\ job.mode = "feature" => pc'[m] \in {"search", "best", "split"}
           /\ pc'[m] \in {"sum", "search", "scatter", "judge", "best", "split"},
         PlanInv(m)
  PROVE  PlanInv(m)'
<1>1. /\ InUse(m)' = InUse(m) /\ Charge(m)' = Charge(m)
      /\ PrepareBufferPos(InUse(m))' = PrepareBufferPos(InUse(m))
  BY SameTreeIs
<1>2. job' = job
  BY DEF SameTree
<1> QED BY <1>1, <1>2 DEF PlanInv

\* A leaf's histograms stay while its entry does.
LEMMA HoldsStays ==
  ASSUME NEW m, SameTree(m), NEW l, hist'[m][l] = hist[m][l], splittable'[m][l] = splittable[m][l]
  PROVE  \A S : Holds(m, l, S)' <=> Holds(m, l, S)
<1>1. job' = job /\ Charge(m)' = Charge(m)
  BY SameTreeIs DEF SameTree
<1>2. \A f, S : ByRows(f, S)' = ByRows(f, S)
  BY <1>1, SameJob
<1> QED BY <1>1, <1>2 DEF Holds

\* A leaf's best split stays the best while its entry does.
LEMMA OffersStays ==
  ASSUME NEW m, SameTree(m), part'[m] = part[m], counts'[m] = counts[m],
         NEW l, best'[m][l] = best[m][l], NEW fs
  PROVE  Offers(m, l, fs)' <=> Offers(m, l, fs)
<1>1. job' = job /\ InUse(m)' = InUse(m) /\ \A k : InLeaf(m, k)' = InLeaf(m, k)
  BY SameTreeIs DEF SameTree
<1>2. \A f, S, n : ByCount(f, S, n)' = ByCount(f, S, n)
  BY <1>1, SameJob
<1>3. CountIn(m, l)' = CountIn(m, l)
  BY <1>1, CountsSame
<1> QED BY <1>1, <1>2, <1>3 DEF Offers

\* A machine keeps its invariant while the others move.
LEMMA UntouchedKeeps ==
  ASSUME NEW m, Untouched(m), MachineInv(m)
  PROVE  MachineInv(m)'
<1>1. /\ SameTree(m) /\ pc'[m] = pc[m]
      /\ part'[m] = part[m] /\ counts'[m] = counts[m] /\ pair'[m] = pair[m]
      /\ hist'[m] = hist[m] /\ splittable'[m] = splittable[m] /\ used'[m] = used[m]
      /\ layout'[m] = layout[m] /\ got'[m] = got[m] /\ best'[m] = best[m]
  BY DEF Untouched
<1>2. PartInv(m) /\ PairInv(m) /\ CountInv(m) /\ PlanInv(m) /\ HistInv(m) /\ BestInv(m) /\ GotInv(m)
  BY DEF MachineInv
<1>3. PartInv(m)' /\ PairInv(m)' /\ CountInv(m)'
  BY <1>1, <1>2, PartStays, PairStays, CountStays
<1>4. PlanInv(m)'
  <2>1. pc[m] # "idle" =>
           /\ job.mode = "feature" => pc[m] \in {"search", "best", "split"}
           /\ pc[m] \in {"sum", "search", "scatter", "judge", "best", "split"}
    BY <1>2 DEF PlanInv
  <2> QED BY <1>1, <1>2, <2>1, PlanStays
<1>5. /\ Left(m)' = Left(m) /\ Right(m)' = Right(m) /\ LeavesOf(m)' = LeavesOf(m)
      /\ \A l : InPair(m, l)' <=> InPair(m, l)
      /\ \A l : InLeaf(m, l)' = InLeaf(m, l)
      /\ Parent(m)' = Parent(m) /\ InUse(m)' = InUse(m) /\ Charge(m)' = Charge(m)
  BY <1>1, SameTreeIs
<1>6. SmallerLeaf(m)' = SmallerLeaf(m) /\ LargerLeaf(m)' = LargerLeaf(m)
  BY <1>1 DEF SmallerLeaf, LargerLeaf
<1>7. HistInv(m)'
  <2>1. \A l, S : Holds(m, l, S)' <=> Holds(m, l, S)
    BY <1>1, HoldsStays
  <2> QED BY <1>1, <1>2, <1>5, <1>6, <2>1 DEF HistInv
<1>8. BestInv(m)'
  <2>1. \A l, fs : Offers(m, l, fs)' <=> Offers(m, l, fs)
    BY <1>1, OffersStays
  <2> QED BY <1>1, <1>2, <1>5, <2>1 DEF BestInv
<1>9. GotInv(m)'
  BY <1>1, <1>2, <1>5, <1>6 DEF GotInv
<1> QED BY <1>3, <1>4, <1>7, <1>8, <1>9 DEF MachineInv

-----------------------------------------------------------------------------
(* A machine between two steps *)

\* A step of one machine.
LEMMA OneKeeps ==
  ASSUME job' = job, SearchInv, NEW m \in Machines,
         \A n \in Machines : n # m => Untouched(n),
         Comparable => MachineInv(m)'
  PROVE  SearchInv'
<1>1. Machines' = Machines /\ (Comparable' <=> Comparable)
  BY SameJob
<1>2. ASSUME Comparable, NEW n \in Machines PROVE MachineInv(n)'
  <2>1. MachineInv(n)
    BY <1>2 DEF SearchInv
  <2>2. CASE n # m
    BY <2>1, <2>2, UntouchedKeeps
  <2>3. CASE n = m
    BY <1>2, <2>3
  <2> QED BY <2>2, <2>3
<1> QED BY <1>1, <1>2 DEF SearchInv

\* A round and what belongs to it.
LEMMA RoundIs ==
  ASSUME IInv, NEW m \in Machines, round[m] > 0
  PROVE  /\ job.plan[round[m]] \in [bag : SUBSET Rows, used : SUBSET Features]
         /\ InUse(m) \in SUBSET Features /\ Charge(m) \subseteq InUse(m)
         /\ (\A n \in Machines : round[n] = round[m])
              => \A f \in InUse(m) : \E n \in Machines : f \in Charge(n)
         /\ Bag(m) \subseteq Everywhere /\ Bag(m) \in SUBSET Rows
         /\ \A l : InLeaf(m, l) \in SUBSET Rows /\ InLeaf(m, l) \subseteq Everywhere
         /\ \A k, l : k # l => InLeaf(m, k) \cap InLeaf(m, l) = {}
<1>1. TypeInv /\ TreeInv(m)
  BY DEF IInv
<1>2. IsJob(job) /\ tree[m] \in Seq(Made) /\ round[m] \in Nat
  BY <1>1, TypeParts
<1>3. job.plan[round[m]] \in [bag : SUBSET Rows, used : SUBSET Features]
  <2>1. job.plan \in Seq([bag : SUBSET Rows, used : SUBSET Features])
    BY <1>2 DEF IsJob
  <2>2. round[m] <= Len(job.plan)
    BY <1>1 DEF TreeInv
  <2> DEFINE R == [bag : SUBSET Rows, used : SUBSET Features]
  <2> HIDE DEF R
  <2>3. \A q \in Seq(R), i \in Nat : i > 0 /\ i <= Len(q) => q[i] \in R
    OBVIOUS
  <2>4. job.plan[round[m]] \in R
    BY <1>2, <2>1, <2>2, <2>3 DEF R
  <2> QED BY <2>4 DEF R
<1>4. InUse(m) \in SUBSET Features /\ job.plan[round[m]].bag \in SUBSET Rows
  BY <1>3 DEF InUse
<1>5. /\ FeatureDistribution(InUse(m)) \in [Machines -> Seq(InUse(m))]
      /\ \A f \in InUse(m) : \E n \in Machines : f \in Range(FeatureDistribution(InUse(m))[n])
  BY <1>2, <1>4, DistributionHasAll
<1>6. Charge(m) \subseteq InUse(m)
  <2> DEFINE q == FeatureDistribution(InUse(m))[m]
  <2>1. q \in Seq(InUse(m))
    BY <1>5
  <2> HIDE DEF q
  <2>2. Range(q) \subseteq InUse(m)
    BY <2>1 DEF Range
  <2> QED BY <2>2 DEF Charge, q
<1>7. ASSUME \A n \in Machines : round[n] = round[m], NEW f \in InUse(m)
      PROVE  \E n \in Machines : f \in Charge(n)
  <2>1. PICK n \in Machines : f \in Range(FeatureDistribution(InUse(m))[n])
    BY <1>5
  <2>2. InUse(n) = InUse(m)
    BY <1>7 DEF InUse
  <2> QED BY <2>1, <2>2 DEF Charge
<1>8. Bag(m) \subseteq Everywhere /\ Bag(m) \in SUBSET Rows
  BY <1>4 DEF Bag
<1>9. \A l : InLeaf(m, l) \in SUBSET Rows /\ InLeaf(m, l) \subseteq Everywhere
  BY <1>8 DEF InLeaf
<1>10. \A k, l : k # l => InLeaf(m, k) \cap InLeaf(m, l) = {}
  BY <1>2, LeavesApart DEF InLeaf
<1> QED BY <1>3, <1>4, <1>6, <1>7, <1>8, <1>9, <1>10

\* What one machine has and another has not, they have together.
LEMMA OwnIs ==
  ASSUME IsJob(job), Comparable
  PROVE  /\ job.mode \in {"feature", "data"}
         /\ \A m \in Machines : Own(m) \subseteq Everywhere /\ Own(m) \in SUBSET Rows
         /\ Everywhere = UNION {Own(m) : m \in Machines}
         /\ job.mode = "feature" => Everywhere = Rows /\ \A m : Own(m) = Rows
         /\ job.mode = "data" => \A m \in Machines : Own(m) = job.own[m]
<1>1. job.mode \in {"feature", "data"}
  BY DEF Comparable
<1>2. Machines # {}
  BY MachinesAre
<1>3. \A m \in Machines : job.own[m] \subseteq Rows
  BY DEF IsJob, Machines
<1>4. CASE job.mode = "feature"
  <2>1. \A m : Own(m) = Rows
    BY <1>4 DEF Own
  <2>2. UNION {Own(m) : m \in Machines} = Rows
    BY <1>2, <2>1
  <2> QED BY <1>4, <2>1, <2>2 DEF Everywhere
<1>5. CASE job.mode = "data"
  <2>1. \A m \in Machines : Own(m) = job.own[m]
    BY <1>5 DEF Own
  <2>2. {Own(m) : m \in Machines} = {job.own[m] : m \in Machines}
    BY <2>1
  <2>3. Everywhere = UNION {job.own[m] : m \in Machines}
    BY <1>5 DEF Everywhere
  <2> QED BY <1>3, <1>5, <2>1, <2>2, <2>3
<1> QED BY <1>1, <1>4, <1>5

\* The pair of leaves that is searched.
LEMMA PairIs ==
  ASSUME IInv, NEW m \in Machines, pc[m] # "idle", PairInv(m)
  PROVE  /\ Left(m) \in LeavesOf(m) /\ Left(m) # Right(m) /\ LeavesOf(m) \subseteq Leaves
         /\ Right(m) # None => Right(m) \in LeavesOf(m)
         /\ Right(m) = None => tree[m] = <<>> /\ LeavesOf(m) = {0} /\ Left(m) = 0 /\ SmallerLeaf(m) = 0
         /\ None \notin Leaves
         /\ TheSides(m) = IF Right(m) = None THEN {"smaller"} ELSE {"smaller", "larger"}
         /\ SmallerLeaf(m) \in LeavesOf(m) /\ SmallerLeaf(m) # LargerLeaf(m)
         /\ Right(m) # None => LargerLeaf(m) \in LeavesOf(m)
         /\ \A l \in LeavesOf(m) : InPair(m, l) <=> l = SmallerLeaf(m) \/ l = LargerLeaf(m)
         /\ \A l \in LeavesOf(m) : InPair(m, l) <=> \E s \in TheSides(m) : LeafOf(m, s) = l
         /\ \A s, t \in TheSides(m) : LeafOf(m, s) = LeafOf(m, t) => s = t
         /\ \A s \in TheSides(m) : LeafOf(m, s) \in LeavesOf(m) /\ InPair(m, LeafOf(m, s))
<1>1. TypeInv /\ TreeInv(m)
  BY DEF IInv
<1> DEFINE N == Len(tree[m])
<1>2. /\ Left(m) \in Leaves /\ Left(m) <= N
      /\ Right(m) = IF tree[m] = <<>> THEN None ELSE N
      /\ N \in Leaves /\ N \in Nat
      /\ SmallerLeaf(m) = LeafOf(m, "smaller") /\ LargerLeaf(m) = LeafOf(m, "larger")
  BY <1>1, LeavesAre
<1>3. tree[m] \in Seq(Made) /\ NumLeaves \in Nat /\ None \notin Leaves
  BY <1>1, TypeParts, ParallelAssumption DEF None, Leaves
<1>4. LeavesOf(m) \subseteq Leaves /\ \A l \in LeavesOf(m) : l \in Nat /\ l # None
  BY <1>2, <1>3 DEF LeavesOf, Leaves, None
<1>5. Left(m) \in LeavesOf(m)
  BY <1>2 DEF LeavesOf, Leaves
<1>6. CASE tree[m] = <<>>
  <2>1. Right(m) = None /\ N = 0 /\ Left(m) = 0 /\ LeavesOf(m) = {0}
    BY <1>2, <1>6 DEF Left, LeavesOf
  <2>2. SmallerLeaf(m) = 0 /\ LargerLeaf(m) = None
    BY <2>1 DEF PairInv
  <2>3. TheSides(m) = {"smaller"}
    BY <1>2, <2>2 DEF TheSides, Sides, None
  <2> QED BY <1>2, <1>3, <1>4, <1>5, <1>6, <2>1, <2>2, <2>3 DEF InPair, None
<1>7. CASE tree[m] # <<>>
  <2>1. Right(m) = N /\ N # None /\ N \in LeavesOf(m)
    BY <1>2, <1>7 DEF None, LeavesOf
  <2>2. Left(m) # N
    <3>1. N \in DOMAIN tree[m] /\ tree[m][N] \in Made /\ N > 0
      BY <1>3, <1>7
    <3>2. Left(m) = tree[m][N].leaf
      BY <1>7 DEF Left, Last
    <3>3. tree[m][N].leaf <= N - 1
      BY <1>1, <3>1 DEF TreeInv
    <3> QED BY <1>2, <3>2, <3>3 DEF Leaves
  <2>3. /\ SmallerLeaf(m) \in {Left(m), N} /\ LargerLeaf(m) \in {Left(m), N}
        /\ SmallerLeaf(m) # LargerLeaf(m)
    BY <2>1, <2>2 DEF PairInv
  <2>4. TheSides(m) = {"smaller", "larger"}
    BY <1>2, <1>4, <1>5, <2>1, <2>3 DEF TheSides, Sides
  <2>5. \A l \in LeavesOf(m) : InPair(m, l) <=> l = SmallerLeaf(m) \/ l = LargerLeaf(m)
    BY <2>1, <2>2, <2>3 DEF InPair
  <2>6. Right(m) # None
    BY <2>1
  <2>7. SmallerLeaf(m) \in LeavesOf(m) /\ LargerLeaf(m) \in LeavesOf(m)
    BY <1>5, <2>1, <2>3
  <2> QED BY <1>2, <1>3, <1>4, <1>5, <2>1, <2>2, <2>3, <2>4, <2>5, <2>6, <2>7
<1> QED BY <1>6, <1>7

-----------------------------------------------------------------------------
(* The steps, one by one *)

\* Before the first tree nothing is known.
LEMMA StartSearch == Init => SearchInv
<1> SUFFICES ASSUME Init, NEW m \in Machines PROVE MachineInv(m)
  BY DEF SearchInv
<1>1. pc[m] = "idle" /\ round[m] = 0
  BY DEF Init
<1> QED BY <1>1 DEF MachineInv, PartInv, PairInv, CountInv, PlanInv, HistInv, BestInv, GotInv

\* A tree is finished when no leaf can be split; its rows stay where they are.
LEMMA FinishSearch ==
  ASSUME IInv, SearchInv, NEW m \in Machines, Finish(m)
  PROVE  SearchInv'
<1>1. /\ pc[m] = "split" /\ pc' = [pc EXCEPT ![m] = "idle"]
      /\ job' = job /\ round' = round /\ tree' = tree /\ part' = part /\ counts' = counts
      /\ pair' = pair /\ hist' = hist /\ splittable' = splittable /\ used' = used
      /\ layout' = layout /\ got' = got /\ best' = best
  BY DEF Finish
<1>2. pc \in [Machines -> Stages]
  BY DEF IInv, TypeInv
<1>3. pc'[m] = "idle" /\ \A n \in Machines : n # m => Untouched(n)
  BY <1>1, <1>2 DEF Untouched, SameTree
<1>4. ASSUME Comparable PROVE MachineInv(m)'
  <2>1. PartInv(m)
    BY <1>4 DEF SearchInv, MachineInv
  <2>2. PartInv(m)'
    BY <1>1, <1>3, <2>1, PartStays DEF SameTree
  <2> QED BY <1>3, <2>2 DEF MachineInv, PairInv, CountInv, PlanInv, HistInv, BestInv, GotInv
<1> QED BY <1>1, <1>3, <1>4, OneKeeps

\* Before the first search of a tree nothing has been found.
LEMMA NothingFoundYet ==
  ASSUME NEW m, tree'[m] = <<>>, pc'[m] \in {"sum", "search"}
  PROVE  HistInv(m)' /\ BestInv(m)' /\ GotInv(m)'
<1>1. LeavesOf(m)' = {0} /\ Left(m)' = 0 /\ Right(m)' = None
  BY DEF LeavesOf, Left, Right
<1>2. \A l \in LeavesOf(m)' : InPair(m, l)'
  BY <1>1 DEF InPair
<1> QED BY <1>1, <1>2 DEF HistInv, BestInv, GotInv

\* A new tree has one leaf, with the bagged rows.
LEMMA BeforeTrainSearch ==
  ASSUME IInv, SearchInv, NEW m \in Machines, BeforeTrain(m)
  PROVE  SearchInv'
<1>0. PICK r, bag, fs : r = round[m] + 1 /\ bag = job.plan[r].bag /\ fs = job.plan[r].used
  OBVIOUS
<1> DEFINE mine == IF job.mode = "feature" THEN bag ELSE bag \cap job.own[m]
<1>1. /\ pc[m] = "idle" /\ round[m] < Len(job.plan)
      /\ round' = [round EXCEPT ![m] = @ + 1]
      /\ used' = [used EXCEPT ![m] =
              IF job.mode = "feature" THEN Range(FeatureDistribution(fs)[m]) ELSE fs]
      /\ layout' = [layout EXCEPT ![m] =
              IF job.mode = "data" THEN PrepareBufferPos(fs) ELSE <<>>]
      /\ part' = [part EXCEPT ![m] = [l \in Leaves |-> IF l = 0 THEN mine ELSE {}]]
      /\ pair' = [pair EXCEPT ![m] = [smaller |-> [leaf |-> 0, sum |-> mine],
                                      larger |-> [leaf |-> None, sum |-> {}]]]
      /\ tree' = [tree EXCEPT ![m] = <<>>]
      /\ best' = [best EXCEPT ![m] = [l \in Leaves |-> NoSplit]]
      /\ pc' = [pc EXCEPT ![m] = IF job.mode = "feature" THEN "search" ELSE "sum"]
      /\ job' = job /\ counts' = counts /\ hist' = hist /\ splittable' = splittable /\ got' = got
  BY <1>0 DEF BeforeTrain
<1>2. TypeInv /\ ExchangeTypes /\ IsJob(job) /\ round[m] \in Nat
  BY TypeParts DEF IInv
<1>3. /\ pc \in [Machines -> Stages] /\ round \in [Machines -> Nat]
      /\ tree \in [Machines -> Seq(Made)] /\ part \in [Machines -> [Leaves -> SUBSET Rows]]
      /\ pair \in [Machines -> [Sides -> LeafSums]] /\ used \in [Machines -> SUBSET Features]
      /\ best \in [Machines -> [Leaves -> Splits]] /\ DOMAIN layout = Machines
  BY <1>2 DEF TypeInv, ExchangeTypes
<1>4. \A n \in Machines : n # m => Untouched(n)
  BY <1>1, <1>3 DEF Untouched, SameTree
<1> HIDE DEF mine
<1>5. /\ round'[m] = r /\ tree'[m] = <<>>
      /\ pc'[m] = IF job.mode = "feature" THEN "search" ELSE "sum"
      /\ part'[m] = [l \in Leaves |-> IF l = 0 THEN mine ELSE {}]
      /\ pair'[m] = [smaller |-> [leaf |-> 0, sum |-> mine], larger |-> [leaf |-> None, sum |-> {}]]
  BY <1>0, <1>1, <1>3
<1>6. /\ used'[m] = IF job.mode = "feature" THEN Range(FeatureDistribution(fs)[m]) ELSE fs
      /\ layout'[m] = IF job.mode = "data" THEN PrepareBufferPos(fs) ELSE <<>>
  BY <1>1, <1>3
<1>7. r > 0 /\ bag \in SUBSET Rows
  <2> DEFINE R == [bag : SUBSET Rows, used : SUBSET Features]
  <2> HIDE DEF R
  <2>1. job.plan \in Seq(R)
    BY <1>2 DEF IsJob, R
  <2>2. \A q \in Seq(R), i \in Nat : i < Len(q) => q[i + 1] \in R
    OBVIOUS
  <2>3. job.plan[r] \in R
    BY <1>0, <1>1, <1>2, <2>1, <2>2
  <2> QED BY <1>0, <1>2, <2>3 DEF R
<1>8. ASSUME Comparable PROVE MachineInv(m)'
  <2>0. /\ job.mode \in {"feature", "data"} /\ Own(m) \subseteq Everywhere /\ Own(m) \in SUBSET Rows
        /\ job.mode = "feature" => Everywhere = Rows /\ Own(m) = Rows
        /\ job.mode = "data" => Own(m) = job.own[m]
    BY <1>2, <1>8, OwnIs
  <2>1. /\ Machines' = Machines /\ Everywhere' = Everywhere /\ Own(m)' = Own(m)
        /\ \A t, l : RowsOf(t, l)' = RowsOf(t, l)
        /\ FeatureDistribution(fs)' = FeatureDistribution(fs)
        /\ PrepareBufferPos(fs)' = PrepareBufferPos(fs)
    BY <1>1, SameJob
  <2>2. Bag(m)' = bag \cap Everywhere /\ InUse(m)' = fs
    BY <1>0, <1>1, <1>5, <2>1 DEF Bag, InUse
  <2>3. \A l : InLeaf(m, l)' = RowsOf(<<>>, l) \cap bag \cap Everywhere
    BY <1>5, <2>1, <2>2 DEF InLeaf
  <2>4. InLeaf(m, 0)' = bag \cap Everywhere /\ \A l : l # 0 => InLeaf(m, l)' = {}
    BY <1>7, <2>3, RootRows
  <2>5. mine = bag \cap Own(m) /\ mine \subseteq Everywhere
    BY <1>7, <2>0 DEF mine
  <2>6. PartInv(m)'
    <3>1. \A l \in Leaves : part'[m][l] = IF l = 0 THEN mine ELSE {}
      BY <1>5
    <3>2. \A l \in Leaves : part'[m][l] = InLeaf(m, l)' \cap Own(m)'
      BY <2>0, <2>1, <2>4, <2>5, <3>1
    <3>3. round'[m] > 0
      BY <1>5, <1>7
    <3> QED BY <3>2, <3>3 DEF PartInv
  <2>7. Left(m)' = 0 /\ Right(m)' = None /\ SmallerLeaf(m)' = 0 /\ LargerLeaf(m)' = None
        /\ LeavesOf(m)' = {0}
    BY <1>5 DEF Left, Right, SmallerLeaf, LargerLeaf, LeavesOf
  <2>8. PairInv(m)'
    <3>1. TheSides(m)' = {"smaller"} /\ LeafOf(m, "smaller")' = 0
      BY <1>5 DEF TheSides, LeafOf, Sides, None
    <3>2. pair'[m]["smaller"].sum = mine /\ part'[m][0] = mine
      BY <1>5, ParallelAssumption DEF Leaves
    <3>3. pc'[m] # "sum" => mine = InLeaf(m, 0)'
      BY <1>5, <2>0, <2>4, <2>5
    <3> QED BY <1>5, <2>7, <3>1, <3>2, <3>3 DEF PairInv
  <2>9. CountInv(m)'
    <3> SUFFICES ASSUME pc'[m] \notin {"idle", "sum"}
                 PROVE  CountIn(m, 0)' = Cardinality(InLeaf(m, 0)')
      BY <2>7 DEF CountInv
    <3>1. job.mode = "feature"
      BY <1>5
    <3>2. part'[m][0] = mine /\ mine = InLeaf(m, 0)'
      BY <1>5, <2>0, <2>4, <2>5, <3>1, ParallelAssumption DEF Leaves
    <3> QED BY <1>1, <3>1, <3>2 DEF CountIn, None
  <2>10. PlanInv(m)'
    <3>1. Charge(m)' = Range(FeatureDistribution(fs)[m])
      BY <2>1, <2>2 DEF Charge
    <3>2. PrepareBufferPos(InUse(m))' = PrepareBufferPos(fs)
      BY <2>1, <2>2
    <3> QED BY <1>1, <1>5, <1>6, <2>0, <2>2, <3>1, <3>2 DEF PlanInv
  <2>11. HistInv(m)' /\ BestInv(m)' /\ GotInv(m)'
    BY <1>5, NothingFoundYet
  <2> QED BY <2>6, <2>8, <2>9, <2>10, <2>11 DEF MachineInv
<1> QED BY <1>1, <1>4, <1>8, OneKeeps

\* The machines' rows of a leaf make up its rows.
LEMMA SumOfRows ==
  ASSUME IsJob(job), job.mode = "data", NEW S \in SUBSET Rows, S \subseteq Everywhere,
         NEW h, DOMAIN h = Machines, \A k \in Machines : h[k] = S \cap Own(k)
  PROVE  Sum(h) = S
<1>1. /\ Everywhere = UNION {Own(k) : k \in Machines}
      /\ \A k \in Machines : Own(k) = job.own[k] /\ Own(k) \in SUBSET Rows
  BY OwnIs DEF Comparable
<1>2. \A k, n \in Machines : k # n => job.own[k] \cap job.own[n] = {}
  BY DEF IsJob, Machines
<1>3. \A k, n \in DOMAIN h : Junk \notin h[k] /\ (k = n \/ h[k] \cap h[n] = {})
  BY <1>1, <1>2, ParallelAssumption
<1>4. UNION Range(h) = S
  <2>1. \A x \in UNION Range(h) : x \in S
    BY DEF Range
  <2>2. ASSUME NEW x \in S PROVE x \in UNION Range(h)
    <3>1. PICK k \in Machines : x \in Own(k)
      BY <1>1
    <3> QED BY <3>1 DEF Range
  <2> QED BY <2>1, <2>2
<1> QED BY <1>3, <1>4 DEF Sum

\* The root's rows are summed up over the machines.
LEMMA AllreduceRootSearch ==
  ASSUME IInv, SearchInv, AllreduceRoot
  PROVE  SearchInv'
<1> SUFFICES ASSUME Comparable', NEW m \in Machines' PROVE MachineInv(m)'
  BY DEF SearchInv
<1> DEFINE h == [k \in Machines |-> pair[k].smaller.sum]
           sum == Sum(h)
<1>1. /\ \A k \in Machines : pc[k] = "sum"
      /\ pc' = [k \in Machines |-> "search"]
      /\ pair' = [k \in Machines |-> [pair[k] EXCEPT !.smaller.sum = sum]]
      /\ counts' = [k \in Machines |-> [counts[k] EXCEPT ![0] = Cardinality(sum)]]
      /\ job' = job /\ round' = round /\ tree' = tree /\ part' = part /\ hist' = hist
      /\ splittable' = splittable /\ used' = used /\ layout' = layout /\ got' = got /\ best' = best
  BY DEF AllreduceRoot, AllAt, AllGoTo, RootCounts
<1>2. Machines' = Machines /\ m \in Machines /\ Comparable /\ SameTree(m)
  BY <1>1, SameJob DEF SameTree
<1>3. TypeInv /\ RunInv /\ IsJob(job) /\ counts[m] \in [Leaves -> Nat] /\ pair[m] \in [Sides -> LeafSums]
  BY <1>2, TypeParts DEF IInv
<1>4. ASSUME NEW k \in Machines
      PROVE  PartInv(k) /\ PairInv(k) /\ PlanInv(k) /\ round[k] = round[m]
  <2>1. \A i, j \in Machines : View(i) = View(j)
    BY <1>1, <1>3, AllMeet
  <2>2. View(k) = View(m)
    BY <1>2, <2>1
  <2>3. round[k] = round[m]
    BY <1>2, <1>3, <2>2, SeenAlike
  <2> QED BY <1>2, <2>3 DEF SearchInv, MachineInv
<1>5. job.mode = "data"
  <2>1. pc[m] = "sum" /\ job.mode \in {"feature", "data"}
    BY <1>1, <1>2, <1>3, OwnIs
  <2> QED BY <1>2, <1>4, <2>1 DEF PlanInv
<1>6. ASSUME NEW k \in Machines
      PROVE  tree[k] = <<>> /\ round[k] > 0 /\ pair[k].smaller.sum = part[k][0]
  <2>1. PairInv(k) /\ PartInv(k) /\ pc[k] = "sum"
    BY <1>1, <1>4
  <2> QED BY <2>1 DEF PairInv, PartInv
<1> DEFINE S == InLeaf(m, 0)
<1>7. ASSUME NEW k \in Machines PROVE h[k] = S \cap Own(k)
  <2>1. part[k][0] = InLeaf(k, 0) \cap Own(k)
    BY <1>4, <1>6, ParallelAssumption DEF PartInv, Leaves
  <2>2. InLeaf(k, 0) = S
    BY <1>2, <1>4, <1>6 DEF InLeaf, Bag
  <2> QED BY <1>6, <2>1, <2>2
<1>8. S \in SUBSET Rows /\ S \subseteq Everywhere
  BY <1>2, <1>6, RoundIs
<1>9. sum = S
  <2>1. DOMAIN h = Machines
    OBVIOUS
  <2> HIDE DEF h, S
  <2> QED BY <1>3, <1>5, <1>7, <1>8, <2>1, SumOfRows
<1> HIDE DEF sum
<1>10. /\ pc'[m] = "search" /\ tree'[m] = <<>>
       /\ \A s \in Sides : LeafOf(m, s)' = LeafOf(m, s)
       /\ SmallerLeaf(m)' = SmallerLeaf(m) /\ LargerLeaf(m)' = LargerLeaf(m)
       /\ pair'[m]["smaller"].sum = S
       /\ counts'[m][0] = Cardinality(S)
  <2>1. pair'[m] = [pair[m] EXCEPT !.smaller.sum = S] /\ counts'[m] = [counts[m] EXCEPT ![0] = Cardinality(S)]
    BY <1>1, <1>2, <1>9
  <2>2. 0 \in Leaves
    BY ParallelAssumption DEF Leaves
  <2> HIDE DEF S
  <2>3. pair'[m]["smaller"].leaf = pair[m]["smaller"].leaf /\ pair'[m]["smaller"].sum = S
        /\ pair'[m]["larger"] = pair[m]["larger"]
    <3> DEFINE new == [pair[m].smaller EXCEPT !.sum = S]
    <3>1. pair'[m] = [pair[m] EXCEPT !["smaller"] = new]
      BY <2>1
    <3>2. new.leaf = pair[m]["smaller"].leaf /\ new.sum = S
      BY <1>3 DEF LeafSums, Sides
    <3> HIDE DEF new
    <3> QED BY <1>3, <3>1, <3>2 DEF Sides
  <2>4. \A s \in Sides : LeafOf(m, s)' = LeafOf(m, s)
    BY <2>3 DEF LeafOf, Sides
  <2> QED BY <1>1, <1>2, <1>3, <1>6, <2>1, <2>2, <2>3, <2>4 DEF SmallerLeaf, LargerLeaf
<1>11. /\ Left(m) = 0 /\ Right(m) = None /\ LeavesOf(m) = {0}
       /\ Left(m)' = 0 /\ Right(m)' = None /\ LeavesOf(m)' = {0}
       /\ InLeaf(m, 0)' = S
       /\ SmallerLeaf(m) = 0 /\ LargerLeaf(m) = None
  <2>1. Left(m) = 0 /\ Right(m) = None /\ LeavesOf(m) = {0}
    BY <1>2, <1>6 DEF Left, Right, LeavesOf
  <2>2. SmallerLeaf(m) = 0 /\ LargerLeaf(m) = None
    BY <1>1, <1>2, <1>4, <2>1 DEF PairInv
  <2> QED BY <1>2, <2>1, <2>2, SameTreeIs
<1>12. PartInv(m)'
  <2>1. pc[m] # "idle" /\ PartInv(m)
    BY <1>1, <1>2, <1>4
  <2> QED BY <1>1, <1>2, <2>1, PartStays
<1>13. PairInv(m)'
  <2>1. TheSides(m)' = {"smaller"} /\ LeafOf(m, "smaller")' = 0
    BY <1>10, <1>11 DEF TheSides, Sides, LeafOf, SmallerLeaf, LargerLeaf, None
  <2> HIDE DEF S
  <2> QED BY <1>10, <1>11, <2>1 DEF PairInv
<1>14. CountInv(m)'
  <2>1. CountIn(m, 0)' = Cardinality(S)
    BY <1>1, <1>5, <1>10 DEF CountIn, None
  <2> HIDE DEF S
  <2> QED BY <1>11, <2>1 DEF CountInv
<1>15. PlanInv(m)'
  <2>1. pc[m] # "idle" /\ PlanInv(m)
    BY <1>1, <1>2, <1>4
  <2> QED BY <1>1, <1>2, <1>5, <1>10, <2>1, PlanStays
<1>16. HistInv(m)' /\ BestInv(m)' /\ GotInv(m)'
  BY <1>10, NothingFoundYet
<1> QED BY <1>12, <1>13, <1>14, <1>15, <1>16 DEF MachineInv

\* Leaves that are too small are given up.
LEMMA SkipSearchSearch ==
  ASSUME IInv, SearchInv, NEW m \in Machines, SkipSearch(m)
  PROVE  SearchInv'
<1>1. /\ pc[m] = "search" /\ TooSmall(m)
      /\ best' = [best EXCEPT ![m] = [l \in Leaves |-> IF l \in {Left(m), Right(m)}
                                        THEN [@[l] EXCEPT !.gain = MinScore] ELSE @[l]]]
      /\ pc' = [pc EXCEPT ![m] = "split"]
      /\ job' = job /\ round' = round /\ tree' = tree /\ part' = part /\ counts' = counts
      /\ pair' = pair /\ hist' = hist /\ splittable' = splittable /\ used' = used
      /\ layout' = layout /\ got' = got
  BY DEF SkipSearch
<1>2. TypeInv /\ pc \in [Machines -> Stages] /\ best \in [Machines -> [Leaves -> Splits]]
      /\ best[m] \in [Leaves -> Splits]
  BY TypeParts DEF IInv, TypeInv
<1>3. SameTree(m) /\ \A n \in Machines : n # m => Untouched(n)
  BY <1>1, <1>2 DEF Untouched, SameTree
<1>4. /\ pc'[m] = "split"
      /\ \A l \in Leaves : best'[m][l] = IF InPair(m, l) THEN [best[m][l] EXCEPT !.gain = MinScore]
                                         ELSE best[m][l]
  <2>1. best'[m] = [l \in Leaves |-> IF l \in {Left(m), Right(m)}
                                        THEN [best[m][l] EXCEPT !.gain = MinScore] ELSE best[m][l]]
    BY <1>1, <1>2
  <2> QED BY <1>1, <1>2, <2>1 DEF InPair
<1>5. ASSUME Comparable PROVE MachineInv(m)'
  <2>1. PartInv(m) /\ PairInv(m) /\ CountInv(m) /\ PlanInv(m) /\ HistInv(m) /\ BestInv(m)
    BY <1>5 DEF SearchInv, MachineInv
  <2>2. PartInv(m)' /\ PairInv(m)' /\ CountInv(m)' /\ PlanInv(m)'
    BY <1>1, <1>3, <1>4, <2>1, PartStays, PairStays, CountStays, PlanStays
  <2>3. /\ LeavesOf(m)' = LeavesOf(m) /\ \A l : InPair(m, l)' <=> InPair(m, l)
        /\ \A l : InLeaf(m, l)' = InLeaf(m, l)
        /\ InUse(m)' = InUse(m)
    BY <1>3, SameTreeIs
  <2>4. LeavesOf(m) \subseteq Leaves /\ \A l \in LeavesOf(m) : l # None
    BY <1>1, <2>1, PairIs
  <2>5. round[m] > 0 /\ InUse(m) \in SUBSET Features /\ \A l : InLeaf(m, l) \in SUBSET Rows
    BY <1>1, <2>1, RoundIs DEF PartInv
  <2>6. \A l, S : Holds(m, l, S)' <=> Holds(m, l, S)
    BY <1>1, <1>3, HoldsStays
  <2>7. \A l \in LeavesOf(m) : InPair(m, l) => ~(best'[m][l].gain > 0)
    <3>1. \A l \in Leaves : best[m][l] \in Splits
      BY <1>2
    <3>2. \A x \in Splits : [x EXCEPT !.gain = MinScore].gain = MinScore
      BY SplitsAre
    <3>3. \A l \in Leaves : InPair(m, l) => best'[m][l].gain = MinScore
      BY <1>4, <3>1, <3>2
    <3> QED BY <2>4, <3>3 DEF MinScore
  <2>8. \A l \in LeavesOf(m) : ~InPair(m, l) => best'[m][l] = best[m][l]
    BY <1>4, <2>4
  <2>9. HistInv(m)'
    <3>1. ASSUME NEW l \in LeavesOf(m), ~InPair(m, l), best'[m][l].gain > 0
          PROVE  Holds(m, l, InLeaf(m, l))'
      <4>1. Holds(m, l, InLeaf(m, l))
        BY <1>1, <2>1, <2>8, <3>1 DEF HistInv
      <4> QED BY <2>3, <2>6, <4>1
    <3> QED BY <1>4, <2>3, <2>7, <3>1 DEF HistInv
  <2>10. ASSUME NEW l \in LeavesOf(m), InPair(m, l) PROVE Offers(m, l, InUse(m))'
    <3>1. CountIn(m, l) \in Nat /\ IsJob(job)
      BY <1>2, <2>4, CountsAre, TypeParts
    <3>2. CountIn(m, l) < 2 * MinData
      BY <1>1, <2>10 DEF TooSmall, InPair
    <3>3. \A f \in InUse(m) : ~(ByCount(f, InLeaf(m, l), CountIn(m, l)).gain > 0)
      BY <2>5, <3>1, <3>2, SmallSplitsNot
    <3>4. /\ \A f, S, n : ByCount(f, S, n)' = ByCount(f, S, n)
          /\ CountIn(m, l)' = CountIn(m, l)
      BY <1>1, SameJob, CountsSame
    <3> QED BY <2>3, <2>7, <2>10, <3>3, <3>4 DEF Offers
  <2>11. \A l \in LeavesOf(m) : ~InPair(m, l) => Offers(m, l, InUse(m))'
    <3> SUFFICES ASSUME NEW l \in LeavesOf(m), ~InPair(m, l) PROVE Offers(m, l, InUse(m))'
      OBVIOUS
    <3>1. Offers(m, l, InUse(m))
      BY <1>1, <2>1 DEF BestInv
    <3>2. \A fs : Offers(m, l, fs)' <=> Offers(m, l, fs)
      BY <1>1, <1>3, <2>8, OffersStays
    <3> QED BY <2>3, <3>1, <3>2
  <2>12. BestInv(m)'
    BY <1>4, <2>3, <2>10, <2>11 DEF BestInv
  <2>13. GotInv(m)'
    BY <1>4 DEF GotInv
  <2> QED BY <2>2, <2>9, <2>12, <2>13 DEF MachineInv
<1> QED BY <1>1, <1>3, <1>5, OneKeeps

\* The parent's entry is where the larger leaf expects it; the leaves that are
\* not searched keep theirs.
LEMMA MovedAre ==
  ASSUME IInv, NEW m \in Machines, pc[m] # "idle", PairInv(m), NEW X, NEW a \in [Leaves -> X]
  PROVE  /\ Right(m) # None => Moved(m, a)[LargerLeaf(m)] = a[Left(m)]
         /\ \A l \in Leaves : ~InPair(m, l) => Moved(m, a)[l] = a[l]
<1>1. /\ Left(m) \in Leaves /\ Left(m) # Right(m)
      /\ Right(m) # None => Right(m) \in Leaves
  BY PairIs
<1>2. Right(m) # None => /\ CountIn(m, Left(m)) < CountIn(m, Right(m)) => LargerLeaf(m) = Right(m)
                         /\ ~(CountIn(m, Left(m)) < CountIn(m, Right(m))) => LargerLeaf(m) = Left(m)
  BY DEF PairInv
<1>3. CASE Right(m) # None /\ CountIn(m, Left(m)) < CountIn(m, Right(m))
  <2>1. Moved(m, a) = [a EXCEPT ![Left(m)] = a[Right(m)], ![Right(m)] = a[Left(m)]]
    BY <1>3 DEF Moved
  <2> QED BY <1>1, <1>2, <1>3, <2>1 DEF InPair
<1>4. CASE ~(Right(m) # None /\ CountIn(m, Left(m)) < CountIn(m, Right(m)))
  <2>1. Moved(m, a) = a
    BY <1>4 DEF Moved
  <2> QED BY <1>2, <1>4, <2>1
<1> QED BY <1>3, <1>4

\* Data parallel: the smaller leaf's histograms of the machine's own rows.
LEMMA FindBestSplitsSearch ==
  ASSUME IInv, SearchInv, NEW m \in Machines, FindBestSplits(m)
  PROVE  SearchInv'
<1> DEFINE moved == Moved(m, hist[m])
<1>1. /\ pc[m] = "search" /\ job.mode = "data"
      /\ hist' = [hist EXCEPT ![m] = WithSmaller(m, moved, used[m])]
      /\ pc' = [pc EXCEPT ![m] = "scatter"]
      /\ job' = job /\ round' = round /\ tree' = tree /\ part' = part /\ counts' = counts
      /\ pair' = pair /\ best' = best /\ splittable' = splittable /\ used' = used
      /\ layout' = layout /\ got' = got
  BY DEF FindBestSplits
<1>2. /\ TypeInv /\ TreeInv(m) /\ pc \in [Machines -> Stages] /\ hist[m] \in [Leaves -> [Features -> Heaps]]
      /\ hist \in [Machines -> [Leaves -> [Features -> Heaps]]]
  BY TypeParts DEF IInv, TypeInv
<1>3. SameTree(m) /\ \A n \in Machines : n # m => Untouched(n)
  BY <1>1, <1>2 DEF Untouched, SameTree
<1>4. pc'[m] = "scatter" /\ hist'[m] = WithSmaller(m, moved, used[m])
  BY <1>1, <1>2
<1>5. ASSUME Comparable PROVE MachineInv(m)'
  <2>1. PartInv(m) /\ PairInv(m) /\ CountInv(m) /\ PlanInv(m) /\ HistInv(m) /\ BestInv(m)
    BY <1>5 DEF SearchInv, MachineInv
  <2>2. PartInv(m)' /\ PairInv(m)' /\ CountInv(m)' /\ PlanInv(m)'
    BY <1>1, <1>3, <1>4, <2>1, PartStays, PairStays, CountStays, PlanStays
  <2>3. /\ LeavesOf(m)' = LeavesOf(m) /\ \A l : InPair(m, l)' <=> InPair(m, l)
        /\ \A l : InLeaf(m, l)' = InLeaf(m, l)
        /\ InUse(m)' = InUse(m) /\ Charge(m)' = Charge(m)
        /\ Right(m)' = Right(m) /\ Parent(m)' = Parent(m)
    BY <1>3, SameTreeIs
  <2>4. /\ LeavesOf(m) \subseteq Leaves /\ SmallerLeaf(m) \in LeavesOf(m) /\ SmallerLeaf(m) # LargerLeaf(m)
        /\ Right(m) # None => LargerLeaf(m) \in LeavesOf(m)
        /\ \A l \in LeavesOf(m) : InPair(m, l) <=> l = SmallerLeaf(m) \/ l = LargerLeaf(m)
        /\ Left(m) \in LeavesOf(m)
    BY <1>1, <2>1, PairIs
  <2>5. round[m] > 0 /\ InUse(m) \in SUBSET Features /\ Charge(m) \subseteq InUse(m)
    BY <1>1, <2>1, RoundIs DEF PartInv
  <2>6. used[m] = InUse(m)
    BY <1>1, <2>1 DEF PlanInv
  <2>7. /\ moved \in [Leaves -> [Features -> Heaps]]
        /\ Right(m) # None => moved[LargerLeaf(m)] = hist[m][Left(m)]
        /\ \A l \in Leaves : ~InPair(m, l) => moved[l] = hist[m][l]
    BY <1>1, <1>2, <2>1, MovedIs, MovedAre
  <2> HIDE DEF moved
  <2>8. /\ \A f \in InUse(m) : hist'[m][SmallerLeaf(m)][f] = part[m][SmallerLeaf(m)]
        /\ \A l \in Leaves : l # SmallerLeaf(m) => hist'[m][l] = moved[l]
    BY <1>4, <2>4, <2>5, <2>6, <2>7 DEF WithSmaller
  <2>9. SmallerLeaf(m)' = SmallerLeaf(m) /\ LargerLeaf(m)' = LargerLeaf(m)
    BY <1>1 DEF SmallerLeaf, LargerLeaf
  <2>10. ASSUME NEW l \in LeavesOf(m), ~InPair(m, l), best[m][l].gain > 0
         PROVE  Holds(m, l, InLeaf(m, l))'
    <3>1. hist'[m][l] = hist[m][l]
      BY <2>4, <2>7, <2>8, <2>10
    <3>2. Holds(m, l, InLeaf(m, l))
      BY <1>1, <2>1, <2>10 DEF HistInv
    <3>3. \A S : Holds(m, l, S)' <=> Holds(m, l, S)
      BY <1>1, <1>3, <3>1, HoldsStays
    <3> QED BY <2>3, <3>2, <3>3
  <2>11. ASSUME Right(m) # None PROVE Holds(m, LargerLeaf(m), Parent(m))'
    <3>1. \A f \in Charge(m) : hist[m][Left(m)][f] = Parent(m)
      BY <1>1, <2>1, <2>11 DEF HistInv, Holds
    <3>2. hist'[m][LargerLeaf(m)] = hist[m][Left(m)]
      BY <2>4, <2>7, <2>8, <2>11
    <3> QED BY <1>1, <2>3, <2>9, <3>1, <3>2 DEF Holds
  <2>12. HistInv(m)'
    BY <1>1, <1>4, <2>3, <2>8, <2>9, <2>10, <2>11 DEF HistInv
  <2>13. BestInv(m)'
    <3>1. \A l, fs : Offers(m, l, fs)' <=> Offers(m, l, fs)
      BY <1>1, <1>3, OffersStays
    <3> QED BY <1>1, <1>4, <2>1, <2>3, <3>1 DEF BestInv
  <2>14. GotInv(m)'
    BY <1>4 DEF GotInv
  <2> QED BY <2>2, <2>12, <2>13, <2>14 DEF MachineInv
<1> QED BY <1>1, <1>3, <1>5, OneKeeps

\* The best of the splits of a leaf by some features.
LEMMA BestByCount ==
  ASSUME IsJob(job), NEW fs \in SUBSET Features, NEW S \in SUBSET Rows, NEW n \in Nat
  PROVE  LET b == BestOf({NoSplit} \cup {ByCount(f, S, n) : f \in fs})
         IN  /\ b.gain > 0 => \E f \in fs : b = ByCount(f, S, n)
             /\ \A f \in fs : ~Better(ByCount(f, S, n), b)
             /\ ~Better(NoSplit, b) /\ b \in Splits
<1> DEFINE ss == {ByCount(f, S, n) : f \in fs}
           F == [f \in fs |-> ByCount(f, S, n)]
<1>1. \A f \in fs : ByCount(f, S, n) \in Splits
  BY ByCountIs DEF Splits
<1>2. IsFiniteSet(ss)
  <2>1. F \in [fs -> Splits]
    BY <1>1
  <2>2. ss = {F[f] : f \in fs}
    OBVIOUS
  <2> HIDE DEF F, ss
  <2> QED BY <2>1, <2>2, FiniteSplits
<1>3. NoSplit \in Splits /\ ~(NoSplit.gain > 0)
  BY DEF Splits, NoSplit, MinScore
<1>4. IsFiniteSet({NoSplit} \cup ss)
  BY <1>2, FS_Singleton, FS_Union
<1> DEFINE all == {NoSplit} \cup ss
<1>5. all \in SUBSET Splits /\ all # {} /\ IsFiniteSet(all)
  BY <1>1, <1>3, <1>4
<1> HIDE DEF all
<1>6. BestOf(all) \in all /\ \A t \in all : ~Better(t, BestOf(all))
  BY <1>5, BestOfIs
<1> QED BY <1>3, <1>5, <1>6 DEF all

\* A gain is either positive or not.
LEMMA GainsAre ==
  ASSUME IsJob(job), NEW f \in Features, NEW S \in SUBSET Rows
  PROVE  ByRows(f, S).gain \in Int /\ (ByRows(f, S).gain <= 0 <=> ~(ByRows(f, S).gain > 0))
<1>1. ByRows(f, S) \in Splits
  BY RowsAreFinite, ByCountIs DEF Splits, ByRows
<1>2. ByRows(f, S).gain \in Nat \cup {MinScore}
  BY <1>1, SplitsAre
<1> QED BY <1>2 DEF MinScore

\* Feature parallel: the histograms of the machine's features that may still
\* be split, and what the search makes of them.
LEMMA OwnHistograms ==
  ASSUME IInv, NEW m \in Machines, pc[m] = "search", job.mode = "feature", ConstantHessian,
         MachineInv(m), SearchLocally(m)
  PROVE  /\ Worth(m) \subseteq Charge(m)
         /\ \A s \in TheSides(m) : \A f \in Worth(m) :
              /\ hist'[m][LeafOf(m, s)][f] = InLeaf(m, LeafOf(m, s))
              /\ LocalSplit(m, s, f) = ByRows(f, InLeaf(m, LeafOf(m, s)))
         /\ \A s \in TheSides(m) : \A f \in Charge(m) \ Worth(m) : ~(ByRows(f, InLeaf(m, LeafOf(m, s))).gain > 0)
         /\ \A s \in TheSides(m) : \A f \in Charge(m) :
              splittable'[m][LeafOf(m, s)][f]
              <=> f \in Worth(m) /\ ByRows(f, InLeaf(m, LeafOf(m, s))).gain > 0
         /\ \A l \in LeavesOf(m) : ~InPair(m, l) =>
              hist'[m][l] = hist[m][l] /\ splittable'[m][l] = splittable[m][l]
<1> DEFINE moved == Moved(m, hist[m])
           old == Moved(m, splittable[m])
           W == Worth(m)
           h == WithSmaller(m, moved, W)
           small == SmallerLeaf(m)
           large == LargerLeaf(m)
<1>1. /\ TypeInv /\ TreeInv(m) /\ IsJob(job) /\ hist[m] \in [Leaves -> [Features -> Heaps]]
      /\ hist \in [Machines -> [Leaves -> [Features -> Heaps]]]
      /\ splittable \in [Machines -> [Leaves -> [Features -> BOOLEAN]]]
      /\ splittable[m] \in [Leaves -> [Features -> BOOLEAN]]
  BY TypeParts DEF IInv, TypeInv
<1>2. PartInv(m) /\ PairInv(m) /\ PlanInv(m) /\ HistInv(m)
  BY DEF MachineInv
<1>3. /\ hist'[m] = LocalHistograms(m) /\ splittable'[m] = SplittableAfter(m)
  BY <1>1 DEF SearchLocally
<1>4. /\ Left(m) \in LeavesOf(m) /\ LeavesOf(m) \subseteq Leaves
      /\ TheSides(m) = IF Right(m) = None THEN {"smaller"} ELSE {"smaller", "larger"}
      /\ small \in LeavesOf(m) /\ small # large
      /\ Right(m) # None => large \in LeavesOf(m)
      /\ \A l \in LeavesOf(m) : InPair(m, l) <=> l = small \/ l = large
      /\ \A s, t \in TheSides(m) : LeafOf(m, s) = LeafOf(m, t) => s = t
      /\ \A s \in TheSides(m) : LeafOf(m, s) \in LeavesOf(m) /\ InPair(m, LeafOf(m, s))
      /\ \A l \in LeavesOf(m) : InPair(m, l) <=> \E s \in TheSides(m) : LeafOf(m, s) = l
  BY <1>2, PairIs
<1>5. /\ round[m] > 0 /\ InUse(m) \in SUBSET Features /\ Charge(m) \subseteq InUse(m)
      /\ \A l : InLeaf(m, l) \in SUBSET Rows
      /\ \A k, l : k # l => InLeaf(m, k) \cap InLeaf(m, l) = {}
  BY <1>2, RoundIs DEF PartInv
<1>6. used[m] = Charge(m)
  BY <1>2 DEF PlanInv
<1>7. /\ Right(m) # None => moved[large] = hist[m][Left(m)] /\ old[large] = splittable[m][Left(m)]
      /\ \A l \in Leaves : ~InPair(m, l) => moved[l] = hist[m][l] /\ old[l] = splittable[m][l]
      /\ moved \in [Leaves -> [Features -> Heaps]] /\ old \in [Leaves -> [Features -> BOOLEAN]]
  BY <1>1, <1>2, MovedAre, MovedIs, ZenonT(30)
<1>8. /\ W = {f \in Charge(m) : Right(m) = None \/ splittable[m][Left(m)][f]}
      /\ W \subseteq Charge(m) /\ W \subseteq Features
  BY <1>5, <1>6, <1>7 DEF Worth
<1> HIDE DEF moved, old, W
<1>9. part[m][small] = InLeaf(m, small) /\ \A l \in LeavesOf(m) : part[m][l] = InLeaf(m, l)
  <2>1. Own(m) = Rows
    BY <1>1, OwnIs DEF Comparable
  <2>2. \A l \in LeavesOf(m) : part[m][l] = InLeaf(m, l) \cap Own(m)
    BY <1>2, <1>4, <1>5 DEF PartInv
  <2>3. \A l \in LeavesOf(m) : part[m][l] = InLeaf(m, l)
    BY <1>5, <2>1, <2>2
  <2> QED BY <1>4, <2>3
<1>10. /\ \A f \in W : h[small][f] = InLeaf(m, small)
       /\ \A l \in Leaves : l # small => h[l] = moved[l]
       /\ DOMAIN h = Leaves
  BY <1>4, <1>7, <1>8, <1>9 DEF WithSmaller
<1> HIDE DEF h
<1>11. ASSUME Right(m) # None
       PROVE  /\ \A f \in W : h[large][f] = Parent(m)
              /\ \A f \in Charge(m) \ W : ~(ByRows(f, Parent(m)).gain > 0)
              /\ Parent(m) = InLeaf(m, small) \cup InLeaf(m, large)
              /\ Parent(m) \in SUBSET Rows
  <2>1. Holds(m, Left(m), Parent(m))
    BY <1>2, <1>11 DEF HistInv
  <2>2. Parent(m) \in SUBSET Rows
    BY <1>5 DEF Parent
  <2>3. \A f \in W : hist[m][Left(m)][f] = Parent(m)
    BY <1>8, <1>11, <2>1 DEF Holds
  <2>4. \A f \in Charge(m) \ W : ByRows(f, Parent(m)).gain <= 0
    BY <1>8, <1>11, <2>1 DEF Holds
  <2>5. \A f \in Charge(m) \ W : ~(ByRows(f, Parent(m)).gain > 0)
    BY <1>1, <1>5, <2>2, <2>4, GainsAre
  <2>6. Parent(m) = InLeaf(m, small) \cup InLeaf(m, large)
    BY <1>2 DEF Parent, PairInv
  <2>7. large \in Leaves
    BY <1>4, <1>11
  <2>8. h[large] = moved[large] /\ moved[large] = hist[m][Left(m)]
    BY <1>4, <1>7, <1>10, <1>11, <2>7
  <2>9. \A f \in W : h[large][f] = Parent(m)
    BY <2>3, <2>8
  <2> QED BY <2>2, <2>5, <2>6, <2>9
<1>12. /\ \A f \in W : hist'[m][small][f] = InLeaf(m, small)
       /\ Right(m) # None => \A f \in W : hist'[m][large][f] = InLeaf(m, large)
       /\ \A l \in Leaves : l # small /\ l # large => hist'[m][l] = moved[l]
  <2>1. CASE Right(m) = None
    <3>1. hist'[m] = h
      BY <1>3, <2>1 DEF LocalHistograms, h, W, moved
    <3> QED BY <1>10, <2>1, <3>1
  <2>2. CASE Right(m) # None
    <3>1. hist'[m] = [h EXCEPT ![large] = [f \in Features |->
                        IF f \in W THEN Minus(h[large][f], h[small][f]) ELSE h[large][f]]]
      BY <1>3, <2>2 DEF LocalHistograms, h, W, moved, ParentHistogram
    <3>2. \A f \in W : Minus(h[large][f], h[small][f]) = InLeaf(m, large)
      BY <1>4, <1>5, <1>10, <1>11, <2>2 DEF Minus
    <3>3. large \in Leaves
      BY <1>4, <2>2
    <3> QED BY <1>4, <1>8, <1>10, <2>2, <3>1, <3>2, <3>3
  <2> QED BY <2>1, <2>2
<1>13. ASSUME NEW s \in TheSides(m), NEW f \in W
       PROVE  /\ hist'[m][LeafOf(m, s)][f] = InLeaf(m, LeafOf(m, s))
              /\ LocalSplit(m, s, f) = ByRows(f, InLeaf(m, LeafOf(m, s)))
  <2>1. LeafOf(m, s) = small \/ (Right(m) # None /\ LeafOf(m, s) = large)
    BY <1>4 DEF SmallerLeaf, LargerLeaf, LeafOf
  <2>2. hist'[m][LeafOf(m, s)][f] = InLeaf(m, LeafOf(m, s))
    BY <1>12, <2>1
  <2>3. pair[m][s].sum = InLeaf(m, LeafOf(m, s))
    BY <1>2 DEF PairInv
  <2>4. part[m][LeafOf(m, s)] = InLeaf(m, LeafOf(m, s))
    BY <1>4, <1>9
  <2> QED BY <2>2, <2>3, <2>4 DEF LocalSplit, LocalSum, LocalMin, ByRows, ByCount
<1>14. ASSUME NEW s \in TheSides(m), NEW f \in Charge(m), f \notin W
       PROVE  ~(ByRows(f, InLeaf(m, LeafOf(m, s))).gain > 0)
  <2>1. Right(m) # None
    BY <1>8, <1>14
  <2>2. InLeaf(m, LeafOf(m, s)) \subseteq Parent(m)
    BY <1>4, <1>11, <2>1 DEF SmallerLeaf, LargerLeaf, LeafOf
  <2> QED BY <1>1, <1>5, <1>11, <1>14, <2>1, <2>2, PartsSplitLess
<1>15. ASSUME NEW s \in TheSides(m), NEW f \in Charge(m)
       PROVE  splittable'[m][LeafOf(m, s)][f]
              <=> f \in W /\ ByRows(f, InLeaf(m, LeafOf(m, s))).gain > 0
  <2>1. LeafOf(m, s) \in Leaves /\ f \in Features /\ f \in used[m]
    BY <1>4, <1>5, <1>6
  <2>2. splittable'[m][LeafOf(m, s)][f]
        = (f \in W /\ \E t \in TheSides(m) : LeafOf(m, t) = LeafOf(m, s) /\ LocalSplit(m, t, f).gain > 0)
    BY <1>3, <2>1 DEF SplittableAfter, W
  <2>3. (\E t \in TheSides(m) : LeafOf(m, t) = LeafOf(m, s) /\ LocalSplit(m, t, f).gain > 0)
        <=> LocalSplit(m, s, f).gain > 0
    BY <1>4
  <2> QED BY <1>13, <2>2, <2>3
<1>16. ASSUME NEW l \in LeavesOf(m), ~InPair(m, l)
       PROVE  hist'[m][l] = hist[m][l] /\ splittable'[m][l] = splittable[m][l]
  <2>1. l \in Leaves /\ l # small /\ l # large /\ \A s \in TheSides(m) : LeafOf(m, s) # l
    BY <1>4, <1>16
  <2>2. hist'[m][l] = hist[m][l]
    BY <1>7, <1>12, <1>16, <2>1
  <2>3. splittable'[m][l] = [f \in Features |-> old[l][f]]
    BY <1>3, <2>1 DEF SplittableAfter, old
  <2>4. old[l] = splittable[m][l] /\ old[l] \in [Features -> BOOLEAN]
    BY <1>7, <1>16, <2>1
  <2> QED BY <2>2, <2>3, <2>4
<1> QED BY <1>8, <1>13, <1>14, <1>15, <1>16 DEF W

\* Feature parallel: the machine's features are judged by all rows of a leaf.
LEMMA FindBestOfOwnFeaturesSearch ==
  ASSUME IInv, SearchInv, NEW m \in Machines, FindBestOfOwnFeatures(m)
  PROVE  SearchInv'
<1> DEFINE of(l) == {LocalSplit(m, s, f) : f \in Worth(m), s \in {x \in TheSides(m) : LeafOf(m, x) = l}}
           b == [l \in Leaves |-> IF \E s \in TheSides(m) : LeafOf(m, s) = l
                                    THEN BestOf({NoSplit} \cup of(l)) ELSE best[m][l]]
<1>1. /\ pc[m] = "search" /\ job.mode = "feature" /\ SearchLocally(m)
      /\ best' = [best EXCEPT ![m] = b] /\ pc' = [pc EXCEPT ![m] = "best"]
      /\ job' = job /\ round' = round /\ tree' = tree /\ part' = part /\ counts' = counts
      /\ pair' = pair /\ used' = used /\ layout' = layout /\ got' = got
  BY DEF FindBestOfOwnFeatures
<1>2. TypeInv /\ TreeInv(m) /\ pc \in [Machines -> Stages] /\ best \in [Machines -> [Leaves -> Splits]]
  BY DEF IInv, TypeInv
<1>3. \A n \in Machines : n # m => hist'[n] = hist[n] /\ splittable'[n] = splittable[n]
  BY <1>1, <1>2, LocalIs
<1>4. best'[m] = b /\ pc'[m] = "best" /\ \A n \in Machines : n # m => best'[n] = best[n] /\ pc'[n] = pc[n]
  BY <1>1, <1>2
<1> HIDE DEF b
<1>5. SameTree(m) /\ \A n \in Machines : n # m => Untouched(n)
  BY <1>1, <1>3, <1>4 DEF Untouched, SameTree
<1> SUFFICES ASSUME ConstantHessian PROVE SearchInv'
  <2>1. ~ConstantHessian => ~Comparable
    BY <1>1 DEF Comparable
  <2> QED BY <1>1, <1>5, <2>1, OneKeeps
<1>6. MachineInv(m) /\ IsJob(job)
  BY <1>1, TypeParts DEF SearchInv, Comparable, IInv
<1>7. PartInv(m) /\ PairInv(m) /\ CountInv(m) /\ PlanInv(m) /\ HistInv(m) /\ BestInv(m)
  BY <1>6 DEF MachineInv
<1>8. PartInv(m)' /\ PairInv(m)' /\ CountInv(m)' /\ PlanInv(m)'
  BY <1>1, <1>4, <1>5, <1>7, PartStays, PairStays, CountStays, PlanStays
<1>9. /\ LeavesOf(m)' = LeavesOf(m) /\ \A l : InPair(m, l)' <=> InPair(m, l)
      /\ \A l : InLeaf(m, l)' = InLeaf(m, l)
      /\ InUse(m)' = InUse(m) /\ Charge(m)' = Charge(m)
  BY <1>5, SameTreeIs
<1>10. /\ LeavesOf(m) \subseteq Leaves
       /\ \A l \in LeavesOf(m) : InPair(m, l) <=> \E s \in TheSides(m) : LeafOf(m, s) = l
       /\ \A s, t \in TheSides(m) : LeafOf(m, s) = LeafOf(m, t) => s = t
  BY <1>1, <1>7, PairIs
<1>11. /\ round[m] > 0 /\ InUse(m) \in SUBSET Features /\ Charge(m) \subseteq InUse(m)
       /\ \A l : InLeaf(m, l) \in SUBSET Rows
  BY <1>1, <1>7, RoundIs DEF PartInv
<1>12. /\ Worth(m) \subseteq Charge(m)
       /\ \A s \in TheSides(m) : \A f \in Worth(m) :
              /\ hist'[m][LeafOf(m, s)][f] = InLeaf(m, LeafOf(m, s))
              /\ LocalSplit(m, s, f) = ByRows(f, InLeaf(m, LeafOf(m, s)))
       /\ \A s \in TheSides(m) : \A f \in Charge(m) \ Worth(m) : ~(ByRows(f, InLeaf(m, LeafOf(m, s))).gain > 0)
       /\ \A s \in TheSides(m) : \A f \in Charge(m) :
              splittable'[m][LeafOf(m, s)][f]
              <=> f \in Worth(m) /\ ByRows(f, InLeaf(m, LeafOf(m, s))).gain > 0
       /\ \A l \in LeavesOf(m) : ~InPair(m, l) =>
              hist'[m][l] = hist[m][l] /\ splittable'[m][l] = splittable[m][l]
  BY <1>1, <1>6, OwnHistograms
<1>13. /\ \A f, S : ByRows(f, S)' = ByRows(f, S)
       /\ \A f, S, n : ByCount(f, S, n)' = ByCount(f, S, n)
       /\ \A l \in LeavesOf(m) : CountIn(m, l)' = Cardinality(InLeaf(m, l))
  <2>1. \A l \in LeavesOf(m) : CountIn(m, l) = Cardinality(InLeaf(m, l))
    BY <1>1, <1>7 DEF CountInv
  <2> QED BY <1>1, <2>1, SameJob, CountsSame
<1>14. ASSUME NEW l \in LeavesOf(m), InPair(m, l)
       PROVE  Holds(m, l, InLeaf(m, l))' /\ Offers(m, l, Charge(m))'
  <2>1. PICK s \in TheSides(m) : LeafOf(m, s) = l
    BY <1>10, <1>14
  <2> DEFINE S == InLeaf(m, l)
  <2>2. ASSUME NEW f \in Charge(m)
        PROVE  IF splittable'[m][l][f] THEN hist'[m][l][f] = S ELSE ByRows(f, S).gain <= 0
    <3>1. ByRows(f, S).gain <= 0 <=> ~(ByRows(f, S).gain > 0)
      BY <1>6, <1>11, GainsAre
    <3> QED BY <1>12, <2>1, <3>1
  <2>3. Holds(m, l, S)'
    <3>1. job'.mode # "data"
      BY <1>1
    <3> QED BY <1>9, <1>13, <2>2, <3>1 DEF Holds
  <2>4. best'[m][l] = BestOf({NoSplit} \cup {ByRows(f, S) : f \in Worth(m)})
    <3>1. {x \in TheSides(m) : LeafOf(m, x) = l} = {s}
      BY <1>10, <2>1
    <3>2. of(l) = {LocalSplit(m, s, f) : f \in Worth(m)}
      BY <3>1
    <3>3. of(l) = {ByRows(f, S) : f \in Worth(m)}
      BY <1>12, <2>1, <3>2
    <3>4. b[l] = BestOf({NoSplit} \cup of(l))
      BY <1>10, <2>1 DEF b
    <3> HIDE DEF of
    <3> QED BY <1>4, <3>3, <3>4
  <2>5. /\ best'[m][l].gain > 0 => \E f \in Worth(m) : best'[m][l] = ByRows(f, S)
        /\ \A f \in Worth(m) : ~Better(ByRows(f, S), best'[m][l])
    <3>1. Worth(m) \in SUBSET Features /\ S \in SUBSET Rows /\ Cardinality(S) \in Nat
      BY <1>11, <1>12, RowsAreFinite
    <3> HIDE DEF S
    <3> QED BY <1>6, <2>4, <3>1, BestByCount DEF ByRows
  <2>6. \A f \in Charge(m) : ByRows(f, S).gain > 0 => f \in Worth(m)
    BY <1>12, <2>1
  <2>7. Worth(m) \subseteq InUse(m)
    BY <1>11, <1>12
  <2>8. Offers(m, l, Charge(m))'
    <3>1. /\ best'[m][l].gain > 0 => \E f \in InUse(m) : best'[m][l] = ByRows(f, S)
          /\ \A f \in Charge(m) : ByRows(f, S).gain > 0 => ~Better(ByRows(f, S), best'[m][l])
      BY <2>5, <2>6, <2>7
    <3>2. InLeaf(m, l)' = S /\ CountIn(m, l)' = Cardinality(S)
      BY <1>9, <1>13
    <3>3. \A f : ByRows(f, S) = ByCount(f, S, Cardinality(S))
      BY DEF ByRows
    <3> HIDE DEF S
    <3> QED BY <1>9, <1>13, <3>1, <3>2, <3>3 DEF Offers
  <2> QED BY <1>9, <2>3, <2>8
<1>15. ASSUME NEW l \in LeavesOf(m), ~InPair(m, l)
       PROVE  /\ best'[m][l].gain > 0 => Holds(m, l, InLeaf(m, l))'
              /\ Offers(m, l, InUse(m))'
  <2>1. best'[m][l] = best[m][l]
    BY <1>4, <1>10, <1>15 DEF b
  <2>2. \A S : Holds(m, l, S)' <=> Holds(m, l, S)
    BY <1>5, <1>12, <1>15, HoldsStays
  <2>3. \A fs : Offers(m, l, fs)' <=> Offers(m, l, fs)
    BY <1>1, <1>5, <2>1, OffersStays
  <2>4. best[m][l].gain > 0 => Holds(m, l, InLeaf(m, l))
    BY <1>1, <1>7, <1>15 DEF HistInv
  <2>5. Offers(m, l, InUse(m))
    BY <1>1, <1>7, <1>15 DEF BestInv
  <2> QED BY <1>9, <2>1, <2>2, <2>3, <2>4, <2>5
<1>16. HistInv(m)'
  BY <1>4, <1>9, <1>14, <1>15 DEF HistInv
<1>17. BestInv(m)'
  BY <1>4, <1>9, <1>14, <1>15 DEF BestInv
<1>18. MachineInv(m)'
  BY <1>4, <1>8, <1>16, <1>17 DEF MachineInv, GotInv
<1> QED BY <1>1, <1>5, <1>18, OneKeeps

\* In a collective of the search all machines are at the same point of the same
\* tree.
LEMMA SameSearch ==
  ASSUME IInv, SearchInv, Comparable,
         \A k \in Machines : pc[k] \in Searching \ {"search"}, NEW k \in Machines, NEW m \in Machines
  PROVE  /\ round[k] = round[m] /\ tree[k] = tree[m] /\ InUse(k) = InUse(m)
         /\ \A l : InLeaf(k, l) = InLeaf(m, l) /\ CountIn(k, l) = CountIn(m, l)
         /\ LeavesOf(k) = LeavesOf(m) /\ \A l : InPair(k, l) <=> InPair(m, l)
         /\ \A s \in Sides : LeafOf(k, s) = LeafOf(m, s)
         /\ TheSides(k) = TheSides(m)
         /\ SmallerLeaf(k) = SmallerLeaf(m)
         /\ \A f : f \in Charge(k) <=> f \in Range(FeatureDistribution(InUse(m))[k])
<1>1. TypeInv /\ \A i \in Machines : TreeInv(i)
  BY DEF IInv
<1>2. View(k) = View(m)
  <2>1. \A i \in Machines : ~TooSmall(i) /\ pc[i] \in Searching
    BY <1>1 DEF TreeInv
  <2> QED BY <1>1, <2>1, AllMeet DEF IInv
<1>3. round[k] = round[m] /\ tree[k] = tree[m] /\ \A s \in Sides : LeafOf(k, s) = LeafOf(m, s)
  BY <1>1, <1>2, SeenAlike
<1>4. Bag(k) = Bag(m) /\ InUse(k) = InUse(m)
  BY <1>3 DEF Bag, InUse
<1>5. \A l : InLeaf(k, l) = InLeaf(m, l)
  BY <1>3, <1>4 DEF InLeaf
<1>6. LeavesOf(k) = LeavesOf(m) /\ \A l : InPair(k, l) <=> InPair(m, l)
  BY <1>3 DEF LeavesOf, InPair, Left, Right
<1>7. TheSides(k) = TheSides(m) /\ SmallerLeaf(k) = SmallerLeaf(m)
  BY <1>3 DEF TheSides, SmallerLeaf, LeafOf, Sides
<1>8. IF job.mode = "feature" THEN part[k] = part[m] ELSE counts[k] = counts[m]
  BY <1>1, <1>2, SeenAlike
<1>9. \A l : CountIn(k, l) = CountIn(m, l)
  BY <1>8 DEF CountIn
<1> QED BY <1>3, <1>4, <1>5, <1>6, <1>7, <1>9 DEF Charge

\* Each machine receives, of its features, the smaller leaf's histogram over
\* all machines.
LEMMA ReduceScatterSearch ==
  ASSUME IInv, SearchInv, ReduceScatter
  PROVE  SearchInv'
<1> SUFFICES ASSUME Comparable', NEW m \in Machines' PROVE MachineInv(m)'
  BY DEF SearchInv
<1>1. /\ \A k \in Machines : pc[k] = "scatter"
      /\ pc' = [k \in Machines |-> "judge"]
      /\ got' = [k \in Machines |-> Received(k)]
      /\ job' = job /\ round' = round /\ tree' = tree /\ part' = part /\ counts' = counts
      /\ pair' = pair /\ hist' = hist /\ splittable' = splittable /\ used' = used
      /\ layout' = layout /\ best' = best
  BY DEF ReduceScatter, AllAt, AllGoTo
<1>2. Machines' = Machines /\ m \in Machines /\ Comparable /\ SameTree(m)
  BY <1>1, SameJob DEF SameTree
<1>3. pc[m] = "scatter" /\ pc'[m] = "judge" /\ got'[m] = Received(m)
  BY <1>1, <1>2
<1>4. TypeInv /\ IsJob(job)
  BY <1>2, TypeParts DEF IInv
<1>5. \A k \in Machines : PartInv(k) /\ PairInv(k) /\ CountInv(k) /\ PlanInv(k) /\ HistInv(k) /\ BestInv(k)
  BY <1>2 DEF SearchInv, MachineInv
<1>6. job.mode = "data"
  <2>1. PlanInv(m) /\ job.mode \in {"feature", "data"}
    BY <1>2, <1>4, <1>5, OwnIs
  <2> QED BY <1>3, <2>1 DEF PlanInv
<1>7. PartInv(m)' /\ PairInv(m)' /\ CountInv(m)' /\ PlanInv(m)'
  BY <1>1, <1>2, <1>3, <1>5, <1>6, PartStays, PairStays, CountStays, PlanStays
<1>8. /\ Left(m)' = Left(m) /\ Right(m)' = Right(m) /\ LeavesOf(m)' = LeavesOf(m)
      /\ \A l : InPair(m, l)' <=> InPair(m, l)
      /\ \A l : InLeaf(m, l)' = InLeaf(m, l)
      /\ Parent(m)' = Parent(m) /\ InUse(m)' = InUse(m) /\ Charge(m)' = Charge(m)
      /\ SmallerLeaf(m)' = SmallerLeaf(m) /\ LargerLeaf(m)' = LargerLeaf(m)
  BY <1>1, <1>2, SameTreeIs DEF SmallerLeaf, LargerLeaf
<1>9. HistInv(m)'
  <2>1. \A l, S : Holds(m, l, S)' <=> Holds(m, l, S)
    BY <1>1, <1>2, HoldsStays
  <2> QED BY <1>1, <1>2, <1>3, <1>5, <1>8, <2>1 DEF HistInv
<1>10. BestInv(m)'
  <2>1. \A l, fs : Offers(m, l, fs)' <=> Offers(m, l, fs)
    BY <1>1, <1>2, OffersStays
  <2> QED BY <1>2, <1>3, <1>5, <1>8, <2>1 DEF BestInv
<1>11. GotInv(m)'
  <2>1. "scatter" \in Searching \ {"search"}
    BY DEF Searching
  <2>2. \A k \in Machines : /\ InUse(k) = InUse(m) /\ SmallerLeaf(k) = SmallerLeaf(m)
                            /\ \A l : InLeaf(k, l) = InLeaf(m, l)
    BY <1>1, <1>2, <2>1, SameSearch
  <2>3. /\ round[m] > 0 /\ InUse(m) \in SUBSET Features /\ Charge(m) \subseteq InUse(m)
        /\ \A l : InLeaf(m, l) \in SUBSET Rows /\ InLeaf(m, l) \subseteq Everywhere
    BY <1>2, <1>3, <1>5, RoundIs DEF PartInv
  <2>4. \A k \in Machines : layout[k] = PrepareBufferPos(InUse(m))
    BY <1>1, <1>5, <1>6, <2>2 DEF PlanInv
  <2>5. /\ DOMAIN Received(m) = {<<"smaller", f>> : f \in Charge(m)}
        /\ \A f \in Charge(m) :
             Received(m)[<<"smaller", f>>] = Sum([k \in Machines |-> hist[k][SmallerLeaf(k)][f]])
    BY <1>2, <1>4, <2>3, <2>4, ReceivedSums DEF Charge
  <2> DEFINE small == SmallerLeaf(m)
             S == InLeaf(m, small)
  <2>6. small \in Leaves
    <3>1. pc[m] # "idle" /\ PairInv(m)
      BY <1>2, <1>3, <1>5
    <3> QED BY <1>2, <3>1, PairIs
  <2>7. ASSUME NEW f \in Charge(m) PROVE Sum([k \in Machines |-> hist[k][SmallerLeaf(k)][f]]) = S
    <3> DEFINE h == [k \in Machines |-> hist[k][SmallerLeaf(k)][f]]
    <3>1. ASSUME NEW k \in Machines PROVE h[k] = S \cap Own(k)
      <4>1. hist[k][SmallerLeaf(k)][f] = part[k][SmallerLeaf(k)]
        BY <1>1, <1>5, <2>2, <2>3 DEF HistInv
      <4>2. part[k][small] = InLeaf(k, small) \cap Own(k)
        BY <1>1, <1>5, <2>6 DEF PartInv
      <4>3. SmallerLeaf(k) = small /\ InLeaf(k, small) = S
        BY <2>2
      <4> HIDE DEF small, S
      <4>4. h[k] = hist[k][SmallerLeaf(k)][f]
        OBVIOUS
      <4> QED BY <4>1, <4>2, <4>3, <4>4
    <3>2. S \in SUBSET Rows /\ S \subseteq Everywhere /\ DOMAIN h = Machines
      BY <2>3
    <3> HIDE DEF S, h
    <3>3. Sum(h) = S
      BY <1>4, <1>6, <3>1, <3>2, SumOfRows
    <3> QED BY <3>3 DEF h
  <2>8. \A f \in Charge(m) : Received(m)[<<"smaller", f>>] = S
    BY <2>5, <2>7
  <2> HIDE DEF S
  <2>9. InLeaf(m, SmallerLeaf(m))' = S
    BY <1>8 DEF S
  <2> QED BY <1>3, <1>8, <2>5, <2>8, <2>9 DEF GotInv
<1> QED BY <1>7, <1>9, <1>10, <1>11 DEF MachineInv

\* Data parallel: each machine judges its features by the summed histograms.
LEMMA FindBestSplitsFromHistogramsSearch ==
  ASSUME IInv, SearchInv, NEW m \in Machines, FindBestSplitsFromHistograms(m)
  PROVE  SearchInv'
<1> DEFINE small == SmallerLeaf(m)
           large == LargerLeaf(m)
           side(l) == CHOOSE x \in TheSides(m) : LeafOf(m, x) = l
           of(s) == {Judge(m, s, j[1], j[2]) : j \in Judged(m, s)}
           b == [l \in Leaves |-> IF \E s \in TheSides(m) : LeafOf(m, s) = l
                                    THEN BestOf({NoSplit} \cup of(side(l))) ELSE best[m][l]]
<1>1. /\ pc[m] = "judge" /\ hist' = [hist EXCEPT ![m] = Summed(m)]
      /\ best' = [best EXCEPT ![m] = b] /\ got' = [got EXCEPT ![m] = <<>>]
      /\ pc' = [pc EXCEPT ![m] = "best"]
      /\ job' = job /\ round' = round /\ tree' = tree /\ part' = part /\ counts' = counts
      /\ pair' = pair /\ splittable' = splittable /\ used' = used /\ layout' = layout
  BY DEF FindBestSplitsFromHistograms
<1>2. /\ TypeInv /\ ExchangeTypes /\ TreeInv(m) /\ IsJob(job)
      /\ pc \in [Machines -> Stages] /\ best \in [Machines -> [Leaves -> Splits]]
      /\ hist \in [Machines -> [Leaves -> [Features -> Heaps]]] /\ DOMAIN got = Machines
      /\ hist[m] \in [Leaves -> [Features -> Heaps]]
  BY TypeParts DEF IInv, TypeInv, ExchangeTypes
<1>3. /\ hist'[m] = Summed(m) /\ best'[m] = b /\ pc'[m] = "best"
      /\ \A n \in Machines : n # m =>
           best'[n] = best[n] /\ pc'[n] = pc[n] /\ hist'[n] = hist[n] /\ got'[n] = got[n]
  BY <1>1, <1>2
<1> HIDE DEF b
<1>4. SameTree(m) /\ \A n \in Machines : n # m => Untouched(n)
  BY <1>1, <1>3 DEF Untouched, SameTree
<1>5. ASSUME Comparable PROVE MachineInv(m)'
  <2>1. PartInv(m) /\ PairInv(m) /\ CountInv(m) /\ PlanInv(m) /\ HistInv(m) /\ BestInv(m) /\ GotInv(m)
    BY <1>5 DEF SearchInv, MachineInv
  <2>2. job.mode = "data"
    BY <1>1, <1>2, <1>5, <2>1, OwnIs DEF PlanInv
  <2>3. PartInv(m)' /\ PairInv(m)' /\ CountInv(m)' /\ PlanInv(m)'
    BY <1>1, <1>3, <1>4, <2>1, <2>2, PartStays, PairStays, CountStays, PlanStays
  <2>4. /\ LeavesOf(m)' = LeavesOf(m) /\ \A l : InPair(m, l)' <=> InPair(m, l)
        /\ \A l : InLeaf(m, l)' = InLeaf(m, l)
        /\ InUse(m)' = InUse(m) /\ Charge(m)' = Charge(m)
    BY <1>4, SameTreeIs
  <2>5. /\ LeavesOf(m) \subseteq Leaves
        /\ small \in LeavesOf(m) /\ small # large
        /\ TheSides(m) = IF Right(m) = None THEN {"smaller"} ELSE {"smaller", "larger"}
        /\ \A l \in LeavesOf(m) : InPair(m, l) <=> l = small \/ l = large
        /\ \A l \in LeavesOf(m) : InPair(m, l) <=> \E s \in TheSides(m) : LeafOf(m, s) = l
        /\ \A s, t \in TheSides(m) : LeafOf(m, s) = LeafOf(m, t) => s = t
        /\ \A s \in TheSides(m) : LeafOf(m, s) \in LeavesOf(m) /\ InPair(m, LeafOf(m, s))
        /\ Right(m) # None => large \in LeavesOf(m)
    BY <1>1, <2>1, PairIs
  <2>6. /\ round[m] > 0 /\ InUse(m) \in SUBSET Features /\ Charge(m) \subseteq InUse(m)
        /\ \A l : InLeaf(m, l) \in SUBSET Rows
        /\ \A k, l : k # l => InLeaf(m, k) \cap InLeaf(m, l) = {}
    BY <1>1, <2>1, RoundIs DEF PartInv
  <2>7. /\ \A f, S, n : ByCount(f, S, n)' = ByCount(f, S, n)
        /\ \A l : CountIn(m, l)' = CountIn(m, l)
    BY <1>1, SameJob, CountsSame
  <2>8. Aggregated(m) = Charge(m)
    <3>1. DOMAIN got[m] = {<<"smaller", f>> : f \in Charge(m)}
      BY <1>1, <2>1 DEF GotInv
    <3>2. \A x \in DOMAIN got[m] : x[2] \in Charge(m)
      BY <3>1
    <3>3. \A f \in Charge(m) : <<"smaller", f>> \in DOMAIN got[m] /\ <<"smaller", f>>[2] = f
      BY <3>1
    <3> QED BY <3>2, <3>3 DEF Aggregated
  <2>9. /\ \A f \in Charge(m) : hist'[m][small][f] = InLeaf(m, small)
        /\ Right(m) # None => \A f \in Charge(m) : hist'[m][large][f] = Minus(hist[m][large][f], InLeaf(m, small))
        /\ \A l \in Leaves : l # small /\ l # large => hist'[m][l] = hist[m][l]
    <3> DEFINE new == [f \in Features |-> IF f \in Aggregated(m) THEN got[m][<<"smaller", f>>]
                                          ELSE hist[m][small][f]]
    <3>1. hist'[m] = [l \in Leaves |->
             IF l = small THEN new
             ELSE IF l # large THEN hist[m][l]
             ELSE [f \in Features |-> IF f \in Aggregated(m) THEN Minus(hist[m][l][f], new[f])
                                      ELSE hist[m][l][f]]]
      BY <1>3, <2>2 DEF Summed
    <3>2. \A f \in Charge(m) : new[f] = InLeaf(m, small)
      BY <1>1, <2>1, <2>6, <2>8 DEF GotInv
    <3> HIDE DEF new
    <3> QED BY <2>5, <2>6, <2>8, <3>1, <3>2
  <2>10. Right(m) # None => \A f \in Charge(m) : hist'[m][large][f] = InLeaf(m, large)
    <3> SUFFICES ASSUME Right(m) # None, NEW f \in Charge(m) PROVE hist'[m][large][f] = InLeaf(m, large)
      OBVIOUS
    <3>1. hist[m][large][f] = Parent(m)
      BY <1>1, <2>1, <2>2 DEF HistInv, Holds
    <3>2. Parent(m) = InLeaf(m, small) \cup InLeaf(m, large)
      BY <1>1, <2>1 DEF Parent, PairInv
    <3>3. Minus(Parent(m), InLeaf(m, small)) = InLeaf(m, large)
      BY <2>5, <2>6, <3>2 DEF Minus
    <3> QED BY <2>9, <3>1, <3>3
  <2>11. ASSUME NEW l \in LeavesOf(m), InPair(m, l)
         PROVE  Holds(m, l, InLeaf(m, l))' /\ Offers(m, l, Charge(m))'
    <3> DEFINE S == InLeaf(m, l)
               N == CountIn(m, l)
    <3>1. PICK s \in TheSides(m) : LeafOf(m, s) = l
      BY <2>5, <2>11
    <3>2. side(l) = s
      BY <2>5, <3>1
    <3>3. l = small \/ (Right(m) # None /\ l = large)
      BY <2>5, <3>1 DEF SmallerLeaf, LargerLeaf, LeafOf
    <3>4. \A f \in Charge(m) : hist'[m][l][f] = S
      BY <2>9, <2>10, <3>3
    <3>5. Holds(m, l, InLeaf(m, l))'
      BY <1>1, <2>2, <2>4, <3>4 DEF Holds
    <3>6. best'[m][l] = BestOf({NoSplit} \cup {ByCount(f, S, N) : f \in Charge(m)})
      <4>1. pair[m][s].sum = S
        BY <1>1, <2>1, <3>1 DEF PairInv
      <4>2. Judged(m, s) = {<<f, S>> : f \in Charge(m)}
        <5>1. Judged(m, s) = {<<f, hist'[m][LeafOf(m, s)][f]>> : f \in Charge(m)}
          BY <2>2, <2>8 DEF Judged
        <5> QED BY <3>1, <3>4, <5>1
      <4>3. of(s) = {ByCount(f, S, N) : f \in Charge(m)}
        <5>1. \A f : ByCount(f, S, N) = Judge(m, s, <<f, S>>[1], <<f, S>>[2])
          BY <3>1, <4>1 DEF ByCount, Judge
        <5>2. of(s) = {Judge(m, s, j[1], j[2]) : j \in {<<f, S>> : f \in Charge(m)}}
          BY <4>2
        <5> HIDE DEF S, N, of
        <5> QED BY <5>1, <5>2
      <4>4. b[l] = BestOf({NoSplit} \cup of(side(l)))
        BY <2>5, <2>11, <3>1 DEF b
      <4> HIDE DEF of
      <4> QED BY <1>3, <3>2, <4>3, <4>4
    <3>7. /\ best'[m][l].gain > 0 => \E f \in Charge(m) : best'[m][l] = ByCount(f, S, N)
          /\ \A f \in Charge(m) : ~Better(ByCount(f, S, N), best'[m][l])
      <4>1. Charge(m) \in SUBSET Features /\ S \in SUBSET Rows /\ N \in Nat /\ IsJob(job)
        BY <1>2, <2>5, <2>6, CountsAre, TypeParts
      <4> HIDE DEF S, N
      <4> QED BY <3>6, <4>1, BestByCount
    <3>8. Offers(m, l, Charge(m))'
      BY <2>4, <2>6, <2>7, <3>7 DEF Offers
    <3> QED BY <3>5, <3>8
  <2>12. ASSUME NEW l \in LeavesOf(m), ~InPair(m, l)
         PROVE  /\ best'[m][l].gain > 0 => Holds(m, l, InLeaf(m, l))'
                /\ Offers(m, l, InUse(m))'
    <3>1. best'[m][l] = best[m][l]
      BY <1>3, <2>5, <2>12 DEF b
    <3>2. hist'[m][l] = hist[m][l]
      BY <2>5, <2>9, <2>12
    <3>3. \A S : Holds(m, l, S)' <=> Holds(m, l, S)
      BY <1>1, <1>4, <3>2, HoldsStays
    <3>4. \A fs : Offers(m, l, fs)' <=> Offers(m, l, fs)
      BY <1>1, <1>4, <3>1, OffersStays
    <3>5. best[m][l].gain > 0 => Holds(m, l, InLeaf(m, l))
      BY <1>1, <2>1, <2>12 DEF HistInv
    <3>6. Offers(m, l, InUse(m))
      BY <1>1, <2>1, <2>12 DEF BestInv
    <3> QED BY <2>4, <3>1, <3>3, <3>4, <3>5, <3>6
  <2>13. HistInv(m)'
    BY <1>3, <2>4, <2>11, <2>12 DEF HistInv
  <2>14. BestInv(m)'
    BY <1>3, <2>4, <2>11, <2>12 DEF BestInv
  <2> QED BY <1>3, <2>3, <2>13, <2>14 DEF MachineInv, GotInv
<1> QED BY <1>1, <1>4, <1>5, OneKeeps

\* The best split of all machines' is the best by all features.
LEMMA SyncUpGlobalBestSplitSearch ==
  ASSUME IInv, SearchInv, SyncUpGlobalBestSplit
  PROVE  SearchInv'
<1> SUFFICES ASSUME Comparable', NEW m \in Machines' PROVE MachineInv(m)'
  BY DEF SearchInv
<1> DEFINE side(k, l) == CHOOSE s \in TheSides(k) : LeafOf(k, s) = l
           b(k) == [l \in Leaves |-> IF \E s \in TheSides(k) : LeafOf(k, s) = l
                                       THEN Agreed(k, side(k, l)) ELSE best[k][l]]
<1>1. /\ \A k \in Machines : pc[k] = "best"
      /\ pc' = [k \in Machines |-> "split"] /\ best' = [k \in Machines |-> b(k)]
      /\ job' = job /\ round' = round /\ tree' = tree /\ part' = part /\ counts' = counts
      /\ pair' = pair /\ hist' = hist /\ splittable' = splittable /\ used' = used
      /\ layout' = layout /\ got' = got
  BY DEF SyncUpGlobalBestSplit, AllAt, AllGoTo
<1>2. Machines' = Machines /\ m \in Machines /\ Comparable /\ SameTree(m)
  BY <1>1, SameJob DEF SameTree
<1>3. pc[m] = "best" /\ pc'[m] = "split" /\ best'[m] = b(m)
  BY <1>1, <1>2
<1> HIDE DEF b
<1>4. TypeInv /\ IsJob(job) /\ \A k \in Machines : TreeInv(k) /\ best[k] \in [Leaves -> Splits]
  BY <1>2, TypeParts DEF IInv
<1>5. \A k \in Machines : PartInv(k) /\ PairInv(k) /\ CountInv(k) /\ PlanInv(k) /\ HistInv(k) /\ BestInv(k)
  BY <1>2 DEF SearchInv, MachineInv
<1>6. PartInv(m)' /\ PairInv(m)' /\ CountInv(m)' /\ PlanInv(m)'
  BY <1>1, <1>2, <1>3, <1>5, PartStays, PairStays, CountStays, PlanStays
<1>7. /\ LeavesOf(m)' = LeavesOf(m) /\ \A l : InPair(m, l)' <=> InPair(m, l)
      /\ \A l : InLeaf(m, l)' = InLeaf(m, l)
      /\ InUse(m)' = InUse(m)
  BY <1>2, SameTreeIs
<1>8. /\ LeavesOf(m) \subseteq Leaves
      /\ \A l \in LeavesOf(m) : InPair(m, l) <=> \E s \in TheSides(m) : LeafOf(m, s) = l
  BY <1>2, <1>3, <1>5, PairIs
<1>9. /\ round[m] > 0 /\ InUse(m) \in SUBSET Features
      /\ \A l : InLeaf(m, l) \in SUBSET Rows
      /\ (\A k \in Machines : round[k] = round[m]) => \A f \in InUse(m) : \E k \in Machines : f \in Charge(k)
  BY <1>2, <1>3, <1>5, RoundIs DEF PartInv
<1>10. \A k \in Machines :
         /\ round[k] = round[m] /\ InUse(k) = InUse(m) /\ LeavesOf(k) = LeavesOf(m)
         /\ TheSides(k) = TheSides(m) /\ \A s \in Sides : LeafOf(k, s) = LeafOf(m, s)
         /\ \A l : InPair(k, l) <=> InPair(m, l)
         /\ \A l : InLeaf(k, l) = InLeaf(m, l) /\ CountIn(k, l) = CountIn(m, l)
  <2>1. "best" \in Searching \ {"search"}
    BY DEF Searching
  <2> QED BY <1>1, <1>2, <2>1, SameSearch
<1>11. /\ \A f, S, n : ByCount(f, S, n)' = ByCount(f, S, n)
       /\ \A l : CountIn(m, l)' = CountIn(m, l)
  BY <1>1, SameJob, CountsSame
<1>12. ASSUME NEW l \in LeavesOf(m), InPair(m, l)
       PROVE  Offers(m, l, InUse(m))'
  <2> DEFINE S == InLeaf(m, l)
             N == CountIn(m, l)
  <2>1. PICK s \in TheSides(m) : LeafOf(m, s) = l /\ side(m, l) = s
    BY <1>8, <1>12
  <2>2. s \in Sides /\ l \in Leaves
    BY <1>8 DEF TheSides
  <2> DEFINE a == Agreed(m, s)
             ss == {Offered(k, s) : k \in Machines}
  <2>3. best'[m][l] = a
    BY <1>3, <2>1, <2>2 DEF b
  <2>4. a = BestOf(ss)
    <3>1. \A k \in Machines : TreeInv(k) /\ pc[k] # "idle"
      BY <1>1, <1>4
    <3> QED BY <1>2, <1>4, <2>2, <3>1, AgreedIs
  <2>5. \A k \in Machines : Offered(k, s) = best[k][l] /\ best[k][l] \in Splits
    BY <1>4, <1>10, <2>1, <2>2 DEF Offered
  <2>6. ss \in SUBSET Splits /\ ss # {} /\ IsFiniteSet(ss)
    <3>1. IsFiniteSet(Machines)
      BY <1>4, MachinesAre
    <3> DEFINE G == [k \in Machines |-> Offered(k, s)]
    <3>2. G \in Surjection(Machines, ss)
      BY DEF Surjection
    <3>3. IsFiniteSet(ss)
      <4> HIDE DEF G, ss
      <4> QED BY <3>1, <3>2, FS_Surjection
    <3> QED BY <1>2, <2>5, <3>3
  <2>7. a \in ss /\ \A t \in ss : ~Better(t, a)
    <3> HIDE DEF ss, a
    <3> QED BY <2>4, <2>6, BestOfIs
  <2>8. \A k \in Machines : Offers(k, l, Charge(k))
    BY <1>1, <1>5, <1>10, <1>12 DEF BestInv
  <2>9. a.gain > 0 => \E f \in InUse(m) : a = ByCount(f, S, N)
    <3>1. PICK k \in Machines : a = best[k][l]
      BY <2>5, <2>7
    <3>2. best[k][l].gain > 0 => \E f \in InUse(k) : best[k][l] = ByCount(f, InLeaf(k, l), CountIn(k, l))
      BY <2>8 DEF Offers
    <3> HIDE DEF a
    <3> QED BY <1>10, <3>1, <3>2
  <2>10. ASSUME NEW f \in InUse(m), ByCount(f, S, N).gain > 0 PROVE ~Better(ByCount(f, S, N), a)
    <3>1. PICK k \in Machines : f \in Charge(k)
      BY <1>9, <1>10
    <3>2. ~Better(ByCount(f, S, N), best[k][l])
      BY <1>10, <2>8, <2>10, <3>1 DEF Offers
    <3>3. ~Better(best[k][l], a)
      BY <2>5, <2>7
    <3>4. Ranked(ByCount(f, S, N)) /\ Ranked(best[k][l]) /\ Ranked(a)
      <4>1. ByCount(f, S, N) \in Splits
        <5>1. N \in Nat
          BY <1>2, <1>4, <2>2, CountsAre
        <5> HIDE DEF N
        <5> QED BY <1>4, <1>9, <5>1, ByCountIs DEF Splits
      <4>2. a \in Splits
        BY <2>6, <2>7
      <4> HIDE DEF a
      <4> QED BY <2>5, <4>1, <4>2, SplitsAre
    <3> HIDE DEF a, S, N
    <3> QED BY <3>2, <3>3, <3>4, BetterIsAnOrder
  <2> HIDE DEF a
  <2> QED BY <1>7, <1>11, <2>3, <2>9, <2>10 DEF Offers
<1>13. ASSUME NEW l \in LeavesOf(m), ~InPair(m, l)
       PROVE  best'[m][l] = best[m][l] /\ Offers(m, l, InUse(m))'
  <2>1. best'[m][l] = best[m][l]
    BY <1>3, <1>8, <1>13 DEF b
  <2>2. Offers(m, l, InUse(m))
    BY <1>2, <1>3, <1>5, <1>13 DEF BestInv
  <2> QED BY <1>1, <1>2, <1>7, <2>1, <2>2, OffersStays
<1>14. BestInv(m)'
  BY <1>3, <1>7, <1>12, <1>13 DEF BestInv
<1>15. HistInv(m)'
  <2>1. \A l, S : Holds(m, l, S)' <=> Holds(m, l, S)
    BY <1>1, <1>2, HoldsStays
  <2> QED BY <1>2, <1>3, <1>5, <1>7, <1>13, <2>1 DEF HistInv
<1> QED BY <1>3, <1>6, <1>14, <1>15 DEF MachineInv, GotInv

\* The split divides the rows, and their sums, of one leaf; the parent's
\* histograms are at the left child.
LEMMA SplitSearch ==
  ASSUME IInv, SearchInv, NEW m \in Machines, Split(m)
  PROVE  SearchInv'
<1>0. PICK leaf, s, new : leaf = BestLeaf(m) /\ s = best[m][leaf] /\ new = Len(tree[m]) + 1
  OBVIOUS
<1> DEFINE goes == part[m][leaf] \cap job.goLeft[s.feature]
           stays == part[m][leaf] \ job.goLeft[s.feature]
           n == SplitCounts(s, goes, stays)
           l == [leaf |-> leaf, sum |-> s.left]
           r == [leaf |-> new, sum |-> s.right]
           made == [leaf |-> leaf, feature |-> s.feature]
           pr == IF n[1] < n[2] THEN [smaller |-> l, larger |-> r] ELSE [smaller |-> r, larger |-> l]
           at == IF new = NumLeaves - 1 THEN "idle" ELSE "search"
<1>1. /\ pc[m] = "split" /\ s.gain > 0
      /\ tree' = [tree EXCEPT ![m] = Append(@, made)]
      /\ part' = [part EXCEPT ![m][leaf] = goes, ![m][new] = stays]
      /\ counts' = [counts EXCEPT ![m][leaf] = n[1], ![m][new] = n[2]]
      /\ pair' = [pair EXCEPT ![m] = pr] /\ pc' = [pc EXCEPT ![m] = at]
      /\ job' = job /\ round' = round /\ hist' = hist /\ splittable' = splittable
      /\ used' = used /\ layout' = layout /\ got' = got /\ best' = best
  BY <1>0 DEF Split
<1>2. /\ TypeInv /\ TreeInv(m) /\ IsJob(job)
      /\ pc \in [Machines -> Stages] /\ tree \in [Machines -> Seq(Made)]
      /\ part \in [Machines -> [Leaves -> SUBSET Rows]] /\ counts \in [Machines -> [Leaves -> Nat]]
      /\ pair \in [Machines -> [Sides -> LeafSums]]
      /\ best[m] \in [Leaves -> Splits] /\ part[m] \in [Leaves -> SUBSET Rows]
      /\ counts[m] \in [Leaves -> Nat] /\ tree[m] \in Seq(Made)
  BY TypeParts DEF IInv, TypeInv
<1>3. leaf \in Leaves /\ s \in Splits /\ s \in Found /\ s.feature \in Features
  <2>1. leaf = Choice(best[m])
    BY <1>0 DEF BestLeaf, Choice
  <2>2. leaf \in Leaves
    BY <1>2, <2>1, ChoiceIs
  <2>3. s \in Splits
    BY <1>0, <1>2, <2>2
  <2> QED BY <1>1, <2>2, <2>3, SplitsAre
<1>4. /\ Len(tree[m]) \in Nat /\ new \in Leaves /\ new # leaf /\ leaf <= Len(tree[m])
      /\ leaf \in LeavesOf(m) /\ new # None /\ new \in Nat
  <2>1. Len(tree[m]) \in Nat /\ new \in Leaves
    BY <1>0, <1>1, <1>2, LeavesAre
  <2>2. ~(leaf > Len(tree[m]))
    <3>1. leaf > Len(tree[m]) => s.gain <= 0
      BY <1>0, <1>2, <1>3 DEF TreeInv
    <3>2. s.gain \in Int
      BY <1>3, SplitsAre DEF Ranked
    <3> QED BY <1>1, <3>1, <3>2
  <2>3. leaf \in Nat /\ new \in Nat
    BY <1>3, <2>1, ParallelAssumption DEF Leaves
  <2> QED BY <1>0, <2>1, <2>2, <2>3 DEF LeavesOf, None
<1>5. /\ tree'[m] = Append(tree[m], made) /\ pair'[m] = pr /\ pc'[m] = at
      /\ part'[m] = [part[m] EXCEPT ![leaf] = goes, ![new] = stays]
      /\ counts'[m] = [counts[m] EXCEPT ![leaf] = n[1], ![new] = n[2]]
      /\ \A k \in Machines : k # m => /\ tree'[k] = tree[k] /\ pair'[k] = pair[k] /\ pc'[k] = pc[k]
                                      /\ part'[k] = part[k] /\ counts'[k] = counts[k]
  <2> HIDE DEF goes, stays, n, made, pr, at
  <2> QED BY <1>1, <1>2
<1>6. \A k \in Machines : k # m => Untouched(k)
  BY <1>1, <1>5 DEF Untouched, SameTree
<1> HIDE DEF pr, n
<1>7. /\ \A k \in Leaves : part'[m][k] = IF k = leaf THEN goes ELSE IF k = new THEN stays ELSE part[m][k]
      /\ \A k \in Leaves : counts'[m][k] = IF k = leaf THEN n[1] ELSE IF k = new THEN n[2] ELSE counts[m][k]
  <2> HIDE DEF goes, stays
  <2> QED BY <1>2, <1>3, <1>4, <1>5
<1>8. ASSUME Comparable PROVE MachineInv(m)'
  <2>1. PartInv(m) /\ PairInv(m) /\ CountInv(m) /\ PlanInv(m) /\ HistInv(m) /\ BestInv(m)
    BY <1>8 DEF SearchInv, MachineInv
  <2>2. /\ job.mode \in {"feature", "data"} /\ Own(m) \in SUBSET Rows
        /\ job.mode = "feature" => Own(m) = Rows
    BY <1>2, <1>8, OwnIs
  <2>3. /\ round[m] > 0 /\ InUse(m) \in SUBSET Features /\ Charge(m) \subseteq InUse(m)
        /\ \A k : InLeaf(m, k) \in SUBSET Rows
    BY <1>1, <2>1, RoundIs DEF PartInv
  <2>4. /\ \A t, k : RowsOf(t, k)' = RowsOf(t, k)
        /\ \A f, S : ByRows(f, S)' = ByRows(f, S)
        /\ \A f, S, k : ByCount(f, S, k)' = ByCount(f, S, k)
        /\ (ConstantHessian' <=> ConstantHessian)
        /\ \A fs : FeatureDistribution(fs)' = FeatureDistribution(fs)
        /\ \A fs : PrepareBufferPos(fs)' = PrepareBufferPos(fs)
        /\ Own(m)' = Own(m) /\ Everywhere' = Everywhere
    BY <1>1, SameJob
  <2>5. Bag(m)' = Bag(m) /\ InUse(m)' = InUse(m) /\ Charge(m)' = Charge(m)
        /\ PrepareBufferPos(InUse(m))' = PrepareBufferPos(InUse(m))
    BY <1>1, <2>4 DEF Bag, InUse, Charge
  <2> DEFINE S == InLeaf(m, leaf)
             G == job.goLeft[s.feature]
  <2>6. made \in Made
    BY <1>3 DEF Made
  <2>7. /\ InLeaf(m, leaf)' = S \cap G /\ InLeaf(m, new)' = S \ G
        /\ \A k : k # leaf /\ k # new => InLeaf(m, k)' = InLeaf(m, k)
    <3>1. /\ RowsOf(tree'[m], leaf) = RowsOf(tree[m], leaf) \cap G
          /\ RowsOf(tree'[m], new) = RowsOf(tree[m], leaf) \ G
          /\ \A k : k # leaf /\ k # new => RowsOf(tree'[m], k) = RowsOf(tree[m], k)
      <4>1. tree[m] \in Seq(Made) /\ made \in Made /\ leaf <= Len(tree[m]) /\ new = Len(tree[m]) + 1
        BY <1>0, <1>2, <1>4, <2>6
      <4>2. tree'[m] = Append(tree[m], made) /\ made.leaf = leaf /\ made.feature = s.feature
        BY <1>5
      <4> HIDE DEF made
      <4>3. PICK t, w : t \in Seq(Made) /\ t = tree[m] /\ w = tree'[m]
        BY <4>1
      <4>4. /\ w = Append(t, made) /\ made.leaf <= Len(t) /\ new = Len(t) + 1
            /\ t \in Seq(Made) /\ made \in Made
        BY <4>1, <4>2, <4>3
      <4>5. /\ RowsOf(w, made.leaf) = RowsOf(t, made.leaf) \cap job.goLeft[made.feature]
            /\ RowsOf(w, new) = RowsOf(t, made.leaf) \ job.goLeft[made.feature]
            /\ \A k : k # made.leaf /\ k # new => RowsOf(w, k) = RowsOf(t, k)
        BY <4>4, SplitDivides
      <4>6. /\ RowsOf(w, leaf) = RowsOf(t, leaf) \cap G /\ RowsOf(w, new) = RowsOf(t, leaf) \ G
            /\ \A k : k # leaf /\ k # new => RowsOf(w, k) = RowsOf(t, k)
        BY <4>2, <4>5
      <4> QED BY <4>3, <4>6
    <3>2. \A k : InLeaf(m, k)' = RowsOf(tree'[m], k) \cap Bag(m)
      BY <1>1, <2>5 DEF InLeaf, RowsOf, IsPath
    <3> QED BY <3>1, <3>2 DEF InLeaf
  <2>8. PartInv(m)'
    <3>1. \A k \in Leaves : part[m][k] = InLeaf(m, k) \cap Own(m)
      BY <2>1, <2>3 DEF PartInv
    <3>2. goes = (S \cap G) \cap Own(m) /\ stays = (S \ G) \cap Own(m)
      BY <1>3, <3>1
    <3> HIDE DEF goes, stays, S, G
    <3>3. \A k \in Leaves : part'[m][k] = InLeaf(m, k)' \cap Own(m)
      BY <1>4, <1>7, <2>7, <3>1, <3>2
    <3> QED BY <1>1, <2>3, <2>4, <3>3 DEF PartInv
  <2>9. /\ s.left = S \cap G /\ s.right = S \ G
        /\ s = ByCount(s.feature, S, CountIn(m, leaf))
    <3>1. Offers(m, leaf, InUse(m))
      BY <1>1, <1>4, <2>1 DEF BestInv
    <3>2. PICK f \in InUse(m) : s = ByCount(f, S, CountIn(m, leaf))
      BY <1>0, <1>1, <3>1 DEF Offers
    <3>3. CountIn(m, leaf) \in Nat
      BY <1>2, <1>3, CountsAre
    <3>4. ByCount(f, S, CountIn(m, leaf)).feature = f
          /\ (ByCount(f, S, CountIn(m, leaf)).gain > 0 =>
                /\ ByCount(f, S, CountIn(m, leaf)).left = S \cap job.goLeft[f]
                /\ ByCount(f, S, CountIn(m, leaf)).right = S \ job.goLeft[f])
      <4>1. PICK T, k : T = S /\ k = CountIn(m, leaf)
        OBVIOUS
      <4>2. f \in Features /\ T \in SUBSET Rows /\ k \in Nat /\ IsJob(job)
        BY <1>2, <2>3, <3>3, <4>1
      <4> HIDE DEF S
      <4>3. ByCount(f, T, k).feature = f
            /\ (ByCount(f, T, k).gain > 0 => /\ ByCount(f, T, k).left = T \cap job.goLeft[f]
                                             /\ ByCount(f, T, k).right = T \ job.goLeft[f])
        <5>1. ByCount(f, T, k).feature = f
              /\ (ByCount(f, T, k).gain > 0 => Divides(ByCount(f, T, k), f, T))
          BY <4>2, ByCountIs
        <5> QED BY <5>1 DEF Divides
      <4> QED BY <4>1, <4>3
    <3>5. s.feature = f /\ s.gain > 0 /\ s = ByCount(f, S, CountIn(m, leaf))
      BY <1>1, <3>2, <3>4
    <3> DEFINE found == ByCount(f, S, CountIn(m, leaf))
    <3>6. s = found /\ found.left = S \cap job.goLeft[f] /\ found.right = S \ job.goLeft[f]
      BY <3>4, <3>5
    <3> HIDE DEF S, found
    <3> QED BY <3>5, <3>6 DEF found
  <2>10. ConstantHessian => n[1] = Cardinality(S \cap G) /\ n[2] = Cardinality(S \ G)
    <3>1. CASE job.mode = "feature"
      <4>1. part[m][leaf] = S
        BY <1>3, <2>1, <2>2, <2>3, <3>1 DEF PartInv
      <4> QED BY <3>1, <4>1 DEF n, SplitCounts
    <3>2. CASE job.mode = "data" /\ ConstantHessian
      <4>1. n = <<s.left_count, s.right_count>>
        BY <3>2 DEF n, SplitCounts
      <4>2. CountIn(m, leaf) = Cardinality(S)
        BY <1>1, <1>4, <2>1, <3>2 DEF CountInv
      <4>3. s = ByRows(s.feature, S)
        BY <2>9, <4>2 DEF ByRows
      <4>4. /\ s.left_count = Cardinality(S \cap G)
            /\ s.right_count = Cardinality(S \ G)
        BY <1>1, <1>2, <1>3, <2>3, <3>2, <4>3, ByRowsIs
      <4> QED BY <4>1, <4>4
    <3> QED BY <2>2, <3>1, <3>2
  <2>11. /\ CountIn(m, leaf)' = n[1] /\ CountIn(m, new)' = n[2]
         /\ \A k \in Leaves : k # leaf /\ k # new => CountIn(m, k)' = CountIn(m, k)
    <3>1. \A k \in Leaves : k # None
      BY ParallelAssumption DEF Leaves, None
    <3>2. CASE job.mode = "feature"
      <4>1. n[1] = Cardinality(goes) /\ n[2] = Cardinality(stays)
        BY <3>2 DEF n, SplitCounts
      <4>2. \A k \in Leaves : CountIn(m, k)' = Cardinality(part'[m][k]) /\ CountIn(m, k) = Cardinality(part[m][k])
        BY <1>1, <3>1, <3>2 DEF CountIn
      <4> HIDE DEF goes, stays, S, G
      <4> QED BY <1>3, <1>4, <1>7, <4>1, <4>2, ZenonT(30)
    <3>3. CASE job.mode = "data"
      <4>1. \A k \in Leaves : CountIn(m, k)' = counts'[m][k] /\ CountIn(m, k) = counts[m][k]
        BY <1>1, <3>1, <3>3 DEF CountIn
      <4> QED BY <1>3, <1>4, <1>7, <4>1
    <3> QED BY <2>2, <3>2, <3>3
  <2>12. /\ Left(m)' = leaf /\ Right(m)' = new
         /\ LeavesOf(m)' = LeavesOf(m) \cup {new}
         /\ \A k : InPair(m, k)' <=> k = leaf \/ k = new
    <3>1. /\ Len(tree'[m]) = new /\ tree'[m] # <<>> /\ tree'[m][new] = made
      <4>1. tree[m] \in Seq(Made) /\ new = Len(tree[m]) + 1
        BY <1>0, <1>2
      <4>2. tree'[m] = Append(tree[m], made)
        BY <1>5
      <4> HIDE DEF made
      <4>3. /\ Len(Append(tree[m], made)) = new /\ Append(tree[m], made)[new] = made
            /\ Append(tree[m], made) # <<>>
        BY <2>6, <4>1
      <4> QED BY <4>2, <4>3
    <3>2. Left(m)' = leaf /\ Right(m)' = new
      BY <1>5, <3>1 DEF Left, Right, Last
    <3>3. LeavesOf(m)' = LeavesOf(m) \cup {new}
      BY <1>0, <1>4, <3>1 DEF LeavesOf
    <3> QED BY <3>2, <3>3 DEF InPair
  <2>13. PairInv(m)'
    <3>1. pr = IF n[1] < n[2] THEN [smaller |-> l, larger |-> r] ELSE [smaller |-> r, larger |-> l]
      BY DEF pr
    <3>2. l.leaf = leaf /\ l.sum = S \cap G /\ r.leaf = new /\ r.sum = S \ G
      BY <2>9
    <3> HIDE DEF l, r, S, G
    <3>3. /\ SmallerLeaf(m)' = IF n[1] < n[2] THEN leaf ELSE new
          /\ LargerLeaf(m)' = IF n[1] < n[2] THEN new ELSE leaf
          /\ \A t \in Sides : LeafOf(m, t)' \in {leaf, new}
                              /\ pair'[m][t].sum = IF LeafOf(m, t)' = leaf THEN S \cap G ELSE S \ G
      <4>1. pair'[m] = pr /\ leaf # new
        BY <1>4, <1>5
      <4>2. CASE n[1] < n[2]
        <5>1. pr.smaller = l /\ pr.larger = r /\ pr["smaller"] = l /\ pr["larger"] = r
          BY <3>1, <4>2
        <5> QED BY <3>2, <4>1, <4>2, <5>1 DEF SmallerLeaf, LargerLeaf, LeafOf, Sides
      <4>3. CASE ~(n[1] < n[2])
        <5>1. pr.smaller = r /\ pr.larger = l /\ pr["smaller"] = r /\ pr["larger"] = l
          BY <3>1, <4>3
        <5> QED BY <3>2, <4>1, <4>3, <5>1 DEF SmallerLeaf, LargerLeaf, LeafOf, Sides
      <4> QED BY <4>2, <4>3
    <3>4. \A t \in Sides : \E k : k = LeafOf(m, t)' /\ pair'[m][t].sum = InLeaf(m, k)'
      <4> SUFFICES ASSUME NEW t \in Sides
                   PROVE  \E k : k = LeafOf(m, t)' /\ pair'[m][t].sum = InLeaf(m, k)'
        OBVIOUS
      <4>1. PICK k : k = LeafOf(m, t)'
        OBVIOUS
      <4>2. k \in {leaf, new} /\ pair'[m][t].sum = IF k = leaf THEN S \cap G ELSE S \ G
        BY <3>3, <4>1
      <4>3. pair'[m][t].sum = InLeaf(m, k)'
        BY <1>4, <2>7, <4>2 DEF S, G
      <4> QED BY <4>1, <4>3
    <3>5. (\A t \in Sides : pair[m][t].sum = InLeaf(m, LeafOf(m, t)))'
      BY <3>4
    <3>6. TheSides(m)' \subseteq Sides /\ pc'[m] # "sum"
      BY <1>5 DEF TheSides
    <3> QED BY <1>4, <2>11, <2>12, <3>3, <3>5, <3>6 DEF PairInv
  <2>14. CountInv(m)'
    <3> SUFFICES ASSUME ConstantHessian
                 PROVE  \A k \in LeavesOf(m)' : CountIn(m, k)' = Cardinality(InLeaf(m, k)')
      BY <2>4 DEF CountInv
    <3>1. \A k \in LeavesOf(m) : CountIn(m, k) = Cardinality(InLeaf(m, k)) /\ k \in Leaves
      BY <1>1, <2>1, PairIs DEF CountInv
    <3> HIDE DEF S, G
    <3>2. \A k \in LeavesOf(m) \cup {new} : CountIn(m, k)' = Cardinality(InLeaf(m, k)')
      BY <2>7, <2>10, <2>11, <3>1 DEF S, G
    <3> QED BY <2>12, <3>2
  <2>15. PlanInv(m)'
    <3>1. pc'[m] # "idle" => pc'[m] = "search"
      BY <1>5
    <3> QED BY <1>1, <2>1, <2>5, <3>1 DEF PlanInv
  <2>16. /\ Holds(m, leaf, S)
         /\ \A k \in LeavesOf(m) : best[m][k].gain > 0 => Holds(m, k, InLeaf(m, k))
         /\ \A k \in LeavesOf(m) : Offers(m, k, InUse(m))
    <3>1. \A k \in LeavesOf(m) : best[m][k].gain > 0 => Holds(m, k, InLeaf(m, k))
      BY <1>1, <2>1 DEF HistInv
    <3>2. \A k \in LeavesOf(m) : Offers(m, k, InUse(m))
      BY <1>1, <2>1 DEF BestInv
    <3> QED BY <1>0, <1>1, <1>4, <3>1, <3>2
  <2>17. \A k, T : Holds(m, k, T)' <=> Holds(m, k, T)
    BY <1>1, <2>4, <2>5 DEF Holds
  <2>18. HistInv(m)'
    <3>1. Parent(m)' = S
      BY <2>7, <2>12 DEF Parent
    <3>2. ASSUME NEW k \in LeavesOf(m)', ~InPair(m, k)', best'[m][k].gain > 0
          PROVE  Holds(m, k, InLeaf(m, k))'
      <4>1. k \in LeavesOf(m) /\ best[m][k].gain > 0 /\ InLeaf(m, k)' = InLeaf(m, k)
        BY <1>1, <2>7, <2>12, <3>2
      <4> QED BY <2>16, <2>17, <4>1
    <3>3. Holds(m, Left(m), Parent(m))'
      BY <2>12, <2>16, <2>17, <3>1
    <3>4. pc'[m] \in {"idle", "search"}
      BY <1>5
    <3> QED BY <3>2, <3>3, <3>4 DEF HistInv
  <2>19. BestInv(m)'
    <3>1. ASSUME NEW k \in LeavesOf(m)', ~InPair(m, k)'
          PROVE  Offers(m, k, InUse(m))'
      <4>1. /\ k \in LeavesOf(m) /\ best'[m][k] = best[m][k] /\ InLeaf(m, k)' = InLeaf(m, k)
            /\ k # leaf /\ k # new
        BY <1>1, <2>7, <2>12, <3>1
      <4>2. Offers(m, k, InUse(m))
        BY <2>16, <4>1
      <4>3. CountIn(m, k)' = CountIn(m, k)
        <5>1. LeavesOf(m) \subseteq Leaves
          BY <1>1, <2>1, PairIs
        <5> QED BY <2>11, <4>1, <5>1
      <4> QED BY <2>4, <2>5, <4>1, <4>2, <4>3 DEF Offers
    <3>2. pc'[m] \in {"idle", "search"}
      BY <1>5
    <3> QED BY <3>1, <3>2 DEF BestInv
  <2>20. GotInv(m)'
    BY <1>5 DEF GotInv
  <2> QED BY <2>8, <2>13, <2>14, <2>15, <2>18, <2>19, <2>20 DEF MachineInv
<1> QED BY <1>1, <1>6, <1>8, OneKeeps

-----------------------------------------------------------------------------
(* Every step keeps the invariant of the search *)

\* Steps of voting parallel, which the invariant says nothing about.
LEMMA VotingKeeps ==
  ASSUME job' = job, job.mode = "voting"
  PROVE  SearchInv'
BY DEF SearchInv, Comparable

\* Only voting parallel copies what was voted for.
LEMMA CopyVotedSearch ==
  ASSUME IInv, NEW m \in Machines, CopyVoted(m)
  PROVE  SearchInv'
<1>1. pc[m] = "copy" /\ job' = job
  BY DEF CopyVoted
<1>2. job.mode = "voting"
  BY <1>1 DEF IInv, ExchangeInv
<1> QED BY <1>1, <1>2, VotingKeeps

\* Only voting parallel gathers votes.
LEMMA AllgatherVotesSearch ==
  ASSUME IInv, AllgatherVotes
  PROVE  SearchInv'
<1>1. job' = job /\ \A m \in Machines : pc[m] = "gather"
  BY DEF AllgatherVotes, AllAt
<1>2. PICK m : m \in Machines
  <2>1. IsJob(job)
    BY ParallelAssumption DEF IInv, TypeInv
  <2> QED BY <2>1, MachinesAre
<1>3. job.mode = "voting"
  BY <1>1, <1>2 DEF IInv, ExchangeInv
<1> QED BY <1>1, <1>3, VotingKeeps

\* Waiting changes nothing.
LEMMA StutterSearch ==
  ASSUME SearchInv, UNCHANGED vars
  PROVE  SearchInv'
<1>1. job' = job /\ Machines' = Machines /\ (Comparable' <=> Comparable)
  BY SameJob DEF vars
<1>2. \A m \in Machines : Untouched(m)
  BY DEF vars, Untouched, SameTree
<1>3. ASSUME Comparable, NEW m \in Machines PROVE MachineInv(m)'
  BY <1>2, <1>3, UntouchedKeeps DEF SearchInv
<1> QED BY <1>1, <1>3 DEF SearchInv

\* What feature and data parallel know between two steps they know throughout:
\* rows by path, counts and histograms by rows, and the best splits by features
\* in charge and by all features.
THEOREM SearchSound == Spec => []SearchInv
<1>1. IInv /\ SearchInv /\ [Next]_vars => SearchInv'
  <2> SUFFICES ASSUME IInv, SearchInv, [Next]_vars PROVE SearchInv'
    OBVIOUS
  <2>1. ASSUME NEW m \in Machines, Step(m) PROVE SearchInv'
    <3>1. CASE BeforeTrain(m)
      BY <3>1, BeforeTrainSearch
    <3>2. CASE SkipSearch(m)
      BY <3>2, SkipSearchSearch
    <3>3. CASE FindBestSplits(m)
      BY <3>3, FindBestSplitsSearch
    <3>4. CASE FindBestOfOwnFeatures(m)
      BY <3>4, FindBestOfOwnFeaturesSearch
    <3>5. CASE FindLocalVotes(m)
      BY <3>5, VotingKeeps DEF FindLocalVotes
    <3>6. CASE CopyVoted(m)
      BY <3>6, CopyVotedSearch
    <3>7. CASE FindBestSplitsFromHistograms(m)
      BY <3>7, FindBestSplitsFromHistogramsSearch
    <3>8. CASE Finish(m)
      BY <3>8, FinishSearch
    <3>9. CASE Split(m)
      BY <3>9, SplitSearch
    <3> QED BY <2>1, <3>1, <3>2, <3>3, <3>4, <3>5, <3>6, <3>7, <3>8, <3>9 DEF Step
  <2>2. CASE AllreduceRoot
    BY <2>2, AllreduceRootSearch
  <2>3. CASE AllgatherVotes
    BY <2>3, AllgatherVotesSearch
  <2>4. CASE ReduceScatter
    BY <2>4, ReduceScatterSearch
  <2>5. CASE SyncUpGlobalBestSplit
    BY <2>5, SyncUpGlobalBestSplitSearch
  <2>6. CASE Terminating
    BY <2>6, StutterSearch DEF Terminating
  <2>7. CASE UNCHANGED vars
    BY <2>7, StutterSearch
  <2> QED BY <2>1, <2>2, <2>3, <2>4, <2>5, <2>6, <2>7 DEF Next
<1>2. Init => SearchInv
  BY StartSearch
<1> QED BY <1>1, <1>2, Inductive, PTL DEF Spec

-----------------------------------------------------------------------------
(* What one machine with all rows would find *)

\* When all have grown the same tree, a leaf's rows on one machine and the rest
\* of them elsewhere are all rows of the leaf.
LEMMA AllRowsAre ==
  ASSUME IInv, SearchInv, MachinesAgree, Aligned, Comparable,
         NEW m \in Machines, pc[m] # "idle", NEW l \in LeavesOf(m)
  PROVE  l \in Leaves /\ AllRows(l) = InLeaf(m, l)
<1>1. IsJob(job)
  BY ParallelAssumption DEF IInv, TypeInv
<1>2. \A k \in Machines : PartInv(k)
  BY DEF SearchInv, MachineInv
<1>3. round[m] > 0 /\ PairInv(m)
  BY <1>2 DEF PartInv, SearchInv, MachineInv
<1>4. l \in Leaves
  BY <1>3, PairIs
<1>5. ASSUME NEW k \in Machines PROVE part[k][l] = InLeaf(m, l) \cap Own(k)
  <2>1. round[k] = round[m] /\ Len(tree[k]) = Len(tree[m])
    BY DEF Aligned
  <2>2. tree[k] \in Seq(Made) /\ tree[m] \in Seq(Made)
    BY TypeParts DEF IInv
  <2>3. IsPrefix(tree[m], tree[k]) \/ IsPrefix(tree[k], tree[m])
    BY <2>1 DEF MachinesAgree
  <2>4. tree[k] = tree[m]
    BY <2>1, <2>2, <2>3 DEF IsPrefix
  <2>5. InLeaf(k, l) = InLeaf(m, l)
    BY <2>1, <2>4 DEF InLeaf, Bag
  <2> QED BY <1>2, <1>3, <1>4, <2>1, <2>5 DEF PartInv
<1>6. Everywhere = UNION {Own(k) : k \in Machines}
  BY <1>1, OwnIs
<1>7. InLeaf(m, l) \subseteq Everywhere
  BY <1>3, RoundIs
<1>8. AllRows(l) = UNION {InLeaf(m, l) \cap Own(k) : k \in Machines}
  BY <1>5 DEF AllRows
<1> QED BY <1>4, <1>6, <1>7, <1>8

\* Machines with the same splits made have the same counts, in feature parallel
\* the same rows.
LEMMA SizesAlike ==
  ASSUME IInv, Aligned, NEW m \in Machines, NEW n \in Machines
  PROVE  IF job.mode = "feature" THEN part[m] = part[n] ELSE counts[m] = counts[n]
<1> DEFINE sizes(k) == IF job.mode = "feature" THEN part[k] ELSE counts[k]
<1>1. TypeInv /\ RunInv /\ IsJob(job)
  BY TypeParts DEF IInv
<1>2. round[m] = round[n] /\ Len(tree[m]) = Len(tree[n])
  BY DEF Aligned
<1>3. ASSUME NEW k \in Machines
      PROVE  /\ View(k) \in Views(job) /\ View(k).round = round[k] /\ View(k).tree = tree[k]
             /\ View(k).sizes = sizes(k)
  <2>1. Known(k) \in Views(job) /\ View(k) \in Views(job)
        /\ View(k).round = round[k] /\ View(k).tree = tree[k]
    BY <1>1, ViewIs
  <2>2. View(k).sizes = Known(k).sizes
    BY <2>1, MaskedIs DEF View
  <2> QED BY <2>1, <2>2 DEF Known
<1> HIDE DEF sizes
<1>4. sizes(m) = sizes(n)
  <2>1. CASE Reaches(job, View(m), View(n))
    BY <1>1, <1>2, <1>3, <2>1, ReachedSizes
  <2>2. CASE Reaches(job, View(n), View(m))
    BY <1>1, <1>2, <1>3, <2>2, ReachedSizes
  <2> QED BY <1>1, <2>1, <2>2 DEF RunInv
<1> QED BY <1>4 DEF sizes

\* All machines decide by the same counts of rows, whatever they are worth; with
\* constant hessians, and where a machine has all rows, they are exact.
THEOREM GlobalCounts == Spec => []CountsAreGlobal
<1>1. IInv /\ SearchInv /\ MachinesAgree => CountsAreGlobal
  <2> SUFFICES ASSUME IInv, SearchInv, MachinesAgree, Aligned,
                      NEW m \in Machines, pc[m] \notin {"idle", "sum"}, NEW l \in LeavesOf(m)
               PROVE  /\ \A n \in Machines : CountIn(n, l) = CountIn(m, l)
                      /\ job.mode = "feature" \/ (job.mode = "data" /\ ConstantHessian) =>
                           CountIn(m, l) = Cardinality(AllRows(l))
    BY DEF CountsAreGlobal
  <2>1. \A n \in Machines : CountIn(n, l) = CountIn(m, l)
    BY SizesAlike DEF CountIn
  <2>2. CASE job.mode = "feature"
    <3>1. l # None
      BY DEF LeavesOf, None
    <3>2. \A n \in Machines : part[n][l] = part[m][l]
      BY <2>2, SizesAlike
    <3>3. AllRows(l) = part[m][l]
      BY <3>2 DEF AllRows
    <3> QED BY <2>1, <2>2, <3>1, <3>3 DEF CountIn
  <2>3. CASE job.mode = "data" /\ ConstantHessian
    <3>1. Comparable
      BY <2>3 DEF Comparable
    <3>2. CountIn(m, l) = Cardinality(InLeaf(m, l))
      BY <2>3, <3>1 DEF SearchInv, MachineInv, CountInv
    <3>3. AllRows(l) = InLeaf(m, l)
      BY <3>1, AllRowsAre
    <3> QED BY <2>1, <3>2, <3>3
  <2> QED BY <2>1, <2>2, <2>3
<1> QED BY <1>1, Inductive, SearchSound, Agreement, PTL

\* Before each split, the best split of every leaf is the one a single machine
\* with all rows and all features would choose by the counts kept.
THEOREM BestOfAll == Spec => []FindsBestOfAll
<1>1. IInv /\ SearchInv /\ MachinesAgree => FindsBestOfAll
  <2> SUFFICES ASSUME IInv, SearchInv, MachinesAgree, Aligned, Comparable,
                      NEW m \in Machines, pc[m] = "split", NEW l \in LeavesOf(m)
               PROVE  IF SerialBest(m, l).gain > 0 THEN best[m][l] = SerialBest(m, l)
                      ELSE best[m][l].gain <= 0
    BY DEF FindsBestOfAll, Comparable
  <2> DEFINE S == InLeaf(m, l)
             N == CountIn(m, l)
             b == best[m][l]
             c == BestOf({NoSplit} \cup {ByCount(f, S, N) : f \in InUse(m)})
  <2>1. l \in Leaves /\ AllRows(l) = S
    BY AllRowsAre
  <2>2. PartInv(m) /\ BestInv(m)
    BY DEF SearchInv, MachineInv
  <2>3. InUse(m) \in SUBSET Features /\ S \in SUBSET Rows
    <3>1. round[m] > 0
      BY <2>2 DEF PartInv
    <3> QED BY <3>1, RoundIs
  <2>12. N \in Nat /\ IsJob(job)
    BY <2>1, CountsAre, TypeParts DEF IInv
  <2>13. \A f \in InUse(m) : ByCount(f, S, N).feature = f
    <3>1. PICK T, k : T = S /\ k = N
      OBVIOUS
    <3>2. \A f \in InUse(m) : f \in Features /\ T \in SUBSET Rows /\ k \in Nat
      BY <2>3, <2>12, <3>1
    <3> HIDE DEF S, N
    <3>3. \A f \in InUse(m) : ByCount(f, T, k).feature = f
      BY <2>12, <3>2, ByCountIs
    <3> QED BY <3>1, <3>3
  <2>4. SerialBest(m, l) = c
    BY <2>1 DEF SerialBest, ByCount, InUse
  <2>5. Offers(m, l, InUse(m))
    BY <2>2 DEF BestInv
  <2> HIDE DEF S, N
  <2>6. /\ b.gain > 0 => \E f \in InUse(m) : b = ByCount(f, S, N)
        /\ \A f \in InUse(m) : ByCount(f, S, N).gain > 0 => ~Better(ByCount(f, S, N), b)
    BY <2>5 DEF Offers, S, N
  <2>7. /\ c.gain > 0 => \E f \in InUse(m) : c = ByCount(f, S, N)
        /\ \A f \in InUse(m) : ~Better(ByCount(f, S, N), c)
        /\ ~Better(NoSplit, c) /\ c \in Splits
    BY <2>3, <2>12, BestByCount
  <2>8. b \in Splits
    BY <2>1, TypeParts DEF IInv
  <2> HIDE DEF b, c
  <2>9. Ranked(b) /\ Ranked(c) /\ b.gain \in Int /\ c.gain \in Int
    BY <2>7, <2>8, SplitsAre DEF Ranked
  <2>10. CASE c.gain > 0
    <3>1. PICK f \in InUse(m) : c = ByCount(f, S, N)
      BY <2>7, <2>10
    <3>2. ~Better(c, b)
      BY <2>6, <2>10, <3>1
    <3>3. b.gain > 0
      BY <2>9, <2>10, <3>2 DEF Better
    <3>4. PICK g \in InUse(m) : b = ByCount(g, S, N)
      BY <2>6, <3>3
    <3>5. ~Better(b, c)
      BY <2>7, <3>4
    <3>6. b.feature = c.feature
      BY <2>9, <3>2, <3>5, BetterIsAnOrder
    <3>7. b.feature = g /\ c.feature = f
      BY <2>13, <3>1, <3>4
    <3>8. b = c
      BY <3>1, <3>4, <3>6, <3>7
    <3> QED BY <2>4, <2>10, <3>8 DEF b
  <2>11. CASE ~(c.gain > 0)
    <3>1. ~(b.gain > 0)
      <4> SUFFICES ASSUME b.gain > 0 PROVE FALSE
        OBVIOUS
      <4>1. ~Better(b, c)
        BY <2>6, <2>7
      <4> QED BY <2>9, <2>11, <4>1 DEF Better
    <3> QED BY <2>4, <2>9, <2>11, <3>1 DEF b
  <2> QED BY <2>10, <2>11
<1> QED BY <1>1, Inductive, SearchSound, Agreement, PTL

=============================================================================
