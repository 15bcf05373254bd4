---------------------- MODULE SerialTreeLearnerProofs ----------------------
(***************************************************************************)
(* Proofs about the tree learner, for every number of leaves and arrays,   *)
(* every data set and every configuration.                                 *)
(***************************************************************************)
EXTENDS SerialTreeLearner, FiniteSetTheorems, TLAPS

\* What is proved of a pool of bounded size and of one with an array per leaf.
B == INSTANCE HistogramPoolProofs WITH TotalSize <- NumLeaves, MaxTime <- 0
F == INSTANCE HistogramPoolProofs WITH TotalSize <- NumLeaves, CacheSize <- NumLeaves,
                                       MaxTime <- 0

LEMMA PoolAssumptions == B!PoolAssumption /\ F!PoolAssumption
BY LearnerAssumption DEF B!PoolAssumption, F!PoolAssumption

\* They are about the pools the learner uses.
LEMMA SameBounded ==
  /\ \A p, i : /\ Bounded!Hit(p, i) = B!Hit(p, i)
               /\ Bounded!ArrayOf(p, i) = B!ArrayOf(p, i)
               /\ Bounded!Got(p, i) = B!Got(p, i)
  /\ \A p, i, j : Bounded!Moved(p, i, j) = B!Moved(p, i, j)
  /\ \A p : Bounded!ResetMap(p) = B!ResetMap(p)
  /\ Bounded!FreshPool = B!FreshPool /\ Bounded!PoolState = B!PoolState
  /\ Bounded!Slots = B!Slots /\ Leaves = B!Indexes /\ None = B!None
<1>1. /\ Bounded!IsEnough = B!IsEnough /\ Bounded!Slots = B!Slots
      /\ Bounded!Indexes = B!Indexes /\ Bounded!None = B!None
      /\ Leaves = B!Indexes /\ None = B!None
  BY DEF Bounded!IsEnough, B!IsEnough, Bounded!Slots, B!Slots, Bounded!Indexes, B!Indexes,
         Bounded!None, B!None, Leaves, None
<1>2. ASSUME NEW p PROVE Bounded!LeastUsed(p) = B!LeastUsed(p)
  BY <1>1, Zenon DEF Bounded!LeastUsed, B!LeastUsed
<1>3. ASSUME NEW p, NEW i PROVE Bounded!Hit(p, i) = B!Hit(p, i)
  BY <1>1, Zenon DEF Bounded!Hit, B!Hit
<1>4. ASSUME NEW p, NEW i PROVE Bounded!ArrayOf(p, i) = B!ArrayOf(p, i)
  BY <1>1, <1>2, Zenon DEF Bounded!ArrayOf, B!ArrayOf, Bounded!SlotOf, B!SlotOf
<1>5. ASSUME NEW p, NEW i PROVE Bounded!Got(p, i) = B!Got(p, i)
  BY <1>1, <1>2, <1>3, Zenon DEF Bounded!Got, B!Got, Bounded!Touch, B!Touch, Bounded!Evict, B!Evict
<1>6. ASSUME NEW p, NEW i, NEW j PROVE Bounded!Moved(p, i, j) = B!Moved(p, i, j)
  BY <1>1, Zenon DEF Bounded!Moved, B!Moved, Bounded!Touch, B!Touch
<1>7. /\ Bounded!FreshPool = B!FreshPool
      /\ \A p : Bounded!ResetMap(p) = B!ResetMap(p)
  BY <1>1, Zenon DEF Bounded!FreshPool, B!FreshPool, Bounded!ResetMap, B!ResetMap
<1>8. Bounded!PoolState = B!PoolState
  BY <1>1, Zenon DEF Bounded!PoolState, B!PoolState
<1> QED
  BY <1>1, <1>3, <1>4, <1>5, <1>6, <1>7, <1>8, Zenon

LEMMA SameFull ==
  /\ \A p, i : /\ Full!Hit(p, i) = F!Hit(p, i)
               /\ Full!ArrayOf(p, i) = F!ArrayOf(p, i)
               /\ Full!Got(p, i) = F!Got(p, i)
  /\ \A p, i, j : Full!Moved(p, i, j) = F!Moved(p, i, j)
  /\ \A p : Full!ResetMap(p) = F!ResetMap(p)
  /\ Full!FreshPool = F!FreshPool /\ Full!PoolState = F!PoolState
  /\ Full!Slots = F!Slots /\ Leaves = F!Indexes /\ None = F!None
<1>1. /\ Full!IsEnough = F!IsEnough /\ Full!Slots = F!Slots
      /\ Full!Indexes = F!Indexes /\ Full!None = F!None
      /\ Leaves = F!Indexes /\ None = F!None
  BY DEF Full!IsEnough, F!IsEnough, Full!Slots, F!Slots, Full!Indexes, F!Indexes,
         Full!None, F!None, Leaves, None, Bounded!Indexes, Bounded!None
<1>2. ASSUME NEW p PROVE Full!LeastUsed(p) = F!LeastUsed(p)
  BY <1>1, Zenon DEF Full!LeastUsed, F!LeastUsed
<1>3. ASSUME NEW p, NEW i PROVE Full!Hit(p, i) = F!Hit(p, i)
  BY <1>1, Zenon DEF Full!Hit, F!Hit
<1>4. ASSUME NEW p, NEW i PROVE Full!ArrayOf(p, i) = F!ArrayOf(p, i)
  BY <1>1, <1>2, Zenon DEF Full!ArrayOf, F!ArrayOf, Full!SlotOf, F!SlotOf
<1>5. ASSUME NEW p, NEW i PROVE Full!Got(p, i) = F!Got(p, i)
  BY <1>1, <1>2, <1>3, Zenon DEF Full!Got, F!Got, Full!Touch, F!Touch, Full!Evict, F!Evict
<1>6. ASSUME NEW p, NEW i, NEW j PROVE Full!Moved(p, i, j) = F!Moved(p, i, j)
  BY <1>1, Zenon DEF Full!Moved, F!Moved, Full!Touch, F!Touch
<1>7. /\ Full!FreshPool = F!FreshPool
      /\ \A p : Full!ResetMap(p) = F!ResetMap(p)
  BY <1>1, Zenon DEF Full!FreshPool, F!FreshPool, Full!ResetMap, F!ResetMap
<1>8. Full!PoolState = F!PoolState
  BY <1>1, Zenon DEF Full!PoolState, F!PoolState
<1> QED
  BY <1>1, <1>3, <1>4, <1>5, <1>6, <1>7, <1>8, Zenon

-----------------------------------------------------------------------------
(***************************************************************************)
(* The inductive invariant.                                                *)
(***************************************************************************)
PoolInv(p) == IF IsEnough THEN F!PoolInv(p) ELSE B!PoolInv(p)

Growing == pc \in {"search", "split", "recompute"}
\* A pair of leaves has been made and not yet searched.
Fresh == pc \in {"search", "recompute"}

\* The leaves of the tree are the first ones; left is the leaf that was split
\* and right the newest one.
TreeInv ==
  /\ config \in Configs
  /\ pc # "overrun" => numLeaves <= NumLeaves
  /\ \A l \in Leaves : depth[l] = 0 \/ depth[l] < numLeaves
  /\ \A l \in Leaves : best[l] => l < numLeaves
  /\ \A l \in forceSplitMap : l < numLeaves
  /\ Growing => /\ numLeaves >= 1 /\ left \in Leaves /\ left < numLeaves
                /\ right # None => right \in Leaves /\ left < right /\ right = numLeaves - 1
                /\ right = None => numLeaves = 1 /\ forcedAt.right = Nil

\* The two leaves that come next: which is the smaller one, how deep they are.
PairInv ==
  Fresh =>
    /\ right = None => smaller.leaf = left /\ larger.leaf = None
    /\ right # None =>
         /\ depth[right] = depth[left]
         /\ leafRows[left] \cap leafRows[right] = {}
         /\ Count(left) < Count(right) => smaller.leaf = left /\ larger.leaf = right
         /\ ~(Count(left) < Count(right)) => smaller.leaf = right /\ larger.leaf = left

\* Only the constraints ask for leaves again, never for the two new ones.
PendingInv ==
  /\ pc = "recompute" => config.intermediate
  /\ pc = "recompute" => \A l \in pending : best[l] /\ l \notin {left, right}

\* A leaf that does not exist yet, or has just been made, has no slot.
MapInv ==
  ~IsEnough => \A l \in Leaves : l >= numLeaves \/ (Fresh /\ l = right) => hp.mapper[l] = None

LearnerInv == TypeOK /\ PoolInv(hp) /\ TreeInv /\ PairInv /\ PendingInv /\ MapInv

Wanted == treeFeatures \cup (IF Forcing THEN ForceFeatures ELSE {})

\* The array of leaf l holds rows, for every feature its children will search.
Holds(l, rows) ==
  \A f \in Wanted : splittable[ArrayOf(hp, l)][f] => hist[ArrayOf(hp, l)][f] = rows

\* The children of l, if it is split at all, will not be searched.
Hopeless(l) ==
  \/ config.maxDepth > 0 /\ depth[l] >= config.maxDepth
  \/ Count(l) < 2 * MinDataInLeaf

\* A leaf in the pool has its own histogram there, or will not need it; the
\* leaf just split has that of its former rows.
HistInv ==
  /\ Growing =>
       \A l \in Leaves : l < numLeaves /\ Hit(hp, l) /\ (Fresh => l \notin {left, right}) =>
                           Holds(l, leafRows[l]) \/ (~best[l] /\ Hopeless(l))
  /\ Fresh /\ right # None /\ Hit(hp, left) /\ ~TooDeepOrSmall =>
       Holds(left, leafRows[left] \cup leafRows[right])

-----------------------------------------------------------------------------
(***************************************************************************)
(* The pool the learner uses, whichever it is.                             *)
(***************************************************************************)
LEMMA PoolOfType == ASSUME NEW p, PoolInv(p) PROVE p \in PoolState
<1>1. CASE IsEnough
  BY <1>1, SameFull DEF PoolInv, PoolState, F!PoolInv
<1>2. CASE ~IsEnough
  BY <1>2, SameBounded DEF PoolInv, PoolState, B!PoolInv
<1> QED
  BY <1>1, <1>2

LEMMA FreshIsPool == PoolInv(FreshPool) /\ (~IsEnough => \A l \in Leaves : FreshPool.mapper[l] = None)
<1>1. CASE IsEnough
  BY <1>1, SameFull, F!FreshInv, PoolAssumptions DEF PoolInv, FreshPool
<1>2. CASE ~IsEnough
  <2>1. PoolInv(FreshPool)
    BY <1>2, SameBounded, B!FreshInv, PoolAssumptions DEF PoolInv, FreshPool
  <2> QED
    BY <1>2, <2>1 DEF FreshPool, Bounded!FreshPool, Leaves, None
<1> QED
  BY <1>1, <1>2

LEMMA ResetIsPool ==
  ASSUME NEW p, PoolInv(p)
  PROVE  /\ PoolInv(ResetMap(p))
         /\ ~IsEnough => \A l \in Leaves : ResetMap(p).mapper[l] = None
<1>1. CASE IsEnough
  BY <1>1, SameFull, F!ResetInv, PoolAssumptions DEF PoolInv, ResetMap
<1>2. CASE ~IsEnough
  <2>1. PoolInv(ResetMap(p))
    BY <1>2, SameBounded, B!ResetInv, PoolAssumptions DEF PoolInv, ResetMap
  <2>2. CASE Bounded!IsEnough
    BY <1>2, <2>2, SameBounded DEF PoolInv, B!PoolInv, B!MapUnused, B!IsEnough, Bounded!IsEnough,
       ResetMap, Bounded!ResetMap, Leaves, None
  <2>3. CASE ~Bounded!IsEnough
    <3>1. ResetMap(p) = [Bounded!FreshPool EXCEPT !.array = p.array]
      BY <1>2, <2>3 DEF ResetMap, Bounded!ResetMap
    <3>2. ResetMap(p).mapper = [i \in Leaves |-> None]
      BY <3>1 DEF Bounded!FreshPool, Leaves, None
    <3> QED
      BY <2>1, <3>2, Zenon
  <2> QED
    BY <2>1, <2>2, <2>3
<1> QED
  BY <1>1, <1>2

\* A pool with an array per leaf has no map.
LEMMA FullHasNoMap ==
  ASSUME NEW p, PoolInv(p), IsEnough, NEW l \in Leaves
  PROVE  p.mapper[l] = None
BY SameFull, SameBounded DEF PoolInv, F!PoolInv, F!MapUnused, F!IsEnough, F!Indexes, B!Indexes,
   Leaves, Bounded!Indexes, None, Bounded!None, F!None

LEMMA ArraysDiffer ==
  ASSUME NEW p, PoolInv(p), NEW i \in Leaves, NEW j \in Leaves, i # j, Hit(p, i), Hit(p, j)
  PROVE  ArrayOf(p, i) # ArrayOf(p, j)
<1>1. CASE IsEnough
  BY <1>1, SameFull, F!ArraysOfTwoLeaves, PoolAssumptions DEF PoolInv, Hit, ArrayOf
<1>2. CASE ~IsEnough
  BY <1>2, SameBounded, B!ArraysOfTwoLeaves, PoolAssumptions DEF PoolInv, Hit, ArrayOf
<1> QED
  BY <1>1, <1>2

LEMMA GotLeaf ==
  ASSUME NEW p, PoolInv(p), NEW a \in Leaves
  PROVE  /\ PoolInv(Got(p, a)) /\ Hit(Got(p, a), a)
         /\ ArrayOf(Got(p, a), a) = ArrayOf(p, a) /\ ArrayOf(p, a) \in Arrays
         /\ IsEnough => Got(p, a) = p
         /\ \A i \in Leaves : i # a /\ p.mapper[i] = None => Got(p, a).mapper[i] = None
<1>1. CASE IsEnough
  <2>1. Got(p, a) = p
    BY <1>1 DEF Got, Full!Got, Full!IsEnough
  <2>2. Full!ArrayOf(p, a) \in Full!Slots
    BY <1>1, SameFull, F!ArrayOfIsSlot, PoolAssumptions DEF PoolInv
  <2>3. Full!Hit(p, a)
    BY DEF Full!Hit, Full!IsEnough
  <2> QED
    BY <1>1, <2>1, <2>2, <2>3, Zenon DEF Hit, ArrayOf, Arrays
<1>2. CASE ~IsEnough
  BY <1>2, SameBounded, B!ArrayOfIsSlot, B!GotFacts, PoolAssumptions
     DEF PoolInv, Got, Hit, ArrayOf, Arrays
<1> QED
  BY <1>1, <1>2

\* The calls for the two leaves of a split.
LEMMA PairOfLeaves ==
  ASSUME NEW p, PoolInv(p), NEW a \in Leaves, NEW b \in Leaves, a # b,
         ~IsEnough => p.mapper[b] = None, NEW moves \in BOOLEAN
  PROVE  LET p1 == Got(p, a)
             p2 == IF moves THEN Moved(p1, a, b) ELSE p1
             small == IF moves THEN a ELSE b
             large == IF moves THEN b ELSE a
             q  == Got(p2, small)
         IN  /\ PoolInv(q) /\ Hit(q, small) /\ Hit(q, large)
             /\ ArrayOf(q, small) = ArrayOf(p2, small)
             /\ ArrayOf(q, large) = ArrayOf(p, a)
             /\ ArrayOf(p, a) \in Arrays /\ ArrayOf(p2, small) \in Arrays
             /\ ArrayOf(p2, small) # ArrayOf(p, a)
             /\ \A i \in Leaves : i \notin {a, b} /\ Hit(q, i) =>
                                    Hit(p, i) /\ ArrayOf(q, i) = ArrayOf(p, i)
             /\ \A i \in Leaves : i \notin {a, b} /\ p.mapper[i] = None => q.mapper[i] = None
<1>1. p.mapper[b] = None
  BY FullHasNoMap
<1>2. CASE IsEnough
  BY <1>1, <1>2, SameFull, F!PairFacts, PoolAssumptions
     DEF PoolInv, Got, Moved, Hit, ArrayOf, Arrays
<1>3. CASE ~IsEnough
  BY <1>1, <1>3, SameBounded, B!PairFacts, PoolAssumptions
     DEF PoolInv, Got, Moved, Hit, ArrayOf, Arrays
<1> QED
  BY <1>2, <1>3

LEMMA PrimedPool ==
  ASSUME UNCHANGED config
  PROVE  /\ IsEnough' = IsEnough /\ PoolInv(hp)' = PoolInv(hp')
         /\ PoolState' = PoolState /\ Arrays' = Arrays
         /\ \A l : Hit(hp, l)' = Hit(hp', l) /\ ArrayOf(hp, l)' = ArrayOf(hp', l)
BY DEF PoolInv, IsEnough, PoolState, Arrays, Hit, ArrayOf

LEMMA SomeLeaves == Leaves = 0..NumLeaves-1 /\ None = -1 /\ 0 \in Leaves /\ NumLeaves \in Nat
BY LearnerAssumption DEF Leaves, None, Bounded!Indexes, Bounded!None

LEMMA RowsCounted == \A S \in SUBSET Rows : Cardinality(S) \in Nat
BY LearnerAssumption, FS_Subset, FS_CardinalityType

-----------------------------------------------------------------------------
(***************************************************************************)
(* Every action keeps LearnerInv.                                          *)
(***************************************************************************)
LEMMA InitInv == Init => LearnerInv
<1> SUFFICES ASSUME Init PROVE LearnerInv
  OBVIOUS
<1>1. PoolInv(hp) /\ hp \in PoolState /\ MapInv
  BY FreshIsPool, PoolOfType DEF Init, MapInv
<1>2. TypeOK
  BY <1>1, SomeLeaves, LearnerAssumption DEF Init, TypeOK
<1>3. TreeInv /\ PairInv /\ PendingInv
  BY SomeLeaves, LearnerAssumption DEF Init, TreeInv, PairInv, PendingInv, Growing, Fresh
<1> QED
  BY <1>1, <1>2, <1>3 DEF LearnerInv

LEMMA BeforeTrainInv == LearnerInv /\ BeforeTrain => LearnerInv'
<1> SUFFICES ASSUME LearnerInv, BeforeTrain PROVE LearnerInv'
  OBVIOUS
<1>1. PoolInv(hp)' /\ (hp \in PoolState)' /\ MapInv'
  BY ResetIsPool, PoolOfType, PrimedPool DEF LearnerInv, BeforeTrain, PoolForTree, MapInv
<1>2. TypeOK'
  <2>1. /\ config' = config /\ hist' = hist /\ splittable' = splittable
        /\ smaller' = [smaller EXCEPT !.leaf = 0] /\ larger' = [larger EXCEPT !.leaf = None]
        /\ treeFeatures' \subseteq config.features
    BY DEF BeforeTrain
  <2>2. (leafRows \in [Leaves -> SUBSET Rows])'
    BY DEF BeforeTrain
  <2>3. /\ (numLeaves \in 0..NumLeaves+1)' /\ (depth \in [Leaves -> 0..NumLeaves-1])'
        /\ (best \in [Leaves -> BOOLEAN])' /\ searched' \subseteq Features
        /\ pending' \subseteq Leaves /\ forceSplitMap' \subseteq Leaves
        /\ pc' = "search"
    BY SomeLeaves, LearnerAssumption DEF BeforeTrain
  <2>4. /\ (smaller \in [leaf : Leaves \cup {None}, array : Arrays \cup {Nil}])'
        /\ (larger \in [leaf : Leaves \cup {None}, array : Arrays \cup {Nil}])'
    BY <2>1, PrimedPool, SomeLeaves DEF LearnerInv, TypeOK
  <2>5. /\ IsConfig(config)' /\ treeFeatures' \subseteq Features
        /\ (hist \in [Arrays -> [Features -> SUBSET (Rows \cup {Junk})]])'
        /\ (splittable \in [Arrays -> [Features -> BOOLEAN]])'
    BY <2>1, PrimedPool DEF LearnerInv, TypeOK, IsConfig
  <2> QED
    BY <1>1, <2>2, <2>3, <2>4, <2>5 DEF TypeOK
<1>3. TreeInv'
  BY SomeLeaves, LearnerAssumption DEF LearnerInv, BeforeTrain, TreeInv, Growing, NoNode
<1>4. PairInv'
  BY DEF BeforeTrain, PairInv, Fresh
<1>5. PendingInv'
  BY DEF BeforeTrain, PendingInv
<1> QED
  BY <1>1, <1>2, <1>3, <1>4, <1>5 DEF LearnerInv

\* What Gather may add are leaves of the tree.
LEMMA GatherInTree ==
  ASSUME LearnerInv, pc = "search", Gather
  PROVE  forceSplitMap' \subseteq Leaves /\ \A l \in forceSplitMap' : l < numLeaves
<1> DEFINE at == {l \in {left, right} : \/ l = left /\ forcedAt.left # Nil
                                        \/ l = right /\ forcedAt.right # Nil}
<1>1. at \subseteq Leaves /\ \A l \in at : l < numLeaves
  <2>1. /\ left \in Leaves /\ left < numLeaves /\ numLeaves \in Nat
        /\ right # None => right \in Leaves /\ right = numLeaves - 1
        /\ right = None => forcedAt.right = Nil
    BY DEF LearnerInv, TypeOK, TreeInv, Growing
  <2>2. right # None => right < numLeaves
    BY <2>1
  <2> QED BY <2>1, <2>2
<1>2. \A l \in forceSplitMap : l \in Leaves /\ l < numLeaves
  BY DEF LearnerInv, TypeOK, TreeInv
<1>3. \E ok \in SUBSET at : forceSplitMap' = (forceSplitMap \ at) \cup ok
  BY DEF Gather
<1> QED
  BY <1>1, <1>2, <1>3

LEMMA SkipInv == LearnerInv /\ Skip => LearnerInv'
<1> SUFFICES ASSUME LearnerInv, Skip PROVE LearnerInv'
  OBVIOUS
<1>1. forceSplitMap' \subseteq Leaves /\ \A l \in forceSplitMap' : l < numLeaves
  BY GatherInTree DEF Skip
<1>2. PoolInv(hp)' /\ (hp \in PoolState)' /\ MapInv'
  BY PrimedPool DEF LearnerInv, TypeOK, Skip, tree, MapInv, Fresh
<1>3. TypeOK'
  BY <1>1, <1>2, PrimedPool DEF LearnerInv, TypeOK, Skip, tree
<1>4. TreeInv' /\ PairInv' /\ PendingInv'
  BY <1>1 DEF LearnerInv, TypeOK, Skip, tree, TreeInv, PairInv, PendingInv, Growing, Fresh
<1> QED
  BY <1>2, <1>3, <1>4 DEF LearnerInv

LEMMA NilIsNoArray == Arrays \subseteq Leaves /\ Nil \notin Arrays
BY LearnerAssumption, SomeLeaves DEF Arrays, Full!Slots, Bounded!Slots

\* The pool calls of a search: both leaves end up with an array of their own,
\* the larger one with the array the parent had, the others keep theirs.
LEMMA CallsOfSearch ==
  ASSUME LearnerInv, pc = "search"
  PROVE  LET c == PoolCalls
         IN  /\ PoolInv(c.pool) /\ c.smaller \in Arrays
             /\ smaller.leaf \in Leaves /\ Hit(c.pool, smaller.leaf)
             /\ ArrayOf(c.pool, smaller.leaf) = c.smaller
             /\ right = None => /\ c.larger = Nil /\ c.parent = FALSE
                                /\ smaller.leaf = left /\ larger.leaf = None
             /\ right # None =>
                  /\ c.larger \in Arrays /\ c.larger # c.smaller
                  /\ larger.leaf \in Leaves /\ Hit(c.pool, larger.leaf)
                  /\ ArrayOf(c.pool, larger.leaf) = c.larger
                  /\ c.larger = ArrayOf(hp, left) /\ c.parent = Hit(hp, left)
                  /\ smaller.leaf # larger.leaf /\ {smaller.leaf, larger.leaf} = {left, right}
                  /\ \A i \in Leaves : i \notin {left, right} /\ Hit(c.pool, i) =>
                        /\ Hit(hp, i) /\ ArrayOf(c.pool, i) = ArrayOf(hp, i)
                        /\ ArrayOf(c.pool, i) \notin {c.smaller, c.larger}
             /\ \A i \in Leaves : i \notin {left, right} /\ hp.mapper[i] = None =>
                                    c.pool.mapper[i] = None
<1> DEFINE c == PoolCalls
<1>1. /\ left \in Leaves /\ (right # None => right \in Leaves /\ left < right)
      /\ left # None /\ None \notin Leaves
  BY SomeLeaves DEF LearnerInv, TreeInv, Growing
<1>2. PoolInv(hp)
  BY DEF LearnerInv
<1>5. right # None => left # right
  BY <1>1, SomeLeaves
<1>3. CASE right = None
  <2>1. c = [pool |-> Got(hp, left), parent |-> FALSE,
             smaller |-> ArrayOf(hp, left), larger |-> Nil]
    BY <1>3, <1>1, SomeLeaves DEF PoolCalls
  <2>2. smaller.leaf = left /\ larger.leaf = None
    BY <1>3 DEF LearnerInv, PairInv, Fresh
  <2> HIDE DEF c
  <2>3. /\ c.pool = Got(hp, left) /\ c.parent = FALSE /\ c.smaller = ArrayOf(hp, left)
        /\ c.larger = Nil
    BY <2>1
  <2>4. /\ PoolInv(Got(hp, left)) /\ Hit(Got(hp, left), left)
        /\ ArrayOf(Got(hp, left), left) = ArrayOf(hp, left) /\ ArrayOf(hp, left) \in Arrays
        /\ \A i \in Leaves : i # left /\ hp.mapper[i] = None => Got(hp, left).mapper[i] = None
    BY <1>1, <1>2, GotLeaf
  <2> QED
    BY <1>1, <1>3, <2>2, <2>3, <2>4 DEF c
<1>4. CASE right # None
  <2> DEFINE moves == Count(left) < Count(right)
             p2 == IF moves THEN Moved(Got(hp, left), left, right) ELSE Got(hp, left)
             sm == IF moves THEN left ELSE right
             lg == IF moves THEN right ELSE left
             q  == Got(p2, sm)
  <2>1. smaller.leaf = sm /\ larger.leaf = lg
    BY <1>4 DEF LearnerInv, PairInv, Fresh
  <2>2. ~moves <=> Count(left) >= Count(right)
    <3>1. /\ leafRows[left] \in SUBSET Rows /\ leafRows[right] \in SUBSET Rows
      BY <1>1, <1>4 DEF LearnerInv, TypeOK
    <3>2. Count(left) \in Nat /\ Count(right) \in Nat
      BY <1>1, <1>4, <3>1, RowsCounted DEF Count
    <3> QED
      BY <3>2
  <2>3. c = [pool |-> q, parent |-> Hit(hp, left),
             smaller |-> ArrayOf(p2, sm), larger |-> ArrayOf(hp, left)]
    BY <1>4, <2>2 DEF PoolCalls
  <2>4. moves \in BOOLEAN /\ (~IsEnough => hp.mapper[right] = None)
    BY <1>1, <1>4 DEF LearnerInv, MapInv, Fresh
  <2>5. /\ PoolInv(q) /\ Hit(q, sm) /\ Hit(q, lg)
        /\ ArrayOf(q, sm) = ArrayOf(p2, sm) /\ ArrayOf(q, lg) = ArrayOf(hp, left)
        /\ ArrayOf(hp, left) \in Arrays /\ ArrayOf(p2, sm) \in Arrays
        /\ ArrayOf(p2, sm) # ArrayOf(hp, left)
        /\ \A i \in Leaves : i \notin {left, right} /\ Hit(q, i) =>
                               Hit(hp, i) /\ ArrayOf(q, i) = ArrayOf(hp, i)
        /\ \A i \in Leaves : i \notin {left, right} /\ hp.mapper[i] = None => q.mapper[i] = None
    <3> HIDE DEF moves
    <3>1. \A a, b \in Leaves, m \in BOOLEAN :
            a # b /\ (~IsEnough => hp.mapper[b] = None) =>
              LET p1 == Got(hp, a)
                  p3 == IF m THEN Moved(p1, a, b) ELSE p1
                  s  == IF m THEN a ELSE b
                  g  == IF m THEN b ELSE a
                  r  == Got(p3, s)
              IN  /\ PoolInv(r) /\ Hit(r, s) /\ Hit(r, g)
                  /\ ArrayOf(r, s) = ArrayOf(p3, s) /\ ArrayOf(r, g) = ArrayOf(hp, a)
                  /\ ArrayOf(hp, a) \in Arrays /\ ArrayOf(p3, s) \in Arrays
                  /\ ArrayOf(p3, s) # ArrayOf(hp, a)
                  /\ \A i \in Leaves : i \notin {a, b} /\ Hit(r, i) =>
                                         Hit(hp, i) /\ ArrayOf(r, i) = ArrayOf(hp, i)
                  /\ \A i \in Leaves : i \notin {a, b} /\ hp.mapper[i] = None => r.mapper[i] = None
      BY <1>2, PairOfLeaves
    <3> QED
      BY <1>1, <1>4, <1>5, <2>4, <3>1
  <2>6. {sm, lg} = {left, right} /\ sm # lg /\ sm \in Leaves /\ lg \in Leaves
    <3> HIDE DEF moves
    <3> QED
      BY <1>1, <1>4, <1>5
  <2> HIDE DEF c, q, p2, sm, lg, moves
  <2>7. \A i \in Leaves : i \notin {left, right} /\ Hit(q, i) =>
                            /\ ArrayOf(q, i) # ArrayOf(q, sm)
                            /\ ArrayOf(q, i) # ArrayOf(q, lg)
    BY <2>5, <2>6, ArraysDiffer
  <2>8. /\ c.pool = q /\ c.parent = Hit(hp, left) /\ c.smaller = ArrayOf(p2, sm)
        /\ c.larger = ArrayOf(hp, left)
    BY <2>3
  <2> QED
    BY <1>4, <2>1, <2>5, <2>6, <2>7, <2>8 DEF c
<1> QED
  BY <1>3, <1>4

\* The arrays a search writes, for the features it uses.
LEMMA ConstructedType ==
  ASSUME LearnerInv, pc = "search", NEW used
  PROVE  Constructed(PoolCalls, used) \in [Arrays -> [Features -> SUBSET (Rows \cup {Junk})]]
<1> DEFINE c == PoolCalls
           h == [hist EXCEPT ![c.smaller] =
                   [f \in Features |-> IF f \in used THEN leafRows[smaller.leaf] ELSE {Junk}]]
           Sums == [Features -> SUBSET (Rows \cup {Junk})]
<1>1. hist \in [Arrays -> Sums] /\ leafRows \in [Leaves -> SUBSET Rows]
  BY DEF LearnerInv, TypeOK
<1>2. /\ c.smaller \in Arrays /\ smaller.leaf \in Leaves
      /\ c.larger = Nil \/ (c.larger \in Arrays /\ larger.leaf \in Leaves)
  BY CallsOfSearch
<1>3. Constructed(c, used) =
        IF c.larger = Nil THEN h
        ELSE [h EXCEPT ![c.larger] =
                [f \in Features |->
                   IF c.parent
                   THEN IF f \in used THEN Subtract(h[c.larger][f], leafRows[smaller.leaf])
                                      ELSE h[c.larger][f]
                   ELSE IF f \in used THEN leafRows[larger.leaf] ELSE {Junk}]]
  BY DEF Constructed
<1> HIDE DEF c
<1>4. [f \in Features |-> IF f \in used THEN leafRows[smaller.leaf] ELSE {Junk}] \in Sums
  BY <1>1, <1>2
<1>5. h \in [Arrays -> Sums]
  BY <1>1, <1>2, <1>4
<1> HIDE DEF h
<1>6. ASSUME c.larger # Nil
      PROVE  [f \in Features |->
                IF c.parent
                THEN IF f \in used THEN Subtract(h[c.larger][f], leafRows[smaller.leaf])
                                   ELSE h[c.larger][f]
                ELSE IF f \in used THEN leafRows[larger.leaf] ELSE {Junk}] \in Sums
  <2>1. h[c.larger] \in Sums /\ leafRows[larger.leaf] \in SUBSET Rows
    BY <1>1, <1>2, <1>5, <1>6
  <2>2. \A f \in Features : Subtract(h[c.larger][f], leafRows[smaller.leaf])
                              \in SUBSET (Rows \cup {Junk})
    BY <2>1 DEF Subtract
  <2> QED
    BY <2>1, <2>2
<1> QED
  BY <1>2, <1>3, <1>5, <1>6 DEF c

\* The two leaves that come next, while a tree is grown.
LEMMA PairInTree ==
  ASSUME LearnerInv, Growing
  PROVE  /\ numLeaves \in 1..NumLeaves /\ left \in Leaves /\ left < numLeaves /\ left # None
         /\ right # None => right \in Leaves /\ right < numLeaves /\ left # right
         /\ \A l \in Leaves : l >= numLeaves => l \notin {left, right}
<1>1. Leaves = 0..NumLeaves-1 /\ None = -1 /\ NumLeaves \in Nat
  BY SomeLeaves
<1>2. /\ numLeaves \in 0..NumLeaves+1 /\ numLeaves <= NumLeaves /\ numLeaves >= 1
      /\ left \in Leaves /\ left < numLeaves
      /\ right # None => right \in Leaves /\ left < right /\ right = numLeaves - 1
  BY DEF LearnerInv, TypeOK, TreeInv, Growing
<1> QED
  BY <1>1, <1>2

LEMMA IfInBoolean ==
  \A P, x, S, b : b \in BOOLEAN => (IF P THEN x \in S ELSE b) \in BOOLEAN
<1> SUFFICES ASSUME NEW P, NEW x, NEW S, NEW b \in BOOLEAN
             PROVE  (IF P THEN x \in S ELSE b) \in BOOLEAN
  OBVIOUS
<1>1. (x \in S) \in BOOLEAN
  OBVIOUS
<1>2. CASE P
  BY <1>1, <1>2, Zenon
<1>3. CASE ~P
  BY <1>3
<1> QED
  BY <1>2, <1>3

LEMMA FlagsType ==
  ASSUME NEW c, NEW wanted, NEW used, NEW sm, NEW lg,
         splittable \in [Arrays -> [Features -> BOOLEAN]]
  PROVE  Flags(c, wanted, used, sm, lg) \in [Arrays -> [Features -> BOOLEAN]]
<1>1. ASSUME NEW a \in Arrays, NEW f \in Features
      PROVE  (IF a = c.smaller /\ f \in wanted THEN f \in sm
              ELSE IF a = c.larger /\ f \in used THEN f \in lg
              ELSE splittable[a][f]) \in BOOLEAN
  <2>1. splittable[a][f] \in BOOLEAN
    OBVIOUS
  <2> QED
    BY <2>1, IfInBoolean
<1> QED
  BY <1>1 DEF Flags

LEMMA SearchInv == LearnerInv /\ Search => LearnerInv'
<1> SUFFICES ASSUME LearnerInv, Search PROVE LearnerInv'
  OBVIOUS
<1> DEFINE c == PoolCalls
           wanted == treeFeatures \cup (IF Forcing THEN ForceFeatures ELSE {})
           used == {f \in wanted : c.parent => splittable[c.larger][f]}
<1>1. pc = "search" /\ pc' = "split" /\ hp' = c.pool /\ searched' = used
  BY DEF Search
<1>2. /\ smaller' = [smaller EXCEPT !.array = c.smaller]
      /\ larger' = [larger EXCEPT !.array = c.larger]
      /\ hist' = Constructed(c, used)
  BY DEF Search
<1>3. PICK sm, lg : splittable' = Flags(c, wanted, used, sm, lg)
  BY DEF Search
<1>4. /\ best' \in [Leaves -> BOOLEAN]
      /\ \A l \in Leaves : best'[l] => l \in {smaller.leaf, larger.leaf} \/ best[l]
  <2>1. PICK b : best' = [l \in Leaves |-> IF l \in {smaller.leaf, larger.leaf}
                                           THEN l \in b ELSE best[l]]
    BY DEF Search
  <2>2. best \in [Leaves -> BOOLEAN]
    BY DEF LearnerInv, TypeOK
  <2>3. \A l \in Leaves : best'[l] \in BOOLEAN
    BY <2>1, <2>2, IfInBoolean
  <2> QED
    BY <2>1, <2>3, Zenon
<1>5. UNCHANGED <<config, tree, left, right, treeFeatures, pending, queue, forcedAt>>
  BY DEF Search
<1>6. forceSplitMap' \subseteq Leaves /\ \A l \in forceSplitMap' : l < numLeaves
  BY GatherInTree DEF Search
<1>7. /\ PoolInv(c.pool) /\ c.smaller \in Arrays /\ (c.larger = Nil \/ c.larger \in Arrays)
      /\ smaller.leaf \in {left, right} \ {None} /\ larger.leaf \in {left, right, None}
      /\ \A i \in Leaves : i \notin {left, right} /\ hp.mapper[i] = None => c.pool.mapper[i] = None
  <2>1. left # None /\ left \in Leaves
    BY <1>1, PairInTree DEF Growing
  <2> HIDE DEF c
  <2> QED
    BY <1>1, <2>1, CallsOfSearch, SomeLeaves DEF c
<1>8. ForceFeatures \subseteq Features
  BY DEF LearnerInv, TypeOK, IsConfig, ForceFeatures, ForcedPaths
<1>9. used \subseteq Features
  BY <1>8 DEF LearnerInv, TypeOK
<1>10. hist' \in [Arrays -> [Features -> SUBSET (Rows \cup {Junk})]]
  BY <1>1, <1>2, ConstructedType
<1> HIDE DEF c, wanted, used
<1>11. splittable' \in [Arrays -> [Features -> BOOLEAN]]
  BY <1>3, FlagsType DEF LearnerInv, TypeOK
<1>12. /\ smaller' \in [leaf : Leaves \cup {None}, array : Arrays \cup {Nil}]
       /\ larger' \in [leaf : Leaves \cup {None}, array : Arrays \cup {Nil}]
  BY <1>2, <1>7 DEF LearnerInv, TypeOK
<1>13. PoolInv(hp)' /\ (hp \in PoolState)'
  BY <1>1, <1>5, <1>7, PrimedPool, PoolOfType
<1>14. TypeOK'
  BY <1>1, <1>4, <1>5, <1>6, <1>9, <1>10, <1>11, <1>12, <1>13, PrimedPool
     DEF LearnerInv, TypeOK, tree
<1>15. TreeInv'
  <2>1. \A l \in Leaves : best'[l] => l < numLeaves
    BY <1>1, <1>4, <1>7, PairInTree, SomeLeaves DEF LearnerInv, TreeInv, Growing
  <2> QED
    BY <1>1, <1>5, <1>6, <2>1 DEF LearnerInv, TreeInv, Growing, tree
<1>16. PairInv' /\ PendingInv'
  BY <1>1 DEF PairInv, PendingInv, Fresh
<1>17. MapInv'
  <2>1. \A l \in Leaves : l >= numLeaves => l \notin {left, right}
    BY <1>1, PairInTree DEF Growing
  <2>2. IsEnough' = IsEnough /\ numLeaves' = numLeaves /\ hp' = c.pool
    BY <1>1, <1>5, PrimedPool DEF tree
  <2> QED
    BY <1>1, <1>7, <2>1, <2>2 DEF LearnerInv, MapInv, Fresh
<1> QED
  BY <1>13, <1>14, <1>15, <1>16, <1>17 DEF LearnerInv

\* A leaf of the tree is split, of two parts that are not empty.
LEMMA SplitInnerInv ==
  ASSUME LearnerInv, pc = "split", NEW leaf \in Leaves, leaf < numLeaves,
         SplitInner(leaf), UNCHANGED config, UNCHANGED forceSplitMap
  PROVE  LearnerInv'
<1>1. /\ left' = leaf /\ right' = numLeaves /\ numLeaves' = numLeaves + 1
      /\ UNCHANGED <<hp, hist, splittable, best, treeFeatures, searched>>
      /\ numLeaves \in 1..NumLeaves /\ NumLeaves \in Nat
  BY SomeLeaves DEF LearnerInv, TypeOK, TreeInv, Growing, SplitInner
<1>2. PoolInv(hp)' /\ (hp \in PoolState)'
  BY <1>1, PrimedPool DEF LearnerInv, TypeOK
<1>3. MapInv'
  BY <1>1, PrimedPool, SomeLeaves DEF LearnerInv, MapInv
<1>4. /\ \A l \in Leaves : best[l] => l < numLeaves' /\ l # numLeaves
      /\ \A l \in forceSplitMap : l < numLeaves'
      /\ \A l \in Leaves : depth[l] \in 0..NumLeaves-1 /\ depth[l] < numLeaves /\ depth[l] < numLeaves'
      /\ leaf < numLeaves' /\ leaf # None /\ numLeaves # None /\ numLeaves # leaf
      /\ numLeaves = numLeaves' - 1
  <2>1. /\ \A l \in Leaves : best[l] => l < numLeaves
        /\ \A l \in forceSplitMap : l < numLeaves /\ l \in Leaves
        /\ \A l \in Leaves : depth[l] \in 0..NumLeaves-1 /\ (depth[l] = 0 \/ depth[l] < numLeaves)
    BY DEF LearnerInv, TypeOK, TreeInv
  <2> QED
    BY <1>1, <2>1, SomeLeaves
<1>5. ASSUME UNCHANGED <<leafRows, depth, smaller, larger, pending>>,
             pc' \in {"fatal", "overrun"}, pc' = "fatal" => numLeaves < NumLeaves
      PROVE  LearnerInv'
  <2>1. TypeOK'
    BY <1>1, <1>2, <1>5, PrimedPool DEF LearnerInv, TypeOK
  <2>2. TreeInv'
    BY <1>1, <1>4, <1>5 DEF LearnerInv, TreeInv, Growing
  <2>3. PairInv' /\ PendingInv'
    BY <1>5 DEF PairInv, PendingInv, Fresh
  <2> QED
    BY <1>2, <1>3, <2>1, <2>2, <2>3 DEF LearnerInv
<1>6. ASSUME numLeaves < NumLeaves,
             NEW l \in (SUBSET leafRows[leaf]) \ {{}, leafRows[leaf]},
             leafRows' = [leafRows EXCEPT ![leaf] = l, ![numLeaves] = leafRows[leaf] \ l],
             smaller' = [smaller EXCEPT !.leaf =
               IF Cardinality(l) < Cardinality(leafRows[leaf] \ l) THEN leaf ELSE numLeaves],
             larger' = [larger EXCEPT !.leaf =
               IF Cardinality(l) < Cardinality(leafRows[leaf] \ l) THEN numLeaves ELSE leaf],
             depth' = SplitDepth(leaf), pending' \in ToRecompute(leaf),
             pc' = IF pending' # {} THEN "recompute"
                   ELSE IF queue' # <<>> \/ MayGrow(numLeaves') THEN "search" ELSE "idle"
      PROVE  LearnerInv'
  <2>1. /\ numLeaves \in Leaves /\ numLeaves # leaf /\ leafRows[leaf] \in SUBSET Rows
        /\ numLeaves # None /\ leaf # None
    BY <1>1, <1>6, SomeLeaves DEF LearnerInv, TypeOK
  <2>2. /\ leafRows' \in [Leaves -> SUBSET Rows]
        /\ leafRows'[leaf] = l /\ leafRows'[numLeaves] = leafRows[leaf] \ l
    BY <1>6, <2>1 DEF LearnerInv, TypeOK
  <2>3. /\ smaller' \in [leaf : Leaves \cup {None}, array : Arrays \cup {Nil}]
        /\ larger' \in [leaf : Leaves \cup {None}, array : Arrays \cup {Nil}]
    BY <1>6, <2>1 DEF LearnerInv, TypeOK
  <2>4. /\ depth' \in [Leaves -> 0..NumLeaves-1]
        /\ depth'[leaf] = depth'[numLeaves]
        /\ \A k \in Leaves : depth'[k] = 0 \/ depth'[k] < numLeaves + 1
    <3>1. depth \in [Leaves -> 0..NumLeaves-1]
      BY DEF LearnerInv, TypeOK
    <3>2. /\ depth[leaf] + 1 \in 0..NumLeaves-1 /\ depth[leaf] + 1 < numLeaves + 1
          /\ \A k \in Leaves : depth[k] < numLeaves + 1
      BY <1>1, <1>4, <1>6
    <3>3. depth' = [depth EXCEPT ![leaf] = depth[leaf] + 1, ![numLeaves] = depth[leaf] + 1]
      BY <1>6, <3>1 DEF SplitDepth
    <3> QED
      BY <2>1, <3>1, <3>2, <3>3
  <2>5. /\ pending' \subseteq Leaves
        /\ \A k \in pending' : best[k] /\ k # leaf /\ k # numLeaves
        /\ pending' # {} => config.intermediate
    BY <1>4, <1>6 DEF ToRecompute
  <2>6. pc' \in {"recompute", "search", "idle"} /\ (pc' = "recompute" => pending' # {})
    BY <1>6
  <2>7. TypeOK'
    BY <1>1, <1>2, <2>2, <2>3, <2>4, <2>5, <2>6, PrimedPool DEF LearnerInv, TypeOK
  <2>8. TreeInv'
    <3>1. numLeaves' <= NumLeaves /\ numLeaves' >= 1
      BY <1>1, <1>6
    <3> QED
      BY <1>1, <1>4, <2>1, <2>4, <3>1 DEF LearnerInv, TreeInv
  <2>9. PairInv'
    <3>2. /\ Count(left)' = Cardinality(l) /\ Count(right)' = Cardinality(leafRows[leaf] \ l)
      BY <1>1, <2>1, <2>2 DEF Count
    <3>3. smaller'.leaf = (IF Cardinality(l) < Cardinality(leafRows[leaf] \ l) THEN leaf ELSE numLeaves)
      BY <1>6 DEF LearnerInv, TypeOK
    <3>4. larger'.leaf = (IF Cardinality(l) < Cardinality(leafRows[leaf] \ l) THEN numLeaves ELSE leaf)
      BY <1>6 DEF LearnerInv, TypeOK
    <3>5. leafRows'[left'] \cap leafRows'[right'] = {}
      BY <1>1, <2>2
    <3>6. depth'[left'] = depth'[right'] /\ right' # None
      BY <1>1, <2>1, <2>4
    <3> QED
      BY <1>1, <3>2, <3>3, <3>4, <3>5, <3>6 DEF PairInv
  <2>10. PendingInv'
    BY <1>1, <2>5, <2>6 DEF PendingInv
  <2> QED
    BY <1>2, <1>3, <2>7, <2>8, <2>9, <2>10 DEF LearnerInv
<1> QED
  BY <1>5, <1>6 DEF SplitInner

LEMMA SplitBestInv == LearnerInv /\ SplitBest => LearnerInv'
<1> SUFFICES ASSUME LearnerInv, SplitBest PROVE LearnerInv'
  OBVIOUS
<1>1. pc = "split" /\ forcedAt' = NoNode /\ UNCHANGED <<config, forceSplitMap>>
  BY DEF SplitBest
<1>2. ASSUME NEW leaf \in Leaves, best[leaf], SplitInner(leaf)
      PROVE  LearnerInv'
  <2>1. leaf < numLeaves
    BY <1>2 DEF LearnerInv, TreeInv
  <2> QED
    BY <1>1, <1>2, <2>1, SplitInnerInv
<1>3. CASE /\ pc' = "idle"
           /\ UNCHANGED <<hp, hist, splittable, tree, left, right, best,
                          treeFeatures, smaller, larger, searched, pending>>
  <2>1. PoolInv(hp)' /\ (hp \in PoolState)'
    BY <1>1, <1>3, PrimedPool DEF LearnerInv, TypeOK
  <2>2. TypeOK'
    BY <1>1, <1>3, <2>1, PrimedPool DEF LearnerInv, TypeOK, tree
  <2>3. TreeInv' /\ PairInv' /\ PendingInv'
    BY <1>1, <1>3 DEF LearnerInv, TreeInv, PairInv, PendingInv, Growing, Fresh, tree
  <2>4. MapInv'
    BY <1>1, <1>3, PrimedPool DEF LearnerInv, MapInv, Fresh, tree
  <2> QED
    BY <2>1, <2>2, <2>3, <2>4 DEF LearnerInv
<1> QED
  BY <1>2, <1>3 DEF SplitBest

LEMMA SplitForcedInv == LearnerInv /\ SplitForced => LearnerInv'
<1> SUFFICES ASSUME LearnerInv, SplitForced PROVE LearnerInv'
  OBVIOUS
<1> DEFINE leaf == Head(queue)[2]
<1>1. /\ pc = "split" /\ UNCHANGED <<config, forceSplitMap>>
      /\ leaf \in forceSplitMap /\ SplitInner(leaf)
  BY DEF SplitForced
<1>2. leaf \in Leaves /\ leaf < numLeaves
  BY <1>1 DEF LearnerInv, TypeOK, TreeInv
<1> QED
  BY <1>1, <1>2, SplitInnerInv

LEMMA RecomputeInv ==
  ASSUME LearnerInv, NEW leaf \in Leaves, Recompute(leaf)
  PROVE  LearnerInv'
<1>1. /\ pc = "recompute" /\ leaf \in pending /\ pending' = pending \ {leaf}
      /\ hp' = Got(hp, leaf)
      /\ UNCHANGED <<config, hist, leafRows, numLeaves, depth, left, right, treeFeatures,
                     smaller, larger, searched, queue, forcedAt, forceSplitMap>>
  BY DEF Recompute, tree, forced
<1>2. /\ pc' \in {"recompute", "search", "idle"}
  BY DEF Recompute
<1>3. /\ best' \in [Leaves -> BOOLEAN]
      /\ \A l \in Leaves : best'[l] => l < numLeaves
      /\ \A l \in Leaves : l # leaf => best'[l] = best[l]
      /\ splittable' \in [Arrays -> [Features -> BOOLEAN]]
  <2>1. /\ best \in [Leaves -> BOOLEAN] /\ best[leaf]
        /\ splittable \in [Arrays -> [Features -> BOOLEAN]]
        /\ \A l \in Leaves : best[l] => l < numLeaves
    BY <1>1 DEF LearnerInv, TypeOK, PendingInv, TreeInv
  <2>2. CASE Hit(hp, leaf)
    <3> DEFINE a == ArrayOf(hp, leaf)
               used == {f \in treeFeatures : splittable[a][f]}
    <3>1. a \in Arrays
      BY GotLeaf DEF LearnerInv
    <3>2. PICK found \in SUBSET used :
            /\ splittable' = [splittable EXCEPT ![a] =
                 [f \in Features |-> IF f \in used THEN f \in found ELSE splittable[a][f]]]
            /\ \E b \in BOOLEAN : (b => found # {}) /\ best' = [best EXCEPT ![leaf] = b]
      BY <2>2 DEF Recompute
    <3>3. PICK b \in BOOLEAN : best' = [best EXCEPT ![leaf] = b]
      BY <3>2, Zenon
    <3> HIDE DEF a, used
    <3>4. ASSUME NEW f \in Features
          PROVE  (IF f \in used THEN f \in found ELSE splittable[a][f]) \in BOOLEAN
      <4>1. splittable[a][f] \in BOOLEAN
        BY <2>1, <3>1
      <4> QED
        BY <4>1, IfInBoolean
    <3> QED
      BY <2>1, <3>1, <3>2, <3>3, <3>4
  <2>3. CASE ~Hit(hp, leaf)
    BY <2>1, <2>3 DEF Recompute
  <2> QED
    BY <2>2, <2>3
<1>4. /\ PoolInv(hp') /\ \A i \in Leaves : i # leaf /\ hp.mapper[i] = None => hp'.mapper[i] = None
  BY <1>1, GotLeaf DEF LearnerInv
<1>5. PoolInv(hp)' /\ (hp \in PoolState)'
  BY <1>1, <1>4, PrimedPool, PoolOfType
<1>6. TypeOK'
  BY <1>1, <1>2, <1>3, <1>5, PrimedPool DEF LearnerInv, TypeOK
<1>7. TreeInv'
  BY <1>1, <1>2, <1>3 DEF LearnerInv, TreeInv, Growing
<1>8. PairInv'
  BY <1>1 DEF LearnerInv, PairInv, Fresh, Count
<1>9. PendingInv'
  BY <1>1, <1>3 DEF LearnerInv, TypeOK, PendingInv
<1>10. MapInv'
  <2>1. \A l \in Leaves : l >= numLeaves \/ l = right => l # leaf
    BY <1>1, SomeLeaves DEF LearnerInv, TypeOK, TreeInv, PendingInv
  <2> QED
    BY <1>1, <1>2, <1>4, <2>1, PrimedPool DEF LearnerInv, MapInv, Fresh
<1> QED
  BY <1>5, <1>6, <1>7, <1>8, <1>9, <1>10 DEF LearnerInv

LEMMA StutterInv == LearnerInv /\ UNCHANGED vars => LearnerInv'
<1> SUFFICES ASSUME LearnerInv, UNCHANGED vars PROVE LearnerInv'
  OBVIOUS
<1>1. PoolInv(hp)' /\ (hp \in PoolState)'
  BY PrimedPool DEF LearnerInv, TypeOK, vars
<1>2. TypeOK'
  BY <1>1, PrimedPool DEF LearnerInv, TypeOK, vars, tree, forced
<1>3. TreeInv' /\ PairInv' /\ PendingInv'
  BY DEF LearnerInv, TreeInv, PairInv, PendingInv, Growing, Fresh, Count, vars, tree, forced
<1>4. MapInv'
  BY PrimedPool DEF LearnerInv, MapInv, Fresh, vars, tree
<1> QED
  BY <1>1, <1>2, <1>3, <1>4 DEF LearnerInv

LEMMA LearnerInvariant == Spec => []LearnerInv
<1>1. LearnerInv /\ [Next]_vars => LearnerInv'
  BY BeforeTrainInv, SkipInv, SearchInv, SplitBestInv, SplitForcedInv, RecomputeInv, StutterInv
     DEF Next
<1> QED
  BY InitInv, <1>1, PTL DEF Spec

(***************************************************************************)
(* The learner's members keep their types through every tree it grows      *)
(* (serial_tree_learner.h).                                                *)
(***************************************************************************)
THEOREM TypeCorrect == Spec => []TypeOK
<1>1. LearnerInv => TypeOK
  BY DEF LearnerInv
<1> QED
  BY LearnerInvariant, <1>1, PTL

(***************************************************************************)
(* Whatever was evicted, moved or asked for again, and whatever splits     *)
(* were forced, the leaf created last has no slot when the parent's        *)
(* histogram is moved to it: HistogramPool::Move never finds its target    *)
(* mapped (serial_tree_learner.cpp, BeforeFindBestSplit).                  *)
(***************************************************************************)
THEOREM MoveTargetFree == Spec => []MoveTargetIsFree
<1>1. LearnerInv => MoveTargetIsFree
  BY DEF LearnerInv, MapInv, MoveTargetIsFree, TreeInv, Growing, Fresh
<1> QED
  BY LearnerInvariant, <1>1, PTL

-----------------------------------------------------------------------------
(***************************************************************************)
(* When leaves are searched again only with all histograms there, every    *)
(* action keeps HistInv.                                                   *)
(***************************************************************************)
LEMMA WantedFeatures == ASSUME LearnerInv PROVE Wanted \subseteq Features
BY DEF LearnerInv, TypeOK, IsConfig, Wanted, ForceFeatures, ForcedPaths

\* HistInv in the next state, feature by feature.
LEMMA HistInvPrimed ==
  ASSUME UNCHANGED config,
         \A l \in Leaves : Growing' /\ l < numLeaves' /\ Hit(hp', l)
                             /\ (Fresh' => l \notin {left', right'}) =>
           \/ \A f \in Wanted' : splittable'[ArrayOf(hp', l)][f] =>
                                   hist'[ArrayOf(hp', l)][f] = leafRows'[l]
           \/ ~best'[l] /\ Hopeless(l)',
         Fresh' /\ right' # None /\ Hit(hp', left') /\ ~TooDeepOrSmall' =>
           \A f \in Wanted' : splittable'[ArrayOf(hp', left')][f] =>
             hist'[ArrayOf(hp', left')][f] = leafRows'[left'] \cup leafRows'[right']
  PROVE  HistInv'
BY PrimedPool DEF HistInv, Holds

LEMMA BeforeTrainHist == LearnerInv /\ BeforeTrain => HistInv'
<1> SUFFICES ASSUME LearnerInv, BeforeTrain PROVE HistInv'
  OBVIOUS
<1>1. UNCHANGED config /\ numLeaves' = 1 /\ left' = 0 /\ right' = None /\ Fresh'
  BY DEF BeforeTrain, Fresh
<1>2. \A l \in Leaves : l < 1 => l = 0
  BY SomeLeaves
<1> QED
  BY <1>1, <1>2, HistInvPrimed

LEMMA SkipHist == LearnerInv /\ HistInv /\ Skip => HistInv'
<1> SUFFICES ASSUME LearnerInv, HistInv, Skip PROVE HistInv'
  OBVIOUS
<1>1. /\ pc = "search" /\ pc' = "split" /\ TooDeepOrSmall
      /\ UNCHANGED <<config, hp, hist, splittable, leafRows, numLeaves, depth, left, right,
                     treeFeatures, queue>>
      /\ best' = [l \in Leaves |-> l \notin {left, right} /\ best[l]]
  BY DEF Skip, tree
<1>2. Wanted' = Wanted
  BY <1>1 DEF Wanted, Forcing, ForceFeatures, ForcedPaths
<1>3. ASSUME NEW l \in Leaves, l < numLeaves, Hit(hp, l)
      PROVE  \/ \A f \in Wanted' : splittable'[ArrayOf(hp, l)][f] =>
                                     hist'[ArrayOf(hp, l)][f] = leafRows'[l]
             \/ ~best'[l] /\ Hopeless(l)'
  <2>1. Hopeless(l)' = Hopeless(l)
    BY <1>1 DEF Hopeless, Count
  <2>2. CASE l \notin {left, right}
    <3>1. Holds(l, leafRows[l]) \/ (~best[l] /\ Hopeless(l))
      BY <1>1, <1>3, <2>2 DEF HistInv, Growing
    <3> QED
      BY <1>1, <1>2, <2>1, <3>1 DEF Holds
  <2>3. CASE l \in {left, right}
    <3>1. l # None /\ (right # None => depth[right] = depth[left])
      BY <1>1, SomeLeaves DEF LearnerInv, PairInv, Fresh
    <3>2. Hopeless(l)
      BY <1>1, <2>3, <3>1 DEF TooDeepOrSmall, Hopeless
    <3> QED
      BY <1>1, <2>1, <2>3, <3>2
  <2> QED
    BY <2>2, <2>3
<1>4. ~Fresh'
  BY <1>1 DEF Fresh
<1> QED
  BY <1>1, <1>3, <1>4, HistInvPrimed

\* What a search leaves in the two arrays it writes and in the others.
LEMMA SearchWrites ==
  ASSUME LearnerInv, HistInv, Search
  PROVE  LET c == PoolCalls
         IN  /\ \A f \in searched' : hist'[c.smaller][f] = leafRows[smaller.leaf]
             /\ right # None => \A f \in searched' : hist'[c.larger][f] = leafRows[larger.leaf]
             /\ \A f \in Wanted : splittable'[c.smaller][f] => f \in searched'
             /\ right # None => \A f \in Wanted : splittable'[c.larger][f] => f \in searched'
             /\ \A a \in Arrays : a \notin {c.smaller, c.larger} =>
                  hist'[a] = hist[a] /\ splittable'[a] = splittable[a]
<1> DEFINE c == PoolCalls
           used == {f \in Wanted : c.parent => splittable[c.larger][f]}
<1>1. /\ pc = "search" /\ ~TooDeepOrSmall /\ searched' = used
      /\ hist' = Constructed(c, used)
      /\ \E sm \in Findings(used, smaller.leaf), lg \in Findings(used, larger.leaf) :
           splittable' = Flags(c, Wanted, used, sm, lg)
  BY DEF Search, Wanted
<1>2. PICK sm, lg : sm \subseteq used /\ lg \subseteq used
                    /\ splittable' = Flags(c, Wanted, used, sm, lg)
  BY <1>1 DEF Findings
<1>3. /\ c.smaller \in Arrays /\ smaller.leaf \in Leaves
      /\ right = None => c.larger = Nil /\ c.parent = FALSE
      /\ right # None => /\ c.larger \in Arrays /\ c.larger # c.smaller /\ c.larger # Nil
                         /\ larger.leaf \in Leaves
                         /\ c.larger = ArrayOf(hp, left) /\ c.parent = Hit(hp, left)
                         /\ smaller.leaf # larger.leaf
                         /\ {smaller.leaf, larger.leaf} = {left, right}
  BY <1>1, CallsOfSearch, NilIsNoArray
<1>4. /\ hist \in [Arrays -> [Features -> SUBSET (Rows \cup {Junk})]]
      /\ splittable \in [Arrays -> [Features -> BOOLEAN]]
  BY DEF LearnerInv, TypeOK
<1>5. Wanted \subseteq Features
  BY WantedFeatures
<1>6. right # None /\ Hit(hp, left) =>
        \A f \in Wanted : splittable[c.larger][f] =>
          hist[c.larger][f] = leafRows[left] \cup leafRows[right]
  BY <1>1, <1>3 DEF HistInv, Holds, Fresh
<1>7. right # None =>
        /\ leafRows[left] \cap leafRows[right] = {}
        /\ \/ smaller.leaf = left /\ larger.leaf = right
           \/ smaller.leaf = right /\ larger.leaf = left
  BY <1>1 DEF LearnerInv, PairInv, Fresh
<1> DEFINE first == [f \in Features |-> IF f \in used THEN leafRows[smaller.leaf] ELSE {Junk}]
           h == [hist EXCEPT ![c.smaller] = first]
           second == [f \in Features |->
                        IF c.parent
                        THEN IF f \in used THEN Subtract(h[c.larger][f], leafRows[smaller.leaf])
                                           ELSE h[c.larger][f]
                        ELSE IF f \in used THEN leafRows[larger.leaf] ELSE {Junk}]
<1>8. hist' = IF c.larger = Nil THEN h ELSE [h EXCEPT ![c.larger] = second]
  BY <1>1 DEF Constructed
<1>9. used \subseteq Wanted
  OBVIOUS
<1>10. \A f \in Wanted : (right # None /\ f \notin used) => c.parent /\ ~splittable[c.larger][f]
  OBVIOUS
<1>11. \A f \in used : right # None /\ c.parent => splittable[c.larger][f]
  OBVIOUS
<1> HIDE DEF c, used
<1>12. \A f \in used : first[f] = leafRows[smaller.leaf]
  BY <1>5, <1>9
<1>13. DOMAIN h = Arrays /\ h[c.smaller] = first /\ \A a \in Arrays \ {c.smaller} : h[a] = hist[a]
  BY <1>3, <1>4
<1>14. right # None => \A f \in used : second[f] = leafRows[larger.leaf]
  <2> SUFFICES ASSUME right # None, NEW f \in used PROVE second[f] = leafRows[larger.leaf]
    OBVIOUS
  <2>1. CASE c.parent
    <3>1. h[c.larger][f] = leafRows[smaller.leaf] \cup leafRows[larger.leaf]
      <4>1. h[c.larger][f] = hist[c.larger][f]
        BY <1>3, <1>13
      <4>2. hist[c.larger][f] = leafRows[left] \cup leafRows[right]
        BY <1>3, <1>6, <1>9, <1>11, <2>1
      <4> QED
        BY <1>7, <4>1, <4>2
    <3>2. leafRows[smaller.leaf] \cap leafRows[larger.leaf] = {}
      BY <1>3, <1>7
    <3>3. Subtract(h[c.larger][f], leafRows[smaller.leaf]) = leafRows[larger.leaf]
      BY <3>1, <3>2 DEF Subtract
    <3> QED
      BY <1>5, <1>9, <2>1, <3>3
  <2>2. CASE ~c.parent
    BY <1>5, <1>9, <2>2
  <2> QED
    BY <2>1, <2>2
<1> HIDE DEF first, second, h
<1>15. /\ hist'[c.smaller] = first /\ (right # None => hist'[c.larger] = second)
       /\ \A a \in Arrays : a \notin {c.smaller, c.larger} => hist'[a] = hist[a]
  BY <1>3, <1>8, <1>13
<1>16. /\ \A f \in Wanted : splittable'[c.smaller][f] => f \in used
       /\ right # None => \A f \in Wanted : splittable'[c.larger][f] => f \in used
       /\ \A a \in Arrays : a \notin {c.smaller, c.larger} => splittable'[a] = splittable[a]
  BY <1>2, <1>3, <1>4, <1>5, <1>10 DEF Flags
<1> QED
  BY <1>1, <1>12, <1>14, <1>15, <1>16 DEF c

LEMMA SearchHist ==
  ASSUME LearnerInv, HistInv, Search
  PROVE  HistInv' /\ SearchReadsOwnRows'
<1> DEFINE c == PoolCalls
<1>1. /\ pc = "search" /\ pc' = "split" /\ hp' = c.pool
      /\ smaller' = [smaller EXCEPT !.array = c.smaller]
      /\ larger' = [larger EXCEPT !.array = c.larger]
      /\ UNCHANGED <<config, leafRows, numLeaves, depth, left, right, treeFeatures, queue>>
      /\ \A l \in Leaves : l \notin {smaller.leaf, larger.leaf} => best'[l] = best[l]
  BY DEF Search, tree
<1>2. Wanted' = Wanted
  BY <1>1 DEF Wanted, Forcing, ForceFeatures, ForcedPaths
<1>3. /\ \A f \in searched' : hist'[c.smaller][f] = leafRows[smaller.leaf]
      /\ right # None => \A f \in searched' : hist'[c.larger][f] = leafRows[larger.leaf]
      /\ \A f \in Wanted : splittable'[c.smaller][f] => f \in searched'
      /\ right # None => \A f \in Wanted : splittable'[c.larger][f] => f \in searched'
      /\ \A a \in Arrays : a \notin {c.smaller, c.larger} =>
           hist'[a] = hist[a] /\ splittable'[a] = splittable[a]
  BY SearchWrites
<1>4. /\ smaller.leaf \in Leaves /\ ArrayOf(c.pool, smaller.leaf) = c.smaller
      /\ right = None => smaller.leaf = left /\ larger.leaf = None
      /\ right # None =>
           /\ ArrayOf(c.pool, larger.leaf) = c.larger
           /\ {smaller.leaf, larger.leaf} = {left, right}
           /\ \A i \in Leaves : i \notin {left, right} /\ Hit(c.pool, i) =>
                /\ Hit(hp, i) /\ ArrayOf(c.pool, i) = ArrayOf(hp, i)
                /\ ArrayOf(c.pool, i) \notin {c.smaller, c.larger}
  BY <1>1, CallsOfSearch
<1> HIDE DEF c
<1>5. SearchReadsOwnRows'
  <2>1. /\ smaller'.leaf = smaller.leaf /\ larger'.leaf = larger.leaf
        /\ smaller'.array = c.smaller /\ larger'.array = c.larger
    BY <1>1 DEF LearnerInv, TypeOK
  <2>2. \A f \in searched' : hist'[smaller'.array][f] = leafRows'[smaller'.leaf]
    BY <1>1, <1>3, <2>1
  <2>3. larger'.leaf # None =>
          \A f \in searched' : hist'[larger'.array][f] = leafRows'[larger'.leaf]
    BY <1>1, <1>3, <1>4, <2>1
  <2> QED
    BY <2>2, <2>3 DEF SearchReadsOwnRows
<1>6. ASSUME NEW l \in Leaves, l < numLeaves, Hit(c.pool, l)
      PROVE  \/ \A f \in Wanted' : splittable'[ArrayOf(c.pool, l)][f] =>
                                     hist'[ArrayOf(c.pool, l)][f] = leafRows[l]
             \/ ~best'[l] /\ Hopeless(l)'
  <2>1. CASE l \in {smaller.leaf, larger.leaf}
    <3>1. CASE l = smaller.leaf
      BY <1>2, <1>3, <1>4, <3>1
    <3>2. CASE l # smaller.leaf
      <4>1. l = larger.leaf /\ right # None
        BY <1>4, <2>1, <3>2, SomeLeaves
      <4> QED
        BY <1>2, <1>3, <1>4, <4>1
    <3> QED
      BY <3>1, <3>2
  <2>2. CASE l \notin {smaller.leaf, larger.leaf}
    <3>1. right # None
      <4> SUFFICES ASSUME right = None PROVE FALSE
        OBVIOUS
      <4>1. numLeaves = 1 /\ left \in Leaves /\ left < 1
        BY <1>1 DEF LearnerInv, TreeInv, Growing
      <4> QED
        BY <1>4, <1>6, <2>2, <4>1, SomeLeaves
    <3>2. Hit(hp, l) /\ ArrayOf(c.pool, l) = ArrayOf(hp, l) /\ l \notin {left, right}
      BY <1>4, <1>6, <2>2, <3>1
    <3>3. Holds(l, leafRows[l]) \/ (~best[l] /\ Hopeless(l))
      BY <1>1, <1>6, <3>2 DEF HistInv, Growing
    <3>4. /\ hist'[ArrayOf(c.pool, l)] = hist[ArrayOf(hp, l)]
          /\ splittable'[ArrayOf(c.pool, l)] = splittable[ArrayOf(hp, l)]
      <4>1. ArrayOf(hp, l) \in Arrays
        BY GotLeaf DEF LearnerInv
      <4> QED
        BY <1>3, <1>4, <1>6, <3>1, <3>2, <4>1
    <3>5. Hopeless(l)' = Hopeless(l) /\ best'[l] = best[l]
      BY <1>1, <2>2 DEF Hopeless, Count
    <3> QED
      BY <1>2, <3>3, <3>4, <3>5 DEF Holds
  <2> QED
    BY <2>1, <2>2
<1>7. ~Fresh'
  BY <1>1 DEF Fresh
<1>8. HistInv'
  BY <1>1, <1>6, <1>7, HistInvPrimed
<1> QED
  BY <1>5, <1>8

LEMMA SplitInnerHist ==
  ASSUME LearnerInv, HistInv, pc = "split", NEW leaf \in Leaves, leaf < numLeaves,
         SplitInner(leaf), UNCHANGED config, Forcing' => Forcing
  PROVE  HistInv'
<1>1. /\ left' = leaf /\ right' = numLeaves /\ numLeaves' = numLeaves + 1
      /\ UNCHANGED <<hp, hist, splittable, best, treeFeatures>>
      /\ numLeaves \in 1..NumLeaves /\ NumLeaves \in Nat
  BY SomeLeaves DEF LearnerInv, TypeOK, TreeInv, Growing, SplitInner
<1>2. Wanted' \subseteq Wanted
  BY <1>1 DEF Wanted, ForceFeatures, ForcedPaths
<1>3. CASE pc' \in {"fatal", "overrun"}
  BY <1>3, HistInvPrimed DEF Growing, Fresh
<1>4. ASSUME numLeaves < NumLeaves, NEW l \in SUBSET leafRows[leaf],
             leafRows' = [leafRows EXCEPT ![leaf] = l, ![numLeaves] = leafRows[leaf] \ l],
             depth' = SplitDepth(leaf), pc' \in {"recompute", "search", "idle"}
      PROVE  HistInv'
  <2>1. /\ numLeaves \in Leaves /\ numLeaves # leaf /\ leafRows[leaf] \in SUBSET Rows
        /\ numLeaves # None /\ leaf # None
        /\ leafRows \in [Leaves -> SUBSET Rows] /\ depth \in [Leaves -> 0..NumLeaves-1]
    <3>1. /\ leafRows \in [Leaves -> SUBSET Rows] /\ depth \in [Leaves -> 0..NumLeaves-1]
          /\ numLeaves \in Nat
      BY DEF LearnerInv, TypeOK
    <3>2. numLeaves \in Leaves /\ numLeaves # leaf
      BY <1>1, <1>4, <3>1, SomeLeaves
    <3>3. numLeaves # None /\ leaf # None
      BY <1>1, <3>2, SomeLeaves
    <3> QED BY <1>1, <3>1, <3>2, <3>3
  <2>2. /\ leafRows'[leaf] = l /\ leafRows'[numLeaves] = leafRows[leaf] \ l
        /\ \A k \in Leaves : k \notin {leaf, numLeaves} =>
             leafRows'[k] = leafRows[k] /\ depth'[k] = depth[k]
        /\ depth'[leaf] = depth[leaf] + 1
    BY <1>4, <2>1 DEF SplitDepth
  <2>3. pc' # "idle" => Fresh'
    BY <1>4 DEF Fresh
  <2>4. \A k \in Leaves : k < numLeaves' /\ k \notin {left', right'} => k < numLeaves
    BY <1>1, SomeLeaves
  <2>5. ASSUME NEW k \in Leaves, k < numLeaves, k \notin {leaf, numLeaves}, Hit(hp, k)
        PROVE  \/ \A f \in Wanted' : splittable'[ArrayOf(hp, k)][f] =>
                                       hist'[ArrayOf(hp, k)][f] = leafRows'[k]
               \/ ~best'[k] /\ Hopeless(k)'
    <3>1. Holds(k, leafRows[k]) \/ (~best[k] /\ Hopeless(k))
      BY <2>5 DEF HistInv, Growing, Fresh
    <3>2. Hopeless(k)' = Hopeless(k)
      BY <1>1, <2>2, <2>5 DEF Hopeless, Count
    <3> QED
      BY <1>1, <1>2, <2>2, <2>5, <3>1, <3>2 DEF Holds
  <2>6. ASSUME Hit(hp, leaf), ~TooDeepOrSmall'
        PROVE  \A f \in Wanted' : splittable'[ArrayOf(hp, leaf)][f] =>
                 hist'[ArrayOf(hp, leaf)][f] = leafRows'[leaf] \cup leafRows'[numLeaves]
    <3>1. ~Hopeless(leaf)
      <4>1. /\ Cardinality(l) <= Cardinality(leafRows[leaf])
            /\ Cardinality(leafRows[leaf] \ l) <= Cardinality(leafRows[leaf])
            /\ Cardinality(l) \in Nat /\ Cardinality(leafRows[leaf] \ l) \in Nat
            /\ Cardinality(leafRows[leaf]) \in Nat
        <5>1. IsFiniteSet(leafRows[leaf])
          BY <2>1, LearnerAssumption, FS_Subset
        <5> QED
          BY <1>4, <2>1, <5>1, FS_Subset, RowsCounted
      <4>2. /\ Count(left)' = Cardinality(l) /\ Count(right)' = Cardinality(leafRows[leaf] \ l)
            /\ Count(leaf) = Cardinality(leafRows[leaf])
        BY <1>1, <2>1, <2>2 DEF Count
      <4>3. /\ ~(config.maxDepth > 0 /\ depth[leaf] + 1 >= config.maxDepth)
            /\ ~(/\ Cardinality(leafRows[leaf] \ l) < 2 * MinDataInLeaf
                 /\ Cardinality(l) < 2 * MinDataInLeaf)
        BY <1>1, <2>2, <2>6, <4>2 DEF TooDeepOrSmall
      <4>4. config.maxDepth \in Nat /\ depth[leaf] \in Nat /\ MinDataInLeaf \in Nat
        BY <2>1, LearnerAssumption DEF LearnerInv, TypeOK, IsConfig
      <4> QED
        BY <4>1, <4>2, <4>3, <4>4 DEF Hopeless
    <3>2. Holds(leaf, leafRows[leaf])
      BY <2>6, <3>1 DEF HistInv, Growing, Fresh
    <3>3. l \cup (leafRows[leaf] \ l) = leafRows[leaf]
      BY <1>4
    <3> QED
      BY <1>1, <1>2, <2>2, <3>2, <3>3 DEF Holds
  <2>7. CASE pc' = "idle"
    BY <2>7, HistInvPrimed DEF Growing, Fresh
  <2>8. CASE pc' # "idle"
    BY <1>1, <2>3, <2>4, <2>5, <2>6, <2>8, HistInvPrimed
  <2> QED
    BY <2>7, <2>8
<1> QED
  BY <1>3, <1>4 DEF SplitInner

LEMMA SplitHist ==
  ASSUME LearnerInv, HistInv, SplitBest \/ SplitForced
  PROVE  HistInv'
<1>1. pc = "split" /\ UNCHANGED config
  BY DEF SplitBest, SplitForced
<1>2. Forcing' => Forcing
  BY DEF SplitBest, SplitForced, Forcing
<1>3. ASSUME NEW leaf \in Leaves, leaf < numLeaves, SplitInner(leaf)
      PROVE  HistInv'
  BY <1>1, <1>2, <1>3, SplitInnerHist
<1>4. CASE pc' = "idle"
  BY <1>1, <1>4, HistInvPrimed DEF Growing, Fresh
<1>5. CASE SplitBest
  BY <1>3, <1>4, <1>5 DEF SplitBest, LearnerInv, TreeInv
<1>6. CASE SplitForced
  <2> DEFINE leaf == Head(queue)[2]
  <2>1. leaf \in forceSplitMap /\ SplitInner(leaf)
    BY <1>6 DEF SplitForced
  <2>2. leaf \in Leaves /\ leaf < numLeaves
    BY <2>1 DEF LearnerInv, TypeOK, TreeInv
  <2> QED
    BY <1>3, <2>1, <2>2
<1> QED
  BY <1>5, <1>6

LEMMA RecomputeHist ==
  ASSUME LearnerInv, HistInv, RecomputesSafely, NEW leaf \in Leaves, Recompute(leaf)
  PROVE  HistInv'
<1>1. /\ pc = "recompute" /\ leaf \in pending /\ hp' = Got(hp, leaf)
      /\ pc' \in {"recompute", "search", "idle"}
      /\ UNCHANGED <<config, hist, leafRows, numLeaves, depth, left, right, treeFeatures, queue>>
  BY DEF Recompute, tree, forced
<1>2. best[leaf] /\ leaf \notin {left, right} /\ leaf < numLeaves
  BY <1>1 DEF LearnerInv, PendingInv, TreeInv
<1>3. IsEnough
  BY <1>1 DEF LearnerInv, PendingInv, TreeInv, RecomputesSafely, IsEnough
<1>4. hp' = hp /\ \A l \in Leaves : Hit(hp, l) /\ ArrayOf(hp, l) \in Arrays
  BY <1>1, <1>3, GotLeaf DEF LearnerInv
<1>5. Wanted' = Wanted
  BY <1>1 DEF Wanted, Forcing, ForceFeatures, ForcedPaths
<1>6. /\ \A a \in Arrays, f \in Features : splittable'[a][f] => splittable[a][f]
      /\ \A l \in Leaves : l # leaf => best'[l] = best[l]
  <2> DEFINE a == ArrayOf(hp, leaf)
             used == {f \in treeFeatures : splittable[a][f]}
  <2>1. PICK found \in SUBSET used :
          /\ splittable' = [splittable EXCEPT ![a] =
               [f \in Features |-> IF f \in used THEN f \in found ELSE splittable[a][f]]]
          /\ \E b \in BOOLEAN : (b => found # {}) /\ best' = [best EXCEPT ![leaf] = b]
    BY <1>4 DEF Recompute
  <2>2. \A f \in used : splittable[a][f]
    OBVIOUS
  <2>3. /\ best \in [Leaves -> BOOLEAN]
        /\ splittable \in [Arrays -> [Features -> BOOLEAN]]
    BY DEF LearnerInv, TypeOK
  <2> HIDE DEF a, used
  <2>4. \A l \in Leaves : l # leaf => best'[l] = best[l]
    BY <2>1, <2>3
  <2>5. \A b \in Arrays, f \in Features : splittable'[b][f] => splittable[b][f]
    BY <2>1, <2>2, <2>3
  <2> QED
    BY <2>4, <2>5
<1>7. Wanted \subseteq Features
  BY WantedFeatures
<1>8. ASSUME NEW l \in Leaves, l < numLeaves, l \notin {left, right}
      PROVE  \/ \A f \in Wanted' : splittable'[ArrayOf(hp, l)][f] =>
                                     hist'[ArrayOf(hp, l)][f] = leafRows'[l]
             \/ ~best'[l] /\ Hopeless(l)'
  <2>1. Holds(l, leafRows[l]) \/ (~best[l] /\ Hopeless(l))
    BY <1>1, <1>4, <1>8 DEF HistInv, Growing
  <2>2. Hopeless(l)' = Hopeless(l)
    BY <1>1 DEF Hopeless, Count
  <2> QED
    BY <1>1, <1>2, <1>4, <1>5, <1>6, <1>7, <2>1, <2>2 DEF Holds
<1>9. ASSUME right # None, ~TooDeepOrSmall
      PROVE  \A f \in Wanted' : splittable'[ArrayOf(hp, left)][f] =>
               hist'[ArrayOf(hp, left)][f] = leafRows[left] \cup leafRows[right]
  <2>1. left \in Leaves
    BY <1>1, PairInTree DEF Growing
  <2>2. Holds(left, leafRows[left] \cup leafRows[right])
    BY <1>1, <1>4, <1>9, <2>1 DEF HistInv, Fresh
  <2> QED
    BY <1>1, <1>4, <1>5, <1>6, <1>7, <2>1, <2>2 DEF Holds
<1>10. TooDeepOrSmall' = TooDeepOrSmall
  BY <1>1 DEF TooDeepOrSmall, Count
<1>11. Growing' => pc' = "idle" \/ Fresh'
  BY <1>1 DEF Fresh
<1> QED
  BY <1>1, <1>4, <1>8, <1>9, <1>10, <1>11, HistInvPrimed DEF Growing, Fresh

SearchInvs == LearnerInv /\ HistInv /\ SearchReadsOwnRows

LEMMA HistInvariant ==
  ASSUME RecomputesSafely
  PROVE  Spec => []SearchInvs
<1>1. Init => SearchInvs
  BY InitInv DEF SearchInvs, HistInv, SearchReadsOwnRows, Growing, Fresh, Init
<1>2. SearchInvs /\ [Next]_vars => SearchInvs'
  <2> SUFFICES ASSUME SearchInvs, [Next]_vars PROVE SearchInvs'
    OBVIOUS
  <2>1. LearnerInv'
    BY BeforeTrainInv, SkipInv, SearchInv, SplitBestInv, SplitForcedInv, RecomputeInv, StutterInv
       DEF Next, SearchInvs
  <2>2. CASE BeforeTrain
    <3>1. SearchReadsOwnRows'
      BY <2>2 DEF BeforeTrain, SearchReadsOwnRows
    <3> QED
      BY <2>1, <2>2, <3>1, BeforeTrainHist DEF SearchInvs
  <2>3. CASE Skip
    <3>1. SearchReadsOwnRows'
      BY <2>3 DEF Skip, SearchReadsOwnRows
    <3> QED
      BY <2>1, <2>3, <3>1, SkipHist DEF SearchInvs
  <2>4. CASE Search
    BY <2>1, <2>4, SearchHist DEF SearchInvs
  <2>5. CASE SplitBest \/ SplitForced
    <3>1. pc' # "split"
      BY <2>5 DEF SplitBest, SplitForced, SplitInner
    <3> QED
      BY <2>1, <2>5, <3>1, SplitHist DEF SearchInvs, SearchReadsOwnRows
  <2>6. ASSUME NEW leaf \in Leaves, Recompute(leaf)
        PROVE  SearchInvs'
    <3>1. pc' # "split"
      BY <2>6 DEF Recompute
    <3> QED
      BY <2>1, <2>6, <3>1, RecomputeHist DEF SearchInvs, SearchReadsOwnRows
  <2>7. CASE UNCHANGED vars
    <3>1. HistInv'
      BY <2>7, PrimedPool
         DEF SearchInvs, HistInv, Growing, Fresh, Holds, Hopeless, TooDeepOrSmall, Wanted,
             Forcing, ForceFeatures, ForcedPaths, Count, vars, tree, forced
    <3>2. SearchReadsOwnRows'
      BY <2>7 DEF SearchInvs, SearchReadsOwnRows, vars, tree
    <3> QED
      BY <2>1, <3>1, <3>2 DEF SearchInvs
  <2> QED
    BY <2>2, <2>3, <2>4, <2>5, <2>6, <2>7 DEF Next
<1> QED
  BY <1>1, <1>2, PTL DEF Spec

(***************************************************************************)
(* Every search reads histograms that sum exactly the rows of the two      *)
(* leaves it searches, whether they were built or subtracted, for every    *)
(* number of leaves and arrays and all data, through every tree, eviction, *)
(* move and forced split - provided that leaves are searched again only    *)
(* when there is an array per leaf (serial_tree_learner.cpp,               *)
(* ConstructHistograms, FindBestSplitsFromHistograms).                     *)
(***************************************************************************)
THEOREM OwnRowsRead ==
  ASSUME RecomputesSafely
  PROVE  Spec => []SearchReadsOwnRows
<1>1. SearchInvs => SearchReadsOwnRows
  BY DEF SearchInvs
<1> QED
  BY HistInvariant, <1>1, PTL

(***************************************************************************)
(* A leaf that can still be split has its own histogram in the pool, if it *)
(* has one there at all, and the leaf created last has none when the       *)
(* parent's is moved to it (serial_tree_learner.cpp, BeforeFindBestSplit). *)
(***************************************************************************)
THEOREM PoolKeptInStep ==
  ASSUME RecomputesSafely
  PROVE  Spec => []PoolInStep
<1>1. SearchInvs => CachedHistogramIsCurrent
  BY DEF SearchInvs, HistInv, Holds, Growing, Fresh, Wanted, CachedHistogramIsCurrent
<1>2. SearchInvs => MoveTargetIsFree
  BY DEF SearchInvs, LearnerInv, MapInv, MoveTargetIsFree, TreeInv, Growing, Fresh
<1> QED
  BY HistInvariant, <1>1, <1>2, PTL DEF PoolInStep
=============================================================================
