------------------------- MODULE SerialTreeLearner -------------------------
(***************************************************************************)
(* Growing one tree after another (serial_tree_learner.cpp): which leaf is *)
(* searched with which histogram array.  A histogram is abstracted to the  *)
(* set of rows it sums over ({Junk} when it is the histogram of no set the *)
(* model can name), the gain of a split to whether it is positive, a split *)
(* to the rows it sends left.                                              *)
(*                                                                         *)
(* The learner reuses arrays: after a split the larger child's histogram   *)
(* is obtained by subtracting the smaller child's from the parent's, in    *)
(* the parent's array, when the pool still has it.                         *)
(***************************************************************************)
EXTENDS Integers, FiniteSets, Sequences

CONSTANTS
  NumLeaves,      \* config num_leaves
  CacheSize,      \* arrays in a histogram pool of bounded size
  Rows,           \* the data
  Features,       \* inner feature indexes, of any data set
  MinDataInLeaf,  \* config min_data_in_leaf
  Configs,        \* the configurations a learner may be created with
  Junk,           \* what is no row: an array of {Junk} sums nothing known
  Nil             \* nullptr, and no forced node

VARIABLES
  config,         \* config_, of type Config
  hp,             \* histogram_pool_
  pc,             \* "idle", "search", "split", "recompute", "fatal", "overrun"
  hist,           \* array -> feature -> the rows summed
  splittable,     \* array -> feature -> is_splittable_
  leafRows,       \* data_partition_
  numLeaves,      \* tree->num_leaves()
  depth,          \* tree->leaf_depth
  left, right,    \* left_leaf, right_leaf (None at the root)
  best,           \* leaf -> best_split_per_leaf_[leaf].gain > 0
  treeFeatures,   \* is_feature_used_bytree
  smaller, larger,\* leaf splits and histogram arrays of the two children
  searched,       \* features whose histograms the last search read
  pending,        \* leaves whose best split the constraints want recomputed
  queue,          \* forced splits to perform, as <<path, leaf>>
  forcedAt,       \* the forced nodes at left_leaf and right_leaf, if any
  forceSplitMap   \* leaves whose forced split was found acceptable

\* A pool of bounded size and one with an array per leaf; MaxTime only bounds
\* the pool's own specification.
Bounded == INSTANCE HistogramPool WITH TotalSize <- NumLeaves, MaxTime <- 0
Full == INSTANCE HistogramPool WITH TotalSize <- NumLeaves, CacheSize <- NumLeaves, MaxTime <- 0

IsEnough      == config.fullPool
PoolState     == IF IsEnough THEN Full!PoolState ELSE Bounded!PoolState
FreshPool     == IF IsEnough THEN Full!FreshPool ELSE Bounded!FreshPool
ResetMap(p)   == IF IsEnough THEN Full!ResetMap(p) ELSE Bounded!ResetMap(p)
Hit(p, l)     == IF IsEnough THEN Full!Hit(p, l) ELSE Bounded!Hit(p, l)
ArrayOf(p, l) == IF IsEnough THEN Full!ArrayOf(p, l) ELSE Bounded!ArrayOf(p, l)
Got(p, l)     == IF IsEnough THEN Full!Got(p, l) ELSE Bounded!Got(p, l)
Moved(p, from, to) ==
  IF IsEnough THEN Full!Moved(p, from, to) ELSE Bounded!Moved(p, from, to)

None    == Bounded!None
Leaves  == Bounded!Indexes
Arrays  == IF IsEnough THEN Full!Slots ELSE Bounded!Slots
Forcing == queue # <<>>
ForcedPaths == DOMAIN config.forced
ForceFeatures == {config.forced[p] : p \in ForcedPaths}

\* max_depth (0: no limit), whether monotone_constraints_method recomputes
\* leaves, the forced splits (the feature at each path from the root),
\* whether the pool has an array per leaf, and the features of the data.
IsConfig(c) ==
  /\ DOMAIN c = {"maxDepth", "intermediate", "forced", "fullPool", "features"}
  /\ c.maxDepth \in Nat /\ c.intermediate \in BOOLEAN /\ c.fullPool \in BOOLEAN
  /\ c.features \subseteq Features
  /\ \A p \in DOMAIN c.forced : c.forced[p] \in c.features

\* SerialTreeLearner::Init asks the pool for at least 2 arrays and at most one
\* per leaf.
ASSUME LearnerAssumption ==
  /\ NumLeaves \in Nat /\ CacheSize \in 2..NumLeaves
  /\ IsFiniteSet(Rows) /\ Rows # {}
  /\ MinDataInLeaf \in Nat \ {0}
  /\ \A c \in Configs : IsConfig(c)
  /\ Junk \notin Rows /\ Nil \notin Leaves

\* Leaves are searched again only when every leaf keeps its histogram.
RecomputesSafely == \A c \in Configs : c.intermediate => c.fullPool

forced == <<queue, forcedAt, forceSplitMap>>
tree   == <<leafRows, numLeaves, depth>>
vars   == <<config, hp, pc, hist, splittable, tree, left, right, best,
            treeFeatures, smaller, larger, searched, pending, forced>>

NoNode == [left |-> Nil, right |-> Nil]

Init ==
  /\ config \in Configs
  /\ hp = FreshPool
  /\ pc = "idle"
  /\ hist = [a \in Arrays |-> [f \in Features |-> {Junk}]]
  /\ splittable = [a \in Arrays |-> [f \in Features |-> TRUE]]
  /\ leafRows = [l \in Leaves |-> {}] /\ numLeaves = 0
  /\ depth = [l \in Leaves |-> 0]
  /\ left = None /\ right = None
  /\ best = [l \in Leaves |-> FALSE]
  /\ treeFeatures = {}
  /\ smaller = [leaf |-> None, array |-> Nil]
  /\ larger = [leaf |-> None, array |-> Nil]
  /\ searched = {} /\ pending = {}
  /\ queue = <<>> /\ forcedAt = NoNode /\ forceSplitMap = {}
-----------------------------------------------------------------------------
\* Mutant: the pool's map survives from the previous tree.
PoolForTree_Kept == hp' = hp

PoolForTree == hp' = ResetMap(hp)

(***************************************************************************)
(* Train: BeforeTrain on the bagged rows and the sampled features, the     *)
(* root by hand.  The arrays keep what the previous tree left in them.     *)
(***************************************************************************)
BeforeTrain ==
  /\ pc = "idle"
  /\ PoolForTree
  /\ \E bag \in (SUBSET Rows) \ {{}} :
       leafRows' = [l \in Leaves |-> IF l = 0 THEN bag ELSE {}]
  /\ \E fs \in (SUBSET config.features) \ {{}} : treeFeatures' = fs
  /\ numLeaves' = 1
  /\ depth' = [l \in Leaves |-> 0]
  /\ left' = 0 /\ right' = None
  /\ best' = [l \in Leaves |-> FALSE]
  /\ smaller' = [smaller EXCEPT !.leaf = 0]
  /\ larger' = [larger EXCEPT !.leaf = None]
  /\ queue' = IF <<>> \in ForcedPaths THEN << <<<<>>, 0>> >> ELSE <<>>
  /\ forcedAt' = IF <<>> \in ForcedPaths THEN [NoNode EXCEPT !.left = <<>>] ELSE NoNode
  /\ forceSplitMap' = {} /\ searched' = {} /\ pending' = {}
  /\ pc' = "search"
  /\ UNCHANGED <<config, hist, splittable>>

Count(l) == IF l = None THEN 0 ELSE Cardinality(leafRows[l])

\* BeforeFindBestSplit returns false: too deep, or too few rows on both sides.
TooDeepOrSmall ==
  \/ config.maxDepth > 0 /\ depth[left] >= config.maxDepth
  \/ Count(right) < 2 * MinDataInLeaf /\ Count(left) < 2 * MinDataInLeaf

\* Mutant: the parent's histogram is not moved to the larger child.
PoolCalls_NoMove ==
  LET p1 == Got(hp, left)
      sm == IF right # None /\ Count(left) >= Count(right) THEN right ELSE left
  IN  [pool |-> IF right = None THEN p1 ELSE Got(p1, sm),
       parent |-> right # None /\ Hit(hp, left),
       smaller |-> ArrayOf(p1, sm),
       larger |-> IF right = None THEN Nil ELSE ArrayOf(hp, left)]

\* The pool calls of BeforeFindBestSplit, in order: the arrays they return,
\* whether the parent's histogram was there, and the pool they leave.
PoolCalls ==
  LET p1 == Got(hp, left)
      p2 == IF right # None /\ Count(left) < Count(right)
            THEN Moved(p1, left, right) ELSE p1
      sm == IF right # None /\ Count(left) >= Count(right) THEN right ELSE left
  IN  IF right = None
      THEN [pool |-> p1, parent |-> FALSE,
            smaller |-> ArrayOf(hp, left), larger |-> Nil]
      ELSE [pool |-> Got(p2, sm), parent |-> Hit(hp, left),
            smaller |-> ArrayOf(p2, sm), larger |-> ArrayOf(hp, left)]

\* FeatureHistogram::Subtract, of rows the parent's histogram sums, or nonsense.
Subtract(parent, part) ==
  IF part \subseteq parent THEN parent \ part ELSE {Junk}

\* ConstructHistograms and the subtraction in FindBestSplitsFromHistograms,
\* for the features used: the smaller array first, then the larger.
Constructed(c, used) ==
  LET h == [hist EXCEPT ![c.smaller] =
              [f \in Features |-> IF f \in used THEN leafRows[smaller.leaf] ELSE {Junk}]]
  IN  IF c.larger = Nil THEN h
      ELSE [h EXCEPT ![c.larger] =
              [f \in Features |->
                 IF c.parent
                 THEN IF f \in used THEN Subtract(h[c.larger][f], leafRows[smaller.leaf])
                                    ELSE h[c.larger][f]
                 ELSE IF f \in used THEN leafRows[larger.leaf] ELSE {Junk}]]

\* Mutant: features skipped because of the parent keep whatever flag the
\* reused array had.
Flags_Kept(c, wanted, used, sm, lg) ==
  [a \in Arrays |-> [f \in Features |->
     IF a = c.smaller /\ f \in used THEN f \in sm
     ELSE IF a = c.larger /\ f \in used THEN f \in lg
     ELSE splittable[a][f]]]

\* is_splittable_ after a search that found sm and lg splittable.
Flags(c, wanted, used, sm, lg) ==
  [a \in Arrays |-> [f \in Features |->
     IF a = c.smaller /\ f \in wanted THEN f \in sm
     ELSE IF a = c.larger /\ f \in used THEN f \in lg
     ELSE splittable[a][f]]]

\* What a search may conclude of a leaf: which used features it found
\* splittable (none, if there is nothing to split).
Findings(used, l) == IF Count(l) < 2 THEN {{}} ELSE SUBSET used

\* GatherInfoForThreshold judges the forced nodes at the two children: the
\* leaves whose forced split is acceptable afterwards.
Gather ==
  LET at == {l \in {left, right} : \/ l = left /\ forcedAt.left # Nil
                                   \/ l = right /\ forcedAt.right # Nil}
  IN  \E ok \in SUBSET at : forceSplitMap' = (forceSplitMap \ at) \cup ok

Skip ==
  /\ pc = "search" /\ TooDeepOrSmall
  /\ best' = [l \in Leaves |-> l \notin {left, right} /\ best[l]]
  /\ searched' = {}
  /\ Gather
  /\ pc' = "split"
  /\ UNCHANGED <<config, hp, hist, splittable, tree, left, right, treeFeatures,
                 smaller, larger, pending, queue, forcedAt>>

Search ==
  /\ pc = "search" /\ ~TooDeepOrSmall
  /\ LET c == PoolCalls
         wanted == treeFeatures \cup (IF Forcing THEN ForceFeatures ELSE {})
         used == {f \in wanted : c.parent => splittable[c.larger][f]}
     IN  /\ hp' = c.pool
         /\ smaller' = [smaller EXCEPT !.array = c.smaller]
         /\ larger' = [larger EXCEPT !.array = c.larger]
         /\ searched' = used
         /\ hist' = Constructed(c, used)
         /\ \E sm \in Findings(used, smaller.leaf), lg \in Findings(used, larger.leaf) :
              /\ splittable' = Flags(c, wanted, used, sm, lg)
              /\ \E b \in SUBSET {smaller.leaf, larger.leaf} :
                   /\ smaller.leaf \in b => sm \cap treeFeatures # {}
                   /\ larger.leaf \in b => lg \cap treeFeatures # {}
                   /\ best' = [l \in Leaves |-> IF l \in {smaller.leaf, larger.leaf}
                                                THEN l \in b ELSE best[l]]
  /\ Gather
  /\ pc' = "split"
  /\ UNCHANGED <<config, tree, left, right, treeFeatures, pending, queue, forcedAt>>
-----------------------------------------------------------------------------
\* The monotone constraints may ask for leaves that still had a split.
ToRecompute(leaf) ==
  IF config.intermediate THEN SUBSET {l \in Leaves : best[l] /\ l # leaf} ELSE {{}}

\* Mutant: the new leaf's depth is taken after the old one's was raised.
SplitDepth_Swapped(leaf) ==
  [depth EXCEPT ![leaf] = @ + 1, ![numLeaves] = depth[leaf] + 2]

SplitDepth(leaf) == [depth EXCEPT ![leaf] = @ + 1, ![numLeaves] = depth[leaf] + 1]

\* The guard of Train's loop, with n leaves.
MayGrow(n) == n < NumLeaves

(***************************************************************************)
(* SplitInner: partition the rows, extend the tree, hand the smaller child *)
(* to smaller_leaf_splits_ and ask the constraints what to recompute.  The *)
(* arrays indexed by leaf have num_leaves entries: a split past that       *)
(* writes behind them ("overrun"); a split with an empty side is a failed  *)
(* CHECK ("fatal").                                                        *)
(***************************************************************************)
SplitInner(leaf) ==
  /\ left' = leaf /\ right' = numLeaves /\ numLeaves' = numLeaves + 1
  /\ \/ /\ numLeaves < NumLeaves
        /\ \E l \in (SUBSET leafRows[leaf]) \ {{}, leafRows[leaf]} :
             LET r == leafRows[leaf] \ l
                 leftSmaller == Cardinality(l) < Cardinality(r)
             IN  /\ leafRows' = [leafRows EXCEPT ![leaf] = l, ![numLeaves] = r]
                 /\ smaller' = [smaller EXCEPT !.leaf = IF leftSmaller THEN leaf ELSE numLeaves]
                 /\ larger' = [larger EXCEPT !.leaf = IF leftSmaller THEN numLeaves ELSE leaf]
        /\ depth' = SplitDepth(leaf)
        /\ pending' \in ToRecompute(leaf)
        /\ pc' = IF pending' # {} THEN "recompute"
                 ELSE IF queue' # <<>> \/ MayGrow(numLeaves') THEN "search" ELSE "idle"
     \/ /\ numLeaves < NumLeaves /\ Count(leaf) < 2
        /\ pc' = "fatal"
        /\ UNCHANGED <<leafRows, depth, smaller, larger, pending>>
     \/ /\ numLeaves >= NumLeaves
        /\ pc' = "overrun"
        /\ UNCHANGED <<leafRows, depth, smaller, larger, pending>>
  /\ UNCHANGED <<hp, hist, splittable, best, treeFeatures, searched>>

SplitBest ==
  /\ pc = "split"
  /\ \/ ~Forcing /\ UNCHANGED queue
     \* the node at the head of the queue has no acceptable split: abort
     \/ Forcing /\ Head(queue)[2] \notin forceSplitMap /\ queue' = <<>>
  /\ forcedAt' = NoNode /\ UNCHANGED <<config, forceSplitMap>>
  /\ \/ \E leaf \in Leaves : best[leaf] /\ SplitInner(leaf)
     \/ /\ \A leaf \in Leaves : ~best[leaf]
        /\ pc' = "idle"
        /\ UNCHANGED <<hp, hist, splittable, tree, left, right, best,
                       treeFeatures, smaller, larger, searched, pending>>

SplitForced ==
  /\ pc = "split" /\ Forcing
  /\ LET node == Head(queue)[1]
         leaf == Head(queue)[2]
         l == Append(node, "left")
         r == Append(node, "right")
     IN  /\ leaf \in forceSplitMap
         /\ forcedAt' = [left  |-> IF l \in ForcedPaths THEN l ELSE Nil,
                         right |-> IF r \in ForcedPaths THEN r ELSE Nil]
         /\ queue' = Tail(queue) \o (IF l \in ForcedPaths THEN << <<l, leaf>> >> ELSE <<>>)
                                 \o (IF r \in ForcedPaths THEN << <<r, numLeaves>> >> ELSE <<>>)
         /\ SplitInner(leaf)
  /\ UNCHANGED <<config, forceSplitMap>>

(***************************************************************************)
(* RecomputeBestSplitForLeaf, for the leaves the constraints named, in the *)
(* order they named them.  A leaf whose histogram is gone is skipped, but  *)
(* the Get that found it gone has by then given it a slot.                 *)
(***************************************************************************)
Recompute(leaf) ==
  /\ pc = "recompute" /\ leaf \in pending
  /\ pending' = pending \ {leaf}
  /\ hp' = Got(hp, leaf)
  /\ IF Hit(hp, leaf)
     THEN LET a == ArrayOf(hp, leaf)
              used == {f \in treeFeatures : splittable[a][f]}
          IN  \E found \in SUBSET used :
                /\ splittable' = [splittable EXCEPT ![a] =
                     [f \in Features |-> IF f \in used THEN f \in found ELSE @[f]]]
                /\ \E b \in BOOLEAN : (b => found # {}) /\ best' = [best EXCEPT ![leaf] = b]
     ELSE UNCHANGED <<splittable, best>>
  /\ pc' = IF pending' # {} THEN "recompute"
           ELSE IF Forcing \/ MayGrow(numLeaves) THEN "search" ELSE "idle"
  /\ UNCHANGED <<config, hist, tree, left, right, treeFeatures, smaller, larger,
                 searched, forced>>

Next == BeforeTrain \/ Skip \/ Search \/ SplitBest \/ SplitForced
        \/ \E leaf \in Leaves : Recompute(leaf)

Spec == Init /\ [][Next]_vars
-----------------------------------------------------------------------------
(***************************************************************************)
(* Type correctness of the learner's state (serial_tree_learner.h).        *)
(***************************************************************************)
TypeOK ==
  /\ IsConfig(config)
  /\ hp \in PoolState
  /\ pc \in {"idle", "search", "split", "recompute", "fatal", "overrun"}
  /\ hist \in [Arrays -> [Features -> SUBSET (Rows \cup {Junk})]]
  /\ splittable \in [Arrays -> [Features -> BOOLEAN]]
  /\ leafRows \in [Leaves -> SUBSET Rows]
  /\ numLeaves \in 0..NumLeaves+1
  /\ depth \in [Leaves -> 0..NumLeaves-1]
  /\ best \in [Leaves -> BOOLEAN]
  /\ treeFeatures \subseteq Features /\ searched \subseteq Features
  /\ smaller \in [leaf : Leaves \cup {None}, array : Arrays \cup {Nil}]
  /\ larger \in [leaf : Leaves \cup {None}, array : Arrays \cup {Nil}]
  /\ pending \subseteq Leaves /\ forceSplitMap \subseteq Leaves

(***************************************************************************)
(* Every search reads the histograms of the two leaves it searches: each   *)
(* array holds exactly the rows of its leaf for every feature searched,    *)
(* whether it was built from the rows or obtained by subtraction, however  *)
(* many evictions, moves and earlier trees the arrays went through         *)
(* (serial_tree_learner.cpp, ConstructHistograms,                          *)
(* FindBestSplitsFromHistograms).                                          *)
(***************************************************************************)
SearchReadsOwnRows ==
  pc = "split" =>
    \A f \in searched, side \in {smaller, larger} :
      side.leaf # None => hist[side.array][f] = leafRows[side.leaf]

(***************************************************************************)
(* A leaf that can still be split and has a slot has its own histogram     *)
(* there, at least for the features its children will not skip: that is    *)
(* what the subtraction after its split relies on.                         *)
(***************************************************************************)
CachedHistogramIsCurrent ==
  pc \in {"split", "recompute"} =>
    \A l \in Leaves :
      (l < numLeaves /\ best[l] /\ (pc = "recompute" => l \notin {left, right})
         /\ Hit(hp, l)) =>
        \A f \in treeFeatures :
          LET a == ArrayOf(hp, l)
          IN  splittable[a][f] => hist[a][f] = leafRows[l]

(***************************************************************************)
(* Whenever the learner moves a histogram to the leaf it has just created, *)
(* that leaf has no slot yet: the precondition of HistogramPool::Move.     *)
(***************************************************************************)
MoveTargetIsFree ==
  pc = "search" /\ right # None /\ ~IsEnough => hp.mapper[right] = None

(***************************************************************************)
(* What a split relies on when it takes the parent's histogram out of the  *)
(* pool (serial_tree_learner.cpp, BeforeFindBestSplit).                    *)
(***************************************************************************)
PoolInStep == CachedHistogramIsCurrent /\ MoveTargetIsFree
=============================================================================
