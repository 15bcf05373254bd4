--------------------------- MODULE DataPartition ----------------------------
(***************************************************************************)
(* DataPartition (src/src/treelearner/data_partition.hpp), the bag that    *)
(* BaggingSampleStrategy draws for it (src/src/boosting/bagging.hpp), and  *)
(* the ParallelPartitionRunner both run on                                 *)
(* (src/include/LightGBM/utils/threading.h): the work is cut into blocks,  *)
(* one thread per block writes into scratch memory, all threads meet at a  *)
(* barrier, and then every block is copied to its place.                   *)
(***************************************************************************)
EXTENDS PartitionSize, FiniteSets

CONSTANT
  Setups  \* [threads, minLeaf, minBag, align]: threads and block sizes

ASSUME SetupAssumption ==
  Setups \subseteq [threads : Nat \ {0}, minLeaf : Nat \ {0}, minBag : Nat \ {0}, align : Nat \ {0}]

VARIABLES
  setup,             \* the setup in use
  bag_data_indices,  \* the bag in ascending order, then the rows left out
  bag,               \* the rows of the bag, or Rows when bagging is off
  bagging,           \* used_data_indices_ is set: Init takes the rows of the bag
  indices,           \* indices_, the positions in use
  leaf_begin,
  leaf_count,
  leaves,            \* leaves of the tree being grown
  growing,           \* the tree may still be split
  run,               \* the call of Run in progress, or NoRun
  left_, right_      \* its scratch buffers

vars == <<setup, bag_data_indices, bag, bagging, indices, leaf_begin, leaf_count,
          leaves, growing, run, left_, right_>>

NoRun == [kind |-> "none"]
Junk == -1                           \* scratch memory nobody has written
Scratch == [p \in Rows |-> Junk]

RangeOf(l) == leaf_begin[l] .. (leaf_begin[l] + leaf_count[l] - 1)
RowsAt(positions) == {indices[p] : p \in positions}

\* How many members of S are below p, and the member with k members below it.
Rank(S, p) == Cardinality({x \in S : x < p})
Nth(S, k) == CHOOSE p \in S : Rank(S, p) = k

\* array with the rows at the positions S of source written from a position on,
\* in their order, or from a position back.
Written(array, from, source, S) ==
  [p \in DOMAIN array |->
     IF p \in from..(from + Cardinality(S) - 1) THEN source[Nth(S, p - from)] ELSE array[p]]
WrittenBack(array, last, source, S) ==
  [p \in DOMAIN array |->
     IF p \in (last - Cardinality(S) + 1)..last THEN source[Nth(S, last - p)] ELSE array[p]]
Reversed(array, first, last) ==
  [p \in DOMAIN array |-> IF p \in first..last THEN array[first + last - p] ELSE array[p]]

-----------------------------------------------------------------------------
(* Cutting cnt rows into blocks *)

CeilDiv(a, b) == (a + b - 1) \div b

NumBlocks(cnt, min_cnt_per_block) ==
  IF setup.threads <= CeilDiv(cnt, min_cnt_per_block)
    THEN setup.threads ELSE CeilDiv(cnt, min_cnt_per_block)

\* Mutant: the block size is aligned down instead of up.
BlockInfoAlignedDown(cnt, min_cnt_per_block) ==
  LET n == NumBlocks(cnt, min_cnt_per_block)
  IN  [nblock |-> n,
       size |-> IF n > 1 THEN (CeilDiv(cnt, n) \div setup.align) * setup.align ELSE cnt]

\* Blocks of aligned size: the last ones may start past the end.
BlockInfo(cnt, min_cnt_per_block) ==
  LET n == NumBlocks(cnt, min_cnt_per_block)
  IN  [nblock |-> n,
       size |-> IF n > 1 THEN CeilDiv(CeilDiv(cnt, n), setup.align) * setup.align ELSE cnt]

\* Mutant: as BlockInfo, the block is not a multiple of the smallest size.
BlockInfoNotForced(cnt, min_cnt_per_block) ==
  LET n == NumBlocks(cnt, min_cnt_per_block)
  IN  [nblock |-> n, size |-> IF n > 1 THEN CeilDiv(cnt, n) ELSE cnt]

\* Blocks whose size is a multiple of the smallest one.
BlockInfoForceSize(cnt, min_cnt_per_block) ==
  LET n == NumBlocks(cnt, min_cnt_per_block)
  IN  [nblock |-> n,
       size |-> IF n > 1 THEN CeilDiv(CeilDiv(cnt, n), min_cnt_per_block) * min_cnt_per_block
                ELSE cnt]

-----------------------------------------------------------------------------
(* ParallelPartitionRunner::Run *)

Running == run.kind # "none"
Blocks == 0..(run.nblock - 1)
CurStart(i) == i * run.size
CurCnt(i) == LET rest == run.cnt - CurStart(i) IN IF run.size <= rest THEN run.size ELSE rest

Block(i) == CurStart(i) .. (CurStart(i) + CurCnt(i) - 1)

\* The rows a run divides, from position 0 of the run on.
Source == [q \in 0..(run.cnt - 1) |->
             IF run.kind = "bag" THEN q ELSE indices[run.begin + q]]

BeginRun(kind, l, begin, cnt, goes, blocks) ==
  /\ run' = [kind |-> kind, leaf |-> l, begin |-> begin, cnt |-> cnt, goes |-> goes,
             nblock |-> blocks.nblock, size |-> blocks.size, before |-> indices,
             done |-> [i \in 0..(blocks.nblock - 1) |-> "nothing"],
             left_cnts |-> [i \in 0..(blocks.nblock - 1) |-> 0],
             right_cnts |-> [i \in 0..(blocks.nblock - 1) |-> 0]]
  /\ left_' = Scratch
  /\ right_' = Scratch

\* What block i leaves in a single buffer: its left rows from the front and the
\* others from the back (BaggingHelper), and Run reverses that second part.
\* Mutant: the second part is not reversed.
OneBufferNotReversed(i, lefts, rights) ==
  WrittenBack(Written(left_, CurStart(i), Source, lefts), CurStart(i) + CurCnt(i) - 1, Source, rights)
OneBuffer(i, lefts, rights) ==
  LET last == CurStart(i) + CurCnt(i) - 1
  IN  Reversed(WrittenBack(Written(left_, CurStart(i), Source, lefts), last, Source, rights),
               CurStart(i) + Cardinality(lefts), last)

\* First parallel loop: block i divides its rows into the scratch buffers, in
\* two buffers for a leaf (Dataset::Split) and in one for a bag.
SplitBlock(i) ==
  /\ Running /\ i \in Blocks /\ run.done[i] = "nothing"
  /\ LET lefts  == {q \in Block(i) : Source[q] \in run.goes}
         rights == Block(i) \ lefts
     IN  IF CurCnt(i) <= 0
           THEN /\ run' = [run EXCEPT !.done[i] = "split"]
                /\ UNCHANGED <<left_, right_>>
           ELSE /\ run' = [run EXCEPT !.done[i] = "split",
                                      !.left_cnts[i] = Cardinality(lefts),
                                      !.right_cnts[i] = CurCnt(i) - Cardinality(lefts)]
                /\ IF run.kind = "bag"
                     THEN /\ left_' = OneBuffer(i, lefts, rights)
                          /\ UNCHANGED right_
                     ELSE /\ left_' = Written(left_, CurStart(i), Source, lefts)
                          /\ right_' = Written(right_, CurStart(i), Source, rights)
  /\ UNCHANGED <<setup, bag_data_indices, bag, bagging, indices, leaf_begin, leaf_count,
                 leaves, growing>>

\* The barrier between the loops and the running sums of left_cnts, right_cnts.
\* Mutant: no barrier.
NoBarrier == TRUE
PastBarrier == \A i \in Blocks : run.done[i] # "nothing"
\* Mutant: the counts are taken one block late.
WritePosSelf(cnts, i) ==
  LET pos[j \in 0..i] == IF j = 0 THEN 0 ELSE pos[j - 1] + cnts[j] IN pos[i]
WritePos(cnts, i) ==
  LET pos[j \in 0..i] == IF j = 0 THEN 0 ELSE pos[j - 1] + cnts[j - 1] IN pos[i]
LeftCnt == IF run.cnt = 0 THEN 0
           ELSE WritePos(run.left_cnts, run.nblock - 1) + run.left_cnts[run.nblock - 1]

LeftTarget(i) == LET p == run.begin + WritePos(run.left_cnts, i)
                 IN  p .. (p + run.left_cnts[i] - 1)
RightTarget(i) == LET p == run.begin + LeftCnt + WritePos(run.right_cnts, i)
                  IN  p .. (p + run.right_cnts[i] - 1)

\* out with the two parts of block i copied to their places.
Copied(out, i) ==
  LET lp == run.begin + WritePos(run.left_cnts, i)
      rp == run.begin + LeftCnt + WritePos(run.right_cnts, i)
      second(p) == IF run.kind = "bag" THEN left_[CurStart(i) + run.left_cnts[i] + p - rp]
                   ELSE right_[CurStart(i) + p - rp]
  IN  [p \in DOMAIN out |->
         IF p \in LeftTarget(i) THEN left_[CurStart(i) + p - lp]
         ELSE IF p \in RightTarget(i) THEN second(p) ELSE out[p]]

\* Second parallel loop: block i is copied to its place.
CopyBlock(i) ==
  /\ Running /\ i \in Blocks /\ run.done[i] = "split" /\ PastBarrier
  /\ run' = [run EXCEPT !.done[i] = "copied"]
  /\ IF run.kind = "bag"
       THEN bag_data_indices' = Copied(bag_data_indices, i) /\ UNCHANGED indices
       ELSE indices' = Copied(indices, i) /\ UNCHANGED bag_data_indices
  /\ UNCHANGED <<setup, bag, bagging, leaf_begin, leaf_count, leaves, growing, left_, right_>>

AllCopied == Running /\ \A i \in Blocks : run.done[i] = "copied"

-----------------------------------------------------------------------------
(* BaggingSampleStrategy::Bagging, without queries and without a subset *)

\* goes holds the rows the random numbers choose.  A bag is drawn between two
\* trees, when nothing reads the partition; leaves = 1 bounds the model to one
\* of the partitions it can meet.
StartBagging(goes) ==
  /\ ~Running /\ leaves = 1
  /\ BeginRun("bag", 0, 0, NumData, goes, BlockInfoForceSize(NumData, setup.minBag))
  /\ growing' = FALSE
  /\ UNCHANGED <<setup, bag_data_indices, bag, bagging, indices, leaf_begin, leaf_count, leaves>>

\* The rows counted on the left are the bag the tree learner is given.
FinishBagging ==
  /\ AllCopied /\ run.kind = "bag"
  /\ bag' = run.goes
  /\ bagging' = TRUE
  /\ run' = NoRun /\ left_' = Scratch /\ right_' = Scratch
  /\ UNCHANGED <<setup, bag_data_indices, indices, leaf_begin, leaf_count, leaves, growing>>

-----------------------------------------------------------------------------
(* DataPartition *)

\* DataPartition::Init: all rows, or those of the bag, in leaf 0.
StartTree ==
  /\ ~Running
  /\ LET n == Cardinality(bag) IN
     /\ indices' = [p \in 0..(n - 1) |-> IF bagging THEN bag_data_indices[p] ELSE p]
     /\ leaf_count' = [l \in Leaf |-> IF l = 0 THEN n ELSE 0]
  /\ leaf_begin' = [l \in Leaf |-> 0]
  /\ leaves' = 1
  /\ growing' = TRUE
  /\ UNCHANGED <<setup, bag_data_indices, bag, bagging, run, left_, right_>>

\* DataPartition::Split up to its Run; goes holds the rows that go left.
BeginSplit(l, goes) ==
  /\ ~Running /\ growing /\ l < leaves /\ leaves < NumLeaves
  /\ leaf_count[l] > 0 /\ goes \subseteq RowsAt(RangeOf(l))
  /\ BeginRun("leaf", l, leaf_begin[l], leaf_count[l], goes,
              BlockInfo(leaf_count[l], setup.minLeaf))
  /\ UNCHANGED <<setup, bag_data_indices, bag, bagging, indices, leaf_begin, leaf_count,
                 leaves, growing>>

\* Leaf l keeps left_cnt rows, the rest of its range is the new leaf.
\* Mutant: the new leaf begins one row late.
DivideLate(l, left_cnt) ==
  /\ leaf_count' = [leaf_count EXCEPT ![l] = left_cnt, ![leaves] = leaf_count[l] - left_cnt]
  /\ leaf_begin' = [leaf_begin EXCEPT ![leaves] = left_cnt + leaf_begin[l] + 1]
  /\ leaves' = leaves + 1
Divide(l, left_cnt) ==
  /\ leaf_count' = [leaf_count EXCEPT ![l] = left_cnt, ![leaves] = leaf_count[l] - left_cnt]
  /\ leaf_begin' = [leaf_begin EXCEPT ![leaves] = left_cnt + leaf_begin[l]]
  /\ leaves' = leaves + 1

\* Run returns at once when there is no row.
SplitEmpty(l) ==
  /\ ~Running /\ growing /\ l < leaves /\ leaves < NumLeaves
  /\ leaf_count[l] = 0
  /\ Divide(l, 0)
  /\ UNCHANGED <<setup, bag_data_indices, bag, bagging, indices, growing, run, left_, right_>>

FinishSplit ==
  /\ AllCopied /\ run.kind = "leaf"
  /\ Divide(run.leaf, LeftCnt)
  /\ run' = NoRun /\ left_' = Scratch /\ right_' = Scratch
  /\ UNCHANGED <<setup, bag_data_indices, bag, bagging, indices, growing>>

\* DataPartition::ApplyPartition: an accelerator hands over the new order.
ApplyPartition(l, goes) ==
  /\ ~Running /\ growing /\ l < leaves /\ leaves < NumLeaves
  /\ goes \subseteq RowsAt(RangeOf(l))
  /\ LET lefts  == {p \in RangeOf(l) : indices[p] \in goes}
         rights == RangeOf(l) \ lefts
     IN  /\ indices' = Written(Written(indices, leaf_begin[l], indices, lefts),
                               leaf_begin[l] + Cardinality(lefts), indices, rights)
         /\ Divide(l, Cardinality(lefts))
  /\ UNCHANGED <<setup, bag_data_indices, bag, bagging, growing, run, left_, right_>>

\* Rows an existing tree predicts for leaf l, and those before them.
RowsPredicted(pred, l) == {r \in Rows : pred[r] = l}
Offset(pred, l) == Cardinality({r \in Rows : pred[r] < l})

\* DataPartition::ResetByLeafPred, for refitting an existing tree.
ResetByLeafPred(size, pred) ==
  /\ ~Running
  /\ LET leafAt(p) == CHOOSE l \in 0..(size - 1) :
           p \in Offset(pred, l) .. (Offset(pred, l) + Cardinality(RowsPredicted(pred, l)) - 1)
     IN  indices' = [p \in Rows |->
           Nth(RowsPredicted(pred, leafAt(p)), p - Offset(pred, leafAt(p)))]
  /\ leaf_count' = [l \in Leaf |-> Cardinality(RowsPredicted(pred, l))]
  /\ leaf_begin' = [l \in Leaf |-> IF l < size THEN Offset(pred, l) ELSE 0]
  /\ leaves' = size
  /\ growing' = FALSE
  /\ UNCHANGED <<setup, bag_data_indices, bag, bagging, run, left_, right_>>

Init ==
  /\ setup \in Setups
  /\ bag_data_indices = [p \in Rows |-> 0]
  /\ bag = Rows
  /\ bagging = FALSE
  /\ indices = [p \in {} |-> 0]
  /\ leaf_begin = [l \in Leaf |-> 0]
  /\ leaf_count = [l \in Leaf |-> 0]
  /\ leaves = 1
  /\ growing = FALSE
  /\ run = NoRun
  /\ left_ = Scratch
  /\ right_ = Scratch

Next ==
  \/ \E goes \in SUBSET Rows : StartBagging(goes)
  \/ FinishBagging
  \/ StartTree
  \/ \E l \in Leaf : \E goes \in SUBSET Rows : BeginSplit(l, goes)
  \/ \E i \in 0..(setup.threads - 1) : SplitBlock(i) \/ CopyBlock(i)
  \/ \E l \in Leaf : SplitEmpty(l)
  \/ FinishSplit
  \/ \E l \in Leaf : \E goes \in SUBSET Rows : ApplyPartition(l, goes)
  \/ \E size \in 1..NumLeaves : \E pred \in [Rows -> 0..(size - 1)] :
       ResetByLeafPred(size, pred)

Spec == Init /\ [][Next]_vars

-----------------------------------------------------------------------------
(* Properties *)

TypeOK ==
  /\ bag_data_indices \in [Rows -> Rows]
  /\ bag \subseteq Rows /\ bagging \in BOOLEAN /\ growing \in BOOLEAN
  /\ indices \in [DOMAIN indices -> Rows]
  /\ leaf_begin \in [Leaf -> 0..NumData]
  /\ leaf_count \in [Leaf -> 0..NumData]
  /\ leaves \in 1..NumLeaves
  /\ left_ \in [Rows -> Rows \cup {Junk}] /\ right_ \in [Rows -> Rows \cup {Junk}]

\* Whatever the number of threads and the size of the blocks, a split is what
\* LeafPartition promises: each leaf one range, reordered stably.  While a run
\* is under way the partition is the one it started from.
AbstractUsed == Cardinality(DOMAIN indices)
AbstractIndices == IF run.kind = "leaf" THEN run.before ELSE indices
Abstract == INSTANCE LeafPartition WITH used <- AbstractUsed, indices <- AbstractIndices

ImplementsLeafPartition == Abstract!Spec

\* A split sends to the left leaf exactly the rows the split condition sends
\* there, and the others to the right leaf.
SplitPlacesRows ==
  [][\A l, r \in Leaf :
       run.kind = "leaf" /\ run'.kind = "none" /\ l = run.leaf /\ r = leaves =>
         /\ {indices'[p] : p \in RangeOf(l)'} = run.goes
         /\ {indices'[p] : p \in RangeOf(r)'} = RowsAt(RangeOf(l)) \ run.goes]_vars

\* After bagging the array starts with the bag and ends with the rows left
\* out, both ascending: UpdateScore reads the second part to score every row
\* the tree learner did not (src/src/boosting/gbdt.cpp:509).
BagThenRest ==
  ~Running /\ bagging =>
     \A p \in Rows : LET n == Cardinality(bag)
                     IN  bag_data_indices[p] = IF p < n THEN Nth(bag, p) ELSE Nth(Rows \ bag, p - n)

\* In the second loop no two blocks write the same position, and every
\* position of the run is written by some block.
CopiesDisjoint ==
  Running /\ PastBarrier =>
    LET target(i) == LeftTarget(i) \cup RightTarget(i)
    IN  /\ \A i, j \in Blocks : i # j => target(i) \cap target(j) = {}
        /\ \A i \in Blocks : LeftTarget(i) \cap RightTarget(i) = {}
        /\ UNION {target(i) : i \in Blocks} = run.begin .. (run.begin + run.cnt - 1)

\* A random number generator serves minBag consecutive rows
\* (bagging_rand_block_): two blocks that run at the same time never draw from
\* the same one, so neither a data race nor the schedule decides the bag.
RandOfOneThread ==
  Running /\ run.kind = "bag" =>
    \A i, j \in Blocks :
      LET rands(b) == {p \div setup.minBag : p \in Block(b)}
      IN  i # j => rands(i) \cap rands(j) = {}

\* Types, and what two threads of a run touch is never the same (threading.h,
\* Run).
BlocksApart == TypeOK /\ CopiesDisjoint /\ RandOfOneThread
=============================================================================
