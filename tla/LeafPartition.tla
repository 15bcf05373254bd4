--------------------------- MODULE LeafPartition ----------------------------
(***************************************************************************)
(* What DataPartition (src/src/treelearner/data_partition.hpp) keeps for a *)
(* tree learner: an array with the rows a tree is trained on, in which     *)
(* every leaf of the growing tree owns one contiguous range.  A split      *)
(* divides a range in two and reorders it stably, so that training does    *)
(* not depend on how the work was divided among threads.                   *)
(***************************************************************************)
EXTENDS PartitionSize, Functions

VARIABLES
  used,        \* rows the current tree is trained on (used_data_count_)
  indices,     \* indices_, positions from 0
  leaf_begin,  \* leaf_begin_
  leaf_count,  \* leaf_count_
  leaves,      \* leaves of the current tree
  growing      \* the current tree may still be split

vars == <<used, indices, leaf_begin, leaf_count, leaves, growing>>

Positions == 0..(used - 1)
RangeOf(l) == leaf_begin[l] .. (leaf_begin[l] + leaf_count[l] - 1)

Init ==
  /\ used = 0
  /\ indices = [p \in 0..-1 |-> 0]
  /\ leaf_begin = [l \in Leaf |-> 0]
  /\ leaf_count = [l \in Leaf |-> 0]
  /\ leaves = 1
  /\ growing = FALSE

\* DataPartition::Init: n different rows, all of them in leaf 0.
StartTree(n) ==
  /\ used' = n
  /\ indices' \in Injection(0..(n - 1), Rows)
  /\ leaf_begin' = [l \in Leaf |-> 0]
  /\ leaf_count' = [l \in Leaf |-> IF l = 0 THEN n ELSE 0]
  /\ leaves' = 1
  /\ growing' = TRUE

\* A reordering of leaf l that keeps the order of the rows it moves to the first
\* k positions and the order of the others.
Stable(l, k, order) ==
  \A p, q \in RangeOf(l) :
    p < q /\ (order[p] < leaf_begin[l] + k <=> order[q] < leaf_begin[l] + k)
      => order[p] < order[q]

\* DataPartition::Split: k rows stay in leaf l, the others go to a new leaf.
\* order tells the new position of each row of the leaf.
Split(l, k) ==
  /\ growing /\ l < leaves /\ leaves < NumLeaves
  /\ leaves' = leaves + 1 /\ growing' = growing
  /\ leaf_count' = [leaf_count EXCEPT ![l] = k, ![leaves] = leaf_count[l] - k]
  /\ leaf_begin' = [leaf_begin EXCEPT ![leaves] = leaf_begin[l] + k]
  /\ used' = used
  /\ indices' \in [Positions -> Rows]
  /\ \E order \in Bijection(RangeOf(l), RangeOf(l)) :
       /\ Stable(l, k, order)
       /\ \A p \in RangeOf(l) : indices'[order[p]] = indices[p]
       /\ \A p \in Positions \ RangeOf(l) : indices'[p] = indices[p]

\* DataPartition::ResetByLeafPred: every leaf of an existing tree receives
\* the rows the tree predicts it for, in ascending order.
ResetByLeafPred(size) ==
  /\ leaves' = size
  /\ growing' = FALSE
  /\ used' = NumData
  /\ indices' \in Injection(Rows, Rows)
  /\ leaf_begin' \in [Leaf -> 0..NumData]
  /\ leaf_count' \in [Leaf -> 0..NumData]
  /\ \A l \in Leaf : leaf_begin'[l] + leaf_count'[l] <= NumData
  /\ \A l \in Leaf : l >= size => leaf_count'[l] = 0
  /\ \E pred \in [Rows -> Leaf] : \A l \in Leaf : \A p \in Rows :
       pred[indices'[p]] = l <=>
         p \in leaf_begin'[l] .. (leaf_begin'[l] + leaf_count'[l] - 1)
  /\ \A l \in Leaf :
       \A p, q \in leaf_begin'[l] .. (leaf_begin'[l] + leaf_count'[l] - 1) :
         p < q => indices'[p] < indices'[q]

\* No leaf of the current tree is split any more.
EndTree ==
  /\ growing' = FALSE
  /\ UNCHANGED <<used, indices, leaf_begin, leaf_count, leaves>>

Next ==
  \/ \E n \in 0..NumData : StartTree(n)
  \/ \E l \in Leaf : \E k \in 0..leaf_count[l] : Split(l, k)
  \/ \E size \in 1..NumLeaves : ResetByLeafPred(size)
  \/ EndTree

Spec == Init /\ [][Next]_vars

-----------------------------------------------------------------------------
(* Properties *)

\* The arrays keep their types and every leaf lies inside the rows in use.
TypeOK ==
  /\ used \in 0..NumData
  /\ indices \in [Positions -> Rows]
  /\ leaf_begin \in [Leaf -> Nat]
  /\ leaf_count \in [Leaf -> Nat]
  /\ leaves \in 1..NumLeaves
  /\ \A l \in Leaf : leaf_begin[l] + leaf_count[l] <= used

\* No position belongs to two leaves: their histograms are built from
\* different rows.
LeavesDisjoint == \A a, b \in Leaf : a # b => RangeOf(a) \cap RangeOf(b) = {}

\* Every row the tree is trained on is in the range of some leaf.
LeavesCover == \A p \in Positions : \E l \in Leaf : p \in RangeOf(l)

\* No row is in the array twice.
RowsOnce == \A p, q \in Positions : indices[p] = indices[q] => p = q
=============================================================================
