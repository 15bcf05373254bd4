--------------------------- MODULE PartitionSize ---------------------------
(* The sizes of a data partition (src/src/treelearner/data_partition.hpp), *)
(* shared by what it promises (LeafPartition) and how it works             *)
(* (DataPartition).                                                        *)
EXTENDS Integers

CONSTANTS
  NumData,   \* rows of the training data (num_data_)
  NumLeaves  \* num_leaves_: entries of leaf_begin_ and leaf_count_

ASSUME PartitionAssumption == NumData \in Nat /\ NumLeaves \in Nat \ {0}

Rows == 0..(NumData - 1)
Leaf == 0..(NumLeaves - 1)
=============================================================================
