-------------------------- MODULE MCDataPartition ---------------------------
(* A small data partition: setups in which the blocks are uneven, in which *)
(* aligning leaves a thread without rows, and in which one block is enough. *)
EXTENDS DataPartition

Setup(threads, minLeaf, minBag, align) ==
  [threads |-> threads, minLeaf |-> minLeaf, minBag |-> minBag, align |-> align]

MCSetups == {Setup(2, 1, 3, 1), Setup(3, 1, 1, 2), Setup(3, 2, 2, 1)}
=============================================================================
