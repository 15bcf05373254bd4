-------------------------- MODULE MetalTreeLearner --------------------------
(***************************************************************************)
(* MetalTreeLearner (metal_tree_learner.cpp): histograms and partitions on *)
(* a device that shares memory with the CPU.  The rows and gradients of    *)
(* the leaf to be searched are staged in shared buffers early, when the    *)
(* leaf is chosen; a dispatch reads them later, while the CPU builds the   *)
(* features that have no column on the device; and a partition writes its  *)
(* result over the staged rows.  A leaf may turn out to be too small for   *)
(* the device at three different places.                                   *)
(*                                                                         *)
(* A gradient is abstracted to the row it belongs to, or Stale when it was *)
(* not written for the tree being grown; a histogram to the entries summed *)
(* in it, each the row counted and the rows its gradient and hessian came  *)
(* from.  Which bin an entry falls in is a matter of BinRouting.           *)
(***************************************************************************)
EXTENDS Integers, FiniteSets, SequencesExt

CONSTANTS
  NumData,     \* rows of the training data
  Setups,      \* device layouts and thresholds, see IsSetup
  BlockRows,   \* rows of a block of the partition kernels
  ThreadRows,  \* consecutive rows of one of its threads
  MaxLeaves,   \* config num_leaves
  Stale        \* what is left of earlier trees and other leaves

VARIABLES
  setup,
  pc,            \* "idle", "find", "launch", "cpu", "wait", "split"
  num_data_,     \* rows of the data set or of the copy of a bag
  use_bagging_,
  bag,           \* used_data_indices_ of data_partition_, <<>> when not set
  leafRows,      \* leaf -> its range of data_partition_'s indices
  numLeaves,     \* leaves of the tree
  left, right,   \* the leaves to be searched, right = None at the root
  treeFeatures,  \* is_feature_used_bytree
  is_used,       \* is_feature_used
  use_subtract,  \* the parent's histograms are there
  which,         \* the child whose histograms are being built
  buf_indices_,  \* positions -> row
  buf_grads_,    \* positions -> the row of the gradient
  buf_hess_,     \* positions -> the row of the hessian
  captured,      \* const_hessian_value_ has been set
  flight,        \* the dispatch in flight, or Nothing
  hist           \* child -> feature -> the entries summed

buffers == <<buf_indices_, buf_grads_, buf_hess_, captured>>
tree    == <<leafRows, numLeaves, left, right, treeFeatures>>
search  == <<is_used, use_subtract, which>>
vars == <<setup, pc, num_data_, use_bagging_, bag, tree, search, buffers, flight, hist>>

None == -1
Nothing == [child |-> "none", out |-> <<>>]
Leaves == 0..(MaxLeaves - 1)
Children == {"smaller", "larger"}

\* The features of each column: of a dense group, or one multi-value feature;
\* the features left to the CPU; those of forced splits; the two thresholds;
\* and whether all hessians are the same.
IsSetup(s) ==
  /\ DOMAIN s = {"dense", "packed", "cpu", "forced", "minWorkload", "minPartition", "constHess"}
  /\ s.minWorkload \in Nat /\ s.minPartition \in Nat /\ s.constHess \in BOOLEAN
  /\ s.forced \subseteq (UNION (s.dense \cup s.packed)) \cup s.cpu

ASSUME MetalAssumption ==
  /\ NumData \in Nat \ {0} /\ MaxLeaves \in Nat \ {0, 1}
  /\ ThreadRows \in Nat \ {0} /\ BlockRows \in Nat \ {0} /\ BlockRows % ThreadRows = 0
  /\ \A s \in Setups : IsSetup(s)

Columns  == setup.dense \cup setup.packed     \* num_packed_columns_ of them
Features == (UNION Columns) \cup setup.cpu

ShouldUseMetal(rows, columns) ==
  /\ columns # {}
  /\ rows * Cardinality(columns) >= setup.minWorkload

\* A buffer with rows written over its first positions.
Written(buffer, rows) ==
  [p \in DOMAIN buffer |-> IF p <= Len(rows) THEN rows[p] ELSE buffer[p]]

Empty == [p \in 1..NumData |-> Stale]
\* A histogram that is not of this search.
Unknown == << [row |-> Stale, grad |-> Stale, hess |-> Stale] >>
Unbuilt == [c \in Children |-> [f \in Features |-> Unknown]]

Init ==
  /\ setup \in Setups
  /\ pc = "idle"
  /\ num_data_ = NumData /\ use_bagging_ = FALSE
  /\ bag = <<>>
  /\ leafRows = [l \in Leaves |-> <<>>]
  /\ numLeaves = 1 /\ left = 0 /\ right = None /\ treeFeatures = {}
  /\ is_used = {} /\ use_subtract = FALSE /\ which = "smaller"
  /\ buf_indices_ = Empty /\ buf_grads_ = Empty /\ buf_hess_ = Empty
  /\ captured = FALSE
  /\ flight = Nothing
  /\ hist = Unbuilt

ForgetBuffers == buf_indices_' = Empty /\ buf_grads_' = Empty /\ buf_hess_' = Empty

\* Staging the gradients of rows: those of hess only if they differ.
StageGradients(rows) ==
  /\ buf_grads_' = Written(buf_grads_, rows)
  /\ buf_hess_' = IF setup.constHess THEN buf_hess_ ELSE Written(buf_hess_, rows)
  /\ captured' = (captured \/ setup.constHess)

Stage(rows) ==
  /\ buf_indices_' = Written(buf_indices_, rows)
  /\ StageGradients(rows)

-----------------------------------------------------------------------------
(* Between two trees *)

\* The member of S with k members below it, and rows at some positions in order.
Nth(S, k) == CHOOSE x \in S : Cardinality({y \in S : y < x}) = k
InOrder(rows, places) == [k \in 1..Cardinality(places) |-> rows[Nth(places, k - 1)]]

Identity(n) == [p \in 1..n |-> p]

\* SetBaggingData with a pointer to a bag: some rows, in ascending order.
SetBag ==
  /\ pc = "idle" /\ num_data_ = NumData
  /\ \E rows \in (SUBSET (1..NumData)) \ {{}} :
       /\ bag' = InOrder(Identity(NumData), rows)
       /\ use_bagging_' = (Cardinality(rows) # num_data_)
  /\ UNCHANGED <<setup, pc, num_data_, tree, search, buffers, flight, hist>>

\* ResetTrainingDataInner: n rows, and buffers allocated anew.
NewBuffers(n) ==
  /\ num_data_' = n
  /\ ForgetBuffers
  /\ UNCHANGED <<setup, pc, bag, tree, search, captured, flight, hist>>

\* SetBaggingData with a copy of n rows, all of which are used.
SetCopy ==
  /\ pc = "idle" /\ bag = <<>>
  /\ \E n \in 1..NumData : NewBuffers(n)
  /\ use_bagging_' = FALSE

\* ResetTrainingData: the bag, if there is one, and use_bagging_ stay.
ResetTrainingData ==
  /\ pc = "idle"
  /\ NewBuffers(NumData)
  /\ UNCHANGED use_bagging_

\* Mutant: the root has a row for each row of the training data.
RootRows_OfTraining == IF bag = <<>> THEN Identity(NumData) ELSE bag

\* DataPartition::Init.
RootRows == IF bag = <<>> THEN Identity(num_data_) ELSE bag

\* What BeforeTrain stages: all gradients, if there is no bag; then, when
\* the root is a part of the rows, those rows over them.
StageRoot ==
  LET whole == ~use_bagging_ /\ ShouldUseMetal(num_data_, Columns)
      part  == Len(RootRows) # num_data_ /\ ShouldUseMetal(Len(RootRows), Columns)
      all(buffer)    == IF whole THEN Written(buffer, Identity(num_data_)) ELSE buffer
      staged(buffer) == IF part THEN Written(all(buffer), RootRows) ELSE all(buffer)
  IN  /\ buf_indices_' = IF part THEN Written(buf_indices_, RootRows) ELSE buf_indices_
      /\ buf_grads_' = staged(buf_grads_)
      /\ buf_hess_' = IF setup.constHess THEN buf_hess_ ELSE staged(buf_hess_)
      /\ captured' = (captured \/ (setup.constHess /\ (whole \/ part)))

BeforeTrain ==
  /\ pc = "idle"
  /\ StageRoot
  /\ leafRows' = [leafRows EXCEPT ![0] = RootRows]
  /\ treeFeatures' \in (SUBSET Features) \ {{}}
  /\ pc' = "find"
  /\ UNCHANGED <<setup, num_data_, use_bagging_, bag, numLeaves, left, right, search, flight, hist>>

-----------------------------------------------------------------------------
(* Searching a leaf and its sibling *)

Count(l) == IF l = None THEN 0 ELSE Len(leafRows[l])
SmallerLeaf == IF right # None /\ Count(left) >= Count(right) THEN right ELSE left
LargerLeaf  == IF SmallerLeaf = left THEN right ELSE left
LeafOf(child) == IF child = "smaller" THEN SmallerLeaf ELSE LargerLeaf

\* Mutant: the left leaf is staged, be it the smaller one or not.
StageLeaf_Left ==
  IF right # None /\ ShouldUseMetal(Count(left), Columns)
  THEN Stage(leafRows[left])
  ELSE UNCHANGED buffers

\* The rows of the smaller leaf are staged; those of the root have been.
StageLeaf ==
  IF right # None /\ ShouldUseMetal(Count(SmallerLeaf), Columns)
  THEN Stage(leafRows[SmallerLeaf])
  ELSE UNCHANGED buffers

\* BeforeFindBestSplit, when the serial learner goes on to search: the
\* arrays hold whatever they held.  With the parent's histograms at hand the
\* features it could not split on are left out.
BeforeFindBestSplit ==
  /\ pc = "find"
  /\ StageLeaf
  /\ use_subtract' \in (IF right = None THEN {FALSE} ELSE BOOLEAN)
  /\ LET wanted == treeFeatures \cup setup.forced
     IN  is_used' \in (IF use_subtract' THEN SUBSET wanted ELSE {wanted})
  /\ which' = "smaller"
  /\ hist' = Unbuilt
  /\ pc' = "launch"
  /\ UNCHANGED <<setup, num_data_, use_bagging_, bag, tree, flight>>

\* ... and when it does not: the leaves are too deep or too small.
Skip ==
  /\ pc = "find"
  /\ StageLeaf
  /\ pc' = "split"
  /\ is_used' = {}
  /\ UNCHANGED <<setup, num_data_, use_bagging_, bag, tree, use_subtract, which, flight, hist>>

\* feature_masks_.
Masked == {col \in setup.dense : col \cap is_used # {}}
          \cup {col \in setup.packed : col \cap is_used \cap treeFeatures # {}}

UseIndices(rows) == rows # num_data_

LargerNeeded == right # None /\ ~use_subtract
MaybeMetal(child) ==
  /\ child = "larger" => LargerNeeded
  /\ ShouldUseMetal(Count(LeafOf(child)), Columns)

\* ConstructMetalHistogramsAsync returns true.
Launches ==
  /\ MaybeMetal(which) /\ Count(LeafOf(which)) > 0
  /\ ShouldUseMetal(Count(LeafOf(which)), Masked)

\* The dispatch.  The larger leaf was not staged before, so this happens here;
\* having a sibling with rows, it is never all of them.
Launch ==
  LET rows == leafRows[LeafOf(which)]
      indices == UseIndices(Len(rows))
  IN  /\ Launches
      /\ flight' = [child |-> which, rows |-> Len(rows), indices |-> indices,
                    mask |-> Masked, out |-> Unknown]
      /\ \/ which = "smaller" /\ UNCHANGED buffers
         \/ which = "larger" /\ Stage(rows)

\* What a histogram of rows must hold.
EntriesOf(rows) ==
  [p \in 1..Len(rows) |-> [row |-> rows[p], grad |-> rows[p], hess |-> rows[p]]]

Built(h, child, features) ==
  [h EXCEPT ![child] =
     [f \in Features |-> IF f \in features THEN EntriesOf(leafRows[LeafOf(child)]) ELSE @[f]]]

\* Neither leaf has work for the device: the serial learner builds both.
ConstructSerially ==
  /\ pc = "launch" /\ which = "smaller"
  /\ \A c \in Children : ~MaybeMetal(c)
  /\ hist' = LET h == Built(hist, "smaller", is_used)
             IN  IF LargerNeeded THEN Built(h, "larger", is_used) ELSE h
  /\ pc' = "split"
  /\ UNCHANGED <<setup, num_data_, use_bagging_, bag, tree, search, buffers, flight>>

Construct ==
  /\ pc = "launch"
  /\ which = "larger" \/ \E c \in Children : MaybeMetal(c)
  /\ \/ Launch
     \/ ~Launches /\ UNCHANGED <<buffers, flight>>
  /\ pc' = "cpu"
  /\ UNCHANGED <<setup, num_data_, use_bagging_, bag, tree, search, hist>>

\* metal_histogram: every thread of the kernel takes one position.  It runs
\* at any time until it is waited for and reads the buffers as they are.
RunKernel ==
  /\ flight.out = Unknown
  /\ flight' = [flight EXCEPT !.out =
       [p \in 1..flight.rows |->
          [row  |-> IF flight.indices THEN buf_indices_[p] ELSE p,
           grad |-> buf_grads_[p],
           hess |-> IF ~setup.constHess THEN buf_hess_[p]
                    ELSE IF ~captured THEN Stale
                    ELSE IF flight.indices THEN buf_indices_[p] ELSE p]]]
  /\ UNCHANGED <<setup, pc, num_data_, use_bagging_, bag, tree, search, buffers, hist>>

\* What the CPU builds: the features without a column, or all of them when
\* the device declined (none if no feature of the tree is among them).
CpuFeatures ==
  IF flight # Nothing THEN setup.cpu \cap treeFeatures \cap is_used
  ELSE IF is_used \cap treeFeatures # {} THEN is_used ELSE {}

ConstructOnCpu ==
  /\ pc = "cpu"
  /\ hist' = Built(hist, which, CpuFeatures)
  /\ pc' = "wait"
  /\ UNCHANGED <<setup, num_data_, use_bagging_, bag, tree, search, buffers, flight>>

\* WaitAndGetHistograms, and on to the larger leaf.
WaitAndGet ==
  /\ pc = "wait"
  /\ flight.out # Unknown
  /\ hist' = IF flight = Nothing THEN hist
             ELSE [hist EXCEPT ![which] =
                     [f \in Features |-> IF f \in UNION flight.mask THEN flight.out ELSE @[f]]]
  /\ flight' = Nothing
  /\ IF which = "smaller" /\ LargerNeeded
     THEN which' = "larger" /\ pc' = "launch"
     ELSE which' = which /\ pc' = "split"
  /\ UNCHANGED <<setup, num_data_, use_bagging_, bag, tree, is_used, use_subtract, buffers>>

-----------------------------------------------------------------------------
(* Partitioning a leaf on the device *)

RowsFrom(first, last, cnt) == {p \in first..last : p <= cnt}
Lefts(rows, goesLeft, positions) == Cardinality({p \in positions : rows[p] \in goesLeft})

\* Mutant: the scan of the block counts is inclusive.
LeftBase_Inclusive(rows, goesLeft, p) ==
  LET block == (p - 1) \div BlockRows
  IN  Lefts(rows, goesLeft, RowsFrom(1, (block + 1) * BlockRows, Len(rows)))

\* metal_partition_scan: the rows going left in the blocks before that of p.
LeftBase(rows, goesLeft, p) ==
  LET block == (p - 1) \div BlockRows
  IN  Lefts(rows, goesLeft, RowsFrom(1, block * BlockRows, Len(rows)))

\* metal_partition_scatter: where the row at p goes.  Its thread starts behind
\* the rows of the threads before it in the block and counts up from there.
Target(rows, goesLeft, p) ==
  LET block  == (p - 1) \div BlockRows
      start  == block * BlockRows
      thread == start + (((p - 1 - start) \div ThreadRows) * ThreadRows)
      total  == Lefts(rows, goesLeft, 1..Len(rows))
      lte    == LeftBase(rows, goesLeft, p)
      before == start + 1 .. thread
      lj     == Lefts(rows, goesLeft, before) + Lefts(rows, goesLeft, (thread + 1)..(p - 1))
      gj     == (thread - start) - Lefts(rows, goesLeft, before)
                + (p - 1 - thread) - Lefts(rows, goesLeft, (thread + 1)..(p - 1))
  IN  IF rows[p] \in goesLeft THEN lte + lj + 1 ELSE total + (start - lte) + gj + 1

\* The output buffer: the rows moved to their targets over what it held.
Scattered(rows, goesLeft) ==
  [q \in DOMAIN buf_indices_ |->
     IF \E p \in 1..Len(rows) : Target(rows, goesLeft, p) = q
     THEN rows[CHOOSE p \in 1..Len(rows) : Target(rows, goesLeft, p) = q]
     ELSE buf_indices_[q]]

\* TryPartitionMetal: a leaf large enough, split on a feature of a dense group.
OnMetal(leaf, f) ==
  /\ f \in UNION setup.dense
  /\ Count(leaf) > 0 /\ Count(leaf) >= setup.minPartition

\* What the CPU's partition makes of one side of a split: its rows, in order.
Kept(rows, S) == InOrder(rows, {p \in DOMAIN rows : rows[p] \in S})

\* PartitionLeaf, and the split of the tree.
PartitionLeaf(leaf, f, goesLeft) ==
  /\ pc = "split" /\ numLeaves < MaxLeaves /\ leaf < numLeaves
  /\ LET rows == leafRows[leaf]
         n == Lefts(rows, goesLeft, 1..Len(rows))
         out == IF OnMetal(leaf, f) THEN SubSeq(Scattered(rows, goesLeft), 1, Len(rows))
                ELSE Kept(rows, goesLeft) \o Kept(rows, ToSet(rows) \ goesLeft)
     IN  /\ n \in 1..(Len(rows) - 1)
         /\ buf_indices_' = IF OnMetal(leaf, f) THEN Scattered(rows, goesLeft) ELSE buf_indices_
         /\ leafRows' = [leafRows EXCEPT ![leaf] = SubSeq(out, 1, n),
                                         ![numLeaves] = SubSeq(out, n + 1, Len(rows))]
  /\ numLeaves' = numLeaves + 1
  /\ left' = leaf /\ right' = numLeaves
  /\ is_used' = {} /\ use_subtract' = FALSE /\ which' = "smaller" /\ hist' = Unbuilt
  /\ pc' = IF numLeaves' < MaxLeaves THEN "find" ELSE "split"
  /\ UNCHANGED <<setup, num_data_, use_bagging_, bag, treeFeatures,
                 buf_grads_, buf_hess_, captured, flight>>

\* The tree is done.  Its gradients, and the rows of its leaves, are worth
\* nothing to the next one, whatever the buffers still hold of them.
EndTree ==
  /\ pc = "split"
  /\ pc' = "idle"
  /\ leafRows' = [l \in Leaves |-> <<>>]
  /\ numLeaves' = 1 /\ left' = 0 /\ right' = None /\ treeFeatures' = {}
  /\ is_used' = {} /\ use_subtract' = FALSE /\ which' = "smaller"
  /\ ForgetBuffers
  /\ hist' = Unbuilt
  /\ UNCHANGED <<setup, num_data_, use_bagging_, bag, captured, flight>>

Next ==
  \/ SetBag \/ SetCopy \/ ResetTrainingData
  \/ BeforeTrain \/ BeforeFindBestSplit \/ Skip
  \/ ConstructSerially \/ Construct \/ RunKernel \/ ConstructOnCpu \/ WaitAndGet
  \/ \E leaf \in Leaves, f \in Features :
       \E goesLeft \in SUBSET ToSet(leafRows[leaf]) : PartitionLeaf(leaf, f, goesLeft)
  \/ EndTree

Spec == Init /\ [][Next]_vars
-----------------------------------------------------------------------------
MetalTypeOK ==
  /\ setup \in Setups
  /\ pc \in {"idle", "find", "launch", "cpu", "wait", "split"}
  /\ num_data_ \in 1..NumData /\ use_bagging_ \in BOOLEAN
  /\ \A p \in DOMAIN bag : bag[p] \in 1..num_data_
  /\ \A l \in Leaves : \A p \in DOMAIN leafRows[l] : leafRows[l][p] \in 1..num_data_
  /\ numLeaves \in 1..MaxLeaves /\ left \in Leaves /\ right \in Leaves \cup {None}
  /\ treeFeatures \subseteq Features /\ is_used \subseteq Features
  /\ use_subtract \in BOOLEAN /\ which \in Children /\ captured \in BOOLEAN
  /\ \A b \in {buf_indices_, buf_grads_, buf_hess_} :
       \A p \in 1..NumData : b[p] \in 1..num_data_ \cup {Stale}
  /\ flight # Nothing => flight.child = which /\ pc \in {"cpu", "wait"}

\* A search judges a leaf by its own rows: when the histograms of a leaf are
\* complete, every feature the tree may use holds each row of the leaf once,
\* with that row's gradient and hessian of this tree, whether the device or
\* the CPU built it, from staged, restaged or whole buffers.
HistogramsOfOwnRows ==
  pc = "split" =>
    \A c \in Children : \A f \in is_used \cap treeFeatures :
      c = "smaller" \/ LargerNeeded => hist[c][f] = EntriesOf(leafRows[LeafOf(c)])

\* Partitions of the device and of the CPU are the same stable partition: the
\* leaves together hold the rows of the root, each in ascending order.
LeavesInOrder ==
  pc # "idle" =>
    /\ \A l \in Leaves : \A p, q \in DOMAIN leafRows[l] :
         p < q => leafRows[l][p] < leafRows[l][q]
    /\ UNION {ToSet(leafRows[l]) : l \in Leaves} = ToSet(RootRows)
    /\ \A k, l \in Leaves : k # l => ToSet(leafRows[k]) \cap ToSet(leafRows[l]) = {}
=============================================================================
