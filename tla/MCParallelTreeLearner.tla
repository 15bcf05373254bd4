----------------------- MODULE MCParallelTreeLearner -----------------------
(***************************************************************************)
(* Two machines with three and two of five rows, or three machines with    *)
(* two, two and one (one of them then has no feature to judge), and three  *)
(* features with any two thresholds, the third one fixed.  Of two trees    *)
(* one is bagged: the second machine has no row in it.  In a tree of four  *)
(* rows both leaves can be too small to search while splits are left, so   *)
(* that a machine makes several splits before the next one makes any.      *)
(* All rows weigh the same, or the first row weighs six times as much: the *)
(* counts a split is judged by and leaves behind are then not the rows'.   *)
(***************************************************************************)
EXTENDS ParallelTreeLearner

CONSTANTS Modes, Plans

TwoMachines == 0 :> {1, 2, 3} @@ 1 :> {4, 5}
ThreeMachines == 0 :> {1, 2} @@ 1 :> {3, 4} @@ 2 :> {5}

Tree(b, fs) == [bag |-> b, used |-> fs]
AllRowsTwice == <<Tree(1..5, {0, 1, 2}), Tree({1, 2, 3}, {0, 2})>>
FourRows == <<Tree(1..4, {0, 1, 2})>>

MCPlans == {AllRowsTwice, FourRows}

Sets == {s \in SUBSET (1..5) : 1 \in s}

SumOf(weight) == [S \in SUBSET (1..5) |-> MapThenSumSet(LAMBDA r : weight[r], S)]
Constant == SumOf(<<1, 1, 1, 1, 1>>)
Weighty == SumOf(<<6, 1, 1, 1, 1>>)

MCJobs ==
  {[mode |-> mo, own |-> ow, goLeft |-> 0 :> a @@ 1 :> b @@ 2 :> {1, 4}, hess |-> he, plan |-> pl] :
     mo \in Modes, ow \in {TwoMachines, ThreeMachines}, he \in {Constant, Weighty},
     pl \in Plans, a \in Sets, b \in Sets}
NumBinOf == 0 :> 2 @@ 1 :> 3 @@ 2 :> 2
============================================================================
