--------------------------------- MODULE RF ---------------------------------
(***************************************************************************)
(* Random forest mode (rf.hpp): the boosting loop with scores that are not *)
(* sums but averages over the rounds.  Gradients are computed once, from   *)
(* a constant; every tree carries that constant as its bias.  Each change  *)
(* multiplies the scores with the number of rounds, adds or subtracts a    *)
(* tree, and divides by the new number of rounds, class by class.          *)
(*                                                                         *)
(* Scores are contributions per round as in GBDT, already divided.  Leaf   *)
(* and Bias are multiples of every number of rounds up to MaxRounds, so    *)
(* that every division is exact.  Every class is one that needs training.  *)
(***************************************************************************)
EXTENDS GBDT

CONSTANTS
  Leaf,    \* the learned output of a tree and a row
  Forests  \* setups of GBDT

VARIABLES
  init_scores  \* init_scores_, the same for every class

forest_vars == <<vars, init_scores>>

\* An objective is demanded, and no initial scores unless a model was loaded.
IsForest(s) == s \in Setups /\ s.objective /\ (s.initScore <=> s.numInit > 0)

\* Merged rounds stay in front while data may arrive.
SoundForest(s) == s.lateData => s.numInit = 0 \/ ~s.mayShuffle

ASSUME ForestAssumption ==
  /\ Leaf \in Int
  /\ \A n \in 1..MaxRounds : Leaf % n = 0 /\ Bias % n = 0
  /\ \A s \in Forests : IsForest(s)

\* The rounds scores are averages of, merged ones included.
Rounds == iter + NumInit

\* MultiplyScore with n and with 1/n, for one class.
Times(sums, n) == [i \in RoundId |-> [leaves |-> sums[i].leaves * n, bias |-> sums[i].bias * n]]
DividedBy(sums, n) ==
  [i \in RoundId |-> [leaves |-> sums[i].leaves \div n, bias |-> sums[i].bias \div n]]

\* What Init, AddValidDataset and ResetTrainingData make of the sums they
\* start from.  Mutant: they stay sums.
Averaged_Not(score) == score
Averaged(score) ==
  IF Rounds = 0 THEN score ELSE [c \in Class |-> DividedBy(score[c], Rounds)]

-----------------------------------------------------------------------------
Loaded(n) == [id |-> n, tree |-> [c \in Class |-> [leaves |-> Leaf, bias |-> 0]]]

\* Initial scores are what the merged rounds predict before averaging.
GivenScore ==
  [c \in Class |-> [i \in RoundId |->
     IF i <= NumInit THEN [leaves |-> Leaf, bias |-> 0] ELSE Zero]]

\* Gradients are computed once, at this score, for all iterations to come.
Boosting == StartingScore

ForestInit ==
  /\ setup \in Forests
  /\ models = [i \in 1..NumInit |-> Loaded(i)]
  /\ iter = 0 /\ rate = 1
  /\ train_score = Averaged(GivenScore)
  /\ valid_score = <<>>
  /\ born = NumInit
  /\ init_scores = Boosting

-----------------------------------------------------------------------------
\* A tree without a split that is not of the first round is left out: it
\* predicts the output of the root, but no score gets it, nor is divided by
\* the new number of rounds.
MayGrow(split) ==
  /\ born < MaxRounds
  /\ models # <<>> => split = Class
  /\ split # {} => HasFeatures

\* In the first round a tree without a split is made a constant of zero.
ForestTrees(split) ==
  [c \in Class |-> IF c \in split THEN [leaves |-> Leaf, bias |-> init_scores] ELSE Zero]

\* Mutant: the average is taken for a sum.
WithTree_NotScaled(sums, id, tree) == DividedBy([sums EXCEPT ![id] = Plus(@, tree)], Rounds + 1)
WithTree(sums, id, tree) ==
  DividedBy([Times(sums, Rounds) EXCEPT ![id] = Plus(@, tree)], Rounds + 1)

Grown(score, split, id) ==
  [c \in Class |-> WithTree(score[c], id, ForestTrees(split)[c])]

\* Every iteration is kept, also one without any split.
ForestTrainOneIter(split) ==
  /\ MayGrow(split)
  /\ born' = born + 1
  /\ models' = Append(models, [id |-> born', tree |-> ForestTrees(split)])
  /\ train_score' = Grown(train_score, split, born')
  /\ valid_score' = [v \in DOMAIN valid_score |-> Grown(valid_score[v], split, born')]
  /\ iter' = iter + 1
  /\ UNCHANGED <<setup, rate, init_scores>>

-----------------------------------------------------------------------------
\* Mutant: the rest is divided by the old number of rounds.
Remaining_All == Rounds
Remaining == Rounds - 1

WithoutRound(score, r) ==
  [c \in Class |-> DividedBy([Times(score[c], Rounds) EXCEPT ![r.id] = Plus(@, Negated(r.tree[c]))],
                             Remaining)]

\* A rollback to no rounds divides by zero, which leaves no number in the
\* scores for good; it is left out.
ForestRollbackOneIter ==
  /\ CanRollback /\ Rounds > 1
  /\ LET r == models[Len(models)]
     IN  /\ train_score' = WithoutRound(train_score, r)
         /\ valid_score' = [v \in DOMAIN valid_score |-> WithoutRound(valid_score[v], r)]
  /\ models' = SubSeq(models, 1, Len(models) - 1)
  /\ iter' = iter - 1
  /\ UNCHANGED <<setup, rate, born, init_scores>>

ForestReplayed ==
  LET rounds == SubSeq(models, ReplayFrom, NumInit + iter)
  IN  Averaged([c \in Class |-> [i \in RoundId |-> Plus(GivenScore[c][i], InModels(c, i, rounds))]])

ForestAddValidDataset ==
  /\ Len(valid_score) < MaxValid
  /\ LateData \/ born = NumInit
  /\ valid_score' = Append(valid_score, ForestReplayed)
  /\ UNCHANGED <<setup, rate, models, iter, train_score, born, init_scores>>

\* With other data than before.  The same data again, for a new objective,
\* would have its scores divided a second time.
ForestResetTrainingData ==
  /\ LateData
  /\ train_score' = ForestReplayed
  /\ init_scores' = Boosting
  /\ UNCHANGED <<setup, rate, models, iter, valid_score, born>>

ForestNext ==
  \/ \E split \in SUBSET Class : ForestTrainOneIter(split)
  \/ ForestRollbackOneIter
  \/ ForestAddValidDataset
  \/ ForestResetTrainingData
  \/ ShuffleModels /\ UNCHANGED init_scores

ForestSpec == ForestInit /\ [][ForestNext]_forest_vars

-----------------------------------------------------------------------------
(* Properties *)

ForestTypeOK ==
  /\ setup \in Forests
  /\ models \in Seq(Round) /\ Len(models) = Rounds
  /\ iter \in Nat /\ init_scores \in {0, Bias} /\ born \in NumInit..MaxRounds
  /\ train_score \in Score /\ valid_score \in Seq(Score)

\* A score is the average of what the rounds of the model predict.
IsAverage(score) ==
  \A c \in Class : Times(score[c], Rounds) = [i \in RoundId |-> InModels(c, i, models)]

\* Between two calls training and validation scores are averages over all
\* rounds of the model, which is what a prediction returns (rf.hpp,
\* MultiplyScore around every AddScore; boosting.h, average_output_): after
\* rollbacks, for data that came late, and for classes whose first trees have
\* no split.
ForestInv ==
  /\ ForestTypeOK
  /\ Rounds > 0 => /\ IsAverage(train_score)
                   /\ \A v \in DOMAIN valid_score : IsAverage(valid_score[v])
=============================================================================
