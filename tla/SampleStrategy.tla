-------------------------- MODULE SampleStrategy ---------------------------
(***************************************************************************)
(* The rows a tree is trained on (src/src/boosting/bagging.hpp, goss.hpp)  *)
(* and the three parties that must agree on them: the sampler, which draws *)
(* a bag; the tree learner, which keeps a pointer to the bag or to a copy  *)
(* of its rows (serial_tree_learner.h SetBaggingData); and GBDT, which     *)
(* hands over gradients and adds the tree to the score of every row, the   *)
(* rows left out of the bag included (gbdt.cpp TrainOneIter, UpdateScore). *)
(* Parameters may be reset between any two iterations.                     *)
(*                                                                         *)
(* The code does not bring the parties back into step after everything a   *)
(* caller may do.  What it does not handle is recorded in lapses, and the  *)
(* properties say that as long as there is none, all is well.              *)
(***************************************************************************)
EXTENDS Integers, FiniteSets, Sequences

CONSTANTS
  NumData,   \* rows of the training data
  Setups,    \* [strategy, narrow, byQuery, configs]: what stays the same
  MaxIter    \* bounds iter

VARIABLES
  setup,
  config,             \* config_ of GBDT and of the sampler
  iter,               \* iter_
  need_re_bagging,    \* need_re_bagging_
  bag_data_cnt,       \* bag_data_cnt_
  bag_data_indices,   \* the buffer of bag_data_indices_, also after a clear
  cleared,            \* bag_data_indices_ has size 0
  is_use_subset,      \* is_use_subset_
  balanced_bagging,   \* balanced_bagging_
  tmp_subset,         \* rows of tmp_subset_
  learner,            \* [data, used, cnt]: train_data_ and used_data_indices_
  bagged,             \* the bag of the current iteration is settled
  rule,               \* how the bag in use was drawn
  tree,               \* what became of the last tree: [own, added, obeys]
  lapses              \* what callers did that the code does not handle

sampler == <<need_re_bagging, bag_data_cnt, bag_data_indices, cleared, is_use_subset,
             balanced_bagging, tmp_subset>>
vars == <<setup, config, iter, sampler, learner, bagged, rule, tree, lapses>>

Rows == 0..(NumData - 1)
Goss == setup.strategy = "goss"

\* A configuration: how rows are chosen ("all", "plain", "balanced", "goss"),
\* the expected size of the bag, bagging_freq, and for GOSS the first
\* iteration that samples, int(1 / learning_rate).
Bags(c) == c.choose \in {"plain", "balanced"} /\ c.freq > 0

\* GOSS refuses bagging parameters (CHECK in its ResetSampleConfig).
IsConfig(c, strategy) ==
  /\ c.choose \in IF strategy = "goss" THEN {"goss"} ELSE {"all", "plain", "balanced"}
  /\ c.cnt \in 0..NumData /\ c.freq \in Nat /\ c.start \in Nat

ASSUME SampleAssumption ==
  /\ NumData \in Nat /\ MaxIter \in Nat
  /\ \A s \in Setups : /\ s.strategy \in {"bagging", "goss"}
                       /\ s.narrow \in BOOLEAN /\ s.byQuery \in BOOLEAN
                       /\ \A c \in s.configs : IsConfig(c, s.strategy)

\* Rows in ascending order.
Ascending(rows) ==
  CHOOSE s \in [1..Cardinality(rows) -> rows] :
    \A i, j \in 1..Cardinality(rows) : i < j => s[i] < s[j]
ArrayOf(seq) == [p \in 0..(Len(seq) - 1) |-> seq[p + 1]]
Zeros == [p \in Rows |-> 0]
\* own: each row was used with its own gradient; added: how often the score
\* of a row received the tree; obeys: the rows are those the parameters ask for.
NoTree == [own |-> TRUE, added |-> [r \in Rows |-> 1], obeys |-> TRUE]
\* Reading a data set that was deleted, or positions of one array in another.
Undefined == [own |-> FALSE, added |-> Zeros, obeys |-> FALSE]

-----------------------------------------------------------------------------
(* ResetSampleConfig *)

\* average_bag_rate <= 0.5: a copy of the rows is made instead of a pointer.
CopiesRows(c) ==
  IF Goss THEN 2 * c.cnt <= NumData
  ELSE setup.narrow /\ 2 * c.cnt <= NumData * c.freq

SameBagging(c) == c.choose = config.choose /\ c.cnt = config.cnt /\ c.freq = config.freq

\* Mutant: a change of the bagging parameters does not ask for a new bag.
EnableBagging_NoReBag(c) ==
  /\ need_re_bagging' = FALSE
  /\ bag_data_cnt' = c.cnt
  /\ bag_data_indices' = IF cleared THEN Zeros ELSE bag_data_indices
  /\ cleared' = FALSE
  /\ is_use_subset' = CopiesRows(c)
  /\ balanced_bagging' = (balanced_bagging \/ c.choose = "balanced")
  /\ UNCHANGED tmp_subset

\* Until the next bag is drawn bag_data_cnt is its expected size.
EnableBagging(c) ==
  /\ need_re_bagging' = TRUE
  /\ bag_data_cnt' = c.cnt
  /\ bag_data_indices' = IF cleared THEN Zeros ELSE bag_data_indices
  /\ cleared' = FALSE
  /\ is_use_subset' = CopiesRows(c)
  /\ balanced_bagging' = (balanced_bagging \/ c.choose = "balanced")
  /\ UNCHANGED tmp_subset

KeepBagging ==
  /\ need_re_bagging' = FALSE
  /\ UNCHANGED <<bag_data_cnt, bag_data_indices, cleared, is_use_subset,
                 balanced_bagging, tmp_subset>>

\* Mutant: the copy of the rows stays in use.
DisableBagging_KeepSubset ==
  /\ bag_data_cnt' = NumData
  /\ cleared' = TRUE
  /\ UNCHANGED <<need_re_bagging, bag_data_indices, is_use_subset, balanced_bagging, tmp_subset>>

DisableBagging ==
  /\ bag_data_cnt' = NumData
  /\ cleared' = TRUE
  /\ is_use_subset' = FALSE
  /\ UNCHANGED <<need_re_bagging, bag_data_indices, balanced_bagging, tmp_subset>>

\* A new, empty tmp_subset_ replaces the one the learner may be using.
ResetGoss(c) ==
  /\ balanced_bagging' = FALSE
  /\ bag_data_indices' = IF cleared THEN Zeros ELSE bag_data_indices
  /\ cleared' = FALSE
  /\ is_use_subset' = CopiesRows(c)
  /\ tmp_subset' = IF CopiesRows(c) THEN <<>> ELSE tmp_subset
  /\ bag_data_cnt' = NumData
  /\ UNCHANGED need_re_bagging

ResetSampleConfig(c, is_change_dataset) ==
  \/ Goss /\ ResetGoss(c)
  \/ ~Goss /\ Bags(c) /\ ~is_change_dataset /\ SameBagging(c) /\ KeepBagging
  \/ ~Goss /\ Bags(c) /\ (is_change_dataset \/ ~SameBagging(c)) /\ EnableBagging(c)
  \/ ~Goss /\ ~Bags(c) /\ DisableBagging

-----------------------------------------------------------------------------
(* Bagging *)

\* The learner has been given a bag.
HasBag == learner.used \/ learner.data # "full"

DrawsNow ==
  IF Goss THEN iter >= config.start
  ELSE Bags(config) /\ (need_re_bagging \/ (bag_data_cnt < NumData /\ iter % config.freq = 0))

\* The bags the random numbers may choose.  Balanced bagging is never switched
\* off again and compares with fractions that then are 1.
PossibleBags ==
  IF Goss THEN (SUBSET Rows) \ {{}}
  ELSE IF balanced_bagging /\ config.choose = "plain" THEN {Rows}
  ELSE SUBSET Rows

\* Bagging by query writes the rows of the queries it chose and no others.
IndicesWith(bag) ==
  IF setup.byQuery
    THEN [p \in Rows |->
            IF p < Cardinality(bag) THEN Ascending(bag)[p + 1] ELSE bag_data_indices[p]]
    ELSE ArrayOf(Ascending(bag) \o Ascending(Rows \ bag))

\* SetBaggingData.
LearnerWith(cnt) ==
  IF is_use_subset THEN [learner EXCEPT !.data = "subset"]
  ELSE [learner EXCEPT !.used = TRUE, !.cnt = cnt]

\* The start of an iteration: a bag is drawn, if one is due.
Draw(bag) ==
  /\ DrawsNow
  /\ bag_data_cnt' = Cardinality(bag)
  /\ bag_data_indices' = IndicesWith(bag)
  /\ tmp_subset' = IF is_use_subset THEN Ascending(bag) ELSE tmp_subset
  /\ learner' = LearnerWith(Cardinality(bag))
  /\ need_re_bagging' = FALSE
  /\ rule' = IF Goss THEN "goss" ELSE IF balanced_bagging THEN "balanced" ELSE "plain"
  /\ lapses' = (lapses \ {"request lost", "sampling stopped"}) \cup
               (IF setup.byQuery /\ ~is_use_subset THEN {"by query"} ELSE {})
  /\ UNCHANGED <<cleared, is_use_subset, balanced_bagging>>

\* GOSS trains on all rows in its first iterations, but does not tell the
\* learner, which may know a bag from before a reset or a rollback.
DrawNothing ==
  /\ ~DrawsNow
  /\ bag_data_cnt' = IF Goss THEN NumData ELSE bag_data_cnt
  /\ lapses' = lapses \cup
       (IF Goss /\ HasBag THEN {"sampling stopped"} ELSE {})
  /\ UNCHANGED <<bag_data_indices, cleared, is_use_subset, balanced_bagging, tmp_subset,
                 learner, need_re_bagging, rule>>

Bagging ==
  /\ ~bagged /\ iter < MaxIter
  /\ (\E bag \in PossibleBags : Draw(bag)) \/ DrawNothing
  /\ bagged' = TRUE
  /\ tree' = NoTree
  /\ UNCHANGED <<setup, config, iter>>

-----------------------------------------------------------------------------
(* Training a tree *)

\* Local numbers of the rows in the learner's partition, in order.
LocalRows ==
  IF learner.used THEN [j \in 1..learner.cnt |-> bag_data_indices[j - 1]]
  ELSE IF learner.data = "subset" THEN [j \in 1..Len(tmp_subset) |-> j - 1]
  ELSE [j \in 1..NumData |-> j - 1]

RowOf(local) == IF learner.data = "subset" THEN tmp_subset[local + 1] ELSE local

\* The row whose gradient is at each position after GBDT has moved the
\* gradients of the bag to the front of the same array, one after another.
Moved[k \in 0..bag_data_cnt] ==
  IF k = 0 THEN [r \in Rows |-> r]
  ELSE [Moved[k - 1] EXCEPT ![k - 1] = Moved[k - 1][bag_data_indices[k - 1]]]

\* Mutant: the gradients stay where they are.
GradientOf_Unmoved(local) == local
GradientOf(local) ==
  IF is_use_subset /\ bag_data_cnt < NumData THEN Moved[bag_data_cnt][local] ELSE local

\* How often a row's score receives the tree: with a copy, every row once;
\* otherwise the local rows by the learner and then the rows left out.
\* Mutant: the rows left out are not scored.
TimesAdded_BagOnly(r) ==
  IF is_use_subset THEN 1
  ELSE Cardinality({j \in DOMAIN LocalRows : LocalRows[j] = r})
TimesAdded(r) ==
  IF is_use_subset THEN 1
  ELSE Cardinality({j \in DOMAIN LocalRows : LocalRows[j] = r})
     + Cardinality({p \in bag_data_cnt..(NumData - 1) : bag_data_indices[p] = r})

\* A partition may only hold local numbers of the data it divides.
Defined == learner.data = "full" \/ (learner.data = "subset" /\ ~learner.used)

BagRows == {bag_data_indices[p] : p \in 0..(bag_data_cnt - 1)}
\* The rows the parameters ask for, drawn the way they ask for.
AskedFor(rows) ==
  /\ rows = IF (Goss /\ iter >= config.start) \/ (~Goss /\ Bags(config))
              THEN BagRows ELSE Rows
  /\ Bags(config) => rule = config.choose

TrainedRows == {RowOf(LocalRows[j]) : j \in DOMAIN LocalRows}

Trained ==
  IF ~Defined THEN Undefined
  ELSE [own   |-> \A j \in DOMAIN LocalRows : GradientOf(LocalRows[j]) = RowOf(LocalRows[j]),
        added |-> [r \in Rows |-> TimesAdded(r)],
        obeys |-> AskedFor(TrainedRows)]

\* The rest of TrainOneIter, when a split was found, which takes two rows, and
\* when none was.
TrainTree ==
  /\ bagged /\ bagged' = FALSE
  /\ Defined => Cardinality(TrainedRows) >= 2
  /\ tree' = Trained
  /\ iter' = iter + 1
  /\ UNCHANGED <<setup, config, sampler, learner, rule, lapses>>

TrainStump ==
  /\ bagged /\ bagged' = FALSE
  /\ tree' = IF Defined THEN NoTree ELSE Undefined
  /\ UNCHANGED <<setup, config, iter, sampler, learner, rule, lapses>>

RollbackOneIter ==
  /\ ~bagged /\ iter > 0
  /\ iter' = iter - 1
  /\ tree' = NoTree
  /\ UNCHANGED <<setup, config, sampler, learner, bagged, rule, lapses>>

-----------------------------------------------------------------------------
(* Resets *)

\* What a reset to c asks for and does not get.
Lapse(c) ==
     (IF ~Goss /\ HasBag /\ ~Bags(c) THEN {"switched off"} ELSE {})
\cup (IF (learner.used /\ CopiesRows(c)) \/ (learner.data # "full" /\ ~CopiesRows(c))
        THEN {"other kind of bag"} ELSE {})
\cup (IF ~Goss /\ Bags(c) /\ SameBagging(c) /\ need_re_bagging
        THEN {"request lost"} ELSE {})
\cup (IF balanced_bagging /\ c.choose = "plain" THEN {"balanced for good"} ELSE {})
\cup (IF learner.data = "freed" THEN {"subset deleted"} ELSE {})

\* GBDT::ResetConfig: the learner reads its data set, then the sampler resets.
ResetConfig(c) ==
  /\ ~bagged
  /\ lapses' = lapses \cup Lapse(c)
  /\ tree' = IF learner.data = "freed" THEN Undefined ELSE tree
  /\ ResetSampleConfig(c, FALSE)
  /\ learner' = IF Goss /\ CopiesRows(c) /\ learner.data = "subset"
                  THEN [learner EXCEPT !.data = "freed"] ELSE learner
  /\ config' = c
  /\ UNCHANGED <<setup, iter, bagged, rule>>

\* GBDT::ResetTrainingData: other rows, as many as before; scores are replayed
\* from the models.  The learner keeps the pointer it has.
ResetTrainingData ==
  /\ ~bagged
  /\ learner' = [learner EXCEPT !.data = "full"]
  /\ ResetSampleConfig(config, TRUE)
  /\ tree' = NoTree
  /\ UNCHANGED <<setup, config, iter, bagged, rule, lapses>>

\* GBDT::Init.
Init ==
  /\ setup \in Setups
  /\ config \in setup.configs
  /\ iter = 0
  /\ need_re_bagging = (~Goss /\ Bags(config))
  /\ bag_data_cnt = IF ~Goss /\ Bags(config) THEN config.cnt ELSE NumData
  /\ bag_data_indices = Zeros
  /\ cleared = (~Goss /\ ~Bags(config))
  /\ is_use_subset = ((Goss \/ Bags(config)) /\ CopiesRows(config))
  /\ balanced_bagging = (config.choose = "balanced" /\ Bags(config))
  /\ tmp_subset = <<>>
  /\ learner = [data |-> "full", used |-> FALSE, cnt |-> 0]
  /\ bagged = FALSE
  /\ rule = "none"
  /\ tree = NoTree
  /\ lapses = {}

Next ==
  \/ Bagging
  \/ TrainTree
  \/ TrainStump
  \/ RollbackOneIter
  \/ \E c \in setup.configs : ResetConfig(c)
  \/ ResetTrainingData

Spec == Init /\ [][Next]_vars

-----------------------------------------------------------------------------
(* Properties *)

\* Types; a cleared buffer is used for nothing.
TypeOK ==
  /\ setup \in Setups /\ config \in setup.configs /\ iter \in 0..MaxIter
  /\ need_re_bagging \in BOOLEAN /\ bagged \in BOOLEAN /\ balanced_bagging \in BOOLEAN
  /\ cleared \in BOOLEAN /\ is_use_subset \in BOOLEAN
  /\ bag_data_cnt \in 0..NumData
  /\ bag_data_indices \in [Rows -> Rows]
  /\ Len(tmp_subset) <= NumData
  /\ learner \in [data : {"full", "subset", "freed"}, used : BOOLEAN, cnt : 0..NumData]
  /\ cleared => bag_data_cnt = NumData /\ ~is_use_subset

\* A row is never trained with the gradient of another row, although the
\* gradients of a bag are moved within the array they are read from.
OwnGradients == lapses = {} => tree.own

\* Every tree is added to the training score of every row exactly once,
\* whether the learner knows the row or not.
ScoredOnce == lapses = {} => \A r \in Rows : tree.added[r] = 1

\* What a tree is trained with and what it is added to belong together: own
\* gradients, and every row once (gbdt.cpp, TrainOneIter, UpdateScore).
RowsInStep == OwnGradients /\ ScoredOnce

\* The learner trains on the bag that was drawn last, drawn as the current
\* parameters say, and on all rows when they say there is no bag.
ObeysConfig == lapses = {} => tree.obeys
=============================================================================
