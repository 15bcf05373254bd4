------------------------------ MODULE Booster ------------------------------
(***************************************************************************)
(* A booster behind the C API (c_api.cpp): calls of several threads that   *)
(* train, change, save and predict with the same model.                    *)
(*                                                                         *)
(* The class Booster takes mutex_ for writing in calls that change the     *)
(* model and for reading in batch predictions.  But the range of rounds a  *)
(* prediction uses is kept in the boosting object, where the constructor   *)
(* of every Predictor writes it (GBDT::InitPredict), also the one that     *)
(* only holds the lock for reading, and predictors for single rows outlive *)
(* the call that made them.                                                *)
(*                                                                         *)
(* A change that copies or fits every tree does so tree by tree, and a     *)
(* model is saved tree by tree, without any lock.                          *)
(*                                                                         *)
(* There is one tree per round.  A tree is known by a number that changes  *)
(* with its leaf values.  Trees have splits.  A batch has one row.         *)
(***************************************************************************)
EXTENDS Integers, Sequences, FiniteSets, SequencesExt, SharedMutex

CONSTANTS
  Threads,
  FastConfigs,   \* handles of fast single-row predictors
  Setups,        \* what clients may do, and how often
  MaxModels      \* bound on the rounds of a model

VARIABLES
  setup,         \* a member of Setups
  models,        \* GBDT::models_
  iter,          \* GBDT::iter_
  made,          \* numbers given to trees so far
  original,      \* original_models; also the model before a refit
  coming,        \* the trees models_ is being refilled with
  range,         \* start_iteration_for_pred_ and num_iteration_for_pred_
  models_initialized,
  inner,         \* single_row_predictor_, by type of prediction
  fast,          \* fast single-row predictors
  lock,          \* Booster::mutex_ and each single_row_predictor_mutex
  pc, call,      \* where each thread is, in which call
  local,         \* its clamped start_iteration, or the index of its loop
  answer,        \* what its call is about to return
  possible,      \* trees its call may be about: one set for each model there
                 \* was since it began (a history variable)
  calls          \* calls begun

work    == <<iter, made, original, coming>>
model   == <<models, work>>
booster == <<model, range, models_initialized, inner, fast>>
vars == <<setup, models, iter, made, original, coming, range, models_initialized, inner,
          fast, lock, pc, call, local, answer, possible, calls>>

Types     == {"normal", "leaf", "contrib"}
ReadCalls == {"predict", "single", "fast init", "fast", "save"}
Changes   == {"train", "rollback", "merge", "shuffle", "set leaf", "refit"}

\* A setup: the calls each thread may make, how many of them, and the rounds
\* there are when the threads start.
IsCall(c) == /\ DOMAIN c = {"op", "type", "start", "num", "handle"}
             /\ c.op \in ReadCalls \cup Changes /\ c.type \in Types
             /\ c.start \in Int /\ c.num \in Int /\ c.handle \in FastConfigs

BoosterMutex == "booster"
Locks == {BoosterMutex} \cup FastConfigs

ASSUME BoosterAssumption ==
  /\ MaxModels \in Nat
  /\ FastConfigs # {} /\ BoosterMutex \notin FastConfigs
  /\ \A s \in Setups :
       /\ s.rounds \in 0..MaxModels
       /\ s.most \in [Threads -> Nat]
       /\ \A t \in Threads : \A c \in s.calls[t] : IsCall(c)

Tree == [id : Nat, depth : BOOLEAN]   \* depth: max_depth_ is known
Range2 == [start : Nat, num : Int]
None == [made |-> FALSE, num |-> 0, total |-> 0, told |-> 0, type |-> "normal"]
Predictor == [made : BOOLEAN, num : Int, total : Nat, told : Nat, type : Types]
NoCall == [op |-> "save", type |-> "normal", start |-> 0, num |-> 0,
           handle |-> CHOOSE f \in FastConfigs : TRUE]
NoAnswer == [status |-> "none", trees |-> <<>>, told |-> 0]

NewTree(n) == [id |-> n, depth |-> FALSE]
Ids(ms) == [i \in DOMAIN ms |-> ms[i].id]
Lesser(a, b) == IF a < b THEN a ELSE b
Greater(a, b) == IF a < b THEN b ELSE a

\* The rounds a caller asks for with start_iteration and num_iteration.
First(ms, c) == Lesser(Greater(c.start, 0), Len(ms))
Count(ms, c) == IF c.num > 0 THEN Lesser(c.num, Len(ms) - First(ms, c))
                             ELSE Len(ms) - First(ms, c)
Asked(ms, c) == SubSeq(Ids(ms), First(ms, c) + 1, First(ms, c) + Count(ms, c))

\* The threads in the middle of a change, and the model there is meanwhile for
\* everybody who looks under the lock.
Changing == {t \in Threads : pc[t] \in {"swap", "refill", "refit"}}
Model == IF Changing = {} THEN models ELSE original

Init ==
  /\ setup \in Setups
  /\ models = [i \in 1..setup.rounds |-> NewTree(i)]
  /\ iter = setup.rounds
  /\ made = setup.rounds
  /\ original = <<>> /\ coming = <<>>
  /\ range = [start |-> 0, num |-> 0]
  /\ models_initialized = FALSE
  /\ inner = [y \in Types |-> None]
  /\ fast = [f \in FastConfigs |-> None]
  /\ lock = [m \in Locks |-> Unlocked]
  /\ pc = [t \in Threads |-> "idle"]
  /\ call = [t \in Threads |-> NoCall]
  /\ local = [t \in Threads |-> 0]
  /\ answer = [t \in Threads |-> NoAnswer]
  /\ possible = [t \in Threads |-> {}]
  /\ calls = [t \in Threads |-> 0]
-----------------------------------------------------------------------------
(***************************************************************************)
(* Calls and locks.                                                        *)
(***************************************************************************)
Goto(t, p) == pc' = [pc EXCEPT ![t] = p]

\* Which lock a call asks for first: the fast prediction its own one, changes
\* and single rows the booster's for writing.  Saving takes none.
FirstStep(c) == CASE c.op = "predict" -> "read lock"
                  [] c.op = "fast"    -> "own lock"
                  [] c.op = "save"    -> "count"
                  [] OTHER            -> "write lock"

\* A fast prediction needs a handle, and nobody makes one that is in use.
HandleReady(c) == /\ c.op = "fast" => fast[c.handle].made
                  /\ c.op = "fast init" => ~fast[c.handle].made

Begin(t) ==
  /\ pc[t] = "idle" /\ calls[t] < setup.most[t]
  /\ \E c \in setup.calls[t] :
       /\ HandleReady(c)
       /\ \A u \in Threads \ {t} : pc[u] # "idle" /\ c.op = "fast init" =>
                                   ~(call[u].op = "fast init" /\ call[u].handle = c.handle)
       /\ c.op \in {"train", "merge"} => Len(Model) < MaxModels
       /\ call' = [call EXCEPT ![t] = c]
       /\ possible' = [possible EXCEPT ![t] = {Asked(Model, c)}]
       /\ Goto(t, FirstStep(c))
  /\ calls' = [calls EXCEPT ![t] = @ + 1]
  /\ UNCHANGED <<setup, booster, lock, local, answer>>

\* UNIQUE_LOCK(mutex_): at the start of a call, and once more before the row
\* of a single-row prediction.
TakeForWriting(t, from, m, to) ==
  /\ pc[t] = from /\ t \notin lock[m].waiting
  /\ lock' = [lock EXCEPT ![m] = LookedForWriting(@, t)]
  /\ IF WriterWaits(lock[m]) THEN UNCHANGED pc ELSE Goto(t, to)
  /\ UNCHANGED <<setup, booster, call, local, answer, possible, calls>>

TakeForReading(t) ==
  /\ pc[t] = "read lock" /\ t \notin lock[BoosterMutex].waiting
  /\ lock' = [lock EXCEPT ![BoosterMutex] = LookedForReading(@, t)]
  /\ IF ReaderWaits(lock[BoosterMutex]) THEN UNCHANGED pc
     ELSE Goto(t, IF call[t].op = "fast" THEN "row" ELSE "total")
  /\ UNCHANGED <<setup, booster, call, local, answer, possible, calls>>

\* A call returns and gives back what it holds.
Return(t) ==
  /\ pc[t] = "return"
  /\ lock' = [m \in Locks |->
                CASE call[t].op = "predict" /\ m = BoosterMutex -> ReaderReleased(lock[m])
                  [] call[t].op = "fast" /\ m = BoosterMutex -> ReaderReleased(lock[m])
                  [] call[t].op = "fast" /\ m = call[t].handle -> WriterReleased(lock[m])
                  [] call[t].op \in Changes \cup {"single", "fast init"} /\ m = BoosterMutex ->
                       WriterReleased(lock[m])
                  [] OTHER -> lock[m]]
  /\ Goto(t, "idle")
  /\ call' = [call EXCEPT ![t] = NoCall]
  /\ answer' = [answer EXCEPT ![t] = NoAnswer]
  /\ possible' = [possible EXCEPT ![t] = {}]
  /\ UNCHANGED <<setup, booster, local, calls>>

\* Between its two locks a single-row prediction holds none.
BetweenLocks(t) ==
  /\ pc[t] = "between"
  /\ lock' = [lock EXCEPT ![BoosterMutex] = WriterReleased(@)]
  /\ Goto(t, "write lock again")
  /\ UNCHANGED <<setup, booster, call, local, answer, possible, calls>>
-----------------------------------------------------------------------------
(***************************************************************************)
(* Calls that change the model, under the lock for writing.                *)
(***************************************************************************)
\* Every thread in a call may from now on be answered from the new model.
Becomes(ms) ==
  /\ models' = ms
  /\ possible' = [t \in Threads |-> IF pc[t] = "idle" THEN {}
                                    ELSE possible[t] \cup {Asked(ms, call[t])}]

Train == /\ Becomes(Append(models, NewTree(made + 1)))
         /\ iter' = iter + 1 /\ made' = made + 1

\* Mutant: rounds of a loaded model are rolled back too.
CanRollback_Always == models # <<>>

CanRollback == iter > 0

Rollback == /\ IF CanRollback THEN Becomes(Front(models)) /\ iter' = iter - 1
                              ELSE UNCHANGED <<models, possible, iter>>
            /\ UNCHANGED made

\* CHECK refuses a tree that is not there.
SetLeafValue == /\ IF models = <<>> THEN UNCHANGED <<models, possible, made>>
                   ELSE /\ \E i \in DOMAIN models : Becomes([models EXCEPT ![i].id = made + 1])
                        /\ made' = made + 1
                /\ UNCHANGED iter

Changed(t) == /\ answer' = [answer EXCEPT ![t] = [NoAnswer EXCEPT !.status = "changed"]]
              /\ Goto(t, "return")

\* Changes of one tree.
Change(t) ==
  /\ pc[t] = "locked"
  /\ CASE call[t].op = "train"    -> Train
       [] call[t].op = "rollback" -> Rollback
       [] call[t].op = "set leaf" -> SetLeafValue
       [] OTHER -> FALSE
  /\ Changed(t)
  /\ UNCHANGED <<setup, original, coming, range, models_initialized, inner, fast, lock, call,
                 local, calls>>

\* original_models = std::move(models_): models_ is empty, and is to be filled
\* with copies of other trees.
MoveAway(trees) == original' = models /\ coming' = trees /\ models' = <<>>

\* The other booster has one round; it comes first.
MergeFrom(t) ==
  /\ pc[t] = "locked" /\ call[t].op = "merge"
  /\ MoveAway(<<NewTree(made + 1)>> \o models)
  /\ made' = made + 1
  /\ Goto(t, "refill")
  /\ UNCHANGED <<setup, iter, range, models_initialized, inner, fast, lock, call, local, answer,
                 possible, calls>>

ShuffleModels(t) ==
  /\ pc[t] = "locked" /\ call[t].op = "shuffle"
  /\ MoveAway(models)
  /\ local' = [local EXCEPT ![t] = Greater(call[t].start, 0)]
  /\ Goto(t, "swap")
  /\ UNCHANGED <<setup, iter, made, range, models_initialized, inner, fast, lock, call, answer,
                 possible, calls>>

\* end_iter: no end means all.
End_iter(c) == IF c.num <= 0 THEN Len(coming) ELSE Lesser(Len(coming), c.num)

\* One turn of the loop that swaps an index with a later one, drawn at random.
SwapIndices(t) ==
  /\ pc[t] = "swap" /\ local[t] < End_iter(call[t]) - 1
  /\ \E j \in (local[t] + 2)..End_iter(call[t]) :
       coming' = [coming EXCEPT ![local[t] + 1] = coming[j], ![j] = coming[local[t] + 1]]
  /\ local' = [local EXCEPT ![t] = @ + 1]
  /\ UNCHANGED <<setup, models, iter, made, original, range, models_initialized, inner, fast,
                 lock, pc, call, answer, possible, calls>>

Swapped(t) ==
  /\ pc[t] = "swap" /\ local[t] >= End_iter(call[t]) - 1
  /\ local' = [local EXCEPT ![t] = 0]
  /\ Goto(t, "refill")
  /\ UNCHANGED <<setup, booster, lock, call, answer, possible, calls>>

\* models_.push_back of one copy.
Refill(t) ==
  /\ pc[t] = "refill" /\ Len(models) < Len(coming)
  /\ models' = Append(models, coming[Len(models) + 1])
  /\ UNCHANGED <<setup, work, range, models_initialized, inner, fast, lock, pc, call, local,
                 answer, possible, calls>>

Refilled(t) ==
  /\ pc[t] = "refill" /\ Len(models) = Len(coming)
  /\ Becomes(models)
  /\ range' = IF call[t].op = "merge" THEN [range EXCEPT !.num = Len(models)] ELSE range
  /\ original' = <<>> /\ coming' = <<>>
  /\ Changed(t)
  /\ UNCHANGED <<setup, iter, made, models_initialized, inner, fast, lock, call, local, calls>>

RefitTree(t) ==
  /\ pc[t] = "locked" /\ call[t].op = "refit"
  /\ original' = models
  /\ local' = [local EXCEPT ![t] = 0]
  /\ Goto(t, "refit")
  /\ UNCHANGED <<setup, models, iter, made, coming, range, models_initialized, inner, fast, lock,
                 call, answer, possible, calls>>

\* A tree fitted anew takes the place of the old one, which is freed.
RefitOne(t) ==
  /\ pc[t] = "refit" /\ local[t] < Len(models)
  /\ models' = [models EXCEPT ![local[t] + 1].id = made + 1]
  /\ made' = made + 1
  /\ local' = [local EXCEPT ![t] = @ + 1]
  /\ UNCHANGED <<setup, iter, original, coming, range, models_initialized, inner, fast, lock, pc,
                 call, answer, possible, calls>>

Refitted(t) ==
  /\ pc[t] = "refit" /\ local[t] >= Len(models)
  /\ Becomes(models)
  /\ original' = <<>>
  /\ local' = [local EXCEPT ![t] = 0]
  /\ Changed(t)
  /\ UNCHANGED <<setup, iter, made, coming, range, models_initialized, inner, fast, lock, call,
                 calls>>
-----------------------------------------------------------------------------
(***************************************************************************)
(* Making a predictor.                                                     *)
(***************************************************************************)
\* The end of GBDT::InitPredict: contributions need the depth of every tree,
\* which is computed once (under instance_mutex_).
Depths(c) == c.type = "contrib" /\ ~models_initialized

DepthsOf(c) == IF Depths(c) THEN [i \in DOMAIN models |-> [models[i] EXCEPT !.depth = TRUE]]
                            ELSE models

\* Mutant: num_iteration is not limited by the rounds there are.
Told_Unlimited(c) == IF c.type = "leaf" /\ c.num > 0 THEN c.num ELSE Count(models, c)

\* GBDT::NumPredictOneRow for predictions of leaves: one number per round.
Told(c) == Count(models, c)

\* The constructor of SingleRowPredictorInner, alone under the lock.
Made(c) == [made |-> TRUE, num |-> c.num, total |-> Len(models), told |-> Told(c),
            type |-> c.type]

MakePredictor(c) ==
  /\ range' = [start |-> First(models, c), num |-> Count(models, c)]
  /\ models' = DepthsOf(c)
  /\ models_initialized' = (models_initialized \/ c.type = "contrib")

\* Mutant: a cached predictor is kept however many rounds there are.
IsPredictorEqual_AnyTotal(p, c) == p.num = c.num

\* Neither start_iteration nor anything about the trees but their number.
IsPredictorEqual(p, c) == p.num = c.num /\ p.total = Len(models)

\* Booster::SetSingleRowPredictorInner.
SetSingleRowPredictorInner(t) ==
  /\ pc[t] = "locked" /\ call[t].op = "single"
  /\ LET c == call[t]
         p == inner[c.type]
     IN  IF p.made /\ IsPredictorEqual(p, c)
         THEN UNCHANGED <<models, range, models_initialized, inner>>
         ELSE MakePredictor(c) /\ inner' = [inner EXCEPT ![c.type] = Made(c)]
  /\ Goto(t, "between")
  /\ UNCHANGED <<setup, work, fast, lock, call, local, answer, possible, calls>>

\* Booster::InitSingleRowPredictor.
InitSingleRowPredictor(t) ==
  /\ pc[t] = "locked" /\ call[t].op = "fast init"
  /\ MakePredictor(call[t])
  /\ fast' = [fast EXCEPT ![call[t].handle] = Made(call[t])]
  /\ Changed(t)
  /\ UNCHANGED <<setup, work, inner, lock, call, local, possible, calls>>

\* GBDT::InitPredict by a thread that is not alone: three assignments to the
\* booster, and a start_iteration clamped by what the field holds by then.
InitPredictTotal(t) ==
  /\ pc[t] = "total"
  /\ range' = [range EXCEPT !.num = Len(models)]
  /\ Goto(t, "num")
  /\ UNCHANGED <<setup, model, models_initialized, inner, fast, lock, call, local, answer,
                 possible, calls>>

InitPredictNum(t) ==
  /\ pc[t] = "num"
  /\ LET c == call[t]
         start == Lesser(Greater(c.start, 0), range.num)
     IN  /\ local' = [local EXCEPT ![t] = start]
         /\ range' = [range EXCEPT !.num = IF c.num > 0 THEN Lesser(c.num, range.num - start)
                                                        ELSE range.num - start]
  /\ Goto(t, "start")
  /\ UNCHANGED <<setup, model, models_initialized, inner, fast, lock, call, answer,
                 possible, calls>>

InitPredictStart(t) ==
  /\ pc[t] = "start"
  /\ range' = [range EXCEPT !.start = local[t]]
  /\ local' = [local EXCEPT ![t] = 0]
  /\ Goto(t, "depths")
  /\ UNCHANGED <<setup, model, models_initialized, inner, fast, lock, call, answer,
                 possible, calls>>

InitPredictDepths(t) ==
  /\ pc[t] = "depths"
  /\ models' = DepthsOf(call[t])
  /\ models_initialized' = (models_initialized \/ call[t].type = "contrib")
  /\ Goto(t, "row")
  /\ UNCHANGED <<setup, work, range, inner, fast, lock, call, local, answer, possible,
                 calls>>
-----------------------------------------------------------------------------
(***************************************************************************)
(* Predicting a row with the rounds the booster's fields name by then.     *)
(***************************************************************************)
End == range.start + range.num

\* Rounds past the end of models_ are read from other memory; the depth of a
\* tree that has none fails a CHECK in Tree::PredictContrib.
Predicted(type, told) ==
  LET used == SubSeq(models, range.start + 1, End)
  IN  CASE End > Len(models) -> [status |-> "past the end", trees |-> <<>>, told |-> told]
        [] End <= Len(models) /\ type = "contrib" /\ \E i \in DOMAIN used : ~used[i].depth ->
             [status |-> "failed", trees |-> <<>>, told |-> told]
        [] OTHER -> [status |-> "done", trees |-> Ids(used), told |-> told]

\* Booster::Predict counts its output itself, the predictors for single rows
\* when they are made.
ToldTo(t) == CASE call[t].op = "predict" -> Told(call[t])
               [] call[t].op = "single"  -> inner[call[t].type].told
               [] call[t].op = "fast"    -> fast[call[t].handle].told

PredictRow(t) ==
  /\ pc[t] = "row"
  /\ answer' = [answer EXCEPT ![t] = Predicted(call[t].type, ToldTo(t))]
  /\ Goto(t, "return")
  /\ UNCHANGED <<setup, booster, lock, call, local, possible, calls>>

\* GBDT::SaveModelToString holds no lock.  The range is computed first, then
\* the trees are printed by several threads: in any order, one by one.
SaveCount(t) ==
  /\ pc[t] = "count"
  /\ LET n == Count(models, call[t])
     IN  answer' = [answer EXCEPT ![t] =
                      [status |-> "printing", trees |-> [i \in 1..n |-> 0], told |-> n]]
  /\ local' = [local EXCEPT ![t] = First(models, call[t])]
  /\ Goto(t, "print")
  /\ UNCHANGED <<setup, booster, lock, call, possible, calls>>

Unprinted(t) == {i \in 1..answer[t].told : answer[t].trees[i] = 0}

\* The text of one tree; models_ may have become shorter since.
SavePrint(t) ==
  /\ pc[t] = "print"
  /\ \E i \in Unprinted(t) :
       IF local[t] + i > Len(models)
       THEN /\ answer' = [answer EXCEPT ![t].status = "past the end"]
            /\ Goto(t, "return")
       ELSE /\ answer' = [answer EXCEPT ![t].trees[i] = models[local[t] + i].id]
            /\ UNCHANGED pc
  /\ UNCHANGED <<setup, booster, lock, call, local, possible, calls>>

\* The texts are joined.
SaveJoin(t) ==
  /\ pc[t] = "print" /\ Unprinted(t) = {}
  /\ answer' = [answer EXCEPT ![t].status = "done"]
  /\ local' = [local EXCEPT ![t] = 0]
  /\ Goto(t, "return")
  /\ UNCHANGED <<setup, booster, lock, call, possible, calls>>
-----------------------------------------------------------------------------
\* The step a thread in a call takes next.
Continue(t) ==
  \/ TakeForWriting(t, "write lock", BoosterMutex, "locked")
  \/ TakeForWriting(t, "write lock again", BoosterMutex, "row")
  \/ TakeForWriting(t, "own lock", call[t].handle, "read lock")
  \/ TakeForReading(t)
  \/ Change(t)
  \/ MergeFrom(t) \/ ShuffleModels(t) \/ SwapIndices(t) \/ Swapped(t) \/ Refill(t) \/ Refilled(t)
  \/ RefitTree(t) \/ RefitOne(t) \/ Refitted(t)
  \/ SetSingleRowPredictorInner(t) \/ BetweenLocks(t)
  \/ InitSingleRowPredictor(t)
  \/ InitPredictTotal(t) \/ InitPredictNum(t) \/ InitPredictStart(t) \/ InitPredictDepths(t)
  \/ PredictRow(t)
  \/ SaveCount(t) \/ SavePrint(t) \/ SaveJoin(t)
  \/ Return(t)

Next == \E t \in Threads : Begin(t) \/ Continue(t)

\* A thread in a call is scheduled again and again.
Spec == Init /\ [][Next]_vars /\ \A t \in Threads : WF_vars(Continue(t))
-----------------------------------------------------------------------------
(***************************************************************************)
(* Type correctness (c_api.cpp, the members of Booster; gbdt.h).  In       *)
(* particular iter_ never counts more rounds than the model has.           *)
(***************************************************************************)
TypeOK ==
  /\ setup \in Setups
  /\ models \in Seq(Tree) /\ original \in Seq(Tree) /\ coming \in Seq(Tree)
  /\ iter \in 0..Len(Model) /\ made \in Nat
  /\ range \in Range2 /\ models_initialized \in BOOLEAN
  /\ inner \in [Types -> Predictor] /\ fast \in [FastConfigs -> Predictor]
  /\ lock \in [Locks -> LockState(Threads)]
  /\ \A t \in Threads : IsCall(call[t])
  /\ local \in [Threads -> Nat] /\ calls \in [Threads -> Nat]

(***************************************************************************)
(* A prediction or a saved model is made of the rounds its caller asked    *)
(* for, of a whole model the booster had at some moment of the call: not   *)
(* of one half refilled or refitted, nor of two models.  It reads no round *)
(* that is gone and fails on none (c_api.cpp, Predict,                     *)
(* PredictSingleRow, SaveModelToString; c_api.h: "start_iteration Start    *)
(* index of the iteration to predict").                                    *)
(***************************************************************************)
PredictsAsAsked ==
  \A t \in Threads : answer[t].status \notin {"none", "changed", "printing"} =>
    answer[t].status = "done" /\ answer[t].trees \in possible[t]

(***************************************************************************)
(* A prediction of leaves writes as many numbers as it reports, which is   *)
(* what the caller made room for (GBDT::PredictLeafIndex and               *)
(* NumPredictOneRow, gbdt.h).                                              *)
(***************************************************************************)
WritesWhatItTold ==
  \A t \in Threads : answer[t].status = "done" /\ call[t].op # "save" /\ call[t].type = "leaf" =>
    Len(answer[t].trees) = answer[t].told

AnswersAsAsked == PredictsAsAsked /\ WritesWhatItTold

(***************************************************************************)
(* Every call returns: no wake-up of the reader-writer lock is lost and no *)
(* two locks are waited for in a circle (alternate_shared_mutex.hpp;       *)
(* SingleRowPredictor::Predict takes two).                                 *)
(***************************************************************************)
EveryCallReturns == \A t \in Threads : pc[t] # "idle" ~> pc[t] = "idle"
=============================================================================
