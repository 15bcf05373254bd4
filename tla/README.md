# LightGBM in TLA+

Models, model-checking runs and proofs for the parts of LightGBM whose
correctness depends on the order in which things happen: cached histograms that
outlive the tree they were built for, scores that are never recomputed but only
added to and subtracted from, rows divided among threads and staged for a
device, bags that three objects must agree on, machines that connect and then
exchange blocks over streams without boundaries, bins that every part of the
program shifts and reads for itself, and calls of several threads on one booster
or data set. What LightGBM computes with floating point numbers - gains, leaf
outputs, gradients, metrics - is abstracted throughout.

Paths below are relative to the repository: `src/boosting/gbdt.cpp` is the C++
file of that name, `include/LightGBM/...` a public header. `PROJECT.json` lists
every run, the lines each definition models, and the hazards.

1. [The system](#1-the-system)
2. [The modules](#2-the-modules)
3. [The runs](#3-the-runs)
4. [Where the code departs from what it says](#4-where-the-code-departs-from-what-it-says)
5. [The proofs](#5-the-proofs)
6. [What is not modelled](#6-what-is-not-modelled)
7. [Plan](#7-plan)

## 1. The system

A `Dataset` holds binned columns, filled from files, matrices or rows pushed by
several threads. A `Booster` (C API) owns a `Boosting` object,
which holds the trees and the scores and calls a `SampleStrategy` for the rows
and a `TreeLearner` for the trees. The learner owns a `HistogramPool`, a
`DataPartition` and one best split per leaf. In distributed training the
learner calls the static `Network`, which uses `Linkers` (sockets or MPI).

```
 python / R / CLI --> C API Booster (reader-writer lock)
                         |
                       GBDT <-- DART, RF            Metric, ObjectiveFunction
             ScoreUpdater  |  \
                           |   SampleStrategy (bagging, GOSS)
                           |      |  SetBaggingData (raw pointers)
                       TreeLearner (serial, parallel, GPU, Metal)
                   HistogramPool  DataPartition  LeafConstraints
                           |           |
                        Network     ParallelPartitionRunner (OpenMP)
                        Linkers
```

### Components that are modelled

| Component | State it keeps | Operations | What is hard | What makes it correct |
| --- | --- | --- | --- | --- |
| Histogram pool (`treelearner/feature_histogram.hpp`) | `mapper_`, `inverse_mapper_`, `last_used_time_`, `pool_` | `Reset`, `ResetMap`, `Get`, `Move` | LRU eviction while the caller still holds pointers; `Get` changes the map also when it misses | two maps inverse to each other; the slot used last survives the next `Get`; an array belongs to one leaf |
| Serial tree learner (`treelearner/serial_tree_learner.*`) | growing tree, best split and depth per leaf, smaller and larger array, forced splits | `Train`, `BeforeFindBestSplit`, `FindBestSplits`, `Split`, `ForceSplits`, `RecomputeBestSplitForLeaf` | the larger child is computed from whatever array the pool still has; searches are skipped; features are skipped | every search reads the sums of its own leaf's rows |
| Data partition (`treelearner/data_partition.hpp`, `utils/threading.h`) | `indices_`, `leaf_begin_`, `leaf_count_`, scratch buffers | `Init`, `Split`, `ApplyPartition`, `ResetByLeafPred`, `ParallelPartitionRunner::Run` | threads write scratch memory and then overwrite the array they read from; block sizes are rounded and may leave a thread nothing | any interleaving is the sequential stable partition |
| Row sampling (`boosting/bagging.hpp`, `goss.hpp`) | `need_re_bagging_`, `bag_data_cnt_`, `bag_data_indices_`, `is_use_subset_`, `tmp_subset_` | `Bagging`, `ResetSampleConfig`, `SetBaggingData` | sampler, learner and boosting each keep part of the truth across resets and rollbacks | rows are trained with their own gradients, and each row is scored once per tree |
| Boosting loop (`boosting/gbdt.*`, `score_updater.hpp`) | `models_`, `iter_`, training and validation scores | `TrainOneIter`, `RollbackOneIter`, `AddValidDataset`, `ResetTrainingData`, `ShuffleModels`, `ResetConfig`, `MergeFrom` | trees that stay although the iteration failed; data that arrives late; a constant that is either in the score or in the tree | the scores are what the trees predict |
| DART (`boosting/dart.hpp`) | `drop_index_`, `tree_weight_`, `sum_weight_`, drop pending | `DroppingTrees`, `Normalize`, `TrainOneIter`, `GetTrainingScore` | trees edited in place around an iteration that may give up in between | as above, and weights that belong to the trees |
| Random forest (`boosting/rf.hpp`) | scores that are averages over rounds, gradients computed once | own `TrainOneIter`, `RollbackOneIter`, `AddValidDataset`, `ResetTrainingData` | scores are multiplied and divided by the number of rounds around every change | scores are the averages the model predicts |
| Collective operations (`network/network.cpp`, `linker_topo.cpp`, `linkers.h`) | block tables, topology maps, sockets | `Allreduce`, `Allgather`, `ReduceScatter`, `SendRecv` | five algorithms whose tables must agree between machines; streams have no boundaries; sends block | each call returns its defined value, nothing is left in a stream, everybody returns |
| Connecting machines (`network/linkers_socket.cpp`) | sockets by rank, count of the listening thread | `Construct`, `ListenThread`, `Connect`, `Accept` | retries against a listener with a time-out; a machine that gives up goes on without the link; calls begin while others still connect | machines that return are linked, everybody else ends |
| Parallel learners (`treelearner/*_parallel_tree_learner.*`) | global counts per leaf, layout of the exchange buffers, votes | `BeforeTrain`, `FindBestSplits`, `FindBestSplitsFromHistograms`, `Split` | the tree is never sent: each machine derives it, and must skip and search with the others | same collectives, same tree, and the tree one machine would grow |
| Metal learner (`treelearner/metal_tree_learner.*`, `metal/*.metal`) | staged rows and gradients in buffers shared with the device, dispatch in flight | `BeforeTrain`, `BeforeFindBestSplit`, `ConstructHistograms`, `SplitInner`, kernels | the row buffer is reused for the result of a partition; three decisions with different counts; the CPU builds the rest meanwhile | a histogram holds its leaf's rows and gradients, each feature built once |
| Bins and routing (`io/bin.cpp`, `feature_group.h`, `dense_bin.hpp`, `sparse_bin.hpp`, `feature_histogram.hpp`, `tree.h`) | bounds and most frequent bin of a feature, stored bins | `FindBin`, `PushData`, `FixHistogram`, the scans, `Split`, `Tree::Decision` | each part derives the shift of the missing bin for itself; special cases for missing values | training rows, validation rows and raw values take the same way |
| Data sets and streaming (`c_api.cpp`, `dataset.h`, `metadata.cpp`, `sparse_bin.hpp`, `dense_bin.hpp`) | pushed rows per thread, packed arrays, metadata, `is_finish_load_` | `PushRows`, `InitStreaming`, `InsertMetadataAt`, `FinishLoad`, `LoadFromPair`, iterators, `CopySubrow` | several threads with teams of threads append at once; the last chunk ends the load; readers start in the middle of a delta encoding | every row is loaded once and reads the same from everywhere |
| C API booster (`c_api.cpp`, `alternate_shared_mutex.hpp`, `gbdt.h`, `gbdt_prediction.cpp`) | reader-writer lock, cached single-row predictors, fast predictors, range of rounds in the booster | train, roll back, merge, shuffle, refit, set a leaf, predict, save | readers write the range; predictors outlive the call that made them; two locks in one call | an answer is about the rounds asked for, of a model that was there; every call returns |

### Components that are not modelled, or only touched

| Component | State and operations | What is hard, and what would be correct | Status |
| --- | --- | --- | --- |
| Early stopping (`gbdt.cpp` `OutputMetric`, `callback.py`) | best iteration and score per data set and metric | `EvalAndCheckEarlyStopping` pops trees without lowering `iter_` (`gbdt.cpp:483-500`) | planned |
| Refit (`GBDT::RefitTree`, `FitByExistingTree`) | leaves of an existing tree | `ResetByLeafPred` shrinks the learner's arrays for good (`data_partition.hpp:68`); with `path_smooth` the index of the parent node is passed where its output belongs (`serial_tree_learner.cpp:271`) | rows of the leaves are in `DataPartition` |
| Gradient quantization (`gradient_discretizer.*`) | bits per leaf's histogram | a 16-bit sum must not overflow for the rows of its leaf | planned |
| CEGB (`cost_effective_gradient_boosting.hpp`) | candidate splits of all leaves, features used | candidates are revised when a feature becomes free | planned |
| File loading (`dataset_loader.cpp`, `parser.cpp`, `pipeline_reader.h`) | two buffers in `PipelineReader` | the reading thread and the processing thread swap buffers | planned (buffers) |
| Monotone constraints (`monotone_constraints.hpp`) | bounds per leaf | leaves whose bounds change are searched again | only that, in `SerialTreeLearner` |
| Tree (`io/tree.cpp`, `tree.h`) | nodes and leaves | | leaves and depth, shrinkage, bias, decisions |
| Multi-value bins, bundling, share states (`io/multi_val_*.hpp`, `train_share_states.*`) | row-wise columns | data layout | no |
| Column sampling (`col_sampler.hpp`), linear trees, objectives, metrics, DCG | random state, matrices, labels | numerical | no |
| Model text, configuration, parsing of parameters | none between calls | conversion | no |
| MPI transport, GPU and CUDA learners, Arrow | external | library or device code | no |
| CLI, Python and R packages | handles | they call the C API; the models allow their calls in any order | no |

## 2. The modules

| Module | Builds on | Models |
| --- | --- | --- |
| `HistogramPool` | | the pool as an object (`PoolState`, `Hit`, `Got`, `Moved`, `ResetMap`) and as a specification of its own |
| `SerialTreeLearner` | two instances of `HistogramPool` | growth of one tree after another |
| `GBDT` | | the boosting loop |
| `DART` | extends `GBDT` | the same with dropped trees |
| `RF` | extends `GBDT` | the same with averaged scores |
| `Modes` | extends `DART` and `RF` | a booster that is created as one of the two |
| `Topology` | | steps of the five algorithms for every machine, as pure operators |
| `Collectives` | `Topology` | the abstract promise of the collective operations |
| `Network` | `Topology`, instance of `Collectives` | machines, threads and streams; implements `Collectives` |
| `Linkers` | | the handshake: listeners, retries, time-outs |
| `Cluster` | extends `Network`, instance of `Linkers` | both together: calls of a machine begin when its own handshake ends |
| `ParallelTreeLearner` | | the three parallel learners over what `Collectives` promises |
| `MetalTreeLearner` | | staging, dispatches and device partitions of growing trees |
| `PartitionSize` | | constants shared by the next two |
| `LeafPartition` | `PartitionSize` | the abstract promise of a data partition |
| `DataPartition` | `PartitionSize`, instance of `LeafPartition` | threads, blocks and scratch buffers; implements `LeafPartition` |
| `SampleStrategy` | | sampler, learner and boosting around one bag |
| `BinRouting` | | a feature from its sample to bins, stored bins, histogram, split and prediction |
| `SparseBin` | | a delta encoded column and its readers, as pure operators |
| `DatasetStreaming` | extends `SparseBin` | rows pushed by threads into a sparse and a four-bit column, and metadata |
| `SharedMutex` | | the reader-writer lock, as pure operators |
| `Booster` | extends `SharedMutex` | calls of several threads on one booster |
| `HistogramPoolProofs`, `SerialTreeLearnerProofs`, `GBDTProofs`, `DataPartitionProofs`, `SampleStrategyProofs`, `ParallelTreeLearnerProofs`, `MetalTreeLearnerProofs`, `BoosterProofs` | the module of that name, `GBDTProofs` extends `Modes`; the learner's proofs take the pool's | theorems |
| `MC*` | the module of that name | what TLC needs: configurations, jobs, symmetry |

`Cluster` composes the two halves of `Network`; `DataPartition`, `SampleStrategy`
and `SerialTreeLearner` meet only in what they promise each other (ranges of rows,
the bag, histograms), and `ParallelTreeLearner` takes its collectives from the
promise that `Network` is shown to keep.

Definitions carry the names of the code. A name ending in `_` and a word
(`Evict_KeepsOld`) is a plausible mistake next to the definition it alters;
`PROJECT.json` says which property notices it.

### HistogramPool and SerialTreeLearner

`HistogramPool` keeps `mapper`, `inverse_mapper`, `last_used_time`, `cur_time`
and `array` (slots are `std::swap`ped by `Move` when there is a slot for every
leaf, and only then). Because the learner makes several calls in one method,
each call is an operator from pool to pool; `Get` and `Move` are the actions
of the pool on its own.

`SerialTreeLearner` abstracts a histogram to the set of rows it sums over
(`{Junk}` for anything else, which is how stale memory and a wrong subtraction
show), a split to the rows it sends left, and its gain to a sign. `BeforeTrain`
starts a tree. `Skip` is `BeforeFindBestSplit` returning false; `Search` is the
rest of that method with `FindBestSplits`: the calls on the pool in their order
(`PoolCalls`), the features skipped because the parent could not be split on
them (`Flags`), the construction or subtraction (`Constructed`) and the outcome
(`Findings`). `SplitBest` and `SplitForced` apply a split; `Recompute` is one
call of `RecomputeBestSplitForLeaf`. With forced splits `pc = "overrun"` marks a
tree that needs more leaves than it has.

### GBDT, DART and RF

`models` is a sequence of rounds, one tree per class. What a tree adds to a row
is a pair of learned part and constant, and a score is what each round has
contributed to it: with that, a tree that is missing, counted twice or negated
once too often is a difference between score and model, whatever the outputs
are. `TrainOneIter(split)` covers the whole method for the set of classes that
find a split: `BoostFromAverage`, the constant trees of the other classes, the
trees kept although the iteration failed. `setup` fixes how a booster is
configured and used, so that one run checks several kinds of use.

`DART` adds drops as in the code: `DroppingTrees` negates in place, `Normalize`
scales twice (`ForValid`, `ForTrain`) with a correction of the validation
scores after the first and of the training score after the second.
Numbers are multiples of 1/`Unit`; `Exact` stops TLC if a division ever left a
remainder, so no result is rounded. Gradients from outside are the two-call
protocol `GetTrainingScore`, then `TrainOneIter`.

`RF` replaces every operation on scores: `Times` and `DividedBy` are
`MultiplyScore`, class by class, around the tree that is added (`WithTree`) or
taken back (`WithoutRound`), and `Averaged` is what a score that starts from a
replay is divided by. `Leaf` and `Bias` are multiples of every number of rounds.
What scores do not survive is left out, and listed in section 4.

### Topology, Collectives and Network

A unit of data is a position in the input and a count per machine, so that a
sum in which a contribution is missing or counted twice is a different value.
`Topology` turns the maps of `linker_topo.cpp` and the loops of `network.cpp`
into sequences of steps (whom to send what, where to put what comes).
`Network` runs them: `Call` enters a collective, `Push` and `Pull` move as many
units as fit and are wanted between a buffer and a stream of `Capacity` units,
`Proceed` ends a step, a phase or the call. A message of at least `Capacity`
units is sent by a thread while the machine receives, a smaller one before it
receives, as `SendRecv` does. `Collectives` knows none of this: a machine calls,
and a call returns its defined value once the machines it depends on have
called.

### Linkers and Cluster

`Linkers` has per machine its `phase` (off, in `Construct`, returned, dead), the
larger ranks it has still to connect to, the failed attempts at the current
one, the connections its listener has not accepted yet (`backlog`) and the
count the listener stops at. `ConnectFails` takes a refused or timed-out attempt
and the delay after it; after `RetryCnt` of them the machine goes on without the
link (`GaveUp`). `AcceptTimesOut` ends the process, which is what `Log::Fatal`
in the listening thread does; a `patient` listener outlives every attempt, an
impatient one may time out at any time. `Cluster` adds `Network`: a machine
works as soon as its own handshake has ended, a message may be in the stream
behind the rank that nobody has read yet (`AfterRank`), and a step that needs a
socket that is not there ends the process (`LacksLink`).

### ParallelTreeLearner

A histogram is the set of rows it sums, as in `SerialTreeLearner`; a feature has
one threshold and the gain of a split is the product of its two counts, so that
gains follow from histograms and ties are frequent. Histograms have no counts: a
split's are `EstimatedCount`, `RoundInt(hess * cnt_factor)`, from what the job says
the hessians of rows sum to (`job.hess`), and since each side of a threshold is
one bin, an estimate is rounded once, where the code rounds bin by bin and adds up. `Judge`
takes a leaf's count for its number of rows, and `SplitCounts` is what a split leaves:
with features distributed the rows are counted (`update_cnt`), with rows
distributed the estimates stay. `AllreduceRoot`,
`ReduceScatter`, `AllgatherVotes` and `SyncUpGlobalBestSplit` are the
collectives: they wait until all machines are there, so a machine that skips a
search the others make deadlocks the model, and the deadlock check is a property
of this run. Everything else is an action of one machine:
`BeforeTrain`, `SkipSearch` and `FindBestSplits` (with the exchange buffer laid
out by `PrepareBufferPos` and filled by `CopyLocalHistogram`),
`FindBestOfOwnFeatures`, `FindLocalVotes`, `CopyVoted`,
`FindBestSplitsFromHistograms`, `Split` with the global counts, and `Finish`.

### MetalTreeLearner

Three buffers shared with the device hold rows and gradients; a gradient is the
row it belongs to, or `Stale`. `BeforeTrain` and `BeforeFindBestSplit` stage the
root or the leaf that is chosen (`StageRoot`, `StageLeaf`); `Launch` dispatches,
`ConstructOnCpu` builds what has no column on the device while the dispatch is in
flight, `RunKernel` is the device, `WaitAndGet` copies its result; `Construct` is
the path without device. The result of a dispatch is computed from the buffers
as they are when it runs. `PartitionLeaf` is a split, by the three kernels
(counting, prefix sums, scatter: `LeftBase`, `Target`, `Scattered`) or on the CPU.
`SetBag`, `SetCopy` and `ResetTrainingData` change what the root is between trees.

### BinRouting

One feature in four steps. `FindBin` takes any sample of the instance and finds
bins as `BinMapper` does (`GreedyFindBin`, `FindBinWithZeroAsOneBin`,
`FindBinWithPredefinedBin`, categories, `NeedFilter`). `Construct` stores every
value, without the most frequent bin and shifted, in a dense, sparse or bundled
column. `FindBestSplit` builds the histogram of the leaf, restores the bin that
is not stored (`Hist`) and takes any threshold one of the scans looks at; gains
are left open. `Partition` applies it, through the stored bins (`GoesLeft`), and
goes on with one of the children. `InnerGoesLeft` is the tree on bins (validation data),
`RawGoesLeft` the tree on raw values (prediction).

### SparseBin and DatasetStreaming

`SparseBin` translates `sparse_bin.hpp`: encoding with padded distances, the
fast index and where it lets a reader start, the iterator, both histogram
loops, `CopySubrow` and `LoadFromMemory`. Distances of up to `DeltaLimit` - 1
stand for one byte. In `DatasetStreaming` an external thread takes a chunk
(`Begin`), members of its team push the rows of their blocks one at a time
(`PushRow`), and the call returns (`Return`) after it has written the metadata.
Loading ends by the last chunk or by `MarkFinished`. The dense column
has the two arrays of `DenseBin<..., true>`, for even and odd rows, merged at the
end. `FinishLoad` sorts what the buffers hold, encodes it and closes the queries.

### SharedMutex and Booster

A lock is a record: writer, readers and the threads asleep. `Booster` has one per
booster and one per fast predictor. `TakeForWriting` and `TakeForReading` look
and either take the lock or fall asleep until notified. A call is several steps,
each as long as the code can run without another thread being able to tell:
`Change` is the body of a call under the write lock that changes one tree. The
calls that change all are loops, one step a turn: `ShuffleModels` and `MergeFrom`
move the trees away (`original`) and leave `models` empty, `SwapIndices` is a turn of
the shuffle's loop (`coming` is the order so far), `Refill` pushes one copy back;
`RefitTree` and `RefitOne` replace one tree after the other. Under the lock nobody
else sees these halves, `Model` is what was there before; without the lock they are there
for all to see. A batch makes its predictor by three separate assignments to the booster's range (`InitPredictTotal`,
`InitPredictNum`, `InitPredictStart`), as `GBDT::InitPredict` does under a lock
held for reading; a single-row prediction chooses its predictor under one lock
(`SetSingleRowPredictorInner`) and predicts under the next (`PredictRow`);
Saving takes no lock: `SaveCount` computes how many trees there are, `SavePrint`
prints one of them as it is by then, in any order (the code prints in a parallel
loop), or finds that it is gone, and `SaveJoin` puts the texts together.
`possible` collects, per call, what the asked rounds were at any moment of the
call: the answer must be one of them.

### PartitionSize, LeafPartition and DataPartition

`LeafPartition` is an array in which each leaf owns a range, and a split that
reorders one range: rows that stay on one side keep their order (`Stable`), the
others go to a new leaf. `growing` says whether the tree may still be split:
`StartTree` sets it, `EndTree` and `ResetByLeafPred` clear it. `DataPartition` has the blocks of `BlockInfo` and
`BlockInfoForceSize`, the first parallel loop (`SplitBlock`: one thread reads
its block and writes scratch memory, for bags from both ends with the reversal
of the second half), the sums between the loops, the second loop
(`CopyBlock`), and around them `Bagging`, `Init`, `Split`, `ApplyPartition` and
`ResetByLeafPred`. Scratch memory that was never written holds `Junk`. The
refinement mapping hides a split that is under way: until the last
block is copied, the abstract array is the one the split began with
(`run.before`), so that the many steps of the threads are stutters and the step
after the second loop is the abstract `Split`. Drawing a bag is `EndTree`: the
next split needs a new tree.

### SampleStrategy

Three parties: the sampler's variables; `learner` with the data set it reads
and the pointer it keeps (`used_data_indices_`); GBDT, whose gradients are
moved in place (`Moved`) and whose `UpdateScore` adds the tree to rows taken
from the learner and from the end of the bag (`TimesAdded`). `tree` records
what happened to the last tree: whether each row met its own gradient, how
often each row's score got the tree, and whether the rows were those the
parameters ask for.

The code does not bring the three back into step after everything a caller may
do. `lapses` collects what it does not handle, and the properties are stated
for behaviours without one:

| Lapse | What happened | What follows |
| --- | --- | --- |
| switched off | a reset disables bagging | the sampler forgets the bag (`bagging.hpp:207`), the learner does not: trees are still grown on it, and rows outside are no longer scored; `Parameters.rst:408` says 0 disables bagging |
| other kind of bag | a reset moves between a pointer and a copy of the rows | the learner keeps its data set from one and its row numbers from the other |
| request lost | two resets before the next iteration | the second returns early and clears `need_re_bagging_` (`bagging.hpp:149`), while `bag_data_cnt_` is already the new size |
| balanced for good | a reset from balanced to plain bagging | `balanced_bagging_` stays set and both fractions are 1: all rows are drawn (`Parameters.rst:384` says balanced bagging is disabled then) |
| subset deleted | any reset under GOSS with a copy of the rows | `tmp_subset_` is replaced while the learner uses it; the next reset reads it |
| sampling stopped | under GOSS the iteration falls below 1/`learning_rate` again | the sampler counts all rows, the learner keeps its last bag |
| by query | bagging by query with a pointer to the bag | the array behind the bag is never written; see section 4 |

A lapse is forgotten when the next bag repairs it (`request lost`, `sampling
stopped`); the others stay.

## 3. The runs

All runs pass. Deadlock is checked except where a model stops because a bound is
reached or its subject ends (`CHECK_DEADLOCK FALSE`): rounds are numbered in
`GBDT`, `DART` and `RF` and run out; a learner whose forced splits overrun the tree or
whose `CHECK` fails (`pc = "fatal"`) has stopped in the program, too; a feature
whose rows cannot be split further is done (`split_routing`); clients of a booster
stop when they have made their calls (`c_api`, where a call that does not return
violates `EveryCallReturns` instead).

| Run | Distinct states | Instance | Checks |
| --- | --- | --- | --- |
| `histogram_pool` | 3,400 | 4 leaves, 3 slots, `MaxTime` 7 | `TypeOK`; `NoSharing`: maps inverse, arrays distinct; `LastUsedIsKept`: a `Get` never takes the slot used last |
| `learner` | 369,000 | 4 leaves, 4 rows, 2 slots or 4, up to 2 features; plain, `max_depth` 2, three forced splits, recomputation (with a slot for every leaf) | `SearchReadsOwnRows`; `PoolInStep`: a cached histogram is current, and `Move` overwrites nothing |
| `gbdt` | 35,000 | 2 classes, 3 rounds, 2 validation sets, rates 1 and 2, five setups | `ScoresMatchModels`; `RoundsKept`: rounds only leave by a rollback, a shuffle moves every round of its range and no other |
| `modes` | 135,000 | 2 classes, 3 rounds, 1 validation set; DART with rates 1/2 and 1 in seven cases, forests in four | `ModesInv`: scores match the models, under DART with a drop pending too, in a forest as averages; `WeightsInStep`: a weight per round, and their sum; `ReweightsDropped`: a step scales exactly the dropped rounds, merged ones never |
| `cluster` | 81,000 | twelve jobs for 2 to 6 machines, four of them from the handshake on | `StreamsInStep`: regions disjoint, nothing left over; `ReadyAreLinked`; `KeepsPromise` (refinement of `Collectives`); `AllReturn` and `HandshakeEnds` (liveness) |
| `parallel` | 616,000 | 5 rows on 2 or 3 machines, 3 features, 4 leaves, two trees or one of four rows, every pair of thresholds, equal or unequal hessians, three learners | `MachinesAgree`: of two machines in a tree one has made the splits of the other; `FindsBestOfAll`: the best split over all rows and features by the counts kept; `CountsAreGlobal`: these counts are alike, and exact where hessians are constant; no deadlock |
| `metal` | 542,000 | 4 rows, 4 leaves, five devices | `HistogramsOfOwnRows`, `LeavesInOrder` |
| `data_partition` | 143,000 | 4 rows, 3 leaves, 2 or 3 threads, three ways to cut blocks | `BagThenRest`; `BlocksApart`: copies and random generators belong to one thread; `ImplementsLeafPartition` (refinement); `SplitPlacesRows` |
| `sample_strategy` | 432,000 | 4 rows, 3 iterations, six setups | `RowsInStep`: own gradients, scored once; `ObeysConfig` |
| `split_routing` | 88,000 | every sample of 7 from five numbers and NaN, 20 settings, three kinds of storage | `RoutingInv`: bins found are sound; `RoutedAlike`; `CountsHold` |
| `dataset_streaming` | 15,000 | 7 rows of 2 bundled features, 2 threads with teams of 1 or 2, dense or CSR rows | `StreamingInv`: no two threads share a buffer; `EveryRowLoaded`; `ReadsBack` |
| `c_api` | 235,000 | 3 threads, five kinds of use, up to 3 rounds, no saving beside a change by another thread | `AnswersAsAsked`; `EveryCallReturns` (liveness) |

Every run has a type invariant as well, on its own or as a part of the first
invariant named.

### Bounds, and why they are enough

* **Pool and learner.** Two slots are the least the code allows, and the hardest
  case: every search evicts. Four leaves allow three splits, so a histogram can
  be evicted, its slot reused and its leaf split afterwards; trees follow each
  other, so arrays start with what the last tree left. Four rows divide into
  four leaves, and rows are interchangeable (`SYMMETRY`, which only
  safety properties are checked under). The pool's own run
  takes three slots and stops the clock at `MaxTime` 7: enough for every slot to
  be used twice and evicted.
* **GBDT, DART and RF.** Two classes let one find a split and the other not. With
  three rounds one can be rolled back, replaced and shuffled between two others
  (the swap loop of `gbdt.h:102` over every range and with every draw),
  and DART can drop zero, one or two. `MaxRounds` counts every round ever
  created, rolled back ones included. `Unit` = 360 makes every division of
  three rounds exact. Three rounds of a forest are averages of one, two and three,
  with a merged one among them or not.
* **Cluster.** Two to six machines cover powers of two, one pair to group (3,
  5), two pairs (6), one, two and three steps. Capacity 2 makes messages of one unit
  fit and messages of two go to a thread; `SmallInput` 3 and `RingThreshold`
  6 stand for 4096 bytes and 10 MB so that small jobs take each of the five
  algorithms. Blocks are equal, unequal and empty. Jobs of two or three calls
  let a machine be a call ahead of another. `RetryCnt` 2 (for 20) has an attempt
  that is repeated and one that is the last. Jobs that start from the handshake
  have up to four machines, so that one may retry, one be given up and two be
  linked; the others start connected, because their subject is the algorithms.
* **Parallel learners.** Three machines for three features, one of which a
  second tree does not use, leave a machine without a feature to judge, and the
  second tree leaves one without a row. With five rows, or four of them,
  trees stop in every way: no gain, too few rows, no leaves left. In a tree of
  four rows both leaves can be too small to search while the tree goes on, so a
  machine makes several splits before the next one makes any. `TopK` 1
  makes voting lose features. A row that weighs six times as much as any other
  makes estimates miss the counts of rows, on either side of `MinData`.
* **Metal.** Blocks of two rows and threads of one divide four rows unevenly;
  the five devices put a leaf below each of the three thresholds and have dense
  groups, packed columns, both, none, and a forced feature. Bags shrink and come
  back between trees, so that every buffer holds what is stale.
* **Data partition.** The three setups cut four rows unevenly, with a thread that
  gets nothing after alignment, and in blocks forced to two rows.
  The guard `leaves = 1` of `StartBagging` lets bags be drawn only between
  trees; what a bag could find in the scratch buffers does not depend
  on how often the last tree was split.
* **Sampling.** Three iterations and `bagging_freq` 1 and 2 allow an iteration
  that keeps a bag between two that draw one; resets are possible before every
  iteration, in any number. GOSS starts at iteration 0 or 2.
* **Routing.** Five numbers on both sides of zero, with 2 to 6 bins, give
  features with a bin each and with shared ones, with zero or another value most
  frequent, with and without missing values. A leaf is split until nothing
  can be, so the cases of a leaf that lacks the most frequent bin are there.
* **Streaming.** Seven rows, distances up to two (for 255) and an index of four
  entries (for 64) give padded entries, index entries behind the last row,
  and rows of one index entry that lie apart. One thread pushes every subset of
  rows; two push chunks of a few subsets side by side, in every order.
* **C API.** Three threads are a writer and two readers. `MaxModels` 3 is enough
  for a range that begins behind the first round and ends before the last.
  A model is saved beside predictions of every kind (`Serving`) and between any
  changes of the same thread (`Alone`).

### Fairness

Two runs check liveness.

* `ClusterSpec` assumes that as long as some machine can go on with its
  handshake, one does, and as long as some call can go on, one does (weak
  fairness of each, the second with `ENABLED` written out as `CanWork`).
  Operating systems and TCP provide that: a thread that is not blocked is
  scheduled, a `sleep_for` and a time-out end, and a send or receive that can be
  served is served. No single machine is promised to progress at any
  speed, so a circle of machines that wait for each other stops the model
  as it stops the program; the mutant `SendsByThread_Never` does exactly that,
  and without the listener's time-out (`Waits_Forever`) the handshake does not end.
* `Booster` assumes weak fairness of `Continue(t)` for each thread: one that is in a
  call and not asleep in `cv_.wait` is scheduled. No thread has to begin a call.
  Nothing is assumed of the order in which woken threads get the lock. The
  lock prefers readers; the number of calls is bounded, so a stream of readers
  that never ends, which would starve a writer, is not in the model.

## 4. Where the code departs from what it says

The setups of the runs are the uses for which the code keeps what it promises.
Beyond them, the models show the following when their setups are widened. Most
are listed as hazards.

**Tree learners**

* `RecomputeBestSplitForLeaf` (`serial_tree_learner.cpp:1029`)
  asks the pool for a leaf that may have been evicted. `Get` answers "not
  there", but has assigned the leaf a slot, which nobody fills. When that leaf is
  split, `BeforeFindBestSplit` takes the slot for the parent's histogram.
  Needs a bounded `histogram_pool_size` and intermediate or advanced monotone
  constraints (six leaves and two slots are enough to see it).
* A chain of forced splits with `num_leaves` nodes overruns the tree
  (`serial_tree_learner.cpp:646`): `NumLeaves` = 3 with `Chain` reaches `pc = "overrun"`
  (`Parameters.rst:229` calls `num_leaves` the maximum).
* Forced splits are judged on the arrays of the last search even if the search
  of this round was skipped (`serial_tree_learner.cpp:663`).
* The Metal learner adds features of forced splits to `is_feature_used` for the CPU
  part only (`metal_tree_learner.cpp:633-637`): on the device, such a feature that the tree was not given
  is not built.
* The voting learner sends arrays nobody filled for a feature that its own rows
  could not split the parent by (`voting_parallel_tree_learner.cpp:250`). `MachinesAgree`
  holds all the same; `FindsBestOfAll` is asked of the other two learners only.
* With data and voting parallel the count of a leaf below the root is the one estimated
  for the split, from hessians (`data_parallel_tree_learner.cpp:458`,
  `feature_histogram.hpp:845`). One machine estimates too, but counts the rows
  of both leaves after the split (`update_cnt`, `serial_tree_learner.cpp:796`). Where
  hessians differ between rows, the estimates are not the numbers of rows: data parallel may
  skip a search, take the other child for the smaller one, or reject a split by
  `min_data_in_leaf` where one machine would not, and the other way round.
  `CountsAreGlobal` therefore claims exact counts for constant hessians only, and
  otherwise that all machines have the same ones, and
  `FindsBestOfAll` compares with the best split *by the count kept*, which is one machine's
  if hessians are constant. Feature parallel counts rows, but gives a feature up below a
  leaf where an estimate forbids its split, as the serial learner does; the parts of
  the leaf might still be split by it, so `FindsBestOfAll` is asked of it
  for constant hessians only.

**Boosting**

* The constant trees of a first iteration without splits stay
  in `models_`, but `iter_` stays 0. Data sets that arrive later are brought up
  to date with `iter_` rounds from `models_` and lack them (`gbdt.cpp:205`, `449`).
* Without usable features and with `boost_from_average` off, the default score is
  added by `BoostFromAverage` (`gbdt.cpp:332`) and again at `gbdt.cpp:431`, under
  the comment "only add default score one-time".
* Shuffling merged rounds moves them behind `num_init_iteration_`, where a later
  replay takes them for trained ones (`gbdt.h:108`).
* DART: an iteration that dropped trees and finds no split returns
  before `Normalize` (`dart.hpp:61`), and the dropped trees stay negated in the model
  that is then saved. In xgboost mode `sum_weight_` loses `w/(k+lr)` where the
  weight itself loses `w*lr/(k+lr)` (`dart.hpp:192`). `ResetConfig` zeroes
  `sum_weight_` and keeps `tree_weight_`; a rollback
  keeps the weight of the round it removes; `max_drop = 0` drops one round,
  although `Parameters.rst:514` says no limit; with gradients from outside, reading
  the training score leaves a drop pending that a rollback does not undo.
* Random forest: a tree without a split after the first round predicts the output
  of the root (`serial_tree_learner.cpp:209`), but no score gets it, nor is
  divided by the new number of rounds (`rf.hpp:163`); a rollback to no rounds multiplies the
  scores by 1/0 (`rf.hpp:199`); `ResetTrainingData` with the same data, which is how
  a new objective arrives (`c_api.cpp:394`), divides the training score once more
  (`rf.hpp:79`). The constant tree of a class that needs no training is added
  through the learner, which skips trees without a split, so rows in the bag do not get it
  (`rf.hpp:174`, `serial_tree_learner.h:104`).
* Bagging by query writes only the chosen rows to
  `bag_data_indices_`; `UpdateScore` takes the rows left out from behind them
  (`bagging.hpp:100`, `gbdt.cpp:509`).
* The seven lapses of section 2.

**Bins and data sets**

* With zero as missing and another bin most frequent, the scan leaves the bin of zero out of the
  sums of both directions while the split sends it one way
  (`feature_histogram.hpp:941`): `CountsHold` excludes that case.
* `feature_pre_filter` drops a feature whose only legal split is between NaN and
  the rest (`NeedFilter`, `bin.cpp:57`).
* A number that shares the bin of zero because the sample had none on that side
  of zero is missing in training and not in prediction (`TakenForZero`).
* The number of a buffer is unique only while a team has at most
  `omp_max_threads_` members (`c_api.cpp:1195`: "unique"); `OMP_NUM_THREADS()` can be raised by
  another call after `InitStreaming` (`dataset.h:534`).
* `LoadFromMemory` with row 0 kept reads `vals_[-1]` (`sparse_bin.hpp:722-736`).
* Rows pushed after the last chunk has ended the load are dropped silently
  (`dataset.h:564`). For linear trees `ResizeRaw` is called with the number of
  features plus the rows of the chunk (`c_api.cpp:1151`).
* A data set created by reference to one with weights or initial scores cannot
  be streamed: `InitStreaming` ends in `Log::Fatal` (`metadata.cpp:84-100`).

**C API**

* The cached single-row predictor is kept when the number of rounds and
  `num_iteration` agree; it ignores `start_iteration` (`c_api.cpp:99`), and the range of the booster
  may have been written by another prediction since.
* Single row, train, predict, roll back, single row reads past the end of the
  models: the cached predictor was made for as many rounds as there are
  again, but the booster's range is that of the batch.
* Two batches with different ranges beside each other read each other's range, which
  `InitPredict` writes under a lock for reading (`c_api.cpp:448`).
* Depths of trees are computed once (`models_initialized_`, `gbdt.h:438`): contributions,
  train, contributions fails a `CHECK`.
* Saving takes no lock (`c_api.cpp:802`) and prints tree by tree. Beside a rollback it
  reads past the end; beside a shuffle or a merge, which move all trees away and push
  copies back (`gbdt.h:97`), and beside a refit, which frees each tree that it replaces
  (`gbdt.cpp:302`), the saved text can be a mixture of two models, a tree can be missing
  or be read after it was freed. With such calls in a setup `AnswersAsAsked` is
  violated; the run has none (`Steady`: nobody saves while another thread changes),
  and `OrderlyAnswers` assumes that there are none (`SavesApart`). The model tells whole
  trees apart; that half a tree could be printed is not in it.
* A fast predictor answers with the rounds of its creation after training went on.
* A leaf prediction of a single row whose model grows between its two locks
  writes more numbers than it reports (`c_api.cpp:2600`).

**Network**

* A peer that closes its end makes `recv` return 0, and `Linkers::Recv` asks again
  without end (`linkers.h:252`). The model has no process that closes
  its sockets in the middle of a job.

**Read, not modelled**

* GOSS multiplies gradients in place (`goss.hpp:159`); a forest computes them
  once (`rf.hpp:108-114`), so that the factors of all iterations pile up.
* `EvalAndCheckEarlyStopping` pops trees without lowering `iter_` (`gbdt.cpp:483-500`).
* `ResetByLeafPred` shrinks the learner's arrays for good (`data_partition.hpp:68`);
  `FitByExistingTree` with `path_smooth` passes the index of the parent
  node where its output belongs (`serial_tree_learner.cpp:271`).

## 5. The proofs

All proofs are checked by TLAPS for every value of the constants. They assume
what the modules assume of their constants, which TLC evaluates on every
instance: `PoolAssumption` (at least two slots, no more than leaves),
`LearnerAssumption`, `GBDTAssumption`, `PartitionAssumption` and
`SetupAssumption` (sizes are positive), `SampleAssumption`, `ParallelAssumption`
(machines are numbered, their rows are disjoint, rows and features are finite),
`DARTAssumption` (rates are multiples of 1/`Unit`), `ForestAssumption` (a tree's outputs can be
divided by every number of rounds; a forest has an objective, and initial scores only with
a merged model), `MetalAssumption` (blocks of the kernels are whole threads; forced features
are features of the data) and `BoosterAssumption` (clients make calls of the model's kinds; there are handles,
told apart from the booster).
Nothing else is assumed, with these exceptions, which are part of the theorems:
`RecomputesSafely`, `Orderly`, `SoundCase`, `SoundForest` and `NoneRemains` below,
and conditions on how a booster or a sampler is used (`Sound`, `lapses = {}`) that are
part of the properties. Where such a condition is one on constants, TLC evaluates it on
the instances of the runs (`SetupsRecomputeSafely`, `SetupsAreSound`, `CasesAreSound`,
`ForestsAreSound`), so the theorems are about what the runs check.

| Theorem | Property of a run | Proved for |
| --- | --- | --- |
| `HistogramPoolProofs` `TypeCorrect`, `NoSharingCorrect`, `LastUsedIsKeptCorrect` | `TypeOK`, `NoSharing`, `LastUsedIsKept` | leaves, slots |
| `SerialTreeLearnerProofs` `TypeCorrect`, `OwnRowsRead`, `PoolKeptInStep`; `MoveTargetFree` | `TypeOK`, `SearchReadsOwnRows`, `PoolInStep` | rows, features, leaves, slots, configurations |
| `GBDTProofs` `TypeCorrect`, `ScoresCorrect`, `RoundsKeptCorrect` | `TypeOK`, `ScoresMatchModels`, `RoundsKept` | classes, rounds, validation sets, setups |
| `GBDTProofs` `ForestAverages` | `ForestInv`, a part of `ModesInv` | classes, rounds, validation sets, setups (`SoundForest`) |
| `GBDTProofs` `ModesScores`, `ModesWeights`, `ModesReweights` | `ModesInv`, `WeightsInStep`, `ReweightsDropped` | the same, rates, options of DART (`SoundCase`), where divisions are exact (`NoneRemains`) |
| `DataPartitionProofs` `Refinement`, `ThreadsApart`, `BagInOrder`, `SplitCorrect`; `PartitionInvariant`, `TypeCorrect`, `RowsPartitioned` | `ImplementsLeafPartition`, `BlocksApart`, `BagThenRest`, `SplitPlacesRows` | rows, leaves, threads, block sizes |
| `SampleStrategyProofs` `TypeCorrect`, `InStep`, `Obedient`; `Inductive`, `MovedIs` | `TypeOK`, `RowsInStep`, `ObeysConfig` | rows, configurations, iterations |
| `ParallelTreeLearnerProofs` `TypeCorrect`, `Agreement`, `BestOfAll`, `GlobalCounts`; `Inductive`, `SearchSound` | `TypeOK`, `MachinesAgree`, `FindsBestOfAll`, `CountsAreGlobal` | machines, rows, features, bins, leaves, trees, thresholds |
| `MetalTreeLearnerProofs` `TypeCorrect`, `OwnRows`, `LeavesDivide`; `MetalInvariant`, `DevicePartitionsAlike` | `MetalTypeOK`, `HistogramsOfOwnRows`, `LeavesInOrder` | rows, columns, leaves, thresholds, block and thread sizes |
| `BoosterProofs` `TypeCorrect`, `OrderlyAnswers`; `Inductive`, `WritersAreAlone`, `SomebodyIsAwake`, `ModelIsHeld` | `TypeOK`, `AnswersAsAsked` (setups that are `Orderly`) | threads, handles, calls, rounds |

**`HistogramPoolProofs`**. Neither `NoSharing` nor `LastUsedIsKept` is inductive.
The strengthening `PoolInv` adds that no time lies in the future
(`TimesOrdered`), that a slot with a leaf has been used, and that only one slot
carries the latest time. Since `ArgMin` returns a slot of least time, and with
two slots one of them is older, an eviction cannot fall on the slot used last.
That a least time exists is derived from well-foundedness of `<` on the
naturals. Each call has lemmas for what it does to the maps. A second group of
lemmas is what a caller relies on: after `Get` a leaf has a slot, an eviction
takes it from one other leaf, `Move` renames, and no call touches other leaves.

**`SerialTreeLearnerProofs`** takes those lemmas twice, for a bounded pool and
for one with an array per leaf. `LearnerInv` holds for every configuration:
besides types, the pool's invariant (`PoolInv`), the tree (`TreeInv`: leaves are
numbered in the order they are made, and only leaves of the tree can be split), the
pair of leaves being searched (`PairInv`: disjoint rows, the smaller one named so), the leaves waiting for `RecomputeBestSplitForLeaf`
(`PendingInv`) and, in a bounded pool, that leaves the tree does not have yet
have no slot (`MapInv`). The last one is why `Move` finds its target free.
`HistInv` says what arrays hold: a leaf in the pool has its own histogram for
every feature its children will search (`Holds`), or its children will not be
searched at all because they are too deep or too small (`Hopeless`); and the
leaf just split still has that of its former rows. The exception `Hopeless` is
necessary: the search of a leaf that is skipped leaves an old array under its
name. `OwnRowsRead` and `PoolKeptInStep` need `RecomputesSafely` - leaves are
searched again (intermediate and advanced monotone constraints) only when there
is an array per leaf -, which the code does not ensure: section 4 says what
happens otherwise (`serial_tree_learner.cpp:1029`). TLC evaluates that hypothesis
on the configurations of the run (`SetupsRecomputeSafely`).

**`GBDTProofs`**, from `GBDTInvariant`: for any number of classes, merged
rounds, rounds and validation sets, and under `Sound`, a condition on the setup:
a booster that receives late data found a split in its first iteration and does
not shuffle merged rounds, and data without features comes with
`boost_from_average`, an initial score or no objective. Without the first
condition late data lacks a round (section 4). `ScoresMatchModels` alone is not
inductive: `IInv` adds that rounds in the model have been created (`IdsBorn`), so
a new round is a new number; that before the first iteration an unreplayed score
matches (`FreshMatches`); and that merged rounds stay in front while data may
arrive (`MergedInFront`), so that the replay of `iter_` rounds reaches the right
ones. Four lemmas say how `InModels` changes when rounds are appended, popped,
negated or permuted. That a shuffle permutes them is proved of its loop
(`ShuffleOrders`): after `i` swaps the indices are an order in which every round
swapped so far has moved, and a later round is in its place or in front of it
(`SwappedTo`); so the loop ends with every round of the range moved and none
outside, which is the second half of `RoundsKept`.

A *random forest* keeps averages: `IsAverage` says that a score times the number of
rounds is what the rounds sum to, and each operation multiplies, changes a round and divides.
`ForestIInv` adds that every entry of a tree is zero or one of two numbers that all
numbers of rounds divide (`AreMultiples`), so no average is rounded, and, as for GBDT,
`ForestFresh` and `ForestFront`. *DART* has a drop pending between two steps when
gradients come from outside, so `DartIInv` says of every moment what the scores
still hold: the training score all rounds but the dropped ones, validation scores all rounds,
while the dropped ones are negated in the model. The lemmas on `Normalize` follow one
dropped round through both scalings, and those on `Total` the sum of the weights,
by an argument over subsets of the rounds. `WeightsKept` ties `tree_weight_[i]` to
the factor left in round i, which is what makes a drop by weight mean what
`dart.hpp` says, and `SumOfWeights` the divisor to their sum. `SoundCase` is as
wide as the code allows: in xgboost mode the sum loses w/(k+lr) where a weight w
loses w·lr/(k+lr) (`dart.hpp:192`), and a rollback, a reset or a shuffle
leaves weights with other rounds (`dart.hpp:52`), so with weights those are excluded.
`NoneRemains` says that the divisions of a step have no remainder: numbers are
multiples of 1/`Unit`, and rounding is left out. TLC stops at a division that has
one, so on the instance of the run the hypothesis holds.

**`DataPartitionProofs`**. The promise `LeafPartition` keeps its ranges disjoint and
covering because leaves the tree does not have yet are empty (`Unborn`), so that a split may
overwrite the range of a new leaf (`PartitionInvariant`). `Refinement` shows that every
step of the parallel partition is a step of `LeafPartition` or a stutter, and with
it `TypeCorrect` and `RowsPartitioned` carry the promise's invariants over to
`DataPartition`. Its own invariant has three parts. While a run is under way
(`RunInv`), a block that has been divided has its rows in scratch memory in their
order, those that go left forwards and the others forwards or, for a bag,
backwards from the end (`HasSplit`); a block that has been copied has its rows at
their destinations (`HasCopied`); and nothing is copied before every block has
been divided (`PastBarrier`), which is what lets the second loop overwrite the
array the first one reads. Between runs, the abstract invariant (`A!Inv`) and the
order of the bag (`BagInv`) hold. The destination of a row is a rank: the number of rows
before it that go the same way. The lemmas on `Rank` and its inverse `Nth` (the
k-th element of a set of numbers) show that the destinations of different blocks
are disjoint, that they are the sums computed between the loops, and that the
whole is a permutation that keeps the order of each side.

**`SampleStrategyProofs`**. `RowsInStep` and `ObeysConfig` speak about the last
tree when no lapse has happened, and a lapse may pass. So the invariant has
layers: what holds after any sequence of calls (`SamplerInv`: the sampler makes
copies exactly if its configuration asks for copies; a deleted subset is never
used outside GOSS), what holds as long as every lapse is one that passes
(`KindInv`: the learner's bag is of the kind the sampler draws, so that the next
bag leaves nothing of the old one), and what holds without a lapse (`BagInv`: the
sampler's, the learner's and GBDT's bag are one bag, `Settled`). `MovedIs` is the lemma on the
gradients: they are moved to the front of the array they are read from, and since a
bag is ascending no gradient is overwritten before it is read.

**`ParallelTreeLearnerProofs`**. Machines do not move together, and the tree is
never sent. `Known(m)` is the part of a machine's state that it derives from
what all receive: tree, counts (or rows, with features distributed), the pair of leaves and the best
splits; `View(m)` masks the splits of leaves whose search is under way, since
those are known to one machine only. `After` is what a view becomes by the steps
that need nobody else (`BeforeTrain`, `SkipSearch`, `Split`, `Finish`): a
function, so machines with equal views that go on alone do the same. The
invariant is that of two machines one has the view the other gets to alone (`RunInv`;
`Reaches` says it without recursion, as membership in every closed set). A
machine that waits cannot go on alone, so all that wait in a collective have the
same view, and what they receive - sums, votes, the agreed splits - is the same
for all: one step of equal views to equal views. `Agreement` follows, since a
view that another reaches without a new tree has its tree as a prefix.
`TreeInv` and `ExchangeInv` type what is exchanged. They have to say more than
types: with voting, a machine keeps its own split of the larger leaf
where nobody offers one, which would break the agreement if a leaf without
candidates could have a split.

`SearchSound` is a second invariant on top of the first, about data parallel, and
feature parallel with constant hessians (`Comparable`): what each machine knows, said by all rows. A row's leaf is where its
path of splits ends (`RowsOf`, again a statement without recursion: there is a path and only one,
`PathsMeet`), and a machine has of each leaf the rows that are its own (`PartInv`).
Sums of the pair are over the rows of the leaf everywhere (`PairInv`), and with
constant hessians so are counts, though they are estimates: `EstimatesExact` shows
that rounding gives the number of rows back, and `CountInv` carries it from a split to
the next. With other hessians nothing is claimed of a count but that all have it. Histograms need the story of a search: what is kept of a leaf that
may be split are its histograms (`HistInv`), the split leaves them at the left
child as those of the parent, they are moved to the larger leaf, the smaller one's
are built, and the difference is the larger leaf's. Feature parallel marks features
that cannot split the parent and does not look at them again, which costs nothing
because a part of the rows cannot be split where all cannot (`PartsSplitLess`, which is
where constant hessians are needed).
A search finds the best split, by the count kept, of the features a machine has in charge, the
exchange that of all (`BestInv`): every feature is in somebody's charge, in no
two (`DistributionHasAll`, `HandsOut`), and the order of splits is total where features
differ. For data parallel the histograms received have to be sums of the same feature's.
`FeatureDistribution` deals features by bins and `PrepareBufferPos` lays out the
buffer from what is dealt, both by a fold; `ReceivedSums` shows that the layout has each
feature of a machine in its block once, without overlap, at the place at
which it is read, so that what is summed at a place is one feature's histogram
of every machine (the machines' own layouts are equal since the sampled features are). `BestOfAll` and
the exact half of `GlobalCounts` then follow at moments when all have grown the same tree: their parts of a leaf are the leaf
(`AllRowsAre`, which takes `Agreement`). That counts are alike whatever the hessians, with
each of the three learners, comes from `RunInv`: of two views
with as many splits, one reached from the other, the counts are equal (`ReachedSizes`).

**`MetalTreeLearnerProofs`** has two halves. The first is the partition of a leaf by
the device. Threads of the kernel know nothing of each other: the place of a row is
the number of rows of its kind in the blocks before its block, plus those of the threads before
its thread, plus those it has passed itself. `TargetIsStable` adds these up
to the place a single pass would give (`Dest`), whatever the sizes of blocks and threads;
`DestOfNth` shows that the k-th row of a side is the only one put at its place, so what the
scatter leaves behind does not depend on the order of the threads; and `OutputSides` that
device and CPU make the same two leaves of every leaf (`DevicePartitionsAlike`).
Rank and the k-th member of a set of positions are what both are compared by. The
second half is the inductive invariant `IInv`. `RowsInv`: leaves divide the
rows of the root, in ascending order, a bag is ascending, and `use_bagging_` is what
its length says. `StagedInTime`: the root is staged before its search and the smaller leaf
before the launch, whenever the decision at that moment was for the device. `FlightInv`: a dispatch
in flight is one over the leaf being built, whose rows and gradients are in the buffers as long
as it is. `HistInv`: what is built so far. That ascending rows as many as there
are must be all of them (`AscendingAll`) is why a dispatch may leave out the row
numbers of the root and read position p for row p; and that the
columns and the CPU's features together are all features (`EveryFeature`) is why
nothing is left unbuilt.

**`BoosterProofs`**. The lock of `alternate_shared_mutex.hpp` keeps numbers, not
names, so the invariant names its holders by where they are in which call:
`Writers`, `Readers` and, for a fast handle, `Owners(f)`. `LockInv` says that a
writer is alone and that the lock counts its holders right; `SleepInv` that who
sleeps waits for one of them, which is what could go wrong between a look at the
lock and `cv_.wait`, and when the last reader leaves. Two theorems about steps of
several threads follow: `ModelIsHeld` (a model does not change under a batch) and
`SomebodyIsAwake`, the part of `EveryCallReturns` that needs no fairness: the owner
of a handle sleeps at most at the booster's lock, whose holders sleep nowhere.
`OrderlyAnswers` proves `AnswersAsAsked` for whole classes of the setups that the run
samples. A setup is `Orderly` if predictions and saved models are of the whole
model, either no call changes how many rounds there are (`Steady`, `Serving`) or all
predictions are batches without contributions (`Batches`), and no thread has calls that change
the model while another one has calls that save it (`SavesApart`). The hypotheses are needed:
section 4 has the calls that go wrong without them. The argument is that the fields
all readers write hold the whole model as long as anybody relies on them
(`ReliesInv`), that a predictor that is kept was told that many rounds
(`KeptInv`), and that what is printed so far are trees of the model there is (`PrintInv`).
In the middle of a change, `FillInv` says how `original`, `coming` and the refilled
`models` belong together: a shuffle and a refit end with as many rounds as there were,
and with their depths if those were known; all other threads go on with `Model`, which no
turn of these loops changes. The other two kinds of use, single rows while another
thread trains (`Growing`) and one thread with any ranges (`Alone`), are model-checked.

Only model-checked: the streams of the collectives (`StreamsInStep`), the cluster (safety and
liveness), routing, streaming, and answers of the booster outside `Orderly` setups. Out of the prover's reach are
liveness and `ENABLED` (`AllReturn`, `HandshakeEnds`, `EveryCallReturns`) and powers of two in the topology tables
of `Network`. The induction theorems of the library cannot be instantiated, but
where an induction over numbers or finite sets was needed, it is carried out as an
argument about the least counterexample (`NatHasMin`, `NatUpTo`).

## 6. What is not modelled

Besides the components of section 1: rounding and the values of gains, outputs,
gradients and weights of GOSS; which of several splits is best (except in
`ParallelTreeLearner`, where the order decides whether machines agree); the random
numbers that choose bags and drops (any choice they could make is allowed);
CUDA branches; `RenewTreeOutput`; external collectives and the MPI transport;
processes that end while connected for other reasons than a missing link; calls
of the C API that reset parameters or training data, load models, or read
leaves and evaluations; fields of a data set set as a whole; row-wise
multi-value bins and the choice of features for a bundle; quantized histograms
in the parallel learners.

## 7. Plan

Done: 1 `HistogramPool`, 2 `SerialTreeLearner`, 3 `GBDT`, 4 `DART`, `RF`, 5 `Topology`,
`Collectives`, `Network`, `Linkers`, `Cluster`, 6 `LeafPartition`, `DataPartition`,
7 `SampleStrategy`, 8 `MetalTreeLearner`, 9 `BinRouting`, 10 `ParallelTreeLearner`,
11 `SharedMutex`, `Booster`, 12 `SparseBin`, `DatasetStreaming`,
and proofs for 1, 2, 3, 4, 6, 7, 8, 10 and 11.

Left to model, in this order: early stopping (best iteration
per metric, what `models_` and `iter_` hold afterwards); the size of the
arrays in `DataPartition` after a refit, with `RefitTree`; gradient quantization
(bits chosen for a leaf are enough for its rows); the candidates of CEGB;
`PipelineReader`.

Proofs to add, in the modules that exist: `AnswersAsAsked` for the setups `Growing` and `Alone`; `StreamsInStep` of `Network`
for the ring and the Bruck algorithm.
