------------------------ MODULE ParallelTreeLearner ------------------------
(***************************************************************************)
(* Growing the same trees on several machines, by the three parallel       *)
(* learners: "feature" (all rows everywhere, the features are divided),    *)
(* "data" (the rows are divided, histograms are summed and each machine    *)
(* judges some features) and "voting" (the same, but only for features     *)
(* the machines voted for).  Machines share nothing; they meet in the      *)
(* collective operations, whose promise is that of Collectives.            *)
(*                                                                         *)
(* A histogram is abstracted to the set of rows it sums ({Junk} when it is *)
(* the sum of no set), a leaf's sums likewise; a feature has one threshold *)
(* and the gain of a split is the product of the two counts, so that every *)
(* machine can compute it from a histogram and ties are frequent.  A       *)
(* histogram has no counts: those of a split are estimated from its sums   *)
(* of hessians, each side of a threshold being one bin.  The histogram     *)
(* pool has an array per leaf, as Config demands of "data".                *)
(***************************************************************************)
EXTENDS Integers, FiniteSets, Sequences, SequencesExt, FiniteSetsExt

CONSTANTS
  Rows,        \* of all machines
  Features,    \* a set of naturals: feature indexes
  NumBin,      \* feature -> bins
  FreqIsZero,  \* features whose most frequent bin is 0, which is not stored
  NumLeaves, MinData, TopK,   \* config
  Jobs,        \* the trainings, see IsJob
  Junk         \* what is no row

VARIABLES
  job,         \* what is trained
  round,       \* machine -> trees begun
  pc,          \* machine -> where it is; a collective is entered by all
  tree,        \* machine -> the splits made, as [leaf, feature]
  part,        \* machine -> leaf -> data_partition_: its rows
  counts,      \* machine -> leaf -> global_data_count_in_leaf_
  pair,        \* machine -> smaller_leaf_splits_, larger_leaf_splits_ (_global_)
  hist,        \* machine -> leaf -> feature -> histogram array
  splittable,  \* machine -> leaf -> feature -> is_splittable_
  used,        \* machine -> is_feature_used_bytree
  layout,      \* machine -> block_start_, buffer_write_start_pos_, buffer_read_start_pos_
  votes,       \* machine -> its top splits of the pair, then the gathered vote
  got,         \* machine -> what it received: <<side, feature>> -> histogram
  best         \* machine -> leaf -> best_split_per_leaf_

vars == <<job, round, pc, tree, part, counts, pair, hist, splittable, used, layout,
          votes, got, best>>

None     == -1
MinScore == -1
Leaves   == 0..(NumLeaves - 1)
Sides    == {"smaller", "larger"}
Machines == DOMAIN job.own

\* The learner, the rows of each machine, the rows each feature's threshold
\* sends left, what the hessians of a set of rows sum to, and for each tree the
\* bagged rows and the sampled features.
IsJob(j) ==
  /\ j.mode \in {"feature", "data", "voting"}
  /\ IsFiniteSet(DOMAIN j.own) /\ DOMAIN j.own # {}
  /\ DOMAIN j.own = 0..(Cardinality(DOMAIN j.own) - 1)
  /\ \A m, n \in DOMAIN j.own : m # n => j.own[m] \cap j.own[n] = {}
  /\ \A m \in DOMAIN j.own : j.own[m] \subseteq Rows
  /\ \A f \in Features : j.goLeft[f] \subseteq Rows
  /\ j.hess \in [SUBSET Rows -> Nat]
  /\ j.plan \in Seq([bag : SUBSET Rows, used : SUBSET Features])

ASSUME ParallelAssumption ==
  /\ \A j \in Jobs : IsJob(j)
  /\ IsFiniteSet(Rows) /\ IsFiniteSet(Features) /\ Features \subseteq Nat
  /\ Junk \notin Rows /\ MinData \in Nat \ {0} /\ TopK \in Nat \ {0}
  /\ NumLeaves \in Nat \ {0, 1}
  /\ \A f \in Features : NumBin[f] \in Nat \ {0, 1}

\* IsConstantHessian: every row weighs the same (an objective without weights).
ConstantHessian ==
  \A S \in SUBSET Rows, r \in Rows :
    job.hess[{r}] > 0 /\ job.hess[S] = Cardinality(S) * job.hess[{r}]

NoSplit == [feature |-> None, gain |-> MinScore, left |-> {}, right |-> {},
            left_count |-> 0, right_count |-> 0]
Empty(v) == [m \in Machines |-> [l \in Leaves |-> v]]

Init ==
  /\ job \in Jobs
  /\ round = [m \in Machines |-> 0]
  /\ pc = [m \in Machines |-> "idle"]
  /\ tree = [m \in Machines |-> <<>>]
  /\ part = Empty({}) /\ counts = Empty(0) /\ best = Empty(NoSplit)
  /\ pair = [m \in Machines |-> [s \in Sides |-> [leaf |-> None, sum |-> {}]]]
  /\ hist = Empty([f \in Features |-> {Junk}])
  /\ splittable = Empty([f \in Features |-> TRUE])
  /\ used = [m \in Machines |-> {}] /\ layout = [m \in Machines |-> <<>>]
  /\ votes = [m \in Machines |-> [s \in Sides |-> <<>>]]
  /\ got = [m \in Machines |-> <<>>]
-----------------------------------------------------------------------------
\* SplitInfo::operator>: the larger gain, then the smaller feature, none last.
Better(s, t) ==
  \/ s.gain > t.gain
  \/ s.gain = t.gain /\ s.feature # None /\ (t.feature = None \/ s.feature < t.feature)

BestOf(ss) == CHOOSE s \in ss : \A t \in ss : ~Better(t, s)

Lower(a, b) == IF a < b THEN a ELSE b

\* The difference and the sum of two histograms, where they are histograms.
Minus(a, b) == IF b \subseteq a THEN a \ b ELSE {Junk}
Sum(h) ==
  IF \A m, n \in DOMAIN h : Junk \notin h[m] /\ (m = n \/ h[m] \cap h[n] = {})
    THEN UNION Range(h) ELSE {Junk}

\* RoundInt(hess * cnt_factor): the num_data rows of a leaf, divided over its
\* histogram by the hessians.
EstimatedCount(h, sum, num_data) ==
  LET part_of == job.hess[h \cap Rows]
      all == job.hess[sum \cap Rows]
  IN  IF all = 0 THEN 0 ELSE (2 * num_data * part_of + all) \div (2 * all)

(***************************************************************************)
(* ComputeBestSplitForFeature: the right side is summed up from the        *)
(* histogram, the left side is the leaf's sum without it.  Its count is    *)
(* num_data, what the caller takes the leaf's count to be, without that of *)
(* the right side.                                                         *)
(***************************************************************************)
SplitOf(f, h, sum, num_data, min) ==
  LET right == h \ job.goLeft[f]
      left == Minus(sum, right)
      right_count == EstimatedCount(right, sum, num_data)
      left_count == num_data - right_count
      gain == Cardinality(left) * Cardinality(right)
  IN  IF left_count >= min /\ right_count >= min /\ gain > 0
        THEN [feature |-> f, gain |-> gain, left |-> left, right |-> right,
              left_count |-> left_count, right_count |-> right_count]
        ELSE [NoSplit EXCEPT !.feature = f]

InOrder(fs) ==
  CHOOSE s \in [1..Cardinality(fs) -> fs] : \A i, j \in 1..Cardinality(fs) : i < j => s[i] < s[j]
SizeOf(f) == NumBin[f] - (IF f \in FreqIsZero THEN 1 ELSE 0)

\* Each sampled feature goes to the machine with the fewest bins so far.
FeatureDistribution(fs) ==
  LET order == InOrder(fs)
      weight(f) == IF job.mode = "feature" THEN NumBin[f] ELSE SizeOf(f)
      least(bins) == CHOOSE n \in Machines :
                       \A k \in Machines : bins[n] < bins[k] \/ (bins[n] = bins[k] /\ n <= k)
      after[i \in 0..Len(order)] ==
        IF i = 0 THEN [bins |-> [n \in Machines |-> 0], of |-> [n \in Machines |-> <<>>]]
        ELSE LET before == after[i - 1]
                 n == least(before.bins)
             IN  [bins |-> [before.bins EXCEPT ![n] = @ + weight(order[i])],
                  of |-> [before.of EXCEPT ![n] = Append(@, order[i])]]
  IN  after[Len(order)].of

(***************************************************************************)
(* The layout of the buffer for ReduceScatter: histograms one after the    *)
(* other, each summed by one machine, whose block holds those it sums; and *)
(* where each starts in the buffer (write) and in that block (read).       *)
(***************************************************************************)
Item(n, s, f) == [to |-> n, side |-> s, feature |-> f]
SizeOfItems(items, ns) == MapThenSumSet(LAMBDA n : SizeOf(items[n].feature), ns)

\* Mutant: the histograms of other machines' blocks are counted as well.
ReadStart_Whole(items, n) == SizeOfItems(items, 1..(n - 1))
ReadStart(items, n) == SizeOfItems(items, {k \in 1..(n - 1) : items[k].to = items[n].to})

Placed(items) ==
  [n \in DOMAIN items |-> [to |-> items[n].to, side |-> items[n].side,
     feature |-> items[n].feature,
     write |-> SizeOfItems(items, 1..(n - 1)), read |-> ReadStart(items, n)]]

\* PrepareBufferPos: machine by machine, in the order of the distribution.
PrepareBufferPos(fs) ==
  LET of == FeatureDistribution(fs)
  IN  Placed(FlattenSeq([n \in 1..Cardinality(Machines) |->
                [i \in DOMAIN of[n - 1] |-> Item(n - 1, "smaller", of[n - 1][i])]]))

\* CopyLocalHistogram: blocks of equally many features, in each of which
\* those voted for the smaller and the larger leaf alternate.
CopyLocalHistogram(voted) ==
  LET total == Len(voted["smaller"]) + Len(voted["larger"])
      average == (total + Cardinality(Machines) - 1) \div Cardinality(Machines)
      copied[n \in 0..total] ==
        IF n = 0 THEN <<>>
        ELSE LET before == copied[n - 1]
                 to == (n - 1) \div average
                 turn == IF before # <<>> /\ Last(before).to = to /\ Last(before).side = "smaller"
                           THEN "larger" ELSE "smaller"
                 taken(s) == Cardinality({i \in DOMAIN before : before[i].side = s})
                 side == IF taken(turn) < Len(voted[turn]) THEN turn
                         ELSE CHOOSE s \in Sides : s # turn
             IN  Append(before, Item(to, side, voted[side][taken(side) + 1].feature))
  IN  Placed(copied[total])

CountIn(m, l) ==
  IF l = None THEN 0
  ELSE IF job.mode = "feature" THEN Cardinality(part[m][l]) ELSE counts[m][l]

\* BeforeTrain.
BeforeTrain(m) ==
  /\ pc[m] = "idle" /\ round[m] < Len(job.plan)
  /\ round' = [round EXCEPT ![m] = @ + 1]
  /\ LET bag == job.plan[round[m] + 1].bag
         fs == job.plan[round[m] + 1].used
         mine == IF job.mode = "feature" THEN bag ELSE bag \cap job.own[m]
     IN  /\ used' = [used EXCEPT ![m] =
              IF job.mode = "feature" THEN Range(FeatureDistribution(fs)[m]) ELSE fs]
         /\ layout' = [layout EXCEPT ![m] =
              IF job.mode = "data" THEN PrepareBufferPos(fs) ELSE <<>>]
         /\ part' = [part EXCEPT ![m] = [l \in Leaves |-> IF l = 0 THEN mine ELSE {}]]
         /\ pair' = [pair EXCEPT ![m] = [smaller |-> [leaf |-> 0, sum |-> mine],
                                         larger |-> [leaf |-> None, sum |-> {}]]]
  /\ tree' = [tree EXCEPT ![m] = <<>>]
  /\ best' = [best EXCEPT ![m] = [l \in Leaves |-> NoSplit]]
  /\ pc' = [pc EXCEPT ![m] = IF job.mode = "feature" THEN "search" ELSE "sum"]
  /\ UNCHANGED <<job, counts, hist, splittable, votes, got>>

\* A collective operation: all machines are in it.
AllAt(where) == \A m \in Machines : pc[m] = where
AllGoTo(where) == pc' = [m \in Machines |-> where]

\* Mutant: the root's count stays that of the machine.
RootCounts_Local(m, sum) == [counts[m] EXCEPT ![0] = Cardinality(part[m][0])]
RootCounts(m, sum) == [counts[m] EXCEPT ![0] = Cardinality(sum)]

\* The second half of BeforeTrain: the root's count and sums are added up.
AllreduceRoot ==
  /\ AllAt("sum") /\ AllGoTo("search")
  /\ LET sum == Sum([m \in Machines |-> pair[m].smaller.sum])
     IN  /\ pair' = [m \in Machines |-> [pair[m] EXCEPT !.smaller.sum = sum]]
         /\ counts' = [m \in Machines |-> RootCounts(m, sum)]
  /\ UNCHANGED <<job, round, tree, part, hist, splittable, used, layout, votes, got, best>>
-----------------------------------------------------------------------------
Left(m)  == IF tree[m] = <<>> THEN 0 ELSE Last(tree[m]).leaf
Right(m) == IF tree[m] = <<>> THEN None ELSE Len(tree[m])

\* BeforeFindBestSplit returns false.
TooSmall(m) ==
  CountIn(m, Left(m)) < 2 * MinData /\ CountIn(m, Right(m)) < 2 * MinData

SkipSearch(m) ==
  /\ pc[m] = "search" /\ TooSmall(m)
  /\ best' = [best EXCEPT ![m] = [l \in Leaves |-> IF l \in {Left(m), Right(m)}
                                    THEN [@[l] EXCEPT !.gain = MinScore] ELSE @[l]]]
  /\ pc' = [pc EXCEPT ![m] = "split"]
  /\ UNCHANGED <<job, round, tree, part, counts, pair, hist, splittable, used, layout, votes, got>>

\* BeforeFindBestSplit: the parent's array, at the left leaf, becomes the larger
\* child's; a smaller left child gets the array of the right leaf.
Moved(m, a) ==
  IF Right(m) # None /\ CountIn(m, Left(m)) < CountIn(m, Right(m))
    THEN [a EXCEPT ![Left(m)] = a[Right(m)], ![Right(m)] = a[Left(m)]] ELSE a

SmallerLeaf(m) == pair[m].smaller.leaf
LargerLeaf(m)  == pair[m].larger.leaf
LeafOf(m, s)   == pair[m][s].leaf
TheSides(m)    == {s \in Sides : LeafOf(m, s) # None}

\* ConstructHistograms for the smaller leaf, or zeroes where it has no rows.
WithSmaller(m, a, fs) ==
  [a EXCEPT ![SmallerLeaf(m)] = [f \in Features |->
    IF f \in fs THEN part[m][SmallerLeaf(m)] ELSE @[f]]]

\* Features whose parent could not be split on this machine are not searched.
Worth(m) ==
  {f \in used[m] : Right(m) = None \/ Moved(m, splittable[m])[LargerLeaf(m)][f]}

\* Data parallel FindBestSplits, up to the exchange of the histograms.
FindBestSplits(m) ==
  /\ pc[m] = "search" /\ ~TooSmall(m) /\ job.mode = "data"
  /\ hist' = [hist EXCEPT ![m] = WithSmaller(m, Moved(m, @), used[m])]
  /\ pc' = [pc EXCEPT ![m] = "scatter"]
  /\ UNCHANGED <<job, round, tree, part, counts, pair, splittable, used, layout, votes, got, best>>

(***************************************************************************)
(* What SerialTreeLearner and the voting learner do with the machine's own *)
(* rows: histograms h of both leaves, and for each side and feature the    *)
(* best split.  The serial learner (feature parallel) is given the leaf's  *)
(* sums, the voting learner those of its own rows.                         *)
(***************************************************************************)
LocalSum(m, s) == IF job.mode = "voting" THEN part[m][LeafOf(m, s)] ELSE pair[m][s].sum
LocalMin == IF job.mode = "voting" THEN MinData \div Cardinality(Machines) ELSE MinData

\* Before the subtraction voting zeroes the larger leaf's array, which holds
\* the parent's histogram, where the machine has no rows of that leaf.
ParentHistogram(m, old) ==
  IF job.mode = "voting" /\ part[m][LargerLeaf(m)] = {} THEN {} ELSE old

LocalHistograms(m) ==
  LET h == WithSmaller(m, Moved(m, hist[m]), Worth(m))
  IN  IF Right(m) = None THEN h
      ELSE [h EXCEPT ![LargerLeaf(m)] = [f \in Features |->
             IF f \in Worth(m)
               THEN Minus(ParentHistogram(m, @[f]), h[SmallerLeaf(m)][f])
               ELSE @[f]]]

\* The best split of feature f, by the histograms just built and num_data_in_leaf.
LocalSplit(m, s, f) ==
  SplitOf(f, hist'[m][LeafOf(m, s)][f], LocalSum(m, s), Cardinality(part[m][LeafOf(m, s)]), LocalMin)

SplittableAfter(m) ==
  LET old == Moved(m, splittable[m])
  IN  [l \in Leaves |-> [f \in Features |->
        IF f \notin used[m] \/ \A s \in TheSides(m) : LeafOf(m, s) # l THEN old[l][f]
        ELSE f \in Worth(m) /\
             \E s \in TheSides(m) : LeafOf(m, s) = l /\ LocalSplit(m, s, f).gain > 0]]

SearchLocally(m) ==
  /\ hist' = [hist EXCEPT ![m] = LocalHistograms(m)]
  /\ splittable' = [splittable EXCEPT ![m] = SplittableAfter(m)]

\* Feature parallel: the serial search on the machine's own features.
FindBestOfOwnFeatures(m) ==
  /\ pc[m] = "search" /\ ~TooSmall(m) /\ job.mode = "feature"
  /\ SearchLocally(m)
  /\ best' = [best EXCEPT ![m] = [l \in Leaves |->
       IF \E s \in TheSides(m) : LeafOf(m, s) = l
         THEN BestOf({NoSplit} \cup {LocalSplit(m, s, f) : f \in Worth(m),
                                       s \in {x \in TheSides(m) : LeafOf(m, x) = l}})
         ELSE @[l]]]
  /\ pc' = [pc EXCEPT ![m] = "best"]
  /\ UNCHANGED <<job, round, tree, part, counts, pair, used, layout, votes, got>>

\* Splits of different features, the better ones first.
BestFirst(ss) ==
  CHOOSE q \in [1..Cardinality(ss) -> ss] :
    \A i, j \in 1..Cardinality(ss) : i < j => Better(q[i], q[j])

\* Mutant: one more than there is room for.
MaxK_OneMore(ss, k) == SubSeq(BestFirst(ss), 1, Lower(Cardinality(ss), k + 1))

\* ArrayArgs::MaxK: the k best, in the order of Better.
MaxK(ss, k) == SubSeq(BestFirst(ss), 1, Lower(Cardinality(ss), k))

\* Voting: each machine names the TopK features best on its own rows.
FindLocalVotes(m) ==
  /\ pc[m] = "search" /\ ~TooSmall(m) /\ job.mode = "voting"
  /\ SearchLocally(m)
  /\ votes' = [votes EXCEPT ![m] = [s \in Sides |->
       IF s \in TheSides(m) THEN MaxK({LocalSplit(m, s, f) : f \in Worth(m)}, TopK) ELSE <<>>]]
  /\ pc' = [pc EXCEPT ![m] = "gather"]
  /\ UNCHANGED <<job, round, tree, part, counts, pair, used, layout, got, best>>

(***************************************************************************)
(* GlobalVoting: of each feature the vote with the largest gain weighted   *)
(* by the rows it was found on, and of the features the TopK best.         *)
(***************************************************************************)
Weighted(v) ==
  [feature |-> v.feature, gain |-> v.gain * (v.left_count + v.right_count)]

GlobalVoting(s) ==
  LET all == {v \in {Weighted(w) : w \in UNION {Range(votes[m][s]) : m \in Machines}} : v.gain > 0}
      top(f) == CHOOSE v \in all : v.feature = f /\ \A w \in all : w.feature = f => w.gain <= v.gain
  IN  MaxK({top(f) : f \in {v.feature : v \in all}}, TopK)

AllgatherVotes ==
  /\ AllAt("gather") /\ AllGoTo("copy")
  /\ votes' = [m \in Machines |-> [s \in Sides |-> GlobalVoting(s)]]
  /\ UNCHANGED <<job, round, tree, part, counts, pair, hist, splittable, used, layout, got, best>>

CopyVoted(m) ==
  /\ pc[m] = "copy"
  /\ layout' = [layout EXCEPT ![m] = CopyLocalHistogram(votes[m])]
  /\ votes' = [votes EXCEPT ![m] = [s \in Sides |-> <<>>]]
  /\ pc' = [pc EXCEPT ![m] = "scatter"]
  /\ UNCHANGED <<job, round, tree, part, counts, pair, hist, splittable, used, got, best>>
-----------------------------------------------------------------------------
\* What machine m has in its buffer from position p on, if an item starts there.
At(m, p) ==
  LET ns == {n \in DOMAIN layout[m] : layout[m][n].write = p}
  IN  IF ns = {} THEN <<None, {Junk}>>
      ELSE LET it == layout[m][CHOOSE n \in ns : TRUE]
           IN  <<it.feature, hist[m][LeafOf(m, it.side)][it.feature]>>

Received(m) ==
  LET lay == layout[m]
      mine == {n \in DOMAIN lay : lay[n].to = m}
      start == SizeOfItems(lay, {n \in DOMAIN lay : lay[n].to < m})
      sum(n) == IF \A k \in Machines : At(k, start + lay[n].read)[1] = lay[n].feature
                  THEN Sum([k \in Machines |-> At(k, start + lay[n].read)[2]]) ELSE {Junk}
  IN  [x \in {<<lay[n].side, lay[n].feature>> : n \in mine} |->
        sum(CHOOSE n \in mine : x = <<lay[n].side, lay[n].feature>>)]

ReduceScatter ==
  /\ AllAt("scatter") /\ AllGoTo("judge")
  /\ got' = [m \in Machines |-> Received(m)]
  /\ UNCHANGED <<job, round, tree, part, counts, pair, hist, splittable, used, layout, votes, best>>

(***************************************************************************)
(* FindBestSplitsFromHistograms on the summed histograms.  Data parallel   *)
(* keeps them in the pool and gets the larger leaf's by subtraction.       *)
(***************************************************************************)
Aggregated(m) == {x[2] : x \in DOMAIN got[m]}

Summed(m) ==
  IF job.mode = "voting" THEN hist[m]
  ELSE LET small == [f \in Features |-> IF f \in Aggregated(m) THEN got[m][<<"smaller", f>>]
                                        ELSE hist[m][SmallerLeaf(m)][f]]
       IN  [l \in Leaves |->
             IF l = SmallerLeaf(m) THEN small
             ELSE IF l # LargerLeaf(m) THEN hist[m][l]
             ELSE [f \in Features |-> IF f \in Aggregated(m) THEN Minus(hist[m][l][f], small[f])
                                      ELSE hist[m][l][f]]]

Judged(m, s) ==
  IF job.mode = "voting"
    THEN {<<x[2], got[m][x]>> : x \in {y \in DOMAIN got[m] : y[1] = s}}
    ELSE {<<f, hist'[m][LeafOf(m, s)][f]>> : f \in Aggregated(m)}

\* Judged by the leaf's global sums and its global count.
Judge(m, s, f, h) == SplitOf(f, h, pair[m][s].sum, CountIn(m, LeafOf(m, s)), MinData)

FindBestSplitsFromHistograms(m) ==
  /\ pc[m] = "judge"
  /\ hist' = [hist EXCEPT ![m] = Summed(m)]
  /\ best' = [best EXCEPT ![m] = [l \in Leaves |->
       IF \E s \in TheSides(m) : LeafOf(m, s) = l
         THEN LET s == CHOOSE x \in TheSides(m) : LeafOf(m, x) = l
              IN  BestOf({NoSplit} \cup {Judge(m, s, j[1], j[2]) : j \in Judged(m, s)})
         ELSE @[l]]]
  /\ got' = [got EXCEPT ![m] = <<>>]
  /\ pc' = [pc EXCEPT ![m] = "best"]
  /\ UNCHANGED <<job, round, tree, part, counts, pair, splittable, used, layout, votes>>

\* What machine m hands to the reduction for a side.
Offered(m, s) == IF s \in TheSides(m) THEN best[m][LeafOf(m, s)] ELSE NoSplit

\* Mutant: the reduced split is not copied back.
Agreed_Own(m, s) == Offered(m, s)

\* The best of all machines; voting keeps its own if none found a feature.
Agreed(m, s) ==
  LET all == BestOf({Offered(n, s) : n \in Machines})
  IN  IF job.mode = "voting" /\ s = "larger" /\ all.feature = None THEN Offered(m, s) ELSE all

SyncUpGlobalBestSplit ==
  /\ AllAt("best") /\ AllGoTo("split")
  /\ best' = [m \in Machines |-> [l \in Leaves |->
       IF \E s \in TheSides(m) : LeafOf(m, s) = l
         THEN Agreed(m, CHOOSE s \in TheSides(m) : LeafOf(m, s) = l) ELSE best[m][l]]]
  /\ UNCHANGED <<job, round, tree, part, counts, pair, hist, splittable, used, layout, votes, got>>
-----------------------------------------------------------------------------
BestLeaf(m) ==
  CHOOSE l \in Leaves : \A k \in Leaves :
    ~Better(best[m][k], best[m][l]) /\ (Better(best[m][l], best[m][k]) \/ l <= k)

Finish(m) ==
  /\ pc[m] = "split" /\ best[m][BestLeaf(m)].gain <= 0
  /\ pc' = [pc EXCEPT ![m] = "idle"]
  /\ UNCHANGED <<job, round, tree, part, counts, pair, hist, splittable, used, layout, votes, got, best>>

\* SplitInner counts the rows (update_cnt); data based learners, which have not
\* all of them, keep the counts estimated for the split.
SplitCounts(s, l, r) ==
  IF job.mode = "feature" THEN <<Cardinality(l), Cardinality(r)>>
  ELSE <<s.left_count, s.right_count>>

Split(m) ==
  /\ pc[m] = "split" /\ best[m][BestLeaf(m)].gain > 0
  /\ LET leaf == BestLeaf(m)
         s == best[m][leaf]
         new == Len(tree[m]) + 1
         goes == part[m][leaf] \cap job.goLeft[s.feature]
         stays == part[m][leaf] \ job.goLeft[s.feature]
         n == SplitCounts(s, goes, stays)
         l == [leaf |-> leaf, sum |-> s.left]
         r == [leaf |-> new, sum |-> s.right]
     IN  /\ tree' = [tree EXCEPT ![m] = Append(@, [leaf |-> leaf, feature |-> s.feature])]
         /\ part' = [part EXCEPT ![m][leaf] = goes, ![m][new] = stays]
         /\ counts' = [counts EXCEPT ![m][leaf] = n[1], ![m][new] = n[2]]
         /\ pair' = [pair EXCEPT ![m] = IF n[1] < n[2] THEN [smaller |-> l, larger |-> r]
                                        ELSE [smaller |-> r, larger |-> l]]
         /\ pc' = [pc EXCEPT ![m] = IF new = NumLeaves - 1 THEN "idle" ELSE "search"]
  /\ UNCHANGED <<job, round, hist, splittable, used, layout, votes, got, best>>

Done == \A m \in Machines : pc[m] = "idle" /\ round[m] = Len(job.plan)
Terminating == Done /\ UNCHANGED vars

Step(m) ==
  \/ BeforeTrain(m)
  \/ SkipSearch(m)
  \/ FindBestSplits(m)
  \/ FindBestOfOwnFeatures(m)
  \/ FindLocalVotes(m)
  \/ CopyVoted(m)
  \/ FindBestSplitsFromHistograms(m)
  \/ Finish(m)
  \/ Split(m)

Next ==
  \/ \E m \in Machines : Step(m)
  \/ AllreduceRoot \/ AllgatherVotes \/ ReduceScatter \/ SyncUpGlobalBestSplit
  \/ Terminating

Spec == Init /\ [][Next]_vars
-----------------------------------------------------------------------------
\* Every variable has the values it should have.
TypeOK ==
  /\ IsJob(job)
  /\ \A m \in Machines :
       /\ round[m] \in 0..Len(job.plan)
       /\ pc[m] \in {"idle", "sum", "search", "gather", "copy", "scatter", "judge", "best", "split"}
       /\ \A i \in DOMAIN tree[m] : tree[m][i].leaf \in 0..(i - 1) /\ tree[m][i].feature \in Features
       /\ \A l \in Leaves : /\ part[m][l] \subseteq Rows /\ counts[m][l] \in Nat
                            /\ \A f \in Features : /\ hist[m][l][f] \subseteq Rows \cup {Junk}
                                                   /\ splittable[m][l][f] \in BOOLEAN
                            /\ best[m][l].feature \in Features \cup {None}
       /\ DOMAIN got[m] \subseteq Sides \X Features
       /\ \A s \in Sides : Len(votes[m][s]) <= TopK
       /\ \A s \in Sides : pair[m][s].leaf \in Leaves \cup {None}

Aligned == \A m, n \in Machines : round[m] = round[n] /\ Len(tree[m]) = Len(tree[n])
AllRows(l) == UNION {part[m][l] : m \in Machines}
LeavesOf(m) == 0..Len(tree[m])

(***************************************************************************)
(* All machines grow the same tree: of two machines in the same tree one   *)
(* has made the splits of the other, in that order.  The tree is never     *)
(* sent; each machine derives it.  Where no search is due, and so nothing  *)
(* to exchange, one machine may be any number of splits ahead.             *)
(***************************************************************************)
MachinesAgree ==
  \A m, n \in Machines : round[m] = round[n] =>
    IsPrefix(tree[m], tree[n]) \/ IsPrefix(tree[n], tree[m])

(***************************************************************************)
(* Data parallel finds what one machine with all rows and all features     *)
(* would find with the counts it keeps: before each split the best split   *)
(* of every leaf is the best over all used features, judged by all rows of *)
(* the leaf.  Where hessians are constant those counts are exact, and then *)
(* feature parallel finds that split too.  (With other hessians a single   *)
(* machine judges by estimates as well, but corrects the counts of a leaf  *)
(* after each split; and features are given up below a leaf where only an  *)
(* estimate forbids their split.)                                          *)
(***************************************************************************)
SerialBest(m, l) ==
  BestOf({NoSplit} \cup {SplitOf(f, AllRows(l), AllRows(l), CountIn(m, l), MinData) :
                           f \in job.plan[round[m]].used})

FindsBestOfAll ==
  Aligned /\ (job.mode = "data" \/ (job.mode = "feature" /\ ConstantHessian)) =>
    \A m \in Machines : pc[m] = "split" =>
      \A l \in LeavesOf(m) : IF SerialBest(m, l).gain > 0 THEN best[m][l] = SerialBest(m, l)
                             ELSE best[m][l].gain <= 0

(***************************************************************************)
(* The counts by which every machine decides whether to search, which      *)
(* child is the smaller one and which splits leave enough rows are the     *)
(* same everywhere.  Data parallel never counts the rows of a leaf but the *)
(* root: with constant hessians its estimates are exact all the same.      *)
(***************************************************************************)
CountsAreGlobal ==
  Aligned =>
    \A m \in Machines : pc[m] \notin {"idle", "sum"} =>
      \A l \in LeavesOf(m) :
        /\ \A n \in Machines : pc[n] \notin {"idle", "sum"} => CountIn(n, l) = CountIn(m, l)
        /\ job.mode = "feature" \/ (job.mode = "data" /\ ConstantHessian) =>
             CountIn(m, l) = Cardinality(AllRows(l))

============================================================================
