----------------------------- MODULE BinRouting -----------------------------
(***************************************************************************)
(* The way of a feature's values through a split: BinMapper finds bins in  *)
(* a sample (bin.cpp), FeatureGroup stores the bin of every row shifted    *)
(* and without the most frequent one (feature_group.h), the histogram      *)
(* restores that bin from the sums of the leaf (dataset.cpp), the scan     *)
(* reads the histogram from either end (feature_histogram.hpp), the split  *)
(* routes the stored bins (dense_bin.hpp, sparse_bin.hpp and the Metal     *)
(* kernel agree), and the tree later routes bins of validation data or raw *)
(* values (tree.h).  Four codings of one decision, each with special cases *)
(* for missing values and for the most frequent bin.                       *)
(*                                                                         *)
(* Values are multiples of 10 on a line where kZero stands for             *)
(* kZeroThreshold; values nearer to zero than that are left out.  There is *)
(* one row for each value of Values, whether or not the sample had it, and *)
(* a histogram holds numbers of rows.  Which threshold has the best gain   *)
(* is left open.                                                           *)
(***************************************************************************)
EXTENDS Integers, Sequences, FiniteSets, FiniteSetsExt, SequencesExt

CONSTANTS
  Values,    \* the numbers a feature may take
  SampleCnt, \* size of the sample bins are found in
  Configs,   \* parameters, see IsConfig
  Neighbor   \* stored bins of the feature before it in a bundle

VARIABLES
  pc,      \* "sample", "unused", "found", "search", "split"
  config,
  sample,  \* value -> how often it was sampled
  mapper,  \* the BinMapper
  storage, \* "single", "bundled" or "multi"
  stored,  \* value -> what is stored for its row
  leaf,    \* the rows of the leaf being split
  split    \* the SplitInfo found

vars == <<pc, config, sample, mapper, storage, stored, leaf, split>>

NaN == 1000
Inf == 999
kZero == 1
Rows == Values \cup {NaN}

IsConfig(c) ==
  /\ DOMAIN c = {"type", "use_missing", "zero_as_missing", "max_bin", "min_data_in_bin", "forced", "filter_cnt"}
  /\ c.type \in {"numerical", "categorical"} /\ c.use_missing \in BOOLEAN /\ c.zero_as_missing \in BOOLEAN
  /\ c.max_bin \in Nat \ {0, 1} /\ c.min_data_in_bin \in Nat \ {0} /\ c.filter_cnt \in Nat

ASSUME RoutingAssumption ==
  /\ 0 \in Values /\ \A v \in Values : v % 10 = 0 /\ v < Inf
  /\ SampleCnt \in Nat \ {0} /\ Neighbor \in Nat \ {0}
  /\ \A c \in Configs : IsConfig(c)

AnyConfig == CHOOSE c \in Configs : TRUE
NoSample == [v \in Rows |-> 0]
NoMapper == [type |-> "numerical", missing |-> "None", bounds |-> <<Inf>>, bins |-> <<>>,
             num_bin |-> 1, default_bin |-> 0, most_freq_bin |-> 0]
NoSplit == [threshold |-> -1, cats |-> {}, default_left |-> FALSE, left_count |-> 0]

Total(count, seq) == FoldSeq(LAMBDA v, sum : sum + count[v], 0, seq)
Indices(n) == [i \in 1..n |-> i]
Mid(a, b) == (a + b) \div 2

-----------------------------------------------------------------------------
(* GreedyFindBin: upper bounds for values vs, in ascending order, that       *)
(* occur count times                                                         *)

\* A bin of its own for every value that occurs often enough.
FewValues(vs, count, minData) ==
  LET Step(acc, i) ==
        LET cur == acc.cur + count[vs[i]]
        IN  IF cur >= minData
            THEN [bounds |-> Append(acc.bounds, Mid(vs[i], vs[i + 1])), cur |-> 0]
            ELSE [acc EXCEPT !.cur = cur]
  IN  Append(FoldLeft(Step, [bounds |-> <<>>, cur |-> 0], Indices(Len(vs) - 1)).bounds, Inf)

\* cur >= n / d, and cur >= max(1, n / (2 d)), in floating point: n / 0 is
\* infinite or not a number.
AtLeast(cur, n, d) == d # 0 /\ cur * d >= n
AtLeastHalf(cur, n, d) ==
  /\ cur >= 1
  /\ IF d = 0 THEN n = 0 ELSE 2 * cur * d >= n

\* Bins of about the same size, but for values that fill one alone.
ManyValues(vs, count, maxBin, total, minData) ==
  LET limit == Max({1, Min({maxBin, total \div minData})})
      big(v) == count[v] * limit >= total
      bigs == SelectSeq(vs, big)
      rest == total - Total(count, bigs)
      Step(acc, i) ==
        LET v == vs[i]
            left == IF big(v) THEN acc.left ELSE acc.left - count[v]
            cur == acc.cur + count[v]
            close == \/ big(v) \/ AtLeast(cur, acc.n, acc.d)
                     \/ big(vs[i + 1]) /\ AtLeastHalf(cur, acc.n, acc.d)
        IN  IF acc.done THEN acc
            ELSE IF ~close THEN [acc EXCEPT !.left = left, !.cur = cur]
            ELSE [bounds |-> Append(acc.bounds, Mid(v, vs[i + 1])), left |-> left, cur |-> 0,
                  bins |-> IF big(v) THEN acc.bins ELSE acc.bins - 1,
                  n |-> IF big(v) THEN acc.n ELSE left,
                  d |-> IF big(v) THEN acc.d ELSE acc.bins - 1,
                  done |-> Len(acc.bounds) + 1 >= limit - 1]
      bins == limit - Len(bigs)
  IN  Append(FoldLeft(Step, [bounds |-> <<>>, left |-> rest, cur |-> 0, bins |-> bins,
                             n |-> rest, d |-> bins, done |-> FALSE],
                      Indices(Len(vs) - 1)).bounds, Inf)

\* Mutant: one value more than there are bins is taken for few.
GreedyFindBin_Loose(vs, count, maxBin, minData) ==
  IF Len(vs) <= maxBin + 1 THEN FewValues(vs, count, minData)
  ELSE ManyValues(vs, count, maxBin, Total(count, vs), minData)

GreedyFindBin(vs, count, maxBin, minData) ==
  IF Len(vs) <= maxBin THEN FewValues(vs, count, minData)
  ELSE ManyValues(vs, count, maxBin, Total(count, vs), minData)

Negative(v) == v < 0
Positive(v) == v > 0

FindBinWithZeroAsOneBin(vs, count, maxBin, total, minData) ==
  LET neg == SelectSeq(vs, Negative)
      pos == SelectSeq(vs, Positive)
      leftMax == Max({1, (Total(count, neg) * (maxBin - 1)) \div (total - count[0])})
      left == IF neg = <<>> \/ maxBin <= 1 THEN <<>>
              ELSE LET bounds == GreedyFindBin(neg, count, leftMax, minData)
                   IN  [bounds EXCEPT ![Len(bounds)] = -kZero]
      rightMax == maxBin - 1 - Len(left)
  IN  IF pos # <<>> /\ rightMax > 0
      THEN left \o <<kZero>> \o GreedyFindBin(pos, count, rightMax, minData)
      ELSE Append(left, Inf)

Ascending(seq) == SortSeq(seq, <)

\* Bounds forced by the user, besides those around zero; the bins that are
\* left go to the ranges in between by the number of values in them (of no
\* values at all, 0 / 0 rounds to 0).
FindBinWithPredefinedBin(vs, count, maxBin, total, minData, forced) ==
  LET neg == SelectSeq(vs, Negative) # <<>>
      pos == SelectSeq(vs, Positive) # <<>>
      zero == IF maxBin = 2 THEN <<IF neg THEN -kZero ELSE kZero>>
              ELSE IF maxBin < 3 THEN <<>>
              ELSE (IF neg THEN <<-kZero>> ELSE <<>>) \o (IF pos THEN <<kZero>> ELSE <<>>)
      room == Max({0, maxBin - Len(zero) - 1})
      asked == SelectSeq(forced, LAMBDA b : b # 0)
      fixed == Ascending(zero \o SubSeq(asked, 1, Min({room, Len(asked)})) \o <<Inf>>)
      free == maxBin - Len(fixed)
      Inside(i) == SelectSeq(vs, LAMBDA v : v < fixed[i] /\ (i > 1 => v >= fixed[i - 1]))
      Step(added, i) ==
        LET inside == Inside(i)
            cnt == Total(count, inside)
            remaining == free - Len(added)
            sub == IF i = Len(fixed) THEN remaining + 1
                   ELSE Min({IF total = 0 THEN 0 ELSE (2 * cnt * free + total) \div (2 * total),
                             remaining}) + 1
        IN  added \o Front(GreedyFindBin(inside, count, sub, minData))
  IN  Ascending(fixed \o FoldLeft(Step, <<>>, Indices(Len(fixed))))

-----------------------------------------------------------------------------
(* BinMapper::FindBin                                                        *)

ValueToBin(m, v) ==
  LET value == IF v = NaN /\ m.missing # "NaN" THEN 0 ELSE v
      last == IF m.missing = "NaN" THEN m.num_bin - 1 ELSE m.num_bin
  IN  IF m.type = "categorical"
      THEN IF \E b \in 2..m.num_bin : m.bins[b] = v
           THEN (CHOOSE b \in 2..m.num_bin : m.bins[b] = v) - 1
           ELSE 0
      ELSE IF value = NaN THEN m.num_bin - 1
      ELSE Min({b \in 1..last : b = last \/ value <= m.bounds[b]}) - 1

\* The most frequent bin is only worth its trouble if it is most of the rows.
WithFrequentBin(m, cntInBin) ==
  LET most == CHOOSE b \in 1..m.num_bin :
                /\ \A c \in 1..m.num_bin : cntInBin[c] <= cntInBin[b]
                /\ \A c \in 1..(b - 1) : cntInBin[c] < cntInBin[b]
      default == ValueToBin(m, 0)
  IN  [m EXCEPT !.default_bin = default,
                !.most_freq_bin =
                   IF 10 * cntInBin[most] < 7 * SampleCnt THEN default ELSE most - 1]

\* NeedFilter: no prefix of the bins, or no bin of two, is a possible side.
NeedFilter(type, cntInBin) ==
  LET fits(n) == n >= config.filter_cnt /\ SampleCnt - n >= config.filter_cnt
      few == 1..(Len(cntInBin) - 1)
  IN  IF type = "numerical"
      THEN \A i \in few : ~fits(Total(cntInBin, Indices(i)))
      ELSE Len(cntInBin) <= 2 /\ \A i \in few : ~fits(cntInBin[i])

Asked == IF ~config.use_missing THEN "None"
         ELSE IF config.zero_as_missing THEN "Zero"
         ELSE IF sample[NaN] > 0 THEN "NaN" ELSE "None"

NaCnt == IF Asked = "NaN" THEN sample[NaN] ELSE 0

\* Occurrences of a distinct value; NaN counts as zero unless it is a bin.
Occurs ==
  [v \in Values |-> IF v = 0 /\ Asked # "NaN" THEN sample[0] + sample[NaN] ELSE sample[v]]

\* Zero is not among the sampled values; it is put where it belongs, even if
\* it never occurred between negative and positive values.
Distinct ==
  LET others == {v \in Values : v # 0 /\ sample[v] > 0}
      zero == \/ others = {} \/ Occurs[0] > 0
              \/ (\E v \in others : v < 0) /\ (\E v \in others : v > 0)
  IN  SetToSortSeq(IF zero THEN others \cup {0} ELSE others, <)

NumericalBounds ==
  LET Find(maxBin, total) ==
        IF config.forced = <<>>
        THEN FindBinWithZeroAsOneBin(Distinct, Occurs, maxBin, total, config.min_data_in_bin)
        ELSE FindBinWithPredefinedBin(Distinct, Occurs, maxBin, total, config.min_data_in_bin, config.forced)
      last == IF Asked = "NaN" THEN <<NaN>> ELSE <<>>
  IN  Find(config.max_bin - Len(last), SampleCnt - NaCnt) \o last

\* Zero as missing needs a bin besides its neighbours.
NumericalMapper(bounds) ==
  [NoMapper EXCEPT
     !.bounds = bounds, !.num_bin = Len(bounds),
     !.missing = IF Asked = "Zero" /\ Len(bounds) = 2 THEN "None" ELSE Asked]

NumericalCounts(m) ==
  [b \in 1..m.num_bin |->
     IF m.missing = "NaN" /\ b = m.num_bin THEN NaCnt
     ELSE Total(Occurs, SelectSeq(Distinct, LAMBDA v : ValueToBin(m, v) = b - 1))]

\* The categories by falling frequency, then ascending.
Categories ==
  SortSeq(SelectSeq(Distinct, LAMBDA v : v >= 0),
          LAMBDA a, b : Occurs[a] > Occurs[b] \/ (Occurs[a] = Occurs[b] /\ a < b))

\* Those that get a bin: as many as max_bin, and more until 99 of 100 values
\* have one; behind the second none that is rarer than min_data_in_bin.
KeptCategories ==
  LET na == NaCnt + Total(Occurs, SelectSeq(Distinct, Negative))
      cut == (2 * (SampleCnt - na) * 99 + 100) \div 200
      most == Min({Len(Categories) + (IF na > 0 THEN 1 ELSE 0), config.max_bin})
      Used(i) == Total(Occurs, SubSeq(Categories, 1, i))
      Goes(i) == /\ Used(i - 1) < cut \/ i < most
                 /\ i > 2 => Occurs[Categories[i]] >= config.min_data_in_bin
      n == Max({i \in 0..Len(Categories) : \A j \in 1..i : Goes(j)})
  IN  IF SampleCnt > na THEN SubSeq(Categories, 1, n) ELSE <<>>

CategoricalMapper ==
  [NoMapper EXCEPT
     !.type = "categorical", !.bins = <<-1>> \o KeptCategories, !.num_bin = Len(KeptCategories) + 1,
     !.missing = IF KeptCategories = Categories /\ NaCnt = 0 /\ SelectSeq(Distinct, Negative) = <<>>
                 THEN "None" ELSE "NaN"]

CategoricalCounts(m) ==
  LET cnt == [b \in 2..m.num_bin |-> Occurs[m.bins[b]]]
  IN  [b \in 1..m.num_bin |-> IF b = 1 THEN SampleCnt - Total(cnt, Tail(Indices(m.num_bin))) ELSE cnt[b]]

\* All ways to see SampleCnt values, added one kind of value after the other.
Samples ==
  LET Add(v, some) == {t \in {[s EXCEPT ![v] = n] : s \in some, n \in 0..SampleCnt} :
                         SumFunction(t) <= SampleCnt}
  IN  {s \in FoldSet(Add, {NoSample}, Rows) : SumFunction(s) = SampleCnt}

Init ==
  /\ pc = "sample"
  /\ config \in Configs
  /\ sample \in Samples
  /\ mapper = NoMapper /\ storage = "single" /\ stored = NoSample /\ leaf = {} /\ split = NoSplit

FindBin ==
  /\ pc = "sample"
  /\ \E m \in {IF config.type = "numerical" THEN NumericalMapper(NumericalBounds) ELSE CategoricalMapper} :
     \E cntInBin \in {IF config.type = "numerical" THEN NumericalCounts(m) ELSE CategoricalCounts(m)} :
       IF m.num_bin <= 1 \/ (config.filter_cnt > 0 /\ NeedFilter(config.type, cntInBin))
       THEN mapper' = m /\ pc' = "unused"
       ELSE mapper' = WithFrequentBin(m, cntInBin) /\ pc' = "found"
  /\ UNCHANGED <<config, sample, storage, stored, leaf, split>>

-----------------------------------------------------------------------------
(* Storing bins                                                              *)

Offset == IF mapper.most_freq_bin = 0 THEN 1 ELSE 0
MinBinOf(where) == IF where = "bundled" THEN Neighbor + 1 ELSE 1
MinBin == MinBinOf(storage)
MaxBin == MinBin + mapper.num_bin - Offset - 1

\* Mutant: bins are not moved down when bin 0 is the one left out.
PushData_NoOffset(where, absent, v) ==
  IF ValueToBin(mapper, v) = mapper.most_freq_bin THEN absent
  ELSE ValueToBin(mapper, v) + MinBinOf(where)

\* What is stored: nothing for the most frequent bin, unless another feature
\* of the bundle has a bin to store for that row.
PushData(where, absent, v) ==
  IF ValueToBin(mapper, v) = mapper.most_freq_bin THEN absent
  ELSE ValueToBin(mapper, v) - Offset + MinBinOf(where)

Construct ==
  /\ pc = "found"
  /\ \E where \in {"single", "bundled", "multi"} :
     \E absent \in {0, 1, MinBinOf(where) + mapper.num_bin - Offset} :
       /\ where # "bundled" => absent = 0
       /\ storage' = where
       /\ stored' = [v \in Rows |-> PushData(where, absent, v)]
  /\ leaf' = Rows
  /\ pc' = "search"
  /\ config' = AnyConfig /\ sample' = NoSample
  /\ UNCHANGED <<mapper, split>>

\* DenseBinIterator::Get.
Natural(s) ==
  IF s \in MinBin..MaxBin THEN s - MinBin + Offset ELSE mapper.most_freq_bin

-----------------------------------------------------------------------------
(* The histogram of the leaf and the scan                                    *)

Slots == 0..(mapper.num_bin - Offset - 1)
Summed(t) == Cardinality({v \in leaf : stored[v] = MinBin + t})

\* Mutant: the most frequent bin stays as it was summed.
Hist_Unfixed(t) == Summed(t)

\* FixHistogram: the most frequent bin is what the others leave.
Hist(t) ==
  IF mapper.most_freq_bin > 0 /\ t = mapper.most_freq_bin
  THEN Cardinality(leaf) - SumFunctionOnSet([u \in Slots |-> Summed(u)], Slots \ {t})
  ELSE Summed(t)

HistSum(slots) == SumFunctionOnSet([t \in Slots |-> Hist(t)], slots)

SkipDefaultBin == mapper.num_bin > 2 /\ mapper.missing = "Zero"
NaAsMissing == mapper.num_bin > 2 /\ mapper.missing = "NaN"
Skipped == IF SkipDefaultBin THEN {mapper.default_bin - Offset} ELSE {}

Candidate(threshold, left, count) ==
  [NoSplit EXCEPT !.threshold = threshold, !.default_left = left, !.left_count = count]

\* FindBestThresholdSequentially from the last bin down: all that is not
\* summed goes left.
FromRight ==
  LET top == mapper.num_bin - 1 - Offset - (IF NaAsMissing THEN 1 ELSE 0)
      right(t) == HistSum((t..top) \ Skipped)
      left == ~(mapper.num_bin <= 2 /\ mapper.missing = "NaN")
  IN  {Candidate(t - 1 + Offset, left, Cardinality(leaf) - right(t)) : t \in ((1 - Offset)..top) \ Skipped}

\* ... and from the first bin up, when there may be missing values: all that
\* is not summed goes right.  A bin 0 that is not stored is restored for NaN.
FromLeft ==
  LET restored == NaAsMissing /\ Offset = 1
      base == IF restored THEN Cardinality(leaf) - HistSum(Slots) ELSE 0
      first == IF restored THEN -1 ELSE 0
      left(t) == base + HistSum((0..t) \ Skipped)
  IN  IF SkipDefaultBin \/ NaAsMissing
      THEN {Candidate(t + Offset, FALSE, left(t)) : t \in (first..(mapper.num_bin - 2 - Offset)) \ Skipped}
      ELSE {}

\* FindBestThresholdCategoricalInner: one category, or up to half of them.
ByCategory ==
  LET cats == 1..(mapper.num_bin - 1)
  IN  {[NoSplit EXCEPT !.cats = c, !.left_count = HistSum({b - Offset : b \in c})] :
         c \in {s \in SUBSET cats : s # {} /\ 2 * Cardinality(s) <= mapper.num_bin}}

FindBestSplit ==
  /\ pc = "search"
  /\ split' \in (IF mapper.type = "categorical" THEN ByCategory ELSE FromRight \cup FromLeft)
  /\ pc' = "split"
  /\ UNCHANGED <<config, sample, mapper, storage, stored, leaf>>

-----------------------------------------------------------------------------
(* Three ways to route a row                                                 *)

MfbIsZero == mapper.missing = "Zero" /\ mapper.default_bin = mapper.most_freq_bin
MfbIsNa == mapper.missing = "NaN" /\ mapper.most_freq_bin > 0 /\ MaxBin = mapper.most_freq_bin + MinBin
IsAbsent(s) == IF storage = "bundled" THEN s \notin MinBin..MaxBin ELSE s = 0

\* Where rows without a stored bin go.
AbsentLeft ==
  IF MfbIsZero \/ MfbIsNa THEN split.default_left ELSE mapper.most_freq_bin <= split.threshold

\* SplitInner of a dense or sparse bin.
SplitNumerical(s) ==
  LET th == split.threshold + MinBin - Offset
      isZero == mapper.missing = "Zero" /\ ~MfbIsZero /\ s = MinBin + mapper.default_bin - Offset
      isNa == mapper.missing = "NaN" /\ ~MfbIsNa /\ s = MaxBin
  IN  IF isZero \/ isNa THEN split.default_left
      ELSE IF MinBin < MaxBin THEN (IF IsAbsent(s) THEN AbsentLeft ELSE s <= th)
      ELSE IF s # MaxBin THEN AbsentLeft ELSE MaxBin <= th

SplitCategorical(s) ==
  IF IsAbsent(s) THEN mapper.most_freq_bin > 0 /\ mapper.most_freq_bin \in split.cats
  ELSE s - MinBin + Offset \in split.cats

GoesLeft(v) ==
  IF mapper.type = "categorical" THEN SplitCategorical(stored[v]) ELSE SplitNumerical(stored[v])

\* Tree::DecisionInner, on the bin.
InnerGoesLeft(v) ==
  LET bin == Natural(stored[v])
  IN  IF mapper.type = "categorical" THEN bin \in split.cats
      ELSE IF \/ mapper.missing = "Zero" /\ bin = mapper.default_bin
              \/ mapper.missing = "NaN" /\ bin = mapper.num_bin - 1
      THEN split.default_left
      ELSE bin <= split.threshold

\* Mutant: the bound is taken to be the next bin's.
RealThreshold_Next == mapper.bounds[split.threshold + 2]

\* Dataset::RealThreshold.
RealThreshold == mapper.bounds[split.threshold + 1]

\* Tree::Decision, on the value.
RawGoesLeft(v) ==
  LET value == IF v = NaN /\ mapper.missing # "NaN" THEN 0 ELSE v
  IN  IF mapper.type = "categorical" THEN \E b \in split.cats : mapper.bins[b + 1] = v
      ELSE IF (mapper.missing = "Zero" /\ value = 0) \/ value = NaN THEN split.default_left
      ELSE value <= RealThreshold

\* The leaf is split, and one of its children is the next leaf.
Partition ==
  /\ pc = "split"
  /\ \E side \in BOOLEAN :
       /\ leaf' = {v \in leaf : GoesLeft(v) = side}
       /\ leaf' # {}
  /\ split' = NoSplit
  /\ pc' = "search"
  /\ UNCHANGED <<config, sample, mapper, storage, stored>>

Next == FindBin \/ Construct \/ FindBestSplit \/ Partition

Spec == Init /\ [][Next]_vars
-----------------------------------------------------------------------------
RoutingTypeOK ==
  /\ pc \in {"sample", "unused", "found", "search", "split"} /\ config \in Configs
  /\ \A v \in Rows : stored[v] \in 0..(MaxBin + IF storage = "bundled" THEN 1 ELSE 0)
  /\ mapper.default_bin \in 0..mapper.num_bin /\ mapper.most_freq_bin \in 0..mapper.num_bin
  /\ leaf \subseteq Rows
  /\ pc = "split" => split.left_count \in 0..Cardinality(leaf) /\ split.threshold < mapper.num_bin - 1

\* Bins found are usable: bounds ascend strictly up to infinity, the bin of
\* NaN comes last, there are no more than asked for, and with three or more
\* no sampled number shares the bin of zero.
BinsSound ==
  pc = "found" /\ mapper.type = "numerical" =>
    LET n == IF mapper.missing = "NaN" THEN mapper.num_bin - 1 ELSE mapper.num_bin
    IN  /\ mapper.num_bin <= config.max_bin
        /\ mapper.bounds[n] = Inf
        /\ \A i \in 1..(n - 1) : mapper.bounds[i] < mapper.bounds[i + 1]
        /\ n < mapper.num_bin => mapper.bounds[mapper.num_bin] = NaN
        /\ n >= 3 => \A v \in Values \ {0} :
                       sample[v] > 0 => ValueToBin(mapper, v) # mapper.default_bin

\* When zero is missing, a number that fell into the bin of zero because the
\* sample had none on that side of it cannot be told from zero by its bin.
TakenForZero(v) ==
  /\ mapper.type = "numerical" /\ mapper.missing = "Zero"
  /\ v \notin {0, NaN} /\ ValueToBin(mapper, v) = mapper.default_bin

\* Stored bins, bins and raw values are routed alike, whatever is missing and
\* whichever bin is not stored: the training rows a leaf was fitted to, the
\* validation rows scored with it and the rows predicted later are the same.
RoutedAlike ==
  pc = "split" => \A v \in leaf :
    /\ GoesLeft(v) = InnerGoesLeft(v)
    /\ ~TakenForZero(v) => GoesLeft(v) = RawGoesLeft(v)

CountsAgree == split.left_count = Cardinality({v \in leaf : GoesLeft(v)})

\* The sums a threshold was judged by are those of the rows it sends left.
CountsHold ==
  pc = "split" /\ ~(mapper.missing = "Zero" /\ mapper.most_freq_bin # mapper.default_bin) => CountsAgree

\* The state between two calls, with bins as they should be found (bin.cpp,
\* BinMapper::FindBin).
RoutingInv == RoutingTypeOK /\ BinsSound
=============================================================================
