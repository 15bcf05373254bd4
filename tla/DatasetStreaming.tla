-------------------------- MODULE DatasetStreaming --------------------------
(***************************************************************************)
(* Filling a data set row by row through the C API (c_api.cpp,             *)
(* LGBM_DatasetPushRows and its variants; dataset.h; metadata.cpp).        *)
(* External threads each push their chunks of rows in calls that run a     *)
(* team of OpenMP threads; every team member pushes a block of the chunk.  *)
(* Then somebody finishes the load and the data is read.                   *)
(*                                                                         *)
(* The same bundle of features is stored twice: in a sparse column, where  *)
(* a thread collects its entries in a buffer of its own, and in a dense    *)
(* one of four bits a row, where even rows go to one array and odd rows to *)
(* another, so that no two threads write one byte.  A row is given by the  *)
(* bins of its features; finding the bin of a value is BinRouting's part.  *)
(***************************************************************************)
EXTENDS SparseBin

CONSTANTS
  NumData,        \* num_data_
  NumThreads,     \* nthreads: external threads
  OmpMaxThreads,  \* omp_max_threads_: no call runs a larger team
  Features,       \* the features of the bundle: [num_bin, most_freq_bin, zero_bin]
  NumClass,       \* classes of initial scores
  Setups          \* see IsSetup

VARIABLES
  setup,
  work,              \* thread -> chunks it has still to push
  call,              \* thread -> the call it is in
  push_buffers,      \* of the sparse column: set of <<row, bin>> per buffer
  sparse,            \* the sparse column once loaded
  data, buf,         \* the dense column: pairs of four bits, low and high
  label, init_score, queries, query_boundaries,
  is_finish_load

storage == <<push_buffers, sparse, data, buf>>
metadata == <<label, init_score, queries, query_boundaries>>
vars == <<setup, work, call, storage, metadata, is_finish_load>>

Rows    == 0..(NumData - 1)
Threads == 0..(NumThreads - 1)
Forms   == {"dense", "csr"}
NoCall  == [start |-> -1, cnt |-> 0, form |-> "dense", next |-> <<>>]
NotLoaded == WithIndex(Empty, 0)

\* What the callers want: the bins of each row, the chunks each thread pushes,
\* whether somebody will call MarkFinished (after LGBM_DatasetInitStreaming),
\* whether metadata comes with the rows, and the query each row belongs to.
\* Without InitStreaming there are buffers for one external thread.
IsSetup(s) ==
  /\ s.content \in [Rows -> [DOMAIN Features -> Nat]]
  /\ s.wait \in BOOLEAN /\ s.metadata \in BOOLEAN /\ s.query \in [Rows -> Nat]
  /\ \A r \in Rows : Cardinality({<<t, c>> \in Threads \X UNION {s.chunks[u] : u \in Threads} :
       c \in s.chunks[t] /\ r \in c[1]..(c[1] + c[2] - 1)}) = 1
  /\ ~s.wait => \A t \in Threads \ {0} : s.chunks[t] = {}
  /\ ~s.metadata => ~s.wait

ASSUME StreamingAssumption ==
  /\ NumData \in Nat \ {0} /\ NumThreads \in Nat \ {0} /\ OmpMaxThreads \in Nat \ {0}
  /\ \A s \in Setups : IsSetup(s)
-----------------------------------------------------------------------------
\* FeatureGroup: the stored bins of a feature; 0 means that every feature of
\* the bundle has its most frequent bin.
Missing0(f) == IF Features[f].most_freq_bin = 0 THEN 1 ELSE 0
Widths(f) == Features[f].num_bin - Missing0(f)
MinBin(f) == 1 + FoldSet(LAMBDA g, sum : sum + Widths(g), 0, 1..(f - 1))
MaxBin(f) == MinBin(f) + Widths(f) - 1

\* PushData: nothing for the most frequent bin.
PushData(f, bin) ==
  IF bin = Features[f].most_freq_bin THEN <<>> ELSE <<bin - Missing0(f) + MinBin(f)>>

\* feature_need_push_zeros_: zero is not the most frequent bin.
NeedPushZeros == {f \in DOMAIN Features : Features[f].zero_bin # Features[f].most_freq_bin}

PushAll(bins, fs) == FoldLeft(LAMBDA out, f : out \o PushData(f, bins[f]), <<>>, SetToSortSeq(fs, <))

\* Mutant: a row of nonzero values is not completed with zeros.
PushOneRow_NoZeros(bins, form) ==
  IF form = "dense" THEN PushAll(bins, DOMAIN Features)
  ELSE PushAll(bins, {f \in DOMAIN Features : bins[f] # Features[f].zero_bin})

\* PushOneRow and FinishOneRow: what goes to the group, in order.  A row of a
\* CSR matrix leaves out its zeros.
PushOneRow(bins, form) ==
  IF form = "dense" THEN PushAll(bins, DOMAIN Features)
  ELSE PushAll(bins, {f \in DOMAIN Features : bins[f] # Features[f].zero_bin})
       \o PushAll(bins, {f \in NeedPushZeros : bins[f] = Features[f].zero_bin})

\* The iterators' Get.
FeatureBin(f, stored) ==
  IF stored \in MinBin(f)..MaxBin(f) THEN stored - MinBin(f) + Missing0(f)
  ELSE Features[f].most_freq_bin
-----------------------------------------------------------------------------
Buffers(s) == 0..((IF s.wait THEN NumThreads * OmpMaxThreads ELSE OmpMaxThreads) - 1)
Bytes == 0..((NumData + 1) \div 2 - 1)

Init ==
  /\ setup \in Setups
  /\ work = setup.chunks
  /\ call = [t \in Threads |-> NoCall]
  /\ push_buffers = [b \in Buffers(setup) |-> {}]
  /\ sparse = NotLoaded
  /\ data = [i \in Bytes |-> <<0, 0>>] /\ buf = [i \in Bytes |-> <<0, 0>>]
  /\ label = [r \in Rows |-> 0]
  /\ init_score = [i \in 0..(NumData * NumClass - 1) |-> 0]
  /\ queries = [r \in Rows |-> 0]
  /\ query_boundaries = <<>>
  /\ is_finish_load = FALSE

\* OpenMP's static schedule: the rows of member w of a team.
BlockStart(c, team, w) == c[1] + w * (c[2] \div team) + Min({w, c[2] % team})

\* Without InitStreaming chunks come in order: the last one finishes the load.
Turn(t, c) == c \in work[t] /\ (~setup.wait => \A d \in work[t] : c[1] <= d[1])

Begin(t, c, form, team) ==
  /\ call[t] = NoCall /\ Turn(t, c)
  /\ work' = [work EXCEPT ![t] = @ \ {c}]
  /\ call' = [call EXCEPT ![t] = [start |-> c[1], cnt |-> c[2], form |-> form,
                                  next |-> [w \in 0..(team - 1) |-> BlockStart(c, team, w)]]]
  /\ UNCHANGED <<setup, storage, metadata, is_finish_load>>

HasRow(t, w) ==
  /\ call[t] # NoCall /\ w \in DOMAIN call[t].next
  /\ call[t].next[w] < BlockStart(<<call[t].start, call[t].cnt>>, Cardinality(DOMAIN call[t].next), w + 1)

\* Mutant: threads are told apart by the sum.
InternalTid_Sum(t, w) == IF setup.metadata THEN w + t ELSE w

\* PushRowsWithMetadata makes the thread's number unique; PushRows has only the
\* member's.
InternalTid(t, w) == IF setup.metadata THEN w + OmpMaxThreads * t ELSE w

\* Mutant: no second array.
Push_OneArray(row, bin) ==
  /\ data' = [data EXCEPT ![row \div 2] = IF row % 2 = 0 THEN <<bin, 0>> ELSE <<0, bin>>]
  /\ buf' = buf

\* DenseBin::Push
Push(row, bin) ==
  IF row % 2 = 0 THEN data' = [data EXCEPT ![row \div 2] = <<bin, 0>>] /\ buf' = buf
                 ELSE buf' = [buf EXCEPT ![row \div 2] = <<0, bin>>] /\ data' = data

Store(t, w, row, bins) ==
  IF is_finish_load \/ bins = <<>> THEN UNCHANGED storage
  ELSE /\ push_buffers' = [push_buffers EXCEPT ![InternalTid(t, w)] = @ \cup {<<row, b>> : b \in Range(bins)}]
       /\ Push(row, Last(bins))
       /\ UNCHANGED sparse

\* A member of the team pushes its next row; a bundle whose features conflict
\* in a row gets two bins, the dense column keeps the later one.
PushRow(t, w) ==
  /\ HasRow(t, w)
  /\ Store(t, w, call[t].next[w], PushOneRow(setup.content[call[t].next[w]], call[t].form))
  /\ call' = [call EXCEPT ![t].next[w] = @ + 1]
  /\ UNCHANGED <<setup, work, metadata, is_finish_load>>

\* What the callers pass for a row; the initial scores of a chunk come class by
\* class.
Label(r) == r + 1
InitScore(r, k) == 100 * (k + 1) + r
InitScores(start, cnt) == [j \in 0..(cnt * NumClass - 1) |-> InitScore(start + (j % cnt), j \div cnt)]

\* Metadata::InsertAt
InsertMetadataAt(start, cnt) ==
  /\ label' = [r \in Rows |-> IF r \in start..(start + cnt - 1) THEN Label(r) ELSE label[r]]
  /\ init_score' = [i \in DOMAIN init_score |->
       IF i % NumData \in start..(start + cnt - 1)
       THEN InitScores(start, cnt)[cnt * (i \div NumData) + (i % NumData) - start]
       ELSE init_score[i]]
  /\ queries' = [r \in Rows |-> IF r \in start..(start + cnt - 1) THEN setup.query[r] ELSE queries[r]]

\* CalculateQueryBoundaries
Boundaries(q) == SetToSortSeq({r \in Rows : r = 0 \/ q[r] # q[r - 1]} \cup {NumData}, <)

\* SparseBin::FinishLoad: entries by row; which of two for one row comes first
\* is up to std::sort, and the first is kept.
Entries == UNION Range(push_buffers)
OnePerRow(pairs) ==
  {kept \in SUBSET pairs : /\ {p[1] : p \in kept} = {p[1] : p \in pairs}
                           /\ \A p, q \in kept : p[1] = q[1] => p = q}
Sorted(kept) == SetToSortSeq(kept, LAMBDA p, q : p[1] < q[1])

\* Dataset::FinishLoad
FinishLoad(q) ==
  IF is_finish_load THEN UNCHANGED <<storage, query_boundaries, is_finish_load>>
  ELSE /\ \E kept \in OnePerRow(Entries) : sparse' = LoadFromPair(Sorted(kept), NumData)
       /\ push_buffers' = [b \in DOMAIN push_buffers |-> {}]
       /\ data' = [i \in Bytes |-> <<data[i][1] + buf[i][1], data[i][2] + buf[i][2]>>]
       /\ buf' = [i \in Bytes |-> <<0, 0>>]
       /\ query_boundaries' = IF setup.metadata THEN Boundaries(q) ELSE <<>>
       /\ is_finish_load' = TRUE

FinishesLoad(t) == ~setup.wait /\ call[t].start + call[t].cnt = NumData

\* All members are through: metadata, then perhaps the end of the load.
Return(t) ==
  /\ call[t] # NoCall /\ \A w \in DOMAIN call[t].next : ~HasRow(t, w)
  /\ IF setup.metadata THEN InsertMetadataAt(call[t].start, call[t].cnt)
                       ELSE UNCHANGED <<label, init_score, queries>>
  /\ IF FinishesLoad(t) THEN FinishLoad(queries')
                        ELSE UNCHANGED <<storage, query_boundaries, is_finish_load>>
  /\ call' = [call EXCEPT ![t] = NoCall]
  /\ UNCHANGED <<setup, work>>

AllReturned == \A t \in Threads : work[t] = {} /\ call[t] = NoCall

\* LGBM_DatasetMarkFinished, by a caller who has waited for all threads; also a
\* second time, or where the load has finished by itself.
MarkFinished ==
  /\ AllReturned
  /\ FinishLoad(queries)
  /\ UNCHANGED <<setup, work, call, label, init_score, queries>>

Next == \/ \E t \in Threads, form \in Forms, team \in 1..OmpMaxThreads :
             \E c \in work[t] : Begin(t, c, form, team)
        \/ \E t \in Threads, w \in 0..(OmpMaxThreads - 1) : PushRow(t, w)
        \/ \E t \in Threads : Return(t)
        \/ MarkFinished

Spec == Init /\ [][Next]_vars
-----------------------------------------------------------------------------
(***************************************************************************)
(* Types, and no two threads write to one buffer: the members of all teams *)
(* at work have buffers of their own, which exist (c_api.cpp, "convert     *)
(* internal thread id to be unique based on external thread id";           *)
(* sparse_bin.hpp, InitStreaming).  A vector two threads append to loses   *)
(* entries or breaks.                                                      *)
(***************************************************************************)
StreamingTypeOK ==
  /\ setup \in Setups
  /\ \A t \in Threads : work[t] \subseteq setup.chunks[t]
  /\ \A t \in Threads : DOMAIN call[t].next \subseteq 0..(OmpMaxThreads - 1)
  /\ DOMAIN push_buffers = Buffers(setup)
  /\ \A p \in Entries : p[1] \in Rows /\ p[2] \in 1..MaxBin(Len(Features))
  /\ \A i \in Bytes : Range(data[i]) \cup Range(buf[i]) \subseteq 0..15
  /\ DOMAIN label = Rows /\ DOMAIN queries = Rows
  /\ is_finish_load \in BOOLEAN

Active == {<<t, w>> \in Threads \X (0..(OmpMaxThreads - 1)) : HasRow(t, w)}

BuffersOfOneThread ==
  \A a, b \in Active :
    /\ InternalTid(a[1], a[2]) \in DOMAIN push_buffers
    /\ a # b => InternalTid(a[1], a[2]) # InternalTid(b[1], b[2])

StreamingInv == StreamingTypeOK /\ BuffersOfOneThread

(***************************************************************************)
(* Once the load is finished, which an automatic end does by itself, every *)
(* row holds what was pushed for it, in whatever chunks, by whatever       *)
(* threads, dense or as a row of a CSR matrix: the bins of its features in *)
(* both columns (of features that conflict in a row, one), its label, its  *)
(* initial score for every class, and the queries are the runs of equal    *)
(* numbers (dataset.h, PushOneRow; metadata.cpp, InsertAt, FinishLoad).    *)
(***************************************************************************)
Nibble(r) == data[r \div 2][(r % 2) + 1]
SparseBinOf(b, r) == LET at == {i \in 0..(NumVals(b) - 1) : b.vals[i + 1] > 0 /\ Position(b, i) = r}
                     IN  IF at = {} THEN 0 ELSE b.vals[Min(at) + 1]

Holds(bins, stored) ==
  LET said == {f \in DOMAIN Features : bins[f] # Features[f].most_freq_bin}
      only(g) == \A f \in DOMAIN Features :
                   FeatureBin(f, stored) = IF f = g THEN bins[f] ELSE Features[f].most_freq_bin
  IN  IF said = {} THEN stored = 0 ELSE \E g \in said : only(g)

MetadataLoaded ==
  /\ \A r \in Rows : label[r] = Label(r)
  /\ \A r \in Rows, k \in 0..(NumClass - 1) : init_score[NumData * k + r] = InitScore(r, k)
  /\ query_boundaries[1] = 0 /\ Last(query_boundaries) = NumData
  /\ \A n \in 1..(Len(query_boundaries) - 1) :
       /\ \A r \in query_boundaries[n]..(query_boundaries[n + 1] - 1) :
            setup.query[r] = setup.query[query_boundaries[n]]
       /\ n > 1 => setup.query[query_boundaries[n]] # setup.query[query_boundaries[n] - 1]

EveryRowLoaded ==
  /\ AllReturned /\ ~setup.wait => is_finish_load
  /\ is_finish_load => /\ \A r \in Rows : /\ Holds(setup.content[r], SparseBinOf(sparse, r))
                                          /\ Holds(setup.content[r], Nibble(r))
                       /\ setup.metadata => MetadataLoaded

(***************************************************************************)
(* A loaded sparse column reads the same wherever a reader starts and      *)
(* whichever rows it wants: an iterator reset to any row, the histogram of *)
(* a range or of some of the rows (bin 0 is not looked at), a copy of some *)
(* rows, and the rows a machine keeps of a binary file, unless it keeps    *)
(* row 0 (sparse_bin.hpp, InitIndex, ConstructHistogram, CopySubrow,       *)
(* LoadFromMemory).                                                        *)
(***************************************************************************)
Want(rows) == [n \in 1..Len(rows) |-> SparseBinOf(sparse, rows[n])]
WantSums(rows) ==
  SelectSeq([n \in 1..Len(rows) |-> <<SparseBinOf(sparse, rows[n]), rows[n]>>], LAMBDA p : p[1] # 0)
Sums(added) == SelectSeq(added, LAMBDA p : p[1] # 0)
Holding(copy, rows) ==
  /\ \A k \in 0..(Len(rows) - 1) : SparseBinOf(copy, k) = SparseBinOf(sparse, rows[k + 1])
  /\ ReadRows(copy, 0, [n \in 1..Len(rows) |-> n - 1]) = Want(rows)

ReadsOf(rows) ==
  /\ \A start \in 0..rows[1] : ReadRows(sparse, start, rows) = Want(rows)
  /\ Sums(HistogramOfRows(sparse, rows)) = WantSums(rows)
  /\ Holding(CopySubrow(sparse, rows), rows)
  /\ rows[1] # 0 => Holding(LoadFromMemory(sparse, rows, 1), rows)

ReadsBack ==
  is_finish_load =>
    /\ \A some \in (SUBSET Rows) \ {{}} : ReadsOf(SetToSortSeq(some, <))
    /\ \A start, end \in 0..NumData : start < end =>
         Sums(HistogramOfRange(sparse, start, end)) =
           WantSums([n \in 1..(end - start) |-> start + n - 1])
=============================================================================
