----------------------------- MODULE SparseBin -----------------------------
(***************************************************************************)
(* A column of bins with the zeros left out (sparse_bin.hpp): distances    *)
(* between rows in one byte each, padded with zero bins where a distance   *)
(* does not fit, and an index of at most NumFastIndex entries from which a *)
(* reader starts.  Readers are the iterator, the two loops that build      *)
(* histograms, and the two ways of copying some of the rows.               *)
(*                                                                         *)
(* Rows and positions count from 0 as in the code; deltas and vals are     *)
(* sequences, so that deltas_[i] is deltas[i + 1].                         *)
(***************************************************************************)
EXTENDS Integers, Sequences, FiniteSets, FiniteSetsExt, SequencesExt

CONSTANTS
  DeltaLimit,   \* 256: the first distance a byte does not hold
  NumFastIndex  \* kNumFastIndex: 64

ASSUME SparseAssumption == DeltaLimit \in Nat \ {0, 1} /\ NumFastIndex \in Nat \ {0}

NumVals(b) == Len(b.vals)

\* LoadFromPair, CopySubrow: how often the loop over a wide distance runs.
Widest == DeltaLimit - 1
Padding(delta) == IF delta < DeltaLimit THEN 0 ELSE (delta - DeltaLimit) \div Widest + 1

Encoded(b, delta, bin) ==
  [deltas |-> b.deltas \o [k \in 1..Padding(delta) |-> Widest]
                       \o <<(delta - Padding(delta) * Widest) % DeltaLimit>>,
   vals   |-> b.vals \o [k \in 1..Padding(delta) |-> 0] \o <<bin>>]

\* The row of entry i.
Position(b, i) == FoldSeq(+, 0, SubSeq(b.deltas, 1, i + 1))

\* GetFastIndex: rows per entry of the index, a power of two.
StepFor(mod_size) == Min({p \in {2 ^ k : k \in 0..mod_size} : p >= mod_size})
Step(num_data) == StepFor((num_data + NumFastIndex - 1) \div NumFastIndex)

\* Mutant: an entry exactly at the threshold is passed over.
FirstAt_Behind(b, num_data, row) ==
  LET later == {i \in 0..(NumVals(b) - 1) : Position(b, i) > row}
  IN  IF later = {} THEN [i |-> NumVals(b) - 1, pos |-> num_data]
      ELSE [i |-> Min(later), pos |-> Position(b, Min(later))]

\* The first entry at or behind a row; behind the last one, the end.
FirstAt(b, num_data, row) ==
  LET later == {i \in 0..(NumVals(b) - 1) : Position(b, i) >= row}
  IN  IF later = {} THEN [i |-> NumVals(b) - 1, pos |-> num_data]
      ELSE [i |-> Min(later), pos |-> Position(b, Min(later))]

WithIndex(b, num_data) ==
  [num_data |-> num_data, deltas |-> Append(b.deltas, 0), vals |-> b.vals,
   fast_index |-> [k \in 0..((num_data + Step(num_data) - 1) \div Step(num_data) - 1) |->
                     FirstAt(b, num_data, k * Step(num_data))]]

Empty == [deltas |-> <<>>, vals |-> <<>>]

\* LoadFromPair: bins of some rows, in ascending order of the rows.
LoadFromPair(pairs, num_data) ==
  WithIndex(FoldLeftDomain(LAMBDA b, i : Encoded(b, pairs[i][1] - (IF i = 1 THEN 0 ELSE pairs[i - 1][1]), pairs[i][2]),
                           Empty, pairs),
            num_data)
-----------------------------------------------------------------------------
\* InitIndex: where a reader starts.
InitIndex(b, start) ==
  LET k == start \div Step(b.num_data)
  IN  IF k \in DOMAIN b.fast_index THEN b.fast_index[k] ELSE [i |-> -1, pos |-> 0]

Cursors(b) == [i : -1..NumVals(b), pos : 0..b.num_data]

\* cur_pos += deltas_[++i_delta]
Advanced(b, c) == [i |-> c.i + 1, pos |-> c.pos + b.deltas[c.i + 2]]

\* NextNonzero and NextNonzeroFast
NextNonzero(b, c) ==
  IF c.i + 1 < NumVals(b) THEN Advanced(b, c) ELSE [i |-> c.i + 1, pos |-> b.num_data]

\* InnerRawGet: the cursor it leaves, and what it returns.
SoughtFrom(b, c, row) ==
  LET walk[d \in Cursors(b)] == IF d.pos < row THEN walk[NextNonzero(b, d)] ELSE d
  IN  walk[c]
ValueAt(b, c, row) == IF c.pos = row THEN b.vals[c.i + 1] ELSE 0

Read(b, c, row, out) == [c |-> c, out |-> Append(out, ValueAt(b, c, row))]

\* The bins of rows, in ascending order, by an iterator that was reset to start.
ReadRows(b, start, rows) ==
  FoldLeft(LAMBDA a, row : Read(b, SoughtFrom(b, a.c, row), row, a.out),
           [c |-> InitIndex(b, start), out |-> <<>>], rows).out

\* ConstructHistogram over the rows from start to end: what it adds to which
\* bin, in order.
HistogramOfRange(b, start, end) ==
  LET add[c \in Cursors(b)] ==
        IF c.i >= NumVals(b) \/ c.pos >= end THEN <<>>
        ELSE IF c.pos < start THEN add[Advanced(b, c)]
        ELSE <<<<b.vals[c.i + 1], c.pos>>>> \o add[Advanced(b, c)]
  IN  add[InitIndex(b, start)]

\* ConstructHistogram over data_indices: a merge of the rows and the entries.
HistogramOfRows(b, rows) ==
  LET add[k \in 1..(Len(rows) + 1), c \in Cursors(b)] ==
        IF k > Len(rows) \/ c.i >= NumVals(b) THEN <<>>
        ELSE IF c.pos < rows[k] THEN add[k, Advanced(b, c)]
        ELSE IF c.pos > rows[k] THEN add[k + 1, c]
        ELSE <<<<b.vals[c.i + 1], rows[k]>>>> \o add[k + 1, Advanced(b, c)]
  IN  add[1, InitIndex(b, rows[1])]
-----------------------------------------------------------------------------
\* The entries of a column that holds only some of the rows: row k of it has
\* bins[k + 1].
Nonzero(bins) == {k \in 0..(Len(bins) - 1) : bins[k + 1] > 0}
Pairs(bins) ==
  [n \in 1..Cardinality(Nonzero(bins)) |->
     LET k == SetToSortSeq(Nonzero(bins), <)[n] IN <<k, bins[k + 1]>>]

CopySubrow(b, rows) ==
  LoadFromPair(Pairs(ReadRows(b, IF rows = <<>> THEN 0 ELSE rows[1], rows)), Len(rows))

\* LoadFromMemory with local_used_indices walks from before the first entry:
\* for row 0 it does not take a step and reads vals_[-1], here junk.  (Where
\* the walk ends, num_data_ is already that of the copy; no entry is read there.)
LoadFromMemory(b, rows, junk) ==
  LET sought(c, row) ==
        LET walk[d \in Cursors(b)] ==
              IF d.pos < row /\ d.i < NumVals(b) THEN walk[NextNonzero(b, d)] ELSE d
        IN  walk[c]
      value(c, row) == IF c.pos # row \/ c.i >= NumVals(b) THEN 0
                       ELSE IF c.i = -1 THEN junk ELSE b.vals[c.i + 1]
      read(a, c, row) == [c |-> c, out |-> Append(a.out, value(c, row))]
      all == FoldLeft(LAMBDA a, row : read(a, sought(a.c, row), row),
                      [c |-> [i |-> -1, pos |-> 0], out |-> <<>>], rows)
  IN  LoadFromPair(Pairs(all.out), Len(rows))
=============================================================================
