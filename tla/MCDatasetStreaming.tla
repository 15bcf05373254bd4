------------------------ MODULE MCDatasetStreaming ------------------------
(***************************************************************************)
(* DatasetStreaming for TLC: seven rows of two bundled features, distances *)
(* of at most two and an index of four entries; one thread that fills      *)
(* every pattern of rows, and two that push chunks of a few patterns side  *)
(* by side.                                                                *)
(***************************************************************************)
EXTENDS DatasetStreaming

\* The most frequent bin is the one of zero, and is not.
TwoFeatures == <<[num_bin |-> 3, most_freq_bin |-> 0, zero_bin |-> 0],
                 [num_bin |-> 3, most_freq_bin |-> 1, zero_bin |-> 0]>>

\* What a row holds where it holds something: one feature, the other one (in
\* the bin of zero or not), or both, which conflict.
Something == <<<<1, 1>>, <<0, 0>>, <<2, 1>>, <<0, 2>>, <<1, 2>>, <<2, 1>>, <<0, 0>>>>
Content(some) == [r \in Rows |-> IF r \in some THEN Something[r + 1] ELSE <<0, 1>>]

\* Chunks of the given sizes, one behind the other.
Chunks(sizes) ==
  {<<FoldSeq(+, 0, SubSeq(sizes, 1, n - 1)), sizes[n]>> : n \in DOMAIN sizes}
Assigned(sizes) == [t \in Threads |-> {c \in Chunks(sizes) : (c[1] % 2) = t}]

FewQueries == [r \in Rows |-> (r + 1) \div 3]

ByOne(some, wait, meta, sizes) ==
  [content |-> Content(some), chunks |-> [t \in Threads |-> IF t = 0 THEN Chunks(sizes) ELSE {}],
   wait |-> wait, metadata |-> meta, query |-> FewQueries]
ByTwo(some, sizes) ==
  [content |-> Content(some), chunks |-> Assigned(sizes),
   wait |-> TRUE, metadata |-> TRUE, query |-> FewQueries]

TheSetups ==
  {ByOne(some, FALSE, FALSE, <<7>>) : some \in SUBSET Rows}
  \cup {ByOne(some, FALSE, meta, sizes) :
          some \in {{0, 1, 2, 3, 4, 5, 6}, {0, 6}}, meta \in BOOLEAN, sizes \in {<<1, 6>>, <<3, 2, 2>>}}
  \cup {ByTwo(some, sizes) : some \in {{0, 1, 2, 3, 4, 5, 6}, {1, 3, 4}}, sizes \in {<<3, 4>>, <<2, 3, 2>>, <<1, 1, 5>>}}
=============================================================================
