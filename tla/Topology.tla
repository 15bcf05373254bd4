------------------------------ MODULE Topology ------------------------------
(***************************************************************************)
(* Who talks to whom in a collective operation of n machines, and about    *)
(* which blocks: the maps of src/src/network/linker_topo.cpp and the loops *)
(* of src/src/network/network.cpp that walk them.  An algorithm is, for    *)
(* each machine r, a sequence of steps.  In a step the machine sends       *)
(* sendLen units of its buffer, from sendAt on, and receives recvLen units *)
(* for recvAt, which it adds to what is there if `reduce`.                 *)
(*                                                                         *)
(* Machines count from 0 as in the code, positions in a buffer from 1.     *)
(* len[b] is the length of block b, the block that belongs to machine b.   *)
(***************************************************************************)
EXTENDS Integers, Sequences, FiniteSets, FiniteSetsExt

Ranks(n) == 0..(n - 1)

\* Units in `count` blocks from block b on, around the end.
Units(n, len, b, count) == MapThenSumSet(LAMBDA j : len[(b + j) % n], 0..(count - 1))
\* block_start: where block b begins.
At(n, len, b) == 1 + Units(n, len, 0, b)

Exchange(to, sendAt, sendLen, from, recvAt, recvLen, reduce) ==
  [to |-> to, sendAt |-> sendAt, sendLen |-> sendLen,
   from |-> from, recvAt |-> recvAt, recvLen |-> recvLen, reduce |-> reduce]
Send(r, to, at, size) == Exchange(to, at, size, r, 1, 0, FALSE)
Recv(r, from, at, size, reduce) == Exchange(r, 1, 0, from, at, size, reduce)

\* The number of rounds that reach all machines, and the largest number of
\* rounds whose groups exist.
RoundsUp(n)   == CHOOSE k \in Ranks(n + 1) : 2^k >= n /\ \A j \in 0..(k - 1) : 2^j < n
RoundsDown(n) == CHOOSE k \in Ranks(n + 1) : 2^k <= n /\ 2^(k + 1) > n
IsPowerOf2(n) == 2^RoundsDown(n) = n

-----------------------------------------------------------------------------
(* Allgather *)

\* AllgatherBruck: blocks accumulate behind the machine's own block; in
\* round i they come from the machine 2^i further on.
BruckBlocks(n, i) == Min({2^i, n - 2^i})
BruckSteps(n, r, len) ==
  [j \in 1..RoundsUp(n) |->
     LET i == j - 1
         blocks == BruckBlocks(n, i)
     IN  Exchange((r - 2^i + n) % n, 1, Units(n, len, r, blocks),
                  (r + 2^i) % n, 1 + Units(n, len, r, 2^i), Units(n, len, r + 2^i, blocks),
                  FALSE)]

\* AllgatherRecursiveDoubling: in round i groups of 2^i machines swap what
\* they have, each machine with the one at its place in the next group.
\* Mutant: a machine writes over its own group's blocks.
Partner_Same(v) == v
Partner(v) == IF v % 2 = 1 THEN v - 1 ELSE v + 1
DoublingSteps(n, r, len) ==
  [j \in 1..RoundsUp(n) |->
     LET d == 2^(j - 1)
         group == r \div d
         other == Partner(group)
         target == IF group % 2 = 1 THEN r - d ELSE r + d
     IN  Exchange(target, At(n, len, group * d), Units(n, len, group * d, d),
                  target, At(n, len, other * d), Units(n, len, other * d, d), FALSE)]

\* AllgatherRing: every round passes on the block received last.
RingGatherSteps(n, r, len) ==
  [i \in 1..(n - 1) |->
     LET out == (r - (i - 1)) % n
         in == (r - i) % n
     IN  Exchange((r + 1) % n, At(n, len, out), len[out], (r - 1) % n, At(n, len, in), len[in], FALSE)]

-----------------------------------------------------------------------------
(* Reduce scatter *)

\* ReduceScatterRing: a block travels once around and ends at its owner.
RingScatterSteps(n, r, len) ==
  [i \in 1..(n - 1) |->
     LET out == (r - i) % n
         in == (r - i - 1) % n
     IN  Exchange((r + 1) % n, At(n, len, out), len[out], (r - 1) % n, At(n, len, in), len[in], TRUE)]

\* RecursiveHalvingMap: the machines beyond a power of two are paired from
\* the end; the left one of a pair leads a group of two, the right one is
\* "Other".  A power of two has no pairs.
Rest(n) == n - 2^RoundsDown(n)
NodeType(n, r) ==
  IF r < n - 2 * Rest(n) THEN "Normal"
  ELSE IF (n - 1 - r) % 2 = 0 THEN "Other" ELSE "GroupLeader"
Group(n, r) == Cardinality({q \in 0..r : NodeType(n, q) # "Other"}) - 1
Leader(n, g) == CHOOSE r \in Ranks(n) : NodeType(n, r) # "Other" /\ Group(n, r) = g
Members(n, groups) == {r \in Ranks(n) : Group(n, r) \in groups}

\* Round i of the groups: the blocks of one half of the groups still
\* concerned go out, the other half comes in and is added up.
HalvingExchange(n, r, len, i) ==
  LET d == 2^(RoundsDown(n) - i)
      g == Group(n, r)
      next == IF (g \div d) % 2 = 0 THEN g + d ELSE g - d
      half(x) == Members(n, ((x \div d) * d)..((x \div d) * d + d - 1))
      first(x) == Min(half(x))
      size(x) == Units(n, len, first(x), Cardinality(half(x)))
  IN  Exchange(Leader(n, next), At(n, len, first(next)), size(next),
               Leader(n, next), At(n, len, first(g)), size(g), TRUE)

\* ReduceScatterRecursiveHalving: an Other hands its data to its leader
\* and receives its block at the end.
\* Mutant: the leader takes the neighbor's data without adding it.
FromNeighbor_Copied(n, r, total) == Recv(r, r + 1, 1, total, FALSE)
FromNeighbor(n, r, total) == Recv(r, r + 1, 1, total, TRUE)
\* Mutant: it is sent the results of the whole group.
ToNeighbor_Group(n, r, len) == Send(r, r + 1, At(n, len, r), len[r] + len[r + 1])
ToNeighbor(n, r, len) == Send(r, r + 1, At(n, len, r + 1), len[r + 1])
HalvingSteps(n, r, len) ==
  LET total == Units(n, len, 0, n)
      rounds == [i \in 1..RoundsDown(n) |-> HalvingExchange(n, r, len, i)]
  IN  CASE NodeType(n, r) = "Normal" -> rounds
        [] NodeType(n, r) = "GroupLeader" ->
             <<FromNeighbor(n, r, total)>> \o rounds \o <<ToNeighbor(n, r, len)>>
        [] NodeType(n, r) = "Other" ->
             <<Send(r, r - 1, 1, total), Recv(r, r - 1, At(n, len, r), len[r], FALSE)>>

-----------------------------------------------------------------------------
StepsOf(algorithm, n, r, len) ==
  CASE algorithm = "Bruck"       -> BruckSteps(n, r, len)
    [] algorithm = "Doubling"    -> DoublingSteps(n, r, len)
    [] algorithm = "RingGather"  -> RingGatherSteps(n, r, len)
    [] algorithm = "RingScatter" -> RingScatterSteps(n, r, len)
    [] algorithm = "Halving"     -> HalvingSteps(n, r, len)
=============================================================================
