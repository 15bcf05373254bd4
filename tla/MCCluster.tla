----------------------------- MODULE MCCluster ------------------------------
(* Instances of Cluster: for two to six machines, calls that take each of  *)
(* the five algorithms, with equal, unequal and empty blocks.              *)
EXTENDS Cluster

Allreduce(size) == [kind |-> "allreduce", size |-> size]
AllGather(len) == [kind |-> "gather", len |-> len]
ReduceScatter(len) == [kind |-> "scatter", len |-> len]

Lengths(seq) == [r \in 0..(Len(seq) - 1) |-> seq[r + 1]]
\* Machines that are connected, and machines that have yet to be.
Job(n, calls) == [n |-> n, calls |-> calls, linked |-> TRUE, patient |-> TRUE]
FromStart(n, patient, calls) == [Job(n, calls) EXCEPT !.linked = FALSE, !.patient = patient]

MCJobs == {
  FromStart(2, FALSE, <<Allreduce(3), Allreduce(1)>>),
  FromStart(3, TRUE, <<Allreduce(3)>>),
  FromStart(4, TRUE, <<>>),
  FromStart(3, FALSE, <<ReduceScatter(Lengths(<<1, 0, 0>>))>>),
  \* Halving and Doubling, then blocks of different lengths.
  Job(2, <<Allreduce(3), AllGather(Lengths(<<1, 3>>)), Allreduce(1)>>),
  \* A pair and a single machine; the last block of the sum is empty.
  Job(3, <<Allreduce(4), Allreduce(1), ReduceScatter(Lengths(<<1, 0, 2>>))>>),
  \* Both rings, with messages larger than a stream holds.
  Job(3, <<Allreduce(9)>>),
  Job(4, <<Allreduce(5), Allreduce(2)>>),
  Job(4, <<AllGather(Lengths(<<0, 2, 1, 1>>))>>),
  Job(5, <<AllGather(Lengths(<<1, 1, 0, 2, 1>>))>>),
  Job(5, <<ReduceScatter(Lengths(<<1, 0, 1, 2, 1>>))>>),
  \* Two pairs.
  Job(6, <<ReduceScatter(Lengths(<<0, 1, 0, 1, 1, 1>>))>>)
}
=============================================================================
