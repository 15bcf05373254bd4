---------------------------- MODULE Collectives -----------------------------
(***************************************************************************)
(* What the collective operations of src/include/LightGBM/network.h        *)
(* promise.  Every machine makes the same calls in the same order; a call  *)
(* returns to a machine the value its kind defines, and not before every   *)
(* machine whose data is part of that value has made the call.             *)
(*                                                                         *)
(* A unit of data belongs to a position in the input of a call and counts  *)
(* how often each machine's input at that position is part of it: once for *)
(* its owner before a reduction, once for every machine after it.          *)
(***************************************************************************)
EXTENDS Topology, SequencesExt

VARIABLES
  job,     \* the machines and the calls they make, fixed
  called,  \* calls each machine has made
  result   \* what they returned to it

Machines == Ranks(job.n)
Calls == job.calls

\* What machine m passes to call c: its block to a gather, all blocks to
\* a scatter, the array to an allreduce.
InputSize(c, m) ==
  CASE c.kind = "gather"    -> c.len[m]
    [] c.kind = "scatter"   -> Units(job.n, c.len, 0, job.n)
    [] c.kind = "allreduce" -> c.size
Unit(k, p, contributors) ==
  [of |-> <<k, p>>, from |-> [j \in Machines |-> IF j \in contributors THEN 1 ELSE 0]]
Unwritten == Unit(0, 0, {})
\* The reducer; units of different positions do not add up to anything.
Sum(a, b) ==
  IF a.of = b.of THEN [a EXCEPT !.from = [j \in Machines |-> a.from[j] + b.from[j]]]
  ELSE Unwritten

Input(k, m) == [p \in 1..InputSize(Calls[k], m) |-> Unit(k, p, {m})]
FromAll(k, p) == Unit(k, p, Machines)

\* Allgather returns all blocks in the order of the machines, reduce
\* scatter the machine's own block of the sum, allreduce the whole sum.
Value(k, m) ==
  LET c == Calls[k]
  IN  CASE c.kind = "gather"  -> FlattenSeq([j \in 1..job.n |-> Input(k, j - 1)])
        [] c.kind = "scatter" -> [p \in 1..c.len[m] |-> FromAll(k, At(job.n, c.len, m) + p - 1)]
        [] c.kind = "allreduce" -> [p \in 1..c.size |-> FromAll(k, p)]

\* The machines whose data is part of that value.
Needed(k, m) ==
  LET c == Calls[k]
  IN  CASE c.kind = "gather"    -> {j \in Machines : c.len[j] > 0}
        [] c.kind = "scatter"   -> {j \in Machines : c.len[m] > 0}
        [] c.kind = "allreduce" -> {j \in Machines : c.size > 0}

Enter(m) ==
  /\ called[m] = Len(result[m]) /\ called[m] < Len(Calls)
  /\ called' = [called EXCEPT ![m] = @ + 1]
  /\ UNCHANGED <<job, result>>

Leave(m) ==
  /\ Len(result[m]) < called[m]
  /\ \A j \in Needed(called[m], m) : called[j] >= called[m]
  /\ result' = [result EXCEPT ![m] = Append(@, Value(called[m], m))]
  /\ UNCHANGED <<job, called>>

CallsInit ==
  /\ called = [m \in Machines |-> 0]
  /\ result = [m \in Machines |-> <<>>]
CallsNext == \E m \in Machines : Enter(m) \/ Leave(m)
CallsSpec == CallsInit /\ [][CallsNext]_<<job, called, result>>
=============================================================================
