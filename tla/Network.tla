------------------------------- MODULE Network ------------------------------
(***************************************************************************)
(* Collective operations between machines that share nothing but streams   *)
(* (src/src/network/network.cpp, src/src/network/linkers.h).  Every pair   *)
(* of machines has one stream per direction, without message boundaries:   *)
(* a receiver takes as many units as its tables say, whatever step or call *)
(* of the sender they come from.  A stream holds at most Capacity units; a *)
(* larger message is sent by a thread of its own, a smaller one before     *)
(* receiving starts.  Machines run at their own speed and may be a call    *)
(* ahead of each other.                                                    *)
(***************************************************************************)
EXTENDS Topology, SequencesExt

CONSTANTS
  Jobs,          \* sets of machines and the calls they make
  Capacity,      \* kSocketBufferSize, in units
  SmallInput,    \* an allreduce below it is done by one allgather (4096)
  RingThreshold  \* kRingThreshold, in units

VARIABLES
  job,      \* [n |-> number of machines, calls |-> Seq of calls]
  result,   \* what the finished calls of each machine returned
  phases,   \* phases left of the current call, each an algorithm and block lengths
  buffer,   \* the working buffer of the current phase
  steps,    \* steps left of the current phase
  unsent,   \* units of the current step not yet in the stream
  missing,  \* units of the current step not yet received
  got,      \* units received in the current step
  stream    \* stream[s][r]: sent by s and not received by r

local == <<phases, buffer, steps, unsent, missing, got>>
vars == <<job, result, local, stream>>

N == job.n
Machines == Ranks(N)

\* The call a machine is in counts as made.
Promise == INSTANCE Collectives WITH
  called <- [m \in Ranks(job.n) |-> Len(result[m]) + (IF phases[m] = <<>> THEN 0 ELSE 1)]

ASSUME NetworkAssumption ==
  /\ Capacity \in Nat \ {0} /\ SmallInput \in Nat /\ RingThreshold \in Nat
  /\ \A j \in Jobs : j.n \in Nat /\ j.n > 1

-----------------------------------------------------------------------------
(* What a call is made of *)

Equal(size) == [r \in Machines |-> size]
Total(len) == Units(N, len, 0, N)

\* Network::Allgather and Network::ReduceScatter choose by the total size.
Gather(len) ==
  [len |-> len,
   algorithm |-> IF Total(len) > RingThreshold THEN "RingGather"
                 ELSE IF IsPowerOf2(N) THEN "Doubling" ELSE "Bruck"]
Scatter(len) ==
  [len |-> len,
   algorithm |-> IF IsPowerOf2(N) \/ Total(len) < RingThreshold THEN "Halving" ELSE "RingScatter"]

\* The blocks of Network::Allreduce: equal ones rounded up, as long as
\* there is input; the last machines may have none.
Blocks(size) ==
  LET part == (size + N - 1) \div N
  IN  [r \in Machines |-> IF r = N - 1 THEN Max({0, size - part * r})
                          ELSE Max({0, Min({part, size - part * r})})]

ByGather(size) == size < N \/ size < SmallInput

PhasesOf(call) ==
  CASE call.kind = "gather"  -> <<Gather(call.len)>>
    [] call.kind = "scatter" -> <<Scatter(call.len)>>
    [] call.kind = "allreduce" ->
         IF ByGather(call.size) THEN <<Gather(Equal(call.size))>>
         ELSE <<Scatter(Blocks(call.size)), Gather(Blocks(call.size))>>

\* The buffer a phase starts with.  A gather writes around the machine's
\* own block; Bruck's algorithm puts that block first.
IsScatter(phase) == phase.algorithm \in {"Halving", "RingScatter"}
Loaded(phase, m, data) ==
  IF IsScatter(phase) THEN data
  ELSE LET at == IF phase.algorithm = "Bruck" THEN 1 ELSE At(N, phase.len, m)
       IN  [p \in 1..Total(phase.len) |->
              IF p - at + 1 \in DOMAIN data THEN data[p - at + 1] ELSE Promise!Unwritten]

\* AllgatherBruck ends with three reversals that rotate the buffer.
Rotated(s, k) ==
  LET r == Reverse(s) IN Reverse(SubSeq(r, 1, k)) \o Reverse(SubSeq(r, k + 1, Len(s)))

\* What a phase hands on, and what an allreduce by gather adds up locally.
Outcome(phase, m, buf) ==
  IF IsScatter(phase)
    THEN SubSeq(buf, At(N, phase.len, m), At(N, phase.len, m) + phase.len[m] - 1)
  ELSE IF phase.algorithm = "Bruck" THEN Rotated(buf, Units(N, phase.len, 0, m))
  ELSE buf

Returned(call, data) ==
  IF call.kind = "allreduce" /\ ByGather(call.size)
    THEN [p \in 1..call.size |->
            FoldLeft(Promise!Sum, data[p], [j \in 1..(N - 1) |-> data[j * call.size + p]])]
    ELSE data

-----------------------------------------------------------------------------
(* Actions *)

Init ==
  /\ job \in Jobs
  /\ result = [m \in Machines |-> <<>>]
  /\ phases = [m \in Machines |-> <<>>]
  /\ buffer = [m \in Machines |-> <<>>]
  /\ steps = [m \in Machines |-> <<>>]
  /\ unsent = [m \in Machines |-> <<>>]
  /\ missing = [m \in Machines |-> 0]
  /\ got = [m \in Machines |-> <<>>]
  /\ stream = [s \in Machines |-> [r \in Machines |-> <<>>]]

\* Machine m has buffer buf and the steps todo before it.
StartStep(m, buf, todo) ==
  /\ buffer' = [buffer EXCEPT ![m] = buf]
  /\ steps' = [steps EXCEPT ![m] = todo]
  /\ LET s == Head(todo)
     IN  /\ unsent' = [unsent EXCEPT ![m] = SubSeq(buf, s.sendAt, s.sendAt + s.sendLen - 1)]
         /\ missing' = [missing EXCEPT ![m] = s.recvLen]
  /\ got' = [got EXCEPT ![m] = <<>>]

StartPhase(m, data, todo) ==
  /\ phases' = [phases EXCEPT ![m] = todo]
  /\ LET p == Head(todo)
     IN  StartStep(m, Loaded(p, m, data), StepsOf(p.algorithm, N, m, p.len))

Active(m) == phases[m] # <<>>
Step(m) == Head(steps[m])

\* The program of machine m makes its next call.
CanCall(m) == ~Active(m) /\ Len(result[m]) < Len(job.calls)
Call(m) ==
  /\ CanCall(m)
  /\ LET k == Len(result[m]) + 1
     IN  StartPhase(m, Promise!Input(k, m), PhasesOf(job.calls[k]))
  /\ UNCHANGED <<job, result, stream>>

\* Linkers::Send: what fits goes into the stream.
CanPush(m) == Active(m) /\ unsent[m] # <<>> /\ Len(stream[m][Step(m).to]) < Capacity
Push(m) ==
  /\ CanPush(m)
  /\ LET to == Step(m).to
         k == Min({Len(unsent[m]), Capacity - Len(stream[m][to])})
     IN  /\ stream' = [stream EXCEPT ![m][to] = @ \o SubSeq(unsent[m], 1, k)]
         /\ unsent' = [unsent EXCEPT ![m] = SubSeq(@, k + 1, Len(@))]
  /\ UNCHANGED <<job, result, phases, buffer, steps, missing, got>>

\* SendRecv uses a thread for a message that might not fit; otherwise it
\* receives after it has sent everything.
\* Mutant: no message gets a thread.
SendsByThread_Never(m) == FALSE
SendsByThread(m) == Step(m).sendLen >= Capacity

\* Linkers::Recv: takes what is there, up to what it misses.
\* Mutant: it takes everything that is there.
Taken_All(m, there) == there
Taken(m, there) == Min({missing[m], there})

CanPull(m) ==
  /\ Active(m) /\ missing[m] > 0
  /\ SendsByThread(m) \/ unsent[m] = <<>>
  /\ stream[Step(m).from][m] # <<>>
Pull(m) ==
  /\ CanPull(m)
  /\ LET from == Step(m).from
         k == Taken(m, Len(stream[from][m]))
     IN  /\ got' = [got EXCEPT ![m] = @ \o SubSeq(stream[from][m], 1, k)]
         /\ stream' = [stream EXCEPT ![from][m] = SubSeq(@, k + 1, Len(@))]
         /\ missing' = [missing EXCEPT ![m] = @ - k]
  /\ UNCHANGED <<job, result, phases, buffer, steps, unsent>>

\* The buffer once everything of a step has arrived.
Applied(m) ==
  LET s == Step(m)
  IN  [p \in DOMAIN buffer[m] |->
         LET o == p - s.recvAt + 1
         IN  IF o \notin DOMAIN got[m] THEN buffer[m][p]
             ELSE IF s.reduce THEN Promise!Sum(buffer[m][p], got[m][o])
             ELSE got[m][o]]

\* A step is over: on to the next one, the next phase, or back to the caller.
CanProceed(m) == Active(m) /\ unsent[m] = <<>> /\ missing[m] <= 0
Proceed(m) ==
  /\ CanProceed(m)
  /\ LET buf == Applied(m)
         data == Outcome(Head(phases[m]), m, buf)
     IN  CASE Len(steps[m]) > 1 ->
                StartStep(m, buf, Tail(steps[m])) /\ UNCHANGED <<phases, result>>
           [] Len(steps[m]) = 1 /\ Len(phases[m]) > 1 ->
                StartPhase(m, data, Tail(phases[m])) /\ UNCHANGED result
           [] OTHER ->
                /\ result' = [result EXCEPT ![m] =
                                Append(@, Returned(job.calls[Len(@) + 1], data))]
                /\ phases' = [phases EXCEPT ![m] = <<>>]
                /\ buffer' = [buffer EXCEPT ![m] = <<>>]
                /\ steps' = [steps EXCEPT ![m] = <<>>]
                /\ got' = [got EXCEPT ![m] = <<>>]
                /\ UNCHANGED <<unsent, missing>>
  /\ UNCHANGED <<job, stream>>

Finished == \A m \in Machines : ~Active(m) /\ Len(result[m]) = Len(job.calls)

Next ==
  \/ \E m \in Machines : Call(m) \/ Push(m) \/ Pull(m) \/ Proceed(m)
  \/ Finished /\ UNCHANGED vars

CanStep(m) == CanCall(m) \/ CanPush(m) \/ CanPull(m) \/ CanProceed(m)
Spec == Init /\ [][Next]_vars

-----------------------------------------------------------------------------
(* Properties *)

\* The variables keep their types, and no stream overflows.
TypeOK ==
  /\ job \in Jobs
  /\ \A m \in Machines :
       /\ Len(phases[m]) <= 2
       /\ Active(m) <=> steps[m] # <<>>
       /\ missing[m] \in Nat
       /\ Active(m) => /\ Len(buffer[m]) = Total(Head(phases[m]).len)
                       /\ Len(got[m]) + missing[m] = Step(m).recvLen
       /\ \A r \in Machines : Len(stream[m][r]) <= Capacity

\* Every call returns to every machine the value it is for (all blocks in
\* order, the machine's share of the sum, or the sum), each contribution
\* counted once, and not before the machines it depends on have called.
KeepsPromise == Promise!CallsSpec

\* A thread sends from the buffer while the machine receives into it; the
\* two regions never overlap, so no unit is overwritten before it is sent.
RegionsDisjoint ==
  \A m \in Machines : Active(m) /\ ~Step(m).reduce =>
    LET s == Step(m)
    IN  s.sendAt + s.sendLen <= s.recvAt \/ s.recvAt + s.recvLen <= s.sendAt
          \/ s.sendLen = 0 \/ s.recvLen = 0

\* Streams carry no leftovers: when two machines have returned from the
\* same calls and neither is in one, nothing is between them.
NothingLeftOver ==
  \A s, r \in Machines :
    ~Active(s) /\ ~Active(r) /\ Len(result[s]) = Len(result[r]) => stream[s][r] = <<>>

\* Types, and what SendRecv needs of the tables of two machines (linkers.h,
\* SendRecv).
StreamsInStep == TypeOK /\ RegionsDisjoint /\ NothingLeftOver
=============================================================================
