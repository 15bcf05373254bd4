--------------------------- MODULE HistogramPool ---------------------------
(***************************************************************************)
(* The LRU pool of histogram arrays (feature_histogram.hpp, class          *)
(* HistogramPool).  A leaf that has a slot has its histogram cached there; *)
(* a leaf without one takes the slot used longest ago.  When there is a    *)
(* slot for every leaf the pool keeps no map at all and moving a histogram *)
(* swaps two pointers.                                                     *)
(*                                                                         *)
(* The pool is one record so that a caller making several calls in a row   *)
(* (SerialTreeLearner::BeforeFindBestSplit) composes the operators.        *)
(***************************************************************************)
EXTENDS Integers

CONSTANTS
  TotalSize,   \* total_size_: one index per leaf of a tree
  CacheSize    \* cache_size_: slots that hold a histogram array

\* SerialTreeLearner::Init asks for at least 2 slots and at most one per leaf.
ASSUME PoolAssumption == /\ TotalSize \in Nat
                         /\ CacheSize \in 2..TotalSize

IsEnough == CacheSize = TotalSize
Indexes  == 0..TotalSize-1
Slots    == 0..CacheSize-1
None     == -1

\* pool_[s] is the array behind slot s; an array is named by the slot it was
\* allocated for.
PoolState == [array          : [Slots -> Slots],
              mapper         : [Indexes -> Slots \cup {None}],
              inverse_mapper : [Slots -> Indexes \cup {None}],
              last_used_time : [Slots -> Nat],
              cur_time       : Nat]

\* DynamicChangeSize allocates the arrays and calls Reset.
FreshPool == [array          |-> [s \in Slots |-> s],
              mapper         |-> [i \in Indexes |-> None],
              inverse_mapper |-> [s \in Slots |-> None],
              last_used_time |-> [s \in Slots |-> 0],
              cur_time       |-> 0]

\* Mutant: every vector refilled with -1, the use times too.
ResetMap_FillsTimes(p) ==
  IF IsEnough THEN p
  ELSE [FreshPool EXCEPT !.array = p.array, !.last_used_time = [s \in Slots |-> -1]]

ResetMap(p) == IF IsEnough THEN p ELSE [FreshPool EXCEPT !.array = p.array]

\* Mutant: the slot used last is the one reused.
LeastUsed_ArgMax(p) ==
  CHOOSE s \in Slots : \A t \in Slots : p.last_used_time[t] <= p.last_used_time[s]

\* ArrayArgs::ArgMin over last_used_time_: the first of the smallest.
LeastUsed(p) ==
  CHOOSE s \in Slots : \A t \in Slots :
    \/ p.last_used_time[s] < p.last_used_time[t]
    \/ p.last_used_time[s] = p.last_used_time[t] /\ s <= t

\* What Get returns: whether the index is in the pool, and the array.
Hit(p, idx)    == IsEnough \/ p.mapper[idx] # None
SlotOf(p, idx) == IF IsEnough THEN idx
                  ELSE IF p.mapper[idx] # None THEN p.mapper[idx]
                  ELSE LeastUsed(p)
ArrayOf(p, idx) == p.array[SlotOf(p, idx)]

\* The state Get leaves behind.
Touch(p, s) == [p EXCEPT !.last_used_time[s] = p.cur_time + 1,
                         !.cur_time = p.cur_time + 1]

\* Mutant: the leaf that owned the slot stays mapped to it.
Evict_KeepsOld(p, idx, s) ==
  [p EXCEPT !.mapper[idx] = s, !.inverse_mapper[s] = idx]

Evict(p, idx, s) ==
  [p EXCEPT
     !.mapper = [i \in Indexes |-> IF i = idx THEN s
                                   ELSE IF i = p.inverse_mapper[s] THEN None
                                   ELSE p.mapper[i]],
     !.inverse_mapper[s] = idx]

Got(p, idx) ==
  IF IsEnough THEN p
  ELSE IF Hit(p, idx) THEN Touch(p, p.mapper[idx])
  ELSE Evict(Touch(p, LeastUsed(p)), idx, LeastUsed(p))

\* The state Move(src, dst) leaves behind.
Moved(p, src, dst) ==
  IF IsEnough
  THEN [p EXCEPT !.array[src] = p.array[dst], !.array[dst] = p.array[src]]
  ELSE IF p.mapper[src] = None THEN p
  ELSE LET s == p.mapper[src]
       IN  [Touch(p, s) EXCEPT
              !.mapper = [i \in Indexes |-> IF i = dst THEN s
                                            ELSE IF i = src THEN None
                                            ELSE p.mapper[i]],
              !.inverse_mapper[s] = dst]
-----------------------------------------------------------------------------
(***************************************************************************)
(* The pool by itself, under any order of calls.                           *)
(***************************************************************************)
CONSTANT MaxTime   \* bound on cur_time_, so that TLC's state space is finite

VARIABLE hp        \* the pool

Init == hp = FreshPool

Get(idx) == /\ hp.cur_time < MaxTime
            /\ hp' = Got(hp, idx)

\* The only caller moves to the leaf it has just created, which has no slot
\* (SerialTreeLearner checks that: MoveTargetIsFree).  Move itself does not
\* look: onto a mapped leaf it would leave two slots that claim the leaf.
Move(src, dst) == /\ hp.cur_time < MaxTime
                  /\ hp.mapper[dst] = None
                  /\ hp' = Moved(hp, src, dst)

NewTree == hp' = ResetMap(hp)

Next == \/ \E idx \in Indexes : Get(idx)
        \/ \E src, dst \in Indexes : src # dst /\ Move(src, dst)
        \/ NewTree

Spec == Init /\ [][Next]_hp
-----------------------------------------------------------------------------
(***************************************************************************)
(* Type correctness of the pool (feature_histogram.hpp, the members of     *)
(* HistogramPool).                                                         *)
(***************************************************************************)
TypeOK == hp \in PoolState

(***************************************************************************)
(* No two leaves share an array: mapper_ and inverse_mapper_ are inverses  *)
(* of each other through every hit, eviction and move, and no two slots    *)
(* stand for one array.  The eviction in Get trusts inverse_mapper_ to     *)
(* find whom to unmap (feature_histogram.hpp, Get, Move).                  *)
(***************************************************************************)
SlotOwned(p) ==
  /\ \A i \in Indexes : p.mapper[i] # None => p.inverse_mapper[p.mapper[i]] = i
  /\ \A s \in Slots : p.inverse_mapper[s] # None => p.mapper[p.inverse_mapper[s]] = s

ArraysDistinct(p) == \A s, t \in Slots : p.array[s] = p.array[t] => s = t

NoSharing == SlotOwned(hp) /\ ArraysDistinct(hp)

(***************************************************************************)
(* The array handed out last survives the next call: whatever leaf Get is  *)
(* asked for, the leaf whose slot was used last keeps it.  The learner     *)
(* holds the larger leaf's array while it asks for the smaller leaf's,     *)
(* with as few as two slots (serial_tree_learner.cpp, BeforeFindBestSplit; *)
(* the CHECK_GE(cache_size_, 2) of Reset exists for it).                   *)
(***************************************************************************)
LastUsed(p, i) == /\ p.mapper[i] # None
                  /\ p.last_used_time[p.mapper[i]] = p.cur_time

LastUsedIsKept ==
  [][\A idx, i \in Indexes :
        Get(idx) /\ LastUsed(hp, i) => hp'.mapper[i] = hp.mapper[i]]_hp

=============================================================================
