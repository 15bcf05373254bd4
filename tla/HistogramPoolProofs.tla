------------------------ MODULE HistogramPoolProofs ------------------------
(***************************************************************************)
(* Proofs about the histogram pool, for every number of leaves and slots.  *)
(***************************************************************************)
EXTENDS HistogramPool, WellFoundedInduction, TLAPS

\* A nonempty set of naturals has a smallest element.
LEMMA NatHasMin ==
  ASSUME NEW S, S \subseteq Nat, S # {}
  PROVE  \E m \in S : \A n \in S : m <= n
<1>1. OpToRel(<, Nat) = {ss \in Nat \X Nat : ss[1] < ss[2]}
  BY Zenon DEF OpToRel
<1> DEFINE Less == {ss \in Nat \X Nat : ss[1] < ss[2]}
<1>2. IsWellFoundedOn(Less, Nat)
  BY <1>1, NatLessThanWellFounded, Zenon
<1> HIDE DEF Less
<1>3. PICK m \in S : \A n \in S : ~(<<n, m>> \in Less)
  BY <1>2, WFMin, Zenon
<1> USE DEF Less
<1>4. ASSUME NEW n \in S PROVE m <= n
  <2>1. n \in Nat /\ m \in Nat
    OBVIOUS
  <2>2. n < m => <<n, m>> \in Less
    BY <2>1
  <2> QED
    BY <1>3, <2>1, <2>2
<1> QED
  BY <1>4

\* ArgMin finds a slot: the smallest index among the smallest times.
LEMMA LeastUsedIsLeast ==
  ASSUME NEW p \in PoolState
  PROVE  /\ LeastUsed(p) \in Slots
         /\ \A t \in Slots : p.last_used_time[LeastUsed(p)] <= p.last_used_time[t]
<1> DEFINE Times == {n \in Nat : \E s \in Slots : p.last_used_time[s] = n}
<1>1. 0 \in Slots /\ p.last_used_time \in [Slots -> Nat]
  BY PoolAssumption DEF Slots, PoolState
<1>2. Times \subseteq Nat /\ Times # {}
  BY <1>1
<1>4. PICK m \in Times : \A n \in Times : m <= n
  BY <1>2, NatHasMin
<1> DEFINE First == {s \in Slots : p.last_used_time[s] = m}
<1>5. First \subseteq Nat /\ First # {}
  BY <1>1 DEF Slots
<1>7. PICK s \in First : \A t \in First : s <= t
  BY <1>5, NatHasMin
<1>8. \A t \in Slots : \/ p.last_used_time[s] < p.last_used_time[t]
                       \/ p.last_used_time[s] = p.last_used_time[t] /\ s <= t
  BY <1>1, <1>4, <1>7
<1> QED
  BY <1>1, <1>8 DEF LeastUsed

-----------------------------------------------------------------------------
(***************************************************************************)
(* What each call preserves.  PoolInv strengthens the two properties into  *)
(* an inductive invariant: the use times are at most cur_time, a slot in   *)
(* use has been used, and only one slot carries the latest time, which is  *)
(* why the eviction cannot fall on it.                                     *)
(***************************************************************************)
TimesOrdered(p) ==
  ~IsEnough =>
    /\ \A s \in Slots : p.last_used_time[s] <= p.cur_time
    /\ \A i \in Indexes : p.mapper[i] # None => p.last_used_time[p.mapper[i]] > 0
    /\ \A s, t \in Slots :
         (p.last_used_time[s] = p.cur_time /\ p.last_used_time[t] = p.cur_time
            /\ p.cur_time > 0) => s = t

MapUnused(p) == IsEnough => \A i \in Indexes : p.mapper[i] = None

PoolInv(p) == /\ p \in PoolState
              /\ SlotOwned(p) /\ ArraysDistinct(p)
              /\ TimesOrdered(p) /\ MapUnused(p)

LEMMA FreshInv == PoolInv(FreshPool)
<1>1. FreshPool \in PoolState
  BY DEF FreshPool, PoolState
<1>2. /\ \A i \in Indexes : FreshPool.mapper[i] = None
      /\ \A s \in Slots : FreshPool.inverse_mapper[s] = None
      /\ \A s \in Slots : FreshPool.last_used_time[s] = 0
      /\ \A s \in Slots : FreshPool.array[s] = s
      /\ FreshPool.cur_time = 0
  BY DEF FreshPool
<1>3. SlotOwned(FreshPool) /\ ArraysDistinct(FreshPool) /\ MapUnused(FreshPool)
  BY <1>2 DEF SlotOwned, ArraysDistinct, MapUnused
<1>4. TimesOrdered(FreshPool)
  BY <1>2 DEF TimesOrdered
<1> QED
  BY <1>1, <1>3, <1>4 DEF PoolInv

LEMMA ResetInv == ASSUME NEW p, PoolInv(p) PROVE PoolInv(ResetMap(p))
<1>1. CASE IsEnough
  BY <1>1 DEF ResetMap
<1>2. CASE ~IsEnough
  <2> DEFINE q == [FreshPool EXCEPT !.array = p.array]
  <2>1. ResetMap(p) = q
    BY <1>2 DEF ResetMap
  <2>2. q \in PoolState /\ q.array = p.array
    BY DEF FreshPool, PoolState, PoolInv
  <2>3. /\ \A i \in Indexes : q.mapper[i] = None
        /\ \A s \in Slots : q.inverse_mapper[s] = None
        /\ \A s \in Slots : q.last_used_time[s] = 0
        /\ q.cur_time = 0
    BY DEF FreshPool
  <2> HIDE DEF q
  <2>4. SlotOwned(q) /\ ArraysDistinct(q) /\ MapUnused(q) /\ TimesOrdered(q)
    BY <2>2, <2>3 DEF SlotOwned, ArraysDistinct, MapUnused, TimesOrdered, PoolInv
  <2> QED
    BY <2>1, <2>2, <2>4 DEF PoolInv
<1> QED
  BY <1>1, <1>2

\* Using a slot makes it the one used last.
LEMMA TouchInv ==
  ASSUME NEW p, PoolInv(p), NEW s \in Slots, ~IsEnough
  PROVE  LET q == Touch(p, s)
         IN  /\ PoolInv(q)
             /\ q.last_used_time[s] = q.cur_time /\ q.cur_time > 0
             /\ q.mapper = p.mapper /\ q.inverse_mapper = p.inverse_mapper
             /\ q.array = p.array
<1> DEFINE q == Touch(p, s)
<1>1. /\ p.last_used_time \in [Slots -> Nat] /\ p.cur_time \in Nat
      /\ p.mapper \in [Indexes -> Slots \cup {None}]
  BY DEF PoolInv, PoolState
<1>0. p \in PoolState
  BY DEF PoolInv
<1>2. /\ q \in PoolState
      /\ q.mapper = p.mapper /\ q.inverse_mapper = p.inverse_mapper /\ q.array = p.array
      /\ q.cur_time = p.cur_time + 1
      /\ q.last_used_time = [p.last_used_time EXCEPT ![s] = p.cur_time + 1]
  <2>1. /\ q.mapper = p.mapper /\ q.inverse_mapper = p.inverse_mapper
        /\ q.array = p.array
    BY <1>0 DEF PoolState, Touch
  <2>2. q.cur_time = p.cur_time + 1
    BY <1>0 DEF PoolState, Touch
  <2>3. q.last_used_time = [p.last_used_time EXCEPT ![s] = p.cur_time + 1]
    BY <1>0 DEF PoolState, Touch
  <2>4. q.last_used_time \in [Slots -> Nat]
    BY <1>1, <2>3
  <2>5. q \in PoolState
    BY <1>0, <1>1, <2>2, <2>4 DEF PoolState, Touch
  <2> QED
    BY <2>1, <2>2, <2>3, <2>5
<1>3. SlotOwned(q) /\ ArraysDistinct(q) /\ MapUnused(q)
  BY <1>2 DEF PoolInv, SlotOwned, ArraysDistinct, MapUnused
<1>4. TimesOrdered(q)
  <2>1. \A t \in Slots : p.last_used_time[t] <= p.cur_time
    BY DEF PoolInv, TimesOrdered
  <2>2. \A t \in Slots : q.last_used_time[t] <= q.cur_time
    BY <1>1, <1>2, <2>1
  <2>3. \A t \in Slots : q.last_used_time[t] = q.cur_time => t = s
    BY <1>1, <1>2, <2>1
  <2>4. \A i \in Indexes : p.mapper[i] # None => p.last_used_time[p.mapper[i]] > 0
    BY DEF PoolInv, TimesOrdered
  <2>5. \A i \in Indexes : q.mapper[i] # None => q.last_used_time[q.mapper[i]] > 0
    BY <1>1, <1>2, <2>4 DEF None, Slots
  <2> QED
    BY <2>2, <2>3, <2>5 DEF TimesOrdered
<1> QED
  BY <1>1, <1>2, <1>3, <1>4 DEF PoolInv

\* Giving slot s, just used, to a leaf that had none.
LEMMA EvictInv ==
  ASSUME NEW p, PoolInv(p), NEW s \in Slots, NEW idx \in Indexes, ~IsEnough,
         p.mapper[idx] = None, p.last_used_time[s] > 0
  PROVE  PoolInv(Evict(p, idx, s))
<1> DEFINE q == Evict(p, idx, s)
           M == [i \in Indexes |-> IF i = idx THEN s
                                   ELSE IF i = p.inverse_mapper[s] THEN None
                                   ELSE p.mapper[i]]
<1>1. p \in PoolState
  BY DEF PoolInv
<1>2. /\ p.mapper \in [Indexes -> Slots \cup {None}]
      /\ p.inverse_mapper \in [Slots -> Indexes \cup {None}]
      /\ None \notin Slots /\ None \notin Indexes
  BY <1>1 DEF PoolState, None, Slots, Indexes
<1>3. /\ q.mapper = M
      /\ q.inverse_mapper = [p.inverse_mapper EXCEPT ![s] = idx]
      /\ q.array = p.array /\ q.last_used_time = p.last_used_time
      /\ q.cur_time = p.cur_time
  BY <1>1 DEF Evict, PoolState
<1>4. q \in PoolState
  <2>1. M \in [Indexes -> Slots \cup {None}]
    BY <1>2
  <2>2. [p.inverse_mapper EXCEPT ![s] = idx] \in [Slots -> Indexes \cup {None}]
    BY <1>2
  <2> HIDE DEF M
  <2> QED
    BY <1>1, <2>1, <2>2 DEF PoolState, Evict, M
<1>5. SlotOwned(q)
  <2>1. /\ \A i \in Indexes : p.mapper[i] # None => p.inverse_mapper[p.mapper[i]] = i
        /\ \A t \in Slots : p.inverse_mapper[t] # None => p.mapper[p.inverse_mapper[t]] = t
    BY DEF PoolInv, SlotOwned
  <2>2. ASSUME NEW i \in Indexes, M[i] # None
        PROVE  q.inverse_mapper[M[i]] = i
    <3>1. CASE i = idx
      BY <1>2, <1>3, <3>1
    <3>2. CASE i # idx
      <4>1. M[i] = p.mapper[i] /\ i # p.inverse_mapper[s]
        BY <2>2, <3>2
      <4>2. p.mapper[i] # s
        BY <2>1, <2>2, <4>1
      <4> QED
        BY <1>2, <1>3, <2>1, <2>2, <4>1, <4>2
    <3> QED
      BY <3>1, <3>2
  <2>3. ASSUME NEW t \in Slots, q.inverse_mapper[t] # None
        PROVE  M[q.inverse_mapper[t]] = t
    <3>1. CASE t = s
      BY <1>2, <1>3, <3>1
    <3>2. CASE t # s
      <4>1. q.inverse_mapper[t] = p.inverse_mapper[t] /\ p.inverse_mapper[t] \in Indexes
        BY <1>2, <1>3, <2>3, <3>2
      <4>2. p.mapper[p.inverse_mapper[t]] = t
        BY <2>1, <2>3, <4>1
      <4>3. p.inverse_mapper[t] # idx
        BY <1>2, <4>2
      <4>4. p.inverse_mapper[t] # p.inverse_mapper[s]
        BY <2>1, <2>3, <3>2, <4>1, <4>2
      <4> QED
        BY <4>1, <4>2, <4>3, <4>4
    <3> QED
      BY <3>1, <3>2
  <2> QED
    BY <1>3, <2>2, <2>3 DEF SlotOwned
<1>6. ArraysDistinct(q) /\ MapUnused(q)
  BY <1>3 DEF PoolInv, ArraysDistinct, MapUnused
<1>7. TimesOrdered(q)
  <2>1. \A i \in Indexes : p.mapper[i] # None => p.last_used_time[p.mapper[i]] > 0
    BY DEF PoolInv, TimesOrdered
  <2>2. \A i \in Indexes : M[i] # None => q.last_used_time[M[i]] > 0
    BY <1>3, <2>1
  <2> QED
    BY <1>3, <2>2 DEF PoolInv, TimesOrdered
<1> QED
  BY <1>4, <1>5, <1>6, <1>7 DEF PoolInv

LEMMA GotInv ==
  ASSUME NEW p, PoolInv(p), NEW idx \in Indexes
  PROVE  PoolInv(Got(p, idx))
<1>1. CASE IsEnough
  BY <1>1 DEF Got
<1>2. CASE ~IsEnough /\ p.mapper[idx] # None
  <2>1. p.mapper[idx] \in Slots
    BY <1>2 DEF PoolInv, PoolState
  <2> QED
    BY <1>2, <2>1, TouchInv DEF Got, Hit
<1>3. CASE ~IsEnough /\ p.mapper[idx] = None
  <2> DEFINE s == LeastUsed(p)
  <2>1. s \in Slots
    BY LeastUsedIsLeast DEF PoolInv
  <2> HIDE DEF s
  <2>2. /\ PoolInv(Touch(p, s)) /\ Touch(p, s).mapper[idx] = None
        /\ Touch(p, s).last_used_time[s] > 0
    BY <1>3, <2>1, TouchInv
  <2>3. PoolInv(Evict(Touch(p, s), idx, s))
    BY <1>3, <2>1, <2>2, EvictInv
  <2> QED
    BY <1>3, <2>3 DEF Got, Hit, s
<1> QED
  BY <1>1, <1>2, <1>3

LEMMA MovedInv ==
  ASSUME NEW p, PoolInv(p), NEW src \in Indexes, NEW dst \in Indexes,
         src # dst, p.mapper[dst] = None
  PROVE  PoolInv(Moved(p, src, dst))
<1>1. p \in PoolState
  BY DEF PoolInv
<1>2. CASE IsEnough
  <2> DEFINE q == [p EXCEPT !.array[src] = p.array[dst], !.array[dst] = p.array[src]]
  <2>1. Indexes = Slots
    BY <1>2 DEF IsEnough, Indexes, Slots
  <2>2. p.array \in [Slots -> Slots]
    BY <1>1 DEF PoolState
  <2>3. /\ q.array = [p.array EXCEPT ![src] = p.array[dst], ![dst] = p.array[src]]
        /\ q.mapper = p.mapper /\ q.inverse_mapper = p.inverse_mapper
        /\ q.last_used_time = p.last_used_time /\ q.cur_time = p.cur_time
    BY <1>1 DEF PoolState
  <2>4. q.array \in [Slots -> Slots]
    BY <2>1, <2>2, <2>3
  <2>5. q \in PoolState
    BY <1>1, <2>4 DEF PoolState
  <2> HIDE DEF q
  <2>6. ArraysDistinct(q)
    BY <2>1, <2>2, <2>3 DEF PoolInv, ArraysDistinct
  <2>7. SlotOwned(q) /\ TimesOrdered(q) /\ MapUnused(q)
    BY <1>2, <2>3 DEF PoolInv, SlotOwned, TimesOrdered, MapUnused
  <2> QED
    BY <1>2, <2>5, <2>6, <2>7 DEF PoolInv, Moved, q
<1>3. CASE ~IsEnough /\ p.mapper[src] = None
  BY <1>3 DEF Moved
<1>4. CASE ~IsEnough /\ p.mapper[src] # None
  <2> DEFINE s == p.mapper[src]
             q == Touch(p, s)
             M == [i \in Indexes |-> IF i = dst THEN s
                                     ELSE IF i = src THEN None
                                     ELSE p.mapper[i]]
             r == [q EXCEPT !.mapper = M, !.inverse_mapper[s] = dst]
  <2>1. s \in Slots
    BY <1>1, <1>4 DEF PoolState
  <2>2. /\ PoolInv(q) /\ q.mapper = p.mapper /\ q.inverse_mapper = p.inverse_mapper
        /\ q.last_used_time[s] > 0
    BY <1>4, <2>1, TouchInv
  <2> HIDE DEF q
  <2>3. /\ q \in PoolState
        /\ p.mapper \in [Indexes -> Slots \cup {None}]
        /\ p.inverse_mapper \in [Slots -> Indexes \cup {None}]
        /\ None \notin Slots /\ None \notin Indexes
    BY <1>1, <2>2 DEF PoolState, PoolInv, None, Slots, Indexes
  <2>4. Evict(q, dst, s) = r
    <3>1. p.inverse_mapper[s] = src
      BY <1>4 DEF PoolInv, SlotOwned
    <3> QED
      BY <2>2, <3>1 DEF Evict
  <2>5. PoolInv(r)
    BY <1>4, <2>1, <2>2, <2>4, EvictInv
  <2> QED
    BY <1>4, <2>5 DEF Moved, q
<1> QED
  BY <1>2, <1>3, <1>4

-----------------------------------------------------------------------------
(***************************************************************************)
(* What a caller may rely on.                                              *)
(***************************************************************************)

\* Two leaves in the pool have two arrays.
LEMMA ArraysOfTwoLeaves ==
  ASSUME NEW p, PoolInv(p), NEW i \in Indexes, NEW j \in Indexes, i # j,
         Hit(p, i), Hit(p, j)
  PROVE  ArrayOf(p, i) # ArrayOf(p, j)
<1>1. p \in PoolState
  BY DEF PoolInv
<1>2. CASE IsEnough
  BY <1>1, <1>2 DEF IsEnough, Indexes, Slots, PoolInv, ArraysDistinct, ArrayOf, SlotOf
<1>3. CASE ~IsEnough
  <2>1. /\ p.mapper[i] # None /\ p.mapper[j] # None
        /\ ArrayOf(p, i) = p.array[p.mapper[i]] /\ ArrayOf(p, j) = p.array[p.mapper[j]]
    BY <1>3 DEF Hit, ArrayOf, SlotOf
  <2>2. p.mapper[i] \in Slots /\ p.mapper[j] \in Slots
    BY <1>1, <2>1 DEF PoolState
  <2>3. p.mapper[i] # p.mapper[j]
    BY <2>1 DEF PoolInv, SlotOwned
  <2> QED
    BY <2>1, <2>2, <2>3 DEF PoolInv, ArraysDistinct
<1> QED
  BY <1>2, <1>3

\* Get returns an array.
LEMMA ArrayOfIsSlot ==
  ASSUME NEW p, PoolInv(p), NEW idx \in Indexes
  PROVE  SlotOf(p, idx) \in Slots /\ ArrayOf(p, idx) \in Slots
<1>1. p \in PoolState
  BY DEF PoolInv
<1>2. SlotOf(p, idx) \in Slots
  <2>1. CASE IsEnough
    BY <2>1 DEF IsEnough, Indexes, Slots, SlotOf
  <2>2. CASE ~IsEnough
    BY <1>1, <2>2, LeastUsedIsLeast DEF SlotOf, PoolState
  <2> QED
    BY <2>1, <2>2
<1> QED
  BY <1>1, <1>2 DEF ArrayOf, PoolState

\* A missed Get takes a slot from the leaf that had it, and from no other; it
\* is not the slot used last.
LEMMA MissFacts ==
  ASSUME NEW p, PoolInv(p), NEW idx \in Indexes, ~IsEnough, p.mapper[idx] = None
  PROVE  LET q == Got(p, idx)
         IN  /\ q.array = p.array /\ q.mapper[idx] = LeastUsed(p)
             /\ q.last_used_time[LeastUsed(p)] = q.cur_time
             /\ \A i \in Indexes : i # idx => q.mapper[i] \in {p.mapper[i], None}
             /\ \A i \in Indexes : LastUsed(p, i) => q.mapper[i] = p.mapper[i]
<1> DEFINE s == LeastUsed(p)
           t == Touch(p, s)
           q == Got(p, idx)
<1>1. p \in PoolState
  BY DEF PoolInv
<1>2. s \in Slots /\ \A u \in Slots : p.last_used_time[s] <= p.last_used_time[u]
  BY <1>1, LeastUsedIsLeast
<1> HIDE DEF s
<1>3. /\ PoolInv(t) /\ t.last_used_time[s] = t.cur_time /\ t.cur_time > 0
      /\ t.mapper = p.mapper /\ t.inverse_mapper = p.inverse_mapper
      /\ t.array = p.array
  BY <1>2, TouchInv
<1>4. q = Evict(t, idx, s)
  BY DEF Got, Hit, s
<1> HIDE DEF t, q
<1>5. t \in PoolState
  BY <1>3 DEF PoolInv
<1>6. /\ q.mapper = [i \in Indexes |-> IF i = idx THEN s
                                       ELSE IF i = p.inverse_mapper[s] THEN None
                                       ELSE p.mapper[i]]
      /\ q.array = p.array
      /\ q.last_used_time = t.last_used_time /\ q.cur_time = t.cur_time
  BY <1>3, <1>4, <1>5 DEF Evict, PoolState
<1>7. ASSUME NEW i \in Indexes, LastUsed(p, i)
      PROVE  q.mapper[i] = p.mapper[i]
  <2> DEFINE m == p.mapper[i]
  <2>1. /\ m \in Slots /\ p.last_used_time[m] = p.cur_time
        /\ p.cur_time \in Nat /\ p.last_used_time \in [Slots -> Nat]
    BY <1>1, <1>7 DEF LastUsed, PoolState
  <2>2. s # m
    <3>1. PICK u \in Slots : u # m
      <4>1. 0 \in Slots /\ 1 \in Slots
        BY PoolAssumption DEF Slots
      <4> QED
        BY <4>1
    <3>2. p.cur_time > 0
      BY <1>7, <2>1 DEF PoolInv, TimesOrdered, LastUsed
    <3>3. p.last_used_time[u] # p.cur_time
      BY <2>1, <3>1, <3>2 DEF PoolInv, TimesOrdered
    <3>4. p.last_used_time[u] <= p.cur_time
      BY <3>1 DEF PoolInv, TimesOrdered
    <3> QED
      BY <1>2, <2>1, <3>1, <3>3, <3>4
  <2>3. i # idx
    BY <1>7 DEF LastUsed
  <2>4. i # p.inverse_mapper[s]
    BY <1>2, <2>1, <2>2 DEF PoolInv, SlotOwned, None, Slots, Indexes
  <2> QED
    BY <1>6, <2>3, <2>4
<1> QED
  BY <1>2, <1>3, <1>6, <1>7 DEF s, q

\* After a Get the leaf is in the pool, with the array that was returned and
\* used last; no other leaf came in or changed its array, and the leaf used
\* last before is still there.
LEMMA GotFacts ==
  ASSUME NEW p, PoolInv(p), NEW idx \in Indexes
  PROVE  LET q == Got(p, idx)
         IN  /\ PoolInv(q) /\ Hit(q, idx) /\ ArrayOf(q, idx) = ArrayOf(p, idx)
             /\ IsEnough \/ LastUsed(q, idx)
             /\ \A i \in Indexes : i # idx /\ Hit(q, i) =>
                                     Hit(p, i) /\ ArrayOf(q, i) = ArrayOf(p, i)
             /\ \A i \in Indexes : LastUsed(p, i) => Hit(q, i)
             /\ \A i \in Indexes : i # idx /\ p.mapper[i] = None => q.mapper[i] = None
<1> DEFINE q == Got(p, idx)
<1>0. PoolInv(q)
  BY GotInv
<1>1. CASE IsEnough
  BY <1>0, <1>1 DEF Got, Hit
<1>2. CASE ~IsEnough /\ p.mapper[idx] # None
  <2>1. p.mapper[idx] \in Slots
    BY <1>2 DEF PoolInv, PoolState
  <2>2. q = Touch(p, p.mapper[idx])
    BY <1>2 DEF Got, Hit
  <2>3. /\ q.mapper = p.mapper /\ q.array = p.array
        /\ q.last_used_time[p.mapper[idx]] = q.cur_time
    BY <1>2, <2>1, <2>2, TouchInv
  <2> HIDE DEF q
  <2> QED
    BY <1>0, <1>2, <2>3 DEF Hit, ArrayOf, SlotOf, LastUsed, q
<1>3. CASE ~IsEnough /\ p.mapper[idx] = None
  <2>1. /\ q.array = p.array /\ q.mapper[idx] = LeastUsed(p)
        /\ q.last_used_time[LeastUsed(p)] = q.cur_time
        /\ \A i \in Indexes : i # idx => q.mapper[i] \in {p.mapper[i], None}
        /\ \A i \in Indexes : LastUsed(p, i) => q.mapper[i] = p.mapper[i]
    BY <1>3, MissFacts
  <2>2. LeastUsed(p) \in Slots /\ None \notin Slots
    BY LeastUsedIsLeast DEF PoolInv, None, Slots
  <2> HIDE DEF q
  <2>3. Hit(q, idx) /\ ArrayOf(q, idx) = ArrayOf(p, idx) /\ LastUsed(q, idx)
    BY <1>3, <2>1, <2>2 DEF Hit, ArrayOf, SlotOf, LastUsed
  <2>4. \A i \in Indexes : i # idx /\ Hit(q, i) =>
                             Hit(p, i) /\ ArrayOf(q, i) = ArrayOf(p, i)
    BY <1>3, <2>1 DEF Hit, ArrayOf, SlotOf
  <2>5. \A i \in Indexes : LastUsed(p, i) => Hit(q, i)
    BY <2>1 DEF Hit, LastUsed
  <2> QED
    BY <1>0, <2>1, <2>3, <2>4, <2>5 DEF q
<1> QED
  BY <1>1, <1>2, <1>3

\* After a Move the array belongs to the leaf it was moved to, and all other
\* leaves have what they had.
LEMMA MovedFacts ==
  ASSUME NEW p, PoolInv(p), NEW src \in Indexes, NEW dst \in Indexes,
         src # dst, p.mapper[dst] = None, Hit(p, src)
  PROVE  LET q == Moved(p, src, dst)
         IN  /\ PoolInv(q) /\ Hit(q, dst) /\ ArrayOf(q, dst) = ArrayOf(p, src)
             /\ IsEnough \/ LastUsed(q, dst)
             /\ \A i \in Indexes : i \notin {src, dst} /\ Hit(q, i) =>
                                     Hit(p, i) /\ ArrayOf(q, i) = ArrayOf(p, i)
             /\ \A i \in Indexes : i \notin {src, dst} /\ p.mapper[i] = None =>
                                     q.mapper[i] = None
<1> DEFINE q == Moved(p, src, dst)
<1>0. PoolInv(q)
  BY MovedInv
<1>1. p \in PoolState
  BY DEF PoolInv
<1>2. CASE IsEnough
  <2>1. q = [p EXCEPT !.array[src] = p.array[dst], !.array[dst] = p.array[src]]
    BY <1>2 DEF Moved
  <2>2. q.array = [p.array EXCEPT ![src] = p.array[dst], ![dst] = p.array[src]]
    BY <1>1, <2>1 DEF PoolState
  <2>3. Indexes = Slots /\ p.array \in [Slots -> Slots]
    BY <1>1, <1>2 DEF IsEnough, Indexes, Slots, PoolState
  <2>4. q.mapper = p.mapper
    BY <1>1, <2>1 DEF PoolState
  <2> HIDE DEF q
  <2> QED
    BY <1>0, <1>2, <2>2, <2>3, <2>4 DEF Hit, ArrayOf, SlotOf, q
<1>3. CASE ~IsEnough
  <2> DEFINE s == p.mapper[src]
             t == Touch(p, s)
  <2>1. s # None /\ s \in Slots
    BY <1>1, <1>3 DEF Hit, PoolState
  <2> HIDE DEF s
  <2>2. /\ PoolInv(t) /\ t.mapper = p.mapper /\ t.array = p.array
        /\ t.last_used_time[s] = t.cur_time
    BY <1>3, <2>1, TouchInv
  <2>3. q = [t EXCEPT !.mapper = [i \in Indexes |-> IF i = dst THEN s
                                                    ELSE IF i = src THEN None
                                                    ELSE p.mapper[i]],
                      !.inverse_mapper[s] = dst]
    BY <1>3, <2>1 DEF Moved, s
  <2> HIDE DEF t, q
  <2>4. t \in PoolState
    BY <2>2 DEF PoolInv
  <2>5. /\ q.mapper = [i \in Indexes |-> IF i = dst THEN s
                                         ELSE IF i = src THEN None
                                         ELSE p.mapper[i]]
        /\ q.array = p.array
        /\ q.last_used_time = t.last_used_time /\ q.cur_time = t.cur_time
    BY <2>2, <2>3, <2>4 DEF PoolState
  <2>6. q.mapper[dst] = s /\ p.mapper[src] = s
    BY <2>5 DEF s
  <2> QED
    BY <1>0, <1>3, <2>1, <2>2, <2>5, <2>6 DEF Hit, ArrayOf, SlotOf, LastUsed, q
<1> QED
  BY <1>2, <1>3

(***************************************************************************)
(* The calls of BeforeFindBestSplit for two leaves: Get of the leaf that   *)
(* was split, Move of its histogram to the new leaf if that is the larger, *)
(* Get of the smaller one.  They leave both leaves in the pool, the larger *)
(* with the array the parent had, the smaller with another one, and        *)
(* neither bring in another leaf nor change the array of one.              *)
(***************************************************************************)
LEMMA PairFacts ==
  ASSUME NEW p, PoolInv(p), NEW a \in Indexes, NEW b \in Indexes, a # b,
         p.mapper[b] = None, NEW moves \in BOOLEAN
  PROVE  LET p1 == Got(p, a)
             p2 == IF moves THEN Moved(p1, a, b) ELSE p1
             small == IF moves THEN a ELSE b
             large == IF moves THEN b ELSE a
             q  == Got(p2, small)
         IN  /\ PoolInv(q) /\ Hit(q, small) /\ Hit(q, large)
             /\ ArrayOf(q, small) = ArrayOf(p2, small)
             /\ ArrayOf(q, large) = ArrayOf(p, a)
             /\ ArrayOf(p, a) \in Slots /\ ArrayOf(p2, small) \in Slots
             /\ ArrayOf(p2, small) # ArrayOf(p, a)
             /\ \A i \in Indexes : i \notin {a, b} /\ Hit(q, i) =>
                                     Hit(p, i) /\ ArrayOf(q, i) = ArrayOf(p, i)
             /\ \A i \in Indexes : i \notin {a, b} /\ p.mapper[i] = None => q.mapper[i] = None
<1> DEFINE p1 == Got(p, a)
           p2 == IF moves THEN Moved(p1, a, b) ELSE p1
           small == IF moves THEN a ELSE b
           large == IF moves THEN b ELSE a
           q  == Got(p2, small)
<1>1. /\ PoolInv(p1) /\ Hit(p1, a) /\ ArrayOf(p1, a) = ArrayOf(p, a)
      /\ IsEnough \/ LastUsed(p1, a)
      /\ \A i \in Indexes : i # a /\ Hit(p1, i) =>
                              Hit(p, i) /\ ArrayOf(p1, i) = ArrayOf(p, i)
      /\ \A i \in Indexes : i # a /\ p.mapper[i] = None => p1.mapper[i] = None
  BY GotFacts
<1> HIDE DEF p1
<1>2. /\ PoolInv(p2) /\ Hit(p2, large) /\ ArrayOf(p2, large) = ArrayOf(p, a)
      /\ IsEnough \/ LastUsed(p2, large)
      /\ \A i \in Indexes : i \notin {a, b} /\ Hit(p2, i) =>
                              Hit(p1, i) /\ ArrayOf(p2, i) = ArrayOf(p1, i)
      /\ \A i \in Indexes : i \notin {a, b} /\ p1.mapper[i] = None => p2.mapper[i] = None
  BY <1>1, MovedFacts
<1> HIDE DEF p2
<1>3. small \in Indexes /\ large \in Indexes /\ small # large /\ {small, large} = {a, b}
  OBVIOUS
<1> HIDE DEF small, large
<1>4. /\ PoolInv(q) /\ Hit(q, small) /\ ArrayOf(q, small) = ArrayOf(p2, small)
      /\ \A i \in Indexes : i # small /\ Hit(q, i) =>
                              Hit(p2, i) /\ ArrayOf(q, i) = ArrayOf(p2, i)
      /\ \A i \in Indexes : LastUsed(p2, i) => Hit(q, i)
      /\ \A i \in Indexes : i # small /\ p2.mapper[i] = None => q.mapper[i] = None
  BY <1>2, <1>3, GotFacts
<1>5. Hit(q, large)
  BY <1>2, <1>3, <1>4 DEF Hit
<1> HIDE DEF q
<1>6. ArrayOf(q, large) = ArrayOf(p, a)
  BY <1>2, <1>3, <1>4, <1>5
<1>7. ArrayOf(p2, small) # ArrayOf(p, a)
  BY <1>3, <1>4, <1>5, <1>6, ArraysOfTwoLeaves
<1>8. ArrayOf(p, a) \in Slots /\ ArrayOf(p2, small) \in Slots
  BY <1>2, <1>3, ArrayOfIsSlot
<1>9. \A i \in Indexes : i \notin {a, b} /\ Hit(q, i) =>
                           Hit(p, i) /\ ArrayOf(q, i) = ArrayOf(p, i)
  BY <1>1, <1>2, <1>3, <1>4
<1>10. \A i \in Indexes : i \notin {a, b} /\ p.mapper[i] = None => q.mapper[i] = None
  BY <1>1, <1>2, <1>3, <1>4
<1> QED
  BY <1>4, <1>5, <1>6, <1>7, <1>8, <1>9, <1>10 DEF p1, p2, small, large, q

-----------------------------------------------------------------------------
\* The inductive invariant.
LEMMA PoolInvariant == Spec => []PoolInv(hp)
<1>1. Init => PoolInv(hp)
  BY FreshInv DEF Init
<1>2. PoolInv(hp) /\ [Next]_hp => PoolInv(hp)'
  <2> SUFFICES ASSUME PoolInv(hp), [Next]_hp
               PROVE  PoolInv(hp')
    BY DEF PoolInv, SlotOwned, ArraysDistinct, TimesOrdered, MapUnused
  <2>1. ASSUME NEW idx \in Indexes, Get(idx)
        PROVE  PoolInv(hp')
    BY <2>1, GotInv DEF Get
  <2>2. ASSUME NEW src \in Indexes, NEW dst \in Indexes, src # dst, Move(src, dst)
        PROVE  PoolInv(hp')
    BY <2>2, MovedInv DEF Move
  <2>3. CASE NewTree
    BY <2>3, ResetInv DEF NewTree
  <2>4. CASE UNCHANGED hp
    BY <2>4
  <2> QED
    BY <2>1, <2>2, <2>3, <2>4 DEF Next
<1> QED
  BY <1>1, <1>2, PTL DEF Spec

(***************************************************************************)
(* The pool's members keep their types under every order of calls          *)
(* (feature_histogram.hpp, HistogramPool).                                 *)
(***************************************************************************)
THEOREM TypeCorrect == Spec => []TypeOK
<1>1. PoolInv(hp) => TypeOK
  BY DEF PoolInv, TypeOK
<1> QED
  BY <1>1, PoolInvariant, PTL

(***************************************************************************)
(* mapper_ and inverse_mapper_ stay inverses and arrays stay distinct, for *)
(* every number of leaves and slots (feature_histogram.hpp, Get and Move). *)
(***************************************************************************)
THEOREM NoSharingCorrect == Spec => []NoSharing
<1>1. PoolInv(hp) => NoSharing
  BY DEF PoolInv, NoSharing
<1> QED
  BY <1>1, PoolInvariant, PTL

(***************************************************************************)
(* A Get never evicts the leaf used last: with two slots or more there is  *)
(* always a slot used longer ago (feature_histogram.hpp, Get).             *)
(***************************************************************************)
THEOREM LastUsedIsKeptCorrect == Spec => LastUsedIsKept
<1> DEFINE Kept == \A idx, i \in Indexes :
                      Get(idx) /\ LastUsed(hp, i) => hp'.mapper[i] = hp.mapper[i]
<1>1. PoolInv(hp) /\ [Next]_hp => [Kept]_hp
  <2> SUFFICES ASSUME PoolInv(hp), NEW idx \in Indexes, NEW i \in Indexes,
                      Get(idx), LastUsed(hp, i)
               PROVE  hp'.mapper[i] = hp.mapper[i]
    OBVIOUS
  <2>1. hp' = Got(hp, idx)
    BY DEF Get
  <2>2. CASE IsEnough
    BY <2>1, <2>2 DEF Got
  <2>3. CASE ~IsEnough /\ hp.mapper[idx] # None
    <3>1. hp.mapper[idx] \in Slots
      BY <2>3 DEF PoolInv, PoolState
    <3> QED
      BY <2>1, <2>3, <3>1, TouchInv DEF Got, Hit
  <2>4. CASE ~IsEnough /\ hp.mapper[idx] = None
    BY <2>1, <2>4, MissFacts
  <2> QED
    BY <2>2, <2>3, <2>4
<1> QED
  BY <1>1, PoolInvariant, PTL DEF Spec, LastUsedIsKept

=============================================================================
