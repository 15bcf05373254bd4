--------------------------- MODULE BoosterProofs ----------------------------
(***************************************************************************)
(* Proofs about a booster behind the C API, for any number of threads, any *)
(* handles and any calls.                                                  *)
(***************************************************************************)
EXTENDS Booster, FiniteSetTheorems, SequenceTheorems, TLAPS

-----------------------------------------------------------------------------
(* The inductive invariant *)

\* Calls that take the booster's lock for writing, and for reading.
Exclusive == Changes \cup {"single", "fast init"}
Shared    == {"predict", "fast"}

\* Stages of a call that asks for a lock, and of one that writes the range.
Waiting == {"write lock", "write lock again", "read lock", "own lock"}
Ranging == {"total", "num", "start", "depths"}

\* Stages of a call in the middle of a change.
Altering == {"swap", "refill", "refit"}

\* The threads that hold the booster's lock, and those that hold a handle's.
Writers   == {t \in Threads : \/ pc[t] \in Altering \cup {"locked", "between"}
                              \/ pc[t] \in {"row", "return"} /\ call[t].op \in Exclusive}
Readers   == {t \in Threads : \/ pc[t] \in Ranging
                              \/ pc[t] \in {"row", "return"} /\ call[t].op \in Shared}
Owners(f) == {t \in Threads : /\ pc[t] \in {"read lock", "row", "return"}
                              /\ call[t].op = "fast" /\ call[t].handle = f}

\* Which calls come to which stage.
StageInv ==
  /\ DOMAIN pc = Threads /\ DOMAIN call = Threads
  /\ \A t \in Threads :
       /\ IsCall(call[t])
       /\ pc[t] \in Waiting \cup Ranging \cup Altering
                    \cup {"idle", "locked", "between", "row", "count", "print", "return"}
       /\ pc[t] \in {"write lock", "locked"} => call[t].op \in Exclusive
       /\ pc[t] \in {"between", "write lock again"} => call[t].op = "single"
       /\ pc[t] = "own lock" => call[t].op = "fast"
       /\ pc[t] = "read lock" => call[t].op \in Shared
       /\ pc[t] \in Ranging => call[t].op = "predict"
       /\ pc[t] = "row" => call[t].op \in Shared \cup {"single"}
       /\ pc[t] \in {"count", "print"} => call[t].op = "save"
       /\ pc[t] = "swap" => call[t].op = "shuffle"
       /\ pc[t] = "refill" => call[t].op \in {"merge", "shuffle"}
       /\ pc[t] = "refit" => call[t].op = "refit"

\* The lock counts who holds it; who writes is alone.
LockInv ==
  /\ \A t, u \in Writers : t = u
  /\ Writers # {} => Readers = {}
  /\ lock[BoosterMutex].writer <=> Writers # {}
  /\ IsFiniteSet(Readers) /\ lock[BoosterMutex].readers = Cardinality(Readers)
HandleInv(f) ==
  /\ \A t, u \in Owners(f) : t = u
  /\ lock[f].writer <=> Owners(f) # {}
  /\ lock[f].readers = 0

\* Who sleeps waits for somebody who holds the lock and will wake it.
SleepInv ==
  /\ \A t \in lock[BoosterMutex].waiting :
       \/ pc[t] \in {"write lock", "write lock again"} /\ (Writers # {} \/ Readers # {})
       \/ pc[t] = "read lock" /\ Writers # {}
  /\ \A f \in FastConfigs : \A t \in lock[f].waiting :
       pc[t] = "own lock" /\ call[t].handle = f /\ Owners(f) # {}

LocksInv == LockInv /\ (\A f \in FastConfigs : HandleInv(f)) /\ SleepInv

\* In the middle of a change: what models_ is refilled with has at least the
\* rounds there were, and those of a shuffle or a refit are as many and have
\* depths if those before had.
Deeper(ms, ns) == (\A i \in DOMAIN ms : ms[i].depth) => \A i \in DOMAIN ns : ns[i].depth
FillInv ==
  \A t \in Changing :
    /\ pc[t] = "swap" => Len(models) = 0
    /\ pc[t] \in {"swap", "refill"} =>
         /\ Len(models) <= Len(coming) /\ Len(original) <= Len(coming)
         /\ \A i \in DOMAIN models : models[i] = coming[i]
         /\ call[t].op = "shuffle" => Len(coming) = Len(original) /\ Deeper(original, coming)
    /\ pc[t] = "refit" => Len(models) = Len(original) /\ Deeper(original, models)

\* Types; num_iteration_for_pred_ is never negative.
LockTypes == lock \in [Locks -> LockState(Threads)]
ModelTypes ==
  /\ models \in Seq(Tree) /\ original \in Seq(Tree) /\ coming \in Seq(Tree)
  /\ iter \in 0..Len(Model) /\ made \in Nat
  /\ range \in [start : Nat, num : Nat] /\ models_initialized \in BOOLEAN
  /\ inner \in [Types -> Predictor] /\ fast \in [FastConfigs -> Predictor]
Counters == local \in [Threads -> Nat] /\ calls \in [Threads -> Nat]

IInv == setup \in Setups /\ ModelTypes /\ FillInv /\ Counters /\ LockTypes /\ StageInv /\ LocksInv

-----------------------------------------------------------------------------
(* Who holds which lock *)


\* Who sleeps at a handle that nobody takes or gives back goes on sleeping.
LEMMA HandleSleep ==
  ASSUME SleepInv, LockTypes, NEW f \in FastConfigs, lock'[f] = lock[f], Owners(f)' = Owners(f),
         \A u \in Threads : pc[u] = "own lock" => pc'[u] = pc[u] /\ call'[u] = call[u]
  PROVE  \A u \in lock'[f].waiting :
           pc'[u] = "own lock" /\ call'[u].handle = f /\ Owners(f)' # {}
<1> SUFFICES ASSUME NEW u \in lock[f].waiting
             PROVE  pc'[u] = "own lock" /\ call'[u].handle = f /\ Owners(f) # {}
  OBVIOUS
<1>1. u \in Threads
  BY DEF LockTypes, LockState, Locks
<1>2. pc[u] = "own lock" /\ call[u].handle = f /\ Owners(f) # {}
  BY DEF SleepInv
<1> QED BY <1>1, <1>2

\* Who sleeps at the booster's lock goes on sleeping while somebody holds it.
LEMMA BoosterSleep ==
  ASSUME SleepInv, LockTypes, lock'[BoosterMutex].waiting \subseteq lock[BoosterMutex].waiting,
         Writers # {} => Writers' # {}, Readers # {} => Writers' # {} \/ Readers' # {},
         \A u \in Threads : pc[u] \in Waiting => pc'[u] = pc[u] /\ call'[u] = call[u]
  PROVE  \A u \in lock'[BoosterMutex].waiting :
           \/ pc'[u] \in {"write lock", "write lock again"} /\ (Writers' # {} \/ Readers' # {})
           \/ pc'[u] = "read lock" /\ Writers' # {}
<1> SUFFICES ASSUME NEW u \in lock[BoosterMutex].waiting
             PROVE  \/ /\ pc'[u] \in {"write lock", "write lock again"}
                       /\ Writers' # {} \/ Readers' # {}
                    \/ pc'[u] = "read lock" /\ Writers' # {}
  OBVIOUS
<1>1. u \in Threads
  BY DEF LockTypes, LockState, Locks
<1>2. \/ pc[u] \in {"write lock", "write lock again"} /\ (Writers # {} \/ Readers # {})
      \/ pc[u] = "read lock" /\ Writers # {}
  BY DEF SleepInv
<1>3. pc[u] \in Waiting
  BY <1>2 DEF Waiting
<1> QED BY <1>1, <1>2, <1>3

\* A thread that is not asleep and neither takes nor gives back a lock.
LEMMA Walks ==
  ASSUME LocksInv, NEW t \in Threads, \A m \in Locks : lock'[m] = lock[m],
         \A u \in Threads \ {t} : pc'[u] = pc[u] /\ call'[u] = call[u],
         pc[t] \notin Waiting,
         t \in Writers' <=> t \in Writers, t \in Readers' <=> t \in Readers,
         \A f \in FastConfigs : t \in Owners(f)' <=> t \in Owners(f),
         LockTypes
  PROVE  LocksInv'
<1>1. Writers' = Writers /\ Readers' = Readers
  BY DEF Writers, Readers
<1>2. \A f \in FastConfigs : Owners(f)' = Owners(f)
  BY ZenonT(30) DEF Owners
<1>0. lock'[BoosterMutex] = lock[BoosterMutex] /\ \A f \in FastConfigs : lock'[f] = lock[f]
  BY DEF Locks
<1>3. LockInv'
  BY <1>0, <1>1 DEF LocksInv, LockInv
<1>4. \A f \in FastConfigs : HandleInv(f)'
  BY <1>0, <1>2 DEF LocksInv, HandleInv
<1>5. \A u \in Threads : pc[u] \in Waiting => pc'[u] = pc[u] /\ call'[u] = call[u]
  OBVIOUS
<1>6. \A f \in FastConfigs : \A u \in lock'[f].waiting :
        pc'[u] = "own lock" /\ call'[u].handle = f /\ Owners(f)' # {}
  BY <1>0, <1>2, <1>5, HandleSleep DEF LocksInv, Waiting
<1>7. SleepInv'
  BY <1>0, <1>1, <1>5, <1>6, BoosterSleep DEF LocksInv, SleepInv
<1> QED BY <1>3, <1>4, <1>7 DEF LocksInv

\* Looking at the booster's lock for writing.
LEMMA LooksForWriting ==
  ASSUME StageInv, LocksInv, LockTypes, NEW t \in Threads, NEW from, NEW to,
         TakeForWriting(t, from, BoosterMutex, to),
         \/ from = "write lock" /\ to = "locked"
         \/ from = "write lock again" /\ to = "row"
  PROVE  StageInv' /\ LocksInv'
<1>1. /\ pc[t] = from /\ call' = call /\ lock[BoosterMutex] \in LockState(Threads)
      /\ t \notin lock[BoosterMutex].waiting
      /\ lock' = [lock EXCEPT ![BoosterMutex] = LookedForWriting(lock[BoosterMutex], t)]
      /\ DOMAIN lock = Locks
  BY DEF TakeForWriting, LockTypes, Locks
<1>2. \A f \in FastConfigs : lock'[f] = lock[f]
  BY <1>1, BoosterAssumption DEF Locks
<1>3. lock'[BoosterMutex] = LookedForWriting(lock[BoosterMutex], t)
  BY <1>1 DEF Locks
<1>4. /\ call[t].op \in Exclusive /\ (from = "write lock again" => call[t].op = "single")
      /\ t \notin Writers /\ t \notin Readers /\ \A f \in FastConfigs : t \notin Owners(f)
      /\ call[t].op # "fast" /\ call[t].op \notin Shared
  BY <1>1 DEF StageInv, Exclusive, Shared, Changes, Writers, Readers, Owners, Ranging, Altering
<1>5. CASE WriterWaits(lock[BoosterMutex])
  <2>1. /\ pc' = pc
        /\ lock'[BoosterMutex] = [lock[BoosterMutex] EXCEPT
             !.waiting = lock[BoosterMutex].waiting \cup {t}]
    BY <1>1, <1>3, <1>5 DEF TakeForWriting, LookedForWriting, Wait
  <2>2. /\ lock'[BoosterMutex].writer = lock[BoosterMutex].writer
        /\ lock'[BoosterMutex].readers = lock[BoosterMutex].readers
        /\ lock'[BoosterMutex].waiting = lock[BoosterMutex].waiting \cup {t}
    BY <2>1, <1>1 DEF LockState
  <2>3. Writers' = Writers /\ Readers' = Readers /\ \A f \in FastConfigs : Owners(f)' = Owners(f)
    BY <2>1, <1>1 DEF Writers, Readers, Owners
  <2>4. LockInv'
    BY <2>2, <2>3 DEF LocksInv, LockInv
  <2>5. \A f \in FastConfigs : HandleInv(f)'
    BY <2>3, <1>2 DEF LocksInv, HandleInv
  <2>8. Writers # {} \/ Readers # {}
    BY <1>5, <1>1, FS_EmptySet DEF WriterWaits, LocksInv, LockInv, LockState
  <2>6. SleepInv'
    BY <2>1, <2>2, <2>3, <1>1, <1>2, <2>8, ZenonT(30) DEF LocksInv, SleepInv
  <2>7. StageInv'
    BY <2>1, <1>1 DEF StageInv
  <2> QED BY <2>4, <2>5, <2>6, <2>7 DEF LocksInv
<1>6. CASE ~WriterWaits(lock[BoosterMutex])
  <2>1. /\ pc' = [pc EXCEPT ![t] = to]
        /\ lock'[BoosterMutex] = [lock[BoosterMutex] EXCEPT !.writer = TRUE]
    BY <1>1, <1>3, <1>6 DEF TakeForWriting, LookedForWriting, Goto
  <2>2. /\ lock'[BoosterMutex].writer = TRUE /\ lock[BoosterMutex].writer = FALSE
        /\ lock'[BoosterMutex].readers = 0 /\ lock[BoosterMutex].readers = 0
        /\ lock'[BoosterMutex].waiting = lock[BoosterMutex].waiting
    BY <2>1, <1>1, <1>6 DEF LockState, WriterWaits
  <2>3. /\ pc'[t] = to /\ \A u \in Threads \ {t} : pc'[u] = pc[u]
        /\ DOMAIN pc' = Threads
    BY <2>1 DEF StageInv
  <2>4. Writers = {} /\ Readers = {}
    <3>1. IsFiniteSet(Readers) /\ Cardinality(Readers) = 0
      BY <2>2 DEF LocksInv, LockInv
    <3>2. Readers = {}
      BY <3>1, FS_EmptySet
    <3> QED BY <2>2, <3>2 DEF LocksInv, LockInv
  <2>5. Writers' = {t} /\ Readers' = {}
    <3>1. ASSUME NEW u \in Threads, u # t PROVE u \notin Writers' /\ u \notin Readers'
      BY <3>1, <2>3, <2>4, <1>1 DEF Writers, Readers
    <3>2. t \in Writers' /\ t \notin Readers'
      BY <2>3, <1>1, <1>4 DEF Writers, Readers, Ranging
    <3> QED BY <3>1, <3>2 DEF Writers, Readers
  <2>6. \A f \in FastConfigs : Owners(f)' = Owners(f)
    BY <2>3, <1>1, <1>4 DEF Owners
  <2>7. LockInv'
    BY <2>2, <2>4, <2>5, FS_EmptySet DEF LocksInv, LockInv
  <2>8. \A f \in FastConfigs : HandleInv(f)'
    BY <2>6, <1>2 DEF LocksInv, HandleInv
  <2>9. SleepInv'
    <3>1. lock'[BoosterMutex].waiting = {}
      BY <2>2, <2>4 DEF LocksInv, SleepInv
    <3>2. \A u \in Threads : pc[u] = "own lock" => pc'[u] = pc[u] /\ call'[u] = call[u]
      BY <2>3, <1>1
    <3>3. \A f \in FastConfigs : \A u \in lock'[f].waiting :
            pc'[u] = "own lock" /\ call'[u].handle = f /\ Owners(f)' # {}
      BY <3>2, <1>2, <2>6, HandleSleep DEF LocksInv
    <3> QED BY <3>1, <3>3 DEF SleepInv
  <2>10. StageInv'
    BY <2>3, <1>1, <1>4 DEF StageInv, Waiting, Ranging, Shared
  <2> QED BY <2>7, <2>8, <2>9, <2>10 DEF LocksInv
<1> QED BY <1>5, <1>6

\* Looking at the lock of a handle, before the booster's.
LEMMA LooksAtHandle ==
  ASSUME StageInv, LocksInv, LockTypes, NEW t \in Threads,
         TakeForWriting(t, "own lock", call[t].handle, "read lock")
  PROVE  StageInv' /\ LocksInv'
<1>0. PICK h \in FastConfigs : h = call[t].handle
  BY DEF TakeForWriting, StageInv, IsCall
<1>1. call[t].handle = h /\ call[t].op = "fast" /\ pc[t] = "own lock"
  BY <1>0 DEF TakeForWriting, StageInv
<1>2. /\ call' = call /\ lock[h] \in LockState(Threads) /\ t \notin lock[h].waiting
      /\ lock' = [lock EXCEPT ![h] = LookedForWriting(lock[h], t)]
      /\ DOMAIN lock = Locks
  BY <1>0 DEF TakeForWriting, LockTypes, Locks
<1>3. /\ lock'[BoosterMutex] = lock[BoosterMutex]
      /\ \A f \in FastConfigs \ {h} : lock'[f] = lock[f]
  BY <1>1, <1>2, BoosterAssumption DEF Locks
<1>4. lock'[h] = LookedForWriting(lock[h], t)
  BY <1>0, <1>2 DEF Locks
<1>5. t \notin Writers /\ t \notin Readers /\ \A f \in FastConfigs : t \notin Owners(f)
  BY <1>1 DEF Writers, Readers, Owners, Ranging, Altering
<1>6. CASE WriterWaits(lock[h])
  <2>1. /\ pc' = pc
        /\ lock'[h] = [lock[h] EXCEPT !.waiting = lock[h].waiting \cup {t}]
    BY <1>0, <1>2, <1>4, <1>6 DEF TakeForWriting, LookedForWriting, Wait
  <2>2. /\ lock'[h].writer = lock[h].writer /\ lock'[h].readers = lock[h].readers
        /\ lock'[h].waiting = lock[h].waiting \cup {t}
    BY <2>1, <1>2 DEF LockState
  <2>3. Writers' = Writers /\ Readers' = Readers /\ \A f \in FastConfigs : Owners(f)' = Owners(f)
    BY <2>1, <1>2 DEF Writers, Readers, Owners
  <2>4. LockInv'
    BY <1>3, <2>3 DEF LocksInv, LockInv
  <2>5. ASSUME NEW f \in FastConfigs PROVE HandleInv(f)'
    <3>1. Owners(f)' = Owners(f) /\ lock'[f].readers = lock[f].readers
      BY <2>2, <2>3, <1>3
    <3>2. lock'[f].writer = lock[f].writer
      BY <2>2, <1>3
    <3> QED BY <3>1, <3>2 DEF LocksInv, HandleInv
  <2>6. Owners(h) # {}
    BY <1>1, <1>6, <1>2 DEF WriterWaits, LocksInv, HandleInv
  <2>7. ASSUME NEW f \in FastConfigs
        PROVE  \A u \in lock'[f].waiting :
                 pc'[u] = "own lock" /\ call'[u].handle = f /\ Owners(f)' # {}
    <3>1. CASE f # h
      <4>1. lock'[f] = lock[f] /\ Owners(f)' = Owners(f)
        BY <3>1, <1>3, <2>3
      <4> QED BY <4>1, <1>2, <2>1, HandleSleep DEF LocksInv
    <3>2. CASE f = h
      <4>1. Owners(h)' # {}
        BY <1>1, <2>3, <2>6
      <4>2. ASSUME NEW u \in lock'[h].waiting PROVE pc'[u] = "own lock" /\ call'[u].handle = h
        <5>1. CASE u = t
          <6>1. pc'[u] = pc[t] /\ call'[u] = call[t]
            BY <5>1, <1>2, <2>1
          <6> QED BY <6>1, <1>1
        <5>2. CASE u # t
          <6>1. u \in lock[h].waiting
            BY <5>2, <2>2
          <6>2. pc[u] = "own lock" /\ call[u].handle = h
            BY <6>1, <1>1 DEF LocksInv, SleepInv
          <6> QED BY <6>2, <1>2, <2>1
        <5> QED BY <5>1, <5>2
      <4> QED BY <3>2, <4>1, <4>2
    <3> QED BY <3>1, <3>2
  <2>8. SleepInv'
    BY <2>1, <2>3, <2>7, <1>2, <1>3, BoosterSleep DEF LocksInv, SleepInv
  <2>9. StageInv'
    BY <2>1, <1>2 DEF StageInv
  <2> QED BY <2>4, <2>5, <2>8, <2>9 DEF LocksInv
<1>7. CASE ~WriterWaits(lock[h])
  <2>1. /\ pc' = [pc EXCEPT ![t] = "read lock"]
        /\ lock'[h] = [lock[h] EXCEPT !.writer = TRUE]
    BY <1>0, <1>2, <1>4, <1>7 DEF TakeForWriting, LookedForWriting, Goto
  <2>2. /\ lock'[h].writer = TRUE /\ lock[h].writer = FALSE
        /\ lock'[h].readers = 0 /\ lock'[h].waiting = lock[h].waiting
    BY <2>1, <1>2, <1>7 DEF LockState, WriterWaits
  <2>3. /\ pc'[t] = "read lock" /\ \A u \in Threads \ {t} : pc'[u] = pc[u]
        /\ DOMAIN pc' = Threads
    BY <2>1 DEF StageInv
  <2>4. Owners(h) = {}
    BY <2>2, <1>1 DEF LocksInv, HandleInv
  <2>5. Writers' = Writers /\ Readers' = Readers
    <3>1. t \notin Writers' /\ t \notin Readers'
      BY <2>3 DEF Writers, Readers, Ranging, Altering
    <3> QED BY <3>1, <2>3, <1>2, <1>5 DEF Writers, Readers
  <2>6. Owners(h)' = {t}
    BY <2>3, <2>4, <1>1, <1>2 DEF Owners
  <2>7. \A f \in FastConfigs \ {h} : Owners(f)' = Owners(f)
    BY <2>3, <1>1, <1>2, <1>5 DEF Owners
  <2>8. LockInv'
    BY <2>5, <1>3 DEF LocksInv, LockInv
  <2>9. ASSUME NEW f \in FastConfigs PROVE HandleInv(f)'
    <3>1. CASE f = h
      BY <3>1, <2>2, <2>6 DEF HandleInv
    <3>2. CASE f # h
      <4>1. lock'[f] = lock[f] /\ Owners(f)' = Owners(f)
        BY <3>2, <1>3, <2>7
      <4> QED BY <4>1 DEF LocksInv, HandleInv
    <3> QED BY <3>1, <3>2
  <2>10. SleepInv'
    <3>1. \A u \in Threads \ {t} : pc'[u] = pc[u] /\ call'[u] = call[u]
      BY <2>3, <1>2
    <3>2. lock[h].waiting = {}
      BY <2>4, <1>1 DEF LocksInv, SleepInv
    <3>3. ASSUME NEW f \in FastConfigs
          PROVE  \A u \in lock'[f].waiting :
                   pc'[u] = "own lock" /\ call'[u].handle = f /\ Owners(f)' # {}
      <4>1. CASE f = h
        BY <4>1, <3>2, <2>2
      <4>2. CASE f # h
        <5> SUFFICES ASSUME NEW u \in lock[f].waiting
                     PROVE  pc'[u] = "own lock" /\ call'[u].handle = f /\ Owners(f)' # {}
          BY <4>2, <1>3
        <5>1. pc[u] = "own lock" /\ call[u].handle = f /\ Owners(f) # {} /\ u \in Threads
          BY DEF LocksInv, SleepInv, LockTypes, LockState, Locks
        <5>2. u # t
          BY <5>1, <4>2, <1>1
        <5>3. Owners(f)' # {}
          BY <5>1, <2>7, <4>2
        <5> QED BY <5>1, <5>2, <5>3, <3>1
      <4> QED BY <4>1, <4>2
    <3>4. \A u \in lock'[BoosterMutex].waiting :
            \/ pc'[u] \in {"write lock", "write lock again"} /\ (Writers' # {} \/ Readers' # {})
            \/ pc'[u] = "read lock" /\ Writers' # {}
      <4> SUFFICES ASSUME NEW u \in lock[BoosterMutex].waiting
                   PROVE  \/ /\ pc'[u] \in {"write lock", "write lock again"}
                             /\ Writers' # {} \/ Readers' # {}
                          \/ pc'[u] = "read lock" /\ Writers' # {}
        BY <1>3
      <4>1. /\ \/ pc[u] \in {"write lock", "write lock again"} /\ (Writers # {} \/ Readers # {})
               \/ pc[u] = "read lock" /\ Writers # {}
            /\ u \in Threads
        BY DEF LocksInv, SleepInv, LockTypes, LockState, Locks
      <4>2. u # t
        BY <4>1, <1>1
      <4> QED BY <4>1, <4>2, <3>1, <2>5
    <3> QED BY <3>3, <3>4 DEF SleepInv
  <2>11. StageInv'
    BY <2>3, <1>1, <1>2 DEF StageInv, Waiting, Ranging, Shared
  <2> QED BY <2>8, <2>9, <2>10, <2>11 DEF LocksInv
<1> QED BY <1>6, <1>7

\* Looking at the booster's lock for reading.
LEMMA LooksForReading ==
  ASSUME StageInv, LocksInv, LockTypes, NEW t \in Threads, TakeForReading(t)
  PROVE  StageInv' /\ LocksInv'
<1>1. /\ pc[t] = "read lock" /\ call' = call /\ lock[BoosterMutex] \in LockState(Threads)
      /\ lock' = [lock EXCEPT ![BoosterMutex] = LookedForReading(lock[BoosterMutex], t)]
      /\ DOMAIN lock = Locks
  BY DEF TakeForReading, LockTypes, Locks
<1>2. \A f \in FastConfigs : lock'[f] = lock[f]
  BY <1>1, BoosterAssumption DEF Locks
<1>3. lock'[BoosterMutex] = LookedForReading(lock[BoosterMutex], t)
  BY <1>1 DEF Locks
<1>4. call[t].op \in Shared /\ call[t].op \notin Exclusive /\ t \notin Writers /\ t \notin Readers
  BY <1>1 DEF StageInv, Exclusive, Shared, Changes, Writers, Readers, Ranging, Altering
<1>5. CASE ReaderWaits(lock[BoosterMutex])
  <2>1. /\ pc' = pc
        /\ lock'[BoosterMutex] = [lock[BoosterMutex] EXCEPT
             !.waiting = lock[BoosterMutex].waiting \cup {t}]
    BY <1>1, <1>3, <1>5 DEF TakeForReading, LookedForReading, Wait
  <2>2. /\ lock'[BoosterMutex].writer = lock[BoosterMutex].writer
        /\ lock'[BoosterMutex].readers = lock[BoosterMutex].readers
        /\ lock'[BoosterMutex].waiting = lock[BoosterMutex].waiting \cup {t}
    BY <2>1, <1>1, ZenonT(30) DEF LockState
  <2>3. Writers' = Writers /\ Readers' = Readers /\ \A f \in FastConfigs : Owners(f)' = Owners(f)
    BY <2>1, <1>1 DEF Writers, Readers, Owners
  <2>4. LockInv'
    BY <2>2, <2>3 DEF LocksInv, LockInv
  <2>5. \A f \in FastConfigs : HandleInv(f)'
    BY <2>3, <1>2 DEF LocksInv, HandleInv
  <2>6. Writers # {}
    BY <1>5 DEF ReaderWaits, LocksInv, LockInv
  <2>7. \A f \in FastConfigs : \A u \in lock'[f].waiting :
          pc'[u] = "own lock" /\ call'[u].handle = f /\ Owners(f)' # {}
    BY <1>1, <1>2, <2>1, <2>3, HandleSleep DEF LocksInv
  <2>8. SleepInv'
    BY <2>1, <2>2, <2>3, <2>6, <2>7, <1>1 DEF LocksInv, SleepInv
  <2>9. StageInv'
    BY <2>1, <1>1 DEF StageInv
  <2> QED BY <2>4, <2>5, <2>8, <2>9 DEF LocksInv
<1>6. CASE ~ReaderWaits(lock[BoosterMutex])
  <2> DEFINE to == IF call[t].op = "fast" THEN "row" ELSE "total"
  <2>1. /\ pc' = [pc EXCEPT ![t] = to]
        /\ lock'[BoosterMutex] = [lock[BoosterMutex] EXCEPT !.readers = lock[BoosterMutex].readers + 1]
    BY <1>1, <1>3, <1>6 DEF TakeForReading, LookedForReading, Goto
  <2>2. /\ lock'[BoosterMutex].writer = lock[BoosterMutex].writer /\ lock[BoosterMutex].writer = FALSE
        /\ lock'[BoosterMutex].readers = lock[BoosterMutex].readers + 1
        /\ lock'[BoosterMutex].waiting = lock[BoosterMutex].waiting
    BY <2>1, <1>1, <1>6 DEF LockState, ReaderWaits
  <2>3. /\ pc'[t] = to /\ \A u \in Threads \ {t} : pc'[u] = pc[u]
        /\ DOMAIN pc' = Threads
    BY <2>1 DEF StageInv
  <2>4. Writers = {}
    BY <2>2 DEF LocksInv, LockInv
  <2>5. Writers' = {}
    BY <2>3, <2>4, <1>1, <1>4 DEF Writers, Altering
  <2>6. Readers' = Readers \cup {t}
    <3>1. t \in Readers'
      BY <2>3, <1>1, <1>4 DEF Readers, Ranging
    <3> QED BY <3>1, <2>3, <1>1, <1>4 DEF Readers
  <2>7. \A f \in FastConfigs : Owners(f)' = Owners(f)
    <3>1. ASSUME NEW f \in FastConfigs PROVE t \in Owners(f)' <=> t \in Owners(f)
      BY <2>3, <1>1 DEF Owners
    <3> QED BY <3>1, <2>3, <1>1, ZenonT(30) DEF Owners
  <2>8. IsFiniteSet(Readers') /\ Cardinality(Readers') = Cardinality(Readers) + 1
    BY <2>6, <1>4, FS_AddElement DEF LocksInv, LockInv
  <2>9. LockInv'
    BY <2>2, <2>4, <2>5, <2>8 DEF LocksInv, LockInv
  <2>10. \A f \in FastConfigs : HandleInv(f)'
    BY <2>7, <1>2 DEF LocksInv, HandleInv
  <2>11. \A u \in lock'[BoosterMutex].waiting :
           pc[u] \in {"write lock", "write lock again"} /\ u \in Threads /\ u # t
    BY <2>2, <2>4, <1>1 DEF LocksInv, SleepInv, LockState
  <2>12. \A f \in FastConfigs : \A u \in lock'[f].waiting :
          pc'[u] = "own lock" /\ call'[u].handle = f /\ Owners(f)' # {}
    BY <1>1, <1>2, <2>3, <2>7, HandleSleep DEF LocksInv
  <2>13. SleepInv'
    BY <2>3, <2>6, <2>11, <2>12 DEF SleepInv
  <2>14. StageInv'
    BY <2>3, <1>1, <1>4, ZenonT(30) DEF StageInv, Waiting, Ranging, Shared
  <2> QED BY <2>9, <2>10, <2>13, <2>14 DEF LocksInv
<1> QED BY <1>5, <1>6

\* A writer gives the booster's lock back, and wakes everybody.
LEMMA WriterLeaves ==
  ASSUME LocksInv, LockTypes, NEW t \in Writers,
         lock'[BoosterMutex] = WriterReleased(lock[BoosterMutex]),
         \A f \in FastConfigs : lock'[f] = lock[f] /\ Owners(f)' = Owners(f),
         \A u \in Threads \ {t} : pc'[u] = pc[u] /\ call'[u] = call[u],
         t \notin Writers' /\ t \notin Readers', pc[t] \notin Waiting
  PROVE  LocksInv'
<1>1. lock[BoosterMutex] \in LockState(Threads) /\ t \in Threads
  BY DEF LockTypes, Locks, Writers
<1>2. /\ lock'[BoosterMutex].writer = FALSE /\ lock'[BoosterMutex].waiting = {}
      /\ lock'[BoosterMutex].readers = lock[BoosterMutex].readers
  BY <1>1 DEF WriterReleased, NotifyAll, LockState
<1>3. Writers = {t} /\ Readers = {}
  BY DEF LocksInv, LockInv
<1>4. Writers' = {} /\ Readers' = {}
  BY <1>3 DEF Writers, Readers
<1>5. LockInv'
  BY <1>2, <1>3, <1>4 DEF LocksInv, LockInv
<1>6. \A f \in FastConfigs : HandleInv(f)'
  BY DEF LocksInv, HandleInv
<1>7. \A u \in Threads : pc[u] = "own lock" => pc'[u] = pc[u] /\ call'[u] = call[u]
  BY DEF Waiting
<1>8. \A f \in FastConfigs : \A u \in lock'[f].waiting :
        pc'[u] = "own lock" /\ call'[u].handle = f /\ Owners(f)' # {}
  BY <1>7, HandleSleep DEF LocksInv
<1>9. SleepInv'
  BY <1>2, <1>8 DEF SleepInv
<1> QED BY <1>5, <1>6, <1>9 DEF LocksInv

LEMMA BetweenLocksKeeps ==
  ASSUME StageInv, LocksInv, LockTypes, NEW t \in Threads, BetweenLocks(t)
  PROVE  StageInv' /\ LocksInv'
<1>1. /\ pc[t] = "between" /\ call' = call /\ call[t].op = "single"
      /\ pc' = [pc EXCEPT ![t] = "write lock again"]
      /\ lock' = [lock EXCEPT ![BoosterMutex] = WriterReleased(lock[BoosterMutex])]
      /\ DOMAIN lock = Locks
  BY DEF BetweenLocks, LockTypes, StageInv, Goto
<1>2. /\ lock'[BoosterMutex] = WriterReleased(lock[BoosterMutex])
      /\ \A f \in FastConfigs : lock'[f] = lock[f]
  BY <1>1, BoosterAssumption DEF Locks
<1>3. /\ pc'[t] = "write lock again" /\ DOMAIN pc' = Threads
      /\ \A u \in Threads \ {t} : pc'[u] = pc[u] /\ call'[u] = call[u]
  BY <1>1 DEF StageInv
<1>4. t \in Writers /\ t \notin Writers' /\ t \notin Readers' /\ pc[t] \notin Waiting
  BY <1>1, <1>3 DEF Writers, Readers, Ranging, Altering, Waiting
<1>5. \A f \in FastConfigs : Owners(f)' = Owners(f)
  BY <1>1, <1>3 DEF Owners
<1>6. LocksInv'
  BY <1>2, <1>3, <1>4, <1>5, WriterLeaves
<1>7. StageInv'
  BY <1>1, <1>3 DEF StageInv, Waiting, Ranging
<1> QED BY <1>6, <1>7

LEMMA NoCallIsCall == IsCall(NoCall) /\ NoCall.op = "save"
<1>1. (CHOOSE f \in FastConfigs : TRUE) \in FastConfigs
  BY BoosterAssumption
<1> QED BY <1>1 DEF NoCall, IsCall, ReadCalls, Types

\* What every call does when it returns.
LEMMA Returns ==
  ASSUME StageInv, NEW t \in Threads, Return(t)
  PROVE  /\ pc[t] = "return" /\ pc'[t] = "idle" /\ call'[t] = NoCall
         /\ \A u \in Threads \ {t} : pc'[u] = pc[u] /\ call'[u] = call[u]
         /\ t \notin Writers' /\ t \notin Readers' /\ \A f \in FastConfigs : t \notin Owners(f)'
         /\ StageInv'
<1>1. /\ pc[t] = "return" /\ pc' = [pc EXCEPT ![t] = "idle"]
      /\ call' = [call EXCEPT ![t] = NoCall]
  BY DEF Return, Goto
<1>2. /\ pc'[t] = "idle" /\ call'[t] = NoCall /\ DOMAIN pc' = Threads /\ DOMAIN call' = Threads
      /\ \A u \in Threads \ {t} : pc'[u] = pc[u] /\ call'[u] = call[u]
  BY <1>1 DEF StageInv
<1>3. t \notin Writers' /\ t \notin Readers' /\ \A f \in FastConfigs : t \notin Owners(f)'
  <2>1. t \notin Writers'
    BY <1>2 DEF Writers, Altering
  <2>2. t \notin Readers'
    BY <1>2 DEF Readers, Ranging
  <2> QED BY <1>2, <2>1, <2>2 DEF Owners
<1>4. StageInv'
  BY <1>2, NoCallIsCall, ZenonT(60) DEF StageInv, Waiting, Ranging
<1> QED BY <1>1, <1>2, <1>3, <1>4

\* A reader gives the booster's lock back; the last one wakes everybody.
LEMMA ReaderLeaves ==
  ASSUME LocksInv, LockTypes, NEW t \in Readers,
         lock'[BoosterMutex] = ReaderReleased(lock[BoosterMutex]),
         \A u \in Threads \ {t} : pc'[u] = pc[u] /\ call'[u] = call[u],
         t \notin Writers' /\ t \notin Readers', pc[t] \notin Waiting
  PROVE  /\ LockInv'
         /\ \A u \in lock'[BoosterMutex].waiting :
              \/ pc'[u] \in {"write lock", "write lock again"} /\ (Writers' # {} \/ Readers' # {})
              \/ pc'[u] = "read lock" /\ Writers' # {}
<1>1. lock[BoosterMutex] \in LockState(Threads) /\ t \in Threads
  BY DEF LockTypes, Locks, Readers
<1>2. Writers = {} /\ IsFiniteSet(Readers) /\ lock[BoosterMutex].readers = Cardinality(Readers)
      /\ lock[BoosterMutex].writer = FALSE
  BY <1>1 DEF LocksInv, LockInv, LockState
<1>3. Writers' = {} /\ Readers' = Readers \ {t}
  BY <1>1, <1>2 DEF Writers, Readers
<1>4. IsFiniteSet(Readers') /\ Cardinality(Readers') = Cardinality(Readers) - 1
  BY <1>2, <1>3, FS_RemoveElement
<1>5. /\ lock'[BoosterMutex].readers = lock[BoosterMutex].readers - 1
      /\ lock'[BoosterMutex].writer = FALSE
      /\ lock'[BoosterMutex].waiting = IF lock[BoosterMutex].readers = 1 THEN {}
                                       ELSE lock[BoosterMutex].waiting
  BY <1>1, <1>2 DEF ReaderReleased, NotifyAll, LockState
<1>6. LockInv'
  BY <1>2, <1>3, <1>4, <1>5 DEF LockInv
<1>7. CASE lock[BoosterMutex].readers = 1
  BY <1>5, <1>6, <1>7
<1>8. CASE lock[BoosterMutex].readers # 1
  <2>1. Readers' # {}
    BY <1>1, <1>2, <1>4, <1>8, FS_EmptySet DEF LockState
  <2>2. \A u \in Threads : pc[u] \in Waiting => pc'[u] = pc[u] /\ call'[u] = call[u]
    OBVIOUS
  <2> QED BY <1>2, <1>5, <1>6, <1>8, <2>1, <2>2, BoosterSleep DEF LocksInv
<1> QED BY <1>7, <1>8

LEMMA ReturnKeeps ==
  ASSUME StageInv, LocksInv, LockTypes, NEW t \in Threads, Return(t)
  PROVE  StageInv' /\ LocksInv'
<1>1. /\ pc[t] = "return" /\ IsCall(call[t]) /\ pc'[t] = "idle"
      /\ \A u \in Threads \ {t} : pc'[u] = pc[u] /\ call'[u] = call[u]
  BY Returns DEF StageInv
<1>0. t \notin Writers' /\ t \notin Readers' /\ StageInv'
  BY Returns
<1>2. pc[t] \notin Waiting
  BY <1>1 DEF Waiting
<1>3. ASSUME NEW f \in FastConfigs, t \notin Owners(f) PROVE Owners(f)' = Owners(f)
  <2>1. t \notin Owners(f)'
    BY <1>1 DEF Owners
  <2> QED BY <1>1, <1>3, <2>1 DEF Owners
<1>4. CASE call[t].op \in Exclusive
  <2>1. /\ lock'[BoosterMutex] = WriterReleased(lock[BoosterMutex])
        /\ \A f \in FastConfigs : lock'[f] = lock[f]
    <3>1. call[t].op \notin {"predict", "fast"} /\ call[t].op \in Changes \cup {"single", "fast init"}
      BY <1>4 DEF Exclusive, Changes
    <3> QED BY <3>1, BoosterAssumption DEF Return, Locks
  <2>2. t \in Writers /\ \A f \in FastConfigs : t \notin Owners(f)
    BY <1>1, <1>4 DEF Writers, Owners, Exclusive, Changes
  <2> QED BY <1>0, <1>1, <1>2, <1>3, <2>1, <2>2, WriterLeaves
<1>5. CASE call[t].op = "save"
  <2>1. \A m \in Locks : lock'[m] = lock[m]
    BY <1>5 DEF Return, Changes
  <2>3. t \notin Writers /\ t \notin Readers /\ \A f \in FastConfigs : t \notin Owners(f)
    BY <1>1, <1>5 DEF Writers, Readers, Owners, Exclusive, Changes, Shared, Ranging, Altering
  <2>4. \A f \in FastConfigs : t \notin Owners(f)'
    BY <1>1 DEF Owners
  <2> QED BY <1>0, <1>1, <1>2, <2>1, <2>3, <2>4, Walks
<1>6. CASE call[t].op = "predict"
  <2>1. /\ lock'[BoosterMutex] = ReaderReleased(lock[BoosterMutex])
        /\ \A f \in FastConfigs : lock'[f] = lock[f]
    BY <1>6, BoosterAssumption DEF Return, Locks, Changes
  <2>2. t \in Readers /\ \A f \in FastConfigs : t \notin Owners(f)
    BY <1>1, <1>6 DEF Readers, Owners, Shared
  <2>3. \A f \in FastConfigs : Owners(f)' = Owners(f)
    BY <1>3, <2>2
  <2>4. \A f \in FastConfigs : HandleInv(f)'
    BY <2>1, <2>3 DEF LocksInv, HandleInv
  <2>5. \A f \in FastConfigs : \A u \in lock'[f].waiting :
          pc'[u] = "own lock" /\ call'[u].handle = f /\ Owners(f)' # {}
    BY <2>1, <2>3, <1>1, HandleSleep DEF LocksInv
  <2> QED BY <1>0, <1>1, <1>2, <2>1, <2>2, <2>4, <2>5, ReaderLeaves DEF LocksInv, SleepInv
<1>7. CASE call[t].op = "fast"
  <2>1. PICK h \in FastConfigs : call[t].handle = h
    BY <1>1 DEF IsCall
  <2>2. /\ lock'[BoosterMutex] = ReaderReleased(lock[BoosterMutex])
        /\ lock'[h] = WriterReleased(lock[h])
        /\ \A f \in FastConfigs \ {h} : lock'[f] = lock[f]
    BY <1>7, <2>1, BoosterAssumption DEF Return, Locks, Changes
  <2>3. t \in Readers /\ t \in Owners(h) /\ \A f \in FastConfigs \ {h} : t \notin Owners(f)
    BY <1>1, <1>7, <2>1 DEF Readers, Owners, Shared
  <2>4. Owners(h)' = {}
    <3>1. Owners(h) = {t}
      BY <2>3 DEF LocksInv, HandleInv
    <3>2. t \notin Owners(h)'
      BY <1>1 DEF Owners
    <3>3. ASSUME NEW u \in Threads, u # t PROVE u \notin Owners(h)'
      BY <3>1, <3>3, <1>1 DEF Owners
    <3> QED BY <3>2, <3>3 DEF Owners
  <2>5. /\ lock'[h].writer = FALSE /\ lock'[h].readers = 0 /\ lock'[h].waiting = {}
    <3>1. lock[h] \in LockState(Threads) /\ lock[h].readers = 0
      BY DEF LockTypes, Locks, LocksInv, HandleInv
    <3> QED BY <2>2, <3>1 DEF WriterReleased, NotifyAll, LockState
  <2>6. ASSUME NEW f \in FastConfigs
        PROVE  /\ HandleInv(f)'
               /\ \A u \in lock'[f].waiting :
                    pc'[u] = "own lock" /\ call'[u].handle = f /\ Owners(f)' # {}
    <3>1. CASE f = h
      BY <3>1, <2>4, <2>5 DEF HandleInv
    <3>2. CASE f # h
      <4>1. lock'[f] = lock[f] /\ Owners(f)' = Owners(f)
        BY <3>2, <2>2, <2>3, <1>3
      <4>2. HandleInv(f)'
        BY <4>1 DEF LocksInv, HandleInv
      <4> QED BY <4>1, <4>2, <1>1, HandleSleep DEF LocksInv
    <3> QED BY <3>1, <3>2
  <2> QED BY <1>0, <1>1, <1>2, <2>2, <2>3, <2>6, ReaderLeaves DEF LocksInv, SleepInv
<1> QED BY <1>1, <1>4, <1>5, <1>6, <1>7 DEF IsCall, ReadCalls, Exclusive

\* A call begins without a lock.
LEMMA BeginKeeps ==
  ASSUME StageInv, LocksInv, LockTypes, setup \in Setups, NEW t \in Threads, Begin(t)
  PROVE  StageInv' /\ LocksInv'
<1>1. PICK c \in setup.calls[t] : call' = [call EXCEPT ![t] = c] /\ Goto(t, FirstStep(c))
  BY DEF Begin
<1>2. IsCall(c) /\ pc[t] = "idle" /\ lock' = lock
  BY BoosterAssumption DEF Begin
<1>3. /\ pc'[t] = FirstStep(c) /\ call'[t] = c /\ DOMAIN pc' = Threads /\ DOMAIN call' = Threads
      /\ \A u \in Threads \ {t} : pc'[u] = pc[u] /\ call'[u] = call[u]
  BY <1>1 DEF StageInv, Goto
<1>4. \/ pc'[t] = "read lock" /\ c.op = "predict"
      \/ pc'[t] = "own lock" /\ c.op = "fast"
      \/ pc'[t] = "count" /\ c.op = "save"
      \/ pc'[t] = "write lock" /\ c.op \in Exclusive
  BY <1>2, <1>3 DEF FirstStep, IsCall, ReadCalls, Exclusive
<1>5. StageInv'
  BY <1>2, <1>3, <1>4, ZenonT(30) DEF StageInv, Waiting, Ranging, Shared
<1>6. /\ t \notin Writers /\ t \notin Readers /\ \A f \in FastConfigs : t \notin Owners(f)
      /\ pc[t] \notin Waiting
  BY <1>2 DEF Writers, Readers, Owners, Ranging, Altering, Waiting
<1>7. t \notin Writers' /\ t \notin Readers'
  BY <1>4 DEF Writers, Readers, Ranging, Altering
<1>8. \A f \in FastConfigs : t \notin Owners(f)'
  BY <1>3, <1>4 DEF Owners
<1> QED BY <1>2, <1>3, <1>5, <1>6, <1>7, <1>8, Walks

\* A step of a call that holds what it needs from its start to its end.
LEMMA StageKeeps ==
  ASSUME StageInv, LocksInv, LockTypes, NEW t \in Threads, NEW from, NEW to,
         pc[t] = from, Goto(t, to), call' = call, lock' = lock,
         \/ from = "locked" /\ to = "return"
         \/ from = "locked" /\ to = "between" /\ call[t].op = "single"
         \/ from = "locked" /\ to = "swap" /\ call[t].op = "shuffle"
         \/ from = "locked" /\ to = "refill" /\ call[t].op = "merge"
         \/ from = "locked" /\ to = "refit" /\ call[t].op = "refit"
         \/ from = "swap" /\ to = "refill"
         \/ from \in {"refill", "refit"} /\ to = "return"
         \/ from \in Ranging /\ to \in Ranging
         \/ from = "depths" /\ to = "row"
         \/ from = "row" /\ to = "return"
         \/ from = "count" /\ to = "print"
         \/ from = "print" /\ to = "return"
  PROVE  StageInv' /\ LocksInv'
<1>1. /\ pc'[t] = to /\ DOMAIN pc' = Threads
      /\ \A u \in Threads \ {t} : pc'[u] = pc[u] /\ call'[u] = call[u]
  BY DEF StageInv, Goto
<1>2. /\ IsCall(call[t])
      /\ from = "locked" => call[t].op \in Exclusive
      /\ from \in Ranging => call[t].op = "predict"
      /\ from = "row" => call[t].op \in Shared \cup {"single"}
      /\ from \in {"count", "print"} => call[t].op = "save"
      /\ from = "swap" => call[t].op = "shuffle"
      /\ from = "refill" => call[t].op \in {"merge", "shuffle"}
      /\ from = "refit" => call[t].op = "refit"
  BY DEF StageInv
<1>3. StageInv'
  <2> DEFINE Stage(p, c) ==
        /\ IsCall(c)
        /\ p \in Waiting \cup Ranging \cup Altering
                  \cup {"idle", "locked", "between", "row", "count", "print", "return"}
        /\ p \in {"write lock", "locked"} => c.op \in Exclusive
        /\ p \in {"between", "write lock again"} => c.op = "single"
        /\ p = "own lock" => c.op = "fast"
        /\ p = "read lock" => c.op \in Shared
        /\ p \in Ranging => c.op = "predict"
        /\ p = "row" => c.op \in Shared \cup {"single"}
        /\ p \in {"count", "print"} => c.op = "save"
        /\ p = "swap" => c.op = "shuffle"
        /\ p = "refill" => c.op \in {"merge", "shuffle"}
        /\ p = "refit" => c.op = "refit"
  <2>1. Stage(to, call[t])
    BY <1>2 DEF Ranging, Waiting, Altering, Shared
  <2>2. \A u \in Threads : Stage(pc[u], call[u])
    BY Zenon DEF StageInv
  <2>3. \A u \in Threads : Stage(pc'[u], call'[u])
    <3> HIDE DEF Stage
    <3> QED BY <1>1, <2>1, <2>2
  <2> QED BY <1>1, <2>3, Zenon DEF StageInv
<1>4. pc[t] \notin Waiting
  BY DEF Waiting, Ranging
<1>5. t \in Writers' <=> t \in Writers
  BY <1>1, <1>2 DEF Writers, Ranging, Altering, Exclusive, Changes
<1>6. t \in Readers' <=> t \in Readers
  BY <1>1, <1>2 DEF Readers, Ranging, Exclusive, Changes, Shared
<1>7. ASSUME NEW f \in FastConfigs PROVE t \in Owners(f)' <=> t \in Owners(f)
  BY <1>1, <1>2 DEF Owners, Ranging, Exclusive, Changes
<1> QED BY <1>1, <1>3, <1>4, <1>5, <1>6, <1>7, Walks

\* A turn of a loop.
LEMMA StageStays ==
  ASSUME StageInv, LocksInv, UNCHANGED <<lock, pc, call>>
  PROVE  StageInv' /\ LocksInv'
<1>1. Writers' = Writers /\ Readers' = Readers /\ \A f \in FastConfigs : Owners(f)' = Owners(f)
  BY DEF Writers, Readers, Owners
<1>2. LockInv' /\ \A f \in FastConfigs : HandleInv(f)'
  BY <1>1 DEF LocksInv, LockInv, HandleInv
<1>3. SleepInv'
  BY <1>1 DEF LocksInv, SleepInv
<1>4. StageInv'
  BY DEF StageInv
<1> QED BY <1>2, <1>3, <1>4 DEF LocksInv

\* Stages and locks, in every step of a thread.
LEMMA LocksKeep ==
  ASSUME StageInv, LocksInv, LockTypes, setup \in Setups, NEW t \in Threads, Begin(t) \/ Continue(t)
  PROVE  StageInv' /\ LocksInv'
<1> USE DEF Ranging
<1>1. CASE Begin(t)
  BY <1>1, BeginKeeps
<1>2. CASE TakeForWriting(t, "write lock", BoosterMutex, "locked")
  BY <1>2, LooksForWriting
<1>3. CASE TakeForWriting(t, "write lock again", BoosterMutex, "row")
  BY <1>3, LooksForWriting
<1>4. CASE TakeForWriting(t, "own lock", call[t].handle, "read lock")
  BY <1>4, LooksAtHandle
<1>5. CASE TakeForReading(t)
  BY <1>5, LooksForReading
<1>6. CASE Change(t)
  BY <1>6, StageKeeps DEF Change, Changed
<1>18. CASE MergeFrom(t)
  BY <1>18, StageKeeps DEF MergeFrom
<1>19. CASE ShuffleModels(t)
  BY <1>19, StageKeeps DEF ShuffleModels
<1>20. CASE Swapped(t)
  BY <1>20, StageKeeps DEF Swapped
<1>21. CASE Refilled(t)
  BY <1>21, StageKeeps DEF Refilled, Changed
<1>22. CASE RefitTree(t)
  BY <1>22, StageKeeps DEF RefitTree
<1>23. CASE Refitted(t)
  BY <1>23, StageKeeps DEF Refitted, Changed
<1>24. CASE SwapIndices(t) \/ Refill(t) \/ RefitOne(t)
  BY <1>24, StageStays DEF SwapIndices, Refill, RefitOne
<1>7. CASE SetSingleRowPredictorInner(t)
  BY <1>7, StageKeeps DEF SetSingleRowPredictorInner
<1>8. CASE BetweenLocks(t)
  BY <1>8, BetweenLocksKeeps
<1>9. CASE InitSingleRowPredictor(t)
  BY <1>9, StageKeeps DEF InitSingleRowPredictor, Changed
<1>10. CASE InitPredictTotal(t)
  BY <1>10, StageKeeps DEF InitPredictTotal
<1>11. CASE InitPredictNum(t)
  BY <1>11, StageKeeps DEF InitPredictNum
<1>12. CASE InitPredictStart(t)
  BY <1>12, StageKeeps DEF InitPredictStart
<1>13. CASE InitPredictDepths(t)
  BY <1>13, StageKeeps DEF InitPredictDepths
<1>14. CASE PredictRow(t)
  BY <1>14, StageKeeps DEF PredictRow
<1>15. CASE SaveCount(t)
  BY <1>15, StageKeeps DEF SaveCount
<1>16. CASE SavePrint(t)
  <2>1. pc[t] = "print" /\ UNCHANGED <<call, lock>> /\ (Goto(t, "return") \/ UNCHANGED pc)
    BY <1>16 DEF SavePrint
  <2> QED BY <2>1, StageKeeps, StageStays
<1>25. CASE SaveJoin(t)
  BY <1>25, StageKeeps DEF SaveJoin
<1>17. CASE Return(t)
  BY <1>17, ReturnKeeps
<1> QED BY <1>1, <1>2, <1>3, <1>4, <1>5, <1>6, <1>7, <1>8, <1>9, <1>10, <1>11, <1>12, <1>13,
           <1>14, <1>15, <1>16, <1>17, <1>18, <1>19, <1>20, <1>21, <1>22, <1>23, <1>24, <1>25
        DEF Continue

-----------------------------------------------------------------------------
(* Types *)

\* The range that a caller asks for lies within the model.
LEMMA RangeTypes ==
  ASSUME NEW ms \in Seq(Tree), NEW c, IsCall(c)
  PROVE  First(ms, c) \in 0..Len(ms) /\ Count(ms, c) \in 0..(Len(ms) - First(ms, c))
<1>1. Len(ms) \in Nat /\ c.start \in Int /\ c.num \in Int
  BY DEF IsCall
<1>2. First(ms, c) \in 0..Len(ms)
  BY <1>1 DEF First, Lesser, Greater
<1> QED BY <1>1, <1>2 DEF Count, Lesser

LEMMA TreeTypes ==
  ASSUME NEW tr \in Tree, NEW n \in Nat
  PROVE  [tr EXCEPT !.id = n] \in Tree /\ [tr EXCEPT !.depth = TRUE] \in Tree
BY DEF Tree

LEMMA FrontTypes ==
  ASSUME NEW S, NEW ms \in Seq(S), Len(ms) >= 1
  PROVE  /\ SubSeq(ms, 1, Len(ms) - 1) \in Seq(S)
         /\ Len(SubSeq(ms, 1, Len(ms) - 1)) = Len(ms) - 1
         /\ \A i \in 1..(Len(ms) - 1) : SubSeq(ms, 1, Len(ms) - 1)[i] = ms[i]
<1> DEFINE n == Len(ms) - 1
           new == SubSeq(ms, 1, n)
<1>1. Len(ms) \in Nat /\ n \in Nat /\ n <= Len(ms)
  OBVIOUS
<1> HIDE DEF n
<1>2. new = [i \in 1..n |-> ms[i]]
  BY <1>1
<1>3. \A i \in 1..n : ms[i] \in S
  BY <1>1
<1>4. new \in Seq(S) /\ Len(new) = n /\ \A i \in 1..n : new[i] = ms[i]
  BY <1>1, <1>2, <1>3
<1> QED BY <1>4 DEF n

\* A tree gets a new number; two trees change places.
Renumbered(ms, i, n) == [ms EXCEPT ![i].id = n]
Exchanged(ms, i, j) == [ms EXCEPT ![i] = ms[j], ![j] = ms[i]]

LEMMA RenumberedTypes ==
  ASSUME NEW ms \in Seq(Tree), NEW i \in 1..Len(ms), NEW n \in Nat
  PROVE  /\ Renumbered(ms, i, n) \in Seq(Tree) /\ Len(Renumbered(ms, i, n)) = Len(ms)
         /\ Deeper(ms, Renumbered(ms, i, n))
<1> DEFINE ns == Renumbered(ms, i, n)
           new == [ms[i] EXCEPT !.id = n]
<1>1. ms[i] \in Tree /\ DOMAIN ms = 1..Len(ms)
  OBVIOUS
<1>2. new \in Tree /\ new.depth = ms[i].depth
  BY <1>1, TreeTypes DEF Tree
<1>3. ns = [ms EXCEPT ![i] = new]
  BY DEF Renumbered
<1> HIDE DEF new, ns
<1>4. ns \in Seq(Tree) /\ Len(ns) = Len(ms) /\ DOMAIN ns = DOMAIN ms
  BY <1>1, <1>2, <1>3, ExceptSeq
<1>5. \A k \in DOMAIN ms : ns[k].depth = ms[k].depth
  BY <1>1, <1>2, <1>3
<1>6. Deeper(ms, ns)
  BY <1>4, <1>5 DEF Deeper
<1> QED BY <1>4, <1>6 DEF ns

\* Who holds the booster's lock and is in no change finds the model whole.
LEMMA Settled ==
  ASSUME LockInv, NEW t \in Writers \cup Readers, pc[t] \notin Altering
  PROVE  Changing = {} /\ Model = models
<1>1. ASSUME NEW u \in Changing PROVE FALSE
  <2>1. u \in Writers /\ u # t
    BY <1>1 DEF Changing, Writers, Altering
  <2> QED BY <2>1 DEF LockInv
<1> QED BY <1>1 DEF Model

\* Who is in a change is alone, and the others wait for the end of it.
LEMMA ChangesAlone ==
  ASSUME LockInv, NEW t \in Changing
  PROVE  Changing = {t} /\ Model = original /\ t \in Writers /\ Readers = {}
<1>1. \A u \in Changing : u \in Writers
  BY DEF Changing, Writers, Altering
<1>2. Changing = {t} /\ t \in Writers /\ Readers = {}
  BY <1>1 DEF LockInv
<1> QED BY <1>2 DEF Model

\* What becomes of the model when one thread takes a step.
LEMMA StaysWhole ==
  ASSUME NEW t \in Threads, Changing \subseteq {t}, pc'[t] \notin Altering,
         \A u \in Threads \ {t} : pc'[u] = pc[u]
  PROVE  Changing' = {} /\ Model' = models' /\ FillInv'
<1>1. Changing' = {}
  BY DEF Changing, Altering
<1> QED BY <1>1 DEF Model, FillInv

LEMMA OutsideKeeps ==
  ASSUME FillInv, NEW t \in Threads, pc[t] \notin Altering, pc'[t] \notin Altering,
         \A u \in Threads \ {t} : pc'[u] = pc[u] /\ call'[u] = call[u],
         UNCHANGED <<models, original, coming>>
  PROVE  Changing' = Changing /\ Model' = Model /\ FillInv'
<1>1. Changing' = Changing /\ \A u \in Changing : u \in Threads \ {t}
  BY DEF Changing, Altering
<1>2. Model' = Model
  BY <1>1 DEF Model
<1>3. FillInv'
  BY <1>1 DEF FillInv
<1> QED BY <1>1, <1>2, <1>3

LEMMA StaysApart ==
  ASSUME NEW t \in Threads, Changing \subseteq {t}, pc'[t] \in Altering,
         \A u \in Threads \ {t} : pc'[u] = pc[u]
  PROVE  Changing' = {t} /\ Model' = original'
<1>1. Changing' = {t}
  BY DEF Changing, Altering
<1> QED BY <1>1 DEF Model

\* Each change of one tree leaves a model, and no fewer rounds than were trained.
LEMMA ChangeTypes ==
  ASSUME ModelTypes, StageInv, LockInv, NEW t \in Threads, Change(t)
  PROVE  ModelTypes' /\ FillInv' /\ Model = models /\ Model' = models'
<1>1. /\ pc[t] = "locked" /\ pc'[t] = "return" /\ \A u \in Threads \ {t} : pc'[u] = pc[u]
      /\ UNCHANGED <<original, coming, range, models_initialized, inner, fast>>
      /\ Train \/ Rollback \/ SetLeafValue
  BY DEF Change, Changed, Goto, StageInv
<1>2. Changing = {} /\ Model = models
  <2>1. t \in Writers /\ pc[t] \notin Altering
    BY <1>1 DEF Writers, Altering
  <2> QED BY <2>1, Settled
<1>3. FillInv' /\ Model' = models'
  BY <1>1, <1>2, StaysWhole DEF Altering
<1>4. models \in Seq(Tree) /\ Len(models) \in Nat /\ iter \in 0..Len(models) /\ made \in Nat
      /\ NewTree(made + 1) \in Tree
  <2>1. models \in Seq(Tree) /\ Len(models) \in Nat /\ iter \in 0..Len(models) /\ made \in Nat
    BY <1>2 DEF ModelTypes
  <2>2. made + 1 \in Nat
    BY <2>1
  <2> QED BY <2>1, <2>2 DEF NewTree, Tree
<1>5. models' \in Seq(Tree) /\ iter' \in 0..Len(models') /\ made' \in Nat
  <2>1. CASE Train
    BY <1>4, <2>1 DEF Train, Becomes
  <2>2. CASE Rollback
    <3>1. CASE CanRollback
      <4>1. models # <<>> /\ models' = SubSeq(models, 1, Len(models) - 1) /\ iter' = iter - 1
        BY <1>4, <2>2, <3>1 DEF Rollback, CanRollback, Becomes, Front
      <4>2. models' \in Seq(Tree) /\ Len(models') = Len(models) - 1
        <5>1. Len(models) >= 1
          BY <1>4, <3>1 DEF CanRollback
        <5> QED BY <1>4, <4>1, <5>1, FrontTypes
      <4> QED BY <1>4, <2>2, <3>1, <4>1, <4>2 DEF Rollback, CanRollback
    <3>2. CASE ~CanRollback
      BY <1>4, <2>2, <3>2 DEF Rollback
    <3> QED BY <3>1, <3>2
  <2>3. CASE SetLeafValue
    <3>1. CASE models = <<>>
      BY <1>4, <2>3, <3>1 DEF SetLeafValue
    <3>2. CASE models # <<>>
      <4>1. PICK i \in DOMAIN models : models' = [models EXCEPT ![i].id = made + 1]
        BY <2>3, <3>2 DEF SetLeafValue, Becomes
      <4>2. i \in 1..Len(models) /\ made + 1 \in Nat
        BY <1>4
      <4>4. models' = Renumbered(models, i, made + 1)
        BY <4>1 DEF Renumbered
      <4>3. models' \in Seq(Tree) /\ Len(models') = Len(models)
        BY <1>4, <4>2, <4>4, RenumberedTypes
      <4> QED BY <1>4, <2>3, <3>2, <4>2, <4>3 DEF SetLeafValue
    <3> QED BY <3>1, <3>2
  <2> QED BY <1>1, <2>1, <2>2, <2>3
<1> QED BY <1>1, <1>2, <1>3, <1>5 DEF ModelTypes

\* A change of all trees starts from the model there is, and ends with one.
LEMMA DeeperSelf == ASSUME NEW ms PROVE Deeper(ms, ms)
BY DEF Deeper

LEMMA StartTypes ==
  ASSUME ModelTypes, StageInv, LockInv, NEW t \in Threads,
         MergeFrom(t) \/ ShuffleModels(t) \/ RefitTree(t)
  PROVE  ModelTypes' /\ FillInv' /\ Model' = Model
<1>1. /\ pc[t] = "locked" /\ pc'[t] \in Altering /\ original' = models /\ call' = call
      /\ \A u \in Threads \ {t} : pc'[u] = pc[u]
      /\ UNCHANGED <<iter, range, models_initialized, inner, fast>>
  BY DEF MergeFrom, ShuffleModels, RefitTree, MoveAway, Goto, StageInv, Altering
<1>2. Changing = {} /\ Model = models
  <2>1. t \in Writers /\ pc[t] \notin Altering
    BY <1>1 DEF Writers, Altering
  <2> QED BY <2>1, Settled
<1>3. Changing' = {t} /\ Model' = models
  BY <1>1, <1>2, StaysApart
<1>4. models \in Seq(Tree) /\ Len(models) \in Nat /\ made \in Nat /\ coming \in Seq(Tree)
  <2>1. models \in Seq(Tree) /\ made \in Nat /\ coming \in Seq(Tree)
    BY DEF ModelTypes
  <2> QED BY <2>1
<1>5. CASE MergeFrom(t)
  <2> DEFINE one == <<NewTree(made + 1)>>
  <2>1. /\ models' = <<>> /\ coming' = one \o models /\ made' = made + 1 /\ pc'[t] = "refill"
        /\ call[t].op = "merge"
    BY <1>5 DEF MergeFrom, MoveAway, Goto, StageInv
  <2>2. one \in Seq(Tree) /\ Len(one) = 1
    <3>1. made + 1 \in Nat
      BY <1>4
    <3> QED BY <3>1 DEF NewTree, Tree
  <2> HIDE DEF one
  <2>3. coming' \in Seq(Tree) /\ Len(coming') = 1 + Len(models)
    <3>1. one \o models \in Seq(Tree) /\ Len(one \o models) = Len(one) + Len(models)
      BY <1>4, <2>2, ConcatProperties
    <3> QED BY <2>1, <2>2, <3>1
  <2>4. FillInv'
    BY <1>1, <1>3, <1>4, <2>1, <2>3 DEF FillInv
  <2> QED BY <1>1, <1>2, <1>3, <1>4, <2>1, <2>3, <2>4 DEF ModelTypes
<1>6. CASE ShuffleModels(t)
  <2>1. models' = <<>> /\ coming' = models /\ made' = made /\ pc'[t] = "swap"
    BY <1>6 DEF ShuffleModels, MoveAway, Goto, StageInv
  <2>2. FillInv'
    BY <1>1, <1>3, <1>4, <2>1, DeeperSelf DEF FillInv
  <2> QED BY <1>1, <1>2, <1>3, <1>4, <2>1, <2>2 DEF ModelTypes
<1>7. CASE RefitTree(t)
  <2>1. models' = models /\ coming' = coming /\ made' = made /\ pc'[t] = "refit"
    BY <1>7 DEF RefitTree, Goto, StageInv
  <2>2. FillInv'
    BY <1>1, <1>3, <1>4, <2>1, DeeperSelf DEF FillInv
  <2> QED BY <1>1, <1>2, <1>3, <1>4, <2>1, <2>2 DEF ModelTypes
<1> QED BY <1>5, <1>6, <1>7

LEMMA ExchangedTypes ==
  ASSUME NEW ms \in Seq(Tree), NEW i \in 1..Len(ms), NEW j \in 1..Len(ms), NEW os
  PROVE  /\ Exchanged(ms, i, j) \in Seq(Tree) /\ Len(Exchanged(ms, i, j)) = Len(ms)
         /\ Deeper(os, ms) => Deeper(os, Exchanged(ms, i, j))
<1> DEFINE ns == Exchanged(ms, i, j)
<1>0. ns = [ms EXCEPT ![i] = ms[j], ![j] = ms[i]]
  BY DEF Exchanged
<1> HIDE DEF ns
<1>1. Len(ms) \in Nat /\ DOMAIN ms = 1..Len(ms) /\ \A k \in 1..Len(ms) : ms[k] \in Tree
  OBVIOUS
<1>2. DOMAIN ns = 1..Len(ms) /\ \A k \in 1..Len(ms) : \E l \in 1..Len(ms) : ns[k] = ms[l]
  BY <1>0, <1>1
<1>3. ns = [k \in 1..Len(ms) |-> ns[k]]
  BY <1>0, <1>1
<1>4. \A k \in 1..Len(ms) : ns[k] \in Tree
  BY <1>1, <1>2
<1>5. ns \in Seq(Tree) /\ Len(ns) = Len(ms)
  <2> DEFINE n == Len(ms)
  <2>1. n \in Nat /\ ns = [k \in 1..n |-> ns[k]] /\ \A k \in 1..n : ns[k] \in Tree
    BY <1>1, <1>3, <1>4
  <2> HIDE DEF n
  <2>2. ns \in Seq(Tree) /\ Len(ns) = n
    BY <2>1
  <2> QED BY <2>2 DEF n
<1>6. Deeper(os, ms) => Deeper(os, ns)
  BY <1>1, <1>2 DEF Deeper
<1> QED BY <1>5, <1>6 DEF ns

LEMMA LoopTypes ==
  ASSUME ModelTypes, FillInv, Counters, StageInv, LockInv, NEW t \in Threads,
         SwapIndices(t) \/ Swapped(t) \/ Refill(t) \/ RefitOne(t)
  PROVE  ModelTypes' /\ FillInv' /\ Model' = Model
<1>1. /\ pc[t] \in Altering /\ pc'[t] \in Altering /\ original' = original /\ call' = call
      /\ \A u \in Threads \ {t} : pc'[u] = pc[u]
      /\ UNCHANGED <<iter, range, models_initialized, inner, fast>>
  BY DEF SwapIndices, Swapped, Refill, RefitOne, Goto, StageInv, Altering, work, model, booster
<1>2. t \in Changing
  BY <1>1 DEF Changing, Altering
<1>3. Changing = {t} /\ Model = original
  BY <1>2, ChangesAlone
<1>4. Changing' = {t} /\ Model' = Model
  BY <1>1, <1>3, StaysApart
<1>5. /\ models \in Seq(Tree) /\ coming \in Seq(Tree) /\ original \in Seq(Tree)
      /\ Len(models) \in Nat /\ Len(coming) \in Nat /\ made \in Nat /\ local[t] \in Nat
      /\ DOMAIN models = 1..Len(models) /\ DOMAIN coming = 1..Len(coming)
  <2>1. models \in Seq(Tree) /\ coming \in Seq(Tree) /\ original \in Seq(Tree) /\ made \in Nat
    BY DEF ModelTypes
  <2>2. local[t] \in Nat
    BY DEF Counters
  <2> QED BY <2>1, <2>2
<1>6. /\ pc[t] = "swap" => Len(models) = 0
      /\ pc[t] \in {"swap", "refill"} =>
           /\ Len(models) <= Len(coming) /\ Len(original) <= Len(coming)
           /\ \A i \in DOMAIN models : models[i] = coming[i]
           /\ call[t].op = "shuffle" => Len(coming) = Len(original) /\ Deeper(original, coming)
      /\ pc[t] = "refit" => Len(models) = Len(original) /\ Deeper(original, models)
  BY <1>2 DEF FillInv
<1>7. CASE SwapIndices(t)
  <2>1. PICK j \in (local[t] + 2)..End_iter(call[t]) :
          coming' = [coming EXCEPT ![local[t] + 1] = coming[j], ![j] = coming[local[t] + 1]]
    BY <1>7 DEF SwapIndices
  <2>2. pc[t] = "swap" /\ pc' = pc /\ models' = models /\ made' = made
    BY <1>7 DEF SwapIndices
  <2>8. local[t] < End_iter(call[t]) - 1
    BY <1>7 DEF SwapIndices
  <2>3. End_iter(call[t]) \in Int /\ End_iter(call[t]) <= Len(coming)
    <3>1. call[t].num \in Int
      BY DEF StageInv, IsCall
    <3> QED BY <3>1, <1>5 DEF End_iter, Lesser
  <2>4. j \in 1..Len(coming) /\ local[t] + 1 \in 1..Len(coming)
    BY <1>5, <2>3, <2>8
  <2>7. coming' = Exchanged(coming, local[t] + 1, j)
    BY <2>1 DEF Exchanged
  <2>5. /\ coming' \in Seq(Tree) /\ Len(coming') = Len(coming)
        /\ Deeper(original, coming) => Deeper(original, coming')
    BY <1>5, <2>4, <2>7, ExchangedTypes
  <2>6. FillInv'
    <3>1. DOMAIN models = {}
      BY <1>5, <1>6, <2>2
    <3>2. Len(models') = 0 /\ DOMAIN models' = {}
      BY <1>6, <2>2, <3>1
    <3>3. Len(models') <= Len(coming') /\ Len(original') <= Len(coming')
      BY <1>1, <1>5, <1>6, <2>2, <2>5
    <3>4. call'[t].op = "shuffle" => Len(coming') = Len(original')
      BY <1>1, <1>6, <2>2, <2>5
    <3>5. call'[t].op = "shuffle" => Deeper(original', coming')
      BY <1>1, <1>6, <2>2, <2>5
    <3> QED BY <1>4, <2>2, <3>2, <3>3, <3>4, <3>5 DEF FillInv
  <2> QED BY <1>1, <1>4, <1>5, <2>2, <2>5, <2>6 DEF ModelTypes
<1>8. CASE Swapped(t)
  <2>1. pc[t] = "swap" /\ pc'[t] = "refill" /\ UNCHANGED <<models, coming, made>>
    BY <1>8 DEF Swapped, Goto, StageInv, booster, model, work
  <2>2. FillInv'
    BY <1>1, <1>4, <1>6, <2>1 DEF FillInv
  <2> QED BY <1>1, <1>4, <1>5, <2>1, <2>2 DEF ModelTypes
<1>9. CASE Refill(t)
  <2>1. /\ pc[t] = "refill" /\ pc' = pc /\ coming' = coming /\ made' = made
        /\ Len(models) < Len(coming) /\ models' = Append(models, coming[Len(models) + 1])
    BY <1>9 DEF Refill, work
  <2>2. coming[Len(models) + 1] \in Tree
    BY <1>5, <2>1
  <2>3. /\ models' \in Seq(Tree) /\ Len(models') = Len(models) + 1
        /\ DOMAIN models' = 1..(Len(models) + 1)
        /\ \A i \in 1..Len(models) : models'[i] = models[i]
        /\ models'[Len(models) + 1] = coming[Len(models) + 1]
    BY <1>5, <2>1, <2>2, AppendProperties
  <2>4. \A i \in DOMAIN models' : models'[i] = coming[i]
    BY <1>5, <1>6, <2>1, <2>3
  <2>5. FillInv'
    BY <1>1, <1>4, <1>5, <1>6, <2>1, <2>3, <2>4 DEF FillInv
  <2> QED BY <1>1, <1>4, <1>5, <2>1, <2>3, <2>5 DEF ModelTypes
<1>10. CASE RefitOne(t)
  <2>1. /\ pc[t] = "refit" /\ pc' = pc /\ coming' = coming /\ made' = made + 1
        /\ local[t] < Len(models) /\ models' = [models EXCEPT ![local[t] + 1].id = made + 1]
    BY <1>10 DEF RefitOne
  <2>2. local[t] + 1 \in 1..Len(models) /\ made + 1 \in Nat
    BY <1>5, <2>1
  <2>6. models' = Renumbered(models, local[t] + 1, made + 1)
    BY <2>1 DEF Renumbered
  <2>3. models' \in Seq(Tree) /\ Len(models') = Len(models) /\ Deeper(models, models')
    BY <1>5, <2>2, <2>6, RenumberedTypes
  <2>4. Deeper(original, models')
    BY <1>6, <2>1, <2>3 DEF Deeper
  <2>5. FillInv'
    BY <1>1, <1>4, <1>6, <2>1, <2>3, <2>4 DEF FillInv
  <2> QED BY <1>1, <1>4, <1>5, <2>1, <2>2, <2>3, <2>5 DEF ModelTypes
<1> QED BY <1>7, <1>8, <1>9, <1>10

\* The end of a change of all trees: those of a shuffle or a refit are as many.
LEMMA EndTypes ==
  ASSUME ModelTypes, FillInv, StageInv, LockInv, NEW t \in Threads, Refilled(t) \/ Refitted(t)
  PROVE  /\ ModelTypes' /\ FillInv' /\ Model' = models /\ models' = models
         /\ call[t].op # "merge" => Len(Model') = Len(Model) /\ Deeper(Model, Model')
<1>1. /\ pc[t] \in {"refill", "refit"} /\ pc'[t] = "return" /\ original' = <<>>
      /\ coming' = <<>> \/ coming' = coming
      /\ models' = models /\ \A u \in Threads \ {t} : pc'[u] = pc[u]
      /\ range' = range \/ range' = [range EXCEPT !.num = Len(models)]
      /\ UNCHANGED <<iter, made, models_initialized, inner, fast>>
  BY DEF Refilled, Refitted, Changed, Becomes, Goto, StageInv
<1>2. t \in Changing
  BY <1>1 DEF Changing
<1>3. Changing = {t} /\ Model = original
  BY <1>2, ChangesAlone
<1>4. FillInv' /\ Model' = models
  BY <1>1, <1>3, StaysWhole DEF Altering
<1>5. /\ models \in Seq(Tree) /\ Len(models) \in Nat /\ coming' \in Seq(Tree)
      /\ iter \in 0..Len(original) /\ Len(original) \in Nat /\ original' \in Seq(Tree)
  <2>1. models \in Seq(Tree) /\ original \in Seq(Tree) /\ coming \in Seq(Tree)
        /\ iter \in 0..Len(original)
    BY <1>3 DEF ModelTypes
  <2>2. <<>> \in Seq(Tree)
    OBVIOUS
  <2>3. coming' \in Seq(Tree) /\ original' \in Seq(Tree)
    BY <1>1, <2>1, <2>2
  <2> QED BY <2>1, <2>3
<1>6. /\ Len(original) <= Len(models)
      /\ call[t].op # "merge" => Len(models) = Len(original) /\ Deeper(original, models)
  <2>1. CASE Refilled(t)
    <3>1. /\ Len(models) = Len(coming) /\ Len(original) <= Len(coming)
          /\ \A i \in DOMAIN models : models[i] = coming[i]
          /\ call[t].op = "shuffle" => Len(coming) = Len(original) /\ Deeper(original, coming)
          /\ call[t].op \in {"merge", "shuffle"}
      BY <1>2, <2>1 DEF Refilled, FillInv, StageInv
    <3>2. DOMAIN coming = DOMAIN models
      <4>1. coming \in Seq(Tree)
        BY DEF ModelTypes
      <4> QED BY <1>5, <3>1, <4>1
    <3> QED BY <3>1, <3>2 DEF Deeper
  <2>2. CASE Refitted(t)
    <3>1. pc[t] = "refit"
      BY <2>2 DEF Refitted
    <3> QED BY <1>2, <1>5, <3>1 DEF FillInv
  <2> QED BY <2>1, <2>2
<1>7. range' \in [start : Nat, num : Nat]
  BY <1>1, <1>5 DEF ModelTypes
<1>8. ModelTypes'
  BY <1>1, <1>4, <1>5, <1>6, <1>7 DEF ModelTypes
<1> QED BY <1>1, <1>3, <1>4, <1>6, <1>8

\* Computing the depths of trees changes nothing else.
LEMMA DepthTypes ==
  ASSUME models \in Seq(Tree), NEW c
  PROVE  DepthsOf(c) \in Seq(Tree) /\ Len(DepthsOf(c)) = Len(models) /\ Ids(DepthsOf(c)) = Ids(models)
<1>1. Len(models) \in Nat /\ DOMAIN models = 1..Len(models)
      /\ \A i \in 1..Len(models) : models[i] \in Tree
  OBVIOUS
<1> DEFINE New(i) == [models[i] EXCEPT !.depth = TRUE]
           ms == [i \in 1..Len(models) |-> New(i)]
<1>2. \A i \in 1..Len(models) : New(i) \in Tree /\ New(i).id = models[i].id
  BY <1>1, TreeTypes DEF Tree
<1>3. [i \in DOMAIN models |-> [models[i] EXCEPT !.depth = TRUE]] = ms
  BY <1>1
<1>4. ms \in Seq(Tree) /\ Len(ms) = Len(models) /\ DOMAIN ms = DOMAIN models
  <2> HIDE DEF New
  <2> QED BY <1>1, <1>2
<1>5. Ids(ms) = Ids(models)
  <2>1. \A i \in 1..Len(models) : ms[i].id = models[i].id
    BY <1>2
  <2> HIDE DEF ms, New
  <2> QED BY <1>1, <1>4, <2>1 DEF Ids
<1> QED BY <1>3, <1>4, <1>5 DEF DepthsOf

\* A predictor is made for the rounds there are, and writes their range.
LEMMA MakeTypes ==
  ASSUME ModelTypes, NEW c, IsCall(c), MakePredictor(c)
  PROVE  /\ models' \in Seq(Tree) /\ Len(models') = Len(models) /\ Made(c) \in Predictor
         /\ range' \in [start : Nat, num : Nat] /\ models_initialized' \in BOOLEAN
<1>1. models \in Seq(Tree) /\ Len(models) \in Nat
  BY DEF ModelTypes
<1>2. First(models, c) \in Nat /\ Count(models, c) \in Nat
  BY <1>1, RangeTypes
<1>3. models' \in Seq(Tree) /\ Len(models') = Len(models)
  BY <1>1, DepthTypes DEF MakePredictor
<1>4. Made(c) \in Predictor
  BY <1>1, <1>2 DEF Made, Predictor, Told, IsCall
<1>5. models_initialized' \in BOOLEAN
  BY DEF MakePredictor, ModelTypes
<1> QED BY <1>2, <1>3, <1>4, <1>5 DEF MakePredictor

\* A step outside the changes that leaves the trees alone.
LEMMA OutsideTypes ==
  ASSUME ModelTypes, FillInv, StageInv, NEW t \in Threads, pc[t] \notin Altering,
         pc'[t] \notin Altering, \A u \in Threads \ {t} : pc'[u] = pc[u] /\ call'[u] = call[u],
         UNCHANGED <<model, models_initialized, inner, fast>>,
         range' \in [start : Nat, num : Nat]
  PROVE  ModelTypes' /\ FillInv' /\ Model' = Model
<1>1. UNCHANGED <<models, original, coming, iter, made>>
  BY DEF model, work
<1>2. Model' = Model /\ FillInv'
  BY <1>1, OutsideKeeps
<1> QED BY <1>1, <1>2 DEF ModelTypes

\* A step of who holds the lock outside the changes, that makes a predictor or
\* computes depths.
LEMMA DepthsKeepTypes ==
  ASSUME ModelTypes, LockInv, NEW t \in Writers \cup Readers, pc[t] \notin Altering,
         pc'[t] \notin Altering, \A u \in Threads \ {t} : pc'[u] = pc[u],
         models' \in Seq(Tree), Len(models') = Len(models),
         UNCHANGED work, range' \in [start : Nat, num : Nat], models_initialized' \in BOOLEAN,
         inner' \in [Types -> Predictor], fast' \in [FastConfigs -> Predictor]
  PROVE  ModelTypes' /\ FillInv' /\ Model = models /\ Model' = models'
<1>1. Changing = {} /\ Model = models
  BY Settled
<1>2. t \in Threads
  BY DEF Writers, Readers
<1>3. Model' = models' /\ FillInv'
  BY <1>1, <1>2, StaysWhole
<1>4. UNCHANGED <<iter, made, original, coming>>
  BY DEF work
<1> QED BY <1>1, <1>3, <1>4 DEF ModelTypes

LEMMA ModelTypesKeep ==
  ASSUME ModelTypes, FillInv, Counters, StageInv, LockInv, NEW t \in Threads,
         Begin(t) \/ Continue(t)
  PROVE  ModelTypes' /\ FillInv' /\ Counters'
<1>1. /\ models \in Seq(Tree) /\ Len(models) \in Nat /\ IsCall(call[t])
      /\ range \in [start : Nat, num : Nat] /\ range.start \in Nat /\ range.num \in Nat
      /\ local \in [Threads -> Nat] /\ local[t] \in Nat /\ DOMAIN pc = Threads /\ DOMAIN call = Threads
  <2>1. IsCall(call[t]) /\ DOMAIN pc = Threads /\ DOMAIN call = Threads
    BY DEF StageInv
  <2>2. models \in Seq(Tree) /\ range \in [start : Nat, num : Nat] /\ local \in [Threads -> Nat]
    BY DEF ModelTypes, Counters
  <2>3. Len(models) \in Nat /\ range.start \in Nat /\ range.num \in Nat /\ local[t] \in Nat
    BY <2>2
  <2> QED BY <2>1, <2>2, <2>3
<1>2. CASE Change(t)
  BY <1>2, ChangeTypes DEF Change, Counters
<1>12. CASE MergeFrom(t) \/ ShuffleModels(t) \/ RefitTree(t)
  <2>1. Greater(call[t].start, 0) \in Nat
    BY <1>1 DEF Greater, IsCall
  <2> DEFINE first == Greater(call[t].start, 0)
  <2> HIDE DEF first
  <2>2. /\ calls' = calls
        /\ \/ local' = local \/ local' = [local EXCEPT ![t] = first]
           \/ local' = [local EXCEPT ![t] = 0]
    BY <1>12, Zenon DEF MergeFrom, ShuffleModels, RefitTree, first
  <2>4. local' \in [Threads -> Nat]
    <3>1. first \in Nat
      BY <2>1 DEF first
    <3>2. \A n \in Nat : [local EXCEPT ![t] = n] \in [Threads -> Nat]
      BY <1>1
    <3> QED BY <1>1, <2>2, <3>1, <3>2
  <2>3. Counters'
    BY <2>2, <2>4 DEF Counters
  <2> QED BY <1>12, <2>3, StartTypes
<1>13. CASE SwapIndices(t) \/ Swapped(t) \/ Refill(t) \/ RefitOne(t)
  <2>1. /\ calls' = calls
        /\ \/ local' = local \/ local' = [local EXCEPT ![t] = local[t] + 1]
           \/ local' = [local EXCEPT ![t] = 0]
    BY <1>13, Zenon DEF SwapIndices, Swapped, Refill, RefitOne
  <2>3. local' \in [Threads -> Nat]
    BY <1>1, <2>1
  <2>2. Counters'
    BY <2>1, <2>3 DEF Counters
  <2> QED BY <1>13, <2>2, LoopTypes
<1>14. CASE Refilled(t) \/ Refitted(t)
  <2>1. calls' = calls /\ (local' = local \/ local' = [local EXCEPT ![t] = 0])
    BY <1>14 DEF Refilled, Refitted
  <2>3. local' \in [Threads -> Nat]
    BY <1>1, <2>1
  <2>2. Counters'
    BY <2>1, <2>3 DEF Counters
  <2> QED BY <1>14, <2>2, EndTypes
<1>3. CASE SetSingleRowPredictorInner(t)
  <2>1. /\ pc[t] = "locked" /\ pc'[t] = "between" /\ \A u \in Threads \ {t} : pc'[u] = pc[u]
        /\ call[t].type \in Types /\ UNCHANGED <<work, fast, local, calls>>
    BY <1>1, <1>3 DEF SetSingleRowPredictorInner, IsCall, Goto
  <2>2. t \in Writers /\ pc[t] \notin Altering /\ pc'[t] \notin Altering
    BY <2>1 DEF Writers, Altering
  <2>3. Counters'
    BY <2>1 DEF Counters
  <2>4. /\ models' \in Seq(Tree) /\ Len(models') = Len(models)
        /\ range' \in [start : Nat, num : Nat] /\ models_initialized' \in BOOLEAN
        /\ inner' \in [Types -> Predictor] /\ fast' \in [FastConfigs -> Predictor]
    <3>1. CASE UNCHANGED <<models, range, models_initialized, inner>>
      BY <2>1, <3>1 DEF ModelTypes
    <3>2. CASE MakePredictor(call[t]) /\ inner' = [inner EXCEPT ![call[t].type] = Made(call[t])]
      <4>1. Made(call[t]) \in Predictor
        BY <1>1, <3>2, MakeTypes
      <4>2. inner' \in [Types -> Predictor]
        BY <2>1, <3>2, <4>1 DEF ModelTypes
      <4> QED BY <1>1, <2>1, <3>2, <4>2, MakeTypes DEF ModelTypes
    <3> QED BY <1>3, <3>1, <3>2 DEF SetSingleRowPredictorInner
  <2> QED BY <2>1, <2>2, <2>3, <2>4, DepthsKeepTypes
<1>4. CASE InitSingleRowPredictor(t)
  <2>1. /\ pc[t] = "locked" /\ pc'[t] = "return" /\ \A u \in Threads \ {t} : pc'[u] = pc[u]
        /\ call[t].handle \in FastConfigs /\ UNCHANGED <<work, inner, local, calls>>
        /\ MakePredictor(call[t]) /\ fast' = [fast EXCEPT ![call[t].handle] = Made(call[t])]
    BY <1>1, <1>4 DEF InitSingleRowPredictor, Changed, IsCall, Goto
  <2>2. t \in Writers /\ pc[t] \notin Altering /\ pc'[t] \notin Altering
    BY <2>1 DEF Writers, Altering
  <2>3. Counters'
    BY <2>1 DEF Counters
  <2>4. Made(call[t]) \in Predictor
    BY <1>1, <2>1, MakeTypes
  <2>5. /\ models' \in Seq(Tree) /\ Len(models') = Len(models)
        /\ range' \in [start : Nat, num : Nat] /\ models_initialized' \in BOOLEAN
    BY <1>1, <2>1, MakeTypes
  <2>6. inner' \in [Types -> Predictor] /\ fast' \in [FastConfigs -> Predictor]
    BY <2>1, <2>4 DEF ModelTypes
  <2> QED BY <2>1, <2>2, <2>3, <2>5, <2>6, DepthsKeepTypes
<1>8. CASE InitPredictDepths(t)
  <2>1. /\ pc[t] = "depths" /\ pc'[t] = "row" /\ \A u \in Threads \ {t} : pc'[u] = pc[u]
        /\ UNCHANGED <<work, range, inner, fast, local, calls>>
    BY <1>1, <1>8 DEF InitPredictDepths, Goto
  <2>2. t \in Readers /\ pc[t] \notin Altering /\ pc'[t] \notin Altering
    BY <2>1 DEF Readers, Ranging, Altering
  <2>3. models' \in Seq(Tree) /\ Len(models') = Len(models)
    BY <1>1, <1>8, DepthTypes DEF InitPredictDepths
  <2>4. models_initialized' \in BOOLEAN
    BY <1>8 DEF InitPredictDepths, ModelTypes
  <2>5. /\ range' \in [start : Nat, num : Nat]
        /\ inner' \in [Types -> Predictor] /\ fast' \in [FastConfigs -> Predictor]
    BY <1>1, <2>1 DEF ModelTypes
  <2>6. Counters'
    BY <2>1 DEF Counters
  <2> QED BY <2>1, <2>2, <2>3, <2>4, <2>5, <2>6, DepthsKeepTypes
<1>5. CASE InitPredictTotal(t)
  <2>1. range' \in [start : Nat, num : Nat]
    BY <1>1, <1>5 DEF InitPredictTotal
  <2>2. /\ pc[t] = "total" /\ pc'[t] = "num" /\ call' = call
        /\ UNCHANGED <<model, models_initialized, inner, fast, local, calls>>
        /\ \A u \in Threads \ {t} : pc'[u] = pc[u]
    BY <1>1, <1>5 DEF InitPredictTotal, Goto
  <2> QED BY <2>1, <2>2, OutsideTypes DEF Altering, Counters
<1>6. CASE InitPredictNum(t)
  <2> DEFINE c == call[t]
             start == Lesser(Greater(c.start, 0), range.num)
             num == IF c.num > 0 THEN Lesser(c.num, range.num - start) ELSE range.num - start
  <2>1. start \in Nat /\ num \in Nat
    <3>1. c.start \in Int /\ c.num \in Int /\ range.num \in Nat
      BY <1>1 DEF IsCall
    <3>2. Greater(c.start, 0) \in Nat
      BY <3>1 DEF Greater
    <3> HIDE DEF c
    <3>3. start \in Nat /\ start <= range.num
      <4> DEFINE from == Greater(c.start, 0)
      <4> HIDE DEF from
      <4>1. from \in Nat
        BY <3>2 DEF from
      <4>2. Lesser(from, range.num) \in Nat /\ Lesser(from, range.num) <= range.num
        BY <3>1, <4>1 DEF Lesser
      <4> QED BY <4>2 DEF from
    <3> HIDE DEF start
    <3>4. range.num - start \in Nat
      BY <3>1, <3>3
    <3> QED BY <3>1, <3>3, <3>4 DEF Lesser
  <2>2. local' = [local EXCEPT ![t] = start] /\ range' = [range EXCEPT !.num = num]
    BY <1>6 DEF InitPredictNum
  <2>3. /\ pc[t] = "num" /\ pc'[t] = "start" /\ call' = call
        /\ UNCHANGED <<model, models_initialized, inner, fast, calls>>
        /\ \A u \in Threads \ {t} : pc'[u] = pc[u]
    BY <1>1, <1>6 DEF InitPredictNum, Goto
  <2> HIDE DEF start, num, c
  <2>4. range' \in [start : Nat, num : Nat] /\ local' \in [Threads -> Nat]
    BY <1>1, <2>1, <2>2
  <2>5. Counters'
    BY <2>3, <2>4 DEF Counters
  <2> QED BY <2>3, <2>4, <2>5, OutsideTypes DEF Altering
<1>7. CASE InitPredictStart(t)
  <2>1. /\ pc[t] = "start" /\ pc'[t] = "depths" /\ call' = call
        /\ UNCHANGED <<model, models_initialized, inner, fast, calls>>
        /\ \A u \in Threads \ {t} : pc'[u] = pc[u]
    BY <1>1, <1>7 DEF InitPredictStart, Goto
  <2>2. range' \in [start : Nat, num : Nat] /\ local' \in [Threads -> Nat]
    BY <1>1, <1>7 DEF InitPredictStart
  <2>3. Counters'
    BY <2>1, <2>2 DEF Counters
  <2> QED BY <2>1, <2>2, <2>3, OutsideTypes DEF Altering
<1>9. CASE Begin(t)
  <2>1. PICK c \in setup.calls[t] : call' = [call EXCEPT ![t] = c] /\ Goto(t, FirstStep(c))
    BY <1>9 DEF Begin
  <2>2. UNCHANGED <<booster, local>> /\ calls' = [calls EXCEPT ![t] = @ + 1] /\ pc[t] = "idle"
    BY <1>9 DEF Begin
  <2>3. /\ pc'[t] = FirstStep(c) /\ pc[t] \notin Altering /\ pc'[t] \notin Altering
        /\ \A u \in Threads \ {t} : pc'[u] = pc[u] /\ call'[u] = call[u]
    <3>1. pc'[t] = FirstStep(c) /\ \A u \in Threads \ {t} : pc'[u] = pc[u] /\ call'[u] = call[u]
      BY <1>1, <2>1 DEF Goto
    <3>2. FirstStep(c) \notin Altering
      BY DEF FirstStep, Altering
    <3> QED BY <2>2, <3>1, <3>2 DEF Altering
  <2>4. calls' \in [Threads -> Nat]
    BY <2>2 DEF Counters
  <2>5. Counters'
    BY <1>1, <2>2, <2>4 DEF Counters
  <2> QED BY <1>1, <2>2, <2>3, <2>5, OutsideTypes DEF booster
<1>10. CASE SaveCount(t) \/ SavePrint(t) \/ SaveJoin(t)
  <2>1. First(models, call[t]) \in Nat
    BY <1>1, RangeTypes
  <2> DEFINE first == First(models, call[t])
  <2> HIDE DEF first
  <2>2. /\ UNCHANGED <<booster, calls, call>>
        /\ \/ local' = [local EXCEPT ![t] = first] \/ local' = [local EXCEPT ![t] = 0]
           \/ local' = local
    BY <1>10, Zenon DEF SaveCount, SavePrint, SaveJoin, first
  <2>3. /\ pc[t] \in {"count", "print"} /\ pc'[t] \in {"print", "return"}
        /\ \A u \in Threads \ {t} : pc'[u] = pc[u]
    <3>1. CASE SavePrint(t)
      <4>1. pc[t] = "print" /\ (Goto(t, "return") \/ UNCHANGED pc)
        BY <3>1 DEF SavePrint
      <4> QED BY <1>1, <4>1 DEF Goto
    <3>2. CASE SaveCount(t) \/ SaveJoin(t)
      BY <1>1, <3>2 DEF SaveCount, SaveJoin, Goto
    <3> QED BY <1>10, <3>1, <3>2
  <2>4. Counters'
    <3>1. local' \in [Threads -> Nat]
      BY <1>1, <2>1, <2>2 DEF first
    <3> QED BY <2>2, <3>1 DEF Counters
  <2> QED BY <1>1, <2>2, <2>3, <2>4, OutsideTypes DEF booster, Altering
<1>11. CASE \/ \E from, m, to : TakeForWriting(t, from, m, to) /\ from \in Waiting
                                /\ to \in {"locked", "row", "read lock"}
            \/ TakeForReading(t) \/ BetweenLocks(t) \/ PredictRow(t) \/ Return(t)
  <2>1. UNCHANGED <<booster, local, calls>>
    BY <1>11 DEF TakeForWriting, TakeForReading, BetweenLocks, PredictRow, Return
  <2>2. /\ pc[t] \notin Altering /\ pc'[t] \notin Altering
        /\ \A u \in Threads \ {t} : pc'[u] = pc[u] /\ call'[u] = call[u]
    <3>1. CASE \E from, m, to : TakeForWriting(t, from, m, to) /\ from \in Waiting
                                /\ to \in {"locked", "row", "read lock"}
      <4>1. PICK from, m, to : TakeForWriting(t, from, m, to) /\ from \in Waiting
                                /\ to \in {"locked", "row", "read lock"}
        BY <3>1
      <4>2. pc[t] \in Waiting /\ call' = call /\ (pc' = pc \/ pc' = [pc EXCEPT ![t] = to])
        BY <4>1 DEF TakeForWriting, Goto
      <4> QED BY <1>1, <4>1, <4>2 DEF Waiting, Altering
    <3>2. CASE TakeForReading(t)
      <4>1. /\ pc[t] = "read lock" /\ call' = call
            /\ \/ pc' = pc \/ pc' = [pc EXCEPT ![t] = "row"] \/ pc' = [pc EXCEPT ![t] = "total"]
        BY <3>2 DEF TakeForReading, Goto
      <4> QED BY <1>1, <4>1 DEF Altering
    <3>3. CASE BetweenLocks(t)
      BY <1>1, <3>3 DEF BetweenLocks, Goto, Altering
    <3>4. CASE PredictRow(t)
      BY <1>1, <3>4 DEF PredictRow, Goto, Altering
    <3>5. CASE Return(t)
      BY <3>5, Returns DEF Altering
    <3> QED BY <1>11, <3>1, <3>2, <3>3, <3>4, <3>5
  <2>3. Counters'
    BY <2>1 DEF Counters
  <2> QED BY <1>1, <2>1, <2>2, <2>3, OutsideTypes DEF booster
<1> QED BY <1>2, <1>3, <1>4, <1>5, <1>6, <1>7, <1>8, <1>9, <1>10, <1>11, <1>12, <1>13, <1>14
        DEF Continue, Waiting

\* The states of a lock after each operation; only a reader leaves for readers.
LEMMA LockStates ==
  ASSUME NEW l \in LockState(Threads), NEW t \in Threads
  PROVE  /\ LookedForWriting(l, t) \in LockState(Threads)
         /\ LookedForReading(l, t) \in LockState(Threads)
         /\ WriterReleased(l) \in LockState(Threads)
         /\ l.readers > 0 => ReaderReleased(l) \in LockState(Threads)
<1>1. l.readers \in Nat /\ l.waiting \cup {t} \in SUBSET Threads
  BY DEF LockState
<1>2. LookedForWriting(l, t) \in LockState(Threads)
  BY <1>1 DEF LookedForWriting, Wait, LockState
<1>3. LookedForReading(l, t) \in LockState(Threads)
  BY <1>1 DEF LookedForReading, Wait, LockState
<1>4. WriterReleased(l) \in LockState(Threads)
  BY DEF WriterReleased, NotifyAll, LockState
<1>5. ASSUME l.readers > 0 PROVE ReaderReleased(l) \in LockState(Threads)
  <2>1. l.readers - 1 \in Nat
    BY <1>1, <1>5
  <2>2. CASE l.readers = 1
    BY <2>2 DEF ReaderReleased, NotifyAll, LockState
  <2>3. CASE l.readers # 1
    <3>1. ReaderReleased(l) = [l EXCEPT !.readers = @ - 1]
      BY <2>3 DEF ReaderReleased
    <3> QED BY <2>1, <3>1 DEF LockState
  <2> QED BY <2>2, <2>3
<1> QED BY <1>2, <1>3, <1>4, <1>5

LEMMA LockTypesKeep ==
  ASSUME LockTypes, LocksInv, StageInv, NEW t \in Threads, Begin(t) \/ Continue(t)
  PROVE  LockTypes'
<1>1. IsCall(call[t]) /\ call[t].handle \in Locks /\ BoosterMutex \in Locks
  BY DEF StageInv, IsCall, Locks
<1>2. \A m \in Locks : lock[m] \in LockState(Threads)
  BY DEF LockTypes
<1>3. CASE \E m \in Locks : lock' = [lock EXCEPT ![m] = LookedForWriting(lock[m], t)]
  BY <1>2, <1>3, LockStates DEF LockTypes
<1>4. CASE lock' = [lock EXCEPT ![BoosterMutex] = LookedForReading(lock[BoosterMutex], t)]
  BY <1>1, <1>2, <1>4, LockStates DEF LockTypes
<1>5. CASE lock' = [lock EXCEPT ![BoosterMutex] = WriterReleased(lock[BoosterMutex])]
  BY <1>1, <1>2, <1>5, LockStates DEF LockTypes
<1>6. CASE Return(t)
  <2>1. pc[t] = "return" /\ call[t].op \in Shared => lock[BoosterMutex].readers > 0
    <3> SUFFICES ASSUME pc[t] = "return", call[t].op \in Shared
                 PROVE  lock[BoosterMutex].readers > 0
      OBVIOUS
    <3>1. t \in Readers /\ IsFiniteSet(Readers) /\ lock[BoosterMutex].readers = Cardinality(Readers)
      BY DEF Readers, LocksInv, LockInv
    <3> QED BY <3>1, FS_EmptySet, FS_CardinalityType
  <2> DEFINE Kept(m) ==
               CASE call[t].op = "predict" /\ m = BoosterMutex -> ReaderReleased(lock[m])
                 [] call[t].op = "fast" /\ m = BoosterMutex -> ReaderReleased(lock[m])
                 [] call[t].op = "fast" /\ m = call[t].handle -> WriterReleased(lock[m])
                 [] call[t].op \in Changes \cup {"single", "fast init"} /\ m = BoosterMutex ->
                      WriterReleased(lock[m])
                 [] OTHER -> lock[m]
  <2>2. lock' = [m \in Locks |-> Kept(m)] /\ pc[t] = "return"
    BY <1>6 DEF Return
  <2>3. ASSUME NEW m \in Locks PROVE Kept(m) \in LockState(Threads)
    <3>1. \/ Kept(m) = lock[m] \/ Kept(m) = WriterReleased(lock[m])
          \/ m = BoosterMutex /\ call[t].op \in Shared /\ Kept(m) = ReaderReleased(lock[m])
      <4>1. \/ call[t].op \in {"predict", "save"} \/ call[t].op = "fast"
            \/ call[t].op \in Changes \cup {"single", "fast init"}
        BY <1>1 DEF IsCall, ReadCalls
      <4>2. CASE call[t].op = "predict"
        BY <4>2 DEF Shared, Changes
      <4>3. CASE call[t].op = "save"
        BY <4>3 DEF Changes
      <4>4. CASE call[t].op = "fast"
        BY <4>4 DEF Shared, Changes
      <4>5. CASE call[t].op \in Changes \cup {"single", "fast init"}
        BY <4>5 DEF Changes
      <4> QED BY <4>1, <4>2, <4>3, <4>4, <4>5
    <3> HIDE DEF Kept
    <3> QED BY <3>1, <2>1, <2>2, <1>2, LockStates
  <2> HIDE DEF Kept
  <2> QED BY <2>2, <2>3 DEF LockTypes
<1>7. CASE lock' = lock
  BY <1>7 DEF LockTypes
<1>8. CASE Begin(t) \/ Change(t) \/ SetSingleRowPredictorInner(t) \/ InitSingleRowPredictor(t)
           \/ InitPredictTotal(t) \/ InitPredictNum(t) \/ InitPredictStart(t)
           \/ InitPredictDepths(t) \/ PredictRow(t) \/ SaveCount(t) \/ SavePrint(t)
           \/ SaveJoin(t)
  <2>1. lock' = lock
    BY <1>8 DEF Begin, Change, SetSingleRowPredictorInner, InitSingleRowPredictor,
       InitPredictTotal, InitPredictNum, InitPredictStart, InitPredictDepths, PredictRow,
       SaveCount, SavePrint, SaveJoin
  <2> QED BY <2>1, <1>7
<1>12. CASE MergeFrom(t) \/ ShuffleModels(t) \/ SwapIndices(t) \/ Swapped(t) \/ Refill(t)
            \/ Refilled(t) \/ RefitTree(t) \/ RefitOne(t) \/ Refitted(t)
  <2>1. lock' = lock
    BY <1>12 DEF MergeFrom, ShuffleModels, SwapIndices, Swapped, Refill, Refilled, RefitTree,
       RefitOne, Refitted
  <2> QED BY <2>1, <1>7
<1>9. CASE \/ TakeForWriting(t, "write lock", BoosterMutex, "locked")
           \/ TakeForWriting(t, "write lock again", BoosterMutex, "row")
           \/ TakeForWriting(t, "own lock", call[t].handle, "read lock")
  BY <1>1, <1>3, <1>9 DEF TakeForWriting
<1>10. CASE TakeForReading(t)
  BY <1>4, <1>10 DEF TakeForReading
<1>11. CASE BetweenLocks(t)
  BY <1>5, <1>11 DEF BetweenLocks
<1> QED BY <1>6, <1>8, <1>9, <1>10, <1>11, <1>12 DEF Continue

-----------------------------------------------------------------------------
(* The theorems *)

\* At first nobody is in a call and every lock is free.
LEMMA Starts ==
  ASSUME Init PROVE IInv
<1>1. setup \in Setups /\ setup.rounds \in Nat
  BY BoosterAssumption DEF Init
<1>2. /\ Writers = {} /\ Readers = {} /\ \A f \in FastConfigs : Owners(f) = {}
      /\ StageInv
  BY NoCallIsCall DEF Init, Writers, Readers, Owners, StageInv, Waiting, Ranging, Altering
<1>3. LockTypes /\ \A m \in Locks : lock[m] = Unlocked
  BY DEF Init, LockTypes, LockState, Unlocked
<1>4. LocksInv
  <2>1. lock[BoosterMutex] = Unlocked /\ \A f \in FastConfigs : lock[f] = Unlocked
    BY <1>3 DEF Locks
  <2>2. LockInv
    BY <1>2, <2>1, FS_EmptySet DEF LockInv, Unlocked
  <2>3. SleepInv /\ \A f \in FastConfigs : HandleInv(f)
    <3>1. /\ Unlocked.writer = FALSE /\ Unlocked.readers = 0 /\ Unlocked.waiting = {}
      BY DEF Unlocked
    <3>2. SleepInv
      BY <2>1, <3>1 DEF SleepInv
    <3>3. \A f \in FastConfigs : HandleInv(f)
      BY <1>2, <2>1, <3>1 DEF HandleInv
    <3> QED BY <3>2, <3>3
  <2> QED BY <2>2, <2>3 DEF LocksInv
<1>5. ModelTypes /\ FillInv
  <2>0. Changing = {}
    BY DEF Init, Changing
  <2>1. models \in Seq(Tree) /\ Len(models) = setup.rounds
    <3>1. \A i \in 1..setup.rounds : NewTree(i) \in Tree
      BY <1>1 DEF NewTree, Tree
    <3>2. models = [i \in 1..setup.rounds |-> NewTree(i)]
      BY DEF Init
    <3> QED BY <1>1, <3>1, <3>2
  <2>2. None \in Predictor
    BY DEF None, Predictor, Types
  <2>3. iter \in 0..Len(Model) /\ made \in Nat
    BY <1>1, <2>0, <2>1 DEF Init, Model
  <2>5. original \in Seq(Tree) /\ coming \in Seq(Tree)
    BY DEF Init
  <2>4. /\ range \in [start : Nat, num : Nat] /\ models_initialized \in BOOLEAN
        /\ inner \in [Types -> Predictor] /\ fast \in [FastConfigs -> Predictor]
    BY <2>2 DEF Init
  <2> QED BY <2>0, <2>1, <2>3, <2>4, <2>5 DEF ModelTypes, FillInv
<1>6. Counters
  BY DEF Init, Counters
<1> QED BY <1>1, <1>2, <1>3, <1>4, <1>5, <1>6 DEF IInv

LEMMA Steps ==
  ASSUME IInv, [Next]_vars PROVE IInv'
<1>1. CASE UNCHANGED vars
  <2>1. /\ UNCHANGED <<setup, models, iter, made, original, coming, range, models_initialized,
                       inner, fast>>
        /\ UNCHANGED <<lock, pc, call, local, calls>>
    BY <1>1 DEF vars
  <2>2. Writers' = Writers /\ Readers' = Readers /\ \A f \in FastConfigs : Owners(f)' = Owners(f)
    BY <2>1 DEF Writers, Readers, Owners
  <2>6. Changing' = Changing /\ Model' = Model
    BY <2>1 DEF Changing, Model
  <2>7. FillInv'
    BY <2>1, <2>6 DEF IInv, FillInv
  <2>3. ModelTypes' /\ Counters' /\ LockTypes' /\ StageInv'
    BY <2>1, <2>6 DEF IInv, ModelTypes, Counters, LockTypes, StageInv
  <2>4. LockInv' /\ \A f \in FastConfigs : HandleInv(f)'
    BY <2>1, <2>2 DEF IInv, LocksInv, LockInv, HandleInv
  <2>5. SleepInv'
    BY <2>1, <2>2 DEF IInv, LocksInv, SleepInv
  <2> QED BY <2>1, <2>3, <2>4, <2>5, <2>7 DEF IInv, LocksInv
<1>2. CASE Next
  <2>1. PICK t \in Threads : Begin(t) \/ Continue(t)
    BY <1>2 DEF Next
  <2>2. setup' = setup
    BY <2>1 DEF Begin, Continue, TakeForWriting, TakeForReading, Change, BetweenLocks, Return,
       SetSingleRowPredictorInner, InitSingleRowPredictor, InitPredictTotal, InitPredictNum,
       InitPredictStart, InitPredictDepths, PredictRow, SaveCount, SavePrint, SaveJoin, MergeFrom,
       ShuffleModels, SwapIndices, Swapped, Refill, Refilled, RefitTree, RefitOne, Refitted
  <2>3. ModelTypes' /\ FillInv' /\ Counters'
    BY <2>1, ModelTypesKeep DEF IInv, LocksInv
  <2>4. LockTypes'
    BY <2>1, LockTypesKeep DEF IInv
  <2>5. StageInv' /\ LocksInv'
    BY <2>1, LocksKeep DEF IInv
  <2> QED BY <2>2, <2>3, <2>4, <2>5 DEF IInv
<1> QED BY <1>1, <1>2

(***************************************************************************)
(* The locks count their holders, who sleeps waits for one of them, and    *)
(* the fields of Booster and GBDT keep their types (c_api.cpp;             *)
(* alternate_shared_mutex.hpp).                                            *)
(***************************************************************************)
THEOREM Inductive == Spec => []IInv
<1>1. Init => IInv
  BY Starts
<1>2. IInv /\ [Next]_vars => IInv'
  BY Steps
<1> QED BY <1>1, <1>2, PTL DEF Spec

(***************************************************************************)
(* Type correctness (c_api.cpp, the members of Booster; gbdt.h).  In       *)
(* particular iter_ never counts more rounds than models_ has.             *)
(***************************************************************************)
THEOREM TypeCorrect == Spec => []TypeOK
<1>1. IInv => TypeOK
  <2> SUFFICES ASSUME IInv PROVE TypeOK
    OBVIOUS
  <2>1. range \in Range2
    BY DEF IInv, ModelTypes, Range2
  <2> QED BY <2>1 DEF IInv, ModelTypes, LockTypes, Counters, StageInv, TypeOK
<1> QED BY <1>1, Inductive, PTL

(***************************************************************************)
(* A call that changes the model, makes a predictor or predicts a single   *)
(* row with a cached one (UNIQUE_LOCK in c_api.cpp) is alone: no two       *)
(* threads are in such calls, and none is in a prediction that holds the   *)
(* lock for reading.  A fast handle is used by one prediction at a time    *)
(* (single_row_predictor_mutex).                                           *)
(***************************************************************************)
WritersAlone ==
  /\ \A t, u \in Writers : t = u
  /\ Writers # {} => Readers = {}
  /\ \A f \in FastConfigs : \A t, u \in Owners(f) : t = u

THEOREM WritersAreAlone == Spec => []WritersAlone
<1>1. IInv => WritersAlone
  BY DEF IInv, LocksInv, LockInv, HandleInv, WritersAlone
<1> QED BY <1>1, Inductive, PTL

\* Who holds the booster's lock sleeps nowhere.
LEMMA HoldersAwake ==
  ASSUME IInv, NEW u \in Writers \cup Readers
  PROVE  u \in Threads /\ pc[u] # "idle" /\ \A m \in Locks : u \notin lock[m].waiting
<1>1. u \in Threads /\ pc[u] # "idle" /\ pc[u] \notin Waiting
  BY DEF Writers, Readers, Ranging, Altering, Waiting
<1>2. \A m \in Locks : \A v \in lock[m].waiting : pc[v] \in Waiting
  BY DEF IInv, LocksInv, SleepInv, Locks, Waiting
<1> QED BY <1>1, <1>2

(***************************************************************************)
(* While a thread is in a call, some thread in a call is awake: a sleeper  *)
(* waits for a holder, the owner of a handle can sleep only at the         *)
(* booster's lock, and who holds that one sleeps nowhere.  So no wake-up   *)
(* of alternate_shared_mutex.hpp is lost and the two locks of              *)
(* SingleRowPredictor::Predict (c_api.cpp) close no circle.                *)
(***************************************************************************)
SomebodyAwake ==
  (\E t \in Threads : pc[t] # "idle") =>
    \E u \in Threads : pc[u] # "idle" /\ \A m \in Locks : u \notin lock[m].waiting

THEOREM SomebodyIsAwake == Spec => []SomebodyAwake
<1>1. IInv => SomebodyAwake
  <2> SUFFICES ASSUME IInv, NEW t \in Threads, pc[t] # "idle"
               PROVE  \E u \in Threads : pc[u] # "idle" /\ \A m \in Locks : u \notin lock[m].waiting
    BY DEF SomebodyAwake
  <2>1. CASE \A m \in Locks : t \notin lock[m].waiting
    BY <2>1
  <2>2. CASE t \in lock[BoosterMutex].waiting
    <3>1. Writers \cup Readers # {}
      BY <2>2 DEF IInv, LocksInv, SleepInv
    <3> QED BY <3>1, HoldersAwake
  <2>3. CASE \E f \in FastConfigs : t \in lock[f].waiting
    <3>1. PICK f \in FastConfigs : t \in lock[f].waiting
      BY <2>3
    <3>2. PICK u \in Owners(f) : u \in Threads /\ pc[u] \in {"read lock", "row", "return"}
      <4>1. Owners(f) # {}
        BY <3>1 DEF IInv, LocksInv, SleepInv
      <4>2. \A u \in Owners(f) : u \in Threads /\ pc[u] \in {"read lock", "row", "return"}
        BY DEF Owners
      <4> QED BY <4>1, <4>2
    <3>3. \A g \in FastConfigs : u \notin lock[g].waiting
      BY <3>2 DEF IInv, LocksInv, SleepInv
    <3>4. CASE u \in lock[BoosterMutex].waiting
      <4>1. Writers \cup Readers # {}
        BY <3>4 DEF IInv, LocksInv, SleepInv
      <4> QED BY <4>1, HoldersAwake
    <3>5. CASE u \notin lock[BoosterMutex].waiting
      BY <3>2, <3>3, <3>5 DEF Locks
    <3> QED BY <3>4, <3>5
  <2> QED BY <2>1, <2>2, <2>3 DEF Locks
<1> QED BY <1>1, Inductive, PTL

(***************************************************************************)
(* A prediction that holds the lock for reading, from InitPredict to its   *)
(* last row, is about one model: nobody adds, drops, moves or changes a    *)
(* tree meanwhile, though depths may be computed (SHARED_LOCK in c_api.cpp;*)
(* GBDT::InitPredict).                                                     *)
(***************************************************************************)
ModelHeld == [][\A t \in Readers : Ids(models') = Ids(models)]_vars

THEOREM ModelIsHeld == Spec => ModelHeld
<1>1. IInv /\ [Next]_vars => [\A t \in Readers : Ids(models') = Ids(models)]_vars
  <2> SUFFICES ASSUME IInv, Next, NEW r \in Readers PROVE Ids(models') = Ids(models)
    BY DEF vars
  <2>1. PICK t \in Threads : Begin(t) \/ Continue(t)
    BY DEF Next
  <2>2. CASE \/ Change(t) \/ SetSingleRowPredictorInner(t) \/ InitSingleRowPredictor(t)
             \/ MergeFrom(t) \/ ShuffleModels(t) \/ SwapIndices(t) \/ Swapped(t) \/ Refill(t)
             \/ Refilled(t) \/ RefitTree(t) \/ RefitOne(t) \/ Refitted(t)
    <3>1. pc[t] \in Altering \cup {"locked"}
      BY <2>2 DEF Change, SetSingleRowPredictorInner, InitSingleRowPredictor, MergeFrom,
         ShuffleModels, SwapIndices, Swapped, Refill, Refilled, RefitTree, RefitOne, Refitted,
         Altering
    <3>2. t \in Writers
      BY <3>1 DEF Writers
    <3> QED BY <3>2 DEF IInv, LocksInv, LockInv
  <2>3. CASE InitPredictDepths(t)
    <3>1. models' = DepthsOf(call[t]) /\ models \in Seq(Tree)
      BY <2>3 DEF InitPredictDepths, IInv, ModelTypes
    <3> QED BY <3>1, DepthTypes
  <2>4. CASE \/ Begin(t) \/ \E from, m, to : TakeForWriting(t, from, m, to)
             \/ TakeForReading(t) \/ BetweenLocks(t) \/ PredictRow(t) \/ Return(t)
             \/ SaveCount(t) \/ SavePrint(t) \/ SaveJoin(t)
    <3>1. UNCHANGED booster
      BY <2>4 DEF Begin, TakeForWriting, TakeForReading, BetweenLocks, PredictRow, Return,
         SaveCount, SavePrint, SaveJoin
    <3> QED BY <3>1 DEF booster, model, Ids
  <2>5. CASE InitPredictTotal(t) \/ InitPredictNum(t) \/ InitPredictStart(t)
    <3>1. UNCHANGED model
      BY <2>5 DEF InitPredictTotal, InitPredictNum, InitPredictStart
    <3> QED BY <3>1 DEF model, Ids
  <2> QED BY <2>1, <2>2, <2>3, <2>4, <2>5 DEF Continue
<1> QED BY <1>1, Inductive, PTL DEF Spec, ModelHeld

-----------------------------------------------------------------------------
(* Answers *)

\* Setups in which every prediction and every saved model is of the whole
\* model; either no call changes how many rounds there are, or all
\* predictions are batches (and none of contributions, whose depths a
\* booster computes but once); and nobody changes the model while another
\* thread may be saving it.
Whole(c) == c.op \notin Changes => c.start <= 0 /\ c.num <= 0
KeepsRounds(s) == \A t \in Threads : \A c \in s.calls[t] :
  c.op \notin {"train", "rollback", "merge"} /\ (c.op = "fast" => c.type # "contrib")
OnlyBatches(s) == \A t \in Threads : \A c \in s.calls[t] :
  c.op \in Changes \cup {"predict"} /\ (c.op = "predict" => c.type # "contrib")
SavesApart(s) == \A t, u \in Threads : \A c \in s.calls[t], d \in s.calls[u] :
  t # u /\ c.op = "save" => d.op \notin Changes
Orderly(s) == /\ \A t \in Threads : \A c \in s.calls[t] : Whole(c)
              /\ KeepsRounds(s) \/ OnlyBatches(s)
              /\ SavesApart(s)

\* A predictor that is kept was made for the rounds there are, and the depths
\* of trees are known once they were computed.
IsWhole(p) == range.num = Len(Model) /\ p.told = Len(Model)
KeptInv ==
  /\ range.start = 0
  /\ \A y \in Types : inner[y].made => KeepsRounds(setup) /\ IsWhole(inner[y])
  /\ \A f \in FastConfigs : fast[f].made => KeepsRounds(setup) /\ IsWhole(fast[f])
  /\ inner["contrib"].made => models_initialized
  /\ KeepsRounds(setup) /\ models_initialized => \A i \in DOMAIN Model : Model[i].depth

\* A call is one of its setup, and may be about the model there is.
CallInv(t) == pc[t] # "idle" => /\ call[t] \in setup.calls[t]
                                /\ Asked(Model, call[t]) \in possible[t]

\* What a call relies on: that the booster's range is the whole model, that
\* its predictor was made, that depths are known.
ReliesInv(t) ==
  /\ pc[t] = "start" => local[t] = 0
  /\ pc[t] \in {"num", "start", "depths", "row"} /\ call[t].op = "predict" =>
       range.num = Len(Model)
  /\ pc[t] \in {"between", "write lock again", "row"} /\ call[t].op = "single" =>
       inner[call[t].type].made
  /\ pc[t] \in {"own lock", "read lock", "row"} /\ call[t].op = "fast" =>
       fast[call[t].handle].made
  /\ pc[t] = "row" /\ call[t].op = "predict" /\ call[t].type = "contrib" => models_initialized

\* What was printed so far is of the model there is.
Printing(a, ids) ==
  /\ a.trees \in [1..Len(ids) -> Nat]
  /\ a = [status |-> "printing", trees |-> a.trees, told |-> Len(ids)]
  /\ \A i \in 1..Len(ids) : a.trees[i] \in {0, ids[i]}
PrintInv(t) == pc[t] = "print" => local[t] = 0 /\ Printing(answer[t], Ids(Model))

\* What a call is about to return.
Right(c, a, ps) == /\ a.status = "done" /\ a.trees \in ps
                   /\ (c.op # "save" /\ c.type = "leaf") => Len(a.trees) = a.told
ReturnInv(t) ==
  /\ pc[t] \notin {"print", "return"} => answer[t] = NoAnswer
  /\ pc[t] = "return" => answer[t].status = "changed" \/ Right(call[t], answer[t], possible[t])

ThreadInv(t) == CallInv(t) /\ ReliesInv(t) /\ PrintInv(t) /\ ReturnInv(t)
AnswersInv == /\ DOMAIN possible = Threads /\ DOMAIN answer = Threads
              /\ KeptInv /\ \A t \in Threads : ThreadInv(t)

\* Of a sequence's first rounds and the others, all.
LEMMA AllOf ==
  ASSUME NEW S, NEW ms \in Seq(S)
  PROVE  SubSeq(ms, 1, Len(ms)) = ms
<1>1. Len(ms) \in Nat /\ ms = [i \in 1..Len(ms) |-> ms[i]]
  OBVIOUS
<1>2. SubSeq(ms, 1, Len(ms)) = [i \in 1..Len(ms) |-> ms[i]]
  BY <1>1
<1> QED BY <1>1, <1>2

LEMMA IdsTypes ==
  ASSUME NEW ms \in Seq(Tree)
  PROVE  Ids(ms) \in Seq(Nat) /\ Len(Ids(ms)) = Len(ms)
<1> DEFINE Id(i) == ms[i].id
<1>1. Len(ms) \in Nat /\ DOMAIN ms = 1..Len(ms) /\ \A i \in 1..Len(ms) : ms[i] \in Tree
  OBVIOUS
<1>2. \A i \in 1..Len(ms) : Id(i) \in Nat
  BY <1>1 DEF Tree
<1>3. Ids(ms) = [i \in 1..Len(ms) |-> Id(i)]
  BY <1>1 DEF Ids
<1> HIDE DEF Id
<1> QED BY <1>1, <1>2, <1>3

\* Who asks for the whole model asks for all its rounds.
LEMMA AsksForAll ==
  ASSUME NEW ms \in Seq(Tree), NEW c, IsCall(c), c.start <= 0, c.num <= 0
  PROVE  First(ms, c) = 0 /\ Count(ms, c) = Len(ms) /\ Asked(ms, c) = Ids(ms)
<1>1. Len(ms) \in Nat /\ c.start \in Int /\ c.num \in Int
  BY DEF IsCall
<1>2. First(ms, c) = 0
  BY <1>1 DEF First, Lesser, Greater
<1>3. Count(ms, c) = Len(ms)
  BY <1>1, <1>2 DEF Count
<1>4. Asked(ms, c) = SubSeq(Ids(ms), 1, Len(Ids(ms)))
  <2>1. First(ms, c) + 1 = 1 /\ First(ms, c) + Count(ms, c) = Len(Ids(ms))
    BY <1>1, <1>2, <1>3, IdsTypes
  <2> QED BY <2>1 DEF Asked
<1> QED BY <1>2, <1>3, <1>4, IdsTypes, AllOf

\* A call asks for rounds by their place.
LEMMA AskedAlike ==
  ASSUME NEW ms, NEW ns, Ids(ms) = Ids(ns), Len(ms) = Len(ns), NEW c
  PROVE  Asked(ms, c) = Asked(ns, c)
<1>1. First(ms, c) = First(ns, c)
  BY DEF First
<1>2. Count(ms, c) = Count(ns, c)
  BY <1>1 DEF Count
<1> QED BY <1>1, <1>2 DEF Asked

\* A step that leaves the trees' numbers, and whole ranges whole, takes
\* nothing away from the other threads.
LEMMA OthersKeep ==
  ASSUME AnswersInv, NEW t \in Threads, setup' = setup,
         Ids(Model') = Ids(Model), Len(Model') = Len(Model),
         models_initialized => models_initialized',
         range.num = Len(Model) => range'.num = Len(Model),
         \A y \in Types : inner[y].made => inner'[y].made,
         \A f \in FastConfigs : fast[f].made => fast'[f].made,
         \A u \in Threads \ {t} : /\ pc'[u] = pc[u] /\ call'[u] = call[u] /\ local'[u] = local[u]
                                   /\ possible'[u] = possible[u] /\ answer'[u] = answer[u],
         StageInv, NEW u \in Threads \ {t}
  PROVE  ThreadInv(u)'
<1>1. /\ pc'[u] = pc[u] /\ call'[u] = call[u] /\ local'[u] = local[u]
      /\ possible'[u] = possible[u] /\ answer'[u] = answer[u]
      /\ Asked(Model', call[u]) = Asked(Model, call[u]) /\ IsCall(call[u])
      /\ ThreadInv(u)
  <2>1. Asked(Model', call[u]) = Asked(Model, call[u])
    BY AskedAlike
  <2>2. IsCall(call[u]) /\ u \in Threads
    BY DEF StageInv
  <2> QED BY <2>1, <2>2 DEF AnswersInv
<1>2. CallInv(u)'
  BY <1>1 DEF ThreadInv, CallInv
<1>3. ReliesInv(u)'
  <2>1. ReliesInv(u) /\ call[u].type \in Types /\ call[u].handle \in FastConfigs
    BY <1>1 DEF ThreadInv, IsCall
  <2>2. /\ pc[u] = "start" => local[u] = 0
        /\ pc[u] \in {"num", "start", "depths", "row"} /\ call[u].op = "predict" =>
             range'.num = Len(Model')
    BY <2>1 DEF ReliesInv
  <2>3. /\ pc[u] \in {"between", "write lock again", "row"} /\ call[u].op = "single" =>
             inner'[call[u].type].made
        /\ pc[u] \in {"own lock", "read lock", "row"} /\ call[u].op = "fast" =>
             fast'[call[u].handle].made
        /\ pc[u] = "row" /\ call[u].op = "predict" /\ call[u].type = "contrib" =>
             models_initialized'
    BY <2>1 DEF ReliesInv
  <2> QED BY <1>1, <2>2, <2>3 DEF ReliesInv
<1>4. ReturnInv(u)'
  BY <1>1 DEF ThreadInv, ReturnInv
<1>5. PrintInv(u)'
  BY <1>1 DEF ThreadInv, PrintInv
<1> QED BY <1>2, <1>3, <1>4, <1>5 DEF ThreadInv

\* What a setup says of a call that is under way.
LEMMA Plans ==
  ASSUME AnswersInv, StageInv, Orderly(setup), NEW t \in Threads, pc[t] # "idle"
  PROVE  /\ IsCall(call[t]) /\ Asked(Model, call[t]) \in possible[t]
         /\ call[t].op \notin Changes => call[t].start <= 0 /\ call[t].num <= 0
         /\ KeepsRounds(setup) => /\ call[t].op \notin {"train", "rollback", "merge"}
                                  /\ call[t].op = "fast" => call[t].type # "contrib"
         /\ ~KeepsRounds(setup) => /\ call[t].op \in Changes \cup {"predict"}
                                   /\ call[t].op = "predict" => call[t].type # "contrib"
<1>1. /\ call[t] \in setup.calls[t] /\ Asked(Model, call[t]) \in possible[t]
      /\ IsCall(call[t])
  BY DEF AnswersInv, ThreadInv, CallInv, StageInv
<1> QED BY <1>1 DEF Orderly, Whole, KeepsRounds, OnlyBatches

\* While a model is saved no other thread has a call that changes one.
LEMMA SavesAreApart ==
  ASSUME AnswersInv, StageInv, Orderly(setup), NEW t \in Threads, pc[t] # "idle",
         call[t].op = "save", NEW u \in Threads \ {t}, pc[u] # "idle"
  PROVE  call[u].op \notin Changes
<1>1. call[t] \in setup.calls[t] /\ call[u] \in setup.calls[u]
  BY DEF AnswersInv, ThreadInv, CallInv
<1> QED BY <1>1 DEF Orderly, SavesApart

\* A step that leaves the model and the fields of predictions alone keeps the
\* answers of all if it keeps those of its thread.
LEMMA OwnKeeps ==
  ASSUME AnswersInv, StageInv, NEW t \in Threads, Model' = Model,
         UNCHANGED <<setup, range, models_initialized, inner, fast>>,
         DOMAIN possible' = Threads, DOMAIN answer' = Threads,
         \A u \in Threads \ {t} : /\ pc'[u] = pc[u] /\ call'[u] = call[u] /\ local'[u] = local[u]
                                   /\ possible'[u] = possible[u] /\ answer'[u] = answer[u],
         ThreadInv(t)'
  PROVE  AnswersInv'
<1>2. ASSUME NEW u \in Threads \ {t} PROVE ThreadInv(u)'
  BY OthersKeep
<1>3. KeptInv'
  BY DEF AnswersInv, KeptInv, IsWhole
<1> QED BY <1>2, <1>3 DEF AnswersInv

\* Steps outside the changes that leave the booster alone.
LEMMA OutsideAnswers ==
  ASSUME AnswersInv, StageInv, FillInv, NEW t \in Threads, UNCHANGED <<setup, booster>>,
         pc[t] \notin Altering, pc'[t] \notin Altering,
         DOMAIN possible' = Threads, DOMAIN answer' = Threads,
         \A u \in Threads \ {t} : /\ pc'[u] = pc[u] /\ call'[u] = call[u] /\ local'[u] = local[u]
                                   /\ possible'[u] = possible[u] /\ answer'[u] = answer[u],
         ThreadInv(t)'
  PROVE  AnswersInv'
<1>1. UNCHANGED <<setup, models, original, coming, range, models_initialized, inner, fast>>
  BY DEF booster, model, work
<1>2. Model' = Model
  BY <1>1, OutsideKeeps
<1> QED BY <1>1, <1>2, OwnKeeps

LEMMA BeginAnswers ==
  ASSUME AnswersInv, StageInv, FillInv, Counters, NEW t \in Threads, Begin(t)
  PROVE  AnswersInv'
<1>1. PICK c \in setup.calls[t] :
         /\ HandleReady(c) /\ call' = [call EXCEPT ![t] = c] /\ Goto(t, FirstStep(c))
         /\ possible' = [possible EXCEPT ![t] = {Asked(Model, c)}]
  BY DEF Begin
<1>2. pc[t] = "idle" /\ UNCHANGED <<setup, booster, lock, local, answer>>
  BY DEF Begin
<1>3. /\ pc'[t] = FirstStep(c) /\ call'[t] = c /\ possible'[t] = {Asked(Model, c)}
      /\ \A u \in Threads \ {t} : pc'[u] = pc[u] /\ call'[u] = call[u] /\ possible'[u] = possible[u]
      /\ DOMAIN possible' = Threads /\ DOMAIN answer' = Threads
  BY <1>1, <1>2 DEF Goto, StageInv, AnswersInv
<1>4. \/ FirstStep(c) \in {"read lock", "write lock", "count"} /\ c.op # "fast"
      \/ FirstStep(c) = "own lock" /\ c.op = "fast"
  BY DEF FirstStep
<1>9. pc[t] \notin Altering /\ pc'[t] \notin Altering
  BY <1>2, <1>3, <1>4 DEF Altering
<1>5. Model' = Model /\ fast' = fast /\ setup' = setup /\ answer' = answer
  <2>1. UNCHANGED <<models, original, coming, fast, setup, answer>>
    BY <1>2 DEF booster, model, work
  <2> QED BY <1>3, <1>9, <2>1, OutsideKeeps
<1>6. CallInv(t)'
  BY <1>3, <1>5 DEF CallInv
<1>7. ReliesInv(t)'
  BY <1>1, <1>3, <1>4, <1>5 DEF ReliesInv, HandleReady
<1>8. ReturnInv(t)'
  <2>1. answer[t] = NoAnswer
    BY <1>2 DEF AnswersInv, ThreadInv, ReturnInv
  <2> QED BY <2>1, <1>3, <1>4, <1>5 DEF ReturnInv
<1>10. PrintInv(t)'
  BY <1>3, <1>4 DEF PrintInv
<1> QED BY <1>2, <1>3, <1>6, <1>7, <1>8, <1>9, <1>10, OutsideAnswers DEF ThreadInv

\* Steps that only take or give back locks.
LEMMA LockAnswers ==
  ASSUME AnswersInv, StageInv, FillInv, NEW t \in Threads,
         UNCHANGED <<setup, booster, call, local, answer, possible, calls>>,
         \/ pc[t] \in Waiting /\ UNCHANGED pc
         \/ pc[t] = "write lock" /\ Goto(t, "locked")
         \/ pc[t] = "write lock again" /\ Goto(t, "row")
         \/ pc[t] = "own lock" /\ Goto(t, "read lock")
         \/ pc[t] = "read lock" /\ call[t].op = "fast" /\ Goto(t, "row")
         \/ pc[t] = "read lock" /\ call[t].op # "fast" /\ Goto(t, "total")
         \/ pc[t] = "between" /\ Goto(t, "write lock again")
  PROVE  AnswersInv'
<1>1. UNCHANGED <<setup, models, original, coming, range, models_initialized, inner, fast, call,
                  local, answer, possible>>
  BY DEF booster, model, work
<1>2. \A u \in Threads \ {t} : pc'[u] = pc[u]
  BY DEF Goto, StageInv
<1>3. ThreadInv(t) /\ (pc[t] = "write lock again" => call[t].op = "single")
      /\ (pc[t] = "write lock" => call[t].op \in Exclusive)
      /\ (pc[t] = "own lock" => call[t].op = "fast")
  BY DEF AnswersInv, StageInv
<1>4. \/ pc'[t] = pc[t] /\ pc[t] \in Waiting
      \/ pc[t] = "write lock" /\ pc'[t] = "locked"
      \/ pc[t] = "write lock again" /\ pc'[t] = "row"
      \/ pc[t] = "own lock" /\ pc'[t] = "read lock"
      \/ pc[t] = "read lock" /\ call[t].op = "fast" /\ pc'[t] = "row"
      \/ pc[t] = "read lock" /\ call[t].op # "fast" /\ pc'[t] = "total"
      \/ pc[t] = "between" /\ pc'[t] = "write lock again"
  BY DEF Goto, StageInv
<1>9. pc[t] \notin Altering /\ pc'[t] \notin Altering
  BY <1>4 DEF Waiting, Altering
<1>10. Model' = Model
  BY <1>1, <1>2, <1>9, OutsideKeeps
<1>5. CallInv(t)'
  BY <1>1, <1>3, <1>4, <1>10 DEF ThreadInv, CallInv
<1>6. ReliesInv(t)'
  BY <1>1, <1>3, <1>4, <1>10 DEF ThreadInv, ReliesInv
<1>7. ReturnInv(t)' /\ PrintInv(t)'
  BY <1>1, <1>3, <1>4, <1>10 DEF ThreadInv, ReturnInv, PrintInv, Waiting
<1>8. DOMAIN possible' = Threads /\ DOMAIN answer' = Threads
  BY <1>1 DEF AnswersInv
<1> QED BY <1>1, <1>2, <1>5, <1>6, <1>7, <1>8, <1>10, OwnKeeps DEF ThreadInv

LEMMA ReturnAnswers ==
  ASSUME AnswersInv, StageInv, FillInv, NEW t \in Threads, Return(t)
  PROVE  AnswersInv'
<1>1. /\ pc' = [pc EXCEPT ![t] = "idle"] /\ call' = [call EXCEPT ![t] = NoCall]
      /\ answer' = [answer EXCEPT ![t] = NoAnswer] /\ possible' = [possible EXCEPT ![t] = {}]
      /\ UNCHANGED <<setup, booster, local, calls>>
  BY DEF Return, Goto
<1>2. /\ pc'[t] = "idle" /\ call'[t] = NoCall /\ answer'[t] = NoAnswer
      /\ DOMAIN possible' = Threads /\ DOMAIN answer' = Threads
      /\ \A u \in Threads \ {t} : /\ pc'[u] = pc[u] /\ call'[u] = call[u] /\ local'[u] = local[u]
                                /\ possible'[u] = possible[u] /\ answer'[u] = answer[u]
  BY <1>1 DEF StageInv, AnswersInv
<1>3. ThreadInv(t)'
  BY <1>2 DEF ThreadInv, CallInv, ReliesInv, PrintInv, ReturnInv
<1>4. pc[t] \notin Altering /\ pc'[t] \notin Altering
  BY <1>2 DEF Return, Altering
<1> QED BY <1>1, <1>2, <1>3, <1>4, OutsideAnswers

\* A row is predicted with the whole model.
LEMMA RowAnswers ==
  ASSUME AnswersInv, StageInv, FillInv, ModelTypes, LockInv, Orderly(setup), NEW t \in Threads,
         PredictRow(t)
  PROVE  AnswersInv'
<1> DEFINE c == call[t]
           new == Predicted(c.type, ToldTo(t))
<1>1. /\ pc[t] = "row" /\ answer' = [answer EXCEPT ![t] = new] /\ pc' = [pc EXCEPT ![t] = "return"]
      /\ UNCHANGED <<setup, booster, lock, call, local, possible, calls>>
  BY DEF PredictRow, Goto
<1>2. /\ models \in Seq(Tree) /\ Len(models) \in Nat /\ DOMAIN models = 1..Len(models)
      /\ range.start = 0 /\ c.op \in {"predict", "single", "fast"}
  <2>1. models \in Seq(Tree)
    BY DEF ModelTypes
  <2>2. c.op \in {"predict", "single", "fast"}
    BY <1>1 DEF StageInv, Shared
  <2> QED BY <2>1, <2>2 DEF AnswersInv, KeptInv
<1>14. Model = models
  <2>1. t \in Writers \cup Readers /\ pc[t] \notin Altering
    BY <1>1, <1>2 DEF Writers, Readers, Exclusive, Shared, Altering
  <2> QED BY <2>1, Settled
<1>3. /\ IsCall(c) /\ Asked(models, c) \in possible[t] /\ c.start <= 0 /\ c.num <= 0
      /\ KeepsRounds(setup) /\ c.op = "fast" => c.type # "contrib"
      /\ ~KeepsRounds(setup) => c.op = "predict" /\ c.type # "contrib"
  BY <1>1, <1>2, <1>14, Plans DEF Changes
<1>4. Asked(models, c) = Ids(models) /\ Count(models, c) = Len(models)
  BY <1>2, <1>3, AsksForAll
<1>5. /\ c.op = "predict" => range.num = Len(models)
      /\ c.op = "single" => inner[c.type].made
      /\ c.op = "fast" => fast[c.handle].made
      /\ c.op = "predict" /\ c.type = "contrib" => models_initialized
  BY <1>1, <1>14 DEF AnswersInv, ThreadInv, ReliesInv
<1>6. /\ c.op = "single" => IsWhole(inner[c.type])
      /\ c.op = "fast" => IsWhole(fast[c.handle])
      /\ c.op = "single" /\ c.type = "contrib" => models_initialized
  BY <1>3, <1>5 DEF AnswersInv, KeptInv, IsCall
<1>7. range.num = Len(models) /\ ToldTo(t) = Len(models)
  BY <1>2, <1>4, <1>5, <1>6, <1>14 DEF ToldTo, Told, IsWhole
<1>8. End = Len(models) /\ SubSeq(models, range.start + 1, End) = models
  <2>1. range.start + 1 = 1 /\ End = Len(models)
    BY <1>2, <1>7 DEF End
  <2> QED BY <2>1, <1>2, AllOf
<1>9. c.type = "contrib" => \A i \in DOMAIN models : models[i].depth
  BY <1>2, <1>3, <1>5, <1>6, <1>14 DEF AnswersInv, KeptInv
<1>10. new = [status |-> "done", trees |-> Ids(models), told |-> Len(models)]
  <2> DEFINE used == SubSeq(models, range.start + 1, End)
  <2>1. ~(End > Len(models)) /\ used = models
    BY <1>2, <1>8
  <2> HIDE DEF used
  <2>2. ~(c.type = "contrib" /\ \E i \in DOMAIN used : ~used[i].depth)
    BY <1>9, <2>1
  <2>3. Predicted(c.type, ToldTo(t)) = [status |-> "done", trees |-> Ids(used), told |-> ToldTo(t)]
    <3> HIDE DEF c
    <3> QED BY <2>1, <2>2 DEF Predicted, used
  <2> QED BY <2>1, <2>3, <1>7
<1>11. Right(c, new, possible[t])
  <2>1. Ids(models) \in possible[t] /\ Len(Ids(models)) = Len(models)
    BY <1>2, <1>3, <1>4, IdsTypes
  <2> HIDE DEF new, c
  <2> QED BY <2>1, <1>10 DEF Right
<1> HIDE DEF new
<1>12. /\ pc'[t] = "return" /\ answer'[t] = new /\ call' = call /\ possible' = possible
       /\ local' = local /\ UNCHANGED <<models, original, coming, setup>>
       /\ DOMAIN answer' = Threads /\ DOMAIN possible' = Threads
       /\ \A u \in Threads \ {t} : pc'[u] = pc[u] /\ answer'[u] = answer[u]
  BY <1>1 DEF StageInv, AnswersInv, booster, model, work
<1>15. pc[t] \notin Altering /\ pc'[t] \notin Altering
  BY <1>1, <1>12 DEF Altering
<1>13. ThreadInv(t)'
  <2>4. Model' = Model
    BY <1>12, <1>15, OutsideKeeps
  <2>1. CallInv(t)'
    BY <1>1, <1>12, <2>4 DEF AnswersInv, ThreadInv, CallInv
  <2>2. ReliesInv(t)'
    BY <1>12 DEF ReliesInv
  <2>3. ReturnInv(t)' /\ PrintInv(t)'
    BY <1>11, <1>12 DEF ReturnInv, PrintInv
  <2> QED BY <2>1, <2>2, <2>3 DEF ThreadInv
<1> QED BY <1>1, <1>12, <1>13, <1>15, OutsideAnswers

\* While a model is saved nobody is in the middle of a change.
LEMMA SavesWhole ==
  ASSUME AnswersInv, StageInv, Orderly(setup), NEW t \in Threads, pc[t] # "idle",
         call[t].op = "save"
  PROVE  Changing = {} /\ Model = models
<1>1. ASSUME NEW u \in Changing PROVE FALSE
  <2>1. /\ u \in Threads /\ pc[u] \in {"swap", "refill", "refit"}
        /\ call[u].op \in {"merge", "shuffle", "refit"}
    BY DEF Changing, StageInv
  <2>2. u \in Threads \ {t} /\ pc[u] # "idle" /\ call[u].op \in Changes
    BY <2>1 DEF Changes
  <2> QED BY <2>2, SavesAreApart
<1> QED BY <1>1 DEF Model

\* Saving: the trees are counted, printed one by one, and joined.
LEMMA SaveAnswers ==
  ASSUME AnswersInv, StageInv, FillInv, ModelTypes, Counters, Orderly(setup), NEW t \in Threads,
         SaveCount(t) \/ SavePrint(t) \/ SaveJoin(t)
  PROVE  AnswersInv'
<1> DEFINE c == call[t]
<1>1. /\ pc[t] \in {"count", "print"} /\ c.op = "save"
      /\ UNCHANGED <<setup, booster, lock, call, possible, calls>>
  BY DEF SaveCount, SavePrint, SaveJoin, StageInv
<1>2. Model = models /\ models \in Seq(Tree) /\ Len(models) \in Nat
  <2>1. models \in Seq(Tree)
    BY DEF ModelTypes
  <2> QED BY <1>1, <2>1, SavesWhole
<1>3. /\ IsCall(c) /\ Asked(models, c) \in possible[t] /\ c.start <= 0 /\ c.num <= 0
      /\ c \in setup.calls[t]
  <2>1. c \in setup.calls[t]
    BY <1>1 DEF AnswersInv, ThreadInv, CallInv
  <2> QED BY <1>1, <1>2, <2>1, Plans DEF Changes
<1>4. /\ First(models, c) = 0 /\ Count(models, c) = Len(models) /\ Asked(models, c) = Ids(models)
      /\ Ids(models) \in Seq(Nat) /\ Len(Ids(models)) = Len(models)
      /\ \A i \in 1..Len(models) : Ids(models)[i] = models[i].id
  <2>1. \A i \in 1..Len(models) : Ids(models)[i] = models[i].id
    BY <1>2 DEF Ids
  <2> QED BY <1>2, <1>3, <2>1, AsksForAll, IdsTypes
<1>5. /\ models' = models /\ setup' = setup /\ call' = call /\ possible' = possible
      /\ original' = original /\ coming' = coming /\ DOMAIN possible' = Threads
  BY <1>1 DEF booster, model, work, AnswersInv
<1>6. /\ pc'[t] \in {"print", "return"} /\ DOMAIN answer' = Threads
      /\ \A u \in Threads \ {t} : /\ pc'[u] = pc[u] /\ local'[u] = local[u]
                                /\ answer'[u] = answer[u]
  BY <1>1 DEF SaveCount, SavePrint, SaveJoin, Goto, StageInv, Counters, AnswersInv
<1>7. pc[t] \notin Altering /\ pc'[t] \notin Altering
  BY <1>1, <1>6 DEF Altering
<1>8. Model' = models
  BY <1>2, <1>5, <1>6, <1>7, OutsideKeeps
<1>9. CallInv(t)' /\ ReliesInv(t)'
  BY <1>2, <1>3, <1>5, <1>6, <1>8 DEF CallInv, ReliesInv
<1>10. ASSUME \/ pc'[t] = "print" /\ local'[t] = 0 /\ Printing(answer'[t], Ids(models))
              \/ pc'[t] = "return" /\ Right(c, answer'[t], possible[t])
       PROVE  AnswersInv'
  <2>1. PrintInv(t)' /\ ReturnInv(t)'
    BY <1>5, <1>8, <1>10 DEF PrintInv, ReturnInv
  <2> QED BY <1>1, <1>5, <1>6, <1>7, <1>9, <2>1, OutsideAnswers DEF ThreadInv
<1>11. CASE SaveCount(t)
  <2> DEFINE blank == [i \in 1..Len(models) |-> 0]
             new == [status |-> "printing", trees |-> blank, told |-> Len(models)]
  <2>1. pc'[t] = "print" /\ local'[t] = 0 /\ answer'[t] = new
    BY <1>4, <1>11 DEF SaveCount, Goto, StageInv, Counters, AnswersInv
  <2>2. blank \in [1..Len(Ids(models)) -> Nat] /\ \A i \in 1..Len(Ids(models)) : blank[i] = 0
    BY <1>4
  <2> HIDE DEF blank
  <2>3. Printing(new, Ids(models))
    BY <1>4, <2>2 DEF Printing
  <2> HIDE DEF new
  <2> QED BY <1>10, <2>1, <2>3
<1>12. ASSUME pc[t] = "print"
       PROVE  /\ local[t] = 0 /\ answer[t].trees \in [1..Len(models) -> Nat]
              /\ answer[t] = [status |-> "printing", trees |-> answer[t].trees,
                              told |-> Len(models)]
              /\ \A i \in 1..Len(models) : answer[t].trees[i] \in {0, Ids(models)[i]}
  BY <1>2, <1>4, <1>12 DEF AnswersInv, ThreadInv, PrintInv, Printing
<1>13. CASE SavePrint(t)
  <2>1. PICK i \in Unprinted(t) :
          IF local[t] + i > Len(models)
          THEN /\ answer' = [answer EXCEPT ![t].status = "past the end"]
               /\ Goto(t, "return")
          ELSE /\ answer' = [answer EXCEPT ![t].trees[i] = models[local[t] + i].id]
               /\ UNCHANGED pc
    BY <1>13 DEF SavePrint
  <2>2. pc[t] = "print" /\ local' = local
    BY <1>13 DEF SavePrint
  <2>3. i \in 1..Len(models) /\ local[t] + i = i /\ ~(local[t] + i > Len(models))
    <3>1. i \in 1..answer[t].told
      BY DEF Unprinted
    <3>2. answer[t].told = Len(models)
      BY <1>12, <2>2
    <3> QED BY <1>2, <1>12, <2>2, <3>1, <3>2
  <2> DEFINE old == answer[t].trees
             trees == [old EXCEPT ![i] = Ids(models)[i]]
             new == [status |-> "printing", trees |-> trees, told |-> Len(models)]
  <2>4. answer'[t] = new /\ pc' = pc
    <3>1. answer' = [answer EXCEPT ![t].trees[i] = Ids(models)[i]] /\ pc' = pc
      BY <1>4, <2>1, <2>3
    <3>2. answer'[t] = [answer[t] EXCEPT !.trees = trees]
      BY <3>1 DEF AnswersInv
    <3> HIDE DEF trees
    <3> QED BY <1>12, <2>2, <3>1, <3>2
  <2>5. /\ trees \in [1..Len(Ids(models)) -> Nat]
        /\ \A j \in 1..Len(Ids(models)) : trees[j] \in {0, Ids(models)[j]}
    <3>1. old \in [1..Len(models) -> Nat] /\ Ids(models)[i] \in Nat
          /\ \A j \in 1..Len(models) : old[j] \in {0, Ids(models)[j]}
      BY <1>4, <1>12, <2>2, <2>3
    <3> HIDE DEF old
    <3> QED BY <1>4, <2>3, <3>1
  <2> HIDE DEF trees
  <2>6. Printing(new, Ids(models))
    BY <1>4, <2>5 DEF Printing
  <2>7. local'[t] = 0 /\ pc'[t] = "print"
    BY <1>12, <2>2, <2>4
  <2> HIDE DEF new
  <2> QED BY <1>10, <2>4, <2>6, <2>7
<1>14. CASE SaveJoin(t)
  <2>1. /\ pc[t] = "print" /\ Unprinted(t) = {} /\ pc'[t] = "return"
        /\ answer'[t] = [answer[t] EXCEPT !.status = "done"]
    BY <1>14 DEF SaveJoin, Goto, StageInv, AnswersInv
  <2> DEFINE trees == answer[t].trees
  <2>2. trees = Ids(models)
    <3>1. \A i \in 1..Len(models) : trees[i] # 0
      BY <1>12, <2>1 DEF Unprinted
    <3>2. trees \in [1..Len(models) -> Nat] /\ \A i \in 1..Len(models) : trees[i] = Ids(models)[i]
      BY <1>12, <2>1, <3>1
    <3>3. Ids(models) \in [1..Len(models) -> Nat]
      BY <1>4
    <3> HIDE DEF trees
    <3> QED BY <3>2, <3>3
  <2>3. answer'[t] = [status |-> "done", trees |-> Ids(models), told |-> Len(models)]
    BY <1>12, <2>1, <2>2
  <2>4. Right(c, answer'[t], possible[t])
    BY <1>1, <1>3, <1>4, <2>3 DEF Right
  <2> QED BY <1>10, <2>1, <2>4
<1> QED BY <1>11, <1>13, <1>14

\* A batch writes the range in three steps; each time it is the whole model.
LEMMA RangeAnswers ==
  ASSUME AnswersInv, StageInv, FillInv, ModelTypes, Counters, LockInv, Orderly(setup),
         NEW t \in Threads,
         InitPredictTotal(t) \/ InitPredictNum(t) \/ InitPredictStart(t)
  PROVE  AnswersInv'
<1>1. /\ UNCHANGED <<setup, models, original, coming, models_initialized, inner, fast, call,
                      answer, possible>>
      /\ pc[t] \in {"total", "num", "start"}
  BY DEF InitPredictTotal, InitPredictNum, InitPredictStart, model, work
<1>2. /\ models \in Seq(Tree) /\ Len(models) \in Nat /\ range \in [start : Nat, num : Nat]
      /\ range.start = 0 /\ call[t].op = "predict"
  <2>1. models \in Seq(Tree) /\ range \in [start : Nat, num : Nat]
    BY DEF ModelTypes
  <2>2. call[t].op = "predict" /\ range.start = 0
    BY <1>1 DEF StageInv, Ranging, AnswersInv, KeptInv
  <2> QED BY <2>1, <2>2
<1>9. Model = models
  <2>1. t \in Readers /\ pc[t] \notin Altering
    BY <1>1 DEF Readers, Ranging, Altering
  <2> QED BY <2>1, Settled
<1>3. IsCall(call[t]) /\ call[t].start <= 0 /\ call[t].num <= 0
      /\ Asked(Model, call[t]) \in possible[t]
  BY <1>1, <1>2, Plans DEF Changes
<1>4. /\ DOMAIN pc = Threads /\ DOMAIN local = Threads
      /\ pc[t] \in {"num", "start"} => range.num = Len(models)
      /\ pc[t] = "start" => local[t] = 0
  BY <1>2, <1>9 DEF StageInv, Counters, AnswersInv, ThreadInv, ReliesInv
<1>5. /\ range'.start = 0 /\ range'.num = Len(models)
      /\ pc'[t] \in {"num", "start", "depths"} /\ (pc'[t] = "start" => local'[t] = 0)
      /\ \A u \in Threads \ {t} : pc'[u] = pc[u] /\ local'[u] = local[u]
  <2>1. CASE InitPredictTotal(t)
    BY <1>2, <1>4, <2>1 DEF InitPredictTotal, Goto
  <2>2. CASE InitPredictNum(t)
    <3> DEFINE start == Lesser(Greater(call[t].start, 0), range.num)
               num == IF call[t].num > 0 THEN Lesser(call[t].num, range.num - start)
                                         ELSE range.num - start
    <3>1. call[t].start \in Int /\ call[t].num \in Int
      BY <1>3 DEF IsCall
    <3>2. start = 0
      BY <1>2, <1>3, <3>1 DEF Lesser, Greater
    <3>3. range.num = Len(models)
      BY <1>4, <2>2 DEF InitPredictNum
    <3>4. num = Len(models)
      BY <1>2, <1>3, <3>1, <3>2, <3>3
    <3>5. local' = [local EXCEPT ![t] = start] /\ range' = [range EXCEPT !.num = num]
          /\ pc' = [pc EXCEPT ![t] = "start"]
      BY <2>2 DEF InitPredictNum, Goto
    <3> HIDE DEF start, num
    <3> QED BY <1>2, <1>4, <3>2, <3>4, <3>5
  <2>3. CASE InitPredictStart(t)
    BY <1>2, <1>4, <2>3 DEF InitPredictStart, Goto
  <2> QED BY <2>1, <2>2, <2>3
<1>10. Model' = Model
  <2>1. pc[t] \notin Altering /\ pc'[t] \notin Altering
    BY <1>1, <1>5 DEF Altering
  <2> QED BY <1>1, <1>5, <2>1, OutsideKeeps
<1>6. \A u \in Threads \ {t} : ThreadInv(u)'
  BY <1>1, <1>5, <1>9, <1>10, OthersKeep
<1>7. KeptInv'
  BY <1>1, <1>2, <1>5, <1>9, <1>10 DEF AnswersInv, KeptInv, IsWhole
<1>8. ThreadInv(t)'
  <2>1. CallInv(t)'
    BY <1>1, <1>10 DEF AnswersInv, ThreadInv, CallInv
  <2>2. ReliesInv(t)'
    BY <1>1, <1>2, <1>5, <1>9, <1>10 DEF ReliesInv
  <2>3. ReturnInv(t)' /\ PrintInv(t)'
    BY <1>1, <1>5 DEF AnswersInv, ThreadInv, ReturnInv, PrintInv
  <2> QED BY <2>1, <2>2, <2>3 DEF ThreadInv
<1> QED BY <1>1, <1>6, <1>7, <1>8 DEF AnswersInv

\* Depths, once computed, are there for all trees.
LEMMA DepthsKnown ==
  ASSUME AnswersInv, Model = models, models \in Seq(Tree), NEW c, models' = DepthsOf(c),
         models_initialized' = (models_initialized \/ c.type = "contrib"),
         KeepsRounds(setup), models_initialized'
  PROVE  \A i \in DOMAIN models' : models'[i].depth
<1>1. CASE Depths(c)
  <2>1. DOMAIN models = 1..Len(models) /\ \A i \in DOMAIN models : models[i] \in Tree
    OBVIOUS
  <2>2. \A i \in DOMAIN models : [models[i] EXCEPT !.depth = TRUE].depth = TRUE
    BY <2>1 DEF Tree
  <2>3. models' = [i \in DOMAIN models |-> [models[i] EXCEPT !.depth = TRUE]]
    BY <1>1 DEF DepthsOf
  <2> QED BY <2>2, <2>3
<1>2. CASE ~Depths(c)
  BY <1>2 DEF DepthsOf, Depths, AnswersInv, KeptInv
<1> QED BY <1>1, <1>2

LEMMA DepthAnswers ==
  ASSUME AnswersInv, StageInv, ModelTypes, LockInv, Orderly(setup), NEW t \in Threads,
         InitPredictDepths(t)
  PROVE  AnswersInv'
<1>1. /\ pc[t] = "depths" /\ models' = DepthsOf(call[t])
      /\ models_initialized' = (models_initialized \/ call[t].type = "contrib")
      /\ UNCHANGED <<setup, range, inner, fast, call, local, answer, possible>>
      /\ pc' = [pc EXCEPT ![t] = "row"]
  BY DEF InitPredictDepths, Goto
<1>2. models \in Seq(Tree) /\ models_initialized \in BOOLEAN
  BY DEF ModelTypes
<1>3. Ids(models') = Ids(models) /\ Len(models') = Len(models)
  BY <1>1, <1>2, DepthTypes
<1>4. pc'[t] = "row" /\ \A u \in Threads \ {t} : pc'[u] = pc[u]
  BY <1>1 DEF StageInv
<1>9. Model = models /\ Model' = models'
  <2>1. t \in Readers /\ pc[t] \notin Altering /\ pc'[t] \notin Altering
    BY <1>1, <1>4 DEF Readers, Ranging, Altering
  <2> QED BY <1>4, <2>1, Settled, StaysWhole
<1>5. \A u \in Threads \ {t} : ThreadInv(u)'
  BY <1>1, <1>3, <1>4, <1>9, OthersKeep
<1>6. KeptInv'
  <2>1. KeepsRounds(setup) /\ models_initialized' => \A i \in DOMAIN models' : models'[i].depth
    BY <1>1, <1>2, <1>9, DepthsKnown
  <2> QED BY <1>1, <1>3, <1>9, <2>1 DEF AnswersInv, KeptInv, IsWhole
<1>7. call[t].op = "predict" /\ range.num = Len(models) /\ Asked(models, call[t]) \in possible[t]
      /\ call[t] \in setup.calls[t] /\ answer[t] = NoAnswer
  BY <1>1, <1>9 DEF StageInv, Ranging, AnswersInv, ThreadInv, CallInv, ReliesInv, ReturnInv
<1>8. ThreadInv(t)'
  <2>1. CallInv(t)'
    <3>1. Asked(models', call[t]) = Asked(models, call[t])
      BY <1>3, AskedAlike
    <3> QED BY <1>1, <1>7, <1>9, <3>1 DEF CallInv
  <2>2. ReliesInv(t)'
    BY <1>1, <1>3, <1>4, <1>7, <1>9 DEF ReliesInv
  <2>3. ReturnInv(t)' /\ PrintInv(t)'
    BY <1>1, <1>4, <1>7 DEF ReturnInv, PrintInv
  <2> QED BY <2>1, <2>2, <2>3 DEF ThreadInv
<1> QED BY <1>1, <1>5, <1>6, <1>8 DEF AnswersInv

\* A predictor for the whole model.
LEMMA MakesWhole ==
  ASSUME AnswersInv, ModelTypes, Model = models, NEW c, IsCall(c), c.start <= 0, c.num <= 0, MakePredictor(c)
  PROVE  /\ Ids(models') = Ids(models) /\ Len(models') = Len(models)
         /\ range'.start = 0 /\ range'.num = Len(models)
         /\ Made(c).made = TRUE /\ Made(c).told = Len(models)
         /\ models_initialized' = (models_initialized \/ c.type = "contrib")
         /\ KeepsRounds(setup) /\ models_initialized' =>
              \A i \in DOMAIN models' : models'[i].depth
<1>1. models \in Seq(Tree)
  BY DEF ModelTypes
<1>2. First(models, c) = 0 /\ Count(models, c) = Len(models)
  BY <1>1, AsksForAll
<1>3. /\ models' = DepthsOf(c) /\ range' = [start |-> 0, num |-> Len(models)]
      /\ models_initialized' = (models_initialized \/ c.type = "contrib")
  BY <1>2 DEF MakePredictor
<1>4. Ids(models') = Ids(models) /\ Len(models') = Len(models)
  BY <1>1, <1>3, DepthTypes
<1>5. Made(c).made = TRUE /\ Made(c).told = Len(models)
  BY <1>2 DEF Made, Told
<1>6. KeepsRounds(setup) /\ models_initialized' => \A i \in DOMAIN models' : models'[i].depth
  BY <1>1, <1>3, DepthsKnown
<1> QED BY <1>3, <1>4, <1>5, <1>6

LEMMA SingleAnswers ==
  ASSUME AnswersInv, StageInv, ModelTypes, LockInv, Orderly(setup), NEW t \in Threads,
         SetSingleRowPredictorInner(t)
  PROVE  AnswersInv'
<1> DEFINE c == call[t]
<1>1. /\ pc[t] = "locked" /\ c.op = "single" /\ pc' = [pc EXCEPT ![t] = "between"]
      /\ UNCHANGED <<setup, fast, call, local, answer, possible>>
  BY DEF SetSingleRowPredictorInner, Goto
<1>6. Model = models
  <2>1. t \in Writers /\ pc[t] \notin Altering
    BY <1>1 DEF Writers, Altering
  <2> QED BY <2>1, Settled
<1>2. /\ IsCall(c) /\ c.type \in Types /\ c.start <= 0 /\ c.num <= 0 /\ KeepsRounds(setup)
      /\ c \in setup.calls[t] /\ Asked(models, c) \in possible[t] /\ answer[t] = NoAnswer
  <2>1. /\ IsCall(c) /\ c.start <= 0 /\ c.num <= 0 /\ KeepsRounds(setup)
        /\ Asked(models, c) \in possible[t]
    BY <1>1, <1>6, Plans DEF Changes
  <2>2. c \in setup.calls[t] /\ answer[t] = NoAnswer
    BY <1>1 DEF AnswersInv, ThreadInv, CallInv, ReturnInv
  <2> QED BY <2>1, <2>2 DEF IsCall
<1>3. pc'[t] = "between" /\ \A u \in Threads \ {t} : pc'[u] = pc[u]
  BY <1>1 DEF StageInv
<1>7. Model' = models'
  <2>1. t \in Writers /\ pc[t] \notin Altering /\ pc'[t] \notin Altering
    BY <1>1, <1>3 DEF Writers, Altering
  <2> QED BY <1>3, <2>1, Settled, StaysWhole
<1>4. CASE inner[c.type].made /\ UNCHANGED <<models, range, models_initialized, inner>>
  <2>1. \A u \in Threads \ {t} : ThreadInv(u)'
    BY <1>1, <1>3, <1>4, <1>6, <1>7, OthersKeep
  <2>2. KeptInv'
    BY <1>1, <1>4, <1>6, <1>7 DEF AnswersInv, KeptInv, IsWhole
  <2>3. CallInv(t)' /\ ReliesInv(t)' /\ PrintInv(t)' /\ ReturnInv(t)'
    BY <1>1, <1>2, <1>3, <1>4, <1>7 DEF CallInv, ReliesInv, PrintInv, ReturnInv
  <2> QED BY <1>1, <2>1, <2>2, <2>3 DEF AnswersInv, ThreadInv
<1>5. CASE MakePredictor(c) /\ inner' = [inner EXCEPT ![c.type] = Made(c)]
  <2>1. /\ Ids(models') = Ids(models) /\ Len(models') = Len(models)
        /\ range'.start = 0 /\ range'.num = Len(models)
        /\ Made(c).made = TRUE /\ Made(c).told = Len(models)
        /\ models_initialized' = (models_initialized \/ c.type = "contrib")
        /\ models_initialized' => \A i \in DOMAIN models' : models'[i].depth
    <3> HIDE DEF c
    <3> QED BY <1>2, <1>5, <1>6, MakesWhole
  <2>2. inner'[c.type] = Made(c) /\ \A y \in Types \ {c.type} : inner'[y] = inner[y]
    BY <1>2, <1>5 DEF ModelTypes
  <2>3. \A u \in Threads \ {t} : ThreadInv(u)'
    BY <1>1, <1>3, <1>6, <1>7, <2>1, <2>2, OthersKeep
  <2>4. KeptInv'
    <3>1. \A y \in Types : inner'[y].made =>
            range'.num = Len(models') /\ inner'[y].told = Len(models')
      BY <1>6, <2>1, <2>2 DEF AnswersInv, KeptInv, IsWhole
    <3>2. \A f \in FastConfigs : fast'[f].made =>
            range'.num = Len(models') /\ fast'[f].told = Len(models')
      BY <1>1, <1>6, <2>1 DEF AnswersInv, KeptInv, IsWhole
    <3>3. inner'["contrib"].made => models_initialized'
      BY <2>1, <2>2 DEF AnswersInv, KeptInv, Types
    <3> QED BY <1>1, <1>2, <1>7, <2>1, <3>1, <3>2, <3>3 DEF KeptInv, IsWhole
  <2>5. Asked(models', c) = Asked(models, c)
    BY <2>1, AskedAlike
  <2>6. CallInv(t)' /\ ReliesInv(t)' /\ PrintInv(t)' /\ ReturnInv(t)'
    BY <1>1, <1>2, <1>3, <1>7, <2>1, <2>2, <2>5 DEF CallInv, ReliesInv, PrintInv, ReturnInv
  <2> QED BY <1>1, <2>3, <2>4, <2>6 DEF AnswersInv, ThreadInv
<1> QED BY <1>4, <1>5 DEF SetSingleRowPredictorInner

LEMMA FastAnswers ==
  ASSUME AnswersInv, StageInv, ModelTypes, LockInv, Orderly(setup), NEW t \in Threads,
         InitSingleRowPredictor(t)
  PROVE  AnswersInv'
<1> DEFINE c == call[t]
           new == [NoAnswer EXCEPT !.status = "changed"]
<1>1. /\ pc[t] = "locked" /\ c.op = "fast init" /\ pc' = [pc EXCEPT ![t] = "return"]
      /\ MakePredictor(c) /\ fast' = [fast EXCEPT ![c.handle] = Made(c)]
      /\ answer' = [answer EXCEPT ![t] = new]
      /\ UNCHANGED <<setup, inner, call, local, possible>>
  BY DEF InitSingleRowPredictor, Changed, Goto
<1>11. Model = models
  <2>1. t \in Writers /\ pc[t] \notin Altering
    BY <1>1 DEF Writers, Altering
  <2> QED BY <2>1, Settled
<1>2. /\ IsCall(c) /\ c.handle \in FastConfigs /\ c.start <= 0 /\ c.num <= 0
      /\ KeepsRounds(setup) /\ c \in setup.calls[t] /\ Asked(models, c) \in possible[t]
  <2>1. /\ IsCall(c) /\ c.start <= 0 /\ c.num <= 0 /\ KeepsRounds(setup)
        /\ Asked(models, c) \in possible[t]
    BY <1>1, <1>11, Plans DEF Changes
  <2>2. c \in setup.calls[t]
    BY <1>1 DEF AnswersInv, ThreadInv, CallInv
  <2> QED BY <2>1, <2>2 DEF IsCall
<1>3. /\ pc'[t] = "return" /\ answer'[t] = new /\ DOMAIN answer' = Threads
      /\ \A u \in Threads \ {t} : pc'[u] = pc[u] /\ answer'[u] = answer[u]
  BY <1>1 DEF StageInv, AnswersInv
<1>12. Model' = models'
  <2>1. t \in Writers /\ pc[t] \notin Altering /\ pc'[t] \notin Altering
    BY <1>1, <1>3 DEF Writers, Altering
  <2> QED BY <1>3, <2>1, Settled, StaysWhole
<1>4. /\ Ids(models') = Ids(models) /\ Len(models') = Len(models)
      /\ range'.start = 0 /\ range'.num = Len(models)
      /\ Made(c).made = TRUE /\ Made(c).told = Len(models)
      /\ models_initialized' = (models_initialized \/ c.type = "contrib")
      /\ models_initialized' => \A i \in DOMAIN models' : models'[i].depth
  <2> HIDE DEF c
  <2> QED BY <1>1, <1>2, <1>11, MakesWhole
<1>5. fast'[c.handle] = Made(c) /\ \A f \in FastConfigs \ {c.handle} : fast'[f] = fast[f]
  BY <1>1, <1>2 DEF ModelTypes
<1>6. \A u \in Threads \ {t} : ThreadInv(u)'
  <2>1. /\ \A y \in Types : inner[y].made => inner'[y].made
        /\ \A f \in FastConfigs : fast[f].made => fast'[f].made
        /\ models_initialized => models_initialized'
    BY <1>1, <1>4, <1>5
  <2>2. \A u \in Threads \ {t} :
          /\ pc'[u] = pc[u] /\ call'[u] = call[u] /\ local'[u] = local[u]
          /\ possible'[u] = possible[u] /\ answer'[u] = answer[u]
    BY <1>1, <1>3
  <2> HIDE DEF new, c
  <2> QED BY <1>1, <1>4, <1>11, <1>12, <2>1, <2>2, OthersKeep
<1>7. KeptInv'
  <2>1. \A y \in Types : inner'[y].made =>
          range'.num = Len(models') /\ inner'[y].told = Len(models')
    BY <1>1, <1>4, <1>11 DEF AnswersInv, KeptInv, IsWhole
  <2>2. \A f \in FastConfigs : fast'[f].made =>
          range'.num = Len(models') /\ fast'[f].told = Len(models')
    BY <1>4, <1>5, <1>11 DEF AnswersInv, KeptInv, IsWhole
  <2>3. inner'["contrib"].made => models_initialized'
    BY <1>1, <1>4 DEF AnswersInv, KeptInv
  <2> QED BY <1>1, <1>2, <1>4, <1>12, <2>1, <2>2, <2>3 DEF KeptInv, IsWhole
<1>8. Asked(models', c) = Asked(models, c)
  BY <1>4, AskedAlike
<1>9. new.status = "changed"
  BY DEF NoAnswer
<1> HIDE DEF new
<1>10. CallInv(t)' /\ ReliesInv(t)' /\ PrintInv(t)' /\ ReturnInv(t)'
  BY <1>1, <1>2, <1>3, <1>8, <1>9, <1>12 DEF CallInv, ReliesInv, PrintInv, ReturnInv
<1> QED BY <1>1, <1>3, <1>6, <1>7, <1>10 DEF AnswersInv, ThreadInv

\* The end of a change: every call under way may be about the new model, no
\* start of a range is written, and where rounds are kept, so are the range
\* and the depths.
LEMMA EndAnswers ==
  ASSUME AnswersInv, StageInv, LockInv, Orderly(setup), NEW t \in Threads, t \in Writers,
         call[t].op \in Changes, Goto(t, "return"),
         answer' = [answer EXCEPT ![t] = [NoAnswer EXCEPT !.status = "changed"]],
         UNCHANGED <<setup, models_initialized, inner, fast, call>>,
         \A u \in Threads \ {t} : local'[u] = local[u],
         DOMAIN possible' = Threads, range'.start = 0,
         \A u \in Threads : pc[u] # "idle" => /\ possible[u] \subseteq possible'[u]
                                             /\ Asked(Model', call[u]) \in possible'[u],
         KeepsRounds(setup) => Len(Model') = Len(Model) /\ range' = range /\ Deeper(Model, Model')
  PROVE  AnswersInv'
<1> DEFINE new == [NoAnswer EXCEPT !.status = "changed"]
<1>1. /\ pc[t] # "idle" /\ pc'[t] = "return" /\ answer'[t] = new /\ DOMAIN answer' = Threads
      /\ \A u \in Threads \ {t} : pc'[u] = pc[u] /\ answer'[u] = answer[u]
  BY DEF Goto, StageInv, AnswersInv, Writers, Altering
<1>2. new.status = "changed"
  BY DEF NoAnswer
<1> HIDE DEF new
<1>3. Readers = {}
  BY DEF LockInv
<1>4. KeptInv'
  <2>1. \A y \in Types : inner'[y].made =>
          KeepsRounds(setup) /\ range'.num = Len(Model') /\ inner'[y].told = Len(Model')
    BY DEF AnswersInv, KeptInv, IsWhole
  <2>2. \A f \in FastConfigs : fast'[f].made =>
          KeepsRounds(setup) /\ range'.num = Len(Model') /\ fast'[f].told = Len(Model')
    BY DEF AnswersInv, KeptInv, IsWhole
  <2>3. /\ inner'["contrib"].made => models_initialized'
        /\ KeepsRounds(setup) /\ models_initialized' => \A i \in DOMAIN Model' : Model'[i].depth
    BY DEF AnswersInv, KeptInv, Deeper
  <2> QED BY <2>1, <2>2, <2>3 DEF KeptInv, IsWhole
<1>5. ASSUME NEW u \in Threads PROVE CallInv(u)'
  BY <1>1 DEF AnswersInv, ThreadInv, CallInv
<1>6. ASSUME NEW u \in Threads PROVE ReliesInv(u)'
  <2>1. CASE u = t
    BY <2>1, <1>1 DEF ReliesInv
  <2>2. CASE u # t
    <3>1. pc'[u] = pc[u] /\ call'[u] = call[u] /\ local'[u] = local[u] /\ ReliesInv(u)
      BY <1>1, <2>2 DEF AnswersInv, ThreadInv
    <3>2. ~(pc[u] \in {"num", "start", "depths", "row"} /\ call[u].op = "predict")
      BY <1>3 DEF Readers, Ranging, Shared
    <3>3. pc[u] # "start"
      BY <3>2 DEF StageInv, Ranging
    <3> QED BY <3>1, <3>2, <3>3 DEF ReliesInv
  <2> QED BY <2>1, <2>2
<1>7. ASSUME NEW u \in Threads PROVE PrintInv(u)'
  <2>1. CASE u = t
    BY <2>1, <1>1 DEF PrintInv
  <2>2. CASE u # t
    <3>1. pc[u] # "print"
      <4> SUFFICES ASSUME pc[u] = "print" PROVE FALSE
        OBVIOUS
      <4>1. call[u].op = "save"
        BY DEF StageInv
      <4> QED BY <1>1, <2>2, <4>1, SavesAreApart
    <3> QED BY <1>1, <2>2, <3>1 DEF PrintInv
  <2> QED BY <2>1, <2>2
<1>8. ASSUME NEW u \in Threads PROVE ReturnInv(u)'
  <2>1. CASE u = t
    BY <2>1, <1>1, <1>2 DEF ReturnInv
  <2>2. CASE u # t
    <3>1. /\ pc'[u] = pc[u] /\ call'[u] = call[u] /\ answer'[u] = answer[u] /\ ReturnInv(u)
          /\ pc[u] = "return" => possible[u] \subseteq possible'[u]
      BY <1>1, <2>2 DEF AnswersInv, ThreadInv
    <3> QED BY <3>1 DEF ReturnInv, Right
  <2> QED BY <2>1, <2>2
<1> QED BY <1>1, <1>4, <1>5, <1>6, <1>7, <1>8 DEF AnswersInv, ThreadInv

\* A change of one tree is known to every call under way.
LEMMA ChangeIsKnown ==
  ASSUME AnswersInv, NEW t \in Threads, Change(t), Model = models, Model' = models'
  PROVE  /\ DOMAIN possible' = Threads
         /\ \A u \in Threads : pc[u] # "idle" => /\ possible[u] \subseteq possible'[u]
                                                /\ Asked(Model', call[u]) \in possible'[u]
<1>1. Becomes(models') \/ UNCHANGED <<models, possible>>
  <2>1. Train \/ Rollback \/ SetLeafValue
    BY DEF Change
  <2>2. CASE Train
    BY <2>2 DEF Train, Becomes
  <2>3. CASE Rollback
    BY <2>3 DEF Rollback, Becomes
  <2>4. CASE SetLeafValue
    BY <2>4 DEF SetLeafValue, Becomes
  <2> QED BY <2>1, <2>2, <2>3, <2>4
<1>2. CASE Becomes(models')
  BY <1>2 DEF Becomes
<1>3. CASE UNCHANGED <<models, possible>>
  BY <1>3 DEF AnswersInv, ThreadInv, CallInv
<1> QED BY <1>1, <1>2, <1>3

\* Of these changes only a new leaf value keeps the rounds, and the depths.
LEMMA KeepingRounds ==
  ASSUME ModelTypes, NEW t \in Threads, Change(t),
         call[t].op \notin {"train", "rollback", "merge"}
  PROVE  Len(models') = Len(models) /\ Deeper(models, models')
<1>1. SetLeafValue
  BY DEF Change
<1>2. CASE models = <<>>
  BY <1>1, <1>2, DeeperSelf DEF SetLeafValue
<1>3. CASE models # <<>>
  <2>1. PICK i \in DOMAIN models : models' = [models EXCEPT ![i].id = made + 1]
    BY <1>1, <1>3 DEF SetLeafValue, Becomes
  <2>2. models \in Seq(Tree) /\ made \in Nat
    BY DEF ModelTypes
  <2>3. i \in 1..Len(models) /\ made + 1 \in Nat
    BY <2>2
  <2>4. models' = Renumbered(models, i, made + 1)
    BY <2>1 DEF Renumbered
  <2> QED BY <2>2, <2>3, <2>4, RenumberedTypes
<1> QED BY <1>2, <1>3

LEMMA ChangeAnswers ==
  ASSUME AnswersInv, StageInv, ModelTypes, LockInv, Orderly(setup), NEW t \in Threads, Change(t)
  PROVE  AnswersInv'
<1>1. /\ pc[t] = "locked" /\ Goto(t, "return") /\ call[t].op \in Changes
      /\ answer' = [answer EXCEPT ![t] = [NoAnswer EXCEPT !.status = "changed"]]
      /\ UNCHANGED <<setup, range, models_initialized, inner, fast, call, local>>
  BY DEF Change, Changed, Changes
<1>2. Model = models /\ Model' = models'
  BY ChangeTypes
<1>3. t \in Writers /\ range'.start = 0
  BY <1>1 DEF Writers, AnswersInv, KeptInv
<1>4. /\ DOMAIN possible' = Threads
      /\ \A u \in Threads : pc[u] # "idle" => /\ possible[u] \subseteq possible'[u]
                                             /\ Asked(Model', call[u]) \in possible'[u]
  BY <1>2, ChangeIsKnown
<1>5. KeepsRounds(setup) =>
        Len(Model') = Len(Model) /\ range' = range /\ Deeper(Model, Model')
  <2> SUFFICES ASSUME KeepsRounds(setup) PROVE Len(models') = Len(models) /\ Deeper(models, models')
    BY <1>1, <1>2
  <2>1. call[t].op \notin {"train", "rollback", "merge"}
    BY <1>1, Plans
  <2> QED BY <2>1, KeepingRounds
<1> QED BY <1>1, <1>3, <1>4, <1>5, EndAnswers

\* In the middle of a change everybody else goes on with the old model.
LEMMA LoopAnswers ==
  ASSUME AnswersInv, StageInv, FillInv, ModelTypes, Counters, LockInv, NEW t \in Threads,
         \/ MergeFrom(t) \/ ShuffleModels(t) \/ RefitTree(t)
         \/ SwapIndices(t) \/ Swapped(t) \/ Refill(t) \/ RefitOne(t)
  PROVE  AnswersInv'
<1>1. Model' = Model
  BY StartTypes, LoopTypes
<1>2. /\ pc[t] \in Altering \cup {"locked"} /\ pc'[t] \in Altering
      /\ UNCHANGED <<setup, range, models_initialized, inner, fast, call, answer, possible>>
      /\ \A u \in Threads \ {t} : pc'[u] = pc[u] /\ local'[u] = local[u]
  BY DEF MergeFrom, ShuffleModels, RefitTree, SwapIndices, Swapped, Refill, RefitOne, Goto,
         StageInv, Altering, booster, model, work, Counters
<1>3. CallInv(t)'
  BY <1>1, <1>2 DEF AnswersInv, ThreadInv, CallInv, Altering
<1>4. ReliesInv(t)' /\ PrintInv(t)'
  BY <1>2 DEF ReliesInv, PrintInv, Altering
<1>5. ReturnInv(t)'
  BY <1>2 DEF AnswersInv, ThreadInv, ReturnInv, Altering
<1>6. DOMAIN possible' = Threads /\ DOMAIN answer' = Threads
  BY <1>2 DEF AnswersInv
<1> QED BY <1>1, <1>2, <1>3, <1>4, <1>5, <1>6, OwnKeeps DEF ThreadInv

\* The end of a change of all trees.
LEMMA FilledAnswers ==
  ASSUME AnswersInv, StageInv, FillInv, ModelTypes, Counters, LockInv, Orderly(setup),
         NEW t \in Threads, Refilled(t) \/ Refitted(t)
  PROVE  AnswersInv'
<1>1. /\ pc[t] \in {"refill", "refit"} /\ Goto(t, "return") /\ Becomes(models)
      /\ answer' = [answer EXCEPT ![t] = [NoAnswer EXCEPT !.status = "changed"]]
      /\ UNCHANGED <<setup, models_initialized, inner, fast, call>>
      /\ \A u \in Threads \ {t} : local'[u] = local[u]
      /\ \/ range' = range
         \/ call[t].op = "merge" /\ range' = [range EXCEPT !.num = Len(models)]
  BY DEF Refilled, Refitted, Changed, Counters
<1>2. /\ Model' = models
      /\ call[t].op # "merge" => Len(Model') = Len(Model) /\ Deeper(Model, Model')
  BY EndTypes
<1>3. t \in Writers /\ call[t].op \in {"merge", "shuffle", "refit"}
  BY <1>1 DEF Writers, Altering, StageInv
<1>4. range'.start = 0
  BY <1>1 DEF AnswersInv, KeptInv, ModelTypes
<1>5. /\ DOMAIN possible' = Threads
      /\ \A u \in Threads : pc[u] # "idle" => /\ possible[u] \subseteq possible'[u]
                                             /\ Asked(Model', call[u]) \in possible'[u]
  BY <1>1, <1>2 DEF Becomes
<1>6. KeepsRounds(setup) =>
        Len(Model') = Len(Model) /\ range' = range /\ Deeper(Model, Model')
  <2> SUFFICES ASSUME KeepsRounds(setup) PROVE call[t].op # "merge"
    BY <1>1, <1>2
  <2> QED BY <1>1, Plans
<1>7. call[t].op \in Changes
  BY <1>3 DEF Changes
<1> QED BY <1>1, <1>3, <1>4, <1>5, <1>6, <1>7, EndAnswers

LEMMA AnswersStart ==
  ASSUME Init PROVE AnswersInv
<1>1. /\ DOMAIN possible = Threads /\ DOMAIN answer = Threads
      /\ \A t \in Threads : pc[t] = "idle" /\ answer[t] = NoAnswer
      /\ range.start = 0 /\ models_initialized = FALSE
  BY DEF Init
<1>2. (\A y \in Types : ~inner[y].made) /\ \A f \in FastConfigs : ~fast[f].made
  BY DEF Init, None
<1>3. KeptInv
  BY <1>1, <1>2 DEF KeptInv, Types
<1>4. \A t \in Threads : ThreadInv(t)
  BY <1>1 DEF ThreadInv, CallInv, ReliesInv, PrintInv, ReturnInv
<1> QED BY <1>1, <1>3, <1>4 DEF AnswersInv

LEMMA AnswersStep ==
  ASSUME IInv, Orderly(setup), AnswersInv, [Next]_vars PROVE AnswersInv'
<1>1. CASE UNCHANGED vars
  <2>1. Model' = Model /\ UNCHANGED vars
    BY <1>1 DEF vars, Model, Changing
  <2> QED BY <2>1 DEF vars, AnswersInv, KeptInv, IsWhole, ThreadInv, CallInv, ReliesInv, PrintInv,
             ReturnInv
<1>2. CASE Next
  <2> USE DEF IInv, LocksInv
  <2>1. PICK t \in Threads : Begin(t) \/ Continue(t)
    BY <1>2 DEF Next
  <2>2. CASE Begin(t)
    BY <2>2, BeginAnswers
  <2>3. CASE TakeForWriting(t, "write lock", BoosterMutex, "locked")
    BY <2>3, LockAnswers DEF TakeForWriting, Waiting
  <2>4. CASE TakeForWriting(t, "write lock again", BoosterMutex, "row")
    BY <2>4, LockAnswers DEF TakeForWriting, Waiting
  <2>5. CASE TakeForWriting(t, "own lock", call[t].handle, "read lock")
    BY <2>5, LockAnswers DEF TakeForWriting, Waiting
  <2>6. CASE TakeForReading(t)
    BY <2>6, LockAnswers DEF TakeForReading, Waiting
  <2>7. CASE BetweenLocks(t)
    BY <2>7, LockAnswers DEF BetweenLocks
  <2>8. CASE Change(t)
    BY <2>8, ChangeAnswers
  <2>9. CASE SetSingleRowPredictorInner(t)
    BY <2>9, SingleAnswers
  <2>10. CASE InitSingleRowPredictor(t)
    BY <2>10, FastAnswers
  <2>11. CASE InitPredictTotal(t) \/ InitPredictNum(t) \/ InitPredictStart(t)
    BY <2>11, RangeAnswers
  <2>12. CASE InitPredictDepths(t)
    BY <2>12, DepthAnswers
  <2>13. CASE PredictRow(t)
    BY <2>13, RowAnswers
  <2>14. CASE SaveCount(t) \/ SavePrint(t) \/ SaveJoin(t)
    BY <2>14, SaveAnswers
  <2>15. CASE Return(t)
    BY <2>15, ReturnAnswers
  <2>16. CASE \/ MergeFrom(t) \/ ShuffleModels(t) \/ RefitTree(t)
              \/ SwapIndices(t) \/ Swapped(t) \/ Refill(t) \/ RefitOne(t)
    BY <2>16, LoopAnswers
  <2>17. CASE Refilled(t) \/ Refitted(t)
    BY <2>17, FilledAnswers
  <2> QED BY <2>1, <2>2, <2>3, <2>4, <2>5, <2>6, <2>7, <2>8, <2>9, <2>10, <2>11, <2>12, <2>13,
             <2>14, <2>15, <2>16, <2>17 DEF Continue
<1> QED BY <1>1, <1>2

(***************************************************************************)
(* If clients predict and save the whole model, either leave the number of *)
(* its rounds alone or predict in batches only (not contributions), and no *)
(* thread may change a model while another one may be saving it (saving    *)
(* takes no lock), then every prediction and every saved model is made of  *)
(* the rounds asked for, of one whole model there was during the call, and *)
(* a prediction of leaves writes as many numbers as it told: whatever the  *)
(* interleaving, although batches write the booster's range under a lock   *)
(* held for reading, and although models are shuffled, merged and refitted *)
(* tree by tree (c_api.cpp, Predict, PredictSingleRow, SaveModelToString;  *)
(* GBDT::InitPredict; gbdt.h, ShuffleModels).                              *)
(***************************************************************************)
THEOREM OrderlyAnswers ==
  ASSUME \A s \in Setups : Orderly(s)
  PROVE  Spec => []AnswersAsAsked
<1>1. Init => AnswersInv
  BY AnswersStart
<1>2. IInv /\ AnswersInv /\ [Next]_vars => AnswersInv'
  BY AnswersStep DEF IInv
<1>3. AnswersInv => AnswersAsAsked
  <2> SUFFICES ASSUME AnswersInv, NEW t \in Threads
               PROVE  /\ answer[t].status \notin {"none", "changed", "printing"} =>
                           answer[t].status = "done" /\ answer[t].trees \in possible[t]
                      /\ answer[t].status = "done" /\ call[t].op # "save" /\ call[t].type = "leaf" =>
                           Len(answer[t].trees) = answer[t].told
    BY DEF AnswersAsAsked, PredictsAsAsked, WritesWhatItTold
  <2>1. ReturnInv(t)
    BY DEF AnswersInv, ThreadInv
  <2>2. NoAnswer.status = "none"
    BY DEF NoAnswer
  <2>3. pc[t] = "print" => answer[t].status = "printing"
    BY DEF AnswersInv, ThreadInv, PrintInv, Printing
  <2> QED BY <2>1, <2>2, <2>3 DEF ReturnInv, Right
<1> QED BY <1>1, <1>2, <1>3, Inductive, PTL DEF Spec
=============================================================================
