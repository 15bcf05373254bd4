---------------------------- MODULE SharedMutex ----------------------------
(***************************************************************************)
(* yamc::alternate::shared_mutex with the policy ReaderPrefer: the         *)
(* reader-writer lock of a booster and of a fast single-row predictor.     *)
(* mtx_ makes each operation atomic up to its cv_.wait; a thread that      *)
(* waits is in waiting until somebody notifies, and then looks again.      *)
(*                                                                         *)
(* A lock is a record, so that a caller may hold several.                  *)
(***************************************************************************)
EXTENDS Integers

\* The two parts of rwcount, and the threads asleep in cv_.wait.
LockState(Threads) == [writer : BOOLEAN, readers : Nat, waiting : SUBSET Threads]

Unlocked == [writer |-> FALSE, readers |-> 0, waiting |-> {}]

\* ReaderPrefer::wait_wlock and wait_rlock.
WriterWaits(l) == l.writer \/ l.readers # 0
ReaderWaits(l) == l.writer

Wait(l, t) == [l EXCEPT !.waiting = @ \cup {t}]
NotifyAll(l) == [l EXCEPT !.waiting = {}]

\* What lock and lock_shared leave behind when thread t looks.
LookedForWriting(l, t) ==
  IF WriterWaits(l) THEN Wait(l, t) ELSE [l EXCEPT !.writer = TRUE]
LookedForReading(l, t) ==
  IF ReaderWaits(l) THEN Wait(l, t) ELSE [l EXCEPT !.readers = @ + 1]

WriterReleased(l) == NotifyAll([l EXCEPT !.writer = FALSE])

\* Mutant: the last reader leaves without waking a writer.
ReaderReleased_Silent(l) == [l EXCEPT !.readers = @ - 1]

ReaderReleased(l) ==
  IF l.readers = 1 THEN NotifyAll([l EXCEPT !.readers = 0])
                   ELSE [l EXCEPT !.readers = @ - 1]
=============================================================================
