------------------------------ MODULE Linkers -------------------------------
(***************************************************************************)
(* How machines connect (src/src/network/linkers_socket.cpp).  Processes   *)
(* start at any time.  A machine listens, connects to every larger rank    *)
(* and waits until as many smaller ranks have connected to it as there     *)
(* are.  A connection that is refused or fails is tried again after a      *)
(* delay, a fixed number of times; then the machine goes on without the    *)
(* link.  A listener whose peers stay away times out, which ends its       *)
(* process.                                                                *)
(***************************************************************************)
EXTENDS Integers, Sequences, FiniteSets, SequencesExt

CONSTANTS
  RetryCnt  \* connect_fail_retry_cnt

VARIABLES
  world,      \* fixed: n, num_machines_; patient, whether time_out exceeds the
              \* time in which all machines start and retry; linked, whether
              \* they are connected at the beginning
  phase,      \* "off", "up" (in Construct), "ready" (returned) or "dead"
  todo,       \* larger ranks the machine has yet to connect to
  target,     \* the one it is trying, or its own rank
  tries,      \* failed attempts at it
  backlog,    \* ranks connected to the listener and not yet accepted
  connected,  \* connected_cnt of the listening thread
  link        \* ranks with a socket in linkers_

link_vars == <<phase, todo, target, tries, backlog, connected, link>>

Peers == 0..(world.n - 1)
Larger(m) == {r \in Peers : r > m}
Smaller(m) == {r \in Peers : r < m}

\* How many machines the listening thread waits for.
\* Mutant: one too few.
IncomingCnt_Fewer(m) == IF m = 0 THEN 0 ELSE m - 1
IncomingCnt(m) == Cardinality(Smaller(m))

\* Larger ranks a machine has stopped trying to reach.
GaveUp(m) == IF phase[m] = "off" THEN {} ELSE Larger(m) \ (todo[m] \cup link[m])

\* The listener is open from Listen until Construct has returned.
Listening(r) == phase[r] = "up"

-----------------------------------------------------------------------------
(* Actions *)

LinkersInit ==
  /\ phase = [m \in Peers |-> IF world.linked THEN "ready" ELSE "off"]
  /\ todo = [m \in Peers |-> {}]
  /\ target = [m \in Peers |-> m]
  /\ tries = [m \in Peers |-> 0]
  /\ backlog = [m \in Peers |-> <<>>]
  /\ connected = [m \in Peers |-> IF world.linked THEN IncomingCnt(m) ELSE 0]
  /\ link = [m \in Peers |-> IF world.linked THEN Peers \ {m} ELSE {}]

\* The process binds its port, listens and starts the listening thread.
Start(m) ==
  /\ phase[m] = "off"
  /\ phase' = [phase EXCEPT ![m] = "up"]
  /\ todo' = [todo EXCEPT ![m] = Larger(m)]
  /\ UNCHANGED <<world, target, tries, backlog, connected, link>>

\* Peers are taken in the order of an unordered map, one after the other.
Tries(m, r) == phase[m] = "up" /\ r \in todo[m] /\ target[m] \in {m, r}

\* Connect succeeds, the rank is sent and SetLinker called.
Connect(m, r) ==
  /\ Tries(m, r) /\ Listening(r)
  /\ backlog' = [backlog EXCEPT ![r] = Append(@, m)]
  /\ link' = [link EXCEPT ![m] = @ \cup {r}]
  /\ todo' = [todo EXCEPT ![m] = @ \ {r}]
  /\ target' = [target EXCEPT ![m] = m]
  /\ tries' = [tries EXCEPT ![m] = 0]
  /\ UNCHANGED <<world, phase, connected>>

\* Connect fails, because nobody listens yet or on the way; after the last
\* attempt the loop goes on to the next peer.
ConnectFails(m, r) ==
  /\ Tries(m, r)
  /\ LET last == tries[m] + 1 = RetryCnt
     IN  /\ tries' = [tries EXCEPT ![m] = IF last THEN 0 ELSE @ + 1]
         /\ target' = [target EXCEPT ![m] = IF last THEN m ELSE r]
         /\ todo' = [todo EXCEPT ![m] = IF last THEN @ \ {r} ELSE @]
  /\ UNCHANGED <<world, phase, backlog, connected, link>>

\* The listening thread accepts a connection and receives the peer's rank.
CanAccept(r) == Listening(r) /\ connected[r] < IncomingCnt(r)
Accept(r) ==
  /\ CanAccept(r) /\ backlog[r] # <<>>
  /\ backlog' = [backlog EXCEPT ![r] = Tail(@)]
  /\ link' = [link EXCEPT ![r] = @ \cup {Head(backlog[r])}]
  /\ connected' = [connected EXCEPT ![r] = @ + 1]
  /\ UNCHANGED <<world, phase, todo, target, tries>>

\* Accept times out: Log::Fatal in the listening thread ends the process.
\* A patient listener outlives every attempt to reach it.
\* Mutant: accept waits without end.
Waits_Forever(r) == TRUE
Waits(r) ==
  world.patient /\ \E m \in Smaller(r) : phase[m] = "off" \/ (phase[m] = "up" /\ r \in todo[m])
AcceptTimesOut(r) ==
  /\ CanAccept(r) /\ backlog[r] = <<>> /\ ~Waits(r)
  /\ phase' = [phase EXCEPT ![r] = "dead"]
  /\ UNCHANGED <<world, todo, target, tries, backlog, connected, link>>

\* Construct joins the listening thread and closes the listener.
Join(m) ==
  /\ phase[m] = "up" /\ todo[m] = {} /\ connected[m] = IncomingCnt(m)
  /\ phase' = [phase EXCEPT ![m] = "ready"]
  /\ UNCHANGED <<world, todo, target, tries, backlog, connected, link>>

LinkStep(m) ==
  \/ Start(m) \/ Join(m) \/ Accept(m) \/ AcceptTimesOut(m)
  \/ \E r \in Peers : Connect(m, r) \/ ConnectFails(m, r)

-----------------------------------------------------------------------------
(* Properties *)

Ended(m) == phase[m] \in {"ready", "dead"}

\* Somebody has stopped trying to reach r.
WasGivenUp(r) == \E m \in Peers : r \in GaveUp(m)

\* Two machines that have both returned from Construct have sockets to each
\* other, although one goes on without a link after its last attempt: its
\* peer does not return.  With a time out that is long enough, no process
\* ends unless somebody gave up.
ReadyAreLinked ==
  /\ \A m, r \in Peers :
       m # r /\ phase[m] = "ready" /\ phase[r] = "ready" => r \in link[m]
  /\ world.patient /\ (\E m \in Peers : phase[m] = "dead") => \E r \in Peers : WasGivenUp(r)

\* Every machine returns from Construct or ends with an error, and one that
\* others gave up on ends with an error: retries, delays and the time out
\* of the listener leave nobody waiting for good.
HandshakeEnds ==
  <>[](\A m \in Peers : Ended(m) /\ (WasGivenUp(m) => phase[m] = "dead"))
=============================================================================
