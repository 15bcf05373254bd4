------------------------------ MODULE Cluster -------------------------------
(***************************************************************************)
(* Network after Linkers: Network::Init (src/src/network/network.cpp)      *)
(* returns on a machine when its own Construct has, and the machine makes  *)
(* its first call while others still accept or retry.  What it sends waits *)
(* in the stream behind its rank.  A machine that went on without a link   *)
(* dereferences a null pointer when a step needs it, and its process ends. *)
(***************************************************************************)
EXTENDS Network

CONSTANTS
  RetryCnt

VARIABLES
  phase, todo, target, tries, backlog, connected, link

Links == INSTANCE Linkers WITH world <- job

link_vars == <<phase, todo, target, tries, backlog, connected, link>>
cluster_vars == <<vars, link_vars>>

ClusterInit == Init /\ Links!LinkersInit

\* ListenThread reads the rank and no more: what is behind it stays.
\* Mutant: it reads what its buffer holds.
AfterRank_Read(s) == <<>>
AfterRank(s) == s

Handshake(m) ==
  /\ UNCHANGED <<job, result, local>>
  /\ Links!LinkStep(m)
  /\ IF connected'[m] = connected[m] THEN UNCHANGED stream
     ELSE stream' = [stream EXCEPT ![Head(backlog[m])][m] = AfterRank(@)]

\* The ranks the current step of m needs; empty messages touch no socket.
Needs(m) ==
  {r \in Machines : \/ r = Step(m).to /\ unsent[m] # <<>>
                    \/ r = Step(m).from /\ missing[m] > 0}
Ready(m) == phase[m] = "ready"
HasLinks(m) == Active(m) => Needs(m) \subseteq link[m]

Works(m) ==
  /\ Ready(m) /\ HasLinks(m)
  /\ Call(m) \/ Push(m) \/ Pull(m) \/ Proceed(m)
  /\ UNCHANGED link_vars

\* A socket that is not there is used.
LacksLink(m) ==
  /\ Ready(m) /\ ~HasLinks(m)
  /\ phase' = [phase EXCEPT ![m] = "dead"]
  /\ UNCHANGED <<vars, todo, target, tries, backlog, connected, link>>

Move(m) == Handshake(m) \/ Works(m) \/ LacksLink(m)

NobodyDied == \A m \in Machines : phase[m] # "dead"

ClusterNext ==
  \/ \E m \in Machines : Move(m)
  \/ (Finished \/ ~NobodyDied) /\ UNCHANGED cluster_vars

\* As long as the handshake can go on, it does; and as long as some call
\* can, one does (weak fairness of Works, with its ENABLED written out).
CanWork == \E m \in Machines : Ready(m) /\ HasLinks(m) /\ CanStep(m)
Fairness ==
  /\ WF_cluster_vars(\E m \in Machines : Handshake(m) \/ LacksLink(m))
  /\ []<>~CanWork \/ []<><<TRUE>>_vars
ClusterSpec == ClusterInit /\ [][ClusterNext]_cluster_vars /\ Fairness

-----------------------------------------------------------------------------
(* Properties *)

\* What Linkers promises, with machines that already use their links.
ReadyAreLinked == Links!ReadyAreLinked
HandshakeEnds == Links!HandshakeEnds

\* Unless a process died, all calls return on all machines: no circle of
\* machines waits for each other, whatever the message sizes, the order of
\* events and how early a machine starts to send.
AllReturn == <>(Finished \/ ~NobodyDied)
=============================================================================
