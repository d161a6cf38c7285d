------------------------- MODULE CoordinationCluster -------------------------
(***************************************************************************)
(* Nodes that run CoordinationProtocol, and peers they hear of that run    *)
(* elsewhere.  The peers elsewhere crash and come back.  Who is alive      *)
(* sends heartbeats, which may be late or lost until the network settles;  *)
(* from then on each arrives before the receiver's next tick, and nobody   *)
(* crashes or comes back.  In each node one thread takes heartbeats and    *)
(* ticks, the others hold elections, over and over.                        *)
(*                                                                         *)
(* No callback is set and the nodes start with everybody registered, as    *)
(* getting to know peers is left to the program around them.               *)
(***************************************************************************)
EXTENDS CoordinationProtocol

CONSTANT Timer   \* the thread that takes heartbeats and ticks

\* With a threshold of 1 every tick would suspect everybody
ASSUME ClusterAssumption == MissedThreshold > 1 /\ Timer \in Threads

VARIABLES
  alive,     \* the peers that run
  settled    \* the network and the peers are calm

clusterState == <<alive, settled>>

NodesStart ==
  /\ up = [n \in ProtocolNodes |-> TRUE] /\ listening = [n \in ProtocolNodes |-> FALSE]
  /\ peers = [n \in ProtocolNodes |-> [p \in Peers |-> Fresh]]
  /\ leader \in [ProtocolNodes -> Peers \cup {0}]   \* none, or one that was set
  /\ offers = [n \in ProtocolNodes |-> NoKeys] /\ ballots = [n \in ProtocolNodes |-> NoKeys]
  /\ todo = [n \in ProtocolNodes |-> [t \in Threads |-> <<>>]]
  /\ heard = [n \in ProtocolNodes |-> NoKeys] /\ mixed = [n \in ProtocolNodes |-> {}]

ClusterStart == NodesStart /\ alive = Peers /\ ~settled

Crash(p) ==
  /\ ~settled /\ p \in alive \ ProtocolNodes
  /\ alive' = alive \ {p}
  /\ UNCHANGED <<settled, protocolVars>>

Return(p) ==
  /\ ~settled /\ p \notin alive
  /\ alive' = alive \cup {p}
  /\ UNCHANGED <<settled, protocolVars>>

Settle ==
  /\ ~settled /\ settled' = TRUE
  /\ UNCHANGED <<alive, protocolVars>>

HeartbeatArrives(n, p) ==
  /\ {n, p} \subseteq alive
  /\ RecordHeartbeat(n, Timer, p)
  /\ UNCHANGED clusterState

IntervalTick(n) ==
  /\ n \in alive
  /\ settled => \A p \in alive : peers[n][p].missed = 0
  /\ TickHeartbeat(n, Timer)
  /\ UNCHANGED clusterState

HoldsElection(n, t) ==
  /\ n \in alive
  /\ ElectLeader(n, t) \/ StoreLeader(n, t)
  /\ UNCHANGED clusterState

CoordinationNext ==
  \/ \E p \in Peers : Crash(p) \/ Return(p)
  \/ Settle
  \/ \E n \in ProtocolNodes :
       \/ \E p \in Peers : HeartbeatArrives(n, p)
       \/ IntervalTick(n)
       \/ \E t \in Threads \ {Timer} : HoldsElection(n, t)

\* Things settle; heartbeats, ticks and elections go on
CoordinationFairness ==
  /\ WF_<<protocolVars, clusterState>>(Settle)
  /\ \A n \in ProtocolNodes :
       /\ \A p \in Peers : WF_<<protocolVars, clusterState>>(HeartbeatArrives(n, p))
       /\ WF_<<protocolVars, clusterState>>(IntervalTick(n))
       /\ \A t \in Threads \ {Timer} : WF_<<protocolVars, clusterState>>(HoldsElection(n, t))

CoordinationSpec ==
  ClusterStart /\ [][CoordinationNext]_<<protocolVars, clusterState>> /\ CoordinationFairness
-----------------------------------------------------------------------------
\* "a simple bully-style election selects one peer as the coordinator": once crashes
\* and late heartbeats have stopped, every node comes to call the smallest of the
\* peers that are alive the leader and never another, whatever elections that looked
\* at the peers before were still to be stored (electLeader's two critical sections).
LeadersAgree == <>[](\A n \in ProtocolNodes \cap alive : leader[n] = Least(alive))
=============================================================================
