--------------------------- MODULE ClusterManager ---------------------------
(***************************************************************************)
(* ClusterManager (src/src/ClusterManager.cpp): the nodes of a cluster     *)
(* with their health, and the record of each agent's last migration.       *)
(* Nodes and records have a lock each: initiateMigration checks the nodes  *)
(* before it looks at the record, and receiveMigration marks the record,   *)
(* looks at the state it was sent, then marks the record again.            *)
(*                                                                         *)
(* Capabilities and usage are only reported and left out.  A state without *)
(* an agent's name is refused before anything changes, so states are of    *)
(* one agent and either have all required fields or not.                   *)
(***************************************************************************)
EXTENDS FiniteSets, StdContainers

CONSTANTS
  ClusterNodes,
  Agents,
  Callers      \* threads that call initiateMigration and receiveMigration

VARIABLES
  clusterNodes,  \* nodes_: per node, is_responsive and whether its heartbeat is over 60 s old
  migrations,    \* migrations_: per agent, status and the state received
  calling,       \* what each caller is in the middle of
  overlapped     \* agents whose record two receives were working on at once, since it was new

clusterVars == <<clusterNodes, migrations, calling, overlapped>>

States == {"good", "broken"}
Idle == [at |-> "idle"]
Open(a) == a \in DOMAIN migrations /\ migrations[a].status \in {"PENDING", "IN_PROGRESS"}
Receiving(a) == {c \in Callers : calling[c].at = "received" /\ calling[c].agent = a}
-----------------------------------------------------------------------------
(* Nodes *)

AddNode(n) ==
  /\ n \notin DOMAIN clusterNodes
  /\ clusterNodes' = With(clusterNodes, n, [responsive |-> TRUE, late |-> FALSE])
  /\ UNCHANGED <<migrations, calling, overlapped>>

RemoveNodes(N) ==
  /\ clusterNodes' = Without(clusterNodes, N)
  /\ UNCHANGED <<migrations, calling, overlapped>>

UpdateNodeHealth(n, responsive) ==
  /\ clusterNodes' = [clusterNodes EXCEPT ![n] = [responsive |-> responsive, late |-> FALSE]]
  /\ UNCHANGED <<migrations, calling, overlapped>>

\* A minute without an update
HeartbeatAges(n) ==
  /\ clusterNodes' = [clusterNodes EXCEPT ![n].late = TRUE]
  /\ UNCHANGED <<migrations, calling, overlapped>>

PerformHealthCheck ==
  /\ clusterNodes' = [n \in DOMAIN clusterNodes |->
                        [clusterNodes[n] EXCEPT !.responsive = ~clusterNodes[n].late]]
  /\ UNCHANGED <<migrations, calling, overlapped>>
-----------------------------------------------------------------------------
(* Migrations *)

CheckNodes(c, source, target, a) ==
  /\ calling[c] = Idle
  /\ {source, target} \subseteq DOMAIN clusterNodes
  /\ clusterNodes[source].responsive /\ clusterNodes[target].responsive
  /\ calling' = [calling EXCEPT ![c] = [at |-> "checked", agent |-> a]]
  /\ UNCHANGED <<clusterNodes, migrations, overlapped>>

\* The new record has no state.  A receive of the old one may still be at work
MutantReplace(a) == TRUE
MayInitiate(a) == ~Open(a)
RecordMigration(c) ==
  /\ calling[c].at = "checked"
  /\ LET a == calling[c].agent
     IN IF MayInitiate(a)
        THEN /\ migrations' = With(migrations, a, [status |-> "PENDING", state |-> "none"])
             /\ overlapped' = IF Receiving(a) = {} THEN overlapped \ {a} ELSE overlapped
        ELSE UNCHANGED <<migrations, overlapped>>
  /\ calling' = [calling EXCEPT ![c] = Idle]
  /\ UNCHANGED clusterNodes

\* A record is marked whatever its status, and made if there is none
StartReceive(c, a, s) ==
  /\ calling[c] = Idle
  /\ migrations' = With(migrations, a, [status |-> "IN_PROGRESS", state |-> s])
  /\ overlapped' = IF Receiving(a) = {} THEN overlapped \ {a} ELSE overlapped \cup {a}
  /\ calling' = [calling EXCEPT ![c] = [at |-> "received", agent |-> a, state |-> s]]
  /\ UNCHANGED clusterNodes

\* The record is not the one StartReceive marked if another call replaced it since
MutantStuck(s) == IF s = "good" THEN "COMPLETED" ELSE "IN_PROGRESS"
Verdict(s) == IF s = "good" THEN "COMPLETED" ELSE "FAILED"
FinishReceive(c) ==
  /\ calling[c].at = "received"
  /\ migrations' = [migrations EXCEPT ![calling[c].agent].status = Verdict(calling[c].state)]
  /\ calling' = [calling EXCEPT ![c] = Idle]
  /\ UNCHANGED <<clusterNodes, overlapped>>
-----------------------------------------------------------------------------
ClusterInit ==
  /\ clusterNodes = NoKeys /\ migrations = NoKeys /\ overlapped = {}
  /\ calling = [c \in Callers |-> Idle]

NodeStep ==
  \/ \E n \in ClusterNodes : AddNode(n)
  \/ \E n \in DOMAIN clusterNodes :
       \/ RemoveNodes({n})
       \/ \E responsive \in BOOLEAN : UpdateNodeHealth(n, responsive)
       \/ HeartbeatAges(n)
  \/ PerformHealthCheck
  \/ RemoveNodes(DOMAIN clusterNodes)   \* shutdown, which keeps the records

CallStep(c) ==
  \/ \E n, m \in ClusterNodes, a \in Agents : CheckNodes(c, n, m, a)
  \/ RecordMigration(c)
  \/ \E a \in Agents, s \in States : StartReceive(c, a, s)
  \/ FinishReceive(c)

ClusterNext == NodeStep \/ \E c \in Callers : CallStep(c)
ClusterSpec == ClusterInit /\ [][ClusterNext]_clusterVars
-----------------------------------------------------------------------------
\* A record is in progress only while somebody is receiving it: no receive leaves one
\* that will never settle, and so bar the agent from moving; a completed migration holds a state
\* that was complete, unless two receives of one agent overlapped
\* (receiveMigration's two critical sections, and initiateMigration between them).
MigrationsSettle ==
  \A a \in DOMAIN migrations :
    /\ migrations[a].status = "IN_PROGRESS" => Receiving(a) # {}
    /\ migrations[a].status = "COMPLETED" /\ a \notin overlapped => migrations[a].state = "good"
=============================================================================
