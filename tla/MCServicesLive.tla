--------------------------- MODULE MCServicesLive ---------------------------
(***************************************************************************)
(* The components whose promises are of what happens in the end: the       *)
(* agent's loop, a coordination node among peers that crash, the conflict  *)
(* resolver, the core's executor and its agent.  They share nothing, and   *)
(* each behaviour is one of a single component while the others stay as    *)
(* they start.                                                             *)
(***************************************************************************)
EXTENDS AgentLoop, CoordinationCluster, ConflictResolver, CoreActions, CoreAgent

VARIABLES
  part,      \* what this behaviour is about
  callers    \* who calls the loop in it

calledVars == <<loopVars, callers>>

(***************************************************************************)
(* Percepts and tasks meet in the loop's phases only, never each other, so *)
(* a behaviour has callers of one kind: percepts under every cycle limit   *)
(* and with cycles run by hand, tasks for a loop without a limit, or tasks *)
(* for cycles run by hand.                                                 *)
(***************************************************************************)
CalledInit == LoopInit /\ callers \in {"percepts", "tasks", "by hand"} /\ (callers # "percepts" => maxCycles = 0)

CalledNext ==
  /\ \/ callers = "percepts" /\ (PerceptStep \/ OwnerStep)
     \/ callers = "tasks" /\ (TaskStep \/ (OwnerStep /\ runs' = 0))
     \/ callers = "by hand" /\ (TaskStep \/ (OwnerStep /\ ~running'))
     \/ CycleStep
  /\ UNCHANGED callers
-----------------------------------------------------------------------------

\* Components a behaviour is not about have nothing to do: nobody calls the loop or
\* the resolver, and no peer runs
LiveInit ==
  /\ CalledInit /\ NodesStart /\ ResolverInit /\ CoreInit /\ CoreAgentInit
  /\ part \in {"loop", "cluster", "resolver", "core", "agent"}
  /\ part # "loop" => callers = "tasks"
  /\ part # "resolver" => rule = "FAIRNESS_WEIGHTED"
  /\ alive = IF part = "cluster" THEN Peers ELSE {}
  /\ settled = (part # "cluster")
  /\ part # "cluster" => \A n \in ProtocolNodes : leader[n] = 0

\* An executor without a scheduler, whose actions fail: what else a callback returns is
\* stored like that and read by the scheduler only
CorePart ==
  CoreNext /\ \A t \in CoreThreads : turns'[t].at # "submitting" /\ turns'[t].result \in {NoStatus, "FAILED"}

LiveNext ==
  /\ \/ part = "loop" /\ CalledNext /\ UNCHANGED <<protocolVars, clusterState, resolverVars, coreVars, coreAgentVars>>
     \/ part = "cluster" /\ CoordinationNext /\ UNCHANGED <<calledVars, resolverVars, coreVars, coreAgentVars>>
     \/ part = "resolver" /\ ResolverNext /\ UNCHANGED <<calledVars, protocolVars, clusterState, coreVars, coreAgentVars>>
     \/ part = "core" /\ CorePart /\ UNCHANGED <<calledVars, protocolVars, clusterState, resolverVars, coreAgentVars>>
     \/ part = "agent" /\ CoreAgentNext /\ UNCHANGED <<calledVars, protocolVars, clusterState, resolverVars, coreVars>>
  /\ UNCHANGED part

LiveSpec ==
  /\ LiveInit /\ [][LiveNext]_<<calledVars, protocolVars, clusterState, resolverVars, coreVars, coreAgentVars, part>>
  /\ LoopFairness /\ CoordinationFairness /\ ResolverFairness /\ CoreFairness /\ CoreAgentFairness
-----------------------------------------------------------------------------
\* What the core accepts comes to its end: actions in the executor, tasks in the agent's
\* queue, the calls of the agent's owner.
CoreMoves == QueueMoves /\ CoreAgentServes
=============================================================================
