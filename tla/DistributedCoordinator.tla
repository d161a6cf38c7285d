----------------------- MODULE DistributedCoordinator -----------------------
(***************************************************************************)
(* DistributedCoordinator (src/src/DistributedCoordinator.cpp): compute    *)
(* nodes with their loads and the tasks placed on them, under a lock each. *)
(* submitTask picks a node and raises its load under the first lock and    *)
(* records the task under the second.                                      *)
(*                                                                         *)
(* Every registered node is active, health checks find nothing to do, and  *)
(* nothing ever lowers a load or completes a task: updateNodeLoad is       *)
(* private and called from nowhere, and completed is never set.            *)
(***************************************************************************)
EXTENDS Integers, StdContainers

CONSTANTS
  Workers,      \* ids of compute nodes, in their order
  Submitters,   \* threads that submit tasks
  PlacedIds,    \* generateTaskId's: one may be drawn again
  MaxLoad       \* bound: the load of a node

ASSUME DistributedAssumption == Workers \subseteq Nat /\ MaxLoad \in Nat

VARIABLES
  load,         \* nodes_: current_load of each node
  placed,       \* tasks_: assigned_node of each task
  submitting,   \* the node each thread's submitTask has picked, if any
  halting,      \* shutdown() has yet to clear the tasks
  joined        \* history: per node, the loads of all when it was registered

distributedVars == <<load, placed, submitting, halting, joined>>

LoadOf(n) == IF n \in DOMAIN load THEN load[n] ELSE 0
-----------------------------------------------------------------------------
RegisterNode(n) ==
  /\ n \notin DOMAIN load
  /\ load' = With(load, n, 0)
  /\ joined' = [m \in Workers |-> [k \in Workers |->
                  IF m = n THEN LoadOf(k) ELSE IF k = n THEN 0 ELSE joined[m][k]]]
  /\ UNCHANGED <<placed, submitting, halting>>

\* Its tasks stay placed on it
UnregisterNode(n) ==
  /\ n \in DOMAIN load
  /\ load' = Without(load, {n})
  /\ UNCHANGED <<placed, submitting, halting, joined>>

\* The first of the least loaded
MutantAnyNode(n) == TRUE
IsChoice(n) ==
  \A m \in DOMAIN load : load[n] <= load[m] /\ (load[n] = load[m] => n <= m)

PickNode(s, n) ==
  /\ submitting[s] = {}
  /\ n \in DOMAIN load /\ IsChoice(n) /\ load[n] < MaxLoad
  /\ load' = With(load, n, load[n] + 1)
  /\ submitting' = [submitting EXCEPT ![s] = {n}]
  /\ UNCHANGED <<placed, halting, joined>>

PlaceTask(s, t) ==
  /\ \E n \in submitting[s] : placed' = With(placed, t, n)
  /\ submitting' = [submitting EXCEPT ![s] = {}]
  /\ UNCHANGED <<load, halting, joined>>

Halt ==
  /\ ~halting
  /\ load' = NoKeys /\ halting' = TRUE
  /\ UNCHANGED <<placed, submitting, joined>>

ForgetTasks ==
  /\ halting
  /\ placed' = NoKeys /\ halting' = FALSE
  /\ UNCHANGED <<load, submitting, joined>>
-----------------------------------------------------------------------------
DistributedInit ==
  /\ load = NoKeys /\ placed = NoKeys /\ halting = FALSE
  /\ submitting = [s \in Submitters |-> {}]
  /\ joined = [m \in Workers |-> [k \in Workers |-> 0]]

MembershipStep == \/ \E n \in Workers : RegisterNode(n) \/ UnregisterNode(n)
                  \/ Halt \/ ForgetTasks
SubmissionStep ==
  \E s \in Submitters :
    \/ \E n \in Workers : PickNode(s, n)
    \/ \E t \in PlacedIds : PlaceTask(s, t)

DistributedNext == MembershipStep \/ SubmissionStep
DistributedSpec == DistributedInit /\ [][DistributedNext]_distributedVars
-----------------------------------------------------------------------------
\* Whoever submits, and whoever joins or leaves meanwhile, a node has at most one task
\* more than another, or no more than it had when the other joined: the selection and
\* the new load are "under one lock to avoid TOCTOU races" (submitTask).
SpreadByOne ==
  \A n, m \in DOMAIN load : load[n] <= load[m] + 1 \/ load[n] <= joined[m][n]
=============================================================================
