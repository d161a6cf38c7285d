------------------------------ MODULE CoreAgent ------------------------------
(***************************************************************************)
(* AgentZeroCore, CognitiveLoop and TaskManager of agentzero-core          *)
(* (src/agentzero-core/src/), other classes than those of AgentLoop: the   *)
(* TaskManager has a lock, released around a task's action, so that        *)
(* threads may execute tasks beside the loop; the loop looks at its limit  *)
(* before a cycle and executes all there is to execute in one.             *)
(*                                                                         *)
(* The agent is initialized, with all components.  One owner starts, stops *)
(* and rewires it; anybody adds percepts and tasks, actions of tasks too,  *)
(* but no action calls the owner's operations, which would join its own    *)
(* thread.  One of the other threads may run a cycle by hand while nobody  *)
(* starts or rewires the agent and no loop runs, which would be a data     *)
(* race.  Goals, progress and the atoms that mirror tasks and cycles are   *)
(* left out, as is processCognitiveStep, which executes nothing.           *)
(***************************************************************************)
EXTENDS Naturals, SequencesExt, StdContainers

CONSTANTS
  CoreLoop,         \* the loop's thread
  CoreHands,        \* other threads that execute tasks
  TaskPriorities,   \* 0 is the highest
  CycleLimit,       \* _max_cycles
  MaxCoreTasks, MaxEnqueued, MaxCorePercepts, MaxRewired   \* bounds

ASSUME CoreAgentAssumption == CoreLoop \notin CoreHands /\ TaskPriorities \subseteq Nat /\ CycleLimit \in Nat

VARIABLES
  coreTasks,     \* TaskManager::_tasks, by id: [priority, status]
  taskQueue,     \* _queue, of ids
  doing,         \* per thread, the task whose action it is in, 0 for none
  loopAt,        \* where the loop's thread is; "none" is one that is not joinable
  loopOn,        \* CognitiveLoop::_running
  agentOn,       \* AgentZeroCore::_running
  ownerAt,       \* the owner waits in a join: "starting", "stopping" or "rewiring"
  byHand,        \* the thread that runs a cycle by hand, if one does
  cyclesDone,    \* _cycle_count, capped at the limit
  corePercepts,  \* _pending_percepts
  seen,          \* what happened, this loop: the percepts perceived
  offered,       \* what happened, this loop: how many percepts there were
  owedTasks,     \* what happened: tasks whose execution was accepted and that were not called since
  leftRunning,   \* what happened: tasks whose action threw something else than an exception, and
                 \* that were neither called nor ended since
  uses           \* what happened, for the bounds: [enqueued, rewired]

coreTaskState == <<coreTasks, taskQueue, doing, owedTasks, leftRunning>>
perceptState == <<corePercepts, seen, offered>>
ownerState == <<loopOn, agentOn, ownerAt>>
coreAgentVars == <<coreTaskState, perceptState, ownerState, loopAt, byHand, cyclesDone, uses>>

CoreAgentThreads == CoreHands \cup {CoreLoop}
TaskEnded == {"COMPLETED", "FAILED"}
-----------------------------------------------------------------------------
(* TaskManager *)

MutantAsTheyCome(q, tasks) == q
\* sortQueue, which is stable
SortedTasks(q, tasks) == StableSort(q, [id \in DOMAIN tasks |-> tasks[id].priority])

CreateCoreTask(p) ==
  /\ Cardinality(DOMAIN coreTasks) < MaxCoreTasks
  /\ LET id == Cardinality(DOMAIN coreTasks) + 1
     IN /\ coreTasks' = With(coreTasks, id, [priority |-> p, status |-> "PENDING"])
        /\ taskQueue' = SortedTasks(Append(taskQueue, id), coreTasks')
        /\ owedTasks' = owedTasks \cup {id}
  /\ UNCHANGED <<doing, leftRunning, perceptState, ownerState, loopAt, byHand, cyclesDone, uses>>

\* A task that runs or has ended is queued again
EnqueueCoreTask(id) ==
  /\ uses.enqueued < MaxEnqueued
  /\ IF id \in ToSet(taskQueue) THEN UNCHANGED taskQueue
     ELSE taskQueue' = SortedTasks(Append(taskQueue, id), coreTasks)
  /\ owedTasks' = owedTasks \cup {id}
  /\ uses' = [uses EXCEPT !.enqueued = @ + 1]
  /\ UNCHANGED <<coreTasks, doing, leftRunning, perceptState, ownerState, loopAt, byHand, cyclesDone>>

\* executeNext up to the action, by a thread of its own or from executeAll
StartCoreTask(t) ==
  /\ doing[t] = 0 /\ taskQueue # <<>>
  /\ t = CoreLoop => loopAt = "acting"
  /\ LET id == Head(taskQueue)
     IN /\ coreTasks' = [coreTasks EXCEPT ![id].status = "RUNNING"]
        /\ doing' = [doing EXCEPT ![t] = id]
        /\ owedTasks' = owedTasks \ {id} /\ leftRunning' = leftRunning \ {id}
  /\ taskQueue' = Tail(taskQueue)
  /\ UNCHANGED <<perceptState, ownerState, loopAt, byHand, cyclesDone, uses>>

MutantLeaveIfQueued(id, status) ==
  coreTasks' = IF id \in ToSet(taskQueue) THEN coreTasks ELSE [coreTasks EXCEPT ![id].status = status]
\* Whatever has become of the task meanwhile
StoreStatus(id, status) == coreTasks' = [coreTasks EXCEPT ![id].status = status]

\* The action returns or throws an exception
FinishCoreTask(t, status) ==
  /\ doing[t] # 0
  /\ StoreStatus(doing[t], status)
  /\ doing' = [doing EXCEPT ![t] = 0]
  /\ leftRunning' = leftRunning \ {doing[t]}
  /\ UNCHANGED <<taskQueue, owedTasks, perceptState, ownerState, loopAt, byHand, cyclesDone, uses>>

\* Something else it throws leaves executeNext before the status is stored, and a cycle by
\* hand before it is counted.  Thrown on the loop's thread it is the end of the process
EscapeCoreTask(t) ==
  /\ t # CoreLoop /\ doing[t] # 0
  /\ doing' = [doing EXCEPT ![t] = 0]
  /\ leftRunning' = leftRunning \cup {doing[t]}
  /\ byHand' = byHand \ {t}
  /\ UNCHANGED <<coreTasks, taskQueue, owedTasks, perceptState, ownerState, loopAt, cyclesDone, uses>>
-----------------------------------------------------------------------------
(* CognitiveLoop *)

AddCorePercept ==
  /\ offered < MaxCorePercepts
  /\ offered' = offered + 1
  /\ corePercepts' = Append(corePercepts, offered')
  /\ UNCHANGED <<coreTaskState, ownerState, seen, loopAt, byHand, cyclesDone, uses>>

\* loopBody's test of _running and of the limit
BeginCoreCycle ==
  /\ loopAt = "top"
  /\ IF loopOn /\ (CycleLimit = 0 \/ cyclesDone < CycleLimit)
     THEN loopAt' = "perceiving" /\ UNCHANGED loopOn
     ELSE loopAt' = "ended" /\ loopOn' = FALSE
  /\ UNCHANGED <<coreTaskState, perceptState, agentOn, ownerAt, byHand, cyclesDone, uses>>

\* phasePerception: the batch is swapped out and encoded
EncodeBatch == seen' = seen \o corePercepts /\ corePercepts' = <<>> /\ UNCHANGED offered

CorePerceives ==
  /\ loopAt = "perceiving"
  /\ EncodeBatch
  /\ loopAt' = "acting"
  /\ UNCHANGED <<coreTaskState, ownerState, byHand, cyclesDone, uses>>

\* executeAll finds the queue empty, and the cycle is reflected upon
ReflectOnCycle(t) ==
  /\ doing[t] = 0 /\ taskQueue = <<>>
  /\ cyclesDone' = IF cyclesDone < CycleLimit THEN cyclesDone + 1 ELSE cyclesDone

EndCoreCycle ==
  /\ loopAt = "acting" /\ ReflectOnCycle(CoreLoop)
  /\ loopAt' = "top"
  /\ UNCHANGED <<coreTaskState, perceptState, ownerState, byHand, uses>>
-----------------------------------------------------------------------------
(* AgentZeroCore: start, stop, setAtomSpace.  Each joins the loop's thread *)

OwnerIsFree == ownerAt = "idle"
LoopJoinable == loopAt \in {"none", "ended"}

\* An agent whose loop has stopped itself is still running, and is not started again.
\* A loop that runs is left alone
StartAgent ==
  /\ OwnerIsFree /\ byHand = {} /\ ~agentOn
  /\ IF loopOn THEN agentOn' = TRUE /\ UNCHANGED <<loopOn, ownerAt>>
     ELSE loopOn' = TRUE /\ ownerAt' = "starting" /\ UNCHANGED agentOn
  /\ UNCHANGED <<coreTaskState, perceptState, loopAt, byHand, cyclesDone, uses>>

MutantFlagAfterJoin == UNCHANGED loopOn
\* CognitiveLoop::stop, up to the join
SignalStop == loopOn' = FALSE

StopAgent ==
  /\ OwnerIsFree /\ agentOn
  /\ SignalStop /\ ownerAt' = "stopping"
  /\ UNCHANGED <<coreTaskState, perceptState, agentOn, loopAt, byHand, cyclesDone, uses>>

\* setAtomSpace destroys the loop, which stops it
SetAtomSpace ==
  /\ OwnerIsFree /\ byHand = {} /\ uses.rewired < MaxRewired
  /\ SignalStop /\ ownerAt' = "rewiring"
  /\ uses' = [uses EXCEPT !.rewired = @ + 1]
  /\ UNCHANGED <<coreTaskState, perceptState, agentOn, loopAt, byHand, cyclesDone>>

AgentStarted ==
  /\ ownerAt = "starting" /\ LoopJoinable
  /\ loopAt' = "top" /\ agentOn' = TRUE /\ ownerAt' = "idle"
  /\ UNCHANGED <<coreTaskState, perceptState, loopOn, byHand, cyclesDone, uses>>

AgentStopped ==
  /\ ownerAt = "stopping" /\ LoopJoinable
  /\ loopAt' = "none" /\ agentOn' = FALSE /\ ownerAt' = "idle"
  /\ UNCHANGED <<coreTaskState, perceptState, loopOn, byHand, cyclesDone, uses>>

\* A new loop and a new TaskManager, neither of which knows of what the old ones had; the
\* loop is not started.  Nobody executes tasks of the TaskManager that goes
AgentRewired ==
  /\ ownerAt = "rewiring" /\ LoopJoinable
  /\ \A t \in CoreAgentThreads : doing[t] = 0
  /\ loopAt' = "none" /\ ownerAt' = "idle"
  /\ cyclesDone' = 0
  /\ corePercepts' = <<>> /\ seen' = <<>> /\ offered' = 0
  /\ coreTasks' = <<>> /\ taskQueue' = <<>> /\ owedTasks' = {} /\ leftRunning' = {}
  /\ UNCHANGED <<doing, loopOn, agentOn, byHand, uses>>
-----------------------------------------------------------------------------
(* runSingleCycle, called by hand: what it executes it executes like any other thread *)

CycleByHand(t) ==
  /\ OwnerIsFree /\ LoopJoinable /\ byHand = {} /\ doing[t] = 0
  /\ EncodeBatch
  /\ byHand' = {t}
  /\ UNCHANGED <<coreTaskState, ownerState, loopAt, cyclesDone, uses>>

EndCycleByHand(t) ==
  /\ t \in byHand /\ ReflectOnCycle(t)
  /\ byHand' = {}
  /\ UNCHANGED <<coreTaskState, perceptState, ownerState, loopAt, uses>>
-----------------------------------------------------------------------------
CoreAgentInit ==
  /\ coreTasks = <<>> /\ taskQueue = <<>> /\ doing = [t \in CoreAgentThreads |-> 0] /\ owedTasks = {} /\ leftRunning = {}
  /\ corePercepts = <<>> /\ seen = <<>> /\ offered = 0
  /\ loopAt = "none" /\ byHand = {} /\ loopOn = FALSE /\ agentOn = FALSE /\ ownerAt = "idle"
  /\ cyclesDone = 0 /\ uses = [enqueued |-> 0, rewired |-> 0]

CoreCallerStep ==
  \/ \E p \in TaskPriorities : CreateCoreTask(p)
  \/ \E id \in DOMAIN coreTasks : EnqueueCoreTask(id)
  \/ AddCorePercept

CoreTaskReturns(t) == EscapeCoreTask(t) \/ \E status \in TaskEnded : FinishCoreTask(t, status)
CoreTaskStep(t) == StartCoreTask(t) \/ CoreTaskReturns(t)
CoreLoopStep == BeginCoreCycle \/ CorePerceives \/ EndCoreCycle \/ CoreTaskStep(CoreLoop)
CoreJoinStep == AgentStarted \/ AgentStopped \/ AgentRewired
CoreOwnerStep == StartAgent \/ StopAgent \/ SetAtomSpace \/ CoreJoinStep
CoreHandStep == \E t \in CoreHands : CoreTaskStep(t) \/ CycleByHand(t) \/ EndCycleByHand(t)
CoreAgentNext == CoreCallerStep \/ CoreLoopStep \/ CoreOwnerStep \/ CoreHandStep

CoreAgentSpec == CoreAgentInit /\ [][CoreAgentNext]_coreAgentVars
-----------------------------------------------------------------------------
(* Properties *)

\* Whoever is told that a task is queued can rely on it: what was accepted is in the queue,
\* once, the higher priority first, until it is called, although a task may be queued again
\* while it runs and two threads may run it.  When nobody runs a task that is not queued,
\* it has ended, and somebody runs what is RUNNING: except for a task whose action threw
\* something else than a std::exception on a thread that is not the loop's (line 164 does
\* not catch it), which stays RUNNING until it is called again or another thread ends it.
CoreTasksAreKept ==
  /\ IsInjective(taskQueue) /\ ToSet(taskQueue) = owedTasks
  /\ \A i, j \in DOMAIN taskQueue :
       i < j => coreTasks[taskQueue[i]].priority <= coreTasks[taskQueue[j]].priority
  /\ \A id \in DOMAIN coreTasks \ leftRunning :
       id \notin ToSet(taskQueue) /\ (\A t \in CoreAgentThreads : doing[t] # id) => coreTasks[id].status \in TaskEnded
  /\ \A id \in DOMAIN coreTasks \ leftRunning :
       coreTasks[id].status = "RUNNING" => \E t \in CoreAgentThreads : doing[t] = id

\* A loop perceives what it was given, in order and once, across stops and starts; and while
\* the loop's thread runs tasks, its loop has not been joined.
CoreLoopIsSound ==
  /\ seen \o corePercepts = [i \in 1..offered |-> i]
  /\ doing[CoreLoop] # 0 => loopAt = "acting"
  /\ loopOn /\ LoopJoinable => ownerAt = "starting"

\* What is queued while the agent's loop runs is called, unless the loop reaches its limit,
\* is stopped or rewired; and the owner's calls return: stop waits for whatever is queued.
CoreAgentServes ==
  /\ ownerAt # "idle" ~> ownerAt = "idle"
  /\ \A id \in 1..MaxCoreTasks : id \in owedTasks /\ loopOn ~> id \notin owedTasks \/ ~loopOn

\* The loop's thread and the joins go on, and actions return; nothing is assumed of callers
\* and of other threads, except that these return from what they are in
CoreAgentFairness ==
  /\ WF_coreAgentVars(CoreLoopStep) /\ WF_coreAgentVars(CoreJoinStep)
  /\ \A t \in CoreHands : WF_coreAgentVars(CoreTaskReturns(t))
=============================================================================
