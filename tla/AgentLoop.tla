----------------------------- MODULE AgentLoop -----------------------------
(***************************************************************************)
(* CognitiveLoop (src/src/CognitiveLoop.cpp) over TaskManager              *)
(* (src/src/TaskManager.cpp): percepts arrive from any thread, a cycle     *)
(* goes through the phases on the loop's thread or on the owner's, and the *)
(* owner starts and stops the loop.                                        *)
(*                                                                         *)
(* A cycle's steps are the stretches between two points where others can   *)
(* get in: the locks, the atomics, and the calls of task actions.  What    *)
(* the cycle writes into the AtomStore is in AgentMemory.  TaskManager has *)
(* no lock; its calls are taken to be whole.  What a task's action throws  *)
(* is a std::exception: nothing else is caught, which on the loop's thread *)
(* is the end of the process, and it is left out.                          *)
(***************************************************************************)
EXTENDS Naturals, SequencesExt, StdContainers

CONSTANTS
  Percepts,          \* what callers deliver, each once
  Tasks,             \* what createTask returns
  Goals,             \* what setGoal returns
  Priorities,        \* Priority values tasks are created with, 0 is CRITICAL
  MaxTasksPerCycle,  \* _maxTasksPerCycle
  CycleLimits,       \* what setMaxCycles may be given, 0 for no limit
  ReentrantCalls,    \* may tasks be enqueued while an action runs?
  OwnerMayStop,      \* may the owner call stop()?
  None,
  MaxQueue,          \* bound: length of the task queue
  MaxRuns            \* bound: runSingleCycle calls by the owner

High == 1
ASSUME LoopAssumption == /\ Priorities \subseteq 0..4
                         /\ MaxTasksPerCycle \in Nat /\ CycleLimits \subseteq Nat
                         /\ ReentrantCalls \in BOOLEAN /\ OwnerMayStop \in BOOLEAN
                         /\ None \notin Tasks \cup Goals \cup Nat /\ \A S \in SUBSET Tasks : None # S
                         /\ None \notin {"pending", "completed", "failed", "loop", "owner"}
                         /\ MaxRuns \in Nat

VARIABLES
  perceptQueue,  \* _perceptQueue
  batch,         \* the percepts phasePerception swapped out and has yet to add
  queue,         \* TaskManager::_queue
  slots,         \* its capacity, kept where actions enqueue
  priority,      \* Task::priority, None before createTask
  status,        \* Task::completed and Task::failed
  goalTasks,     \* Goal::tasks, None before setGoal
  currentGoal,   \* TaskManager::_currentGoal
  promoted,      \* _promotedTaskIds
  running,       \* _running
  thread,        \* _loopThread: "none", "live" or "done"
  driver,        \* who is inside a cycle: None, "loop" or "owner"
  phase,         \* where the driver is
  executed,      \* tasks run in this cycle
  cycles,        \* _cycleCount, up to the limit
  maxCycles,     \* _maxCycles
  owner,         \* what the owner's thread is in: "free", "starting", "stopping", "cycling"
  \* What happened, for the properties
  added,         \* the percepts in the order of the addPercept calls
  perceived,     \* the percepts in the order they reached the AtomStore
  calls,         \* how often each task's action was called
  born,          \* each task's priority at createTask
  runs           \* runSingleCycle calls so far

input   == <<perceptQueue, added>>
tasks   == <<queue, slots, priority, status, goalTasks, currentGoal, born>>
cycle   == <<batch, perceived, driver, phase, executed, cycles>>
control == <<running, thread, owner, runs, maxCycles>>
loopVars == <<input, tasks, promoted, calls, cycle, control>>
-----------------------------------------------------------------------------
(* TaskManager *)

\* sortQueue: stable, CRITICAL first
Sorted(q, prio) ==
  LET Of(p) == ElementsAt(q, {i \in DOMAIN q : prio[q[i]] = p})
  IN Of(0) \o Of(1) \o Of(2) \o Of(3) \o Of(4)

Pending(t) == status[t] = "pending"

\* Callers of TaskManager are kept out while an action runs, see ReentrantCalls
MayCall == phase = "action" => ReentrantCalls

CreateTask(t, p) ==
  /\ MayCall
  /\ priority[t] = None
  /\ priority' = [priority EXCEPT ![t] = p]
  /\ born' = [born EXCEPT ![t] = p]
  /\ status' = [status EXCEPT ![t] = "pending"]
  /\ UNCHANGED <<input, queue, slots, goalTasks, currentGoal, promoted, calls, cycle, control>>

\* An action that enqueues does so while the vector has room: past its capacity
\* the reference executeNext holds would dangle
Grow ==
  /\ phase = "action" => Len(queue) < slots
  /\ slots' = IF ReentrantCalls /\ Len(queue) = slots THEN IF slots = 0 THEN 1 ELSE 2 * slots ELSE slots

MutantAppend(t) == queue' = Append(queue, t) /\ Grow
Push(t) == queue' = Sorted(Append(queue, t), priority) /\ Grow

Enqueue(t) ==
  /\ MayCall
  /\ priority[t] # None
  /\ Len(queue) < MaxQueue
  /\ Push(t)
  /\ UNCHANGED <<input, priority, status, goalTasks, currentGoal, born, promoted, calls, cycle, control>>

AttachToGoal(g, t) ==
  /\ MayCall
  /\ priority[t] # None
  /\ Len(queue) < MaxQueue
  /\ goalTasks' = IF goalTasks[g] = None THEN goalTasks
                  ELSE [goalTasks EXCEPT ![g] = @ \cup {t}]
  /\ Push(t)
  /\ UNCHANGED <<input, priority, status, currentGoal, born, promoted, calls, cycle, control>>

SetGoal(g) ==
  /\ MayCall
  /\ goalTasks[g] = None
  /\ goalTasks' = [goalTasks EXCEPT ![g] = {}]
  /\ currentGoal' = g
  /\ UNCHANGED <<input, queue, slots, priority, status, born, promoted, calls, cycle, control>>

AchieveGoal(g) ==
  /\ MayCall
  /\ currentGoal = g
  /\ currentGoal' = None
  /\ UNCHANGED <<input, queue, slots, priority, status, goalTasks, born, promoted, calls, cycle, control>>
-----------------------------------------------------------------------------
(* One cycle *)

AddPercept(p) ==
  /\ p \notin ToSet(added)
  /\ perceptQueue' = Append(perceptQueue, p)
  /\ added' = Append(added, p)
  /\ UNCHANGED <<tasks, promoted, calls, cycle, control>>

MutantNoReset(d) ==
  /\ driver' = d
  /\ phase' = "swap"
  /\ cycles' = IF cycles < maxCycles THEN cycles + 1 ELSE cycles
  /\ UNCHANGED <<batch, perceived, executed>>
BeginCycle(d) ==
  /\ driver' = d
  /\ phase' = "swap"
  /\ executed' = 0
  /\ cycles' = IF cycles < maxCycles THEN cycles + 1 ELSE cycles
  /\ UNCHANGED <<batch, perceived>>

MutantCopy ==
  /\ phase = "swap"
  /\ batch' = perceptQueue
  /\ phase' = "perceive"
  /\ UNCHANGED <<input, tasks, promoted, calls, perceived, driver, executed, cycles, control>>
SwapPercepts ==
  /\ phase = "swap"
  /\ batch' = perceptQueue
  /\ perceptQueue' = <<>>
  /\ phase' = "perceive"
  /\ UNCHANGED <<added, tasks, promoted, calls, perceived, driver, executed, cycles, control>>

Perceive ==
  /\ phase = "perceive"
  /\ IF batch = <<>> THEN phase' = "plan" /\ UNCHANGED <<batch, perceived>>
     ELSE /\ perceived' = Append(perceived, Head(batch))
          /\ batch' = Tail(batch)
          /\ UNCHANGED phase
  /\ UNCHANGED <<input, tasks, promoted, calls, driver, executed, cycles, control>>

\* The tasks phasePlanning promotes: of the current goal, not promoted before
MutantPromoteAgain ==
  {t \in IF currentGoal = None THEN {} ELSE goalTasks[currentGoal] :
     Pending(t) /\ priority[t] > High}
ToPromote ==
  {t \in IF currentGoal = None THEN {} ELSE goalTasks[currentGoal] :
     Pending(t) /\ t \notin promoted /\ priority[t] > High}

PhasePlanning ==
  /\ phase = "plan"
  /\ phase' = "act"
  /\ priority' = [t \in Tasks |-> IF t \in ToPromote THEN priority[t] - 1 ELSE priority[t]]
  /\ promoted' = promoted \cup ToPromote
  /\ queue' = IF ToPromote = {} THEN queue ELSE Sorted(queue, priority')
  /\ UNCHANGED <<input, slots, status, goalTasks, currentGoal, born, calls, batch, perceived, driver,
                 executed, cycles, control>>

MutantOneMore == executed > MaxTasksPerCycle
CycleIsFull == executed >= MaxTasksPerCycle

\* executeNext up to the call of the front task's action
StartTask ==
  LET todo == ElementsAt(queue, {i \in DOMAIN queue : Pending(queue[i])})
  IN /\ phase = "act"
     /\ IF CycleIsFull THEN phase' = "reflect" /\ UNCHANGED <<queue, calls>>
        ELSE /\ queue' = todo
             /\ IF todo = <<>> THEN phase' = "reflect" /\ UNCHANGED calls
                ELSE /\ phase' = "action"
                     /\ calls' = [calls EXCEPT ![Head(todo)] = @ + 1]
     /\ UNCHANGED <<input, slots, priority, status, goalTasks, currentGoal, born, promoted, batch,
                    perceived, driver, executed, cycles, control>>

\* executeNext after the action returned (false also when it threw).  t is a
\* reference to the queue's first slot, not to the task that was called
MutantNotMarked(ok) ==
  /\ phase = "action"
  /\ phase' = "act"
  /\ executed' = executed + 1
  /\ UNCHANGED <<input, queue, slots, status, priority, goalTasks, currentGoal, born, promoted, calls, batch,
                 perceived, driver, cycles, control>>
FinishTask(ok) ==
  /\ phase = "action"
  /\ status' = [status EXCEPT ![Head(queue)] = IF ok THEN "completed" ELSE "failed"]
  /\ queue' = Tail(queue)
  /\ executed' = executed + 1
  /\ phase' = "act"
  /\ UNCHANGED <<input, slots, priority, goalTasks, currentGoal, born, promoted, calls, batch, perceived,
                 driver, cycles, control>>

\* phaseReflection, and the end of runSingleCycle
EndCycle ==
  /\ phase = "reflect"
  /\ phase' = IF driver = "loop" THEN "limit" ELSE "idle"
  /\ driver' = IF driver = "loop" THEN driver ELSE None
  /\ owner' = IF driver = "owner" THEN "free" ELSE owner
  /\ UNCHANGED <<input, tasks, promoted, calls, batch, perceived, executed, cycles, running, thread, runs,
                 maxCycles>>
-----------------------------------------------------------------------------
(* The loop's thread *)

CheckRunning ==
  /\ phase = "check"
  /\ IF running THEN BeginCycle("loop") /\ UNCHANGED thread
     ELSE /\ phase' = "idle" /\ driver' = None /\ thread' = "done"
          /\ UNCHANGED <<batch, perceived, executed, cycles>>
  /\ UNCHANGED <<input, tasks, promoted, calls, running, owner, runs, maxCycles>>

\* The thread stops itself at _maxCycles, else it sleeps and checks again
LimitReached == maxCycles > 0 /\ cycles >= maxCycles

CheckLimit ==
  /\ phase = "limit"
  /\ phase' = IF LimitReached THEN "ending" ELSE "check"
  /\ UNCHANGED <<input, tasks, promoted, calls, batch, perceived, driver, executed, cycles, control>>

MutantKeepFlag ==
  /\ phase = "ending"
  /\ thread' = "done" /\ phase' = "idle" /\ driver' = None
  /\ UNCHANGED <<input, tasks, promoted, calls, batch, perceived, executed, cycles, running, owner, runs,
                 maxCycles>>
\* Until here a start() returns at once, and is lost
StopItself ==
  /\ phase = "ending"
  /\ running' = FALSE /\ thread' = "done" /\ phase' = "idle" /\ driver' = None
  /\ UNCHANGED <<input, tasks, promoted, calls, batch, perceived, executed, cycles, owner, runs,
                 maxCycles>>
-----------------------------------------------------------------------------
(* The owner's thread *)

Start ==
  /\ owner = "free"
  /\ ~running
  /\ running' = TRUE
  /\ owner' = "starting"
  /\ UNCHANGED <<input, tasks, promoted, calls, cycle, thread, runs, maxCycles>>

\* The rest of start(): join a thread that stopped itself, then spawn
Spawn ==
  /\ owner = "starting"
  /\ thread # "live"
  /\ thread' = "live"
  /\ driver' = "loop"
  /\ phase' = "check"
  /\ owner' = "free"
  /\ UNCHANGED <<input, tasks, promoted, calls, batch, perceived, executed, cycles, running, runs,
                 maxCycles>>

MutantJoinOnly ==
  /\ OwnerMayStop
  /\ owner = "free"
  /\ owner' = "stopping"
  /\ UNCHANGED <<input, tasks, promoted, calls, cycle, running, thread, runs, maxCycles>>
Stop ==
  /\ OwnerMayStop
  /\ owner = "free"
  /\ running' = FALSE
  /\ owner' = "stopping"
  /\ UNCHANGED <<input, tasks, promoted, calls, cycle, thread, runs, maxCycles>>

\* The rest of stop(): join
Join ==
  /\ owner = "stopping"
  /\ thread # "live"
  /\ thread' = "none"
  /\ owner' = "free"
  /\ UNCHANGED <<input, tasks, promoted, calls, cycle, running, runs, maxCycles>>

\* runSingleCycle, "useful for testing", by an owner whose loop is not running
RunSingleCycle ==
  /\ owner = "free"
  /\ thread # "live" /\ ~running
  /\ runs < MaxRuns
  /\ runs' = runs + 1
  /\ owner' = "cycling"
  /\ BeginCycle("owner")
  /\ UNCHANGED <<input, tasks, promoted, calls, running, thread, maxCycles>>
-----------------------------------------------------------------------------
LoopInit ==
  /\ perceptQueue = <<>> /\ batch = <<>> /\ added = <<>> /\ perceived = <<>>
  /\ queue = <<>> /\ slots = 0 /\ priority = [t \in Tasks |-> None] /\ born = priority
  /\ status = [t \in Tasks |-> None] /\ calls = [t \in Tasks |-> 0]
  /\ goalTasks = [g \in Goals |-> None] /\ currentGoal = None /\ promoted = {}
  /\ running = FALSE /\ thread = "none" /\ owner = "free" /\ runs = 0
  /\ driver = None /\ phase = "idle" /\ executed = 0 /\ cycles = 0 /\ maxCycles \in CycleLimits

PerceptStep == \E p \in Percepts : AddPercept(p)

TaskStep ==
  \/ \E t \in Tasks, p \in Priorities : CreateTask(t, p)
  \/ \E t \in Tasks : Enqueue(t) \/ \E g \in Goals : AttachToGoal(g, t)
  \/ \E g \in Goals : SetGoal(g) \/ AchieveGoal(g)

CycleStep ==
  \/ SwapPercepts \/ Perceive \/ PhasePlanning \/ StartTask \/ EndCycle
  \/ \E ok \in BOOLEAN : FinishTask(ok)
  \/ CheckRunning \/ CheckLimit \/ StopItself

OwnerStep == Start \/ Spawn \/ Stop \/ Join \/ RunSingleCycle

LoopNext == PerceptStep \/ TaskStep \/ CycleStep \/ OwnerStep

\* Threads are scheduled and task actions return; the owner's waits end when
\* their condition holds, but nobody has to call start() or stop()
LoopFairness == WF_loopVars(CycleStep) /\ WF_loopVars(Spawn) /\ WF_loopVars(Join)

LoopSpec == LoopInit /\ [][LoopNext]_loopVars /\ LoopFairness
-----------------------------------------------------------------------------
LoopTypeOK ==
  /\ perceptQueue \in Seq(Percepts) /\ batch \in Seq(Percepts)
  /\ added \in Seq(Percepts) /\ perceived \in Seq(Percepts)
  /\ queue \in Seq(Tasks) /\ promoted \subseteq Tasks
  /\ priority \in [Tasks -> (0..4) \cup {None}] /\ born \in [Tasks -> (0..4) \cup {None}]
  /\ status \in [Tasks -> {None, "pending", "completed", "failed"}]
  /\ goalTasks \in [Goals -> (SUBSET Tasks) \cup {None}] /\ currentGoal \in Goals \cup {None}
  /\ calls \in [Tasks -> Nat] /\ executed \in 0..MaxTasksPerCycle
  /\ running \in BOOLEAN /\ thread \in {"none", "live", "done"}
  /\ driver \in {None, "loop", "owner"} /\ owner \in {"free", "starting", "stopping", "cycling"}
  /\ phase \in {"idle", "check", "swap", "perceive", "plan", "act", "action", "reflect", "limit", "ending"}
  /\ maxCycles \in CycleLimits /\ cycles \in 0..maxCycles /\ runs \in 0..MaxRuns /\ slots \in Nat

\* Each percept reaches the AtomStore once and in the order of the addPercept
\* calls, through swaps, stops, restarts and cycles run by hand
PerceptsInOrder == perceived \o batch \o perceptQueue = added

\* The task whose action was called and has not returned
InAction(t) == phase = "action" /\ calls[t] > 0 /\ Pending(t)

\* A task's action is "called when the task is executed" (TaskManager.h:46):
\* once, and exactly the tasks it was called for end up completed or failed
EndedMeansCalled ==
  \A t \in Tasks : calls[t] = IF status[t] \in {"completed", "failed"} \/ InAction(t) THEN 1 ELSE 0

\* "Execute highest-priority pending task" (TaskManager.h:102), whatever was
\* enqueued or promoted since the queue was last sorted
HighestPriorityFirst ==
  [][\A t \in Tasks : calls'[t] > calls[t] =>
       \A u \in ToSet(queue) : Pending(u) => priority[t] <= priority[u]]_loopVars

\* "each task gets at most one boost" (CognitiveLoop.h:120), and none to CRITICAL
AtMostOneBoost ==
  \A t \in Tasks : priority[t] # born[t] =>
    /\ priority[t] = born[t] - 1 /\ priority[t] >= High /\ t \in promoted

\* _running never promises a loop that is gone: start() would be refused ever after
RunningMeansLoop == running => thread = "live" \/ owner = "starting"

\* Whatever the threads do, a percept is taken in once, a task's action is called
\* once, a task is promoted once, no cycle runs more tasks than it may, and a loop
\* that stops itself can be started again
LoopIsSound == LoopTypeOK /\ PerceptsInOrder /\ EndedMeansCalled /\ AtMostOneBoost /\ RunningMeansLoop

\* A loop that keeps running gets to every queued task
QueuedTasksEnd ==
  \A t \in Tasks : (t \in ToSet(queue) /\ running) ~> (status[t] \in {"completed", "failed"} \/ ~running)

\* A loop that keeps running takes every percept in
PerceptsArrive ==
  \A p \in Percepts : (p \in ToSet(added) /\ running) ~> (p \in ToSet(perceived) \/ ~running)

\* A loop that keeps running leaves nothing undone
LoopServesAll == QueuedTasksEnd /\ PerceptsArrive

\* start(), stop() and runSingleCycle() return: each join waits for a thread that
\* sees _running or its cycle limit
OwnerCallsReturn == owner # "free" ~> owner = "free"
=============================================================================
