--------------------------- MODULE ActionScheduler ---------------------------
(***************************************************************************)
(* ActionScheduler (src/src/ActionScheduler.cpp) over ActionExecutor.      *)
(* tick() takes the due actions, orders them by priority and runs those    *)
(* whose prerequisites have completed.  Each callback takes time and may   *)
(* schedule, cancel, add dependencies or process the executor's queue      *)
(* before tick goes on with the pointers it collected.                     *)
(*                                                                         *)
(* No public operation sets requiredResources, so the resource locks never *)
(* hold an action back and are left out.                                   *)
(***************************************************************************)
EXTENDS ActionExecutor, FiniteSets

CONSTANTS
  Delays,          \* how far ahead callers schedule
  Periods,         \* periods of periodic actions
  Priorities,      \* priorities of scheduled actions
  MaxPending,      \* _maxScheduled
  MaxScheduledIds, \* bound: actions ever scheduled
  MaxTime          \* bound: the clock

ActionIds == 1..MaxScheduledIds
ScheduledActions ==
  [type : Types, deadline : Nat \cup {None}, priority : Priorities, period : Nat]

ASSUME SchedulerAssumption ==
  /\ MaxPending \in Nat /\ MaxScheduledIds \in Nat /\ MaxTime \in Nat
  /\ None \notin ActionIds /\ None \notin ScheduledActions
  /\ Delays \subseteq Nat /\ Periods \subseteq Nat \ {0} /\ Priorities \subseteq Nat

VARIABLES
  now,        \* steady_clock
  schedule,   \* the ids in _schedule
  action,     \* what was scheduled under each id, None before
  dueAt,      \* ScheduledAction::scheduledTime
  deps,       \* ScheduledAction::dependencies
  done,       \* _completedActions, None for no entry
  due,        \* the actions tick has yet to look at, in order
  toRemove,   \* tick's toRemove
  running,    \* the scheduled action whose callback is running, or None
  \* What happened, for the properties
  calls,      \* how often each action's callback was called
  ended,      \* when its callback last returned, if it is periodic
  verdict     \* what its callback last returned

entries == <<action, dueAt, deps>>
pending == <<schedule, entries, done>>
ticking == <<due, toRemove, running>>
history == <<calls, ended, verdict>>
schedulerVars == <<now, pending, ticking, history>>
vars == <<executorVars, inside, schedulerVars>>
-----------------------------------------------------------------------------
\* No deadline is the epoch in the code and None here; no period is 0
Action(t, deadline, p, period) ==
  [type |-> t, deadline |-> deadline, priority |-> p, period |-> period]

IsDue(i)        == now >= dueAt[i]
PastDeadline(i) == action[i].deadline # None /\ now > action[i].deadline

\* Operations are called between ticks or by a running callback
MayCall == \/ inside = <<>>
           \/ In("tick") /\ running # None
           \/ In("queue") /\ current # None

Busy == {a.type : a \in (IF current = None THEN {} ELSE {current})}
        \cup {action[i].type : i \in {running} \ {None}}

\* scheduleAt, scheduleBefore and schedulePeriodic for a registered type
Add(a, time) ==
  /\ MayCall
  /\ Cardinality(schedule) < MaxPending
  /\ a.type \in registry
  /\ \E i \in ActionIds :
       /\ action[i] = None /\ \A j \in 1..(i - 1) : action[j] # None
       /\ schedule' = schedule \cup {i}
       /\ action' = [action EXCEPT ![i] = a]
       /\ dueAt' = [dueAt EXCEPT ![i] = time]
  /\ UNCHANGED <<now, deps, done, ticking, history, executorVars, inside>>

ScheduleAt(t, when, p) == Add(Action(t, None, p, 0), when)
ScheduleAfter(t, delay, p) == ScheduleAt(t, now + delay, p)
ScheduleBefore(t, deadline, p) == Add(Action(t, deadline, p, 0), now)
SchedulePeriodic(t, period, p) == Add(Action(t, None, p, period), now)

\* Nothing asks whether the prerequisite exists or has run
AddDependency(i, j) ==
  /\ MayCall
  /\ i \in schedule
  /\ deps' = [deps EXCEPT ![i] = @ \cup {j}]
  /\ UNCHANGED <<now, schedule, action, dueAt, done, ticking, history, executorVars, inside>>

MutantMarkOnly(i) ==
  /\ MayCall
  /\ i \in schedule
  /\ \A k \in DOMAIN due : due[k] # i
  /\ done' = [done EXCEPT ![i] = "CANCELLED"]
  /\ UNCHANGED <<now, schedule, entries, ticking, history, executorVars, inside>>

\* The entries of these ids are erased
Erase(S) ==
  /\ schedule' = schedule \ S
  /\ dueAt' = [i \in ActionIds |-> IF i \in S THEN 0 ELSE dueAt[i]]
  /\ deps' = [i \in ActionIds |-> IF i \in S THEN {} ELSE deps[i]]

\* A callback that cancels an action tick still points to leaves tick with a
\* dangling pointer: such calls are left out
Cancel(i) ==
  /\ MayCall
  /\ i \in schedule
  /\ \A k \in DOMAIN due : due[k] # i
  /\ done' = [done EXCEPT ![i] = "CANCELLED"]
  /\ Erase({i})
  /\ UNCHANGED <<now, action, ticking, history, executorVars, inside>>
-----------------------------------------------------------------------------
(* tick() *)

\* std::sort leaves the order of equal priorities open
Orders(S) == {q \in [1..Cardinality(S) -> S] :
                \A i, j \in DOMAIN q : i < j =>
                  q[i] # q[j] /\ action[q[i]].priority >= action[q[j]].priority}

BeginTick ==
  /\ MayCall
  /\ \A k \in DOMAIN inside : inside[k] # "tick"
  /\ Enter("tick")
  /\ due' \in Orders({i \in schedule : IsDue(i)})
  /\ UNCHANGED <<now, pending, toRemove, running, history, executorVars>>

MutantEverRan(i) == \A j \in deps[i] : done[j] # None
AreDependenciesMet(i) == \A j \in deps[i] : done[j] = "COMPLETED"

Finish(i, result) ==
  /\ done' = [done EXCEPT ![i] = result]
  /\ toRemove' = toRemove \cup {i}
  /\ due' = Tail(due)

MissDeadline ==
  /\ In("tick") /\ running = None /\ due # <<>>
  /\ PastDeadline(Head(due))
  /\ Finish(Head(due), "FAILED")
  /\ UNCHANGED <<now, schedule, entries, running, history, executorVars, inside>>

MutantLateIsFine(i) == TRUE
InTime(i) == ~PastDeadline(i)

SkipAction ==
  /\ In("tick") /\ running = None /\ due # <<>>
  /\ InTime(Head(due))
  /\ ~AreDependenciesMet(Head(due))
  /\ due' = Tail(due)
  /\ UNCHANGED <<now, pending, toRemove, running, history, executorVars, inside>>

\* executeSync: the callback is called, or the type is not registered any more
StartAction ==
  /\ In("tick") /\ running = None /\ due # <<>>
  /\ InTime(Head(due))
  /\ AreDependenciesMet(Head(due))
  /\ IF action[Head(due)].type \in registry
     THEN /\ running' = Head(due)
          /\ calls' = [calls EXCEPT ![Head(due)] = @ + 1]
          /\ UNCHANGED <<done, toRemove, due>>
     ELSE Finish(Head(due), "FAILED") /\ UNCHANGED <<running, calls>>
  /\ UNCHANGED <<now, schedule, entries, ended, verdict, executorVars, inside>>

MutantRetry(i, result) ==
  /\ IF result = "COMPLETED" THEN toRemove' = toRemove \cup {i} ELSE UNCHANGED toRemove
  /\ UNCHANGED dueAt
MutantDrift(i, result) ==
  IF action[i].period > 0 /\ result = "COMPLETED"
  THEN dueAt' = [dueAt EXCEPT ![i] = @ + action[i].period] /\ UNCHANGED toRemove
  ELSE toRemove' = toRemove \cup {i} /\ UNCHANGED dueAt

\* A periodic action that completed is due again a period from now; every other
\* one leaves the schedule at the end of the tick
Reschedule(i, result) ==
  IF action[i].period > 0 /\ result = "COMPLETED"
  THEN dueAt' = [dueAt EXCEPT ![i] = now + action[i].period] /\ UNCHANGED toRemove
  ELSE toRemove' = toRemove \cup {i} /\ UNCHANGED dueAt

FinishAction(result) ==
  /\ In("tick") /\ running # None
  /\ done' = [done EXCEPT ![running] = result]
  /\ Reschedule(running, result)
  /\ due' = Tail(due)
  /\ running' = None
  /\ ended' = [ended EXCEPT ![running] = IF action[running].period > 0 THEN now ELSE @]
  /\ verdict' = [verdict EXCEPT ![running] = result]
  /\ UNCHANGED <<now, schedule, action, deps, calls, executorVars, inside>>

EndTick ==
  /\ In("tick") /\ running = None /\ due = <<>>
  /\ Erase(toRemove)
  /\ toRemove' = {}
  /\ Leave
  /\ UNCHANGED <<now, action, done, due, running, history, executorVars>>

\* Time passes anywhere, inside a tick and inside a callback too
PassTime ==
  /\ now < MaxTime
  /\ now' = now + 1
  /\ UNCHANGED <<pending, ticking, history, executorVars, inside>>
-----------------------------------------------------------------------------
Init ==
  /\ ExecutorInit
  /\ now = 0 /\ schedule = {} /\ due = <<>> /\ toRemove = {} /\ running = None
  /\ action = [i \in ActionIds |-> None] /\ dueAt = [i \in ActionIds |-> 0]
  /\ deps = [i \in ActionIds |-> {}] /\ done = [i \in ActionIds |-> None]
  /\ calls = [i \in ActionIds |-> 0] /\ ended = [i \in ActionIds |-> 0]
  /\ verdict = [i \in ActionIds |-> None]

ScheduleStep ==
  \/ \E t \in Types, d \in Delays, p \in Priorities :
       ScheduleAfter(t, d, p) \/ ScheduleBefore(t, now + d, p)
  \/ \E t \in Types, d \in Periods, p \in Priorities : SchedulePeriodic(t, d, p)
  \/ \E i, j \in ActionIds : AddDependency(i, j)
  \/ \E i \in ActionIds : Cancel(i)

TickStep == \/ BeginTick \/ MissDeadline \/ SkipAction \/ StartAction \/ EndTick
            \/ \E r \in Outcomes : FinishAction(r)

ExecutorCall ==
  /\ MayCall
  /\ \/ \E t \in Types : RegisterAction(t) \/ UnregisterAction(t, Busy)
     \/ \E t \in Types, p \in QueuePriorities : Enqueue(t, p)
     \/ \E i \in 1..MaxQueued : CancelQueued(i)
     \/ ProcessQueue
QueueStep == TakeQueued \/ EndQueue \/ \E r \in Outcomes : ReturnQueued(r)

Next ==
  \/ ScheduleStep \/ TickStep \/ PassTime
  \/ (ExecutorCall \/ QueueStep) /\ UNCHANGED schedulerVars

Spec == Init /\ [][Next]_vars
-----------------------------------------------------------------------------
Stacks == {<<>>, <<"tick">>, <<"queue">>, <<"tick", "queue">>, <<"queue", "tick">>}

\* The types of the scheduler's members, of tick's locals and of the executor;
\* tick and processQueue are inside each other at most once
TypeOK ==
  /\ ExecutorTypes /\ inside \in Stacks
  /\ now \in 0..MaxTime /\ schedule \subseteq ActionIds
  /\ action \in [ActionIds -> ScheduledActions \cup {None}] /\ dueAt \in [ActionIds -> Nat]
  /\ deps \in [ActionIds -> SUBSET ActionIds] /\ done \in [ActionIds -> Statuses \cup {None}]
  /\ due \in Seq(ActionIds) /\ toRemove \subseteq ActionIds /\ running \in ActionIds \cup {None}
  /\ calls \in [ActionIds -> Nat] /\ ended \in [ActionIds -> 0..MaxTime]
  /\ verdict \in [ActionIds -> Outcomes \cup {None}]

\* An action that is not periodic runs at most once, whatever its outcome and
\* whatever callbacks did to the schedule meanwhile
RunsOnce ==
  /\ \A i \in ActionIds : calls[i] > 1 => action[i].period > 0
  /\ \A i \in 1..MaxQueued : queueCalls[i] <= 1

\* "ids of actions that must complete first" (ActionScheduler.h:48): what a
\* prerequisite's own callback last said is that it completed, also when it is
\* periodic or was cancelled meanwhile (areDependenciesMet)
PrerequisitesFirst ==
  [][\A i \in ActionIds : calls'[i] > calls[i] =>
       \A j \in deps[i] : verdict[j] = "COMPLETED"]_vars

\* An action starts when it is due and not past its "hard deadline"
\* (ActionScheduler.h:85), though the tick began before, and a periodic one a
\* period after its last run ended
RunsInTime ==
  [][\A i \in ActionIds : calls'[i] > calls[i] =>
       /\ now >= dueAt[i]
       /\ action[i].deadline # None => now <= action[i].deadline
       /\ calls[i] > 0 => now >= ended[i] + action[i].period]_vars

\* What a cancel call answered stays so: the action is not called any more and
\* its status is not overwritten by a run that was under way
CancelIsFinal ==
  [][/\ \A i \in ActionIds : done[i] = "CANCELLED" =>
          done'[i] = "CANCELLED" /\ calls'[i] = calls[i]
     /\ \A i \in 1..MaxQueued : status[i] = "CANCELLED" =>
          status'[i] = "CANCELLED" /\ queueCalls'[i] = queueCalls[i]]_vars
=============================================================================
