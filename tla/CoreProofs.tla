----------------------------- MODULE CoreProofs -----------------------------
(***************************************************************************)
(* The agent's core for any number of actions, tasks, threads and          *)
(* priorities, and however long its clocks run: the library's scheduler    *)
(* and executor; then agentzero-core's executor and scheduler, its task    *)
(* manager and its loop, each by an inductive invariant of its own.        *)
(***************************************************************************)
EXTENDS ActionScheduler, AgentMind, ContainerLemmas

(***************************************************************************)
(* The library's scheduler and executor.  tick is interrupted by           *)
(* callbacks: the invariant says what it may rely on.                      *)
(***************************************************************************)
Ticking  == inside \in {<<"tick">>, <<"tick", "queue">>, <<"queue", "tick">>}
Queueing == inside \in {<<"queue">>, <<"tick", "queue">>, <<"queue", "tick">>}

\* A queued action is in the queue once, and not once its callback was called
QueueIsFresh ==
  /\ \A q \in queue : status[q.id] \in {"PENDING", "CANCELLED"} /\ queueCalls[q.id] = 0
  /\ \A q, r \in queue : q.id = r.id => q = r
  /\ \A i \in 1..MaxQueued : status[i] = None => queueCalls[i] = 0
  /\ \A i \in 1..MaxQueued : queueCalls[i] <= 1

CurrentExecutes ==
  /\ current # None => left > 0 /\ status[current.id] = "EXECUTING"
  /\ ~Queueing => current = None

ExecutorInv == ExecutorTypes /\ inside \in Stacks /\ QueueIsFresh /\ CurrentExecutes

SchedulerTypes ==
  /\ now \in 0..MaxTime /\ schedule \subseteq ActionIds
  /\ action \in [ActionIds -> ScheduledActions \cup {None}] /\ dueAt \in [ActionIds -> Nat]
  /\ deps \in [ActionIds -> SUBSET ActionIds] /\ done \in [ActionIds -> Statuses \cup {None}]
  /\ due \in Seq(ActionIds) /\ toRemove \subseteq ActionIds /\ running \in ActionIds \cup {None}

HistoryTypes ==
  /\ calls \in [ActionIds -> Nat] /\ ended \in [ActionIds -> 0..MaxTime]
  /\ verdict \in [ActionIds -> Outcomes \cup {None}]

\* An id not given out yet has left no trace
Unused == \A i \in ActionIds : action[i] = None =>
            i \notin schedule /\ calls[i] = 0 /\ done[i] = None

\* What tick still has to look at is there, once each, and was due when it began
DueIsLive ==
  /\ \A k \in DOMAIN due : due[k] \in schedule \ toRemove /\ now >= dueAt[due[k]]
  /\ \A k, m \in DOMAIN due : due[k] = due[m] => k = m
  /\ running # None => due # <<>> /\ running = Head(due)
  /\ ~Ticking => due = <<>> /\ toRemove = {} /\ running = None

\* Between its callback's return and the end of the tick a one-shot action is
\* still in the schedule, and only toRemove says that it must not run again
CalledLeaves ==
  \A i \in ActionIds : calls[i] > 0 /\ action[i].period = 0 =>
    calls[i] = 1 /\ (i \in schedule => i \in toRemove \/ i = running)

\* A periodic action waits for a period from the end of its last run
CalledWaits ==
  \A i \in schedule \ toRemove : calls[i] > 0 /\ i # running =>
    dueAt[i] >= ended[i] + action[i].period

DoneIsTrue ==
  \A i \in ActionIds : /\ done[i] = "COMPLETED" => verdict[i] = "COMPLETED"
                       /\ done[i] = "CANCELLED" => i \notin schedule \ toRemove

SchedulerInv ==
  SchedulerTypes /\ HistoryTypes /\ Unused /\ DueIsLive /\ CalledLeaves /\ CalledWaits /\ DoneIsTrue

IInv == ExecutorInv /\ SchedulerInv
-----------------------------------------------------------------------------
(* The stack of operations *)

\* Sequences of at most two elements are equal when their elements are
LEMMA ShortSequencesEqual ==
  ASSUME NEW S, NEW s \in Seq(S), NEW t \in Seq(S), Len(s) = Len(t), Len(s) <= 2,
         Len(s) >= 1 => s[1] = t[1], Len(s) = 2 => s[2] = t[2]
  PROVE  s = t
<1>1. \A i \in 1..Len(s) : s[i] = t[i]
  OBVIOUS
<1> QED BY <1>1, SeqEqual

\* What pushing an operation on a stack of one gives
LEMMA AppendOne == ASSUME NEW a, NEW b PROVE Append(<<a>>, b) = <<a, b>>
<1> DEFINE s == Append(<<a>>, b)
           t == <<a, b>>
<1>1. s \in Seq({a, b}) /\ Len(s) = 2 /\ s[1] = a /\ s[2] = b
  OBVIOUS
<1>2. t \in Seq({a, b}) /\ Len(t) = 2 /\ t[1] = a /\ t[2] = b
  OBVIOUS
<1> HIDE DEF s, t
<1>3. s = t
  BY <1>1, <1>2, ShortSequencesEqual
<1> QED BY <1>3 DEF s, t

\* What popping one of two operations leaves
LEMMA DropLast == ASSUME NEW a, NEW b PROVE SubSeq(<<a, b>>, 1, 1) = <<a>>
<1> DEFINE s == SubSeq(<<a, b>>, 1, 1)
           t == <<a>>
<1>1. <<a, b>> \in Seq({a, b}) /\ Len(<<a, b>>) = 2 /\ <<a, b>>[1] = a
  OBVIOUS
<1>2. s \in Seq({a, b}) /\ Len(s) = 1 /\ s[1] = a
  BY <1>1
<1>3. t \in Seq({a, b}) /\ Len(t) = 1 /\ t[1] = a
  OBVIOUS
<1> HIDE DEF s, t
<1>4. s = t
  BY <1>2, <1>3, ShortSequencesEqual
<1> QED BY <1>4 DEF s, t

\* The operation that may go on is the innermost one
LEMMA InnermostIsLast ==
  ASSUME inside \in Stacks
  PROVE  /\ In("tick") => inside \in {<<"tick">>, <<"queue", "tick">>}
         /\ In("queue") => inside \in {<<"queue">>, <<"tick", "queue">>}
  BY DEF Stacks, In

\* tick is entered when it is not under way, and says nothing of processQueue
LEMMA EnterTick ==
  ASSUME inside \in Stacks, \A k \in DOMAIN inside : inside[k] # "tick", Enter("tick")
  PROVE  ~Ticking /\ inside' \in Stacks /\ Ticking' /\ (Queueing' <=> Queueing)
<1>1. inside \in {<<>>, <<"queue">>}
  BY DEF Stacks
<1>2. CASE inside = <<>>
  BY <1>2 DEF Enter, Stacks, Ticking, Queueing
<1>3. CASE inside = <<"queue">>
  BY <1>3, AppendOne DEF Enter, Stacks, Ticking, Queueing
<1> QED BY <1>1, <1>2, <1>3

\* processQueue is entered when it is not under way, and says nothing of tick
LEMMA EnterQueue ==
  ASSUME inside \in Stacks, \A k \in DOMAIN inside : inside[k] # "queue", Enter("queue")
  PROVE  ~Queueing /\ inside' \in Stacks /\ Queueing' /\ (Ticking' <=> Ticking)
<1>1. inside \in {<<>>, <<"tick">>}
  BY DEF Stacks
<1>2. CASE inside = <<>>
  BY <1>2 DEF Enter, Stacks, Ticking, Queueing
<1>3. CASE inside = <<"tick">>
  BY <1>3, AppendOne DEF Enter, Stacks, Ticking, Queueing
<1> QED BY <1>1, <1>2, <1>3

\* The end of tick leaves a processQueue that it was called from under way
LEMMA LeaveTick ==
  ASSUME inside \in Stacks, In("tick"), Leave
  PROVE  Ticking /\ inside' \in Stacks /\ ~Ticking' /\ (Queueing' <=> Queueing)
<1>1. inside \in {<<"tick">>, <<"queue", "tick">>}
  BY InnermostIsLast
<1>2. CASE inside = <<"tick">>
  BY <1>2 DEF Leave, Stacks, Ticking, Queueing
<1>3. CASE inside = <<"queue", "tick">>
  BY <1>3, DropLast DEF Leave, Stacks, Ticking, Queueing
<1> QED BY <1>1, <1>2, <1>3

\* The end of processQueue leaves a tick that it was called from under way
LEMMA LeaveQueue ==
  ASSUME inside \in Stacks, In("queue"), Leave
  PROVE  Queueing /\ inside' \in Stacks /\ ~Queueing' /\ (Ticking' <=> Ticking)
<1>1. inside \in {<<"queue">>, <<"tick", "queue">>}
  BY InnermostIsLast
<1>2. CASE inside = <<"queue">>
  BY <1>2 DEF Leave, Stacks, Ticking, Queueing
<1>3. CASE inside = <<"tick", "queue">>
  BY <1>3, DropLast DEF Leave, Stacks, Ticking, Queueing
<1> QED BY <1>1, <1>2, <1>3
-----------------------------------------------------------------------------
(* ActionExecutor *)

\* A new executor is in order
LEMMA ExecutorInvInit == ExecutorInit => ExecutorInv
  BY ExecutorAssumption DEF ExecutorInit, ExecutorInv, ExecutorTypes, Stacks, QueueIsFresh, CurrentExecutes

\* What the scheduler does moves nothing in the executor but the stack
LEMMA ExecutorFrame ==
  ASSUME ExecutorInv, UNCHANGED executorVars, inside' \in Stacks, Queueing' <=> Queueing
  PROVE  ExecutorInv'
  BY DEF ExecutorInv, executorVars, ExecutorTypes, QueueIsFresh, CurrentExecutes

\* registerAction and unregisterAction do not touch the queue
LEMMA RegistryKeepsInv ==
  ASSUME ExecutorInv, NEW t \in Types, RegisterAction(t) \/ UnregisterAction(t, Busy)
  PROVE  ExecutorInv'
  BY DEF RegisterAction, UnregisterAction, ExecutorInv, ExecutorTypes, QueueIsFresh, CurrentExecutes, Queueing

\* enqueue gives an id that no queued action has
LEMMA EnqueueKeepsInv ==
  ASSUME ExecutorInv, NEW t \in Types, NEW p \in QueuePriorities, Enqueue(t, p)
  PROVE  ExecutorInv'
<1>1. PICK i \in 1..MaxQueued :
        /\ status[i] = None
        /\ queue' = queue \cup {[id |-> i, type |-> t, priority |-> p]}
        /\ status' = [status EXCEPT ![i] = "PENDING"]
        /\ UNCHANGED <<registry, inside, left, current, queueCalls>>
  BY DEF Enqueue
<1> DEFINE q == [id |-> i, type |-> t, priority |-> p]
<1>2. q \in QueuedActions /\ q.id = i
  BY DEF QueuedActions
<1>3. \A r \in queue : r \in QueuedActions /\ r.id \in 1..MaxQueued /\ r.id # i
  BY <1>1, ExecutorAssumption DEF ExecutorInv, ExecutorTypes, QueuedActions, QueueIsFresh, Statuses
<1>4. ExecutorTypes'
  BY <1>1, <1>2 DEF ExecutorInv, ExecutorTypes, Statuses
<1>5. QueueIsFresh'
  <2> HIDE DEF q
  <2>1. status'[i] = "PENDING" /\ queueCalls'[i] = 0 /\ \A j \in 1..MaxQueued : j # i => status'[j] = status[j]
    BY <1>1 DEF ExecutorInv, ExecutorTypes, QueueIsFresh
  <2>2. queue' = queue \cup {q} /\ queueCalls' = queueCalls
    BY <1>1 DEF q
  <2>3. "PENDING" # None
    BY ExecutorAssumption DEF Statuses
  <2> QED BY <1>2, <1>3, <2>1, <2>2, <2>3 DEF ExecutorInv, QueueIsFresh
<1>6. CurrentExecutes'
  BY <1>1, ExecutorAssumption
  DEF ExecutorInv, ExecutorTypes, QueuedActions, CurrentExecutes, Queueing, Statuses
<1> QED BY <1>1, <1>4, <1>5, <1>6 DEF ExecutorInv

\* cancel answers only for an action whose callback was not called
LEMMA CancelQueuedKeepsInv ==
  ASSUME ExecutorInv, NEW i \in 1..MaxQueued, CancelQueued(i)
  PROVE  ExecutorInv'
<1>1. \A q \in QueuedActions : q.id \in 1..MaxQueued
  BY DEF QueuedActions
<1>2. ExecutorTypes'
  BY DEF CancelQueued, ExecutorInv, ExecutorTypes, Statuses
<1>3. QueueIsFresh'
  BY <1>1, ExecutorAssumption DEF CancelQueued, ExecutorInv, ExecutorTypes, QueueIsFresh, Statuses
<1>4. CurrentExecutes'
  BY <1>1 DEF CancelQueued, ExecutorInv, ExecutorTypes, CurrentExecutes, Queueing
<1> QED BY <1>2, <1>3, <1>4 DEF CancelQueued, ExecutorInv

\* processQueue begins with nothing running
LEMMA ProcessQueueKeepsInv ==
  ASSUME ExecutorInv, ProcessQueue
  PROVE  ExecutorInv' /\ (Ticking' <=> Ticking)
<1>1. ~Queueing /\ inside' \in Stacks /\ Queueing' /\ (Ticking' <=> Ticking)
  BY EnterQueue DEF ExecutorInv, ProcessQueue
<1>2. ExecutorTypes'
  BY ExecutorAssumption DEF ProcessQueue, ExecutorInv, ExecutorTypes
<1>3. QueueIsFresh' /\ CurrentExecutes'
  BY <1>1 DEF ProcessQueue, ExecutorInv, QueueIsFresh, CurrentExecutes
<1> QED BY <1>1, <1>2, <1>3 DEF ExecutorInv

\* processQueue pops a cancelled action, fails one or calls its callback
LEMMA TakeQueuedKeepsInv ==
  ASSUME ExecutorInv, TakeQueued
  PROVE  ExecutorInv'
<1>1. PICK q \in queue :
       /\ queue' = queue \ {q}
       /\ \/ /\ status[q.id] = "CANCELLED"
             /\ UNCHANGED <<status, left, current, queueCalls>>
          \/ /\ status[q.id] # "CANCELLED" /\ q.type \in registry
             /\ status' = [status EXCEPT ![q.id] = "EXECUTING"]
             /\ current' = q
             /\ queueCalls' = [queueCalls EXCEPT ![q.id] = @ + 1]
             /\ UNCHANGED left
          \/ /\ status[q.id] # "CANCELLED" /\ q.type \notin registry
             /\ status' = [status EXCEPT ![q.id] = "FAILED"]
             /\ left' = left - 1
             /\ UNCHANGED <<current, queueCalls>>
  BY DEF TakeQueued, Tops
<1>2. /\ In("queue") /\ current = None /\ left > 0 /\ UNCHANGED <<registry, inside>>
      /\ q \in QueuedActions /\ q.id \in 1..MaxQueued /\ queueCalls[q.id] = 0 /\ q # None
      /\ \A r \in queue' : r \in queue /\ r.id \in 1..MaxQueued /\ r.id # q.id
  BY <1>1, ExecutorAssumption DEF TakeQueued, ExecutorInv, ExecutorTypes, QueuedActions, QueueIsFresh
<1>3. Queueing
  BY <1>2, InnermostIsLast DEF ExecutorInv, Queueing
<1>4. CASE status[q.id] = "CANCELLED" /\ UNCHANGED <<status, left, current, queueCalls>>
  BY <1>1, <1>2, <1>4 DEF ExecutorInv, ExecutorTypes, QueueIsFresh, CurrentExecutes, Queueing
<1>5. CASE /\ status' = [status EXCEPT ![q.id] = "EXECUTING"]
           /\ current' = q
           /\ queueCalls' = [queueCalls EXCEPT ![q.id] = @ + 1]
           /\ UNCHANGED left
  <2>1. ExecutorTypes'
    BY <1>1, <1>2, <1>5 DEF ExecutorInv, ExecutorTypes, Statuses
  <2>2. QueueIsFresh'
    BY <1>1, <1>2, <1>5, ExecutorAssumption DEF ExecutorInv, ExecutorTypes, QueueIsFresh, Statuses
  <2>3. CurrentExecutes'
    BY <1>2, <1>3, <1>5 DEF ExecutorInv, ExecutorTypes, CurrentExecutes, Queueing
  <2> QED BY <1>2, <2>1, <2>2, <2>3 DEF ExecutorInv
<1>6. CASE /\ status' = [status EXCEPT ![q.id] = "FAILED"]
           /\ left' = left - 1
           /\ UNCHANGED <<current, queueCalls>>
  <2>1. ExecutorTypes'
    BY <1>1, <1>2, <1>6, ExecutorAssumption DEF ExecutorInv, ExecutorTypes, Statuses
  <2>2. QueueIsFresh'
    BY <1>1, <1>2, <1>6, ExecutorAssumption DEF ExecutorInv, ExecutorTypes, QueueIsFresh, Statuses
  <2>3. CurrentExecutes'
    BY <1>2, <1>3, <1>6 DEF CurrentExecutes, Queueing
  <2> QED BY <1>2, <2>1, <2>2, <2>3 DEF ExecutorInv
<1> QED BY <1>1, <1>4, <1>5, <1>6

\* A callback returns to processQueue, which still has room for it
LEMMA ReturnQueuedKeepsInv ==
  ASSUME ExecutorInv, NEW r \in Outcomes, ReturnQueued(r)
  PROVE  ExecutorInv'
<1>1. current \in QueuedActions /\ current.id \in 1..MaxQueued /\ r \in Statuses /\ left > 0
      /\ status[current.id] = "EXECUTING"
  BY DEF ReturnQueued, ExecutorInv, ExecutorTypes, QueuedActions, CurrentExecutes, Outcomes, Statuses
<1>2. ExecutorTypes'
  BY <1>1, ExecutorAssumption DEF ReturnQueued, ExecutorInv, ExecutorTypes
<1>3. QueueIsFresh'
  <2>1. \A q \in queue : q.id \in 1..MaxQueued /\ q.id # current.id
    BY <1>1 DEF ExecutorInv, ExecutorTypes, QueuedActions, QueueIsFresh
  <2> QED BY <1>1, <2>1, ExecutorAssumption DEF ReturnQueued, ExecutorInv, ExecutorTypes, QueueIsFresh
<1>4. CurrentExecutes'
  BY DEF ReturnQueued, CurrentExecutes
<1> QED BY <1>2, <1>3, <1>4 DEF ReturnQueued, ExecutorInv

\* processQueue ends with nothing running
LEMMA EndQueueKeepsInv ==
  ASSUME ExecutorInv, EndQueue
  PROVE  ExecutorInv' /\ (Ticking' <=> Ticking)
<1>1. inside' \in Stacks /\ (Ticking' <=> Ticking)
  BY LeaveQueue DEF ExecutorInv, EndQueue
<1>2. ExecutorTypes'
  BY ExecutorAssumption DEF EndQueue, ExecutorInv, ExecutorTypes
<1>3. QueueIsFresh' /\ CurrentExecutes'
  BY DEF EndQueue, ExecutorInv, QueueIsFresh, CurrentExecutes
<1> QED BY <1>1, <1>2, <1>3 DEF ExecutorInv
-----------------------------------------------------------------------------
(* ActionScheduler *)

\* A new scheduler is in order
LEMMA SchedulerInvInit == Init => SchedulerInv
<1> SUFFICES ASSUME Init PROVE SchedulerInv
  OBVIOUS
<1>1. SchedulerTypes /\ HistoryTypes
  BY SchedulerAssumption DEF Init, SchedulerTypes, HistoryTypes, ActionIds
<1>2. Unused /\ DueIsLive /\ CalledLeaves /\ CalledWaits
  BY DEF Init, Unused, DueIsLive, CalledLeaves, CalledWaits
<1>3. DoneIsTrue
  BY DEF Init, DoneIsTrue
<1> QED BY <1>1, <1>2, <1>3 DEF SchedulerInv

\* What the executor does on its own moves nothing in the scheduler
LEMMA SchedulerFrame ==
  ASSUME SchedulerInv, UNCHANGED schedulerVars, Ticking' <=> Ticking
  PROVE  SchedulerInv'
<1>1. UNCHANGED <<now, schedule, action, dueAt, deps, done>>
      /\ UNCHANGED <<due, toRemove, running, calls, ended, verdict>>
  BY DEF schedulerVars, pending, entries, ticking, history
<1>2. SchedulerTypes' /\ HistoryTypes' /\ Unused' /\ DueIsLive'
  BY <1>1 DEF SchedulerInv, SchedulerTypes, HistoryTypes, Unused, DueIsLive
<1>3. CalledLeaves' /\ CalledWaits' /\ DoneIsTrue'
  BY <1>1 DEF SchedulerInv, CalledLeaves, CalledWaits, DoneIsTrue
<1> QED BY <1>2, <1>3 DEF SchedulerInv

\* What tick points to are ids
LEMMA DueIds ==
  ASSUME SchedulerInv
  PROVE  \A k \in DOMAIN due : due[k] \in ActionIds
  BY DEF SchedulerInv, SchedulerTypes

\* A new action has an id that nothing refers to yet
LEMMA AddKeepsInv ==
  ASSUME SchedulerInv, NEW a \in ScheduledActions, NEW time \in Nat, Add(a, time)
  PROVE  SchedulerInv'
<1>1. PICK i \in ActionIds :
        /\ action[i] = None /\ schedule' = schedule \cup {i}
        /\ action' = [action EXCEPT ![i] = a] /\ dueAt' = [dueAt EXCEPT ![i] = time]
  BY DEF Add
<1>2. /\ UNCHANGED <<now, deps, done, due, toRemove, running, calls, ended, verdict, inside>>
      /\ i \notin schedule /\ calls[i] = 0 /\ done[i] = None
  BY <1>1 DEF Add, ticking, history, SchedulerInv, Unused
<1>3. action'[i] = a /\ a # None /\ \A j \in ActionIds \ {i} : action'[j] = action[j] /\ dueAt'[j] = dueAt[j]
  BY <1>1, SchedulerAssumption DEF SchedulerInv, SchedulerTypes
<1>4. SchedulerTypes' /\ HistoryTypes'
  BY <1>1, <1>2 DEF SchedulerInv, SchedulerTypes, HistoryTypes
<1>5. Unused'
  BY <1>1, <1>2, <1>3 DEF SchedulerInv, Unused
<1>6. DueIsLive'
  BY <1>1, <1>2, <1>3, DueIds DEF SchedulerInv, DueIsLive, Ticking
<1>7. CalledLeaves'
  BY <1>1, <1>2, <1>3 DEF SchedulerInv, CalledLeaves
<1>8. CalledWaits'
  BY <1>1, <1>2, <1>3 DEF SchedulerInv, SchedulerTypes, CalledWaits
<1>9. DoneIsTrue'
  BY <1>1, <1>2, ExecutorAssumption DEF SchedulerInv, DoneIsTrue, Statuses
<1> QED BY <1>4, <1>5, <1>6, <1>7, <1>8, <1>9 DEF SchedulerInv

\* A dependency may come at any time, also in the middle of a tick
LEMMA AddDependencyKeepsInv ==
  ASSUME SchedulerInv, NEW i \in ActionIds, NEW j \in ActionIds, AddDependency(i, j)
  PROVE  SchedulerInv'
<1>1. UNCHANGED <<now, schedule, action, dueAt, done>> /\ inside' = inside
      /\ UNCHANGED <<due, toRemove, running, calls, ended, verdict>>
      /\ deps' = [deps EXCEPT ![i] = @ \cup {j}]
  BY DEF AddDependency, ticking, history
<1>2. SchedulerTypes' /\ HistoryTypes' /\ Unused' /\ DueIsLive'
  BY <1>1 DEF SchedulerInv, SchedulerTypes, HistoryTypes, Unused, DueIsLive, Ticking
<1>3. CalledLeaves' /\ CalledWaits' /\ DoneIsTrue'
  BY <1>1 DEF SchedulerInv, CalledLeaves, CalledWaits, DoneIsTrue
<1> QED BY <1>2, <1>3 DEF SchedulerInv

\* cancel drops an action that tick does not point to
LEMMA CancelKeepsInv ==
  ASSUME SchedulerInv, NEW i \in ActionIds, Cancel(i)
  PROVE  SchedulerInv'
<1>1. UNCHANGED <<now, action, due, toRemove, running, calls, ended, verdict, inside>>
      /\ schedule' = schedule \ {i} /\ done' = [done EXCEPT ![i] = "CANCELLED"]
      /\ i \in schedule /\ \A k \in DOMAIN due : due[k] # i
  BY DEF Cancel, Erase, ticking, history
<1>2. \A j \in ActionIds \ {i} : dueAt'[j] = dueAt[j] /\ done'[j] = done[j]
  BY <1>1 DEF Cancel, Erase, SchedulerInv, SchedulerTypes
<1>3. SchedulerTypes' /\ HistoryTypes'
  BY <1>1 DEF Cancel, Erase, SchedulerInv, SchedulerTypes, HistoryTypes, Statuses
<1>4. Unused'
  BY <1>1, <1>2 DEF SchedulerInv, Unused
<1>5. DueIsLive'
  BY <1>1, <1>2, DueIds DEF SchedulerInv, DueIsLive, Ticking
<1>6. CalledLeaves' /\ CalledWaits'
  BY <1>1, <1>2 DEF SchedulerInv, SchedulerTypes, CalledLeaves, CalledWaits
<1>7. DoneIsTrue'
  BY <1>1, <1>2 DEF SchedulerInv, SchedulerTypes, DoneIsTrue
<1> QED BY <1>3, <1>4, <1>5, <1>6, <1>7 DEF SchedulerInv

\* tick collects actions that are due, each once
LEMMA BeginTickKeepsInv ==
  ASSUME SchedulerInv, inside \in Stacks, BeginTick
  PROVE  SchedulerInv' /\ inside' \in Stacks /\ (Queueing' <=> Queueing)
<1> DEFINE S == {i \in schedule : IsDue(i)}
           n == Cardinality(S)
<1>1. ~Ticking /\ inside' \in Stacks /\ Ticking' /\ (Queueing' <=> Queueing)
  BY EnterTick DEF BeginTick
<1>2. UNCHANGED <<now, schedule, action, dueAt, deps, done>>
      /\ UNCHANGED <<toRemove, running, calls, ended, verdict>>
      /\ due = <<>> /\ toRemove = {} /\ running = None
  BY <1>1 DEF BeginTick, pending, entries, history, SchedulerInv, DueIsLive
<1>3. n \in Nat
  <2>1. IsFiniteSet(ActionIds)
    BY FS_Interval, SchedulerAssumption DEF ActionIds
  <2>2. S \subseteq ActionIds
    BY DEF SchedulerInv, SchedulerTypes
  <2> QED BY <2>1, <2>2, FS_Subset, FS_CardinalityType
<1>4. due' \in [1..n -> S] /\ \A k, m \in 1..n : k < m => due'[k] # due'[m]
  BY DEF BeginTick, Orders
<1>5. S \subseteq ActionIds /\ \A i \in S : i \in schedule /\ now >= dueAt[i]
  BY DEF SchedulerInv, SchedulerTypes, IsDue
<1> HIDE DEF S, n
<1>6. due' \in Seq(ActionIds)
  BY <1>3, <1>4, <1>5
<1>7. SchedulerTypes' /\ HistoryTypes' /\ Unused'
  BY <1>2, <1>6 DEF SchedulerInv, SchedulerTypes, HistoryTypes, Unused
<1>8. DueIsLive'
  <2>1. \A k, m \in 1..n : due'[k] = due'[m] => k = m
    BY <1>3, <1>4
  <2> QED BY <1>1, <1>2, <1>4, <1>5, <2>1 DEF DueIsLive
<1>9. CalledLeaves' /\ CalledWaits' /\ DoneIsTrue'
  BY <1>2 DEF SchedulerInv, CalledLeaves, CalledWaits, DoneIsTrue
<1> QED BY <1>1, <1>7, <1>8, <1>9 DEF SchedulerInv

\* The action tick looks at, and what is left when it has
LEMMA NextDue ==
  ASSUME SchedulerInv, due # <<>>
  PROVE  /\ Head(due) \in ActionIds /\ Head(due) \in schedule \ toRemove
         /\ now >= dueAt[Head(due)]
         /\ Tail(due) \in Seq(ActionIds)
         /\ \A k \in DOMAIN Tail(due) :
              /\ Tail(due)[k] \in ActionIds /\ Tail(due)[k] \in schedule \ toRemove
              /\ now >= dueAt[Tail(due)[k]] /\ Tail(due)[k] # Head(due)
         /\ \A k, m \in DOMAIN Tail(due) : Tail(due)[k] = Tail(due)[m] => k = m
<1>1. due \in Seq(ActionIds) /\ Len(due) \in Nat \ {0}
  BY EmptySeq DEF SchedulerInv, SchedulerTypes
<1>2. /\ Head(due) = due[1] /\ 1 \in DOMAIN due
      /\ Tail(due) \in Seq(ActionIds) /\ Len(Tail(due)) = Len(due) - 1
      /\ \A k \in 1..(Len(due) - 1) : Tail(due)[k] = due[k + 1]
  BY <1>1, HeadTailProperties
<1>3. \A k \in DOMAIN Tail(due) : k \in Nat /\ k + 1 \in DOMAIN due /\ k + 1 # 1 /\ Tail(due)[k] = due[k + 1]
  BY <1>1, <1>2
<1>4. \A k \in DOMAIN due : due[k] \in ActionIds
  BY DueIds
<1>5. \A k \in DOMAIN Tail(due) : Tail(due)[k] # Head(due)
  BY <1>2, <1>3 DEF SchedulerInv, DueIsLive
<1>6. \A k, m \in DOMAIN Tail(due) : Tail(due)[k] = Tail(due)[m] => k = m
  BY <1>3 DEF SchedulerInv, DueIsLive
<1> QED BY <1>2, <1>3, <1>4, <1>5, <1>6 DEF SchedulerInv, DueIsLive

\* The steps of tick are taken inside it
LEMMA InTick ==
  ASSUME inside \in Stacks, In("tick")
  PROVE  Ticking
  BY InnermostIsLast DEF Ticking

\* A due action that will not be called: past its deadline, or not registered
LEMMA FinishKeepsInv ==
  ASSUME SchedulerInv, Ticking, due # <<>>, running = None, Finish(Head(due), "FAILED"),
         UNCHANGED <<now, schedule, entries, running, history, inside>>
  PROVE  SchedulerInv'
<1> DEFINE i == Head(due)
<1>1. UNCHANGED <<now, schedule, action, dueAt, deps, running, calls, ended, verdict, inside>>
      /\ done' = [done EXCEPT ![i] = "FAILED"]
      /\ toRemove' = toRemove \cup {i} /\ due' = Tail(due)
  BY DEF Finish, entries, history
<1>2. /\ i \in ActionIds /\ i \in schedule /\ due' \in Seq(ActionIds)
      /\ \A k \in DOMAIN due' : due'[k] \in schedule' \ toRemove' /\ now' >= dueAt'[due'[k]]
      /\ \A k, m \in DOMAIN due' : due'[k] = due'[m] => k = m
  BY <1>1, NextDue
<1> HIDE DEF i
<1>3. SchedulerTypes' /\ HistoryTypes'
  BY <1>1, <1>2 DEF SchedulerInv, SchedulerTypes, HistoryTypes, Statuses
<1>4. Unused'
  BY <1>1, <1>2 DEF SchedulerInv, Unused
<1>5. DueIsLive'
  BY <1>1, <1>2 DEF DueIsLive, Ticking
<1>6. CalledLeaves' /\ CalledWaits'
  BY <1>1 DEF SchedulerInv, CalledLeaves, CalledWaits
<1>7. DoneIsTrue'
  BY <1>1, <1>2 DEF SchedulerInv, SchedulerTypes, DoneIsTrue
<1> QED BY <1>3, <1>4, <1>5, <1>6, <1>7 DEF SchedulerInv

\* An action whose prerequisites have not completed stays for another tick
LEMMA SkipKeepsInv ==
  ASSUME SchedulerInv, Ticking, SkipAction
  PROVE  SchedulerInv'
<1>1. UNCHANGED <<now, schedule, action, dueAt, deps, done, inside>>
      /\ UNCHANGED <<toRemove, running, calls, ended, verdict>>
      /\ running = None /\ due # <<>> /\ due' = Tail(due)
  BY DEF SkipAction, pending, entries, history
<1>2. /\ due' \in Seq(ActionIds)
      /\ \A k \in DOMAIN due' : due'[k] \in schedule' \ toRemove' /\ now' >= dueAt'[due'[k]]
      /\ \A k, m \in DOMAIN due' : due'[k] = due'[m] => k = m
  BY <1>1, NextDue
<1>3. SchedulerTypes' /\ HistoryTypes' /\ Unused'
  BY <1>1, <1>2 DEF SchedulerInv, SchedulerTypes, HistoryTypes, Unused
<1>4. DueIsLive'
  BY <1>1, <1>2 DEF DueIsLive, Ticking
<1>5. CalledLeaves' /\ CalledWaits' /\ DoneIsTrue'
  BY <1>1 DEF SchedulerInv, CalledLeaves, CalledWaits, DoneIsTrue
<1> QED BY <1>3, <1>4, <1>5 DEF SchedulerInv

\* The next action is a one-shot one never called, or has waited for its period
LEMMA StartedIsReady ==
  ASSUME SchedulerInv, due # <<>>, running = None
  PROVE  /\ action[Head(due)] \in ScheduledActions
         /\ action[Head(due)].period = 0 => calls[Head(due)] = 0
         /\ calls[Head(due)] > 0 => now >= ended[Head(due)] + action[Head(due)].period
<1> DEFINE i == Head(due)
<1>1. i \in ActionIds /\ i \in schedule \ toRemove /\ now >= dueAt[i] /\ i # None
  BY NextDue, SchedulerAssumption
<1> HIDE DEF i
<1>2. action[i] \in ScheduledActions /\ action[i].period \in Nat
  BY <1>1 DEF SchedulerInv, SchedulerTypes, Unused, ScheduledActions
<1>3. action[i].period = 0 => calls[i] = 0
  BY <1>1 DEF SchedulerInv, HistoryTypes, CalledLeaves
<1>4. calls[i] > 0 => dueAt[i] >= ended[i] + action[i].period
  BY <1>1 DEF SchedulerInv, CalledWaits
<1>5. dueAt[i] \in Nat /\ now \in Nat /\ ended[i] \in Nat
  BY <1>1, SchedulerAssumption DEF SchedulerInv, SchedulerTypes, HistoryTypes
<1> QED BY <1>1, <1>2, <1>3, <1>4, <1>5 DEF i

\* tick calls the callback of the first action it has left
LEMMA StartKeepsInv ==
  ASSUME SchedulerInv, Ticking, StartAction
  PROVE  SchedulerInv'
<1> DEFINE i == Head(due)
<1>1. CASE action[i].type \in registry
  <2>1. UNCHANGED <<now, schedule, action, dueAt, deps, done, due, toRemove, ended, verdict, inside>>
        /\ due # <<>> /\ running = None /\ running' = i /\ calls' = [calls EXCEPT ![i] = @ + 1]
    BY <1>1 DEF StartAction, entries
  <2>2. i \in ActionIds /\ i \in schedule \ toRemove /\ action[i] \in ScheduledActions /\ action[i] # None
        /\ (action[i].period = 0 => calls[i] = 0)
    BY <2>1, NextDue, StartedIsReady, SchedulerAssumption
  <2>3. DueIsLive'
    BY <2>1 DEF SchedulerInv, DueIsLive, Ticking
  <2> HIDE DEF i
  <2>4. SchedulerTypes' /\ HistoryTypes'
    BY <2>1, <2>2, SMTT(30) DEF SchedulerInv, SchedulerTypes, HistoryTypes
  <2>5. Unused'
    BY <2>1, <2>2 DEF SchedulerInv, Unused
  <2>6. CalledLeaves' /\ CalledWaits'
    <3>1. \A j \in ActionIds : j # running /\ (j # i => calls'[j] = calls[j])
      BY <2>1, SchedulerAssumption DEF SchedulerInv, HistoryTypes
    <3>2. action[i].period = 0 => calls'[i] = 1
      BY <2>1, <2>2 DEF SchedulerInv, HistoryTypes
    <3>3. CalledLeaves'
      BY <2>1, <3>1, <3>2 DEF SchedulerInv, CalledLeaves
    <3>4. CalledWaits'
      BY <2>1, <3>1 DEF SchedulerInv, SchedulerTypes, CalledWaits
    <3> QED BY <3>3, <3>4
  <2>7. DoneIsTrue'
    BY <2>1 DEF SchedulerInv, DoneIsTrue
  <2> QED BY <2>3, <2>4, <2>5, <2>6, <2>7 DEF SchedulerInv
<1>2. CASE action[i].type \notin registry
  BY <1>2, FinishKeepsInv DEF StartAction, history
<1> QED BY <1>1, <1>2

\* A callback returns to tick: the action waits for its period or will leave
LEMMA FinishActionKeepsInv ==
  ASSUME SchedulerInv, Ticking, NEW r \in Outcomes, FinishAction(r)
  PROVE  SchedulerInv'
<1> DEFINE i == running
           again == action[i].period > 0 /\ r = "COMPLETED"
<1>1. UNCHANGED <<now, schedule, action, deps, calls, inside>> /\ Reschedule(i, r)
      /\ due # <<>> /\ i = Head(due) /\ due' = Tail(due) /\ running' = None
      /\ done' = [done EXCEPT ![i] = r] /\ verdict' = [verdict EXCEPT ![i] = r]
      /\ ended' = [ended EXCEPT ![i] = IF action[i].period > 0 THEN now ELSE @]
  BY DEF FinishAction, SchedulerInv, DueIsLive
<1>2. /\ i \in ActionIds /\ i \in schedule \ toRemove /\ i # None /\ due' \in Seq(ActionIds)
      /\ \A k \in DOMAIN due' : due'[k] \in ActionIds /\ due'[k] \in schedule \ toRemove
                                /\ now >= dueAt[due'[k]] /\ due'[k] # i
      /\ \A k, m \in DOMAIN due' : due'[k] = due'[m] => k = m
  BY <1>1, NextDue, SchedulerAssumption
<1>3. r \in Statuses /\ action[i] # None /\ action[i].period \in Nat
  BY <1>2 DEF Outcomes, Statuses, SchedulerInv, SchedulerTypes, Unused, ScheduledActions
<1>4. /\ again => dueAt' = [dueAt EXCEPT ![i] = now + action[i].period] /\ toRemove' = toRemove
      /\ ~again => dueAt' = dueAt /\ toRemove' = toRemove \cup {i}
  BY <1>1 DEF Reschedule
<1>5. now \in Nat /\ now + action[i].period \in Nat
  BY <1>3, SchedulerAssumption DEF SchedulerInv, SchedulerTypes
<1> HIDE DEF i
<1>6. \A j \in ActionIds \ {i} : dueAt'[j] = dueAt[j] /\ ended'[j] = ended[j] /\ done'[j] = done[j]
                                 /\ verdict'[j] = verdict[j]
  BY <1>1, <1>4 DEF SchedulerInv, SchedulerTypes, HistoryTypes
<1>7. SchedulerTypes'
  <2>1. toRemove' \subseteq ActionIds
    BY <1>2, <1>4 DEF SchedulerInv, SchedulerTypes
  <2>2. dueAt' \in [ActionIds -> Nat]
    BY <1>2, <1>3, <1>4, <1>5 DEF SchedulerInv, SchedulerTypes
  <2>3. done' \in [ActionIds -> Statuses \cup {None}]
    BY <1>1, <1>2, <1>3 DEF SchedulerInv, SchedulerTypes
  <2> HIDE DEF again
  <2> QED BY <1>1, <1>2, <2>1, <2>2, <2>3 DEF SchedulerInv, SchedulerTypes
<1>8. HistoryTypes'
  BY <1>1, <1>2, <1>3 DEF SchedulerInv, SchedulerTypes, HistoryTypes
<1>9. Unused'
  BY <1>1, <1>2, <1>3, <1>6 DEF SchedulerInv, Unused
<1>10. DueIsLive'
  BY <1>1, <1>2, <1>4, <1>6 DEF DueIsLive, Ticking
<1>11. CalledLeaves'
  BY <1>1, <1>2, <1>4 DEF i, SchedulerInv, CalledLeaves
<1>12. CalledWaits'
  <2> SUFFICES ASSUME NEW j \in schedule' \ toRemove', calls'[j] > 0
               PROVE  dueAt'[j] >= ended'[j] + action'[j].period
    BY DEF CalledWaits
  <2>1. j \in schedule \ toRemove /\ j \in ActionIds
    BY <1>1, <1>4 DEF SchedulerInv, SchedulerTypes
  <2>2. CASE j # i
    BY <1>1, <1>6, <2>1, <2>2 DEF i, SchedulerInv, CalledWaits
  <2>3. CASE j = i
    <3>1. again
      BY <1>4, <2>3
    <3>2. dueAt'[i] = now + action[i].period /\ ended'[i] = now
      BY <1>1, <1>2, <1>4, <3>1 DEF SchedulerInv, SchedulerTypes, HistoryTypes
    <3> QED BY <1>1, <1>5, <2>3, <3>2
  <2> QED BY <2>2, <2>3
<1>13. DoneIsTrue'
  <2>1. /\ DoneIsTrue /\ done \in [ActionIds -> Statuses \cup {None}]
        /\ verdict \in [ActionIds -> Outcomes \cup {None}]
    BY DEF SchedulerInv, SchedulerTypes, HistoryTypes
  <2>2. done'[i] = r /\ verdict'[i] = r
    BY <1>1, <1>2, <2>1
  <2>3. toRemove \subseteq toRemove' /\ (r = "CANCELLED" => i \in toRemove')
    BY <1>4
  <2> HIDE DEF again
  <2> QED BY <1>1, <1>2, <1>6, <2>1, <2>2, <2>3 DEF DoneIsTrue
<1> QED BY <1>7, <1>8, <1>9, <1>10, <1>11, <1>12, <1>13 DEF SchedulerInv

\* tick ends and drops what is in toRemove
LEMMA EndTickKeepsInv ==
  ASSUME SchedulerInv, inside \in Stacks, EndTick
  PROVE  SchedulerInv' /\ inside' \in Stacks /\ (Queueing' <=> Queueing)
<1>1. inside' \in Stacks /\ ~Ticking' /\ (Queueing' <=> Queueing)
  BY LeaveTick DEF EndTick
<1>2. UNCHANGED <<now, action, done, due, running, calls, ended, verdict>>
      /\ due = <<>> /\ running = None /\ toRemove' = {} /\ schedule' = schedule \ toRemove
  BY DEF EndTick, Erase, history
<1>3. \A i \in ActionIds \ toRemove : dueAt'[i] = dueAt[i]
  BY DEF EndTick, Erase
<1>4. SchedulerTypes' /\ HistoryTypes' /\ Unused'
  BY <1>2 DEF EndTick, Erase, SchedulerInv, SchedulerTypes, HistoryTypes, Unused
<1>5. DueIsLive'
  BY <1>2 DEF DueIsLive
<1>6. CalledLeaves' /\ CalledWaits'
  BY <1>2, <1>3 DEF SchedulerInv, SchedulerTypes, CalledLeaves, CalledWaits
<1>7. DoneIsTrue'
  BY <1>2 DEF SchedulerInv, DoneIsTrue
<1> QED BY <1>1, <1>4, <1>5, <1>6, <1>7 DEF SchedulerInv

\* Time passes at any moment of a tick
LEMMA PassTimeKeepsInv ==
  ASSUME SchedulerInv, PassTime
  PROVE  SchedulerInv'
<1>1. UNCHANGED <<schedule, action, dueAt, deps, done, inside>>
      /\ UNCHANGED <<due, toRemove, running, calls, ended, verdict>>
      /\ now < MaxTime /\ now' = now + 1
  BY DEF PassTime, pending, entries, ticking, history
<1>2. SchedulerTypes' /\ HistoryTypes' /\ Unused'
  BY <1>1, SchedulerAssumption DEF SchedulerInv, SchedulerTypes, HistoryTypes, Unused
<1>3. DueIsLive'
  <2>1. \A i \in ActionIds : now >= dueAt[i] => now' >= dueAt'[i]
    BY <1>1, SchedulerAssumption DEF SchedulerInv, SchedulerTypes
  <2> QED BY <1>1, <2>1, DueIds DEF SchedulerInv, DueIsLive, Ticking
<1>4. CalledLeaves' /\ CalledWaits' /\ DoneIsTrue'
  BY <1>1 DEF SchedulerInv, CalledLeaves, CalledWaits, DoneIsTrue
<1> QED BY <1>2, <1>3, <1>4 DEF SchedulerInv
-----------------------------------------------------------------------------
(* The theorems *)

\* Scheduler and executor begin in order
LEMMA IInvInit == Init => IInv
  BY ExecutorInvInit, SchedulerInvInit DEF Init, IInv

\* Calls to the scheduler, between ticks and in callbacks, keep both in order
LEMMA ScheduleStepKeepsIInv == IInv /\ ScheduleStep => IInv'
<1> SUFFICES ASSUME IInv, ScheduleStep PROVE IInv'
  OBVIOUS
<1>1. UNCHANGED executorVars /\ inside' = inside
  BY DEF ScheduleStep, ScheduleAfter, ScheduleAt, ScheduleBefore, SchedulePeriodic, Add, AddDependency, Cancel
<1>2. ExecutorInv'
  BY <1>1, ExecutorFrame DEF IInv, ExecutorInv, Queueing
<1>3. ASSUME NEW t \in Types, NEW d \in Delays, NEW p \in Priorities,
             ScheduleAfter(t, d, p) \/ ScheduleBefore(t, now + d, p)
      PROVE  SchedulerInv'
  <2>1. now \in Nat /\ now + d \in Nat
    BY SchedulerAssumption DEF IInv, SchedulerInv, SchedulerTypes
  <2>2. Action(t, None, p, 0) \in ScheduledActions /\ Action(t, now + d, p, 0) \in ScheduledActions
    BY <2>1 DEF Action, ScheduledActions
  <2> QED BY <1>3, <2>1, <2>2, AddKeepsInv DEF IInv, ScheduleAfter, ScheduleAt, ScheduleBefore
<1>4. ASSUME NEW t \in Types, NEW d \in Periods, NEW p \in Priorities, SchedulePeriodic(t, d, p)
      PROVE  SchedulerInv'
  <2>1. now \in Nat /\ d \in Nat
    BY SchedulerAssumption DEF IInv, SchedulerInv, SchedulerTypes
  <2>2. Action(t, None, p, d) \in ScheduledActions
    BY <2>1 DEF Action, ScheduledActions
  <2> QED BY <1>4, <2>1, <2>2, AddKeepsInv DEF IInv, SchedulePeriodic
<1>5. ASSUME NEW i \in ActionIds, NEW j \in ActionIds, AddDependency(i, j) PROVE SchedulerInv'
  BY <1>5, AddDependencyKeepsInv DEF IInv
<1>6. ASSUME NEW i \in ActionIds, Cancel(i) PROVE SchedulerInv'
  BY <1>6, CancelKeepsInv DEF IInv
<1>7. SchedulerInv'
  BY <1>3, <1>4, <1>5, <1>6 DEF ScheduleStep
<1> QED BY <1>2, <1>7 DEF IInv

\* The steps of tick keep both in order
LEMMA TickStepKeepsIInv == IInv /\ TickStep => IInv'
<1> SUFFICES ASSUME IInv, TickStep PROVE IInv'
  OBVIOUS
<1>1. ExecutorInv /\ SchedulerInv /\ inside \in Stacks
  BY DEF IInv, ExecutorInv
<1>2. UNCHANGED executorVars
  BY DEF TickStep, BeginTick, MissDeadline, SkipAction, StartAction, EndTick, FinishAction
<1>3. CASE BeginTick
  BY <1>1, <1>2, <1>3, BeginTickKeepsInv, ExecutorFrame DEF IInv
<1>4. CASE EndTick
  BY <1>1, <1>2, <1>4, EndTickKeepsInv, ExecutorFrame DEF IInv
<1>5. CASE MissDeadline \/ SkipAction \/ StartAction \/ \E r \in Outcomes : FinishAction(r)
  <2>1. Ticking /\ inside' = inside
    BY <1>1, <1>5, InTick DEF MissDeadline, SkipAction, StartAction, FinishAction
  <2>2. ExecutorInv'
    BY <1>1, <1>2, <2>1, ExecutorFrame DEF Queueing
  <2>3. MissDeadline => SchedulerInv'
    BY <1>1, <2>1, FinishKeepsInv DEF MissDeadline
  <2>4. SkipAction \/ StartAction \/ (\E r \in Outcomes : FinishAction(r)) => SchedulerInv'
    BY <1>1, <2>1, SkipKeepsInv, StartKeepsInv, FinishActionKeepsInv
  <2> QED BY <1>5, <2>2, <2>3, <2>4 DEF IInv
<1> QED BY <1>3, <1>4, <1>5 DEF TickStep

\* Calls to the executor and the steps of processQueue keep both in order
LEMMA ExecutorStepKeepsIInv ==
  IInv /\ (ExecutorCall \/ QueueStep) /\ UNCHANGED schedulerVars => IInv'
<1> SUFFICES ASSUME IInv, ExecutorCall \/ QueueStep, UNCHANGED schedulerVars PROVE IInv'
  OBVIOUS
<1>1. ExecutorInv /\ SchedulerInv
  BY DEF IInv
<1>2. CASE \E t \in Types : RegisterAction(t) \/ UnregisterAction(t, Busy)
  BY <1>1, <1>2, RegistryKeepsInv, SchedulerFrame DEF IInv, RegisterAction, UnregisterAction, Ticking
<1>3. CASE \E t \in Types, p \in QueuePriorities : Enqueue(t, p)
  BY <1>1, <1>3, EnqueueKeepsInv, SchedulerFrame DEF IInv, Enqueue, Ticking
<1>4. CASE \E i \in 1..MaxQueued : CancelQueued(i)
  BY <1>1, <1>4, CancelQueuedKeepsInv, SchedulerFrame DEF IInv, CancelQueued, Ticking
<1>5. CASE ProcessQueue
  BY <1>1, <1>5, ProcessQueueKeepsInv, SchedulerFrame DEF IInv
<1>6. CASE TakeQueued
  BY <1>1, <1>6, TakeQueuedKeepsInv, SchedulerFrame DEF IInv, TakeQueued, Ticking
<1>7. CASE \E r \in Outcomes : ReturnQueued(r)
  BY <1>1, <1>7, ReturnQueuedKeepsInv, SchedulerFrame DEF IInv, ReturnQueued, Ticking
<1>8. CASE EndQueue
  BY <1>1, <1>8, EndQueueKeepsInv, SchedulerFrame DEF IInv
<1> QED BY <1>2, <1>3, <1>4, <1>5, <1>6, <1>7, <1>8 DEF ExecutorCall, QueueStep

\* Every step keeps both in order
LEMMA IInvNext == IInv /\ [Next]_vars => IInv'
<1> SUFFICES ASSUME IInv, [Next]_vars PROVE IInv'
  OBVIOUS
<1>1. CASE ScheduleStep
  BY <1>1, ScheduleStepKeepsIInv
<1>2. CASE TickStep
  BY <1>2, TickStepKeepsIInv
<1>3. CASE PassTime
  BY <1>3, PassTimeKeepsInv, ExecutorFrame DEF IInv, ExecutorInv, PassTime, Queueing
<1>4. CASE (ExecutorCall \/ QueueStep) /\ UNCHANGED schedulerVars
  BY <1>4, ExecutorStepKeepsIInv
<1>5. CASE UNCHANGED vars
  BY <1>5, ExecutorFrame, SchedulerFrame DEF vars, IInv, ExecutorInv, Queueing, Ticking
<1> QED BY <1>1, <1>2, <1>3, <1>4, <1>5 DEF Next

\* What tick and processQueue rely on between callbacks holds in every state: the
\* invariant from which the theorems below follow
THEOREM Invariance == Spec => []IInv
  BY IInvInit, IInvNext, PTL DEF Spec

\* The members of the scheduler and the executor and the locals of tick and
\* processQueue keep their types, and the two are inside each other at most once
THEOREM TypeCorrect == Spec => []TypeOK
<1>1. IInv => TypeOK
  BY DEF IInv, ExecutorInv, SchedulerInv, SchedulerTypes, HistoryTypes, TypeOK
<1> QED BY <1>1, Invariance, PTL

\* A scheduled action that is not periodic, and a queued one, has its callback
\* called at most once, whatever other callbacks do in the middle of a tick
THEOREM CalledOnce == Spec => []RunsOnce
<1>1. ASSUME IInv PROVE RunsOnce
  <2>1. ASSUME NEW i \in ActionIds, calls[i] > 1 PROVE action[i].period > 0
    <3>1. calls[i] # 0 /\ calls[i] # 1 /\ calls[i] > 0
      BY <1>1, <2>1 DEF IInv, SchedulerInv, HistoryTypes
    <3>2. action[i] \in ScheduledActions
      BY <1>1, <3>1 DEF IInv, SchedulerInv, SchedulerTypes, Unused
    <3>3. action[i].period \in Nat /\ action[i].period # 0
      BY <1>1, <3>1, <3>2 DEF IInv, SchedulerInv, CalledLeaves, ScheduledActions
    <3> QED BY <3>3
  <2> QED BY <1>1, <2>1 DEF RunsOnce, IInv, ExecutorInv, QueueIsFresh
<1> QED BY <1>1, Invariance, PTL

\* Only StartAction calls a scheduled action's callback
LEMMA CallIsStart ==
  ASSUME [Next]_vars, NEW i \in ActionIds, IInv, calls'[i] > calls[i]
  PROVE  StartAction /\ i = Head(due) /\ due # <<>> /\ running = None
<1>1. calls' # calls
  BY DEF IInv, SchedulerInv, HistoryTypes
<1>2. StartAction
  BY <1>1 DEF Next, ScheduleStep, ScheduleAfter, ScheduleAt, ScheduleBefore, SchedulePeriodic, Add,
    AddDependency, Cancel, TickStep, BeginTick, MissDeadline, SkipAction, EndTick, FinishAction,
    PassTime, vars, schedulerVars, history
<1>3. due # <<>> /\ running = None /\ calls' = [calls EXCEPT ![Head(due)] = @ + 1]
  BY <1>1, <1>2 DEF StartAction
<1>4. i = Head(due)
  BY <1>3 DEF IInv, SchedulerInv, HistoryTypes
<1> QED BY <1>2, <1>3, <1>4

\* An action's callback is called only when the last outcome of each of its
\* prerequisites' own callbacks was COMPLETED
THEOREM PrerequisitesCompleted == Spec => PrerequisitesFirst
<1>1. ASSUME IInv, [Next]_vars, NEW i \in ActionIds, calls'[i] > calls[i], NEW j \in deps[i]
      PROVE  verdict[j] = "COMPLETED"
  <2>1. StartAction /\ i = Head(due)
    BY <1>1, CallIsStart
  <2>2. j \in ActionIds /\ done[j] = "COMPLETED"
    BY <1>1, <2>1 DEF StartAction, AreDependenciesMet, IInv, SchedulerInv, SchedulerTypes
  <2> QED BY <1>1, <2>2 DEF IInv, SchedulerInv, DoneIsTrue
<1>2. IInv /\ [Next]_vars =>
        [\A i \in ActionIds : calls'[i] > calls[i] =>
           \A j \in deps[i] : verdict[j] = "COMPLETED"]_vars
  BY <1>1
<1> QED BY <1>2, Invariance, PTL DEF Spec, PrerequisitesFirst

\* An action's callback is called only when it is due, not past its deadline
\* and, if it ran before, a period after it last returned
THEOREM CalledInTime == Spec => RunsInTime
<1> DEFINE Timely(i) == /\ now >= dueAt[i]
                        /\ action[i].deadline # None => now <= action[i].deadline
                        /\ calls[i] > 0 => now >= ended[i] + action[i].period
<1>1. ASSUME IInv, [Next]_vars, NEW i \in ActionIds, calls'[i] > calls[i]
      PROVE  Timely(i)
  <2>1. StartAction /\ i = Head(due) /\ due # <<>> /\ running = None
    BY <1>1, CallIsStart
  <2>2. now >= dueAt[i] /\ action[i] \in ScheduledActions
        /\ (calls[i] > 0 => now >= ended[i] + action[i].period)
    BY <1>1, <2>1, NextDue, StartedIsReady DEF IInv
  <2>3. action[i].deadline # None => now <= action[i].deadline
    <3>1. action[i].deadline # None => action[i].deadline \in Nat
      BY <2>2 DEF ScheduledActions
    <3>2. now \in Nat
      BY <1>1, SchedulerAssumption DEF IInv, SchedulerInv, SchedulerTypes
    <3>3. ~(action[i].deadline # None /\ now > action[i].deadline)
      BY <2>1 DEF StartAction, InTime, PastDeadline
    <3> QED BY <3>1, <3>2, <3>3
  <2> QED BY <2>2, <2>3
<1>2. IInv /\ [Next]_vars => [\A i \in ActionIds : calls'[i] > calls[i] => Timely(i)]_vars
  BY <1>1
<1> QED BY <1>2, Invariance, PTL DEF Spec, RunsInTime

\* After a successful cancel no step calls the action's callback or overwrites
\* the CANCELLED that cancel recorded, in the scheduler and in the executor
THEOREM CancelHolds == Spec => CancelIsFinal
<1>1. ASSUME IInv, [Next]_vars, NEW i \in ActionIds, done[i] = "CANCELLED"
      PROVE  done'[i] = "CANCELLED" /\ calls'[i] = calls[i]
  <2>1. i \notin schedule \ toRemove /\ action[i] # None
    BY <1>1, ExecutorAssumption DEF IInv, SchedulerInv, DoneIsTrue, Unused, Statuses
  <2>2. due # <<>> => Head(due) # i
    BY <1>1, <2>1, NextDue DEF IInv
  <2>3. running # None => running # i
    BY <1>1, <2>2 DEF IInv, SchedulerInv, DueIsLive
  <2>4. done \in [ActionIds -> Statuses \cup {None}] /\ calls \in [ActionIds -> Nat]
    BY <1>1 DEF IInv, SchedulerInv, SchedulerTypes, HistoryTypes
  <2>5. ASSUME ScheduleStep PROVE done'[i] = "CANCELLED" /\ calls'[i] = calls[i]
    BY <1>1, <2>4, <2>5 DEF ScheduleStep, ScheduleAfter, ScheduleAt, ScheduleBefore, SchedulePeriodic,
      Add, AddDependency, Cancel, history
  <2>6. ASSUME TickStep PROVE done'[i] = "CANCELLED" /\ calls'[i] = calls[i]
    BY <1>1, <2>2, <2>3, <2>4, <2>6 DEF TickStep, BeginTick, MissDeadline, SkipAction, StartAction, EndTick,
      FinishAction, Finish, pending, history
  <2>7. ASSUME PassTime \/ UNCHANGED schedulerVars PROVE done'[i] = "CANCELLED" /\ calls'[i] = calls[i]
    BY <1>1, <2>7 DEF PassTime, schedulerVars, pending, history
  <2> QED BY <1>1, <2>5, <2>6, <2>7 DEF Next, vars
<1>2. ASSUME IInv, [Next]_vars, NEW i \in 1..MaxQueued, status[i] = "CANCELLED"
      PROVE  status'[i] = "CANCELLED" /\ queueCalls'[i] = queueCalls[i]
  <2>1. status \in [1..MaxQueued -> Statuses \cup {None}] /\ queueCalls \in [1..MaxQueued -> Nat]
        /\ (current # None => current.id # i) /\ "CANCELLED" # None
    BY <1>2, ExecutorAssumption DEF IInv, ExecutorInv, ExecutorTypes, CurrentExecutes, Statuses
  <2>2. ASSUME UNCHANGED executorVars PROVE status'[i] = "CANCELLED" /\ queueCalls'[i] = queueCalls[i]
    BY <1>2, <2>2 DEF executorVars
  <2>3. ASSUME ExecutorCall PROVE status'[i] = "CANCELLED" /\ queueCalls'[i] = queueCalls[i]
    BY <1>2, <2>1, <2>3 DEF ExecutorCall, RegisterAction, UnregisterAction, Enqueue, CancelQueued, ProcessQueue
  <2>4. ASSUME QueueStep PROVE status'[i] = "CANCELLED" /\ queueCalls'[i] = queueCalls[i]
    BY <1>2, <2>1, <2>4 DEF QueueStep, TakeQueued, ReturnQueued, EndQueue
  <2>5. ScheduleStep \/ TickStep \/ PassTime => UNCHANGED executorVars
    BY DEF ScheduleStep, ScheduleAfter, ScheduleAt, ScheduleBefore, SchedulePeriodic, Add, AddDependency,
      Cancel, TickStep, BeginTick, MissDeadline, SkipAction, StartAction, EndTick, FinishAction, PassTime
  <2> QED BY <1>2, <2>2, <2>3, <2>4, <2>5 DEF Next, vars
<1>3. IInv /\ [Next]_vars =>
        [/\ \A i \in ActionIds : done[i] = "CANCELLED" =>
              done'[i] = "CANCELLED" /\ calls'[i] = calls[i]
         /\ \A i \in 1..MaxQueued : status[i] = "CANCELLED" =>
              status'[i] = "CANCELLED" /\ queueCalls'[i] = queueCalls[i]]_vars
  BY <1>1, <1>2
<1> QED BY <1>3, Invariance, PTL DEF Spec, CancelIsFinal

(***************************************************************************)
(* The queue and the schedule                                              *)
(***************************************************************************)
ThreadPlaces == {"idle", "submitting", "running", "calling", "noting"}
Turn == [at : ThreadPlaces, due : Seq(CoreAtoms), batch : Seq(CoreAtoms), result : {NoStatus} \cup ActionStatus]

\* What a thread found due it submits first, and in a batch something is left to call
Fits(turn) ==
  /\ turn.at = "idle" => turn.due = <<>> /\ turn.batch = <<>>
  /\ turn.at = "submitting" => turn.batch = <<>>
  /\ turn.at \in {"running", "calling", "noting"} => turn.due = <<>> /\ turn.batch # <<>>

PlannedEntry == [atom : CoreAtoms, dependencies : SUBSET CoreAtoms, repeats : Int, due : BOOLEAN]

TurnsFit == turns \in [CoreThreads -> Turn] /\ \A t \in CoreThreads : Fits(turns[t])

\* Where the occurrences of a are
HeldIn(turn, a) == Copies(a, turn.due) + Copies(a, Uncalled(turn))
Placed(a) == owed[a] = Copies(a, corePending) + Planned(a, planned) + Carried(a)
Sorted(q, prio) == \A i, j \in DOMAIN q : i < j => prio[q[i]] >= prio[q[j]]

ExecutorIsSound ==
  /\ corePending \in Seq(CoreAtoms) /\ coreExecuting \in Seq(CoreAtoms)
  /\ corePriority \in [CoreAtoms -> Nat] /\ DOMAIN coreStatus = CoreAtoms /\ startTimes \subseteq CoreAtoms
  /\ ResultsAreTrue /\ Len(coreExecuting) <= MaxConcurrent /\ Sorted(corePending, corePriority)

CoreInv ==
  /\ ExecutorIsSound /\ TurnsFit /\ planned \in Seq(PlannedEntry) /\ owed \in [CoreAtoms -> Int]
  /\ \A a \in CoreAtoms : Placed(a)

LEMMA CoreInvSuffices == CoreInv => ActionsAreKept
BY DEF CoreInv, ActionsAreKept, NoneTwice, Placed, Sorted, ExecutorIsSound

LEMMA CarriedIs ==
  /\ \A a : Carried(a) = SumOf(InHands(a), CoreThreads)
  /\ \A a : Carried(a)' = SumOf(InHands(a)', CoreThreads)
<1>1. \A a : Carried(a) = SumOf(InHands(a), CoreThreads)
  BY DEF Carried, FoldFunctionOnSet, SumOf, MapThenSumSet, MapThenFoldSet
<1>2. \A a : Carried(a)' = SumOf(InHands(a)', CoreThreads)
  BY DEF Carried, FoldFunctionOnSet, SumOf, MapThenSumSet, MapThenFoldSet
<1> QED BY <1>1, <1>2

LEMMA ByPriorityIs ==
  ASSUME NEW s \in Seq(CoreAtoms), NEW prio \in [CoreAtoms -> Nat]
  PROVE  /\ ByPriority(s, prio) \in Seq(CoreAtoms) /\ ToSet(ByPriority(s, prio)) = ToSet(s)
         /\ Sorted(ByPriority(s, prio), prio)
         /\ \A a : Copies(a, ByPriority(s, prio)) = Copies(a, s)
<1> DEFINE key == [a \in CoreAtoms |-> 0 - prio[a]]
           r == StableSort(s, key)
<1>1. \A a \in CoreAtoms : key[a] = 0 - prio[a] /\ key[a] \in Int /\ prio[a] \in Nat
  OBVIOUS
<1> HIDE DEF key
<1>2. /\ r \in Seq(CoreAtoms) /\ Permutes(r, s)
      /\ \A i, j \in DOMAIN r : i < j => key[r[i]] <= key[r[j]]
  BY <1>1, StableSortIs
<1>3. ByPriority(s, prio) = r
  BY DEF ByPriority, key
<1> HIDE DEF r
<1>4. Sorted(r, prio)
  <2> SUFFICES ASSUME NEW i \in DOMAIN r, NEW j \in DOMAIN r, i < j PROVE prio[r[i]] >= prio[r[j]]
    BY DEF Sorted
  <2>1. key[r[i]] <= key[r[j]] /\ r[i] \in CoreAtoms /\ r[j] \in CoreAtoms
    BY <1>2
  <2> QED BY <1>1, <2>1
<1>5. IsFiniteSet(DOMAIN s)
  BY FS_Interval
<1>6. ToSet(r) = ToSet(s)
  BY <1>2, PermutesElements
<1>7. \A a : Copies(a, r) = Copies(a, s)
  BY <1>2, <1>5, CopiesPermuted
<1> QED BY <1>2, <1>3, <1>4, <1>6, <1>7

\* What is in a vector is so at least once
LEMMA CopiesFound ==
  ASSUME NEW S, NEW s \in Seq(S), NEW a
  PROVE  a \in ToSet(s) <=> Copies(a, s) # 0
<1> DEFINE C == {i \in DOMAIN s : s[i] = a}
<1>1. IsFiniteSet(C) /\ Copies(a, s) = Cardinality(C)
  BY CopiesFinite DEF Copies
<1>2. a \in ToSet(s) <=> C # {}
  BY DEF ToSet
<1> HIDE DEF C
<1> QED BY <1>1, <1>2, FS_EmptySet

LEMMA UncalledIs ==
  ASSUME NEW turn \in Turn, Fits(turn)
  PROVE  Uncalled(turn) \in Seq(CoreAtoms) /\ \A a : HeldIn(turn, a) \in Nat
<1>1. turn.due \in Seq(CoreAtoms) /\ turn.batch \in Seq(CoreAtoms)
  BY DEF Turn
<1>2. turn.at \in {"calling", "noting"} => turn.batch # <<>>
  BY DEF Fits
<1>3. turn.batch # <<>> => Tail(turn.batch) \in Seq(CoreAtoms)
  BY <1>1
<1>4. Uncalled(turn) \in Seq(CoreAtoms)
  BY <1>1, <1>2, <1>3 DEF Uncalled
<1>5. ASSUME NEW a PROVE HeldIn(turn, a) \in Nat
  <2>1. Copies(a, turn.due) \in Nat /\ Copies(a, Uncalled(turn)) \in Nat
    BY <1>1, <1>4, CopiesFinite
  <2> QED BY <2>1 DEF HeldIn
<1> QED BY <1>4, <1>5

\* A thread's turn changes
LEMMA HandsMove ==
  ASSUME TurnsFit, NEW t \in CoreThreads, NEW turn \in Turn, Fits(turn), turns' = [turns EXCEPT ![t] = turn]
  PROVE  /\ TurnsFit'
         /\ \A a : /\ Carried(a)' = Carried(a) - HeldIn(turns[t], a) + HeldIn(turn, a)
                   /\ Carried(a) \in Nat /\ Carried(a)' \in Nat
                   /\ HeldIn(turns[t], a) \in Nat /\ HeldIn(turn, a) \in Nat
<1>1. /\ turns' \in [CoreThreads -> Turn] /\ turns'[t] = turn
      /\ \A s \in CoreThreads \ {t} : turns'[s] = turns[s]
      /\ turns \in [CoreThreads -> Turn]
  BY DEF TurnsFit
<1>2. \A s \in CoreThreads : Fits(turns'[s]) /\ Fits(turns[s])
  BY <1>1 DEF TurnsFit
<1> SUFFICES ASSUME NEW a
    PROVE  /\ Carried(a)' = Carried(a) - HeldIn(turns[t], a) + HeldIn(turn, a)
           /\ Carried(a) \in Nat /\ Carried(a)' \in Nat
           /\ HeldIn(turns[t], a) \in Nat /\ HeldIn(turn, a) \in Nat
  BY <1>1, <1>2 DEF TurnsFit
<1> DEFINE g == [s \in CoreThreads |-> HeldIn(turns[s], a)]
           h == [s \in CoreThreads |-> HeldIn(turns'[s], a)]
<1>3. InHands(a) = g /\ InHands(a)' = h
  BY DEF InHands, HeldIn
<1>4. \A s \in CoreThreads : g[s] \in Nat /\ h[s] \in Nat
  BY <1>1, <1>2, UncalledIs
<1>5. g[t] = HeldIn(turns[t], a) /\ h[t] = HeldIn(turn, a) /\ \A s \in CoreThreads \ {t} : h[s] = g[s]
  BY <1>1
<1> HIDE DEF g, h
<1>6. SumOf(h, CoreThreads) = SumOf(g, CoreThreads) - g[t] + h[t] /\ SumOf(g, CoreThreads) \in Nat /\ SumOf(h, CoreThreads) \in Nat
  BY <1>4, <1>5, SumChanged, CoreAssumption
<1>7. Carried(a) = SumOf(g, CoreThreads) /\ Carried(a)' = SumOf(h, CoreThreads)
  BY <1>3, CarriedIs
<1> QED BY <1>4, <1>5, <1>6, <1>7

LEMMA HandsStay == turns' = turns => \A a : Carried(a)' = Carried(a)
<1> SUFFICES ASSUME turns' = turns, NEW a PROVE Carried(a)' = Carried(a)
  OBVIOUS
<1>1. InHands(a)' = InHands(a)
  BY DEF InHands, Uncalled
<1> QED BY <1>1, CarriedIs

(***************************************************************************)
(* The occurrences still to come                                           *)
(***************************************************************************)
LEMMA OccurrencesIs ==
  ASSUME NEW n \in Int
  PROVE  Occurrences(n) = IF n > 1 THEN n ELSE 1
<1> DEFINE m == IF n > 1 THEN n ELSE 1
<1>1. m \in {1, n} /\ \A x \in {1, n} : m >= x
  OBVIOUS
<1>2. \A x \in {1, n} : (\A y \in {1, n} : x >= y) => x = m
  OBVIOUS
<1> HIDE DEF m
<1>3. Max({1, n}) = m
  BY <1>1, <1>2 DEF Max
<1> QED BY <1>3 DEF Occurrences, m

LEMMA PlannedIs ==
  ASSUME NEW s \in Seq(PlannedEntry), NEW a
  PROVE  /\ Planned(a, s) = SumOf(PlannedAt(a, s), DOMAIN s) /\ Planned(a, s) \in Nat
         /\ \A i \in DOMAIN s : PlannedAt(a, s)[i] = (IF s[i].atom = a THEN Occurrences(s[i].repeats) ELSE 0)
         /\ \A i \in DOMAIN s : PlannedAt(a, s)[i] \in Nat
<1>1. Planned(a, s) = SumOf(PlannedAt(a, s), DOMAIN s)
  BY DEF Planned, FoldFunctionOnSet, SumOf, MapThenSumSet, MapThenFoldSet
<1>2. \A i \in DOMAIN s : PlannedAt(a, s)[i] = IF s[i].atom = a THEN Occurrences(s[i].repeats) ELSE 0
  BY DEF PlannedAt
<1>3. \A i \in DOMAIN s : PlannedAt(a, s)[i] \in Nat
  <2> SUFFICES ASSUME NEW i \in DOMAIN s PROVE PlannedAt(a, s)[i] \in Nat
    OBVIOUS
  <2>1. s[i] \in PlannedEntry
    OBVIOUS
  <2>2. s[i].repeats \in Int
    BY <2>1 DEF PlannedEntry
  <2>3. Occurrences(s[i].repeats) \in Nat
    BY <2>2, OccurrencesIs
  <2> QED BY <1>2, <2>3
<1>4. IsFiniteSet(DOMAIN s)
  BY FS_Interval
<1>5. SumOf(PlannedAt(a, s), DOMAIN s) \in Nat
  BY <1>3, <1>4, SumIsTotal
<1> QED BY <1>1, <1>2, <1>3, <1>5

LEMMA PlannedMore ==
  ASSUME NEW s \in Seq(PlannedEntry), NEW e \in PlannedEntry, NEW a
  PROVE  Planned(a, Append(s, e)) = Planned(a, s) + IF e.atom = a THEN Occurrences(e.repeats) ELSE 0
<1> DEFINE r == Append(s, e)
           n == Len(s)
           g == PlannedAt(a, s)
           h == PlannedAt(a, r)
           old == 1..n
           one == {n + 1}
<1>1. /\ n \in Nat /\ r \in Seq(PlannedEntry) /\ DOMAIN s = old /\ DOMAIN r = old \cup one
      /\ old \cap one = {} /\ r[n + 1] = e /\ \A i \in old : r[i] = s[i]
  OBVIOUS
<1> HIDE DEF r, n
<1>2. IsFiniteSet(old) /\ IsFiniteSet(one)
  <2>1. 1 \in Int /\ n \in Int
    BY <1>1
  <2> QED BY <2>1, FS_Interval, FS_Singleton
<1>3. Planned(a, s) = SumOf(g, old) /\ \A i \in old : g[i] \in Nat
  BY <1>1, PlannedIs
<1>4. Planned(a, r) = SumOf(h, old \cup one) /\ \A i \in old \cup one : h[i] \in Nat
  BY <1>1, PlannedIs
<1>5. \A i \in old : h[i] = g[i]
  BY <1>1, PlannedIs
<1>6. h[n + 1] = (IF e.atom = a THEN Occurrences(e.repeats) ELSE 0) /\ h[n + 1] \in Nat
  BY <1>1, PlannedIs
<1> HIDE DEF g, h, old
<1>7. SumOf(g, old) = SumOf(h, old)
  BY <1>2, <1>3, <1>5, SameSum
<1>8. SumOf(h, one) = h[n + 1]
  BY <1>6, SumOfOne
<1> HIDE DEF one
<1>9. SumOf(h, old \cup one) = SumOf(h, old) + SumOf(h, one)
  BY <1>1, <1>2, <1>4, SumOfTwo
<1> QED BY <1>3, <1>4, <1>6, <1>7, <1>8, <1>9 DEF r

\* g says how many occurrences of a each entry at K still has, as it is in r
Tells(g, s, K, r, a) ==
  \A i \in K : \A k \in DOMAIN r :
    ElementsAt(s, K)[k] = s[i] => g[i] = IF r[k].atom = a THEN Occurrences(r[k].repeats) ELSE 0

LEMMA PlannedPicked ==
  ASSUME NEW s \in Seq(PlannedEntry), NEW K, K \subseteq DOMAIN s, NEW r \in Seq(PlannedEntry), NEW a, NEW g,
         DOMAIN r = DOMAIN ElementsAt(s, K), \A i \in K : g[i] \in Nat, Tells(g, s, K, r, a)
  PROVE  Planned(a, r) = SumOf(g, K)
<1> DEFINE h == PlannedAt(a, r)
           e == ElementsAt(s, K)
<1>1. PICK f \in Bijection(DOMAIN e, K) : \A k \in DOMAIN e : e[k] = s[f[k]]
  BY PickedBijection
<1>2. IsFiniteSet(K)
  BY FS_Interval, FS_Subset
<1>3. \A k \in DOMAIN e : f[k] \in K
  BY <1>1 DEF Bijection, Injection
<1>4. Planned(a, r) = SumOf(h, DOMAIN r) /\ \A k \in DOMAIN r : h[k] = IF r[k].atom = a THEN Occurrences(r[k].repeats) ELSE 0
  BY PlannedIs
<1>5. \A k \in DOMAIN r : h[k] = g[f[k]]
  BY <1>1, <1>3, <1>4 DEF Tells
<1> DEFINE D == DOMAIN r
<1>6. f \in Bijection(D, K) /\ (\A k \in D : h[k] = g[f[k]]) /\ \A i \in K : g[i] \in Nat
  BY <1>1, <1>5
<1> HIDE DEF h, D
<1>7. SumOf(h, D) = SumOf(g, K)
  BY <1>2, <1>6, SumReindexed
<1> QED BY <1>4, <1>7 DEF D

\* The occurrences of actions that are collected
AtomAt(s, I, a) == {i \in I : s[i].atom = a}

LEMMA CopiesPicked ==
  ASSUME NEW s \in Seq(PlannedEntry), NEW I, I \subseteq DOMAIN s, NEW a
  PROVE  /\ AtomsOf(ElementsAt(s, I)) \in Seq(CoreAtoms)
         /\ Copies(a, AtomsOf(ElementsAt(s, I))) = Cardinality(AtomAt(s, I, a))
<1> DEFINE e == ElementsAt(s, I)
           r == [k \in DOMAIN e |-> e[k].atom]
           A == {k \in DOMAIN r : r[k] = a}
           B == {i \in I : s[i].atom = a}
<1>1. PICK f \in Bijection(DOMAIN e, I) : \A k \in DOMAIN e : e[k] = s[f[k]]
  BY PickedBijection
<1>2. e \in Seq(PlannedEntry)
  BY ElementsAtIs
<1> HIDE DEF e
<1>3. /\ \A k \in DOMAIN e : f[k] \in I
      /\ \A k, l \in DOMAIN e : f[k] = f[l] => k = l
      /\ \A i \in I : \E k \in DOMAIN e : f[k] = i
  BY <1>1 DEF Bijection, Injection, Surjection, IsInjective
<1>4. r \in Seq(CoreAtoms)
  <2>1. \A x \in PlannedEntry : x.atom \in CoreAtoms
    BY DEF PlannedEntry
  <2> QED BY <1>2, <2>1
<1> DEFINE q == [k \in A |-> f[k]]
<1>5. \A k : k \in A <=> k \in DOMAIN e /\ s[f[k]].atom = a
  BY <1>1
<1>6. \A i \in B : \E k \in A : f[k] = i
  <2> SUFFICES ASSUME NEW i \in B PROVE \E k \in A : f[k] = i
    OBVIOUS
  <2>1. PICK k \in DOMAIN e : f[k] = i
    BY <1>3
  <2> HIDE DEF A
  <2> QED BY <1>5, <2>1
<1>7. \A k \in A : f[k] \in B
  BY <1>3, <1>5
<1> HIDE DEF A, B
<1>8. q \in Bijection(A, B)
  BY <1>3, <1>5, <1>6, <1>7 DEF Bijection, Injection, Surjection, IsInjective
<1>9. IsFiniteSet(A)
  BY <1>4, CopiesFinite DEF A
<1>10. Cardinality(A) = Cardinality(B)
  BY <1>8, <1>9, FS_Bijection DEF ExistsBijection
<1>11. Copies(a, r) = Cardinality(A)
  BY DEF Copies, A
<1> QED BY <1>4, <1>10, <1>11 DEF B, e, AtomsOf, AtomAt

\* What is placed elsewhere adds up as before
LEMMA PlacedParts ==
  ASSUME CoreInv, NEW a
  PROVE  Copies(a, corePending) \in Nat /\ Planned(a, planned) \in Nat /\ Carried(a) \in Nat
<1>1. Copies(a, corePending) \in Nat /\ Planned(a, planned) \in Nat
  BY CopiesFinite, PlannedIs DEF CoreInv, ExecutorIsSound
<1>2. InHands(a) = [t \in CoreThreads |-> HeldIn(turns[t], a)]
  BY DEF InHands, HeldIn
<1>3. \A t \in CoreThreads : turns[t] \in Turn /\ Fits(turns[t])
  BY DEF CoreInv, TurnsFit
<1>4. \A t \in CoreThreads : InHands(a)[t] \in Nat
  BY <1>2, <1>3, UncalledIs
<1>5. SumOf(InHands(a), CoreThreads) \in Nat
  BY <1>4, SumIsTotal, CoreAssumption
<1> QED BY <1>1, <1>5, CarriedIs

LEMMA PlacedKeeps ==
  ASSUME CoreInv, NEW a \in CoreAtoms,
         Copies(a, corePending') \in Nat, Planned(a, planned') \in Nat, Carried(a)' \in Nat,
         owed'[a] = owed[a] + (Copies(a, corePending') - Copies(a, corePending))
                            + (Planned(a, planned') - Planned(a, planned)) + (Carried(a)' - Carried(a))
  PROVE  Placed(a)'
<1>1. Copies(a, corePending) \in Nat /\ Planned(a, planned) \in Nat /\ Carried(a) \in Nat
  BY PlacedParts
<1>2. owed[a] = Copies(a, corePending) + Planned(a, planned) + Carried(a)
  BY DEF CoreInv, Placed
<1>3. owed'[a] = Copies(a, corePending') + Planned(a, planned') + Carried(a)'
  BY <1>1, <1>2
<1> QED BY <1>3 DEF Placed

\* The executor, the threads' turns, and the schedule are left alone
LEMMA ExecutorStays ==
  ASSUME CoreInv, executorState' = executorState
  PROVE  ExecutorIsSound' /\ \A a : Copies(a, corePending') = Copies(a, corePending)
<1>1. /\ corePending' = corePending /\ corePriority' = corePriority /\ coreStatus' = coreStatus
      /\ coreExecuting' = coreExecuting /\ startTimes' = startTimes /\ leftOpen' = leftOpen
  BY DEF executorState
<1>2. ResultsAreTrue'
  BY <1>1 DEF CoreInv, ExecutorIsSound, ResultsAreTrue
<1> QED BY <1>1, <1>2 DEF CoreInv, ExecutorIsSound

LEMMA TurnsStay ==
  ASSUME CoreInv, turns' = turns
  PROVE  TurnsFit' /\ \A a : Carried(a)' = Carried(a)
BY HandsStay DEF CoreInv, TurnsFit

LEMMA QueueKeeps ==
  ASSUME CoreInv, NEW a \in CoreAtoms, NEW p \in CorePriorities, Queue(a, p)
  PROVE  /\ ExecutorIsSound'
         /\ \A b : Copies(b, corePending') = Copies(b, corePending) + IF a = b THEN 1 ELSE 0
<1> DEFINE q == Append(corePending, a)
<1>1. /\ coreStatus' = [coreStatus EXCEPT ![a] = "PENDING"] /\ DOMAIN coreStatus = CoreAtoms
      /\ corePriority' = [corePriority EXCEPT ![a] = p] /\ corePending' = ByPriority(q, corePriority')
      /\ coreExecuting' = coreExecuting /\ startTimes' = startTimes /\ leftOpen' = leftOpen \ {a}
      /\ corePending \in Seq(CoreAtoms) /\ coreExecuting \in Seq(CoreAtoms) /\ corePriority \in [CoreAtoms -> Nat]
      /\ startTimes \subseteq CoreAtoms /\ Len(coreExecuting) <= MaxConcurrent /\ p \in Nat
  BY CoreAssumption DEF Queue, CoreInv, ExecutorIsSound
<1>2. corePriority' \in [CoreAtoms -> Nat]
  BY <1>1
<1>3. /\ q \in Seq(CoreAtoms) /\ ToSet(q) = ToSet(corePending) \cup {a}
  BY <1>1, AppendElements
<1>4. \A b : Copies(b, q) = Copies(b, corePending) + IF a = b THEN 1 ELSE 0
  BY <1>1, CopiesAppended
<1> HIDE DEF q
<1>5. /\ corePending' \in Seq(CoreAtoms) /\ ToSet(corePending') = ToSet(q)
      /\ Sorted(corePending', corePriority') /\ \A b : Copies(b, corePending') = Copies(b, q)
  BY <1>1, <1>2, <1>3, ByPriorityIs
<1>6. ResultsAreTrue'
  <2>1. /\ \A b \in CoreAtoms : coreStatus[b] = "PENDING" => b \in ToSet(corePending) \cup leftOpen
        /\ \A b \in CoreAtoms : coreStatus[b] = "RUNNING" => b \in startTimes \cup leftOpen
        /\ \A b \in CoreAtoms : b \in startTimes <=> b \in ToSet(coreExecuting)
    BY DEF CoreInv, ExecutorIsSound, ResultsAreTrue
  <2>2. \A b \in CoreAtoms : coreStatus'[b] = IF b = a THEN "PENDING" ELSE coreStatus[b]
    BY <1>1
  <2> QED BY <1>1, <1>3, <1>5, <2>1, <2>2 DEF ResultsAreTrue
<1> QED BY <1>1, <1>2, <1>4, <1>5, <1>6 DEF ExecutorIsSound

LEMMA ExecuteActionKeeps ==
  ASSUME CoreInv, NEW a \in CoreAtoms, NEW p \in CorePriorities, ExecuteAction(a, p)
  PROVE  CoreInv'
<1>1. Queue(a, p) /\ owed' = [owed EXCEPT ![a] = @ + 1] /\ planned' = planned /\ turns' = turns
  BY DEF ExecuteAction
<1>2. ExecutorIsSound' /\ \A b : Copies(b, corePending') = Copies(b, corePending) + IF a = b THEN 1 ELSE 0
  BY <1>1, QueueKeeps
<1>3. owed' \in [CoreAtoms -> Int] /\ \A b \in CoreAtoms : owed'[b] = owed[b] + IF a = b THEN 1 ELSE 0
  <2>1. owed \in [CoreAtoms -> Int]
    BY DEF CoreInv
  <2> QED BY <1>1, <2>1
<1>4. TurnsFit' /\ \A b : Carried(b)' = Carried(b)
  BY <1>1, TurnsStay
<1>5. planned' \in Seq(PlannedEntry) /\ \A b : Planned(b, planned') = Planned(b, planned)
  BY <1>1 DEF CoreInv
<1>6. ASSUME NEW b \in CoreAtoms PROVE Placed(b)'
  <2>1. Copies(b, corePending') = Copies(b, corePending) + (IF a = b THEN 1 ELSE 0) /\ owed'[b] = owed[b] + IF a = b THEN 1 ELSE 0
    BY <1>2, <1>3
  <2>2. Planned(b, planned') = Planned(b, planned) /\ Carried(b)' = Carried(b)
    BY <1>4, <1>5
  <2>3. owed[b] \in Int /\ Copies(b, corePending) \in Nat /\ Planned(b, planned) \in Nat /\ Carried(b) \in Nat
    BY PlacedParts DEF CoreInv
  <2>4. Copies(b, corePending') \in Nat
    BY <2>1, <2>3
  <2>5. owed'[b] = owed[b] + (Copies(b, corePending') - Copies(b, corePending))
                    + (Planned(b, planned') - Planned(b, planned)) + (Carried(b)' - Carried(b))
    BY <2>1, <2>2, <2>3
  <2> QED BY <2>2, <2>3, <2>4, <2>5, PlacedKeeps
<1> QED BY <1>2, <1>3, <1>4, <1>5, <1>6 DEF CoreInv

SyncTurn(a) == [AtRest EXCEPT !.at = "noting", !.batch = <<a>>, !.result = "COMPLETED"]

LEMMA SyncTurnIs ==
  ASSUME NEW a \in CoreAtoms
  PROVE  SyncTurn(a) \in Turn /\ Fits(SyncTurn(a)) /\ \A b : HeldIn(SyncTurn(a), b) = 0
<1> DEFINE turn == SyncTurn(a)
<1>1. /\ turn.at = "noting" /\ turn.due = <<>> /\ turn.batch = <<a>> /\ <<a>> # <<>> /\ Tail(<<a>>) = <<>>
      /\ <<>> \in Seq(CoreAtoms) /\ <<a>> \in Seq(CoreAtoms)
  BY DEF AtRest, SyncTurn
<1>2. turn \in Turn
  BY <1>1 DEF AtRest, Turn, ThreadPlaces, SyncTurn, ActionStatus
<1> HIDE DEF turn
<1>3. Fits(turn)
  BY <1>1 DEF Fits
<1>4. Uncalled(turn) = <<>>
  BY <1>1 DEF Uncalled
<1>5. \A b : HeldIn(turn, b) = 0
  BY <1>1, <1>4, CopiesNone DEF HeldIn
<1> QED BY <1>2, <1>3, <1>5 DEF turn

\* A thread at rest has nothing in its hands
LEMMA RestHolds == AtRest \in Turn /\ Fits(AtRest) /\ \A b : HeldIn(AtRest, b) = 0
<1>1. AtRest.at = "idle" /\ AtRest.due = <<>> /\ AtRest.batch = <<>> /\ <<>> \in Seq(CoreAtoms)
  BY DEF AtRest
<1>2. AtRest \in Turn
  BY <1>1 DEF AtRest, Turn, ThreadPlaces
<1>3. Uncalled(AtRest) = <<>> /\ Fits(AtRest)
  BY <1>1 DEF Uncalled, Fits
<1> QED BY <1>1, <1>2, <1>3, CopiesNone DEF HeldIn

LEMMA EmptyHands ==
  ASSUME NEW turn \in Turn, Fits(turn), turn.at = "idle" \/ (turn.at = "submitting" /\ turn.due = <<>>), NEW b
  PROVE  HeldIn(turn, b) = 0
<1>1. turn.due = <<>> /\ Uncalled(turn) = <<>>
  BY DEF Fits, Uncalled
<1> QED BY <1>1, CopiesNone DEF HeldIn

LEMMA ExecuteSyncKeeps ==
  ASSUME CoreInv, NEW t \in CoreThreads, NEW a \in CoreAtoms, ExecuteSync(t, a)
  PROVE  CoreInv'
<1> DEFINE turn == SyncTurn(a)
<1>1. /\ turns[t].at = "idle" /\ turns' = [turns EXCEPT ![t] = turn]
      /\ coreStatus' = [coreStatus EXCEPT ![a] = "COMPLETED"]
      /\ corePending' = corePending /\ corePriority' = corePriority /\ coreExecuting' = coreExecuting
      /\ startTimes' = startTimes /\ planned' = planned /\ owed' = owed /\ leftOpen' = leftOpen \ {a}
  BY DEF ExecuteSync, SyncTurn
<1>2. turn \in Turn /\ Fits(turn) /\ \A b : HeldIn(turn, b) = 0
  BY SyncTurnIs
<1> HIDE DEF turn
<1>3. turns[t] \in Turn /\ Fits(turns[t]) /\ TurnsFit
  BY DEF CoreInv, TurnsFit
<1>4. TurnsFit' /\ \A b : Carried(b)' = Carried(b) - HeldIn(turns[t], b) + HeldIn(turn, b) /\ Carried(b)' \in Nat /\ Carried(b) \in Nat
  BY <1>1, <1>2, <1>3, HandsMove
<1>5. \A b : Carried(b)' = Carried(b) /\ Carried(b) \in Nat
  BY <1>1, <1>2, <1>3, <1>4, EmptyHands
<1>6. ResultsAreTrue'
  <2>1. ResultsAreTrue /\ DOMAIN coreStatus = CoreAtoms
    BY DEF CoreInv, ExecutorIsSound
  <2>2. \A b \in CoreAtoms : coreStatus'[b] = IF b = a THEN "COMPLETED" ELSE coreStatus[b]
    BY <1>1, <2>1
  <2> QED BY <1>1, <2>1, <2>2 DEF ResultsAreTrue
<1>7. ExecutorIsSound'
  BY <1>1, <1>6 DEF CoreInv, ExecutorIsSound
<1>8. ASSUME NEW b \in CoreAtoms PROVE Placed(b)'
  BY <1>1, <1>5 DEF CoreInv, Placed
<1> QED BY <1>1, <1>4, <1>7, <1>8 DEF CoreInv

LEMMA CancelActionKeeps ==
  ASSUME CoreInv, NEW a \in CoreAtoms, CancelAction(a)
  PROVE  CoreInv'
<1> DEFINE at == {i \in DOMAIN corePending : corePending[i] = a}
           k == Min(at)
           n == IF at = {} THEN 0 ELSE 1
<1>1. /\ coreStatus' = [coreStatus EXCEPT ![a] = "CANCELLED"]
      /\ corePriority' = corePriority /\ coreExecuting' = coreExecuting /\ startTimes' = startTimes
      /\ planned' = planned /\ turns' = turns /\ leftOpen' = leftOpen \ {a}
      /\ at = {} => corePending' = corePending /\ owed' = owed
      /\ at # {} => corePending' = RemoveAt(corePending, k) /\ owed' = [owed EXCEPT ![a] = @ - 1]
  BY DEF CancelAction
<1>2. /\ corePending \in Seq(CoreAtoms) /\ Sorted(corePending, corePriority) /\ ResultsAreTrue
      /\ DOMAIN coreStatus = CoreAtoms /\ owed \in [CoreAtoms -> Int]
  BY DEF CoreInv, ExecutorIsSound
<1>3. at # {} => k \in at
  <2>1. at \subseteq Nat
    BY <1>2
  <2> HIDE DEF at
  <2> SUFFICES ASSUME at # {} PROVE k \in at
    OBVIOUS
  <2>2. \E i \in at : \A j \in at : i <= j
    BY <2>1, LeastNumber
  <2> QED BY <2>2 DEF Min
<1> HIDE DEF k
<1>4. corePending' \in Seq(CoreAtoms) /\ Sorted(corePending', corePriority')
  <2>1. CASE at = {}
    BY <1>1, <1>2, <2>1
  <2>2. CASE at # {}
    <3> DEFINE r == RemoveAt(corePending, k)
    <3>1. r \in Seq(CoreAtoms) /\ Picks(r, corePending, DOMAIN corePending \ {k})
      BY <1>2, <1>3, <2>2, RemoveAtIs
    <3>2. corePending' = r
      BY <1>1, <2>2
    <3> HIDE DEF r
    <3>3. PICK f \in [DOMAIN r -> DOMAIN corePending \ {k}] :
            /\ \A i \in DOMAIN r : r[i] = corePending[f[i]]
            /\ \A i, j \in DOMAIN r : i < j => f[i] < f[j]
      BY <3>1 DEF Picks
    <3>4. Sorted(r, corePriority)
      BY <1>2, <3>3 DEF Sorted
    <3> QED BY <1>1, <3>1, <3>2, <3>4
  <2> QED BY <2>1, <2>2
<1>5. /\ n \in Int /\ owed' \in [CoreAtoms -> Int]
      /\ \A b \in CoreAtoms : owed'[b] = owed[b] - IF a = b THEN n ELSE 0
      /\ \A b : Copies(b, corePending') = Copies(b, corePending) - (IF a = b THEN n ELSE 0) /\ Copies(b, corePending) \in Nat
  <2>1. CASE at = {}
    <3> HIDE DEF at
    <3>1. n = 0 /\ corePending' = corePending /\ owed' = owed
      BY <1>1, <2>1
    <3>2. \A b : Copies(b, corePending) \in Nat
      BY <1>2, CopiesFinite
    <3> HIDE DEF n
    <3> QED BY <1>2, <3>1, <3>2
  <2>2. CASE at # {}
    <3>1. k \in DOMAIN corePending /\ corePending[k] = a
      BY <1>3, <2>2
    <3>2. \A b : Copies(b, RemoveAt(corePending, k)) = Copies(b, corePending) - (IF a = b THEN 1 ELSE 0)
      BY <1>2, <3>1, CopiesRemoved
    <3>3. \A b : Copies(b, corePending) \in Nat
      BY <1>2, CopiesFinite
    <3> QED BY <1>1, <1>2, <2>2, <3>2, <3>3
  <2> QED BY <2>1, <2>2
<1> HIDE DEF n, at
<1>6. \A b : Copies(b, corePending') \in Nat
  BY <1>4, CopiesFinite
<1>7. ResultsAreTrue'
  <2>1. \A b \in CoreAtoms : coreStatus'[b] = IF b = a THEN "CANCELLED" ELSE coreStatus[b]
    BY <1>1, <1>2
  <2>2. ASSUME NEW b, b # a, b \in ToSet(corePending) PROVE b \in ToSet(corePending')
    <3>1. Copies(b, corePending) # 0
      BY <1>2, <2>2, CopiesFound
    <3>2. Copies(b, corePending') # 0
      BY <1>5, <2>2, <3>1
    <3> QED BY <1>4, <3>2, CopiesFound
  <2> QED BY <1>1, <1>2, <2>1, <2>2 DEF ResultsAreTrue
<1>8. ExecutorIsSound'
  BY <1>1, <1>4, <1>7 DEF CoreInv, ExecutorIsSound
<1>9. TurnsFit' /\ \A b : Carried(b)' = Carried(b)
  BY <1>1, TurnsStay
<1>10. ASSUME NEW b \in CoreAtoms PROVE Placed(b)'
  <2> DEFINE m == IF a = b THEN n ELSE 0
  <2>1. m \in Int /\ owed'[b] = owed[b] - m /\ Copies(b, corePending') = Copies(b, corePending) - m
    BY <1>5
  <2>2. Planned(b, planned') = Planned(b, planned) /\ Carried(b)' = Carried(b)
    BY <1>1, <1>9
  <2>3. owed[b] \in Int /\ Copies(b, corePending) \in Nat /\ Planned(b, planned) \in Nat /\ Carried(b) \in Nat
    BY PlacedParts DEF CoreInv
  <2> HIDE DEF m
  <2>4. owed'[b] = owed[b] + (Copies(b, corePending') - Copies(b, corePending))
                    + (Planned(b, planned') - Planned(b, planned)) + (Carried(b)' - Carried(b))
    BY <2>1, <2>2, <2>3
  <2> QED BY <1>6, <2>2, <2>3, <2>4, PlacedKeeps
<1> QED BY <1>1, <1>5, <1>8, <1>9, <1>10 DEF CoreInv

\* A thread with a batch
LEMMA BusyHands ==
  ASSUME NEW turn \in Turn, Fits(turn), turn.at \in {"running", "calling", "noting"}
  PROVE  /\ turn.due = <<>> /\ turn.batch \in Seq(CoreAtoms) /\ turn.batch # <<>>
         /\ Head(turn.batch) \in CoreAtoms /\ Tail(turn.batch) \in Seq(CoreAtoms)
         /\ \A b : HeldIn(turn, b) = IF turn.at = "running" THEN Copies(b, turn.batch) ELSE Copies(b, Tail(turn.batch))
         /\ \A b : Copies(b, turn.batch) = (IF Head(turn.batch) = b THEN 1 ELSE 0) + Copies(b, Tail(turn.batch))
         /\ \A b : Copies(b, turn.batch) \in Nat /\ Copies(b, Tail(turn.batch)) \in Nat
<1>1. turn.due = <<>> /\ turn.batch # <<>>
  BY DEF Fits
<1>2. turn.batch \in Seq(CoreAtoms)
  BY DEF Turn
<1> DEFINE q == turn.batch
<1> HIDE DEF q
<1>3. q \in Seq(CoreAtoms) /\ q # <<>>
  BY <1>1, <1>2 DEF q
<1>4. /\ Tail(q) \in Seq(CoreAtoms) /\ Head(q) \in CoreAtoms
      /\ \A b : Copies(b, q) = (IF Head(q) = b THEN 1 ELSE 0) + Copies(b, Tail(q))
  BY <1>3, CopiesTail
<1>5. \A b : Copies(b, q) \in Nat /\ Copies(b, Tail(q)) \in Nat
  BY <1>3, <1>4, CopiesFinite
<1>6. Uncalled(turn) = IF turn.at = "running" THEN q ELSE Tail(q)
  BY DEF Uncalled, q
<1>7. \A b : HeldIn(turn, b) = IF turn.at = "running" THEN Copies(b, q) ELSE Copies(b, Tail(q))
  <2> SUFFICES ASSUME NEW b PROVE HeldIn(turn, b) = IF turn.at = "running" THEN Copies(b, q) ELSE Copies(b, Tail(q))
    OBVIOUS
  <2>1. HeldIn(turn, b) = Copies(b, <<>>) + Copies(b, Uncalled(turn))
    BY <1>1 DEF HeldIn
  <2> QED BY <1>5, <1>6, <2>1, CopiesNone
<1> QED BY <1>1, <1>3, <1>4, <1>5, <1>7 DEF q

\* A thread goes on with what is left of a batch
NextTurn(batch) == IF batch = <<>> THEN AtRest ELSE [AtRest EXCEPT !.at = "running", !.batch = batch]

LEMMA NextTurnIs ==
  ASSUME NEW batch \in Seq(CoreAtoms)
  PROVE  NextTurn(batch) \in Turn /\ Fits(NextTurn(batch)) /\ \A b : HeldIn(NextTurn(batch), b) = Copies(b, batch)
<1>1. CASE batch = <<>>
  <2>1. NextTurn(batch) = AtRest
    BY <1>1 DEF NextTurn
  <2> QED BY <1>1, <2>1, RestHolds, CopiesNone
<1>2. CASE batch # <<>>
  <2> DEFINE turn == NextTurn(batch)
  <2>1. turn = [AtRest EXCEPT !.at = "running", !.batch = batch]
    BY <1>2 DEF NextTurn
  <2> HIDE DEF turn
  <2>2. turn.at = "running" /\ turn.due = <<>> /\ turn.batch = batch /\ <<>> \in Seq(CoreAtoms)
    BY <2>1 DEF AtRest
  <2>3. turn \in Turn
    BY <2>1, <2>2 DEF AtRest, Turn, ThreadPlaces
  <2>4. Fits(turn)
    BY <1>2, <2>2 DEF Fits
  <2> QED BY <2>2, <2>3, <2>4, BusyHands DEF turn
<1> QED BY <1>1, <1>2

\* A thread is elsewhere with the same batch
At(turn, place) == [turn EXCEPT !.at = place]

LEMMA AtIs ==
  ASSUME NEW turn \in Turn, NEW place \in ThreadPlaces
  PROVE  At(turn, place) \in Turn /\ At(turn, place).at = place /\ At(turn, place).due = turn.due
         /\ At(turn, place).batch = turn.batch
BY DEF At, Turn

LEMMA CallNextKeeps ==
  ASSUME CoreInv, NEW t \in CoreThreads, CallNext(t)
  PROVE  CoreInv'
<1> DEFINE old == turns[t]
           new == At(old, "calling")
           h == Head(old.batch)
<1>1. /\ old.at = "running" /\ turns' = [turns EXCEPT ![t] = new] /\ owed' = [owed EXCEPT ![h] = @ - 1]
      /\ executorState' = executorState /\ planned' = planned
  BY DEF CallNext, At
<1>2. old \in Turn /\ Fits(old) /\ TurnsFit /\ owed \in [CoreAtoms -> Int]
  BY DEF CoreInv, TurnsFit
<1> HIDE DEF old
<1>3. new \in Turn /\ new.at = "calling" /\ new.due = old.due /\ new.batch = old.batch
  BY <1>2, AtIs DEF ThreadPlaces
<1> HIDE DEF new
<1>4. /\ old.due = <<>> /\ old.batch # <<>> /\ h \in CoreAtoms
      /\ \A b : HeldIn(old, b) = Copies(b, old.batch)
      /\ \A b : Copies(b, old.batch) = (IF h = b THEN 1 ELSE 0) + Copies(b, Tail(old.batch))
      /\ \A b : Copies(b, old.batch) \in Nat /\ Copies(b, Tail(old.batch)) \in Nat
  BY <1>1, <1>2, BusyHands
<1>5. Fits(new)
  BY <1>3, <1>4 DEF Fits
<1>6. \A b : HeldIn(new, b) = Copies(b, Tail(old.batch))
  BY <1>3, <1>5, BusyHands
<1>7. TurnsFit' /\ \A b : Carried(b)' = Carried(b) - HeldIn(old, b) + HeldIn(new, b) /\ Carried(b)' \in Nat /\ Carried(b) \in Nat
  BY <1>1, <1>2, <1>3, <1>5, HandsMove DEF old
<1>8. ExecutorIsSound' /\ \A b : Copies(b, corePending') = Copies(b, corePending)
  BY <1>1, ExecutorStays
<1> HIDE DEF h
<1>9. ASSUME NEW b \in CoreAtoms PROVE Placed(b)'
  <2> DEFINE n == IF h = b THEN 1 ELSE 0
  <2>1. n \in Int /\ owed'[b] = owed[b] - n /\ owed[b] \in Int
    BY <1>1, <1>2, <1>4
  <2>2. Copies(b, old.batch) = n + Copies(b, Tail(old.batch))
    BY <1>4
  <2> HIDE DEF n
  <2>3. Carried(b)' = Carried(b) - n
    BY <1>4, <1>6, <1>7, <2>1, <2>2
  <2>4. Copies(b, corePending') = Copies(b, corePending) /\ Planned(b, planned') = Planned(b, planned)
    BY <1>1, <1>8
  <2>5. Copies(b, corePending) \in Nat /\ Planned(b, planned) \in Nat /\ Carried(b) \in Nat
    BY PlacedParts
  <2>6. owed'[b] = owed[b] + (Copies(b, corePending') - Copies(b, corePending))
                    + (Planned(b, planned') - Planned(b, planned)) + (Carried(b)' - Carried(b))
    BY <2>1, <2>3, <2>4, <2>5
  <2> QED BY <1>7, <2>4, <2>5, <2>6, PlacedKeeps
<1>10. owed' \in [CoreAtoms -> Int]
  BY <1>1, <1>2, <1>4
<1> QED BY <1>1, <1>7, <1>8, <1>9, <1>10 DEF CoreInv

LEMMA NoteStatusKeeps ==
  ASSUME CoreInv, NEW t \in CoreThreads, NoteStatus(t)
  PROVE  CoreInv'
<1> DEFINE old == turns[t]
           new == NextTurn(Tail(old.batch))
<1>1. /\ old.at = "noting" /\ turns' = [turns EXCEPT ![t] = new]
      /\ executorState' = executorState /\ planned' = planned /\ owed' = owed
  BY DEF NoteStatus, NextTurn
<1>2. old \in Turn /\ Fits(old) /\ TurnsFit
  BY DEF CoreInv, TurnsFit
<1> HIDE DEF old
<1>3. Tail(old.batch) \in Seq(CoreAtoms) /\ \A b : HeldIn(old, b) = Copies(b, Tail(old.batch))
  BY <1>1, <1>2, BusyHands
<1>4. new \in Turn /\ Fits(new) /\ \A b : HeldIn(new, b) = Copies(b, Tail(old.batch))
  BY <1>3, NextTurnIs
<1> HIDE DEF new
<1>5. TurnsFit' /\ \A b : Carried(b)' = Carried(b) - HeldIn(old, b) + HeldIn(new, b) /\ Carried(b)' \in Nat
                          /\ Carried(b) \in Nat /\ HeldIn(old, b) \in Nat
  BY <1>1, <1>2, <1>4, HandsMove DEF old
<1>6. \A b : Carried(b)' = Carried(b)
  BY <1>3, <1>4, <1>5
<1>7. ExecutorIsSound' /\ \A b : Copies(b, corePending') = Copies(b, corePending)
  BY <1>1, ExecutorStays
<1>8. ASSUME NEW b \in CoreAtoms PROVE Placed(b)'
  BY <1>1, <1>6, <1>7 DEF CoreInv, Placed
<1> QED BY <1>1, <1>5, <1>7, <1>8 DEF CoreInv

LEMMA CallbackThrowsKeeps ==
  ASSUME CoreInv, NEW t \in CoreThreads, CallbackThrows(t)
  PROVE  CoreInv'
<1> DEFINE old == turns[t]
<1>1. /\ old.at = "calling" /\ turns' = [turns EXCEPT ![t] = AtRest]
      /\ owed' = [a \in CoreAtoms |-> owed[a] - Copies(a, Tail(old.batch))]
      /\ executorState' = executorState /\ planned' = planned
  BY DEF CallbackThrows
<1>2. old \in Turn /\ Fits(old) /\ TurnsFit /\ owed \in [CoreAtoms -> Int]
  BY DEF CoreInv, TurnsFit
<1> HIDE DEF old
<1>3. /\ \A b : HeldIn(old, b) = Copies(b, Tail(old.batch))
      /\ \A b : Copies(b, Tail(old.batch)) \in Nat
  BY <1>1, <1>2, BusyHands
<1>4. AtRest \in Turn /\ Fits(AtRest) /\ \A b : HeldIn(AtRest, b) = 0
  BY RestHolds
<1>5. TurnsFit' /\ \A b : Carried(b)' = Carried(b) - HeldIn(old, b) + HeldIn(AtRest, b) /\ Carried(b)' \in Nat
                          /\ Carried(b) \in Nat /\ HeldIn(old, b) \in Nat
  BY <1>1, <1>2, <1>4, HandsMove DEF old
<1>6. ExecutorIsSound' /\ \A b : Copies(b, corePending') = Copies(b, corePending)
  BY <1>1, ExecutorStays
<1>7. owed' \in [CoreAtoms -> Int]
  BY <1>1, <1>2, <1>3
<1>8. ASSUME NEW b \in CoreAtoms PROVE Placed(b)'
  <2> DEFINE n == Copies(b, Tail(old.batch))
  <2>1. n \in Int /\ owed'[b] = owed[b] - n /\ owed[b] \in Int /\ HeldIn(old, b) = n
    BY <1>1, <1>2, <1>3
  <2> HIDE DEF n
  <2>2. Carried(b)' = Carried(b) - n
    BY <1>4, <1>5, <2>1
  <2>3. Copies(b, corePending') = Copies(b, corePending) /\ Planned(b, planned') = Planned(b, planned)
    BY <1>1, <1>6
  <2>4. Copies(b, corePending) \in Nat /\ Planned(b, planned) \in Nat /\ Carried(b) \in Nat
    BY PlacedParts
  <2>5. owed'[b] = owed[b] + (Copies(b, corePending') - Copies(b, corePending))
                    + (Planned(b, planned') - Planned(b, planned)) + (Carried(b)' - Carried(b))
    BY <2>1, <2>2, <2>3, <2>4
  <2> QED BY <1>5, <2>3, <2>4, <2>5, PlacedKeeps
<1> QED BY <1>1, <1>5, <1>6, <1>7, <1>8 DEF CoreInv

LEMMA DroppingShorter ==
  ASSUME NEW S, NEW s \in Seq(S), NEW E
  PROVE  Len(Dropping(s, E)) <= Len(s)
<1> DEFINE I == {i \in DOMAIN s : s[i] \notin E}
           r == ElementsAt(s, I)
           m == Len(r)
           n == Len(s)
<1>1. I \subseteq DOMAIN s /\ Dropping(s, E) = r
  BY DEF Dropping
<1>2. r \in Seq(S) /\ \E f \in Bijection(DOMAIN r, I) : TRUE
  <2> HIDE DEF I
  <2> QED BY <1>1, ElementsAtIs, PickedBijection
<1> HIDE DEF I, r
<1>3. DOMAIN s = 1..n /\ n \in Nat /\ DOMAIN r = 1..m /\ m \in Nat
  BY <1>2
<1> HIDE DEF m, n
<1>4. /\ IsFiniteSet(1..n) /\ Cardinality(1..n) = n
      /\ IsFiniteSet(1..m) /\ Cardinality(1..m) = m
  BY <1>3, FS_Interval
<1>5. IsFiniteSet(I) /\ Cardinality(I) <= n
  BY <1>1, <1>3, <1>4, FS_Subset
<1>6. Cardinality(1..m) = Cardinality(I)
  BY <1>2, <1>3, <1>4, FS_Bijection DEF ExistsBijection
<1> QED BY <1>1, <1>4, <1>5, <1>6 DEF m, n

\* Slots are given up, and results stored for those that gave up theirs
LEMMA GiveUpKeeps ==
  ASSUME CoreInv, NEW A, GiveUp(A), corePending' = corePending, corePriority' = corePriority,
         DOMAIN coreStatus' = CoreAtoms, \A b \in CoreAtoms \ A : coreStatus'[b] = coreStatus[b],
         \A b \in CoreAtoms \cap A : coreStatus'[b] \in StillOpen => b \in leftOpen',
         leftOpen \ A \subseteq leftOpen'
  PROVE  ExecutorIsSound' /\ \A b : Copies(b, corePending') = Copies(b, corePending)
<1>1. /\ coreExecuting \in Seq(CoreAtoms) /\ startTimes \subseteq CoreAtoms /\ ResultsAreTrue
      /\ Len(coreExecuting) <= MaxConcurrent
  BY DEF CoreInv, ExecutorIsSound
<1>2. coreExecuting' = Dropping(coreExecuting, A) /\ startTimes' = startTimes \ A
  BY DEF GiveUp
<1>3. coreExecuting' \in Seq(CoreAtoms) /\ ToSet(coreExecuting') = ToSet(coreExecuting) \ A
  BY <1>1, <1>2, DroppingIs
<1>4. Len(coreExecuting') <= MaxConcurrent
  <2>1. Len(coreExecuting') <= Len(coreExecuting)
    BY <1>1, <1>2, DroppingShorter
  <2>2. Len(coreExecuting') \in Nat /\ Len(coreExecuting) \in Nat /\ MaxConcurrent \in Nat
    BY <1>1, <1>3, CoreAssumption
  <2> QED BY <1>1, <2>1, <2>2
<1>5. ResultsAreTrue'
  <2>1. \A b \in CoreAtoms : coreStatus'[b] = "PENDING" => b \in ToSet(corePending') \cup leftOpen'
    BY <1>1 DEF ResultsAreTrue, StillOpen
  <2>2. \A b \in CoreAtoms : coreStatus'[b] = "RUNNING" => b \in startTimes' \cup leftOpen'
    BY <1>1, <1>2 DEF ResultsAreTrue, StillOpen
  <2>3. \A b \in CoreAtoms : b \in startTimes' <=> b \in ToSet(coreExecuting')
    BY <1>1, <1>2, <1>3 DEF ResultsAreTrue
  <2> QED BY <2>1, <2>2, <2>3 DEF ResultsAreTrue
<1> QED BY <1>1, <1>2, <1>3, <1>4, <1>5 DEF CoreInv, ExecutorIsSound

Noting(turn, result) == [turn EXCEPT !.at = "noting", !.result = result]

LEMMA NotingIs ==
  ASSUME NEW turn \in Turn, NEW result \in ActionStatus
  PROVE  Noting(turn, result) \in Turn /\ Noting(turn, result).at = "noting" /\ Noting(turn, result).due = turn.due
         /\ Noting(turn, result).batch = turn.batch
BY DEF Noting, Turn, ThreadPlaces

LEMMA CallbackReturnsKeeps ==
  ASSUME CoreInv, NEW t \in CoreThreads, NEW result \in ActionStatus, CallbackReturns(t, result)
  PROVE  CoreInv'
<1> DEFINE old == turns[t]
           new == Noting(old, result)
           h == Head(old.batch)
<1>1. /\ old.at = "calling" /\ turns' = [turns EXCEPT ![t] = new]
      /\ coreStatus' = [coreStatus EXCEPT ![h] = result] /\ GiveUp({h})
      /\ corePending' = corePending /\ corePriority' = corePriority /\ planned' = planned /\ owed' = owed
      /\ leftOpen' = IF result \in StillOpen THEN leftOpen \cup {h} ELSE leftOpen \ {h}
  BY DEF CallbackReturns, StoreResult, Noting
<1>2. old \in Turn /\ Fits(old) /\ TurnsFit
  BY DEF CoreInv, TurnsFit
<1> HIDE DEF old
<1>3. new \in Turn /\ new.at = "noting" /\ new.due = old.due /\ new.batch = old.batch
  BY <1>2, NotingIs
<1> HIDE DEF new
<1>4. /\ old.due = <<>> /\ old.batch # <<>> /\ h \in CoreAtoms
      /\ \A b : HeldIn(old, b) = Copies(b, Tail(old.batch))
  BY <1>1, <1>2, BusyHands
<1>5. Fits(new)
  BY <1>3, <1>4 DEF Fits
<1>6. \A b : HeldIn(new, b) = Copies(b, Tail(old.batch))
  BY <1>3, <1>5, BusyHands
<1>7. TurnsFit' /\ \A b : Carried(b)' = Carried(b) - HeldIn(old, b) + HeldIn(new, b) /\ Carried(b)' \in Nat
                          /\ Carried(b) \in Nat /\ HeldIn(old, b) \in Nat
  BY <1>1, <1>2, <1>3, <1>5, HandsMove DEF old
<1>8. \A b : Carried(b)' = Carried(b)
  BY <1>4, <1>6, <1>7
<1> HIDE DEF h
<1>9. ExecutorIsSound' /\ \A b : Copies(b, corePending') = Copies(b, corePending)
  <2> DEFINE A == {h}
  <2>1. DOMAIN coreStatus = CoreAtoms
    BY DEF CoreInv, ExecutorIsSound
  <2>2. /\ DOMAIN coreStatus' = CoreAtoms /\ \A b \in CoreAtoms \ A : coreStatus'[b] = coreStatus[b]
        /\ \A b \in CoreAtoms \cap A : coreStatus'[b] \in StillOpen => b \in leftOpen'
        /\ leftOpen \ A \subseteq leftOpen' /\ GiveUp(A)
    BY <1>1, <2>1
  <2> HIDE DEF A
  <2> QED BY <1>1, <2>2, GiveUpKeeps
<1>10. ASSUME NEW b \in CoreAtoms PROVE Placed(b)'
  BY <1>1, <1>8, <1>9 DEF CoreInv, Placed
<1> QED BY <1>1, <1>7, <1>9, <1>10 DEF CoreInv

LEMMA MonitorKeeps ==
  ASSUME CoreInv, MonitorExecutingActions
  PROVE  CoreInv'
<1>1. /\ coreStatus' = [a \in CoreAtoms |-> IF a \in overdue THEN "TIMEOUT" ELSE coreStatus[a]] /\ GiveUp(overdue)
      /\ corePending' = corePending /\ corePriority' = corePriority
      /\ planned' = planned /\ turns' = turns /\ owed' = owed /\ leftOpen' = leftOpen \ overdue
  BY DEF MonitorExecutingActions
<1>2. ExecutorIsSound' /\ \A b : Copies(b, corePending') = Copies(b, corePending)
  <2>1. /\ DOMAIN coreStatus' = CoreAtoms /\ \A b \in CoreAtoms \ overdue : coreStatus'[b] = coreStatus[b]
        /\ \A b \in CoreAtoms \cap overdue : coreStatus'[b] \in StillOpen => b \in leftOpen'
        /\ leftOpen \ overdue \subseteq leftOpen'
    BY <1>1 DEF StillOpen
  <2> QED BY <1>1, <2>1, GiveUpKeeps
<1>3. TurnsFit' /\ \A b : Carried(b)' = Carried(b)
  BY <1>1, TurnsStay
<1>4. ASSUME NEW b \in CoreAtoms PROVE Placed(b)'
  BY <1>1, <1>2, <1>3 DEF CoreInv, Placed
<1> QED BY <1>1, <1>2, <1>3, <1>4 DEF CoreInv

Submitted(turn) == [turn EXCEPT !.due = Tail(turn.due)]

LEMMA SubmittedIs ==
  ASSUME NEW turn \in Turn, Fits(turn), turn.due # <<>>
  PROVE  /\ Submitted(turn) \in Turn /\ Fits(Submitted(turn)) /\ Head(turn.due) \in CoreAtoms
         /\ \A b : HeldIn(turn, b) = (IF Head(turn.due) = b THEN 1 ELSE 0) + HeldIn(Submitted(turn), b)
<1> DEFINE new == Submitted(turn)
           d == turn.due
<1>1. turn.at = "submitting" /\ turn.batch = <<>>
  BY DEF Fits, Turn, ThreadPlaces
<1>2. d \in Seq(CoreAtoms) /\ d # <<>>
  BY DEF Turn
<1>3. /\ Tail(d) \in Seq(CoreAtoms) /\ Head(d) \in CoreAtoms
      /\ \A b : Copies(b, d) = (IF Head(d) = b THEN 1 ELSE 0) + Copies(b, Tail(d))
  <2> HIDE DEF d
  <2> QED BY <1>2, CopiesTail
<1>4. new \in Turn /\ new.at = "submitting" /\ new.due = Tail(d) /\ new.batch = <<>>
  BY <1>1, <1>3 DEF Submitted, Turn
<1> HIDE DEF new
<1>5. Fits(new)
  BY <1>4 DEF Fits
<1>6. Uncalled(turn) = <<>> /\ Uncalled(new) = <<>>
  BY <1>1, <1>4 DEF Uncalled
<1>7. ASSUME NEW b PROVE HeldIn(turn, b) = (IF Head(d) = b THEN 1 ELSE 0) + HeldIn(new, b)
  <2>1. HeldIn(turn, b) = Copies(b, d) + 0 /\ HeldIn(new, b) = Copies(b, Tail(d)) + 0
    BY <1>4, <1>6, CopiesNone DEF HeldIn
  <2>2. Copies(b, d) \in Nat /\ Copies(b, Tail(d)) \in Nat
    <3> HIDE DEF d
    <3> QED BY <1>2, <1>3, CopiesFinite
  <2> HIDE DEF d
  <2> QED BY <1>3, <2>1, <2>2
<1> QED BY <1>3, <1>4, <1>5, <1>7 DEF new

LEMMA SubmitDueKeeps ==
  ASSUME CoreInv, NEW t \in CoreThreads, SubmitDue(t)
  PROVE  CoreInv'
<1> DEFINE old == turns[t]
           new == Submitted(old)
           a == Head(old.due)
<1>1. /\ old.due # <<>> /\ Queue(a, Medium) /\ turns' = [turns EXCEPT ![t] = new]
      /\ planned' = planned /\ owed' = owed
  BY DEF SubmitDue, Submitted
<1>2. old \in Turn /\ Fits(old) /\ TurnsFit
  BY DEF CoreInv, TurnsFit
<1> HIDE DEF old
<1>3. /\ new \in Turn /\ Fits(new) /\ a \in CoreAtoms
      /\ \A b : HeldIn(old, b) = (IF a = b THEN 1 ELSE 0) + HeldIn(new, b)
  BY <1>1, <1>2, SubmittedIs
<1> HIDE DEF new, a
<1>4. TurnsFit' /\ \A b : Carried(b)' = Carried(b) - HeldIn(old, b) + HeldIn(new, b) /\ Carried(b)' \in Nat
                          /\ Carried(b) \in Nat /\ HeldIn(old, b) \in Nat /\ HeldIn(new, b) \in Nat
  BY <1>1, <1>2, <1>3, HandsMove DEF old
<1>5. ExecutorIsSound' /\ \A b : Copies(b, corePending') = Copies(b, corePending) + IF a = b THEN 1 ELSE 0
  <2>1. Medium \in CorePriorities
    BY CoreAssumption
  <2> HIDE DEF Medium
  <2> QED BY <1>1, <1>3, <2>1, QueueKeeps
<1>6. ASSUME NEW b \in CoreAtoms PROVE Placed(b)'
  <2> DEFINE n == IF a = b THEN 1 ELSE 0
  <2>1. n \in Nat /\ Copies(b, corePending') = Copies(b, corePending) + n /\ HeldIn(old, b) = n + HeldIn(new, b)
    BY <1>3, <1>5
  <2> HIDE DEF n
  <2>2. Carried(b)' = Carried(b) - n
    BY <1>4, <2>1
  <2>3. Planned(b, planned') = Planned(b, planned) /\ owed'[b] = owed[b] /\ owed[b] \in Int
    BY <1>1 DEF CoreInv
  <2>4. Copies(b, corePending) \in Nat /\ Planned(b, planned) \in Nat /\ Carried(b) \in Nat
    BY PlacedParts
  <2>5. /\ owed'[b] = owed[b] + (Copies(b, corePending') - Copies(b, corePending))
                    + (Planned(b, planned') - Planned(b, planned)) + (Carried(b)' - Carried(b))
        /\ Copies(b, corePending') \in Nat
    BY <2>1, <2>2, <2>3, <2>4
  <2> QED BY <1>4, <2>3, <2>4, <2>5, PlacedKeeps
<1> QED BY <1>1, <1>4, <1>5, <1>6 DEF CoreInv

(***************************************************************************)
(* The queue is processed                                                  *)
(***************************************************************************)
LEMMA BatchIs ==
  ASSUME CoreInv
  PROVE  \E k \in 0..Len(corePending) :
           /\ NextBatch = SubSeq(corePending, 1, k) /\ Len(NextBatch) = k
           /\ k + Len(coreExecuting) <= MaxConcurrent
<1> DEFINE n == Len(corePending)
           e == Len(coreExecuting)
           k == IF n + e <= MaxConcurrent THEN n ELSE MaxConcurrent - e
           J == {j \in DOMAIN corePending : j + Len(coreExecuting) <= MaxConcurrent}
<1>1. /\ corePending \in Seq(CoreAtoms) /\ n \in Nat /\ e \in Nat /\ MaxConcurrent \in Nat /\ e <= MaxConcurrent
      /\ DOMAIN corePending = 1..n
  BY CoreAssumption DEF CoreInv, ExecutorIsSound
<1>2. J = {j \in 1..n : j + e <= MaxConcurrent}
  BY <1>1
<1> HIDE DEF n, e
<1>3. k \in 0..n /\ k + e <= MaxConcurrent /\ \A j \in 1..n : j + e <= MaxConcurrent <=> j <= k
  BY <1>1
<1>4. J = 1..k
  <2>1. k \in Nat /\ k <= n
    BY <1>1, <1>3
  <2>2. \A j : j \in J <=> j \in 1..k
    <3> HIDE DEF k, J
    <3> QED BY <1>1, <1>2, <1>3, <2>1
  <2> HIDE DEF k, J
  <2> QED BY <2>2
<1>5. NextBatch = [i \in 1..k |-> corePending[i]]
  <2> HIDE DEF k
  <2> QED BY <1>4 DEF NextBatch
<1> HIDE DEF k, J
<1>6. k \in Nat /\ \A i \in 1..k : corePending[i] \in CoreAtoms
  BY <1>1, <1>3
<1>7. NextBatch = SubSeq(corePending, 1, k) /\ Len(NextBatch) = k
  BY <1>5, <1>6
<1> QED BY <1>3, <1>7 DEF n, e

LEMMA TakeBatchKeeps ==
  ASSUME CoreInv, NEW t \in CoreThreads, TakeBatch(t)
  PROVE  CoreInv'
<1> DEFINE old == turns[t]
           batch == NextBatch
           rest == SubSeq(corePending, Len(batch) + 1, Len(corePending))
           new == NextTurn(batch)
<1>1. /\ old.at = "idle" \/ (old.at = "submitting" /\ old.due = <<>>)
      /\ corePending' = rest /\ coreExecuting' = coreExecuting \o batch
      /\ startTimes' = startTimes \cup ToSet(batch)
      /\ coreStatus' = [a \in CoreAtoms |-> IF a \in ToSet(batch) THEN "RUNNING" ELSE coreStatus[a]]
      /\ turns' = [turns EXCEPT ![t] = new]
      /\ corePriority' = corePriority /\ planned' = planned /\ owed' = owed /\ leftOpen' = leftOpen \ ToSet(batch)
  BY DEF TakeBatch, NextTurn
<1>2. PICK k \in 0..Len(corePending) :
         batch = SubSeq(corePending, 1, k) /\ Len(batch) = k /\ k + Len(coreExecuting) <= MaxConcurrent
  BY BatchIs
<1>3. /\ corePending \in Seq(CoreAtoms) /\ coreExecuting \in Seq(CoreAtoms) /\ ResultsAreTrue
      /\ Sorted(corePending, corePriority) /\ startTimes \subseteq CoreAtoms
      /\ old \in Turn /\ Fits(old) /\ TurnsFit
  BY DEF CoreInv, ExecutorIsSound, TurnsFit
<1> HIDE DEF old, batch
<1>4. rest = SubSeq(corePending, k + 1, Len(corePending))
  BY <1>2
<1>5. batch \in Seq(CoreAtoms) /\ rest \in Seq(CoreAtoms) /\ corePending = batch \o rest
  BY <1>2, <1>3, <1>4, CutInTwo
<1> HIDE DEF rest
<1>6. \A a : Copies(a, corePending) = Copies(a, batch) + Copies(a, rest) /\ Copies(a, batch) \in Nat /\ Copies(a, rest) \in Nat
  BY <1>5, CopiesBoth, CopiesFinite
<1>7. /\ ToSet(corePending) = ToSet(batch) \cup ToSet(rest)
      /\ coreExecuting \o batch \in Seq(CoreAtoms)
      /\ ToSet(coreExecuting \o batch) = ToSet(coreExecuting) \cup ToSet(batch)
      /\ ToSet(batch) \subseteq CoreAtoms
  <2>1. ToSet(batch) \subseteq CoreAtoms
    BY <1>5 DEF ToSet
  <2> QED BY <1>3, <1>5, <2>1, ConcatElements
<1>8. new \in Turn /\ Fits(new) /\ \A b : HeldIn(new, b) = Copies(b, batch)
  BY <1>5, NextTurnIs
<1> HIDE DEF new
<1>9. TurnsFit' /\ \A b : Carried(b)' = Carried(b) - HeldIn(old, b) + HeldIn(new, b) /\ Carried(b)' \in Nat
                          /\ Carried(b) \in Nat
  BY <1>1, <1>3, <1>8, HandsMove DEF old
<1>10. \A b : Carried(b)' = Carried(b) + Copies(b, batch)
  <2>1. \A b : HeldIn(old, b) = 0
    BY <1>1, <1>3, EmptyHands
  <2> QED BY <1>8, <1>9, <2>1
<1>11. ResultsAreTrue'
  BY <1>1, <1>3, <1>7 DEF ResultsAreTrue
<1>12. Len(coreExecuting') <= MaxConcurrent
  <2>1. Len(coreExecuting \o batch) = Len(coreExecuting) + Len(batch)
    BY <1>3, <1>5
  <2>2. Len(coreExecuting) \in Nat /\ k \in Nat
    BY <1>3
  <2> QED BY <1>1, <1>2, <2>1, <2>2
<1>13. Sorted(rest, corePriority)
  <2> SUFFICES ASSUME NEW i \in DOMAIN rest, NEW j \in DOMAIN rest, i < j
               PROVE  corePriority[rest[i]] >= corePriority[rest[j]]
    BY DEF Sorted
  <2>1. /\ k + i \in DOMAIN corePending /\ k + j \in DOMAIN corePending /\ k + i < k + j
        /\ corePending[k + i] = rest[i] /\ corePending[k + j] = rest[j]
    <3>1. k \in Nat /\ Len(batch) = k
      BY <1>2
    <3> DEFINE q == batch \o rest
    <3>2. \A l \in DOMAIN rest : Len(batch) + l \in DOMAIN q /\ q[Len(batch) + l] = rest[l]
      BY <1>5
    <3>3. corePending = q /\ i \in Nat /\ j \in Nat
      BY <1>5
    <3> HIDE DEF q
    <3> QED BY <3>1, <3>2, <3>3
  <2> QED BY <1>3, <2>1 DEF Sorted
<1>14. ExecutorIsSound'
  <2>1. corePriority \in [CoreAtoms -> Nat]
    BY DEF CoreInv, ExecutorIsSound
  <2> QED BY <1>1, <1>3, <1>5, <1>7, <1>11, <1>12, <1>13, <2>1 DEF ExecutorIsSound
<1>15. ASSUME NEW b \in CoreAtoms PROVE Placed(b)'
  <2>1. Planned(b, planned') = Planned(b, planned) /\ owed'[b] = owed[b] /\ owed[b] \in Int
    BY <1>1 DEF CoreInv
  <2>2. Copies(b, corePending) \in Nat /\ Planned(b, planned) \in Nat /\ Carried(b) \in Nat
    BY PlacedParts
  <2>3. Copies(b, corePending') = Copies(b, rest) /\ Copies(b, corePending') \in Nat
    BY <1>1, <1>6
  <2>4. owed'[b] = owed[b] + (Copies(b, corePending') - Copies(b, corePending))
                    + (Planned(b, planned') - Planned(b, planned)) + (Carried(b)' - Carried(b))
    <3>1. /\ Copies(b, corePending) = Copies(b, batch) + Copies(b, rest)
          /\ Copies(b, batch) \in Nat /\ Copies(b, rest) \in Nat
      BY <1>6
    <3>2. Carried(b)' = Carried(b) + Copies(b, batch)
      BY <1>10
    <3> DEFINE m == Copies(b, batch)
               r == Copies(b, rest)
    <3>3. /\ m \in Nat /\ r \in Nat /\ Copies(b, corePending) = m + r /\ Copies(b, corePending') = r
          /\ Carried(b)' = Carried(b) + m
      BY <2>3, <3>1, <3>2
    <3> HIDE DEF m, r
    <3>4. /\ Copies(b, corePending') - Copies(b, corePending) = 0 - m
          /\ Planned(b, planned') - Planned(b, planned) = 0 /\ Carried(b)' - Carried(b) = m
      BY <2>1, <2>2, <3>3
    <3> QED BY <2>1, <3>3, <3>4
  <2> QED BY <1>9, <2>1, <2>2, <2>3, <2>4, PlacedKeeps
<1> QED BY <1>1, <1>9, <1>14, <1>15 DEF CoreInv

(***************************************************************************)
(* The schedule changes                                                    *)
(***************************************************************************)
LEMMA PlanKeeps ==
  ASSUME CoreInv, NEW a \in CoreAtoms, NEW dependencies \in SUBSET CoreAtoms, NEW n \in Int,
         Plan(a, dependencies, n)
  PROVE  CoreInv'
<1> DEFINE e == [atom |-> a, dependencies |-> dependencies, repeats |-> n, due |-> FALSE]
           more == Occurrences(n)
<1>1. /\ planned' = Append(planned, e) /\ owed' = [owed EXCEPT ![a] = @ + more]
      /\ executorState' = executorState /\ turns' = turns
  BY DEF Plan
<1>2. planned \in Seq(PlannedEntry) /\ owed \in [CoreAtoms -> Int]
  BY DEF CoreInv
<1>3. e \in PlannedEntry /\ e.atom = a /\ e.repeats = n
  BY DEF PlannedEntry
<1>4. more \in Nat
  BY OccurrencesIs
<1> HIDE DEF e, more
<1>5. planned' \in Seq(PlannedEntry)
  BY <1>1, <1>2, <1>3
<1>6. \A b : Planned(b, planned') = Planned(b, planned) + IF a = b THEN more ELSE 0
  BY <1>1, <1>2, <1>3, PlannedMore DEF more
<1>7. ExecutorIsSound' /\ \A b : Copies(b, corePending') = Copies(b, corePending)
  BY <1>1, ExecutorStays
<1>8. TurnsFit' /\ \A b : Carried(b)' = Carried(b)
  BY <1>1, TurnsStay
<1>9. owed' \in [CoreAtoms -> Int]
  BY <1>1, <1>2, <1>4
<1>10. ASSUME NEW b \in CoreAtoms PROVE Placed(b)'
  <2> DEFINE m == IF a = b THEN more ELSE 0
  <2>1. m \in Nat /\ Planned(b, planned') = Planned(b, planned) + m /\ owed'[b] = owed[b] + m /\ owed[b] \in Int
    BY <1>1, <1>2, <1>4, <1>6
  <2> HIDE DEF m
  <2>2. Copies(b, corePending') = Copies(b, corePending) /\ Carried(b)' = Carried(b)
    BY <1>7, <1>8
  <2>3. Copies(b, corePending) \in Nat /\ Planned(b, planned) \in Nat /\ Carried(b) \in Nat
    BY PlacedParts
  <2>4. /\ owed'[b] = owed[b] + (Copies(b, corePending') - Copies(b, corePending))
                    + (Planned(b, planned') - Planned(b, planned)) + (Carried(b)' - Carried(b))
        /\ Planned(b, planned') \in Nat
    BY <2>1, <2>2, <2>3
  <2> QED BY <2>2, <2>3, <2>4, PlacedKeeps
<1> QED BY <1>5, <1>7, <1>8, <1>9, <1>10 DEF CoreInv

LEMMA CancelScheduledKeeps ==
  ASSUME CoreInv, NEW a \in CoreAtoms, CancelScheduled(a)
  PROVE  CoreInv'
<1> DEFINE K == {i \in DOMAIN planned : planned[i].atom # a}
           r == ElementsAt(planned, K)
           lost == Planned(a, planned)
<1>1. /\ planned' = r /\ owed' = [owed EXCEPT ![a] = @ - lost]
      /\ executorState' = executorState /\ turns' = turns
  BY DEF CancelScheduled
<1>2. planned \in Seq(PlannedEntry) /\ owed \in [CoreAtoms -> Int] /\ K \subseteq DOMAIN planned
  BY DEF CoreInv
<1>3. r \in Seq(PlannedEntry)
  <2> HIDE DEF K
  <2> QED BY <1>2, ElementsAtIs
<1>4. lost \in Nat
  BY <1>2, PlannedIs
<1>5. ASSUME NEW b PROVE Planned(b, r) = Planned(b, planned) - (IF a = b THEN lost ELSE 0) /\ Planned(b, r) \in Nat
  <2> DEFINE g == PlannedAt(b, planned)
             D == DOMAIN planned
  <2>1. /\ \A i \in D : g[i] = IF planned[i].atom = b THEN Occurrences(planned[i].repeats) ELSE 0
        /\ \A i \in D : g[i] \in Nat
        /\ Planned(b, planned) = SumOf(g, D) /\ Planned(b, planned) \in Nat
    BY <1>2, PlannedIs
  <2>2. Planned(b, r) = SumOf(g, K)
    <3>1. \A i \in K : g[i] \in Nat
      BY <2>1
    <3>2. \A i \in K : \A k \in DOMAIN r :
             ElementsAt(planned, K)[k] = planned[i] => g[i] = IF r[k].atom = b THEN Occurrences(r[k].repeats) ELSE 0
      BY <2>1
    <3> HIDE DEF g, K
    <3>3. DOMAIN r = DOMAIN ElementsAt(planned, K)
      OBVIOUS
    <3>4. Tells(g, planned, K, r, b)
      BY <3>2 DEF Tells
    <3> HIDE DEF r
    <3> QED BY <1>2, <1>3, <3>1, <3>3, <3>4, PlannedPicked
  <2>3. IsFiniteSet(D) /\ K \subseteq D
    BY <1>2, FS_Interval
  <2>4. CASE b # a
    <3>1. \A i \in D \ K : g[i] = 0
      BY <2>1, <2>4
    <3> HIDE DEF g, D, K
    <3>2. SumOf(g, D) = SumOf(g, K)
      BY <2>1, <2>3, <3>1, SumOfPart
    <3> HIDE DEF r
    <3> QED BY <2>1, <2>2, <2>4, <3>2
  <2>5. CASE b = a
    <3> DEFINE nobody == {}
    <3>1. /\ \A i \in K : g[i] \in Nat
          /\ \A i \in K \ nobody : g[i] = 0
          /\ nobody \subseteq K
      BY <2>1, <2>5
    <3>2. IsFiniteSet(K)
      BY <2>3, FS_Subset
    <3> HIDE DEF g, D, K, nobody
    <3>3. SumOf(g, K) = SumOf(g, nobody)
      BY <3>1, <3>2, SumOfPart
    <3>4. SumOf(g, nobody) = 0
      BY SumOfNone DEF nobody
    <3> HIDE DEF r
    <3> QED BY <1>4, <2>1, <2>2, <2>5, <3>3, <3>4
  <2> QED BY <2>4, <2>5
<1> HIDE DEF r, K, lost
<1>6. ExecutorIsSound' /\ \A b : Copies(b, corePending') = Copies(b, corePending)
  BY <1>1, ExecutorStays
<1>7. TurnsFit' /\ \A b : Carried(b)' = Carried(b)
  BY <1>1, TurnsStay
<1>8. owed' \in [CoreAtoms -> Int]
  BY <1>1, <1>2, <1>4
<1>9. ASSUME NEW b \in CoreAtoms PROVE Placed(b)'
  <2> DEFINE m == IF a = b THEN lost ELSE 0
  <2>1. m \in Nat /\ Planned(b, planned') = Planned(b, planned) - m /\ owed'[b] = owed[b] - m /\ owed[b] \in Int
    BY <1>1, <1>2, <1>4, <1>5
  <2> HIDE DEF m
  <2>2. Copies(b, corePending') = Copies(b, corePending) /\ Carried(b)' = Carried(b) /\ Planned(b, planned') \in Nat
    BY <1>1, <1>5, <1>6, <1>7
  <2>3. Copies(b, corePending) \in Nat /\ Planned(b, planned) \in Nat /\ Carried(b) \in Nat
    BY PlacedParts
  <2>4. owed'[b] = owed[b] + (Copies(b, corePending') - Copies(b, corePending))
                    + (Planned(b, planned') - Planned(b, planned)) + (Carried(b)' - Carried(b))
    BY <2>1, <2>2, <2>3
  <2> QED BY <2>2, <2>3, <2>4, PlacedKeeps
<1> QED BY <1>1, <1>3, <1>6, <1>7, <1>8, <1>9 DEF CoreInv

LEMMA FallsDueKeeps ==
  ASSUME CoreInv, NEW i \in DOMAIN planned, FallsDue(i)
  PROVE  CoreInv'
<1>1. /\ planned' = [planned EXCEPT ![i].due = TRUE] /\ owed' = owed
      /\ executorState' = executorState /\ turns' = turns
  BY DEF FallsDue
<1>2. planned \in Seq(PlannedEntry)
  BY DEF CoreInv
<1> DEFINE e == [planned[i] EXCEPT !.due = TRUE]
<1>3. e \in PlannedEntry /\ e.atom = planned[i].atom /\ e.repeats = planned[i].repeats
  <2>1. planned[i] \in PlannedEntry
    BY <1>2
  <2> QED BY <2>1 DEF PlannedEntry
<1>4. /\ planned' \in Seq(PlannedEntry) /\ DOMAIN planned' = DOMAIN planned /\ planned'[i] = e
      /\ \A j \in DOMAIN planned \ {i} : planned'[j] = planned[j]
  <2>1. planned' = [planned EXCEPT ![i] = e]
    BY <1>1
  <2> HIDE DEF e
  <2> QED BY <1>2, <1>3, <2>1
<1> HIDE DEF e
<1>5. \A b : Planned(b, planned') = Planned(b, planned)
  <2> SUFFICES ASSUME NEW b PROVE Planned(b, planned') = Planned(b, planned)
    OBVIOUS
  <2> DEFINE g == PlannedAt(b, planned)
             h == PlannedAt(b, planned')
             D == DOMAIN planned
  <2>1. /\ Planned(b, planned) = SumOf(g, D) /\ \A j \in D : g[j] \in Nat
        /\ \A j \in D : g[j] = IF planned[j].atom = b THEN Occurrences(planned[j].repeats) ELSE 0
    BY <1>2, PlannedIs
  <2>2. /\ Planned(b, planned') = SumOf(h, D)
        /\ \A j \in D : h[j] = IF planned'[j].atom = b THEN Occurrences(planned'[j].repeats) ELSE 0
    BY <1>4, PlannedIs
  <2>3. \A j \in D : h[j] = g[j]
    BY <1>3, <1>4, <2>1, <2>2
  <2>4. IsFiniteSet(D)
    BY <1>2, FS_Interval
  <2> HIDE DEF g, h, D
  <2>5. SumOf(g, D) = SumOf(h, D)
    BY <2>1, <2>3, <2>4, SameSum
  <2> QED BY <2>1, <2>2, <2>5
<1>6. ExecutorIsSound' /\ \A b : Copies(b, corePending') = Copies(b, corePending)
  BY <1>1, ExecutorStays
<1>7. TurnsFit' /\ \A b : Carried(b)' = Carried(b)
  BY <1>1, TurnsStay
<1>8. ASSUME NEW b \in CoreAtoms PROVE Placed(b)'
  BY <1>1, <1>5, <1>6, <1>7 DEF CoreInv, Placed
<1> QED BY <1>1, <1>4, <1>6, <1>7, <1>8 DEF CoreInv

Collected(d) == [AtRest EXCEPT !.at = "submitting", !.due = d]

LEMMA CollectedIs ==
  ASSUME NEW d \in Seq(CoreAtoms)
  PROVE  Collected(d) \in Turn /\ Fits(Collected(d)) /\ \A b : HeldIn(Collected(d), b) = Copies(b, d)
<1> DEFINE turn == Collected(d)
<1>1. turn.at = "submitting" /\ turn.due = d /\ turn.batch = <<>> /\ <<>> \in Seq(CoreAtoms)
  BY DEF Collected, AtRest
<1>2. turn \in Turn
  BY <1>1 DEF Collected, AtRest, Turn, ThreadPlaces
<1> HIDE DEF turn
<1>3. Fits(turn) /\ Uncalled(turn) = <<>>
  BY <1>1 DEF Fits, Uncalled
<1>4. ASSUME NEW b PROVE HeldIn(turn, b) = Copies(b, d)
  <2>1. HeldIn(turn, b) = Copies(b, d) + 0 /\ Copies(b, d) \in Nat
    BY <1>1, <1>3, CopiesNone, CopiesFinite DEF HeldIn
  <2> QED BY <2>1
<1> QED BY <1>2, <1>3, <1>4 DEF turn

\* The next time of a periodic action, and what of one is still to come
LEMMA RenewedIs ==
  ASSUME NEW e \in PlannedEntry
  PROVE  /\ Renewed(e) \in PlannedEntry /\ Renewed(e).atom = e.atom /\ Dispatchable(e) \in BOOLEAN /\ e.repeats \in Int
         /\ Dispatchable(e) => Renewed(e).repeats = e.repeats - 1
         /\ ~Dispatchable(e) => Renewed(e) = e
         /\ Occurrences(e.repeats) \in Nat /\ Occurrences(Renewed(e).repeats) \in Nat
         /\ Dispatchable(e) /\ Again(e) => Occurrences(e.repeats) = Occurrences(Renewed(e).repeats) + 1
         /\ Dispatchable(e) /\ ~Again(e) => Occurrences(e.repeats) = 1
<1>1. e.repeats \in Int /\ e.due \in BOOLEAN
  BY DEF PlannedEntry
<1>2. Dispatchable(e) => Renewed(e) = [e EXCEPT !.repeats = e.repeats - 1, !.due = FALSE]
  BY DEF Renewed
<1>3. ~Dispatchable(e) => Renewed(e) = e
  BY DEF Renewed
<1>4. /\ Renewed(e) \in PlannedEntry /\ Renewed(e).atom = e.atom /\ Renewed(e).repeats \in Int
      /\ Dispatchable(e) => Renewed(e).repeats = e.repeats - 1
  <2>1. CASE Dispatchable(e)
    <3> DEFINE n == e.repeats - 1
               f == [e EXCEPT !.repeats = n]
               g == [f EXCEPT !.due = FALSE]
    <3>1. n \in Int
      BY <1>1
    <3> HIDE DEF n
    <3>2. f \in PlannedEntry /\ f.atom = e.atom /\ f.repeats = n
      BY <3>1 DEF PlannedEntry
    <3>3. Renewed(e) = g
      BY <1>2, <2>1 DEF n
    <3> HIDE DEF f
    <3>4. g \in PlannedEntry /\ g.atom = f.atom /\ g.repeats = f.repeats
      BY <3>2 DEF PlannedEntry
    <3> HIDE DEF g
    <3> QED BY <3>1, <3>2, <3>3, <3>4 DEF n
  <2>2. CASE ~Dispatchable(e)
    BY <1>1, <1>3, <2>2
  <2> QED BY <2>1, <2>2
<1>5. Dispatchable(e) \in BOOLEAN
  BY <1>1 DEF Dispatchable
<1>6. Occurrences(e.repeats) = IF e.repeats > 1 THEN e.repeats ELSE 1
  BY <1>1, OccurrencesIs
<1>7. Occurrences(Renewed(e).repeats) = IF Renewed(e).repeats > 1 THEN Renewed(e).repeats ELSE 1
  BY <1>4, OccurrencesIs
<1> QED BY <1>1, <1>3, <1>4, <1>5, <1>6, <1>7 DEF Again

LEMMA CollectDueKeeps ==
  ASSUME CoreInv, NEW t \in CoreThreads, CollectDue(t)
  PROVE  CoreInv'
<1> DEFINE N == DOMAIN planned
           D == {i \in DOMAIN planned : Dispatchable(planned[i])}
           K == {i \in DOMAIN planned : Dispatchable(planned[i]) => Again(planned[i])}
           ready == ElementsAt(planned, D)
           kept == ElementsAt(planned, K)
           d == AtomsOf(ready)
           r == [i \in DOMAIN kept |-> Renewed(kept[i])]
           old == turns[t]
           new == Collected(d)
<1>1. /\ old.at = "idle" /\ planned' = r /\ turns' = [turns EXCEPT ![t] = new]
      /\ executorState' = executorState /\ owed' = owed
  BY DEF CollectDue, Collected
<1>2. planned \in Seq(PlannedEntry) /\ D \subseteq N /\ K \subseteq N /\ IsFiniteSet(N)
  <2>1. planned \in Seq(PlannedEntry)
    BY DEF CoreInv
  <2> QED BY <2>1, FS_Interval
<1>3. /\ \A i \in N : planned[i] \in PlannedEntry
      /\ \A i \in N : i \in D <=> Dispatchable(planned[i])
      /\ \A i \in N : i \in K <=> (Dispatchable(planned[i]) => Again(planned[i]))
  BY <1>2
<1>4. old \in Turn /\ Fits(old) /\ TurnsFit
  BY DEF CoreInv, TurnsFit
<1> HIDE DEF D, K, old
<1>5. kept \in Seq(PlannedEntry)
  BY <1>2, ElementsAtIs
<1>6. d \in Seq(CoreAtoms) /\ \A b : Copies(b, d) = Cardinality({i \in D : planned[i].atom = b})
  <2> HIDE DEF N
  <2>1. AtomsOf(ready) \in Seq(CoreAtoms) /\ \A b : Copies(b, AtomsOf(ready)) = Cardinality(AtomAt(planned, D, b))
    BY <1>2, CopiesPicked DEF N
  <2> QED BY <2>1 DEF AtomAt
<1> HIDE DEF d, ready
<1>7. new \in Turn /\ Fits(new) /\ \A b : HeldIn(new, b) = Copies(b, d)
  BY <1>6, CollectedIs
<1> HIDE DEF new
<1>8. r \in Seq(PlannedEntry) /\ DOMAIN r = DOMAIN kept
  <2> HIDE DEF kept
  <2>1. \A k \in DOMAIN kept : Renewed(kept[k]) \in PlannedEntry
    BY <1>5, RenewedIs
  <2> QED BY <1>5, <2>1
<1>9. ASSUME NEW b
      PROVE  Planned(b, planned) = Planned(b, r) + Copies(b, d) /\ Planned(b, r) \in Nat /\ Copies(b, d) \in Nat
  <2> DEFINE g == [i \in N |-> IF i \in K /\ planned[i].atom = b THEN Occurrences(Renewed(planned[i]).repeats) ELSE 0]
             h == PlannedAt(b, planned)
             J == {i \in D : planned[i].atom = b}
  <2>1. /\ \A i \in N : h[i] = IF planned[i].atom = b THEN Occurrences(planned[i].repeats) ELSE 0
        /\ Planned(b, planned) = SumOf(h, N)
    BY <1>2, PlannedIs
  <2>2. \A i \in N : g[i] = IF i \in K /\ planned[i].atom = b THEN Occurrences(Renewed(planned[i]).repeats) ELSE 0
    OBVIOUS
  <2> HIDE DEF g, h, N
  <2>3. \A i \in N : g[i] \in Nat
    BY <1>3, <2>2, RenewedIs
  <2>4. J \subseteq N /\ \A i \in N : i \in J <=> Dispatchable(planned[i]) /\ planned[i].atom = b
    BY <1>2, <1>3
  <2>5. \A i \in N : h[i] = IF i \in J THEN g[i] + 1 ELSE g[i]
    <3> HIDE DEF J
    <3> SUFFICES ASSUME NEW i \in N PROVE h[i] = IF i \in J THEN g[i] + 1 ELSE g[i]
      OBVIOUS
    <3> DEFINE e == planned[i]
    <3>1. /\ e \in PlannedEntry /\ (i \in K <=> (Dispatchable(e) => Again(e)))
          /\ i \in J <=> Dispatchable(e) /\ e.atom = b
          /\ h[i] = IF e.atom = b THEN Occurrences(e.repeats) ELSE 0
          /\ g[i] = IF i \in K /\ e.atom = b THEN Occurrences(Renewed(e).repeats) ELSE 0
      BY <1>3, <2>1, <2>2, <2>4
    <3> HIDE DEF e
    <3>2. /\ Occurrences(e.repeats) \in Nat /\ Occurrences(Renewed(e).repeats) \in Nat
          /\ ~Dispatchable(e) => Renewed(e) = e
          /\ Dispatchable(e) /\ Again(e) => Occurrences(e.repeats) = Occurrences(Renewed(e).repeats) + 1
          /\ Dispatchable(e) /\ ~Again(e) => Occurrences(e.repeats) = 1
      BY <3>1, RenewedIs
    <3>3. CASE e.atom # b
      BY <3>1, <3>3
    <3>4. CASE e.atom = b /\ ~Dispatchable(e)
      BY <3>1, <3>2, <3>4
    <3>5. CASE e.atom = b /\ Dispatchable(e) /\ Again(e)
      BY <3>1, <3>2, <3>5
    <3>6. CASE e.atom = b /\ Dispatchable(e) /\ ~Again(e)
      BY <3>1, <3>2, <3>6
    <3> QED BY <3>3, <3>4, <3>5, <3>6
  <2> HIDE DEF J
  <2>6. SumOf(h, N) = SumOf(g, N) + Cardinality(J) /\ SumOf(g, N) \in Nat /\ Cardinality(J) \in Nat
    BY <1>2, <2>3, <2>4, <2>5, SumOneMore
  <2>7. SumOf(g, N) = SumOf(g, K)
    <3>1. \A i \in N \ K : g[i] = 0
      BY <2>2
    <3> QED BY <1>2, <2>3, <3>1, SumOfPart
  <2>8. Planned(b, r) = SumOf(g, K)
    <3>1. \A i \in K : g[i] \in Nat
      BY <1>2, <2>3
    <3>2. Tells(g, planned, K, r, b)
      <4> SUFFICES ASSUME NEW i \in K, NEW k \in DOMAIN r, kept[k] = planned[i]
                   PROVE  g[i] = IF r[k].atom = b THEN Occurrences(r[k].repeats) ELSE 0
        BY DEF Tells
      <4>1. r[k] = Renewed(planned[i])
        <5> HIDE DEF kept
        <5> QED BY <1>8
      <4>2. i \in N /\ planned[i] \in PlannedEntry
        BY <1>2, <1>3
      <4>3. Renewed(planned[i]).atom = planned[i].atom
        BY <4>2, RenewedIs
      <4> HIDE DEF r
      <4> QED BY <2>2, <4>1, <4>2, <4>3
    <3>3. DOMAIN r = DOMAIN ElementsAt(planned, K) /\ K \subseteq DOMAIN planned
      BY <1>2, <1>8 DEF N
    <3> HIDE DEF r
    <3> QED BY <1>2, <1>8, <3>1, <3>2, <3>3, PlannedPicked
  <2>9. Copies(b, d) = Cardinality(J)
    BY <1>6 DEF J
  <2> HIDE DEF r
  <2> QED BY <2>1, <2>6, <2>7, <2>8, <2>9
<1> HIDE DEF r, kept, N
<1>10. TurnsFit' /\ \A b : Carried(b)' = Carried(b) - HeldIn(old, b) + HeldIn(new, b) /\ Carried(b)' \in Nat
                          /\ Carried(b) \in Nat
  BY <1>1, <1>4, <1>7, HandsMove DEF old
<1>11. \A b : HeldIn(old, b) = 0
  BY <1>1, <1>4, EmptyHands
<1>12. ExecutorIsSound' /\ \A b : Copies(b, corePending') = Copies(b, corePending)
  BY <1>1, ExecutorStays
<1>13. ASSUME NEW b \in CoreAtoms PROVE Placed(b)'
  <2> DEFINE n == Copies(b, d)
  <2>1. n \in Nat /\ Planned(b, planned) = Planned(b, planned') + n /\ Planned(b, planned') \in Nat
    BY <1>1, <1>9
  <2>2. Carried(b)' = Carried(b) + n
    BY <1>7, <1>10, <1>11, <2>1
  <2> HIDE DEF n
  <2>3. Copies(b, corePending') = Copies(b, corePending) /\ owed'[b] = owed[b] /\ owed[b] \in Int
    BY <1>1, <1>12 DEF CoreInv
  <2>4. Copies(b, corePending) \in Nat /\ Planned(b, planned) \in Nat /\ Carried(b) \in Nat
    BY PlacedParts
  <2>5. owed'[b] = owed[b] + (Copies(b, corePending') - Copies(b, corePending))
                    + (Planned(b, planned') - Planned(b, planned)) + (Carried(b)' - Carried(b))
    BY <2>1, <2>2, <2>3, <2>4
  <2> QED BY <1>10, <2>1, <2>3, <2>4, <2>5, PlacedKeeps
<1> QED BY <1>1, <1>8, <1>10, <1>12, <1>13 DEF CoreInv

LEMMA CoreStutters ==
  ASSUME CoreInv, corePending' = corePending, corePriority' = corePriority, coreStatus' = coreStatus,
         coreExecuting' = coreExecuting, startTimes' = startTimes, planned' = planned, turns' = turns, owed' = owed,
         leftOpen' = leftOpen
  PROVE  CoreInv'
<1>1. ResultsAreTrue' /\ ExecutorIsSound'
  BY DEF CoreInv, ExecutorIsSound, ResultsAreTrue
<1>2. TurnsFit' /\ \A b : Carried(b)' = Carried(b)
  BY TurnsStay
<1>3. ASSUME NEW b \in CoreAtoms PROVE Placed(b)'
  BY <1>2 DEF CoreInv, Placed
<1> QED BY <1>1, <1>2, <1>3 DEF CoreInv

LEMMA CoreInitial == CoreInit => CoreInv
<1> SUFFICES ASSUME CoreInit PROVE CoreInv
  OBVIOUS
<1>1. /\ corePending = <<>> /\ corePriority = [a \in CoreAtoms |-> Medium]
      /\ coreStatus = [a \in CoreAtoms |-> NoStatus] /\ coreExecuting = <<>>
      /\ startTimes = {} /\ planned = <<>>
      /\ turns = [t \in CoreThreads |-> AtRest] /\ owed = [a \in CoreAtoms |-> 0]
  BY DEF CoreInit
<1>2. TurnsFit
  BY <1>1, RestHolds DEF TurnsFit
<1>3. ResultsAreTrue
  BY <1>1, CoreAssumption DEF ResultsAreTrue, ToSet, ActionStatus, StillOpen
<1>4. ExecutorIsSound
  <2>1. Medium \in Nat /\ MaxConcurrent \in Nat
    BY CoreAssumption
  <2> HIDE DEF Medium
  <2>2. <<>> \in Seq(CoreAtoms) /\ Len(<<>>) = 0 /\ Sorted(<<>>, corePriority)
    BY DEF Sorted
  <2> QED BY <1>1, <1>3, <2>1, <2>2 DEF ExecutorIsSound
<1>5. ASSUME NEW b \in CoreAtoms PROVE Placed(b)
  <2>1. Copies(b, corePending) = 0
    BY <1>1, CopiesNone
  <2>2. Planned(b, planned) = 0
    <3>1. planned \in Seq(PlannedEntry) /\ DOMAIN planned = {}
      BY <1>1
    <3>2. Planned(b, planned) = SumOf(PlannedAt(b, planned), DOMAIN planned)
      BY <3>1, PlannedIs
    <3> QED BY <3>1, <3>2, SumOfNone
  <2>3. Carried(b) = 0
    <3> DEFINE g == InHands(b)
               nobody == {}
    <3>1. \A t \in CoreThreads : g[t] = 0
      <4>1. \A t \in CoreThreads : g[t] = HeldIn(turns[t], b) /\ turns[t] = AtRest
        BY <1>1 DEF InHands, HeldIn
      <4> HIDE DEF g
      <4> QED BY <4>1, RestHolds
    <3>2. nobody \subseteq CoreThreads /\ (\A t \in CoreThreads : g[t] \in Nat) /\ \A t \in CoreThreads \ nobody : g[t] = 0
      BY <3>1
    <3> HIDE DEF g, nobody
    <3>3. SumOf(g, CoreThreads) = SumOf(g, nobody)
      BY <3>2, SumOfPart, CoreAssumption
    <3>4. SumOf(g, nobody) = 0
      BY SumOfNone DEF nobody
    <3> QED BY <3>3, <3>4, CarriedIs DEF g
  <2>4. owed[b] = 0
    BY <1>1
  <2> QED BY <2>1, <2>2, <2>3, <2>4 DEF Placed
<1>6. planned \in Seq(PlannedEntry) /\ owed \in [CoreAtoms -> Int]
  BY <1>1
<1> QED BY <1>2, <1>4, <1>5, <1>6 DEF CoreInv

LEMMA CoreInductive == CoreInv /\ [CoreNext]_coreVars => CoreInv'
<1> SUFFICES ASSUME CoreInv, [CoreNext]_coreVars PROVE CoreInv'
  OBVIOUS
<1>1. CASE ExecutorStep
  BY <1>1, ExecuteActionKeeps, CancelActionKeeps DEF ExecutorStep
<1>2. CASE SyncStep
  BY <1>2, ExecuteSyncKeeps DEF SyncStep
<1>3. CASE PlanStep
  <2>1. PICK a \in CoreAtoms :
          \/ ScheduleOnce(a) \/ CancelScheduled(a)
          \/ \E b \in CoreAtoms : ScheduleAgain(a, {b}, 1)
          \/ \E n \in Repeats : ScheduleAgain(a, {}, n)
    BY <1>3 DEF PlanStep
  <2>2. CASE ScheduleOnce(a)
    <3>1. Plan(a, {}, 1) /\ {} \in SUBSET CoreAtoms /\ 1 \in Int
      BY <2>2 DEF ScheduleOnce
    <3> QED BY <3>1, PlanKeeps
  <2>3. CASE CancelScheduled(a)
    BY <2>3, CancelScheduledKeeps
  <2>4. ASSUME NEW b \in CoreAtoms, ScheduleAgain(a, {b}, 1) PROVE CoreInv'
    <3>1. Plan(a, {b}, 1) /\ {b} \in SUBSET CoreAtoms /\ 1 \in Int
      BY <2>4 DEF ScheduleAgain
    <3> QED BY <3>1, PlanKeeps
  <2>5. ASSUME NEW n \in Repeats, ScheduleAgain(a, {}, n) PROVE CoreInv'
    <3>1. Plan(a, {}, n) /\ {} \in SUBSET CoreAtoms /\ n \in Int
      BY <2>5, CoreAssumption DEF ScheduleAgain
    <3> QED BY <3>1, PlanKeeps
  <2> QED BY <2>1, <2>2, <2>3, <2>4, <2>5
<1>4. CASE ClockStep
  <2>1. ASSUME NEW a \in CoreAtoms, TimesOut(a) PROVE CoreInv'
    BY <2>1, CoreStutters DEF TimesOut
  <2> QED BY <1>4, <2>1, FallsDueKeeps DEF ClockStep
<1>5. CASE ThreadStep
  <2>1. PICK t \in CoreThreads : TakeBatch(t) \/ CollectDue(t) \/ TurnStep(t) \/ CallbackThrows(t)
    BY <1>5 DEF ThreadStep
  <2>2. CASE TurnStep(t)
    BY <2>2, CallNextKeeps, NoteStatusKeeps, SubmitDueKeeps, CallbackReturnsKeeps DEF TurnStep
  <2> QED BY <2>1, <2>2, TakeBatchKeeps, CollectDueKeeps, CallbackThrowsKeeps
<1>6. CASE MonitorExecutingActions
  BY <1>6, MonitorKeeps
<1>7. CASE UNCHANGED coreVars
  BY <1>7, CoreStutters DEF coreVars, executorState
<1> QED BY <1>1, <1>2, <1>3, <1>4, <1>5, <1>6, <1>7 DEF CoreNext

\* ActionExecutor and ActionScheduler owe each action exactly the occurrences that are queued,
\* planned or in a thread's hands, for any number of threads, in whatever order these collect,
\* call, record and monitor.
THEOREM ActionsKept == CoreSpec => []ActionsAreKept
<1>1. CoreInit => CoreInv
  BY CoreInitial
<1>2. CoreInv /\ [CoreNext]_coreVars => CoreInv'
  BY CoreInductive
<1>3. CoreInv => ActionsAreKept
  BY CoreInvSuffices
<1> QED BY <1>1, <1>2, <1>3, PTL DEF CoreSpec

(***************************************************************************)
(* Tasks                                                                   *)
(***************************************************************************)
CoreTaskRecord == [priority : TaskPriorities, status : {"PENDING", "RUNNING"} \cup TaskEnded]

\* The higher priority first
Ranked(q, tasks) == \A i, j \in DOMAIN q : i < j => tasks[q[i]].priority <= tasks[q[j]].priority

\* What is in the queue, or in some thread's hands, and what has ended, but for what escaped
Settled(tasks, q, hands, escaped) ==
  /\ \A id \in DOMAIN tasks \ escaped :
       id \notin ToSet(q) /\ (\A t \in CoreAgentThreads : hands[t] # id) => tasks[id].status \in TaskEnded
  /\ \A id \in DOMAIN tasks \ escaped : tasks[id].status = "RUNNING" => \E t \in CoreAgentThreads : hands[t] = id

TasksInv ==
  /\ \E n \in Nat : DOMAIN coreTasks = 1..n
  /\ coreTasks \in [DOMAIN coreTasks -> CoreTaskRecord]
  /\ taskQueue \in Seq(DOMAIN coreTasks) /\ Unrepeated(taskQueue) /\ ToSet(taskQueue) = owedTasks
  /\ Ranked(taskQueue, coreTasks)
  /\ doing \in [CoreAgentThreads -> DOMAIN coreTasks \cup {0}]
  /\ Settled(coreTasks, taskQueue, doing, leftRunning)

LEMMA TasksInvSuffices == TasksInv => CoreTasksAreKept
BY DEF TasksInv, CoreTasksAreKept, Ranked, Settled, Unrepeated, IsInjective

LEMMA SortedTasksIs ==
  ASSUME NEW tasks, NEW q \in Seq(DOMAIN tasks), \A id \in DOMAIN tasks : tasks[id].priority \in Nat
  PROVE  /\ SortedTasks(q, tasks) \in Seq(DOMAIN tasks) /\ ToSet(SortedTasks(q, tasks)) = ToSet(q)
         /\ Ranked(SortedTasks(q, tasks), tasks)
         /\ Unrepeated(q) => Unrepeated(SortedTasks(q, tasks))
<1> DEFINE N == DOMAIN tasks
           key == [id \in DOMAIN tasks |-> tasks[id].priority]
           r == StableSort(q, key)
<1>1. \A id \in N : key[id] = tasks[id].priority /\ key[id] \in Int
  OBVIOUS
<1> HIDE DEF key, N
<1>2. q \in Seq(N)
  BY DEF N
<1>3. /\ r \in Seq(N) /\ Permutes(r, q)
      /\ \A i, j \in DOMAIN r : i < j => key[r[i]] <= key[r[j]]
  BY <1>1, <1>2, StableSortIs
<1>4. SortedTasks(q, tasks) = r
  BY DEF SortedTasks, key
<1> HIDE DEF r
<1>5. ToSet(r) = ToSet(q) /\ (Unrepeated(q) => Unrepeated(r))
  BY <1>3, PermutesElements
<1>6. Ranked(r, tasks)
  <2> SUFFICES ASSUME NEW i \in DOMAIN r, NEW j \in DOMAIN r, i < j
               PROVE  tasks[r[i]].priority <= tasks[r[j]].priority
    BY DEF Ranked
  <2>1. key[r[i]] <= key[r[j]] /\ r[i] \in N /\ r[j] \in N
    BY <1>3
  <2> QED BY <1>1, <2>1
<1> QED BY <1>3, <1>4, <1>5, <1>6 DEF N

LEMMA TasksRanked ==
  ASSUME NEW N, NEW tasks \in [N -> CoreTaskRecord]
  PROVE  \A id \in N : tasks[id].priority \in Nat /\ tasks[id].priority \in TaskPriorities
<1> TAKE id \in N
<1>1. tasks[id] \in CoreTaskRecord
  OBVIOUS
<1>2. tasks[id].priority \in TaskPriorities
  BY <1>1 DEF CoreTaskRecord
<1> QED BY <1>2, CoreAgentAssumption

LEMMA CreateCoreTaskKeeps ==
  ASSUME TasksInv, NEW p \in TaskPriorities, CreateCoreTask(p)
  PROVE  TasksInv'
<1> DEFINE N == DOMAIN coreTasks
           id == Cardinality(N) + 1
           e == [priority |-> p, status |-> "PENDING"]
           q == Append(taskQueue, id)
<1>1. /\ coreTasks' = With(coreTasks, id, e) /\ taskQueue' = SortedTasks(q, coreTasks')
      /\ owedTasks' = owedTasks \cup {id} /\ doing' = doing /\ leftRunning' = leftRunning
  BY DEF CreateCoreTask
<1>2. PICK n \in Nat : N = 1..n
  BY DEF TasksInv
<1>3. id = n + 1
  <2>1. Cardinality(1..n) = IF 1 > n THEN 0 ELSE n - 1 + 1
    BY FS_Interval
  <2>2. Cardinality(N) = n
    BY <1>2, <2>1
  <2> QED BY <2>2
<1>4. /\ coreTasks \in [N -> CoreTaskRecord] /\ taskQueue \in Seq(N) /\ Unrepeated(taskQueue)
      /\ ToSet(taskQueue) = owedTasks /\ doing \in [CoreAgentThreads -> N \cup {0}]
      /\ Settled(coreTasks, taskQueue, doing, leftRunning)
  BY DEF TasksInv
<1>5. e \in CoreTaskRecord /\ e.status = "PENDING" /\ "PENDING" \notin TaskEnded
  BY DEF CoreTaskRecord, TaskEnded
<1> HIDE DEF N, id, e
<1>6. id \notin N /\ N \cup {id} = 1..n + 1 /\ n + 1 \in Nat /\ 0 \notin N
  BY <1>2, <1>3
<1>7. /\ DOMAIN coreTasks' = N \cup {id} /\ coreTasks'[id] = e /\ \A x \in N : coreTasks'[x] = coreTasks[x]
      /\ coreTasks' \in [N \cup {id} -> CoreTaskRecord]
  <2>1. coreTasks' = [x \in N \cup {id} |-> IF x = id THEN e ELSE coreTasks[x]]
    BY <1>1 DEF With, N
  <2> QED BY <1>4, <1>5, <1>6, <2>1
<1>8. q \in Seq(N \cup {id}) /\ ToSet(q) = owedTasks \cup {id} /\ Unrepeated(q)
  <2>1. ToSet(taskQueue) \subseteq N
    BY <1>4 DEF ToSet
  <2>2. taskQueue \in Seq(N \cup {id})
    BY <1>4
  <2> QED BY <1>4, <1>6, <2>1, <2>2, AppendElements
<1> HIDE DEF q
<1>9. /\ taskQueue' \in Seq(N \cup {id}) /\ ToSet(taskQueue') = ToSet(q) /\ Unrepeated(taskQueue')
      /\ Ranked(taskQueue', coreTasks')
  <2>1. PICK tasks : tasks = coreTasks'
    OBVIOUS
  <2>2. DOMAIN tasks = N \cup {id} /\ \A x \in N \cup {id} : tasks[x].priority \in Nat
    <3>1. tasks \in [N \cup {id} -> CoreTaskRecord]
      BY <1>7, <2>1
    <3> QED BY <3>1, TasksRanked
  <2> QED BY <1>1, <1>8, <2>1, <2>2, SortedTasksIs
<1>10. Settled(coreTasks', taskQueue', doing', leftRunning')
  BY <1>1, <1>4, <1>5, <1>7, <1>8, <1>9 DEF Settled, N
<1>11. doing' \in [CoreAgentThreads -> N \cup {id} \cup {0}]
  BY <1>1, <1>4
<1>12. \E m \in Nat : DOMAIN coreTasks' = 1..m
  BY <1>6, <1>7
<1> QED BY <1>1, <1>7, <1>8, <1>9, <1>10, <1>11, <1>12 DEF TasksInv

LEMMA EnqueueCoreTaskKeeps ==
  ASSUME TasksInv, NEW id \in DOMAIN coreTasks, EnqueueCoreTask(id)
  PROVE  TasksInv'
<1> DEFINE N == DOMAIN coreTasks
           q == Append(taskQueue, id)
<1>1. /\ coreTasks' = coreTasks /\ owedTasks' = owedTasks \cup {id} /\ doing' = doing /\ leftRunning' = leftRunning
      /\ id \in ToSet(taskQueue) => taskQueue' = taskQueue
      /\ id \notin ToSet(taskQueue) => taskQueue' = SortedTasks(q, coreTasks)
  BY DEF EnqueueCoreTask
<1>2. /\ \E n \in Nat : N = 1..n
      /\ coreTasks \in [N -> CoreTaskRecord] /\ taskQueue \in Seq(N) /\ Unrepeated(taskQueue)
      /\ ToSet(taskQueue) = owedTasks /\ doing \in [CoreAgentThreads -> N \cup {0}]
      /\ Settled(coreTasks, taskQueue, doing, leftRunning) /\ Ranked(taskQueue, coreTasks)
  BY DEF TasksInv
<1>3. CASE id \in ToSet(taskQueue)
  <2>1. owedTasks' = owedTasks
    BY <1>1, <1>2, <1>3
  <2> QED BY <1>1, <1>2, <1>3, <2>1 DEF TasksInv
<1>4. CASE id \notin ToSet(taskQueue)
  <2> HIDE DEF N
  <2>1. q \in Seq(N) /\ ToSet(q) = owedTasks \cup {id} /\ Unrepeated(q) /\ id \in N
    BY <1>2, <1>4, AppendElements DEF N
  <2> HIDE DEF q
  <2>2. \A x \in N : coreTasks[x].priority \in Nat
    BY <1>2, TasksRanked
  <2>3. /\ taskQueue' \in Seq(N) /\ ToSet(taskQueue') = ToSet(q) /\ Unrepeated(taskQueue')
        /\ Ranked(taskQueue', coreTasks)
    BY <1>1, <1>4, <2>1, <2>2, SortedTasksIs DEF N
  <2>4. Settled(coreTasks, taskQueue', doing, leftRunning)
    BY <1>2, <2>1, <2>3 DEF Settled
  <2> QED BY <1>1, <1>2, <2>1, <2>3, <2>4 DEF TasksInv, N
<1> QED BY <1>3, <1>4

\* The head of a vector is not in the rest of it
LEMMA HeadGone ==
  ASSUME NEW S, NEW s \in Seq(S), s # <<>>, Unrepeated(s)
  PROVE  /\ Head(s) \in S /\ Tail(s) \in Seq(S) /\ Unrepeated(Tail(s)) /\ ToSet(Tail(s)) = ToSet(s) \ {Head(s)}
         /\ Head(s) \in ToSet(s)
         /\ \A i \in DOMAIN Tail(s) : i + 1 \in DOMAIN s /\ Tail(s)[i] = s[i + 1]
<1> DEFINE n == Len(s)
           r == Tail(s)
           h == Head(s)
<1>1. /\ n \in Nat /\ n > 0 /\ DOMAIN s = 1..n /\ r \in Seq(S) /\ DOMAIN r = 1..n - 1 /\ h = s[1] /\ h \in S
      /\ \A i \in 1..n - 1 : r[i] = s[i + 1]
  OBVIOUS
<1> HIDE DEF n, r, h
<1>2. \A i \in DOMAIN r : i + 1 \in DOMAIN s /\ r[i] = s[i + 1]
  BY <1>1
<1>3. Unrepeated(r)
  <2> SUFFICES ASSUME NEW i \in DOMAIN r, NEW j \in DOMAIN r, r[i] = r[j] PROVE i = j
    BY DEF Unrepeated
  <2>1. i + 1 = j + 1
    BY <1>2 DEF Unrepeated
  <2> QED BY <1>1, <2>1
<1>4. ASSUME NEW x PROVE x \in ToSet(r) <=> x \in ToSet(s) \ {h}
  <2>1. ASSUME NEW i \in DOMAIN r, x = r[i] PROVE x \in ToSet(s) \ {h}
    <3>1. x = s[i + 1] /\ i + 1 \in DOMAIN s /\ i + 1 # 1 /\ 1 \in DOMAIN s
      BY <1>1, <1>2, <2>1
    <3>2. s[i + 1] # s[1]
      BY <3>1 DEF Unrepeated
    <3> QED BY <1>1, <3>1, <3>2 DEF ToSet
  <2>2. ASSUME NEW i \in DOMAIN s, x = s[i], x # h PROVE x \in ToSet(r)
    <3>1. i - 1 \in DOMAIN r /\ (i - 1) + 1 = i
      BY <1>1, <2>2
    <3>2. r[i - 1] = x
      BY <1>2, <2>2, <3>1
    <3> QED BY <3>1, <3>2 DEF ToSet
  <2> QED BY <2>1, <2>2 DEF ToSet
<1>5. h \in ToSet(s)
  BY <1>1 DEF ToSet
<1> QED BY <1>1, <1>2, <1>3, <1>4, <1>5 DEF r, h

\* A task's status is stored
Restated(tasks, id, result) == [tasks EXCEPT ![id].status = result]

LEMMA StatusStored ==
  ASSUME NEW N, NEW tasks \in [N -> CoreTaskRecord], NEW id \in N, NEW result, result \in {"PENDING", "RUNNING"} \cup TaskEnded
  PROVE  /\ Restated(tasks, id, result) \in [N -> CoreTaskRecord] /\ Restated(tasks, id, result)[id].status = result
         /\ \A x \in N : Restated(tasks, id, result)[x].priority = tasks[x].priority
         /\ \A x \in N \ {id} : Restated(tasks, id, result)[x] = tasks[x]
<1> DEFINE after == Restated(tasks, id, result)
           e == [tasks[id] EXCEPT !.status = result]
<1>1. e \in CoreTaskRecord /\ e.priority = tasks[id].priority /\ e.status = result
  <2>1. tasks[id] \in CoreTaskRecord
    OBVIOUS
  <2> QED BY <2>1 DEF CoreTaskRecord
<1>2. after = [tasks EXCEPT ![id] = e]
  BY DEF Restated
<1> HIDE DEF e, after
<1>3. \A x \in N : after[x] = IF x = id THEN e ELSE tasks[x]
  BY <1>2
<1>4. after \in [N -> CoreTaskRecord]
  BY <1>1, <1>2
<1> QED BY <1>1, <1>3, <1>4 DEF after

LEMMA StartCoreTaskKeeps ==
  ASSUME TasksInv, NEW t \in CoreAgentThreads, StartCoreTask(t)
  PROVE  TasksInv'
<1> DEFINE N == DOMAIN coreTasks
           id == Head(taskQueue)
<1>1. /\ coreTasks' = Restated(coreTasks, id, "RUNNING") /\ doing' = [doing EXCEPT ![t] = id]
      /\ owedTasks' = owedTasks \ {id} /\ taskQueue' = Tail(taskQueue) /\ doing[t] = 0 /\ taskQueue # <<>>
      /\ leftRunning' = leftRunning \ {id}
  BY DEF StartCoreTask, Restated
<1>2. /\ \E n \in Nat : N = 1..n
      /\ coreTasks \in [N -> CoreTaskRecord] /\ taskQueue \in Seq(N) /\ Unrepeated(taskQueue)
      /\ ToSet(taskQueue) = owedTasks /\ doing \in [CoreAgentThreads -> N \cup {0}]
      /\ Settled(coreTasks, taskQueue, doing, leftRunning) /\ Ranked(taskQueue, coreTasks)
  BY DEF TasksInv
<1> HIDE DEF N
<1>3. /\ id \in N /\ taskQueue' \in Seq(N) /\ Unrepeated(taskQueue')
      /\ ToSet(taskQueue') = ToSet(taskQueue) \ {id}
      /\ \A i \in DOMAIN taskQueue' : i + 1 \in DOMAIN taskQueue /\ taskQueue'[i] = taskQueue[i + 1]
  BY <1>1, <1>2, HeadGone
<1> HIDE DEF id
<1>4. /\ coreTasks' \in [N -> CoreTaskRecord] /\ coreTasks'[id].status = "RUNNING"
      /\ \A x \in N : coreTasks'[x].priority = coreTasks[x].priority
      /\ \A x \in N \ {id} : coreTasks'[x] = coreTasks[x]
  <2>1. coreTasks \in [N -> CoreTaskRecord]
    BY <1>2
  <2>2. "RUNNING" \in {"PENDING", "RUNNING"} \cup TaskEnded
    OBVIOUS
  <2> QED BY <1>1, <1>3, <2>1, <2>2, StatusStored
<1>5. Ranked(taskQueue', coreTasks')
  <2> SUFFICES ASSUME NEW i \in DOMAIN taskQueue', NEW j \in DOMAIN taskQueue', i < j
               PROVE  coreTasks'[taskQueue'[i]].priority <= coreTasks'[taskQueue'[j]].priority
    BY DEF Ranked
  <2>1. i + 1 < j + 1 /\ i + 1 \in DOMAIN taskQueue /\ j + 1 \in DOMAIN taskQueue
    BY <1>3
  <2>2. coreTasks[taskQueue[i + 1]].priority <= coreTasks[taskQueue[j + 1]].priority
    BY <1>2, <2>1 DEF Ranked
  <2>3. taskQueue[i + 1] \in N /\ taskQueue[j + 1] \in N
    BY <1>2, <2>1
  <2> QED BY <1>3, <1>4, <2>2, <2>3
<1>6. /\ doing' \in [CoreAgentThreads -> N \cup {0}] /\ doing'[t] = id
      /\ \A u \in CoreAgentThreads \ {t} : doing'[u] = doing[u]
  BY <1>1, <1>2, <1>3
<1>7. 0 \notin N
  BY <1>2
<1>8. Settled(coreTasks', taskQueue', doing', leftRunning')
  <2>1. DOMAIN coreTasks = N /\ DOMAIN coreTasks' = N
    BY <1>2, <1>4
  <2>2. /\ \A x \in N \ leftRunning :
              x \notin ToSet(taskQueue) /\ (\A u \in CoreAgentThreads : doing[u] # x) => coreTasks[x].status \in TaskEnded
        /\ \A x \in N \ leftRunning : coreTasks[x].status = "RUNNING" => \E u \in CoreAgentThreads : doing[u] = x
    BY <1>2, <2>1 DEF Settled
  <2>3. \A x \in N \ leftRunning' : x = id \/ (x # id /\ x \in N \ leftRunning)
    BY <1>1
  <2>4. \A x \in N \ {id} : \A u \in CoreAgentThreads : doing[u] = x => doing'[u] = x
    BY <1>1, <1>6, <1>7
  <2>5. ASSUME NEW x \in N \ leftRunning', x \notin ToSet(taskQueue'), \A u \in CoreAgentThreads : doing'[u] # x
        PROVE  coreTasks'[x].status \in TaskEnded
    <3>1. x # id /\ x \in N \ leftRunning /\ x \notin ToSet(taskQueue)
      BY <1>3, <1>6, <2>3, <2>5
    <3> QED BY <1>4, <2>2, <2>4, <2>5, <3>1
  <2>6. ASSUME NEW x \in N \ leftRunning', coreTasks'[x].status = "RUNNING" PROVE \E u \in CoreAgentThreads : doing'[u] = x
    <3>1. CASE x = id
      BY <1>6, <3>1
    <3>2. CASE x # id /\ x \in N \ leftRunning
      BY <1>4, <2>2, <2>4, <2>6, <3>2
    <3> QED BY <2>3, <3>1, <3>2
  <2> QED BY <2>1, <2>5, <2>6 DEF Settled
<1>9. DOMAIN coreTasks' = N /\ ToSet(taskQueue') = owedTasks'
  BY <1>1, <1>2, <1>3, <1>4
<1> QED BY <1>2, <1>3, <1>4, <1>5, <1>6, <1>8, <1>9 DEF TasksInv

LEMMA FinishCoreTaskKeeps ==
  ASSUME TasksInv, NEW t \in CoreAgentThreads, NEW result \in TaskEnded, FinishCoreTask(t, result)
  PROVE  TasksInv'
<1> DEFINE N == DOMAIN coreTasks
           id == doing[t]
<1>1. /\ coreTasks' = Restated(coreTasks, id, result) /\ doing' = [doing EXCEPT ![t] = 0]
      /\ owedTasks' = owedTasks /\ taskQueue' = taskQueue /\ id # 0 /\ leftRunning' = leftRunning \ {id}
  BY DEF FinishCoreTask, StoreStatus, Restated
<1>2. /\ \E n \in Nat : N = 1..n
      /\ coreTasks \in [N -> CoreTaskRecord] /\ taskQueue \in Seq(N) /\ Unrepeated(taskQueue)
      /\ ToSet(taskQueue) = owedTasks /\ doing \in [CoreAgentThreads -> N \cup {0}]
      /\ Settled(coreTasks, taskQueue, doing, leftRunning) /\ Ranked(taskQueue, coreTasks)
  BY DEF TasksInv
<1>3. id \in N /\ 0 \notin N
  BY <1>1, <1>2
<1> HIDE DEF N
<1>4. /\ coreTasks' \in [N -> CoreTaskRecord] /\ coreTasks'[id].status = result
      /\ \A x \in N : coreTasks'[x].priority = coreTasks[x].priority
      /\ \A x \in N \ {id} : coreTasks'[x] = coreTasks[x]
  <2> HIDE DEF id
  <2>1. coreTasks \in [N -> CoreTaskRecord]
    BY <1>2
  <2>2. result \in {"PENDING", "RUNNING"} \cup TaskEnded
    OBVIOUS
  <2> QED BY <1>1, <1>3, <2>1, <2>2, StatusStored
<1>5. Ranked(taskQueue', coreTasks')
  <2> SUFFICES ASSUME NEW i \in DOMAIN taskQueue, NEW j \in DOMAIN taskQueue, i < j
               PROVE  coreTasks'[taskQueue[i]].priority <= coreTasks'[taskQueue[j]].priority
    BY <1>1 DEF Ranked
  <2>1. taskQueue[i] \in N /\ taskQueue[j] \in N
    BY <1>2
  <2> QED BY <1>2, <1>4, <2>1 DEF Ranked
<1>6. /\ doing' \in [CoreAgentThreads -> N \cup {0}] /\ doing'[t] = 0
      /\ \A u \in CoreAgentThreads \ {t} : doing'[u] = doing[u]
  BY <1>1, <1>2
<1>7. Settled(coreTasks', taskQueue', doing', leftRunning')
  <2>1. DOMAIN coreTasks = N /\ DOMAIN coreTasks' = N /\ "RUNNING" \notin TaskEnded
    BY <1>2, <1>4 DEF TaskEnded
  <2>2. /\ \A x \in N \ leftRunning :
              x \notin ToSet(taskQueue) /\ (\A u \in CoreAgentThreads : doing[u] # x) => coreTasks[x].status \in TaskEnded
        /\ \A x \in N \ leftRunning : coreTasks[x].status = "RUNNING" => \E u \in CoreAgentThreads : doing[u] = x
    BY <1>2, <2>1 DEF Settled
  <2>3. \A x \in N \ leftRunning' : x = id \/ x \in N \ leftRunning
    BY <1>1
  <2>4. ASSUME NEW x \in N \ leftRunning', x \notin ToSet(taskQueue), \A u \in CoreAgentThreads : doing'[u] # x
        PROVE  coreTasks'[x].status \in TaskEnded
    BY <1>4, <1>6, <2>2, <2>3, <2>4
  <2>5. ASSUME NEW x \in N \ leftRunning', coreTasks'[x].status = "RUNNING" PROVE \E u \in CoreAgentThreads : doing'[u] = x
    BY <1>4, <1>6, <2>1, <2>2, <2>3, <2>5
  <2> QED BY <1>1, <2>1, <2>4, <2>5 DEF Settled
<1>8. DOMAIN coreTasks' = N
  BY <1>4
<1> QED BY <1>1, <1>2, <1>4, <1>5, <1>6, <1>7, <1>8 DEF TasksInv

LEMMA EscapeCoreTaskKeeps ==
  ASSUME TasksInv, NEW t \in CoreAgentThreads, EscapeCoreTask(t)
  PROVE  TasksInv'
<1>1. /\ coreTasks' = coreTasks /\ taskQueue' = taskQueue /\ owedTasks' = owedTasks
      /\ doing' = [doing EXCEPT ![t] = 0] /\ leftRunning' = leftRunning \cup {doing[t]}
  BY DEF EscapeCoreTask
<1>2. doing \in [CoreAgentThreads -> DOMAIN coreTasks \cup {0}] /\ Settled(coreTasks, taskQueue, doing, leftRunning)
  BY DEF TasksInv
<1>3. /\ doing' \in [CoreAgentThreads -> DOMAIN coreTasks \cup {0}]
      /\ \A u \in CoreAgentThreads \ {t} : doing'[u] = doing[u]
  BY <1>1, <1>2
<1>4. \A x \in DOMAIN coreTasks \ leftRunning' : doing[t] # x /\ x \in DOMAIN coreTasks \ leftRunning
  BY <1>1
<1>5. Settled(coreTasks, taskQueue, doing', leftRunning')
  BY <1>2, <1>3, <1>4 DEF Settled
<1> QED BY <1>1, <1>3, <1>5 DEF TasksInv, Ranked

LEMMA RewiredKeepsTasks ==
  ASSUME TasksInv, AgentRewired
  PROVE  TasksInv'
<1>1. /\ coreTasks' = <<>> /\ taskQueue' = <<>> /\ owedTasks' = {} /\ doing' = doing
      /\ \A t \in CoreAgentThreads : doing[t] = 0
  BY DEF AgentRewired
<1>2. doing \in [CoreAgentThreads -> DOMAIN coreTasks \cup {0}]
  BY DEF TasksInv
<1>3. DOMAIN coreTasks' = {} /\ DOMAIN coreTasks' = 1..0
  BY <1>1
<1>4. taskQueue' \in Seq(DOMAIN coreTasks') /\ DOMAIN taskQueue' = {} /\ ToSet(taskQueue') = {}
  BY <1>1 DEF ToSet
<1>5. coreTasks' \in [DOMAIN coreTasks' -> CoreTaskRecord]
  BY <1>1, <1>3
<1>6. doing' \in [CoreAgentThreads -> DOMAIN coreTasks' \cup {0}]
  BY <1>1, <1>2
<1>7. Unrepeated(taskQueue') /\ Ranked(taskQueue', coreTasks')
  BY <1>4 DEF Unrepeated, Ranked
<1>8. Settled(coreTasks', taskQueue', doing', leftRunning')
  BY <1>3 DEF Settled
<1> QED BY <1>1, <1>3, <1>4, <1>5, <1>6, <1>7, <1>8 DEF TasksInv

LEMMA TasksUntouched ==
  ASSUME TasksInv, UNCHANGED coreTaskState
  PROVE  TasksInv'
BY DEF TasksInv, coreTaskState, Settled, Ranked

LEMMA TasksAtFirst == CoreAgentInit => TasksInv
<1> SUFFICES ASSUME CoreAgentInit PROVE TasksInv
  OBVIOUS
<1>1. coreTasks = <<>> /\ taskQueue = <<>> /\ owedTasks = {} /\ doing = [t \in CoreAgentThreads |-> 0]
  BY DEF CoreAgentInit
<1>2. DOMAIN coreTasks = {} /\ DOMAIN coreTasks = 1..0
  BY <1>1
<1>3. taskQueue \in Seq(DOMAIN coreTasks) /\ DOMAIN taskQueue = {} /\ ToSet(taskQueue) = {}
  BY <1>1 DEF ToSet
<1>4. coreTasks \in [DOMAIN coreTasks -> CoreTaskRecord]
  BY <1>1, <1>2
<1>5. doing \in [CoreAgentThreads -> DOMAIN coreTasks \cup {0}]
  BY <1>1
<1>6. Unrepeated(taskQueue) /\ Ranked(taskQueue, coreTasks)
  BY <1>3 DEF Unrepeated, Ranked
<1>7. Settled(coreTasks, taskQueue, doing, leftRunning)
  BY <1>2 DEF Settled
<1> QED BY <1>1, <1>2, <1>3, <1>4, <1>5, <1>6, <1>7 DEF TasksInv

LEMMA TasksInductive == TasksInv /\ [CoreAgentNext]_coreAgentVars => TasksInv'
<1> SUFFICES ASSUME TasksInv, [CoreAgentNext]_coreAgentVars PROVE TasksInv'
  OBVIOUS
<1>1. ASSUME NEW p \in TaskPriorities, CreateCoreTask(p) PROVE TasksInv'
  BY <1>1, CreateCoreTaskKeeps
<1>2. ASSUME NEW id \in DOMAIN coreTasks, EnqueueCoreTask(id) PROVE TasksInv'
  BY <1>2, EnqueueCoreTaskKeeps
<1>3. ASSUME NEW t \in CoreAgentThreads, CoreTaskStep(t) PROVE TasksInv'
  <2>1. ASSUME StartCoreTask(t) PROVE TasksInv'
    BY <2>1, StartCoreTaskKeeps
  <2>2. ASSUME NEW result \in TaskEnded, FinishCoreTask(t, result) PROVE TasksInv'
    BY <2>2, FinishCoreTaskKeeps
  <2>3. ASSUME EscapeCoreTask(t) PROVE TasksInv'
    BY <2>3, EscapeCoreTaskKeeps
  <2> QED BY <1>3, <2>1, <2>2, <2>3 DEF CoreTaskStep, CoreTaskReturns
<1>4. ASSUME AddCorePercept \/ BeginCoreCycle \/ CorePerceives \/ EndCoreCycle PROVE UNCHANGED coreTaskState
  BY <1>4 DEF AddCorePercept, BeginCoreCycle, CorePerceives, EndCoreCycle
<1>5. ASSUME NEW t, CycleByHand(t) \/ EndCycleByHand(t) PROVE UNCHANGED coreTaskState
  BY <1>5 DEF CycleByHand, EndCycleByHand
<1>6. ASSUME StartAgent \/ StopAgent \/ SetAtomSpace \/ AgentStarted \/ AgentStopped PROVE UNCHANGED coreTaskState
  BY <1>6 DEF StartAgent, StopAgent, SetAtomSpace, AgentStarted, AgentStopped
<1>7. ASSUME UNCHANGED coreAgentVars PROVE UNCHANGED coreTaskState
  BY <1>7 DEF coreAgentVars
<1>8. ASSUME UNCHANGED coreTaskState PROVE TasksInv'
  BY <1>8, TasksUntouched
<1>9. ASSUME AgentRewired PROVE TasksInv'
  BY <1>9, RewiredKeepsTasks
<1>10. CASE CoreAgentNext
  <2>1. CASE CoreCallerStep
    BY <2>1, <1>1, <1>2, <1>4, <1>8 DEF CoreCallerStep
  <2>2. CASE CoreLoopStep
    BY <2>2, <1>3, <1>4, <1>8 DEF CoreLoopStep, CoreAgentThreads
  <2>3. CASE CoreOwnerStep
    BY <2>3, <1>6, <1>8, <1>9 DEF CoreOwnerStep, CoreJoinStep
  <2>4. CASE CoreHandStep
    BY <2>4, <1>3, <1>5, <1>8 DEF CoreHandStep, CoreAgentThreads
  <2> QED BY <1>10, <2>1, <2>2, <2>3, <2>4 DEF CoreAgentNext
<1> QED BY <1>7, <1>8, <1>10

\* TaskManager's queue holds what was accepted and not called since, once each, by priority,
\* and no task is left over that neither waits, runs nor has ended, but for those whose action
\* threw no std::exception (leftRunning): createTask, enqueueTask, executeNext and its two
\* sections, for any number of tasks and threads.
THEOREM CoreTasksKept == CoreAgentSpec => []CoreTasksAreKept
<1>1. CoreAgentSpec => []TasksInv
  BY TasksAtFirst, TasksInductive, PTL DEF CoreAgentSpec
<1> QED BY <1>1, TasksInvSuffices, PTL

(***************************************************************************)
(* The loop                                                                *)
(***************************************************************************)
Counted(s, n) == s = [i \in 1..n |-> i]

PerceptsInv ==
  /\ corePercepts \in Seq(Nat) /\ seen \in Seq(Nat) /\ offered \in Nat
  /\ Counted(seen \o corePercepts, offered)

LoopInv ==
  /\ doing[CoreLoop] # 0 => loopAt = "acting"
  /\ loopOn /\ LoopJoinable => ownerAt = "starting"
  /\ ownerAt \in {"stopping", "rewiring"} => ~loopOn

LEMMA LoopInvSuffices == PerceptsInv /\ LoopInv => CoreLoopIsSound
BY DEF PerceptsInv, LoopInv, CoreLoopIsSound, Counted

LEMMA Joined ==
  ASSUME NEW s \in Seq(Nat), NEW p \in Seq(Nat)
  PROVE  /\ s \o p \in Seq(Nat) /\ Len(s \o p) = Len(s) + Len(p)
         /\ \A i \in 1..Len(s \o p) : (s \o p)[i] = IF i <= Len(s) THEN s[i] ELSE p[i - Len(s)]
OBVIOUS

LEMMA CountedOn ==
  ASSUME NEW n \in Nat, NEW s \in Seq(Nat), NEW p \in Seq(Nat), Counted(s \o p, n)
  PROVE  Counted(s \o Append(p, n + 1), n + 1)
<1> DEFINE whole == s \o p
           q == Append(p, n + 1)
           longer == s \o q
<1>1. whole = [i \in 1..n |-> i]
  BY DEF Counted
<1>2. /\ whole \in Seq(Nat) /\ Len(whole) = Len(s) + Len(p)
      /\ \A i \in 1..Len(whole) : whole[i] = IF i <= Len(s) THEN s[i] ELSE p[i - Len(s)]
  BY Joined
<1>3. q \in Seq(Nat) /\ Len(q) = Len(p) + 1 /\ q[Len(p) + 1] = n + 1 /\ \A i \in 1..Len(p) : q[i] = p[i]
  OBVIOUS
<1>4. Len(s) \in Nat /\ Len(p) \in Nat /\ n = Len(s) + Len(p) /\ \A i \in 1..n : whole[i] = i
  <2>1. Len(whole) = n
    BY <1>1
  <2> QED BY <1>1, <1>2, <2>1
<1> HIDE DEF q, whole
<1>5. /\ longer \in Seq(Nat) /\ Len(longer) = Len(s) + Len(q)
      /\ \A i \in 1..Len(longer) : longer[i] = IF i <= Len(s) THEN s[i] ELSE q[i - Len(s)]
  BY <1>3, Joined
<1> HIDE DEF longer
<1>6. ASSUME NEW i \in 1..(n + 1) PROVE longer[i] = i
  <2> i \in Nat /\ i >= 1 /\ i <= n + 1
    BY <1>4
  <2>1. CASE i <= Len(s)
    <3>1. i \in 1..Len(longer) /\ i \in 1..Len(whole) /\ i \in 1..n
      BY <2>1, <1>2, <1>3, <1>4, <1>5
    <3> QED BY <2>1, <3>1, <1>2, <1>4, <1>5
  <2>2. CASE i > Len(s) /\ i <= n
    <3> DEFINE k == i - Len(s)
    <3>1. k \in 1..Len(p) /\ i \in 1..Len(longer) /\ i \in 1..Len(whole) /\ ~(i <= Len(s))
      BY <2>2, <1>2, <1>3, <1>4, <1>5
    <3>2. longer[i] = q[k] /\ whole[i] = p[k]
      BY <3>1, <1>2, <1>5
    <3>3. q[k] = p[k]
      BY <3>1, <1>3
    <3> QED BY <3>2, <3>3, <1>4, <2>2
  <2>3. CASE i = n + 1
    <3>1. i - Len(s) = Len(p) + 1 /\ i \in 1..Len(longer) /\ ~(i <= Len(s))
      BY <2>3, <1>3, <1>4, <1>5
    <3>2. longer[i] = q[Len(p) + 1]
      BY <3>1, <1>5
    <3> QED BY <3>2, <1>3, <2>3
  <2> QED BY <2>1, <2>2, <2>3, <1>4
<1>7. Len(longer) = n + 1
  BY <1>3, <1>4, <1>5
<1>8. longer = [i \in 1..(n + 1) |-> longer[i]]
  BY <1>5, <1>7
<1>9. longer = [i \in 1..(n + 1) |-> i]
  BY <1>6, <1>8
<1> QED BY <1>9 DEF Counted, longer, q

LEMMA PerceptsInductive == PerceptsInv /\ [CoreAgentNext]_coreAgentVars => PerceptsInv'
<1> SUFFICES ASSUME PerceptsInv, [CoreAgentNext]_coreAgentVars PROVE PerceptsInv'
  OBVIOUS
<1>1. ASSUME AddCorePercept PROVE PerceptsInv'
  <2>1. offered' = offered + 1 /\ corePercepts' = Append(corePercepts, offered + 1) /\ seen' = seen
    BY <1>1 DEF AddCorePercept
  <2>2. offered' \in Nat /\ corePercepts' \in Seq(Nat) /\ seen' \in Seq(Nat)
    BY <2>1 DEF PerceptsInv
  <2>3. Counted(seen \o Append(corePercepts, offered + 1), offered + 1)
    BY CountedOn DEF PerceptsInv
  <2> QED BY <2>1, <2>2, <2>3 DEF PerceptsInv
<1>2. ASSUME EncodeBatch PROVE PerceptsInv'
  <2>1. offered' = offered /\ corePercepts' = <<>> /\ seen' = seen \o corePercepts
    BY <1>2 DEF EncodeBatch
  <2>2. seen' \in Seq(Nat) /\ corePercepts' \in Seq(Nat) /\ seen' \o <<>> = seen'
    BY <2>1 DEF PerceptsInv
  <2> QED BY <2>1, <2>2 DEF PerceptsInv
<1>3. ASSUME AgentRewired PROVE PerceptsInv'
  <2>1. offered' = 0 /\ corePercepts' = <<>> /\ seen' = <<>>
    BY <1>3 DEF AgentRewired
  <2>2. <<>> \o <<>> = [i \in 1..0 |-> i]
    OBVIOUS
  <2> QED BY <2>1, <2>2 DEF PerceptsInv, Counted
<1>4. ASSUME UNCHANGED perceptState PROVE PerceptsInv'
  BY <1>4 DEF PerceptsInv, perceptState
<1>5. ASSUME NEW p \in TaskPriorities, CreateCoreTask(p) PROVE UNCHANGED perceptState
  BY <1>5 DEF CreateCoreTask
<1>6. ASSUME NEW id \in DOMAIN coreTasks, EnqueueCoreTask(id) PROVE UNCHANGED perceptState
  BY <1>6 DEF EnqueueCoreTask
<1>7. ASSUME NEW t, CoreTaskStep(t) PROVE UNCHANGED perceptState
  BY <1>7 DEF CoreTaskStep, CoreTaskReturns, StartCoreTask, FinishCoreTask, EscapeCoreTask
<1>8. ASSUME BeginCoreCycle \/ EndCoreCycle PROVE UNCHANGED perceptState
  BY <1>8 DEF BeginCoreCycle, EndCoreCycle
<1>9. ASSUME StartAgent \/ StopAgent \/ SetAtomSpace \/ AgentStarted \/ AgentStopped PROVE UNCHANGED perceptState
  BY <1>9 DEF StartAgent, StopAgent, SetAtomSpace, AgentStarted, AgentStopped
<1>10. ASSUME UNCHANGED coreAgentVars PROVE UNCHANGED perceptState
  BY <1>10 DEF coreAgentVars
<1>11. ASSUME NEW t, CycleByHand(t) \/ EndCycleByHand(t) PROVE EncodeBatch \/ UNCHANGED perceptState
  BY <1>11 DEF CycleByHand, EndCycleByHand
<1>12. ASSUME CorePerceives PROVE EncodeBatch
  BY <1>12 DEF CorePerceives
<1>13. CASE CoreAgentNext
  <2>1. CASE CoreCallerStep
    BY <2>1, <1>1, <1>4, <1>5, <1>6 DEF CoreCallerStep
  <2>2. CASE CoreLoopStep
    BY <2>2, <1>2, <1>4, <1>7, <1>8, <1>12 DEF CoreLoopStep
  <2>3. CASE CoreOwnerStep
    BY <2>3, <1>3, <1>4, <1>9 DEF CoreOwnerStep, CoreJoinStep
  <2>4. CASE CoreHandStep
    BY <2>4, <1>2, <1>4, <1>7, <1>11 DEF CoreHandStep
  <2> QED BY <1>13, <2>1, <2>2, <2>3, <2>4 DEF CoreAgentNext
<1> QED BY <1>4, <1>10, <1>13

LEMMA LoopInductive == TasksInv /\ LoopInv /\ [CoreAgentNext]_coreAgentVars => LoopInv'
<1> SUFFICES ASSUME TasksInv, LoopInv, [CoreAgentNext]_coreAgentVars PROVE LoopInv'
  OBVIOUS
<1> USE DEF LoopInv, LoopJoinable
<1>1. ASSUME UNCHANGED <<doing, ownerState, loopAt>> PROVE LoopInv'
  BY <1>1 DEF ownerState
<1>2. ASSUME NEW p \in TaskPriorities, CreateCoreTask(p) PROVE LoopInv'
  BY <1>1, <1>2 DEF CreateCoreTask
<1>3. ASSUME NEW id \in DOMAIN coreTasks, EnqueueCoreTask(id) PROVE LoopInv'
  BY <1>1, <1>3 DEF EnqueueCoreTask
<1>4. ASSUME AddCorePercept PROVE LoopInv'
  BY <1>1, <1>4 DEF AddCorePercept, coreTaskState
<1>5. ASSUME NEW t \in CoreAgentThreads, CoreTaskStep(t) PROVE LoopInv'
  <2>1. doing \in [CoreAgentThreads -> DOMAIN coreTasks \cup {0}] /\ CoreLoop \in CoreAgentThreads
    BY DEF TasksInv, CoreAgentThreads
  <2>2. UNCHANGED <<ownerState, loopAt>>
    BY <1>5 DEF CoreTaskStep, CoreTaskReturns, StartCoreTask, FinishCoreTask, EscapeCoreTask
  <2>3. ASSUME StartCoreTask(t) PROVE doing'[CoreLoop] # 0 => loopAt = "acting"
    <3>1. PICK id : doing' = [doing EXCEPT ![t] = id]
      BY <2>3 DEF StartCoreTask
    <3>2. t = CoreLoop => loopAt = "acting"
      BY <2>3 DEF StartCoreTask
    <3> QED BY <2>1, <3>1, <3>2
  <2>4. ASSUME NEW result \in TaskEnded, FinishCoreTask(t, result) PROVE doing'[CoreLoop] # 0 => loopAt = "acting"
    <3>1. doing' = [doing EXCEPT ![t] = 0]
      BY <2>4 DEF FinishCoreTask
    <3> QED BY <2>1, <3>1
  <2>5. ASSUME EscapeCoreTask(t) PROVE doing'[CoreLoop] # 0 => loopAt = "acting"
    <3>1. doing' = [doing EXCEPT ![t] = 0]
      BY <2>5 DEF EscapeCoreTask
    <3> QED BY <2>1, <3>1
  <2>6. doing'[CoreLoop] # 0 => loopAt = "acting"
    BY <1>5, <2>3, <2>4, <2>5 DEF CoreTaskStep, CoreTaskReturns
  <2> QED BY <2>2, <2>6 DEF ownerState
<1>6. ASSUME BeginCoreCycle PROVE LoopInv'
  BY <1>6 DEF BeginCoreCycle, coreTaskState
<1>7. ASSUME CorePerceives PROVE LoopInv'
  BY <1>7 DEF CorePerceives, coreTaskState, ownerState
<1>8. ASSUME EndCoreCycle PROVE LoopInv'
  BY <1>8 DEF EndCoreCycle, ReflectOnCycle, coreTaskState, ownerState
<1>9. ASSUME StartAgent PROVE LoopInv'
  BY <1>9 DEF StartAgent, OwnerIsFree, coreTaskState
<1>10. ASSUME StopAgent PROVE LoopInv'
  BY <1>10 DEF StopAgent, SignalStop, coreTaskState
<1>11. ASSUME SetAtomSpace PROVE LoopInv'
  BY <1>11 DEF SetAtomSpace, SignalStop, coreTaskState
<1>12. ASSUME AgentStarted PROVE LoopInv'
  BY <1>12 DEF AgentStarted, coreTaskState
<1>13. ASSUME AgentStopped PROVE LoopInv'
  BY <1>13 DEF AgentStopped, coreTaskState
<1>14. ASSUME AgentRewired PROVE LoopInv'
  BY <1>14 DEF AgentRewired
<1>15. ASSUME UNCHANGED coreAgentVars PROVE LoopInv'
  BY <1>1, <1>15 DEF coreAgentVars, coreTaskState
<1> HIDE DEF LoopInv, LoopJoinable
<1>16. ASSUME NEW t, CycleByHand(t) \/ EndCycleByHand(t) PROVE UNCHANGED <<doing, ownerState, loopAt>>
  BY <1>16 DEF CycleByHand, EndCycleByHand, coreTaskState
<1>17. CASE CoreAgentNext
  <2>1. CASE CoreCallerStep
    BY <2>1, <1>2, <1>3, <1>4 DEF CoreCallerStep
  <2>2. CASE CoreLoopStep
    BY <2>2, <1>5, <1>6, <1>7, <1>8 DEF CoreLoopStep, CoreAgentThreads
  <2>3. CASE CoreOwnerStep
    BY <2>3, <1>9, <1>10, <1>11, <1>12, <1>13, <1>14 DEF CoreOwnerStep, CoreJoinStep
  <2>4. CASE CoreHandStep
    BY <2>4, <1>1, <1>5, <1>16 DEF CoreHandStep, CoreAgentThreads
  <2> QED BY <1>17, <2>1, <2>2, <2>3, <2>4 DEF CoreAgentNext
<1> QED BY <1>15, <1>17

LEMMA LoopAtFirst == CoreAgentInit => PerceptsInv /\ LoopInv
<1> SUFFICES ASSUME CoreAgentInit PROVE PerceptsInv /\ LoopInv
  OBVIOUS
<1>1. <<>> \o <<>> = [i \in 1..0 |-> i]
  OBVIOUS
<1>2. PerceptsInv
  BY <1>1 DEF CoreAgentInit, PerceptsInv, Counted
<1>3. LoopInv
  BY DEF CoreAgentInit, LoopInv, CoreAgentThreads
<1> QED BY <1>2, <1>3

\* CognitiveLoop perceives what it was given, in order and once, across stops and starts, and
\* AgentZeroCore::start, stop and setAtomSpace never leave a loop's flag raised with its
\* thread joined, but while start waits to replace that thread.
THEOREM CoreLoopSound == CoreAgentSpec => []CoreLoopIsSound
<1>1. CoreAgentInit => TasksInv /\ PerceptsInv /\ LoopInv
  BY TasksAtFirst, LoopAtFirst
<1>2. (TasksInv /\ PerceptsInv /\ LoopInv) /\ [CoreAgentNext]_coreAgentVars => (TasksInv /\ PerceptsInv /\ LoopInv)'
  BY TasksInductive, PerceptsInductive, LoopInductive
<1>3. TasksInv /\ PerceptsInv /\ LoopInv => CoreLoopIsSound
  BY LoopInvSuffices
<1> QED BY <1>1, <1>2, <1>3, PTL DEF CoreAgentSpec

(***************************************************************************)
(* The core as a whole                                                     *)
(***************************************************************************)
\* The core loses nothing it has accepted and does nothing twice, for any interleaving of its
\* threads, callers and owner, and whatever status callbacks return: executor and scheduler
\* with actions, loop and task manager with percepts and tasks.  And what its results say,
\* PENDING or RUNNING, is so, with the two exceptions the code has: an action whose callback
\* returned one of the two (ActionExecutor.cpp:195) and a task whose action threw no
\* std::exception on a thread beside the loop (TaskManager.cpp:164), both until next executed.
THEOREM CoreStaysSound == AgentCoreSpec => []CoreIsSound
<1>1. AgentCoreInit => CoreInit /\ CoreAgentInit
  BY DEF AgentCoreInit
<1>2. [AgentCoreNext]_agentCoreVars => [CoreNext]_coreVars /\ [CoreAgentNext]_coreAgentVars
  BY DEF AgentCoreNext, agentCoreVars
<1>3. AgentCoreSpec => CoreSpec /\ CoreAgentSpec
  BY <1>1, <1>2, PTL DEF AgentCoreSpec, CoreSpec, CoreAgentSpec
<1>4. ActionsAreKept /\ CoreTasksAreKept /\ CoreLoopIsSound => CoreIsSound
  BY DEF CoreIsSound
<1> QED BY <1>3, <1>4, ActionsKept, CoreTasksKept, CoreLoopSound, PTL
=============================================================================
