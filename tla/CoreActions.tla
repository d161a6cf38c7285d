----------------------------- MODULE CoreActions -----------------------------
(***************************************************************************)
(* ActionExecutor and ActionScheduler of agentzero-core                    *)
(* (src/agentzero-core/src/ActionExecutor.cpp, ActionScheduler.cpp), other *)
(* classes than those of the modules ActionExecutor and ActionScheduler:   *)
(* any thread may process the queue or dispatch, and the executor's lock   *)
(* is released around every callback.  The scheduler's executor is set.    *)
(*                                                                         *)
(* A step is a critical section or the call of a callback.  The atomspace  *)
(* never retracts a state, so that an action once "completed" stays so for *)
(* those that depend on it.  Deadlines and resources are stored and read   *)
(* by nothing; names, durations and messages are left out.                 *)
(***************************************************************************)
EXTENDS Integers, SequencesExt, StdContainers

CONSTANTS
  CoreThreads,
  CoreAtoms,
  CorePriorities,
  MaxConcurrent,   \* _max_concurrent
  Repeats,         \* repeat counts of periodic actions
  NoStatus,
  MaxAsked,        \* bound: occurrences owed
  MaxPlanned       \* bound: entries of _scheduled

Medium == 5   \* Priority::MEDIUM
StillOpen == {"PENDING", "RUNNING"}
ActionStatus == StillOpen \cup {"COMPLETED", "FAILED", "CANCELLED", "TIMEOUT"}
ASSUME CoreAssumption ==
  /\ IsFiniteSet(CoreThreads) /\ MaxConcurrent \in Nat /\ Repeats \subseteq Int
  /\ Medium \in CorePriorities /\ CorePriorities \subseteq Nat /\ NoStatus \notin ActionStatus

VARIABLES
  corePending,    \* ActionExecutor::_pending
  corePriority,   \* _priorities
  coreStatus,     \* _results
  coreExecuting,  \* _executing
  startTimes,     \* the actions in _start_times
  overdue,        \* those of them past _default_timeout_ms
  completedAtoms, \* the actions with a state link to "completed"
  planned,        \* ActionScheduler::_scheduled
  turns,          \* per thread: where it is, what it found due, what it took from the queue
  owed,           \* what happened, per action: occurrences asked for and not called or dropped
  leftOpen        \* what happened: actions whose callback returned that they still wait or run,
                  \* and whose result nobody has overwritten since

executorState == <<corePending, corePriority, coreStatus, coreExecuting, startTimes, overdue, leftOpen>>
coreVars == <<executorState, completedAtoms, planned, turns, owed>>

AtRest == [at |-> "idle", due |-> <<>>, batch |-> <<>>, result |-> NoStatus]

Owed == FoldFunctionOnSet(+, 0, owed, CoreAtoms)
-----------------------------------------------------------------------------
(* The queue *)

MutantAtTheEnd(s, prio) == s
\* The stable sort, higher priority first
ByPriority(s, prio) == StableSort(s, [a \in CoreAtoms |-> 0 - prio[a]])

Queue(a, p) ==
  /\ corePriority' = [corePriority EXCEPT ![a] = p]
  /\ corePending' = ByPriority(Append(corePending, a), corePriority')
  /\ coreStatus' = [coreStatus EXCEPT ![a] = "PENDING"] /\ leftOpen' = leftOpen \ {a}
  /\ UNCHANGED <<coreExecuting, startTimes, overdue>>

\* executeAction, executeSimpleAction
ExecuteAction(a, p) ==
  /\ Owed < MaxAsked
  /\ Queue(a, p)
  /\ owed' = [owed EXCEPT ![a] = @ + 1]
  /\ UNCHANGED <<completedAtoms, planned, turns>>

\* executeActionSync, up to the status atom
ExecuteSync(t, a) ==
  /\ turns[t].at = "idle"
  /\ coreStatus' = [coreStatus EXCEPT ![a] = "COMPLETED"] /\ leftOpen' = leftOpen \ {a}
  /\ turns' = [turns EXCEPT ![t] = [AtRest EXCEPT !.at = "noting", !.batch = <<a>>, !.result = "COMPLETED"]]
  /\ UNCHANGED <<corePending, corePriority, coreExecuting, startTimes, overdue, completedAtoms, planned, owed>>

\* Only the first of several copies is withdrawn
CancelAction(a) ==
  /\ LET at == {i \in DOMAIN corePending : corePending[i] = a}
     IN IF at = {} THEN UNCHANGED <<corePending, owed>>
        ELSE /\ corePending' = RemoveAt(corePending, Min(at))
             /\ owed' = [owed EXCEPT ![a] = @ - 1]
  /\ coreStatus' = [coreStatus EXCEPT ![a] = "CANCELLED"] /\ leftOpen' = leftOpen \ {a}
  /\ UNCHANGED <<corePriority, coreExecuting, startTimes, overdue, completedAtoms, planned, turns>>
-----------------------------------------------------------------------------
(* processActionQueue *)

MutantNoLimit == corePending
\* As much of the queue as there are free slots for
NextBatch ==
  [i \in {j \in DOMAIN corePending : j + Len(coreExecuting) <= MaxConcurrent} |-> corePending[i]]

\* Alone or at the end of dispatchDueActions
TakeBatch(t) ==
  /\ turns[t].at = "idle" \/ (turns[t].at = "submitting" /\ turns[t].due = <<>>)
  /\ LET batch == NextBatch
     IN /\ corePending' = SubSeq(corePending, Len(batch) + 1, Len(corePending))
        /\ coreExecuting' = coreExecuting \o batch
        /\ startTimes' = startTimes \cup ToSet(batch) /\ overdue' = overdue \ ToSet(batch)
        /\ coreStatus' = [a \in CoreAtoms |-> IF a \in ToSet(batch) THEN "RUNNING" ELSE coreStatus[a]]
        /\ leftOpen' = leftOpen \ ToSet(batch)
        /\ turns' = [turns EXCEPT ![t] =
             IF batch = <<>> THEN AtRest ELSE [AtRest EXCEPT !.at = "running", !.batch = batch]]
  /\ UNCHANGED <<corePriority, completedAtoms, planned, owed>>

CallNext(t) ==
  /\ turns[t].at = "running"
  /\ turns' = [turns EXCEPT ![t].at = "calling"]
  /\ owed' = [owed EXCEPT ![Head(turns[t].batch)] = @ - 1]
  /\ UNCHANGED <<executorState, completedAtoms, planned>>

\* The slots of a and when it started are given up
MutantKeepSlots(A) == coreExecuting' = coreExecuting /\ startTimes' = startTimes /\ overdue' = overdue
GiveUp(A) ==
  /\ coreExecuting' = Dropping(coreExecuting, A)
  /\ startTimes' = startTimes \ A /\ overdue' = overdue \ A

MutantForgetResult(t, result) == coreStatus' = coreStatus /\ GiveUp({Head(turns[t].batch)})
\* What the callback returned is stored whatever happened meanwhile
StoreResult(t, result) ==
  /\ coreStatus' = [coreStatus EXCEPT ![Head(turns[t].batch)] = result]
  /\ GiveUp({Head(turns[t].batch)})

\* The result is the callback's to choose: one it leaves as it was made is PENDING
CallbackReturns(t, result) ==
  /\ turns[t].at = "calling"
  /\ StoreResult(t, result)
  /\ leftOpen' = LET called == {Head(turns[t].batch)}
                 IN IF result \in StillOpen THEN leftOpen \cup called ELSE leftOpen \ called
  /\ turns' = [turns EXCEPT ![t] = [@ EXCEPT !.at = "noting", !.result = result]]
  /\ UNCHANGED <<corePending, corePriority, completedAtoms, planned, owed>>

\* updateStatusAtom, after the lock is released
NoteStatus(t) ==
  /\ turns[t].at = "noting"
  /\ LET batch == turns[t].batch
     IN /\ completedAtoms' = IF turns[t].result = "COMPLETED" THEN completedAtoms \cup {Head(batch)}
                             ELSE completedAtoms
        /\ turns' = [turns EXCEPT ![t] =
             IF Tail(batch) = <<>> THEN AtRest ELSE [AtRest EXCEPT !.at = "running", !.batch = Tail(batch)]]
  /\ UNCHANGED <<executorState, planned, owed>>

\* The exception leaves processActionQueue: the rest of the batch is never called, and
\* its slots stay taken
CallbackThrows(t) ==
  /\ turns[t].at = "calling"
  /\ turns' = [turns EXCEPT ![t] = AtRest]
  /\ owed' = [a \in CoreAtoms |-> owed[a] - Copies(a, Tail(turns[t].batch))]
  /\ UNCHANGED <<executorState, completedAtoms, planned>>

\* Time passes
TimesOut(a) ==
  /\ a \in startTimes \ overdue
  /\ overdue' = overdue \cup {a}
  /\ UNCHANGED <<corePending, corePriority, coreStatus, coreExecuting, startTimes, leftOpen, completedAtoms,
                 planned, turns, owed>>

MonitorExecutingActions ==
  /\ overdue # {}
  /\ coreStatus' = [a \in CoreAtoms |-> IF a \in overdue THEN "TIMEOUT" ELSE coreStatus[a]]
  /\ leftOpen' = leftOpen \ overdue
  /\ GiveUp(overdue)
  /\ UNCHANGED <<corePending, corePriority, completedAtoms, planned, turns, owed>>
-----------------------------------------------------------------------------
(* ActionScheduler *)

\* An occurrence for each repetition, and one if none is asked for
Occurrences(n) == Max({1, n})

Plan(a, dependencies, n) ==
  /\ Len(planned) < MaxPlanned /\ Owed + Occurrences(n) <= MaxAsked
  /\ planned' = Append(planned, [atom |-> a, dependencies |-> dependencies, repeats |-> n, due |-> FALSE])
  /\ owed' = [owed EXCEPT ![a] = @ + Occurrences(n)]
  /\ UNCHANGED <<executorState, completedAtoms, turns>>

AtomsOf(entries) == [i \in DOMAIN entries |-> entries[i].atom]

\* scheduleAction, scheduleActionAfter
ScheduleOnce(a) == Copies(a, AtomsOf(planned)) = 0 /\ Plan(a, {}, 1)

\* The occurrences of a still to come
PlannedAt(a, s) == [i \in DOMAIN s |-> IF s[i].atom = a THEN Occurrences(s[i].repeats) ELSE 0]
Planned(a, s) == FoldFunctionOnSet(+, 0, PlannedAt(a, s), DOMAIN s)

\* The other five do not look for duplicates
ScheduleAgain(a, dependencies, n) == Plan(a, dependencies, n)

CancelScheduled(a) ==
  /\ \E i \in DOMAIN planned : planned[i].atom = a
  /\ planned' = ElementsAt(planned, {i \in DOMAIN planned : planned[i].atom # a})
  /\ owed' = [owed EXCEPT ![a] = @ - Planned(a, planned)]
  /\ UNCHANGED <<executorState, completedAtoms, turns>>

\* Time reaches an entry's
FallsDue(i) ==
  /\ i \in DOMAIN planned /\ ~planned[i].due
  /\ planned' = [planned EXCEPT ![i].due = TRUE]
  /\ UNCHANGED <<executorState, completedAtoms, turns, owed>>

Dispatchable(e) == e.due /\ e.dependencies \subseteq completedAtoms

MutantOnceMore(e) == e.repeats > 0
Again(e) == e.repeats > 1

\* What is kept of an entry that is dispatched waits for its next time
Renewed(e) == IF Dispatchable(e) THEN [e EXCEPT !.repeats = @ - 1, !.due = FALSE] ELSE e

\* dispatchDueActions up to the calls of executeAction
CollectDue(t) ==
  /\ turns[t].at = "idle"
  /\ LET due == ElementsAt(planned, {i \in DOMAIN planned : Dispatchable(planned[i])})
         kept == ElementsAt(planned, {i \in DOMAIN planned : Dispatchable(planned[i]) => Again(planned[i])})
     IN /\ planned' = [i \in DOMAIN kept |-> Renewed(kept[i])]
        /\ turns' = [turns EXCEPT ![t] = [AtRest EXCEPT !.at = "submitting", !.due = AtomsOf(due)]]
  /\ UNCHANGED <<executorState, completedAtoms, owed>>

SubmitDue(t) ==
  /\ turns[t].due # <<>>
  /\ Queue(Head(turns[t].due), Medium)
  /\ turns' = [turns EXCEPT ![t].due = Tail(@)]
  /\ UNCHANGED <<completedAtoms, planned, owed>>
-----------------------------------------------------------------------------
CoreInit ==
  /\ corePending = <<>> /\ corePriority = [a \in CoreAtoms |-> Medium]
  /\ coreStatus = [a \in CoreAtoms |-> NoStatus] /\ coreExecuting = <<>>
  /\ startTimes = {} /\ overdue = {} /\ completedAtoms = {} /\ planned = <<>>
  /\ turns = [t \in CoreThreads |-> AtRest] /\ owed = [a \in CoreAtoms |-> 0]
  /\ leftOpen = {}

ExecutorStep == \E a \in CoreAtoms : CancelAction(a) \/ \E p \in CorePriorities : ExecuteAction(a, p)
SyncStep == \E t \in CoreThreads, a \in CoreAtoms : ExecuteSync(t, a)

PlanStep ==
  \E a \in CoreAtoms :
    \/ ScheduleOnce(a) \/ CancelScheduled(a)
    \/ \E b \in CoreAtoms : ScheduleAgain(a, {b}, 1)
    \/ \E n \in Repeats : ScheduleAgain(a, {}, n)

TurnStep(t) ==
  \/ CallNext(t) \/ NoteStatus(t) \/ SubmitDue(t)
  \/ \E result \in ActionStatus : CallbackReturns(t, result)

ClockStep == (\E a \in CoreAtoms : TimesOut(a)) \/ (\E i \in DOMAIN planned : FallsDue(i))

ThreadStep == \E t \in CoreThreads : TakeBatch(t) \/ CollectDue(t) \/ TurnStep(t) \/ CallbackThrows(t)

CoreNext == ExecutorStep \/ SyncStep \/ PlanStep \/ ClockStep \/ ThreadStep \/ MonitorExecutingActions

CoreSpec == CoreInit /\ [][CoreNext]_coreVars

\* Each thread processes the queue again and again, whatever else it calls; somebody calls the
\* monitor, callbacks return or throw, and time passes
CoreFairness ==
  /\ \A t \in CoreThreads :
       SF_coreVars(corePending # <<>> /\ TakeBatch(t)) /\ WF_coreVars(TurnStep(t) \/ CallbackThrows(t))
  /\ \A a \in CoreAtoms : WF_coreVars(TimesOut(a))
  /\ WF_coreVars(MonitorExecutingActions)
-----------------------------------------------------------------------------
\* What a thread has yet to call, and the copies of a in its hands
Uncalled(turn) == IF turn.at \in {"calling", "noting"} THEN Tail(turn.batch) ELSE turn.batch
InHands(a) == [t \in CoreThreads |-> Copies(a, turns[t].due) + Copies(a, Uncalled(turns[t]))]
Carried(a) == FoldFunctionOnSet(+, 0, InHands(a), CoreThreads)

\* Each occurrence asked for is in one place until it is called or dropped, however
\* threads, cancellations, repetitions and exceptions interleave: none is called twice.
NoneTwice ==
  \A a \in CoreAtoms : owed[a] = Copies(a, corePending) + Planned(a, planned) + Carried(a)

\* No action waits or runs in its result alone: one that is PENDING is in the queue, one
\* that is RUNNING has a slot the monitor watches, though other threads' late results,
\* cancellations and time-outs overwrite each other.  The exception is an action whose own
\* callback returned one of the two (line 195 stores whatever it is, and an ActionResult is
\* PENDING unless something is put in it, ActionExecutor.h:49): nobody has it any more, and
\* its result says so until somebody executes, cancels or queues it again.
ResultsAreTrue ==
  \A a \in CoreAtoms :
    /\ coreStatus[a] = "PENDING" => a \in ToSet(corePending) \cup leftOpen
    /\ coreStatus[a] = "RUNNING" => a \in startTimes \cup leftOpen
    /\ a \in startTimes <=> a \in ToSet(coreExecuting)

\* "Keep higher priority first" (ActionExecutor.cpp:55), though queueing an action again
\* changes the priority of its earlier copies too; and no more slots than there are
ActionsAreKept ==
  /\ NoneTwice /\ ResultsAreTrue /\ Len(coreExecuting) <= MaxConcurrent
  /\ \A i, j \in DOMAIN corePending :
       i < j => corePriority[corePending[i]] >= corePriority[corePending[j]]

\* Slots that exceptions left taken come back through the monitor, so that what is in the
\* queue is taken on: callbacks that throw never bring the executor to a stand-still.
QueueMoves ==
  /\ Len(coreExecuting) = MaxConcurrent ~> Len(coreExecuting) < MaxConcurrent
  /\ corePending # <<>> ~> corePending = <<>> \/ \E t \in CoreThreads : turns[t].at = "calling"
=============================================================================
