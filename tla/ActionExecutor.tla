--------------------------- MODULE ActionExecutor ---------------------------
(***************************************************************************)
(* ActionExecutor (src/src/ActionExecutor.cpp): named callbacks and a      *)
(* priority queue of actions to run.  It has no lock and one thread uses   *)
(* it, but a callback runs in the middle of processQueue or, called        *)
(* through executeSync, of ActionScheduler::tick, and may itself use the   *)
(* executor and the scheduler.  What a callback throws is a                *)
(* std::exception: anything else would leave processQueue and tick with    *)
(* their locals, and is left out.                                          *)
(***************************************************************************)
EXTENDS Naturals, Sequences

CONSTANTS
  Types,           \* action types
  QueuePriorities, \* ActionPriority values in use
  MaxActions,      \* processQueue's argument
  MaxQueued,       \* bound: actions ever enqueued
  None

Statuses == {"PENDING", "EXECUTING", "COMPLETED", "FAILED", "CANCELLED", "TIMEOUT"}
QueuedActions == [id : 1..MaxQueued, type : Types, priority : QueuePriorities]

ASSUME ExecutorAssumption ==
  /\ MaxActions \in Nat \ {0} /\ MaxQueued \in Nat /\ QueuePriorities \subseteq Nat
  /\ None \notin Statuses /\ None \notin QueuedActions

VARIABLES
  registry,   \* types with a callback
  queue,      \* _queue
  status,     \* _statusMap, and None for an id not given out yet
  inside,     \* the operations being executed, innermost last: "queue", "tick"
  left,       \* actions this processQueue may still process
  current,    \* the queued action whose callback is running, or None
  queueCalls  \* how often each queued action's callback was called

executorVars == <<registry, queue, status, left, current, queueCalls>>
-----------------------------------------------------------------------------
In(op) == inside # <<>> /\ inside[Len(inside)] = op
Enter(op) == inside' = Append(inside, op)
Leave == inside' = SubSeq(inside, 1, Len(inside) - 1)

\* What executeSync returns: whatever status the callback chose, FAILED when it throws an
\* exception, and TIMEOUT when it was slow and did not complete
Outcomes == Statuses

ExecutorInit ==
  /\ registry = {} /\ queue = {} /\ status = [i \in 1..MaxQueued |-> None]
  /\ inside = <<>> /\ left = 0 /\ current = None /\ queueCalls = [i \in 1..MaxQueued |-> 0]

RegisterAction(t) ==
  /\ registry' = registry \cup {t}
  /\ UNCHANGED <<queue, status, inside, left, current, queueCalls>>

\* A callback's own entry would be destroyed under it: busy are the types whose
\* callbacks are running
UnregisterAction(t, busy) ==
  /\ t \notin busy
  /\ registry' = registry \ {t}
  /\ UNCHANGED <<queue, status, inside, left, current, queueCalls>>

Enqueue(t, p) ==
  \E i \in 1..MaxQueued :
    /\ status[i] = None /\ \A j \in 1..(i - 1) : status[j] # None
    /\ queue' = queue \cup {[id |-> i, type |-> t, priority |-> p]}
    /\ status' = [status EXCEPT ![i] = "PENDING"]
    /\ UNCHANGED <<registry, inside, left, current, queueCalls>>

MutantCancelAny(i) ==
  /\ status[i] \in {"PENDING", "EXECUTING"}
  /\ status' = [status EXCEPT ![i] = "CANCELLED"]
  /\ UNCHANGED <<registry, queue, inside, left, current, queueCalls>>

\* The queue keeps a cancelled action until processQueue meets it
CancelQueued(i) ==
  /\ status[i] = "PENDING"
  /\ status' = [status EXCEPT ![i] = "CANCELLED"]
  /\ UNCHANGED <<registry, queue, inside, left, current, queueCalls>>

\* processQueue is not called by the callbacks it calls
ProcessQueue ==
  /\ \A k \in DOMAIN inside : inside[k] # "queue"
  /\ Enter("queue")
  /\ left' = MaxActions
  /\ UNCHANGED <<registry, queue, status, current, queueCalls>>

\* The queue's top; std::priority_queue orders equal priorities as it likes
Tops == {q \in queue : \A r \in queue : r.priority <= q.priority}

TakeQueued ==
  /\ In("queue") /\ current = None /\ left > 0
  /\ \E q \in Tops :
       /\ queue' = queue \ {q}
       /\ \/ /\ status[q.id] = "CANCELLED"
             /\ UNCHANGED <<status, left, current, queueCalls>>
          \/ /\ status[q.id] # "CANCELLED" /\ q.type \in registry
             /\ status' = [status EXCEPT ![q.id] = "EXECUTING"]
             /\ current' = q
             /\ queueCalls' = [queueCalls EXCEPT ![q.id] = @ + 1]
             /\ UNCHANGED left
          \/ /\ status[q.id] # "CANCELLED" /\ q.type \notin registry
             /\ status' = [status EXCEPT ![q.id] = "FAILED"]
             /\ left' = left - 1
             /\ UNCHANGED <<current, queueCalls>>
  /\ UNCHANGED <<registry, inside>>

MutantStillCurrent(result) ==
  /\ In("queue") /\ current # None
  /\ status' = [status EXCEPT ![current.id] = result]
  /\ left' = left - 1
  /\ UNCHANGED <<registry, queue, inside, current, queueCalls>>

\* The callback returns or throws
ReturnQueued(result) ==
  /\ In("queue") /\ current # None
  /\ status' = [status EXCEPT ![current.id] = result]
  /\ current' = None
  /\ left' = left - 1
  /\ UNCHANGED <<registry, queue, inside, queueCalls>>

EndQueue ==
  /\ In("queue") /\ current = None
  /\ queue = {} \/ left = 0
  /\ left' = 0
  /\ Leave
  /\ UNCHANGED <<registry, queue, status, current, queueCalls>>
-----------------------------------------------------------------------------
\* Queue entries, statuses and the locals of processQueue
ExecutorTypes ==
  /\ registry \subseteq Types /\ queue \subseteq QueuedActions
  /\ status \in [1..MaxQueued -> Statuses \cup {None}]
  /\ left \in 0..MaxActions /\ current \in QueuedActions \cup {None}
  /\ queueCalls \in [1..MaxQueued -> Nat]
=============================================================================
