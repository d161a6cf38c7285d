----------------------------- MODULE ToolExecutor -----------------------------
(***************************************************************************)
(* ToolExecutor (src/agentzero-tools/src/ToolExecutor.cpp): each call runs *)
(* its tool on a worker thread and waits for it no longer than a time-out. *)
(* The counters are atomics added to one by one, and the futures of        *)
(* workers that were given up are kept for the destructor.                 *)
(*                                                                         *)
(* A worker uses the executor (its normalise) until it ends.  The          *)
(* destructor runs while no call does, as destroying an executor in use    *)
(* would be undefined.  A worker that is waited for for ever is one that   *)
(* never ends; the model lets it.  Results are succeeded or failed;        *)
(* recording them in the AtomSpace and formatting are left out.            *)
(***************************************************************************)
EXTENDS Naturals, FiniteSets

CONSTANTS
  ToolCallers,  \* threads
  MaxCalls      \* bound: calls that start a worker

ASSUME ToolExecutorAssumption == IsFiniteSet(ToolCallers) /\ MaxCalls \in Nat

VARIABLES
  toolCalls,       \* thread -> [at, worker, result]: where it is in execute or executeCommand
  workers,         \* worker -> "running", "SUCCEEDED", "FAILED" or "THREW"
  pendingFutures,  \* _pending_futures: workers that were given up
  counts,          \* the four counters
  executor         \* "alive", "joining" (in the destructor) or "destroyed"

toolExecutorVars == <<toolCalls, workers, pendingFutures, counts, executor>>

NoCall == [at |-> "away", worker |-> 0, result |-> "none"]
Ended == {"SUCCEEDED", "FAILED", "THREW"}
RunningWorkers == {w \in DOMAIN workers : workers[w] = "running"}
-----------------------------------------------------------------------------
\* execute without a tool, or executeCommand with a command that is not allowed
Refuse(t) ==
  /\ executor = "alive" /\ toolCalls[t].at = "away" /\ counts.total < MaxCalls
  /\ toolCalls' = [toolCalls EXCEPT ![t] = [at |-> "counting", worker |-> 0, result |-> "FAILED"]]
  /\ UNCHANGED <<workers, pendingFutures, counts, executor>>

\* runWithTimeout: std::async
StartWorker(t) ==
  LET w == Cardinality(DOMAIN workers) + 1
  IN /\ executor = "alive" /\ toolCalls[t].at = "away" /\ w <= MaxCalls /\ counts.total < MaxCalls
     /\ workers' = [v \in 1..w |-> IF v = w THEN "running" ELSE workers[v]]
     /\ toolCalls' = [toolCalls EXCEPT ![t] = [at |-> "waiting", worker |-> w, result |-> "none"]]
     /\ UNCHANGED <<pendingFutures, counts, executor>>

WorkerEnds(w, result) ==
  /\ workers[w] = "running"
  /\ workers' = [workers EXCEPT ![w] = result]
  /\ UNCHANGED <<toolCalls, pendingFutures, counts, executor>>

\* The worker was in time; a std::exception of its tool is a failure
Collect(t) ==
  LET w == toolCalls[t].worker
  IN /\ toolCalls[t].at = "waiting" /\ workers[w] \in Ended
     /\ toolCalls' = [toolCalls EXCEPT ![t] = [@ EXCEPT !.at = "counting",
                    !.result = IF workers[w] = "SUCCEEDED" THEN "SUCCEEDED" ELSE "FAILED"]]
     /\ UNCHANGED <<workers, pendingFutures, counts, executor>>

\* Anything else its tool throws leaves the call too, which is not counted
EscapeCall(t) ==
  /\ toolCalls[t].at = "waiting" /\ workers[toolCalls[t].worker] = "THREW"
  /\ toolCalls' = [toolCalls EXCEPT ![t] = NoCall]
  /\ UNCHANGED <<workers, pendingFutures, counts, executor>>

\* It was not, though it may end before the caller has noticed
TimeOut(t) ==
  /\ toolCalls[t].at = "waiting"
  /\ counts' = [counts EXCEPT !.timeout = @ + 1]
  /\ toolCalls' = [toolCalls EXCEPT ![t] = [@ EXCEPT !.at = "keeping", !.result = "TIMEOUT"]]
  /\ UNCHANGED <<workers, pendingFutures, executor>>

MutantLetGo(t) ==
  /\ toolCalls[t].at = "keeping"
  /\ toolCalls' = [toolCalls EXCEPT ![t].at = "counting"]
  /\ UNCHANGED <<workers, pendingFutures, counts, executor>>
KeepFuture(t) ==
  /\ toolCalls[t].at = "keeping"
  /\ pendingFutures' = pendingFutures \cup {toolCalls[t].worker}
  /\ toolCalls' = [toolCalls EXCEPT ![t].at = "counting"]
  /\ UNCHANGED <<workers, counts, executor>>

\* updateStats: the total...
CountCall(t) ==
  /\ toolCalls[t].at = "counting"
  /\ counts' = [counts EXCEPT !.total = @ + 1]
  /\ toolCalls' = [toolCalls EXCEPT ![t].at = "sorting"]
  /\ UNCHANGED <<workers, pendingFutures, executor>>

MutantCountAgain(t) ==
  /\ toolCalls[t].at = "sorting"
  /\ counts' = IF toolCalls[t].result = "SUCCEEDED" THEN [counts EXCEPT !.success = @ + 1]
               ELSE [counts EXCEPT !.failure = @ + 1]
  /\ toolCalls' = [toolCalls EXCEPT ![t] = NoCall]
  /\ UNCHANGED <<workers, pendingFutures, executor>>
\* ...and then which kind it was; a time-out has been counted
CountKind(t) ==
  /\ toolCalls[t].at = "sorting"
  /\ counts' = CASE toolCalls[t].result = "SUCCEEDED" -> [counts EXCEPT !.success = @ + 1]
                 [] toolCalls[t].result = "FAILED" -> [counts EXCEPT !.failure = @ + 1]
                 [] toolCalls[t].result = "TIMEOUT" -> counts
  /\ toolCalls' = [toolCalls EXCEPT ![t] = NoCall]
  /\ UNCHANGED <<workers, pendingFutures, executor>>

\* ~ToolExecutor takes the futures and waits for each
Destroy ==
  /\ executor = "alive" /\ \A t \in ToolCallers : toolCalls[t].at = "away"
  /\ executor' = "joining" /\ UNCHANGED <<toolCalls, workers, pendingFutures, counts>>

Joined ==
  /\ executor = "joining" /\ pendingFutures \cap RunningWorkers = {}
  /\ executor' = "destroyed" /\ pendingFutures' = {}
  /\ UNCHANGED <<toolCalls, workers, counts>>

ToolExecutorInit ==
  /\ toolCalls = [t \in ToolCallers |-> NoCall] /\ workers = <<>> /\ pendingFutures = {}
  /\ counts = [total |-> 0, success |-> 0, failure |-> 0, timeout |-> 0] /\ executor = "alive"

ToolExecutorNext ==
  \/ \E t \in ToolCallers :
       \/ Refuse(t) \/ StartWorker(t) \/ Collect(t) \/ EscapeCall(t) \/ TimeOut(t) \/ KeepFuture(t)
       \/ CountCall(t) \/ CountKind(t)
  \/ \E w \in RunningWorkers, result \in Ended : WorkerEnds(w, result)
  \/ Destroy \/ Joined
-----------------------------------------------------------------------------
\* Every call that returns is counted once and as one kind, and one that is left by what its
\* tool threw is not counted, whatever calls overlap and whenever late workers end.  A worker
\* runs only as long as its caller waits for it or its future is kept, so that none outlives
\* the executor it uses.
CallsAddUp ==
  LET InCall(at, results) == Cardinality({t \in ToolCallers : toolCalls[t].at \in at /\ toolCalls[t].result \in results})
  IN /\ counts.total + InCall({"keeping", "counting"}, {"TIMEOUT"})
          = counts.success + counts.failure + counts.timeout + InCall({"sorting"}, {"SUCCEEDED", "FAILED"})
     /\ RunningWorkers \subseteq pendingFutures
          \cup {toolCalls[t].worker : t \in {u \in ToolCallers : toolCalls[u].at \in {"waiting", "keeping"}}}
     /\ executor = "destroyed" => RunningWorkers = {}
=============================================================================
