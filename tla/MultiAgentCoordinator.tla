----------------------- MODULE MultiAgentCoordinator -----------------------
(***************************************************************************)
(* MultiAgentCoordinator (src/src/MultiAgentCoordinator.cpp): registered   *)
(* agents, tasks assigned to them, proposals they vote on and resources    *)
(* granted to them, each map with its own lock, and counters beside them.  *)
(* Ids of tasks, proposals and requests are taken to be drawn once.        *)
(*                                                                         *)
(* checkAgentHeartbeats, checkTaskDeadlines and checkVotingDeadlines are   *)
(* private and called from nowhere: heartbeats and deadlines change        *)
(* nothing, and a proposal stays open.  Scores only pick among the agents  *)
(* that qualify.  Of the counters, the two of agents are modelled; the     *)
(* others are only reported.  Messages through AgentComms are left out.    *)
(***************************************************************************)
EXTENDS Integers, Sequences, FiniteSetsExt, StdContainers

CONSTANTS
  AgentIds,
  Capable,       \* the agents that have what tasks require
  TaskIds,
  ProposalIds,
  RequestIds,
  Shares         \* amounts of the resource registered, requested

ASSUME CoordinatorAssumption == Capable \subseteq AgentIds /\ Shares \subseteq Nat \ {0}

AgentStatuses == {"active", "busy", "offline"}
TaskStatuses  == {"pending", "assigned", "in_progress", "completed", "failed"}

VARIABLES
  coordinating,  \* _initialized
  closing,       \* what shutdown() has yet to clear
  registered,    \* _registered_agents: per agent, its status
  agentCounts,   \* _stats.total_agents, _stats.active_agents
  tasks,         \* _tasks: per task, status and the agent it is assigned to
  assigning,     \* assignTask's candidates, while it holds the tasks' lock
  votes,         \* _proposals: per proposal, the votes
  available,     \* _available_resources of the one resource type
  grants,        \* _resource_requests: per request, its amount
  stock,         \* history: the amount registered, <<>> once grants outlived that
  everShut       \* history: shutdown() was called

agentState == <<registered, agentCounts>>
taskState  == <<tasks, assigning>>
shareState == <<available, grants, stock>>
lifecycle == <<coordinating, closing, everShut>>
coordinatorVars == <<lifecycle, agentState, taskState, votes, shareState>>

Granted == MapThenSumSet(LAMBDA r : grants[r], DOMAIN grants)
ActiveAgents == {a \in DOMAIN registered : registered[a] = "active"}
TasksFree == assigning = {}
-----------------------------------------------------------------------------
StartCoordinator ==
  /\ ~coordinating /\ coordinating' = TRUE
  /\ UNCHANGED <<closing, everShut, agentState, taskState, votes, shareState>>

\* The maps are cleared one after the other; the counters stay as they are
ShutCoordinator ==
  /\ coordinating /\ closing = <<>>
  /\ closing' = <<"tasks", "proposals", "resources">> /\ everShut' = TRUE
  /\ registered' = NoKeys
  /\ UNCHANGED <<coordinating, agentCounts, taskState, votes, shareState>>

ClearMap(m) ==
  \/ /\ m = "tasks" /\ TasksFree /\ tasks' = NoKeys
     /\ UNCHANGED <<coordinating, votes, shareState>>
  \/ /\ m = "proposals" /\ votes' = NoKeys
     /\ UNCHANGED <<coordinating, tasks, shareState>>
  \/ /\ m = "resources" /\ coordinating' = FALSE
     /\ available' = NoKeys /\ grants' = NoKeys /\ stock' = NoKeys
     /\ UNCHANGED <<tasks, votes>>

ClearNextMap ==
  /\ closing # <<>> /\ ClearMap(Head(closing))
  /\ closing' = Tail(closing)
  /\ UNCHANGED <<everShut, agentState, assigning>>
-----------------------------------------------------------------------------
(* Agents *)

OneLess(k) == IF k > 0 THEN k - 1 ELSE k

RegisterAgent(a) ==
  /\ coordinating /\ a \notin DOMAIN registered
  /\ registered' = With(registered, a, "active")
  /\ agentCounts' = [total |-> agentCounts.total + 1, active |-> agentCounts.active + 1]
  /\ UNCHANGED <<lifecycle, taskState, votes, shareState>>

\* An agent is taken from the active ones whatever its status
MutantKeepCount(a) ==
  /\ coordinating /\ a \in DOMAIN registered
  /\ registered' = Without(registered, {a})
  /\ agentCounts' = [total |-> agentCounts.total - 1, active |-> agentCounts.active]
  /\ UNCHANGED <<lifecycle, taskState, votes, shareState>>
UnregisterAgent(a) ==
  /\ coordinating /\ a \in DOMAIN registered
  /\ registered' = Without(registered, {a})
  /\ agentCounts' = [total |-> agentCounts.total - 1, active |-> OneLess(agentCounts.active)]
  /\ UNCHANGED <<lifecycle, taskState, votes, shareState>>

UpdateAgentStatus(a, s) ==
  /\ coordinating /\ a \in DOMAIN registered
  /\ registered' = [registered EXCEPT ![a] = s]
  /\ agentCounts' =
       CASE registered[a] = "active" /\ s # "active" ->
              [agentCounts EXCEPT !.active = OneLess(@)]
         [] registered[a] # "active" /\ s = "active" ->
              [agentCounts EXCEPT !.active = @ + 1]
         [] OTHER -> agentCounts
  /\ UNCHANGED <<lifecycle, taskState, votes, shareState>>
-----------------------------------------------------------------------------
(* Tasks *)

CreateTask(t) ==
  /\ coordinating /\ TasksFree /\ t \notin DOMAIN tasks
  /\ tasks' = With(tasks, t, [status |-> "pending", agent |-> {}])
  /\ UNCHANGED <<lifecycle, agentState, assigning, votes, shareState>>

\* assignTask to a given agent, registered or not
AssignTo(t, a) ==
  /\ coordinating /\ TasksFree /\ t \in DOMAIN tasks
  /\ tasks' = [tasks EXCEPT ![t] = [status |-> "assigned", agent |-> {a}]]
  /\ UNCHANGED <<lifecycle, agentState, assigning, votes, shareState>>

\* assignTask without an agent: findCapableAgents and selectBestAgent each take the
\* agents' lock; an agent that has left in between is skipped
FindAgents(t) ==
  /\ coordinating /\ TasksFree /\ t \in DOMAIN tasks
  /\ ActiveAgents \cap Capable # {}
  /\ assigning' = {[task |-> t, agents |-> ActiveAgents \cap Capable]}
  /\ UNCHANGED <<lifecycle, agentState, tasks, votes, shareState>>

AssignBest ==
  \E c \in assigning :
    /\ \/ \E a \in c.agents \cap DOMAIN registered :
            tasks' = [tasks EXCEPT ![c.task] = [status |-> "assigned", agent |-> {a}]]
       \/ c.agents \cap DOMAIN registered = {} /\ UNCHANGED tasks
    /\ assigning' = {}
    /\ UNCHANGED <<lifecycle, agentState, votes, shareState>>

\* updateTaskStatus, completeTask
SetTaskStatus(t, s) ==
  /\ coordinating /\ TasksFree /\ t \in DOMAIN tasks
  /\ tasks' = [tasks EXCEPT ![t] = [status |-> s, agent |-> tasks[t].agent]]
  /\ UNCHANGED <<lifecycle, agentState, assigning, votes, shareState>>
-----------------------------------------------------------------------------
(* Proposals and resources *)

CreateProposal(p) ==
  /\ coordinating /\ p \notin DOMAIN votes
  /\ votes' = With(votes, p, NoKeys)
  /\ UNCHANGED <<lifecycle, agentState, taskState, shareState>>

CastVote(p, a, v) ==
  /\ coordinating /\ p \in DOMAIN votes
  /\ votes' = [votes EXCEPT ![p] = With(@, a, v)]
  /\ UNCHANGED <<lifecycle, agentState, taskState, shareState>>

\* Registering again forgets what is granted, which is added when it is released
RegisterResource(k) ==
  /\ coordinating
  /\ available' = With(available, "resource", k)
  /\ stock' = With(stock, "resource", IF grants = NoKeys THEN <<k>> ELSE <<>>)
  /\ UNCHANGED <<lifecycle, agentState, taskState, votes, grants>>

MutantOverGrant(k) == DOMAIN available # {} /\ available["resource"] > 0
Suffices(k) == DOMAIN available # {} /\ available["resource"] >= k
RequestResource(r, k) ==
  /\ coordinating /\ r \notin DOMAIN grants /\ Suffices(k)
  /\ grants' = With(grants, r, k)
  /\ available' = [available EXCEPT !["resource"] = @ - k]
  /\ UNCHANGED <<lifecycle, agentState, taskState, votes, stock>>

ReleaseResource(r) ==
  /\ coordinating /\ r \in DOMAIN grants
  /\ grants' = Without(grants, {r})
  /\ available' = [available EXCEPT !["resource"] = @ + grants[r]]
  /\ UNCHANGED <<lifecycle, agentState, taskState, votes, stock>>
-----------------------------------------------------------------------------
CoordinatorInit ==
  /\ coordinating = FALSE /\ closing = <<>> /\ everShut = FALSE
  /\ registered = NoKeys /\ agentCounts = [total |-> 0, active |-> 0]
  /\ tasks = NoKeys /\ assigning = {} /\ votes = NoKeys
  /\ available = NoKeys /\ grants = NoKeys /\ stock = NoKeys

LifeStep == StartCoordinator \/ ShutCoordinator \/ ClearNextMap

AgentStep ==
  \E a \in AgentIds :
    \/ RegisterAgent(a) \/ UnregisterAgent(a)
    \/ \E s \in AgentStatuses : UpdateAgentStatus(a, s)

CoordinatedTaskStep ==
  \/ \E t \in TaskIds :
       \/ CreateTask(t) \/ FindAgents(t)
       \/ \E a \in AgentIds : AssignTo(t, a)
       \/ \E s \in TaskStatuses : SetTaskStatus(t, s)
  \/ AssignBest

VoteStep ==
  \E p \in ProposalIds :
    CreateProposal(p) \/ \E a \in AgentIds, v \in BOOLEAN : CastVote(p, a, v)

ShareStep ==
  \/ \E k \in Shares : RegisterResource(k) \/ \E r \in RequestIds : RequestResource(r, k)
  \/ \E r \in RequestIds : ReleaseResource(r)

CoordinatorNext == LifeStep \/ AgentStep \/ CoordinatedTaskStep \/ VoteStep \/ ShareStep
CoordinatorSpec == CoordinatorInit /\ [][CoordinatorNext]_coordinatorVars
-----------------------------------------------------------------------------
\* Before the first shutdown isHealthy() only answers yes when an agent is active: the
\* counter it asks is never above the agents registered as active, though leaving takes
\* one off it whatever the agent's status was (unregisterAgent, updateAgentStatus).
HealthIsReal == ~everShut => agentCounts.active <= Cardinality(ActiveAgents)

\* What is granted and what is available add up to what was registered, until the
\* resource is registered anew while some of it is granted; nothing more than what is
\* there is ever granted (requestResource, releaseResource).
GrantsBalance ==
  \A t \in DOMAIN available :
    /\ available[t] >= 0
    /\ stock[t] # <<>> => available[t] + Granted = stock[t][1]

CoordinatorAddsUp == HealthIsReal /\ GrantsBalance
=============================================================================
