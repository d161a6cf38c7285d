----------------------------- MODULE MCServices -----------------------------
(***************************************************************************)
(* Components that share nothing are checked in one run: each behaviour is *)
(* one of a single component, the others stay as they start.  Where the    *)
(* maps of a component do not meet either, a behaviour works on some.      *)
(***************************************************************************)
EXTENDS ActionScheduler, AgentMind, AgentServices, ClusterManager, CoordinationProtocol,
        MultiAgentCoordinator, DistributedCoordinator, LongTermMemory, PlanningEngine

CONSTANTS
  FirstPool,   \* of Pools
  FirstSize, FirstThreshold,   \* of BufferSizes and Thresholds
  FewAgents,   \* the agents registered while tasks are assigned
  FewExperiences,   \* of ExperienceLimits
  MaxTotal     \* bound: total_agents

VARIABLES
  part,  \* what this behaviour is about
  mix    \* how many actions it schedules and enqueues, and how far the clock goes

Parts == {"actions", "one pool", "two pools", "migrations", "reports", "books",
          "agents", "tasks", "shares", "placement", "items", "goals", "rules", "inference",
          "contexts", "queue", "dispatch", "memories", "agent", "plans", "episodes", "experiences",
          "sessions", "turns", "messages", "calls", "tools", "knowledge"}

actionVars == <<vars, mix>>
outerVars == <<interfaceVars, commsVars, toolExecutorVars, toolRegistryVars, knowledgeVars>>
lateVars == <<coreAgentVars, planningVars, episodeVars, experienceVars, outerVars>>
agentVars == <<workingVars, goalVars, reasoningVars, contextVars, coreVars, longVars, lateVars>>
allVars == <<actionVars, resourceVars, clusterVars, protocolVars, coordinatorVars,
             distributedVars, agentVars, part>>

-----------------------------------------------------------------------------
(* A domain to plan in: 1 and 2 are fluents, 11 and 12 operators, 21 and 22 tasks *)

Form(pre, add, del) == [pre |-> pre, add |-> add, del |-> del]
Library == 11 :> Form({}, {1}, {}) @@ 12 :> Form({1}, {2}, {1})
OtherForms == 12 :> Form({}, {2}, {1})
Ways == 21 :> <<[pre |-> {}, subtasks |-> <<22, 12>>]>>
     @@ 22 :> <<[pre |-> {1}, subtasks |-> <<12>>], [pre |-> {}, subtasks |-> <<11, 12>>]>>
OtherWays == 22 :> [pre |-> {2}, subtasks |-> <<21>>]

\* A goal by itself; the goal 22 may have subgoals, which are fluents or operators
MCOffered == [g \in PlanGoals |-> {<<g>>} \cup (IF g = 22 THEN {<<1, 2>>, <<11, 12>>} ELSE {})]

\* Queries of one pattern and of two; the name "b" is a concept's and a predicate's
MCQueries ==
  {<<q>> : q \in {<<"a", "isa", "?y">>, <<"?x", "isa", "b">>, <<"a", "?p", "b">>, <<"?x", "b", "a">>}}
  \cup {<<q, r>> : q \in {<<"?x", "isa", "?y">>, <<"a", "?p", "?y">>},
                  r \in {<<"?u", "?r", "b">>, <<"?u", "b", "?y">>}}
-----------------------------------------------------------------------------
(* What can go wrong with clocks takes two actions of every kind, of which *)
(* one may wait for the other, with prerequisites three of the plainest    *)
(* kind, with the executor's queue two queued actions and one scheduled.   *)
(* Each behaviour has one of these mixes, and in it scheduled actions that *)
(* end in one of its results; queued ones end in any.                      *)

Timers == [scheduled |-> 2, queued |-> 0, time |-> 2, results |-> {"COMPLETED", "FAILED"}]
Chains == [scheduled |-> 3, queued |-> 0, time |-> 0, results |-> {"COMPLETED", "FAILED", "CANCELLED"}]
Queues == [scheduled |-> 1, queued |-> 2, time |-> 0, results |-> {"COMPLETED", "PENDING", "CANCELLED"}]

MixedNext ==
  /\ Next
  /\ now' <= mix.time
  /\ \A i \in ActionIds : i > mix.scheduled => action'[i] = None
  /\ \A i \in 1..MaxQueued : i > mix.queued => status'[i] = None
  /\ \A i \in ActionIds : deps'[i] \subseteq 1..mix.scheduled
  /\ mix = Chains => \A i \in ActionIds : action'[i] # None =>
       action'[i].period = 0 /\ action'[i].deadline = None /\ dueAt'[i] = 0
  /\ mix = Timers => deps'[1] = {} /\ deps'[2] \subseteq {1}
  /\ mix # Queues => "queue" \notin ToSet(inside')
  /\ \A i \in ActionIds : verdict'[i] \in mix.results \cup {None}
  /\ UNCHANGED mix
-----------------------------------------------------------------------------
ServicesInit ==
  /\ Init /\ mix \in {Timers, Chains, Queues} /\ ResourceInit /\ ClusterInit /\ ProtocolInit /\ CoordinatorInit /\ DistributedInit
  /\ WorkingInit /\ GoalsInit /\ ReasoningInit /\ ContextInit /\ CoreInit /\ LongInit
  /\ CoreAgentInit /\ PlanningInit(Library, Ways) /\ EpisodeInit /\ ExperienceInit
  /\ CommunicationInit /\ ToolExecutorInit /\ ToolRegistryInit /\ KnowledgeInit
  /\ part \in Parts
  /\ part # "actions" => mix = Timers
  /\ part # "two pools" => strategy = "FIRST_FIT"
  /\ part # "items" => bufferSize = FirstSize /\ threshold = FirstThreshold
  /\ (part = "inference") = (rules # <<>>)
  /\ part # "memories" => hasStorage
  /\ part # "episodes" => episodeLimit = 0
  /\ part # "experiences" => maxExperiences = FewExperiences
  /\ part # "reports" => \A n \in ProtocolNodes : ~listening[n]
-----------------------------------------------------------------------------
\* One pool, resized, whose allocations expire and are swept, or two to choose from without
OnePool ==
  /\ ResourceNext
  /\ DOMAIN pool' \subseteq {FirstPool}
  /\ UNCHANGED strategy

TwoPools ==
  /\ ResourceNext
  /\ UNCHANGED sweepDue
  /\ \A n \in DOMAIN pool' :
       /\ pool'[n].calls < MaxGrants /\ (n \in DOMAIN pool => pool'[n].total = pool[n].total)
       /\ \A a \in pool'[n].held : a.expires = "never"
  /\ Cardinality(UNION {{a.requester : a \in pool'[n].held} : n \in DOMAIN pool'}) <= 1

PoolPart ==
  /\ part \in {"one pool", "two pools"}
  /\ UNCHANGED <<actionVars, clusterVars, protocolVars, coordinatorVars, distributedVars, agentVars>>
  /\ \/ part = "one pool" /\ OnePool
     \/ part = "two pools" /\ TwoPools

\* Hand-offs and ballots meet only in the peers, so that one kind at a time is enough
ProtocolPart ==
  /\ part \in {"reports", "books"}
  /\ UNCHANGED <<actionVars, resourceVars, clusterVars, coordinatorVars, distributedVars, agentVars>>
  /\ \E n \in ProtocolNodes :
       \/ part = "reports" /\ PeerStep(n, Peers)
       \/ /\ part = "books" /\ (PeerStep(n, Peers) \/ BookStep(n, Peers)) /\ UNCHANGED listening
          /\ DOMAIN offers'[n] = {} \/ DOMAIN ballots'[n] = {}
          /\ \A t, u \in Threads : t # u => todo'[n][t] = <<>> \/ todo'[n][u] = <<>>

CoordinatorPart ==
  /\ part \in {"agents", "tasks", "shares"}
  /\ UNCHANGED <<actionVars, resourceVars, clusterVars, protocolVars, distributedVars, agentVars>>
  /\ \/ part = "agents" /\ (LifeStep \/ AgentStep)
     \/ part = "tasks" /\ (LifeStep \/ AgentStep \/ CoordinatedTaskStep) /\ DOMAIN registered' \subseteq FewAgents
     \/ part = "shares" /\ (LifeStep \/ ShareStep \/ VoteStep)
  /\ agentCounts'.total <= MaxTotal

ActionPart ==
  /\ part = "actions"
  /\ UNCHANGED <<resourceVars, clusterVars, protocolVars, coordinatorVars, distributedVars, agentVars>>
  /\ MixedNext

MigrationPart ==
  /\ part = "migrations"
  /\ UNCHANGED <<actionVars, resourceVars, protocolVars, coordinatorVars, distributedVars, agentVars>>
  /\ ClusterNext

PlacementPart ==
  /\ part = "placement"
  /\ UNCHANGED <<actionVars, resourceVars, clusterVars, protocolVars, coordinatorVars, agentVars>>
  /\ DistributedNext

\* Nothing is promised after a drift, until the buffer is cleared
ItemPart ==
  /\ part = "items"
  /\ UNCHANGED <<actionVars, resourceVars, clusterVars, protocolVars, coordinatorVars, distributedVars>>
  /\ UNCHANGED <<goalVars, reasoningVars, contextVars, coreVars, longVars, lateVars>>
  /\ WorkingNext
  /\ drifted => memory' = NoItems

GoalPart ==
  /\ part = "goals"
  /\ UNCHANGED <<actionVars, resourceVars, clusterVars, protocolVars, coordinatorVars, distributedVars>>
  /\ UNCHANGED <<workingVars, reasoningVars, contextVars, coreVars, longVars, lateVars>>
  /\ GoalsNext

\* Rules that come and go, or what the default ones infer
ReasoningPart ==
  /\ part \in {"rules", "inference"}
  /\ UNCHANGED <<actionVars, resourceVars, clusterVars, protocolVars, coordinatorVars, distributedVars>>
  /\ UNCHANGED <<workingVars, goalVars, contextVars, coreVars, longVars, lateVars>>
  /\ \/ part = "rules" /\ (RuleStep \/ ChainStep \/ Notice)
     \/ part = "inference" /\ ReasoningNext /\ UNCHANGED rules

ContextPart ==
  /\ part = "contexts"
  /\ UNCHANGED <<actionVars, resourceVars, clusterVars, protocolVars, coordinatorVars, distributedVars>>
  /\ UNCHANGED <<workingVars, goalVars, reasoningVars, coreVars, longVars, lateVars>>
  /\ ContextNext

\* The executor by itself, whose actions fail, throw, time out or return that they still wait
\* or run; or with the scheduler, in time and with actions that complete or return as nothing
\* yet, some of them called synchronously because others wait
CorePart ==
  /\ part \in {"queue", "dispatch"}
  /\ UNCHANGED <<actionVars, resourceVars, clusterVars, protocolVars, coordinatorVars, distributedVars>>
  /\ UNCHANGED <<workingVars, goalVars, reasoningVars, contextVars, longVars, lateVars>>
  /\ \/ /\ part = "queue" /\ (ExecutorStep \/ ClockStep \/ ThreadStep \/ MonitorExecutingActions)
        /\ \A t \in CoreThreads : turns'[t].at # "submitting" /\ turns'[t].result \in {NoStatus, "FAILED", "PENDING", "RUNNING"}
     \/ /\ part = "dispatch" /\ (PlanStep \/ ClockStep \/ ThreadStep \/ (planned # <<>> /\ SyncStep))
        /\ overdue' = {} /\ \A t \in CoreThreads : turns'[t].result \in {NoStatus, "COMPLETED", "PENDING"} /\ ~CallbackThrows(t)

MemoriesPart ==
  /\ part = "memories"
  /\ UNCHANGED <<actionVars, resourceVars, clusterVars, protocolVars, coordinatorVars, distributedVars>>
  /\ UNCHANGED <<workingVars, goalVars, reasoningVars, contextVars, coreVars, lateVars>>
  /\ LongNext

\* The domain changes either in its methods, before there are plans, or in its operators.
\* The goal 22 is searched for by its subgoals only; once no plan meets the world it was made
\* for, nothing is promised of any
PlanPart ==
  /\ part = "plans"
  /\ UNCHANGED <<actionVars, resourceVars, clusterVars, protocolVars, coordinatorVars, distributedVars>>
  /\ UNCHANGED <<workingVars, goalVars, reasoningVars, contextVars, coreVars, longVars>>
  /\ UNCHANGED <<coreAgentVars, episodeVars, experienceVars, outerVars>>
  /\ (PlanningStep(MCOffered) \/ DomainStep({2}, OtherForms, OtherWays))
  /\ methods # methods' => plans = <<>>
  /\ operators # Library => methods = Ways
  /\ \A g \in DOMAIN plans' :
       /\ g = 2 => plans'[g].strategy = "STRIPS"
       /\ g = 22 /\ plans'[g].strategy = "STRIPS" => plans'[g].aims = {1, 2}
  /\ plans' = <<>> \/ DOMAIN plans' \ disturbed' # {}

AgentPart ==
  /\ part = "agent"
  /\ UNCHANGED <<actionVars, resourceVars, clusterVars, protocolVars, coordinatorVars, distributedVars>>
  /\ UNCHANGED <<workingVars, goalVars, reasoningVars, contextVars, coreVars, longVars>>
  /\ UNCHANGED <<planningVars, episodeVars, experienceVars, outerVars>>
  /\ CoreAgentNext

RecordPart ==
  /\ part \in {"episodes", "experiences"}
  /\ UNCHANGED <<actionVars, resourceVars, clusterVars, protocolVars, coordinatorVars, distributedVars>>
  /\ UNCHANGED <<workingVars, goalVars, reasoningVars, contextVars, coreVars, longVars, coreAgentVars, planningVars>>
  /\ UNCHANGED outerVars
  /\ \/ part = "episodes" /\ EpisodeNext /\ UNCHANGED experienceVars
     \/ part = "experiences" /\ ExperienceNext /\ UNCHANGED episodeVars

\* Sessions whose conversations time out; or callers of the manager, with conversations of
\* their own
TalkPart ==
  /\ part \in {"sessions", "turns"}
  /\ UNCHANGED <<commsVars, toolExecutorVars, toolRegistryVars, knowledgeVars>>
  /\ \/ part = "sessions" /\ InterfaceStep
     \/ /\ part = "sessions" /\ UNCHANGED <<sessions, defaultSession, user>>
        /\ CleanupInactiveConversations \/ \E c \in DOMAIN conversations : FallsIdle(c)
     \/ part = "turns" /\ CallerStep

MessagePart ==
  /\ part = "messages"
  /\ UNCHANGED <<interfaceVars, toolExecutorVars, toolRegistryVars, knowledgeVars>>
  /\ CommsNext

ToolPart ==
  /\ part \in {"calls", "tools"}
  /\ UNCHANGED <<interfaceVars, commsVars, knowledgeVars>>
  /\ \/ part = "calls" /\ ToolExecutorNext /\ UNCHANGED toolRegistryVars
     \/ part = "tools" /\ ToolRegistryNext /\ UNCHANGED toolExecutorVars

KnowledgePart ==
  /\ part = "knowledge"
  /\ UNCHANGED <<interfaceVars, commsVars, toolExecutorVars, toolRegistryVars>>
  /\ KnowledgeNext(MCQueries)

OuterPart ==
  /\ UNCHANGED <<actionVars, resourceVars, clusterVars, protocolVars, coordinatorVars, distributedVars>>
  /\ UNCHANGED <<workingVars, goalVars, reasoningVars, contextVars, coreVars, longVars>>
  /\ UNCHANGED <<coreAgentVars, planningVars, episodeVars, experienceVars>>
  /\ TalkPart \/ MessagePart \/ ToolPart \/ KnowledgePart

ServicesNext ==
  /\ UNCHANGED part
  /\ ActionPart \/ PoolPart \/ ProtocolPart \/ CoordinatorPart \/ MigrationPart \/ PlacementPart
     \/ ItemPart \/ GoalPart \/ ReasoningPart \/ ContextPart \/ CorePart \/ MemoriesPart
     \/ AgentPart \/ PlanPart \/ RecordPart \/ OuterPart

ServicesSpec == ServicesInit /\ [][ServicesNext]_allVars

\* Two of a kind may change places.  Each behaviour is of one component, so that one
\* exchange in all of them at once is enough.
Exchange(S) == CHOOSE p \in Permutations(S) : Cardinality({s \in S : p[s] # s}) = 2
Exchanged == Exchange(Concepts) @@ Exchange(Submitters) @@ Exchange(CoreThreads)
             @@ Exchange(CoreAtoms) @@ Exchange(ClusterNodes) @@ Exchange(Callers)
             @@ Exchange(Requesters) @@ Exchange(ContextIds)
Symmetry == {[s \in DOMAIN Exchanged |-> IF moved THEN Exchanged[s] ELSE s] : moved \in BOOLEAN}
=============================================================================
