------------------------------ MODULE AgentMind ------------------------------
(***************************************************************************)
(* What an agent has in mind and what drives it, each of parts that share  *)
(* nothing, so that a step is one of a single part: what it remembers and  *)
(* wants (working memory, contexts, episodes, experiences, goals), what it *)
(* answers from (the rules and the knowledge base), and its core (executor *)
(* and scheduler of actions, loop and task manager).                       *)
(***************************************************************************)
EXTENDS WorkingMemory, ContextManager, EpisodicMemory, ExperienceManager, GoalHierarchy,
        ReasoningEngine, KnowledgeBase, CoreActions, CoreAgent

mindVars == <<workingVars, contextVars, episodeVars, experienceVars, goalVars>>

MindInit == WorkingInit /\ ContextInit /\ EpisodeInit /\ ExperienceInit /\ GoalsInit
MindNext ==
  \/ WorkingNext /\ UNCHANGED <<contextVars, episodeVars, experienceVars, goalVars>>
  \/ ContextNext /\ UNCHANGED <<workingVars, episodeVars, experienceVars, goalVars>>
  \/ EpisodeNext /\ UNCHANGED <<workingVars, contextVars, experienceVars, goalVars>>
  \/ ExperienceNext /\ UNCHANGED <<workingVars, contextVars, episodeVars, goalVars>>
  \/ GoalsNext /\ UNCHANGED <<workingVars, contextVars, episodeVars, experienceVars>>
MindSpec == MindInit /\ [][MindNext]_mindVars

answeringVars == <<reasoningVars, knowledgeVars>>

AnsweringInit == ReasoningInit /\ KnowledgeInit
AnsweringNext(queries) ==
  \/ ReasoningNext /\ UNCHANGED knowledgeVars
  \/ KnowledgeNext(queries) /\ UNCHANGED reasoningVars
AnsweringSpec(queries) == AnsweringInit /\ [][AnsweringNext(queries)]_answeringVars

agentCoreVars == <<coreVars, coreAgentVars>>

AgentCoreInit == CoreInit /\ CoreAgentInit
AgentCoreNext ==
  \/ CoreNext /\ UNCHANGED coreAgentVars
  \/ CoreAgentNext /\ UNCHANGED coreVars
AgentCoreSpec == AgentCoreInit /\ [][AgentCoreNext]_agentCoreVars
-----------------------------------------------------------------------------
\* What the agent remembers is found wherever it is filed, and nothing else is: items of the
\* working memory, contexts, episodes and experiences; and what it wants is a forest of goals
\* of the allowed shape, whose prerequisites go round in no circle.
MindIsOrdered ==
  BufferIsIndexed /\ ContextsAgree /\ EpisodesAgree /\ ExperiencesAgree /\ GoalsAreOrdered

\* The core loses nothing it has accepted and does nothing twice: its executor and scheduler
\* with actions, its loop and task manager with percepts and tasks.  Two kinds of leftovers
\* are excepted and kept apart by name: an action whose callback returned PENDING or RUNNING
\* keeps that status with nobody holding it (leftOpen, ActionExecutor.cpp:195), and a task
\* whose action threw no std::exception stays RUNNING with nobody running it (leftRunning,
\* TaskManager.cpp:164).
CoreIsSound == ActionsAreKept /\ CoreTasksAreKept /\ CoreLoopIsSound

\* What the agent answers from is right: what its rules infer follows from what was told, and
\* what it answers is in its knowledge.
KnowledgeIsSound == InferenceIsSound /\ QueriesAnswered
=============================================================================
