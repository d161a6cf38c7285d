---------------------------- MODULE AgentServices ----------------------------
(***************************************************************************)
(* What an agent has to talk and to act with, each of parts that share     *)
(* nothing, so that a step is one of a single part: of                     *)
(* agentzero-communication an interface to humans with the dialogues       *)
(* behind it and an inbox for other agents, and of agentzero-tools the     *)
(* pools it takes resources from, the executor that runs its tools and the *)
(* registry that knows them.                                               *)
(***************************************************************************)
EXTENDS HumanInterface, AgentComms, ResourceManager, ToolExecutor, ToolRegistry

communicationVars == <<interfaceVars, commsVars>>

CommunicationInit == InterfaceInit /\ CommsInit
CommunicationNext ==
  \/ InterfaceNext /\ UNCHANGED commsVars
  \/ CommsNext /\ UNCHANGED interfaceVars
CommunicationSpec == CommunicationInit /\ [][CommunicationNext]_communicationVars

toolsVars == <<resourceVars, toolExecutorVars, toolRegistryVars>>

ToolsInit == ResourceInit /\ ToolExecutorInit /\ ToolRegistryInit
ToolsNext ==
  \/ ResourceNext /\ UNCHANGED <<toolExecutorVars, toolRegistryVars>>
  \/ ToolExecutorNext /\ UNCHANGED <<resourceVars, toolRegistryVars>>
  \/ ToolRegistryNext /\ UNCHANGED <<resourceVars, toolExecutorVars>>
ToolsSpec == ToolsInit /\ [][ToolsNext]_toolsVars
-----------------------------------------------------------------------------
\* What is said is neither lost nor told twice: messages between agents, turns of a
\* conversation, and the sessions of users over conversations.
CommunicationIsSound == MessagesAreKept /\ TurnsAreRecent /\ SessionsAgree

\* What tools use and do is accounted for: pools and what is taken from them, calls and their
\* outcomes, and the tools that are registered and those that run.
ToolsAreSound == PoolsBalance /\ CallsAddUp /\ RegistryAgrees
=============================================================================
