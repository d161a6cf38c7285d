--------------------------- MODULE MCAgentMemory ---------------------------
(***************************************************************************)
(* The clients of one store touch each other through the store only, so    *)
(* they are checked a few at a time: each behaviour has a mix of clients.  *)
(***************************************************************************)
EXTENDS AgentMemory

CONSTANTS
  Mixes,       \* the mixes: client names, and the bound on atom ids for them
  MaxEpoch     \* bound: clears and loads in one process

VARIABLE active   \* the mix of this behaviour

Mix(clients, ids) == [clients |-> clients, ids |-> ids]
AllMixes == {Mix({"direct"}, 3), Mix({"callers", "episodic"}, 3), Mix({"callers", "knowledge"}, 4),
             Mix({"episodic", "knowledge"}, 4), Mix({"episodic", "cli"}, 4),
             Mix({"knowledge", "cli"}, 4), Mix({"callers", "cli"}, 4), Mix({"cli"}, 8)}
CliMixes == {Mix({"cli"}, 8)}
CallerMixes == {Mix({"callers", "cli"}, 4)}

\* Callers that use every operation of the store
Direct == INSTANCE AtomStore WITH Labels <- ConceptLabels, LinkTypes <- CallerLinks

MCInit == Init /\ active \in Mixes

MCNext ==
  /\ \/ "callers" \in active.clients /\ CallerStep
     \/ "episodic" \in active.clients /\ EpisodicStep
     \/ "knowledge" \in active.clients /\ KnowledgeStep
     \/ "cli" \in active.clients /\ CliStep
     \/ "direct" \in active.clients /\ Direct!StoreNext /\ UNCHANGED <<episodic, knowledge, loop>>
  /\ store'.nextId <= active.ids + 1
  /\ UNCHANGED active

MCSpec == MCInit /\ [][MCNext]_<<vars, active>>

FewEpochs == store.epoch <= MaxEpoch
=============================================================================
