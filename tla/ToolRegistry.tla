----------------------------- MODULE ToolRegistry -----------------------------
(***************************************************************************)
(* ToolRegistry (src/agentzero-tools/src/ToolRegistry.cpp): tools with     *)
(* their executors (callbacks), statuses and atoms, and an index by        *)
(* category.  There is no lock; one thread uses it, and an executor may    *)
(* use it while it runs.  The catalog, the executors, the statuses and     *)
(* the atoms have the same keys, which is why one map stands for the four. *)
(*                                                                         *)
(* While an executor runs, executeTool holds an iterator to it: calls that *)
(* unregister or replace the tool it is running would leave that dangling, *)
(* and are left out.  So are reliabilities, capabilities and searches.     *)
(* All dependencies are taken to be met, as checkToolDependencies does.    *)
(***************************************************************************)
EXTENDS Naturals, SequencesExt, StdContainers

CONSTANTS
  ToolNames,
  ToolCategories,
  DiscoveredTools, DiscoveredAs,   \* the tools the constructor registers, and their category
  MaxUses       \* bound: uses of a tool between two resets

ASSUME RegistryAssumption ==
  MaxUses \in Nat /\ DiscoveredTools \subseteq ToolNames /\ DiscoveredAs \in ToolCategories

VARIABLES
  catalog,      \* name -> [category, status, uses]
  byCategory,   \* _tools_by_category: category -> names
  runningTools, \* the tools inside executeTool, the innermost first
  abandoned     \* history: the tools whose executor threw something else than an exception

toolRegistryVars == <<catalog, byCategory, runningTools, abandoned>>

NewTool(c) == [category |-> c, status |-> "AVAILABLE", uses |-> 0]
ToolStatuses == {"AVAILABLE", "BUSY", "UNAVAILABLE", "ERROR"}
-----------------------------------------------------------------------------
MutantListOnce(n, c) ==
  /\ n \notin ToSet(runningTools)
  /\ catalog' = With(catalog, n, NewTool(c))
  /\ byCategory' = IF n \in DOMAIN catalog THEN byCategory ELSE [byCategory EXCEPT ![c] = @ \cup {n}]
  /\ abandoned' = abandoned \ {n}
  /\ UNCHANGED runningTools
\* The name stays in the index of the category it had before
RegisterTool(n, c) ==
  /\ n \notin ToSet(runningTools)
  /\ catalog' = With(catalog, n, NewTool(c))
  /\ byCategory' = [byCategory EXCEPT ![c] = @ \cup {n}]
  /\ abandoned' = abandoned \ {n}
  /\ UNCHANGED runningTools

UnregisterTool(n) ==
  /\ n \in DOMAIN catalog \ ToSet(runningTools)
  /\ byCategory' = [byCategory EXCEPT ![catalog[n].category] = @ \ {n}]
  /\ catalog' = Without(catalog, {n}) /\ abandoned' = abandoned \ {n}
  /\ UNCHANGED runningTools

\* Callers leave the statuses of tools that run, and BUSY, to executeTool
UpdateToolStatus(n, status) ==
  /\ n \in DOMAIN catalog \ ToSet(runningTools) /\ status \in ToolStatuses \ {"BUSY"}
  /\ catalog' = [catalog EXCEPT ![n].status = status] /\ abandoned' = abandoned \ {n}
  /\ UNCHANGED <<byCategory, runningTools>>

MutantRecoverAll ==
  /\ catalog' = [n \in DOMAIN catalog |-> [catalog[n] EXCEPT !.status = "AVAILABLE"]]
  /\ UNCHANGED <<byCategory, runningTools, abandoned>>
RefreshToolAvailability ==
  /\ catalog' = [n \in DOMAIN catalog |->
                   [catalog[n] EXCEPT !.status = IF @ = "UNAVAILABLE" THEN "AVAILABLE" ELSE @]]
  /\ UNCHANGED <<byCategory, runningTools, abandoned>>

\* executeTool up to the call of the executor
BeginTool(n) ==
  /\ n \in DOMAIN catalog /\ catalog[n].status = "AVAILABLE" /\ catalog[n].uses < MaxUses
  /\ catalog' = [catalog EXCEPT ![n].status = "BUSY"]
  /\ runningTools' = <<n>> \o runningTools
  /\ UNCHANGED <<byCategory, abandoned>>

FinishTool ==
  /\ runningTools # <<>>
  /\ catalog' = [catalog EXCEPT ![Head(runningTools)].status = "AVAILABLE", ![Head(runningTools)].uses = @ + 1]
  /\ runningTools' = Tail(runningTools)
  /\ UNCHANGED <<byCategory, abandoned>>

FailTool ==
  /\ runningTools # <<>>
  /\ catalog' = [catalog EXCEPT ![Head(runningTools)].status = "ERROR"]
  /\ runningTools' = Tail(runningTools)
  /\ UNCHANGED <<byCategory, abandoned>>

\* What is not a std::exception passes through, out of the executors around it as well
EscapeTools ==
  /\ runningTools # <<>>
  /\ runningTools' = <<>> /\ abandoned' = abandoned \cup ToSet(runningTools)
  /\ UNCHANGED <<catalog, byCategory>>

ClearToolStatistics ==
  /\ catalog' = [n \in DOMAIN catalog |-> [catalog[n] EXCEPT !.uses = 0]]
  /\ UNCHANGED <<byCategory, runningTools, abandoned>>

ToolRegistryInit ==
  /\ catalog = [n \in DiscoveredTools |-> NewTool(DiscoveredAs)]
  /\ byCategory = [c \in ToolCategories |-> IF c = DiscoveredAs THEN DiscoveredTools ELSE {}]
  /\ runningTools = <<>> /\ abandoned = {}

\* executeToolChain is executeTool again and again, until one fails
ToolRegistryNext ==
  \/ \E n \in ToolNames :
       \/ \E c \in ToolCategories : RegisterTool(n, c)
       \/ UnregisterTool(n) \/ BeginTool(n)
       \/ \E status \in ToolStatuses : UpdateToolStatus(n, status)
  \/ RefreshToolAvailability \/ FinishTool \/ FailTool \/ EscapeTools \/ ClearToolStatistics
-----------------------------------------------------------------------------
\* However executors call back, no tool runs inside itself: the tools that run are the busy
\* ones, and a tool stays busy only when its executor's throw escaped.  A registered tool is
\* found in its category.
RegistryAgrees ==
  /\ IsInjective(runningTools)
  /\ {n \in DOMAIN catalog : catalog[n].status = "BUSY"} = ToSet(runningTools) \cup abandoned
  /\ ToSet(runningTools) \cap abandoned = {}
  /\ \A n \in DOMAIN catalog : n \in byCategory[catalog[n].category]
=============================================================================
