---------------------------- MODULE GoalHierarchy ----------------------------
(***************************************************************************)
(* GoalHierarchy (agentzero-planning/src/GoalHierarchy.cpp): a forest of   *)
(* goals with prerequisites between them.  It has no lock: one thread      *)
(* calls it, and each operation is an action.                              *)
(*                                                                         *)
(* Statuses and levels of satisfaction decide which goals are activated    *)
(* and planned next, but change neither the forest nor the prerequisites;  *)
(* they, priorities and the atoms that mirror the goals are left out.      *)
(***************************************************************************)
EXTENDS Integers, SequencesExt, StdContainers

CONSTANTS
  GoalAtoms,
  MaxHierarchyDepth,   \* _max_hierarchy_depth
  MaxSubgoals          \* _max_subgoals_per_goal

ASSUME GoalAssumption == MaxHierarchyDepth \in Nat /\ MaxSubgoals \in Nat

VARIABLES
  goalNodes,        \* _goal_nodes: per goal, its parent if any, its subgoals and its dependencies
  rootGoals,        \* _root_goals
  dependencyGraph   \* _dependency_graph, as pairs of a goal and a prerequisite

goalVars == <<goalNodes, rootGoals, dependencyGraph>>

GoalsIn == DOMAIN goalNodes
-----------------------------------------------------------------------------
(* Reachability *)

ClosedUnder(S, R) == \A e \in R : e[1] \in S => e[2] \in S
Reached(R, g) ==
  LET closed == {S \in SUBSET GoalsIn : g \in S /\ ClosedUnder(S, R)}
  IN {h \in GoalsIn : \A S \in closed : h \in S}

ParentEdges == {e \in GoalsIn \X GoalsIn : e[2] \in goalNodes[e[1]].parent}

\* A goal and those above it, and a goal and those below it
Lineage(g) == Reached(ParentEdges, g)
Subtree(g) == {h \in GoalsIn : g \in Lineage(h)}

\* getHierarchyDepth: how many levels there are from g down
HierarchyDepth(g) ==
  LET tree == Subtree(g)
  IN Max({Cardinality(Lineage(h) \cap tree) : h \in tree})

\* A goal counts as depending on its parent too
GoalEdges == dependencyGraph \cup ParentEdges
MutantOwnEdges(from, to) == from \in Reached(dependencyGraph, to)
HasDependencyCycle(from, to) == from \in Reached(GoalEdges, to)
-----------------------------------------------------------------------------
(* The tree *)

NewGoal(P) == [parent |-> P, subgoals |-> <<>>, dependencies |-> {}]

\* addGoal without and with a parent, addSubgoal
AddGoal(g, P) ==
  /\ g \notin GoalsIn /\ P \subseteq GoalsIn
  /\ \A p \in P : /\ Len(goalNodes[p].subgoals) < MaxSubgoals
                  /\ HierarchyDepth(p) + 1 <= MaxHierarchyDepth
  /\ goalNodes' = [h \in GoalsIn \cup {g} |->
       IF h = g THEN NewGoal(P)
       ELSE IF h \in P THEN [goalNodes[h] EXCEPT !.subgoals = Append(@, g)] ELSE goalNodes[h]]
  /\ rootGoals' = IF P = {} THEN Append(rootGoals, g) ELSE rootGoals
  /\ UNCHANGED dependencyGraph

MutantForgetRoots(G) == rootGoals
RootsWithout(G) == Dropping(rootGoals, G)

\* A goal that no longer knows of G
Pruned(n, G) == [n EXCEPT !.subgoals = Dropping(@, G), !.dependencies = @ \ G]

\* removeGoal(g, true) for g and everything below it
RemoveSubtree(g) ==
  /\ g \in GoalsIn
  /\ LET G == Subtree(g)
     IN /\ goalNodes' = [h \in GoalsIn \ G |-> Pruned(goalNodes[h], G)]
        /\ rootGoals' = RootsWithout(G)
        /\ dependencyGraph' = {e \in dependencyGraph : e[1] \notin G /\ e[2] \notin G}

\* What becomes of h when the subgoals of g move up
Raised(h, g) ==
  LET n == goalNodes[g]
  IN [goalNodes[h] EXCEPT !.parent = IF h \in ToSet(n.subgoals) THEN n.parent ELSE @,
                          !.subgoals = IF h \in n.parent THEN @ \o n.subgoals ELSE @]

\* removeGoal(g, false)
RemoveGoal(g) ==
  /\ g \in GoalsIn
  /\ goalNodes' = [h \in GoalsIn \ {g} |-> Pruned(Raised(h, g), {g})]
  /\ rootGoals' = IF goalNodes[g].parent = {} THEN RootsWithout({g}) \o goalNodes[g].subgoals ELSE rootGoals
  /\ dependencyGraph' = {e \in dependencyGraph : e[1] # g /\ e[2] # g}

\* removeSubgoal: the subgoal becomes a root
DetachSubgoal(p, g) ==
  /\ {p, g} \subseteq GoalsIn /\ goalNodes[g].parent = {p}
  /\ goalNodes' = [goalNodes EXCEPT ![p].subgoals = Dropping(@, {g}), ![g].parent = {}]
  /\ rootGoals' = IF g \in ToSet(rootGoals) THEN rootGoals ELSE Append(rootGoals, g)
  /\ UNCHANGED dependencyGraph

ShutGoals ==
  goalNodes' = NoKeys /\ rootGoals' = <<>> /\ dependencyGraph' = {}
-----------------------------------------------------------------------------
(* Prerequisites *)

AddGoalDependency(g, pre) ==
  /\ {g, pre} \subseteq GoalsIn /\ g # pre /\ ~HasDependencyCycle(g, pre)
  /\ goalNodes' = [goalNodes EXCEPT ![g].dependencies = @ \cup {pre}]
  /\ dependencyGraph' = dependencyGraph \cup {<<g, pre>>}
  /\ UNCHANGED rootGoals

RemoveGoalDependency(g, pre) ==
  /\ g \in GoalsIn /\ pre \in goalNodes[g].dependencies
  /\ goalNodes' = [goalNodes EXCEPT ![g].dependencies = @ \ {pre}]
  /\ dependencyGraph' = dependencyGraph \ {<<g, pre>>}
  /\ UNCHANGED rootGoals
-----------------------------------------------------------------------------
GoalsInit == goalNodes = NoKeys /\ rootGoals = <<>> /\ dependencyGraph = {}

TreeStep ==
  \/ \E g \in GoalAtoms : \/ \E P \in {{}} \cup {{p} : p \in GoalsIn} : AddGoal(g, P)
                          \/ RemoveSubtree(g) \/ RemoveGoal(g)
  \/ \E p, g \in GoalsIn : DetachSubgoal(p, g)
  \/ ShutGoals

DependencyStep ==
  \E g, pre \in GoalsIn : AddGoalDependency(g, pre) \/ RemoveGoalDependency(g, pre)

GoalsNext == TreeStep \/ DependencyStep
GoalsSpec == GoalsInit /\ [][GoalsNext]_goalVars
-----------------------------------------------------------------------------
\* Every goal is once among the subgoals of its parent or among the roots, and nothing
\* else is: what getSubgoals, the recursive removals and achievements walk.
TreesAreWhole ==
  /\ \A g \in GoalsIn :
       /\ goalNodes[g].parent \subseteq GoalsIn
       /\ ToSet(goalNodes[g].subgoals) = {h \in GoalsIn : goalNodes[h].parent = {g}}
       /\ IsInjective(goalNodes[g].subgoals)
  /\ ToSet(rootGoals) = {g \in GoalsIn : goalNodes[g].parent = {}}
  /\ IsInjective(rootGoals)

\* What addGoalDependency asks before it adds an edge holds of the whole graph: in any
\* group of goals one waits for no other and is below no other, however goals were moved
\* up, detached and removed since the edges were added.
NoCycles ==
  \A S \in SUBSET GoalsIn :
    S # {} => \E g \in S : \A h \in S : <<g, h>> \notin GoalEdges

\* The graph that cycles are looked for in holds the dependencies activation waits for
GraphIsCurrent == dependencyGraph = {e \in GoalsIn \X GoalsIn : e[2] \in goalNodes[e[1]].dependencies}

GoalsAreOrdered == TreesAreWhole /\ NoCycles /\ GraphIsCurrent
=============================================================================
