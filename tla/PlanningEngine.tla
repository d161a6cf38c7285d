---------------------------- MODULE PlanningEngine ----------------------------
(***************************************************************************)
(* PlanningEngine of agentzero-planning                                    *)
(* (src/agentzero-planning/src/PlanningEngine.cpp): plans from operators   *)
(* and methods, and their execution against a world everybody shares.      *)
(*                                                                         *)
(* Goals, tasks, fluents and operators share one space of names, here      *)
(* numbers in the order of their strings.  A plan is named by its goal:    *)
(* calls with the atom of a plan that was replaced find nothing.  Plans    *)
(* are confident enough to be kept; costs and the time planning takes,     *)
(* which only give a failure another name, are left out, as are the        *)
(* temporal and the resource strategies and the hierarchy's goal status,   *)
(* which follows the plan's.                                               *)
(***************************************************************************)
EXTENDS Naturals, SequencesExt, StdContainers

CONSTANTS
  PlanGoals,       \* names plans are made for
  PlanStrategies,  \* of "STRIPS" (FORWARD_SEARCH and BACKWARD_SEARCH do the same), "HIERARCHICAL", "HYBRID"
  MaxExpansions,   \* max_expansions
  MaxPlanDepth,    \* _max_plan_depth
  MaxPlanActions,  \* _max_actions_per_plan
  MaxMethods       \* bound: methods of a task

\* 0 is the name of no goal
ASSUME PlanningAssumption ==
  /\ MaxExpansions \in Nat /\ MaxPlanDepth \in Nat /\ MaxPlanActions \in Nat /\ MaxMethods \in Nat
  /\ PlanGoals \subseteq Nat \ {0}

VARIABLES
  operators,   \* _operators: name -> [pre, add, del]
  methods,     \* _methods: task -> sequence of [pre, subtasks]
  fluents,     \* _world_state
  plans,       \* _active_plans: goal -> [actions, next, status, strategy, aims]
  disturbed    \* what happened: goals whose plan was not made for what it now meets

planningVars == <<operators, methods, fluents, plans, disturbed>>
-----------------------------------------------------------------------------
(* stripsPlanning: breadth first, operators by name *)

Apply(o, w) == (w \ operators[o].del) \cup operators[o].add
Applicable(o, w) == operators[o].pre \subseteq w

Failure(w) == [ok |-> FALSE, actions |-> <<>>, world |-> w]
Success(actions, w) == [ok |-> TRUE, actions |-> actions, world |-> w]

MutantVisitAnyway(acc, cur, o, aims) ==
  LET next == [world |-> Apply(o, cur.world), actions |-> Append(cur.actions, o)]
  IN IF acc.found # <<>> \/ next.world \in acc.visited THEN acc
     ELSE [found |-> IF aims \subseteq next.world THEN next.actions ELSE <<>>,
           queue |-> Append(acc.queue, next), visited |-> acc.visited \cup {next.world}]
\* One operator tried in one world
Visit(acc, cur, o, aims) ==
  LET next == [world |-> Apply(o, cur.world), actions |-> Append(cur.actions, o)]
  IN IF acc.found # <<>> \/ ~Applicable(o, cur.world) \/ next.world \in acc.visited THEN acc
     ELSE [found |-> IF aims \subseteq next.world THEN next.actions ELSE <<>>,
           queue |-> Append(acc.queue, next), visited |-> acc.visited \cup {next.world}]

\* One expansion.  A world as many actions away as a plan may have is still expanded
Expand(s, aims) ==
  LET cur == Head(s.queue)
      ops == Ascending(DOMAIN operators)
  IN IF s.found # <<>> \/ s.queue = <<>> THEN s
     ELSE IF Len(cur.actions) > MaxPlanActions THEN [s EXCEPT !.queue = Tail(@)]
     ELSE FoldLeft(LAMBDA acc, o : Visit(acc, cur, o, aims), [s EXCEPT !.queue = Tail(@)], ops)

Search(aims, w) ==
  LET start == [found |-> <<>>, queue |-> <<[world |-> w, actions |-> <<>>]>>, visited |-> {w}]
      after[n \in 0..MaxExpansions] == IF n = 0 THEN start ELSE Expand(after[n - 1], aims)
      end == after[MaxExpansions]
  IN IF aims \subseteq w THEN Success(<<>>, w)
     ELSE IF end.found # <<>> THEN Success(end.found, w) ELSE Failure(w)
-----------------------------------------------------------------------------
(* hierarchicalPlanning: only an operator leaves its effects in the world.  What a level   *)
(* finds is a function of the task and of the world                                        *)

\* What follows what, each in the world the one before left
InTurn(finds, tasks, w, limit) ==
  FoldLeft(LAMBDA acc, t :
             IF ~acc.ok THEN acc
             ELSE LET r == finds[t][acc.world]
                  IN IF r.ok /\ Len(acc.actions \o r.actions) <= limit
                     THEN Success(acc.actions \o r.actions, r.world) ELSE Failure(r.world),
           Success(<<>>, w), tasks)

\* One level, over what those below it find; the first method counts that leads anywhere
Decompose(below) ==
  [task \in Nat |-> [w \in SUBSET Nat |->
     LET Try(m) == IF m.pre \subseteq w THEN InTurn(below, m.subtasks, w, MaxPlanActions) ELSE Failure(w)
         first == SelectInSeq(methods[task], LAMBDA m : Try(m).ok)
     IN IF task \in DOMAIN operators
        THEN IF Applicable(task, w) THEN Success(<<task>>, Apply(task, w)) ELSE Failure(w)
        ELSE IF task \notin DOMAIN methods THEN Search({task}, w)
        ELSE IF first = 0 THEN Failure(w)
        ELSE Success(Try(methods[task][first]).actions, w)]]

Decomposed[depth \in 0..MaxPlanDepth + 1] ==
  IF depth = 0 THEN [task \in Nat |-> [w \in SUBSET Nat |-> Failure(w)]] ELSE Decompose(Decomposed[depth - 1])
-----------------------------------------------------------------------------
(* Making plans *)

UsesMethods(strategy, tasks) ==
  \/ strategy = "HIERARCHICAL"
  \/ strategy = "HYBRID" /\ ToSet(tasks) \cap DOMAIN methods # {}

\* What a strategy finds for the tasks; many tasks may have more actions than one
Generate(strategy, tasks) ==
  IF UsesMethods(strategy, tasks)
  THEN InTurn(Decomposed[MaxPlanDepth + 1], tasks, fluents, Len(tasks) * (MaxPlanActions + 1))
  ELSE Search(ToSet(tasks), fluents)

\* A plan whose actions were each planned for the world they will meet: effects of a task
\* that is not an operator are not in the world of what follows it
MadeInOrder(strategy, tasks) ==
  \/ ~UsesMethods(strategy, tasks)
  \/ ToSet(tasks) \subseteq DOMAIN operators
  \/ /\ Len(tasks) = 1
     /\ tasks[1] \in DOMAIN methods =>
          \A m \in ToSet(methods[tasks[1]]) : ToSet(m.subtasks) \subseteq DOMAIN operators

\* What the plan is to achieve: a task with an operator or a method promises no fluent
Aims(strategy, tasks) ==
  IF UsesMethods(strategy, tasks) THEN ToSet(tasks) \ (DOMAIN operators \cup DOMAIN methods) ELSE ToSet(tasks)

MutantWorldOfPlanning(before, after) == after
\* The snapshot of the world is put back
WorldAfter(before, after) == before

NewPlan(strategy, tasks, actions) ==
  [actions |-> actions, next |-> 0, status |-> "NOT_STARTED", aims |-> Aims(strategy, tasks),
   strategy |-> IF strategy = "HYBRID" /\ ~UsesMethods(strategy, tasks) THEN "STRIPS" ELSE strategy]

Keep(g, strategy, tasks, actions) ==
  /\ plans' = With(plans, g, NewPlan(strategy, tasks, actions))
  /\ disturbed' = IF MadeInOrder(strategy, tasks) THEN disturbed \ {g} ELSE disturbed \cup {g}

\* generatePlan for the tasks the hierarchy offers, which are its leaves or the goal itself
CreatePlan(g, strategy, tasks) ==
  /\ LET r == Generate(strategy, tasks)
     IN /\ IF r.ok THEN Keep(g, strategy, tasks, r.actions) ELSE UNCHANGED <<plans, disturbed>>
        /\ fluents' = WorldAfter(fluents, r.world)
  /\ UNCHANGED <<operators, methods>>

AdaptPlan(g, tasks) ==
  /\ g \in DOMAIN plans
  /\ LET r == Generate(plans[g].strategy, tasks)
     IN /\ IF r.ok THEN Keep(g, plans[g].strategy, tasks, r.actions)
           ELSE plans' = [plans EXCEPT ![g].status = "FAILED"] /\ UNCHANGED disturbed
        /\ fluents' = WorldAfter(fluents, r.world)
  /\ UNCHANGED <<operators, methods>>

CancelPlan(g) ==
  /\ g \in DOMAIN plans
  /\ plans' = [plans EXCEPT ![g].status = "CANCELLED"]
  /\ UNCHANGED <<operators, methods, fluents, disturbed>>

\* And what was executing is cancelled; the engine is initialized again by the next plan
ShutdownPlanning ==
  /\ plans' = [g \in DOMAIN plans |->
       [plans[g] EXCEPT !.status = IF @ = "EXECUTING" THEN "CANCELLED" ELSE @]]
  /\ UNCHANGED <<operators, methods, fluents, disturbed>>
-----------------------------------------------------------------------------
(* Execution *)

\* Any plan is executed from its beginning, whatever its status
StartExecution(g) ==
  /\ g \in DOMAIN plans
  /\ plans' = [plans EXCEPT ![g].status = "EXECUTING", ![g].next = 0]
  /\ disturbed' = IF plans[g].next = 0 THEN disturbed ELSE disturbed \cup {g}
  /\ UNCHANGED <<operators, methods, fluents>>

\* The world moves for g: everybody else's plan was made for another one
Move(g, w) ==
  /\ fluents' = w
  /\ disturbed' = IF w = fluents THEN disturbed ELSE disturbed \cup (DOMAIN plans \ {g})

MutantAdvanceFirst(g, next) == Move(g, IF next + 1 \in DOMAIN plans[g].actions /\ Applicable(plans[g].actions[next + 1], fluents)
                                       THEN Apply(plans[g].actions[next + 1], fluents) ELSE fluents)
\* applyOperatorEffects: an action that is not applicable changes nothing, and the plan goes on
Perform(g, next) == Move(g, IF Applicable(plans[g].actions[next], fluents)
                            THEN Apply(plans[g].actions[next], fluents) ELSE fluents)

\* With the last action, done or not, the plan is complete and the hierarchy told so
StepExecution(g) ==
  /\ g \in DOMAIN plans /\ plans[g].status = "EXECUTING"
  /\ LET next == plans[g].next + 1
         last == next >= Len(plans[g].actions)
     IN /\ IF next <= Len(plans[g].actions)
           THEN /\ Perform(g, next)
                /\ plans' = [plans EXCEPT ![g].next = next,
                                          ![g].status = IF last THEN "COMPLETED" ELSE @]
           ELSE plans' = [plans EXCEPT ![g].status = "COMPLETED"] /\ UNCHANGED <<fluents, disturbed>>
  /\ UNCHANGED <<operators, methods>>

\* An executor of its own reports what it did.  The first action of that name counts, so
\* that the second occurrence of an action can never be marked
MarkActionCompleted(g, o) ==
  /\ g \in DOMAIN plans
  /\ plans[g].next + 1 \in DOMAIN plans[g].actions
  /\ SelectInSeq(plans[g].actions, LAMBDA a : a = o) = plans[g].next + 1
  /\ Perform(g, plans[g].next + 1)
  /\ plans' = [plans EXCEPT ![g].next = @ + 1,
       ![g].status = IF plans[g].next + 1 = Len(plans[g].actions) THEN "COMPLETED" ELSE @]
  /\ UNCHANGED <<operators, methods>>
-----------------------------------------------------------------------------
(* The domain *)

SetFluent(f, value) ==
  /\ Move(0, IF value THEN fluents \cup {f} ELSE fluents \ {f})
  /\ UNCHANGED <<operators, methods, plans>>

RegisterOperator(o, form) ==
  /\ operators' = With(operators, o, form)
  /\ disturbed' = DOMAIN plans
  /\ UNCHANGED <<methods, fluents, plans>>

RegisterMethod(task, m) ==
  /\ task \in DOMAIN methods => Len(methods[task]) < MaxMethods
  /\ methods' = With(methods, task, IF task \in DOMAIN methods THEN Append(methods[task], m) ELSE <<m>>)
  /\ UNCHANGED <<operators, fluents, plans, disturbed>>

PlanningInit(library, ways) ==
  /\ operators = library /\ methods = ways
  /\ fluents = {} /\ plans = NoKeys /\ disturbed = {}

\* offered[g] are the tasks a hierarchy may offer for g
PlanningStep(offered) ==
  \E g \in PlanGoals :
    \/ \E tasks \in offered[g] : AdaptPlan(g, tasks) \/ \E strategy \in PlanStrategies : CreatePlan(g, strategy, tasks)
    \/ CancelPlan(g) \/ StartExecution(g) \/ StepExecution(g)
    \/ \E o \in DOMAIN operators : MarkActionCompleted(g, o)

\* News are fluents, forms of operators and ways of tasks that may come up
DomainStep(news, forms, ways) ==
  \/ \E f \in news, value \in BOOLEAN : SetFluent(f, value)
  \/ \E o \in DOMAIN forms : RegisterOperator(o, forms[o])
  \/ \E t \in DOMAIN ways : RegisterMethod(t, ways[t])
  \/ ShutdownPlanning
-----------------------------------------------------------------------------
(* Properties *)

\* The world after a sequence of actions, or "stuck" before one that is not applicable
Outcome(actions, w) ==
  FoldLeft(LAMBDA u, o : IF u.stuck \/ ~Applicable(o, u.world) THEN [u EXCEPT !.stuck = TRUE]
                         ELSE [u EXCEPT !.world = Apply(o, @)],
           [world |-> w, stuck |-> FALSE], actions)

Achieves(actions, w, aims) == ~Outcome(actions, w).stuck /\ aims \subseteq Outcome(actions, w).world

\* What is left of a plan can be executed in the world as it is and leads to what the plan
\* was made for, and a plan that is complete has led there, so long as nothing but the
\* plan itself has changed the world or the operators since, and no other plan ran; and a
\* plan that was searched for is as short as any.
PlansReachTheirGoals ==
  \A g \in DOMAIN plans \ disturbed :
    LET p == plans[g]
        rest == SubSeq(p.actions, p.next + 1, Len(p.actions))
    IN /\ Achieves(rest, fluents, p.aims)
       /\ p.strategy = "STRIPS" =>
            \A n \in 0..Len(rest) - 1 : \A other \in [1..n -> DOMAIN operators] :
              ~Achieves(other, fluents, p.aims)
=============================================================================
