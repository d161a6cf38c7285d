--------------------------- MODULE ReasoningEngine ---------------------------
(***************************************************************************)
(* ReasoningEngine (src/src/ReasoningEngine.cpp) with the rules every      *)
(* agent starts with (Agent::buildDefaultRules).                           *)
(*                                                                         *)
(* One thread runs cycles; others tell the store inheritance links while a *)
(* rule walks through them.  The walk is a step per link: the inner loop   *)
(* scans a copy of all links, and one told after the copy was made might   *)
(* as well have been told after the loop.  Of the two other rules only     *)
(* this matters: their conditions, once true, stay true.                   *)
(***************************************************************************)
EXTENDS Integers, SequencesExt, StdContainers

CONSTANTS
  Concepts,
  Transitivity,   \* the name of the rule over inheritance links
  OtherRules,     \* names of rules whose condition is that a goal or salient percept exists
  RulePriorities,
  PassLimits,     \* values of maxCycles, 0 for no limit
  MaxRules, MaxTold   \* bounds: rules added, links told

ASSUME ReasoningAssumption ==
  Transitivity \notin OtherRules /\ RulePriorities \subseteq Int /\ PassLimits \subseteq Nat

VARIABLES
  rules,    \* _rules: name, priority, and when each was added
  added,    \* rules added so far
  isA,      \* INHERITANCE links in the store
  told,     \* those of them that were told
  noticed,  \* whether a goal or salient percept exists
  chain,    \* the call under way, or NoChain: its limit, passes done, next rule, whether that rule walks
            \* and the links it has still to walk from, whether a rule fired, whether nothing was
            \* told since the call
  covered   \* passes asked for since a link was told or the rule over links was removed, up to two

reasoningVars == <<rules, added, isA, told, noticed, chain, covered>>

NoChain == [limit |-> -1]
RuleNames == OtherRules \cup {Transitivity}
WalksLinks == \E i \in DOMAIN rules : rules[i].name = Transitivity
-----------------------------------------------------------------------------
(* Rules *)

MutantLater(r, s) == TRUE
\* The order addRule sorts by
Before(r, s) == r.priority > s.priority

\* addRule: the others are in order, so the stable sort moves the new rule, which is last,
\* before those it goes before
AddRule(name, priority) ==
  /\ chain = NoChain /\ added < MaxRules
  /\ LET r == [name |-> name, priority |-> priority, born |-> added]
         ahead == Cardinality({i \in DOMAIN rules : ~Before(r, rules[i])})
     IN rules' = InsertAt(rules, ahead + 1, r)
  /\ added' = added + 1
  /\ UNCHANGED <<isA, told, noticed, chain, covered>>

RemoveRule(name) ==
  /\ chain = NoChain
  /\ rules' = ElementsAt(rules, {i \in DOMAIN rules : rules[i].name # name})
  /\ covered' = IF name = Transitivity THEN 0 ELSE covered
  /\ UNCHANGED <<added, isA, told, noticed, chain>>
-----------------------------------------------------------------------------
(* What the rules read *)

Tell(a, b) ==
  /\ <<a, b>> \notin told /\ Cardinality(told) < MaxTold
  /\ told' = told \cup {<<a, b>>} /\ isA' = isA \cup {<<a, b>>}
  /\ chain' = IF chain = NoChain THEN NoChain ELSE [chain EXCEPT !.clean = FALSE]
  /\ covered' = 0
  /\ UNCHANGED <<rules, added, noticed>>

Notice ==
  /\ ~noticed /\ noticed' = TRUE
  /\ UNCHANGED <<rules, added, isA, told, chain, covered>>
-----------------------------------------------------------------------------
(* Forward chaining; runCycle is a chain of one pass *)

Chainable == \E ab, bc \in isA : ab[2] = bc[1]
Applies(r) == IF r.name = Transitivity THEN Chainable ELSE noticed

RunForwardChaining(limit) ==
  /\ chain = NoChain
  /\ chain' = [limit |-> limit, passes |-> 0, at |-> 1, walks |-> FALSE, todo |-> {},
               fired |-> FALSE, clean |-> TRUE]
  /\ UNCHANGED <<rules, added, isA, told, noticed, covered>>

\* A rule's condition, and the start of its action
TryRule ==
  /\ chain # NoChain /\ ~chain.walks /\ chain.at <= Len(rules)
  /\ LET r == rules[chain.at]
         walks == r.name = Transitivity /\ Applies(r)
     IN chain' = [chain EXCEPT !.at = @ + 1, !.fired = @ \/ Applies(r),
                               !.walks = walks, !.todo = IF walks THEN isA ELSE {}]
  /\ UNCHANGED <<rules, added, isA, told, noticed, covered>>

MutantBackwards(ab) == {<<bc[2], ab[1]>> : bc \in {l \in isA : l[1] = ab[2]}}
\* What follows from A -> B and every B -> C
Follows(ab) == {<<ab[1], bc[2]>> : bc \in {l \in isA : l[1] = ab[2]}}

InferFrom(ab) ==
  /\ chain # NoChain /\ ab \in chain.todo
  /\ isA' = isA \cup Follows(ab)
  /\ chain' = [chain EXCEPT !.todo = @ \ {ab}, !.walks = chain.todo # {ab}]
  /\ UNCHANGED <<rules, added, told, noticed, covered>>

MutantOneShort(c) == c.limit > 0 /\ c.passes + 2 >= c.limit
LimitReached(c) == c.limit > 0 /\ c.passes + 1 >= c.limit

\* After a pass: the call returns if nothing fired or the limit is reached
EndPass ==
  /\ chain # NoChain /\ ~chain.walks /\ chain.at > Len(rules)
  /\ \/ /\ chain.fired /\ ~LimitReached(chain)
        /\ chain' = [chain EXCEPT !.passes = IF chain.limit = 0 THEN 0 ELSE @ + 1,
                                  !.at = 1, !.fired = FALSE]
        /\ UNCHANGED covered
     \/ /\ ~chain.fired \/ LimitReached(chain)
        /\ chain' = NoChain
        /\ covered' = IF ~chain.clean \/ ~WalksLinks THEN covered
                      ELSE IF chain.limit = 1 THEN Min({covered + 1, 2}) ELSE 2
  /\ UNCHANGED <<rules, added, isA, told, noticed>>
-----------------------------------------------------------------------------
\* An engine starts without rules; an agent adds the default ones before it is used
DefaultRules ==
  {<<[name |-> other, priority |-> 2, born |-> 0], [name |-> Transitivity, priority |-> 1, born |-> 1]>> :
     other \in OtherRules}

ReasoningInit ==
  /\ rules \in {<<>>} \cup DefaultRules /\ added = Len(rules)
  /\ isA = {} /\ told = {} /\ noticed = FALSE
  /\ chain = NoChain /\ covered = 0

RuleStep ==
  \E name \in RuleNames :
    RemoveRule(name) \/ \E priority \in RulePriorities : AddRule(name, priority)

ChainStep ==
  \/ \E limit \in PassLimits : RunForwardChaining(limit)
  \/ TryRule \/ EndPass
  \/ chain # NoChain /\ \E ab \in chain.todo : InferFrom(ab)

ReasoningNext ==
  \/ RuleStep \/ ChainStep \/ Notice
  \/ \E a, b \in Concepts : Tell(a, b)

ReasoningSpec == ReasoningInit /\ [][ReasoningNext]_reasoningVars
-----------------------------------------------------------------------------
\* Rules fire by falling priority, equal ones in the order they were added
RulesInOrder ==
  \A i, j \in DOMAIN rules :
    i < j => \/ rules[i].priority > rules[j].priority
             \/ rules[i].priority = rules[j].priority /\ rules[i].born < rules[j].born

\* b is in every set that the links from a and from its own members lead into
Leads(links, a, b) ==
  \A S \in SUBSET Concepts :
    (\A l \in links : l[1] \in S \cup {a} => l[2] \in S) => b \in S

\* The links, and those from the beginning to the end of two of them
Doubled(links) == links \cup UNION {{<<l[1], m[2]>> : m \in {n \in links : n[1] = l[2]}} : l \in links}

\* Nothing is inferred that does not follow, however telling and walking interleave; and each
\* pass with nothing told meanwhile doubles the paths that are covered, so that two of them
\* infer all that follows from up to four links
InferredRightly ==
  /\ \A l \in isA : Leads(told, l[1], l[2])
  /\ covered > 0 => Doubled(told) \subseteq isA
  /\ covered = 2 => Doubled(Doubled(told)) \subseteq isA

InferenceIsSound == RulesInOrder /\ InferredRightly
=============================================================================
