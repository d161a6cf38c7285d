---------------------------- MODULE KnowledgeBase ----------------------------
(***************************************************************************)
(* KnowledgeBase (src/agentzero-knowledge/src/KnowledgeBase.cpp): triples  *)
(* in the AtomSpace, and queries by patterns.  An atom is <<type, name>>.  *)
(* No other query changes or remembers anything, and reads the AtomSpace   *)
(* as it is.                                                               *)
(*                                                                         *)
(* A row of an answer comes from one triple per pattern, so the rows are   *)
(* the sequences of triples that fit.  A variable that an earlier pattern  *)
(* bound constrains nothing (its handle is looked up and not compared) and *)
(* is bound again.                                                         *)
(***************************************************************************)
EXTENDS Naturals, SequencesExt

CONSTANTS
  FactNames, RelationNames,  \* of concepts and of predicates
  Unknowns,                  \* variables of queries
  RowLimits,                 \* 0 is unlimited
  NoAnswer,
  MaxFacts                   \* bound: triples in the AtomSpace

ASSUME KnowledgeAssumption ==
  /\ Unknowns \cap (FactNames \cup RelationNames) = {}
  /\ RowLimits \subseteq Nat /\ MaxFacts \in Nat

VARIABLES
  nodes,   \* the nodes of _atomspace
  facts,   \* its EvaluationLinks, as <<subject, predicate, object>>
  opened,  \* _initialized
  answer   \* the last one, while the facts are those it was given for

knowledgeVars == <<nodes, facts, opened, answer>>

Concept(n) == <<"concept", n>>
Predicate(n) == <<"predicate", n>>
-----------------------------------------------------------------------------
MutantConceptsOnly(n) == {Concept(n)} \cap nodes
\* The handle of a name, a concept before a predicate; none if neither is there
ResolveField(n) == IF Concept(n) \in nodes THEN {Concept(n)} ELSE {Predicate(n)} \cap nodes

\* A field against an atom: a variable, or a name that is nothing's, constrains nothing
Allows(field, atom) == field \in Unknowns \/ ResolveField(field) \in {{}, {atom}}

MutantBoundOnly(pattern, f) ==
  \A k \in 1..2 : Allows(pattern[k], f[k])
\* With a subject and a predicate to start from, the predicate is looked up by its name
\* (findObjects); otherwise each link is compared as it is
FitsPattern(pattern, f) ==
  LET subject == ResolveField(pattern[1])
      relation == ResolveField(pattern[2])
  IN /\ IF pattern[1] \notin Unknowns /\ subject # {} /\ pattern[2] \notin Unknowns /\ relation # {}
        THEN {f[1]} = subject /\ f[2] = Predicate(pattern[2])
        ELSE Allows(pattern[1], f[1]) /\ Allows(pattern[2], f[2])
     /\ Allows(pattern[3], f[3])

Fields(patterns) == {<<i, k>> : i \in DOMAIN patterns, k \in 1..3}
Field(patterns, x) == patterns[x[1]][x[2]]
VariablesOf(patterns) == {Field(patterns, x) : x \in Fields(patterns)} \cap Unknowns

\* The bindings that a triple per pattern leaves, later ones over earlier ones
RowOf(patterns, row) ==
  [v \in VariablesOf(patterns) |->
     LET at == {x \in Fields(patterns) : Field(patterns, x) = v}
         last == CHOOSE x \in at : \A y \in at : y[1] < x[1] \/ (y[1] = x[1] /\ y[2] <= x[2])
     IN row[last[1]][last[2]]]

MatchPatterns(patterns) ==
  {row \in [DOMAIN patterns -> facts] : \A i \in DOMAIN patterns : FitsPattern(patterns[i], row[i])}

\* The links are walked in no particular order, and the walk stops at the limit
Query(patterns, limit) ==
  /\ opened /\ patterns # <<>>
  /\ LET rows == MatchPatterns(patterns)
         enough == IF limit = 0 THEN Cardinality(rows) ELSE Min({limit, Cardinality(rows)})
     IN \E taken \in kSubset(enough, rows) :
          answer' = [patterns |-> patterns, limit |-> limit, count |-> enough,
                     rows |-> {RowOf(patterns, row) : row \in taken}]
  /\ UNCHANGED <<nodes, facts, opened>>

LoadTriple(s, p, o) ==
  /\ nodes' = nodes \cup {Concept(s), Predicate(p), Concept(o)}
  /\ facts' = facts \cup {<<Concept(s), Predicate(p), Concept(o)>>}
  /\ Cardinality(facts') <= MaxFacts
  /\ answer' = NoAnswer /\ UNCHANGED opened

\* addAtom of a node
AddKnowledgeNode(a) ==
  /\ nodes' = nodes \cup {a} /\ answer' = NoAnswer
  /\ UNCHANGED <<facts, opened>>

\* removeAtom of a link
RemoveFact(f) ==
  /\ facts' = facts \ {f} /\ answer' = NoAnswer
  /\ UNCHANGED <<nodes, opened>>

ClearKnowledge ==
  /\ nodes' = {} /\ facts' = {} /\ answer' = NoAnswer
  /\ UNCHANGED opened

\* initialize and shutdown
SetOpened(b) ==
  /\ opened' = b /\ UNCHANGED <<nodes, facts, answer>>

KnowledgeInit == nodes = {} /\ facts = {} /\ opened = FALSE /\ answer = NoAnswer

KnowledgeNext(queries) ==
  \/ \E s, o \in FactNames, p \in RelationNames : LoadTriple(s, p, o)
  \/ \E n \in FactNames : AddKnowledgeNode(Concept(n))
  \/ \E f \in facts : RemoveFact(f)
  \/ ClearKnowledge
  \/ \E b \in BOOLEAN : SetOpened(b)
  \/ \E q \in queries, limit \in RowLimits : Query(q, limit)
-----------------------------------------------------------------------------
\* Queries whose names are known, each as what it stands for, and whose variables occur once
Plain(patterns) ==
  /\ \A x \in Fields(patterns) :
       LET n == Field(patterns, x)
       IN \/ n \in Unknowns
          \/ x[2] # 2 /\ Concept(n) \in nodes
          \/ x[2] = 2 /\ Predicate(n) \in nodes /\ Concept(n) \notin nodes
  /\ \A x, y \in Fields(patterns) :
       Field(patterns, x) = Field(patterns, y) /\ Field(patterns, x) \in Unknowns => x = y

\* A plain query is answered by the bindings that make every pattern a triple of the
\* AtomSpace: by all of them when there is no limit, each in one row, and by no other.
QueriesAnswered ==
  answer # NoAnswer /\ Plain(answer.patterns) =>
    LET patterns == answer.patterns
        unknown == VariablesOf(patterns)
        Atom(b, i, k) == LET n == patterns[i][k]
                         IN IF n \in Unknowns THEN b[n] ELSE IF k = 2 THEN Predicate(n) ELSE Concept(n)
        right == {b \in [unknown -> nodes] :
                    \A i \in DOMAIN patterns : <<Atom(b, i, 1), Atom(b, i, 2), Atom(b, i, 3)>> \in facts}
    IN /\ answer.rows \subseteq right /\ Cardinality(answer.rows) = answer.count
       /\ answer.limit = 0 \/ answer.count < answer.limit => answer.rows = right
       /\ answer.limit # 0 => answer.count <= answer.limit
=============================================================================
