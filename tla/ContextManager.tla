--------------------------- MODULE ContextManager ---------------------------
(***************************************************************************)
(* ContextManager (agentzero-memory/src/ContextManager.cpp): contexts with *)
(* the atoms they hold, and three indexes beside them.  Every operation    *)
(* holds one recursive lock from start to end and is one action.           *)
(*                                                                         *)
(* An importance is below _min_context_importance or not.  An entry of the *)
(* importance index keeps the one it was made with; contextMap on the same    *)
(* side are in any order, which stays.  Metadata, access counts, history   *)
(* and statistics change nothing here and are left out.                    *)
(***************************************************************************)
EXTENDS Integers, SequencesExt, StdContainers

CONSTANTS
  ContextIds,
  ContextTypes,
  ContextAtoms,
  MaxContexts     \* _max_contexts

ASSUME ContextAssumption == MaxContexts \in Nat

VARIABLES
  contextMap,          \* _contexts: per id its type, its atoms, whether its importance is below the least
  typeIndex,        \* _type_index, as pairs
  importanceIndex,  \* _importance_index, least important first
  atomContexts,     \* _atom_to_contexts
  activeId          \* _active_context_id, as a set of at most one

contextVars == <<contextMap, typeIndex, importanceIndex, atomContexts, activeId>>

Held == DOMAIN contextMap
-----------------------------------------------------------------------------
(* The importance index *)

InOrder(index) == \A i, j \in DOMAIN index : i < j /\ ~index[i].low => ~index[j].low

\* The index with an entry for c added where its importance belongs
Inserted(index, c, low) ==
  {x \in {InsertAt(index, i, [id |-> c, low |-> low]) : i \in 1..Len(index) + 1} : InOrder(x)}

MutantKeepOld(index, C) == index
Unlisted(index, C) == ElementsAt(index, {i \in DOMAIN index : index[i].id \notin C})

\* setContextImportance
WithImportance(c, low) ==
  /\ importanceIndex' \in Inserted(Unlisted(importanceIndex, {c}), c, low)
  /\ UNCHANGED <<typeIndex, activeId>>
-----------------------------------------------------------------------------
(* Contexts *)

\* _atom_to_contexts without the contexts in C, and without atoms in none
AtomsOutside(C) ==
  [a \in {b \in DOMAIN atomContexts : ~(atomContexts[b] \subseteq C)} |-> atomContexts[a] \ C]

MutantStayActive(C) == activeId
ActiveOutside(C) == activeId \ C

\* deleteContext of each of C
DeleteAll(C) ==
  [entries |-> Without(contextMap, C), types |-> {p \in typeIndex : p[2] \notin C},
   index |-> Unlisted(importanceIndex, C),
   atoms |-> AtomsOutside(C), active |-> ActiveOutside(C)]

\* Those cleanupLowImportanceContexts deletes: of the first contextMap, as many as there
\* are contexts too many once another one is added
Expendable ==
  LET many == IF Cardinality(Held) < MaxContexts THEN 0 ELSE Cardinality(Held) - MaxContexts + 1
      first == {importanceIndex[i] : i \in 1..Min({many, Len(importanceIndex)})}
  IN {e.id : e \in {f \in first : f.low /\ f.id \notin activeId}}

CreateContext(c, type, low) ==
  /\ c \notin Held
  /\ LET d == DeleteAll(Expendable)
     IN /\ contextMap' = With(d.entries, c, [type |-> type, atoms |-> {}, low |-> low])
        /\ typeIndex' = d.types \cup {<<type, c>>}
        /\ importanceIndex' \in Inserted(d.index, c, low)
        /\ atomContexts' = d.atoms /\ activeId' = d.active

DeleteContext(c) ==
  /\ c \in Held
  /\ LET d == DeleteAll({c})
     IN /\ contextMap' = d.entries /\ typeIndex' = d.types /\ importanceIndex' = d.index
        /\ atomContexts' = d.atoms /\ activeId' = d.active

\* Also shutdown
ClearAllContexts ==
  /\ contextMap' = NoKeys /\ typeIndex' = {} /\ importanceIndex' = <<>>
  /\ atomContexts' = NoKeys /\ activeId' = {}

\* setActiveContext; updateContextImportance leaves no importance below the least, and the index as it is
ActivateContext(c) ==
  /\ c \in Held
  /\ activeId' = {c}
  /\ contextMap' = [contextMap EXCEPT ![c].low = FALSE]
  /\ UNCHANGED <<typeIndex, importanceIndex, atomContexts>>

ClearActiveContext ==
  activeId' = {} /\ UNCHANGED <<contextMap, typeIndex, importanceIndex, atomContexts>>
-----------------------------------------------------------------------------
(* Atoms *)

\* atomContexts with the atoms A in context c as well
AlsoIn(A, c) ==
  [a \in DOMAIN atomContexts \cup A |->
     (IF a \in DOMAIN atomContexts THEN atomContexts[a] ELSE {}) \cup (IF a \in A THEN {c} ELSE {})]

\* and with those of A not in c
NotIn(A, c) ==
  [a \in {b \in DOMAIN atomContexts : b \notin A \/ atomContexts[b] # {c}} |->
     IF a \in A THEN atomContexts[a] \ {c} ELSE atomContexts[a]]

AddAtom(c, a) ==
  /\ c \in Held
  /\ contextMap' = [contextMap EXCEPT ![c].atoms = @ \cup {a}, ![c].low = FALSE]
  /\ atomContexts' = AlsoIn({a}, c)
  /\ UNCHANGED <<typeIndex, importanceIndex, activeId>>

\* removeAtomFromContext, and clearContextAtoms for all of them
RemoveAtoms(c, A) ==
  /\ c \in Held
  /\ contextMap' = [contextMap EXCEPT ![c].atoms = @ \ A]
  /\ atomContexts' = NotIn(A, c)
  /\ UNCHANGED <<typeIndex, importanceIndex, activeId>>

MutantOneWay(source, target) == atomContexts
MergedAtoms(source, target) == AlsoIn(contextMap[source].atoms, target)

\* The mean of two importances
Means(source, target) ==
  IF contextMap[source].low = contextMap[target].low THEN {contextMap[source].low} ELSE BOOLEAN

MergeContexts(source, target) ==
  /\ {source, target} \subseteq Held
  /\ \E low \in Means(source, target) :
       /\ contextMap' = [contextMap EXCEPT ![target].low = low, ![target].atoms = @ \cup contextMap[source].atoms]
       /\ WithImportance(target, low)
  /\ atomContexts' = MergedAtoms(source, target)

\* The source is deleted, which may be the target itself
MergeAndDelete(source, target) ==
  /\ {source, target} \subseteq Held
  /\ typeIndex' = {p \in typeIndex : p[2] # source}
  /\ activeId' = ActiveOutside({source})
  /\ LET merged == MergedAtoms(source, target)
     IN atomContexts' = [a \in {b \in DOMAIN merged : merged[b] # {source}} |-> merged[a] \ {source}]
  /\ \E low \in Means(source, target) :
       /\ contextMap' = Without([contextMap EXCEPT ![target].low = low,
                                             ![target].atoms = @ \cup contextMap[source].atoms], {source})
       /\ \E index \in Inserted(Unlisted(importanceIndex, {target}), target, low) :
            importanceIndex' = Unlisted(index, {source})
-----------------------------------------------------------------------------
(* Importance *)

\* setContextImportance, boostContextImportance
SetContextImportance(c, low) ==
  /\ c \in Held
  /\ contextMap' = [contextMap EXCEPT ![c].low = low]
  /\ WithImportance(c, low)
  /\ UNCHANGED atomContexts

\* Those not accessed for a while decay, to the least importance at most; the index is
\* made anew if any did
DecayImportances(C) ==
  /\ C # {} /\ C \subseteq Held
  /\ contextMap' = [c \in Held |-> IF c \in C THEN [contextMap[c] EXCEPT !.low = FALSE] ELSE contextMap[c]]
  /\ importanceIndex' \in {x \in {[i \in DOMAIN s |-> [id |-> s[i], low |-> contextMap'[s[i]].low]] :
                                    s \in SetToSeqs(Held)} : InOrder(x)}
  /\ UNCHANGED <<typeIndex, atomContexts, activeId>>
-----------------------------------------------------------------------------
ContextInit ==
  /\ contextMap = NoKeys /\ typeIndex = {} /\ importanceIndex = <<>>
  /\ atomContexts = NoKeys /\ activeId = {}

ContextNext ==
  \/ \E c \in ContextIds :
       \/ \E type \in ContextTypes, low \in BOOLEAN : CreateContext(c, type, low)
       \/ DeleteContext(c) \/ ActivateContext(c)
       \/ \E a \in ContextAtoms : AddAtom(c, a) \/ RemoveAtoms(c, {a})
       \/ RemoveAtoms(c, ContextAtoms)
       \/ \E low \in BOOLEAN : SetContextImportance(c, low)
       \/ \E d \in ContextIds : MergeContexts(c, d) \/ MergeAndDelete(c, d)
  \/ \E C \in SUBSET Held : DecayImportances(C)
  \/ ClearActiveContext \/ ClearAllContexts

ContextSpec == ContextInit /\ [][ContextNext]_contextVars
-----------------------------------------------------------------------------
\* Contexts, the atoms' lists of contexts and the indexes tell the same story through
\* deletions, merges (of a context with itself too), decay and clean-up: each context is
\* once under its type and once in the importance index, each atom leads to exactly the
\* contexts that hold it, and the active context exists.
ContextsAgree ==
  /\ typeIndex = {<<contextMap[c].type, c>> : c \in Held}
  /\ Len(importanceIndex) = Cardinality(Held)
  /\ {e.id : e \in ToSet(importanceIndex)} = Held
  /\ \A a \in ContextAtoms :
       (IF a \in DOMAIN atomContexts THEN atomContexts[a] ELSE {}) = {c \in Held : a \in contextMap[c].atoms}
  /\ {} \notin {atomContexts[a] : a \in DOMAIN atomContexts}
  /\ activeId \subseteq Held
=============================================================================
