--------------------------- MODULE WorkingMemory ---------------------------
(***************************************************************************)
(* WorkingMemory (agentzero-memory/src/WorkingMemory.cpp): a bounded       *)
(* buffer of items with three indexes beside it.  Every operation holds    *)
(* _memory_mutex from its first change to its return, so an operation is   *)
(* one action, except that the loop that evicts items to make room is      *)
(* taken a round at a time, nobody else stepping in between.               *)
(*                                                                         *)
(* Importances are naturals, a step being worth between 0.005 and 0.01:    *)
(* one step is a change applyTemporalDecay takes for insignificant, two    *)
(* are not.  Access counts, statistics and the atoms that mirror the       *)
(* buffer in the AtomSpace decide nothing and are left out, as is the      *)
(* attention bank, which the build has only where ECAN is installed.       *)
(***************************************************************************)
EXTENDS Integers, FiniteSets, SequencesExt, StdContainers

CONSTANTS
  Thoughts,       \* atoms
  Contexts,       \* names of contexts
  Importances,    \* that callers give
  Thresholds,     \* _importance_threshold
  BufferSizes,    \* _max_capacity
  ItemIds,        \* identities of items, reused when nothing holds them
  MaxIndexed      \* bound: entries of the importance index

ASSUME WorkingAssumption ==
  /\ Importances \subseteq Nat /\ Thresholds \subseteq Nat /\ BufferSizes \subseteq Nat
  /\ ItemIds \subseteq Nat /\ IsFiniteSet(ItemIds) /\ MaxIndexed \in Nat

VARIABLES
  memory,          \* the buffer and its indexes, see NoItems
  activeContext,   \* _active_context
  bufferSize,      \* _max_capacity
  threshold,       \* _importance_threshold
  evicting,        \* the loop the lock's holder is in: until how many items, and what then
  drifted          \* since the buffer was empty, an importance changed and its index did not

workingVars == <<memory, activeContext, bufferSize, threshold, evicting, drifted>>

NoItems == [items        |-> NoKeys,  \* the MemoryItems something points to, by identity
            held         |-> {},      \* _memory_buffer, in any order
            byThought    |-> NoKeys,  \* _memory_index
            byContext    |-> {},      \* _context_index
            byImportance |-> <<>>]    \* _importance_index, equal keys in order of insertion

NotEvicting == [next |-> "return"]
Unlocked == evicting = NotEvicting
-----------------------------------------------------------------------------
(* The indexes *)

Pointed(m) == m.held \cup {e[2] : e \in ToSet(m.byImportance)}

\* The entries of the importance index are looked up under the importance of now
Entries(m, I) == {<<m.items[i].importance, i>> : i \in I}
Unindexed(m, I) ==
  [m EXCEPT !.byContext = @ \ {<<m.items[i].context, i>> : i \in I},
            !.byImportance = DroppingFirst(@, Entries(m, I))]

Indexed(m, i) ==
  [m EXCEPT !.byContext = @ \cup {<<m.items[i].context, i>>},
            !.byImportance = Append(@, <<m.items[i].importance, i>>)]

\* The new importances are x, for the items in its domain
SetImportance(m, x) ==
  [m EXCEPT !.items = [i \in DOMAIN @ |-> IF i \in DOMAIN x THEN [@[i] EXCEPT !.importance = x[i]] ELSE @[i]]]

\* The entries for I that m had move to where those of its successor n belong
Reindexed(m, n, I) ==
  [n EXCEPT !.byImportance = DroppingFirst(@, Entries(m, I)) \o SetToSeq(Entries(n, I))]

\* What removeItem and the eviction loops do with each of I, whether or not the buffer has it
WithoutItems(m, I) ==
  LET u == Unindexed(m, I)
      r == [u EXCEPT !.byThought = Without(@, {m.items[i].atom : i \in I}), !.held = @ \ I]
  IN [r EXCEPT !.items = Without(@, DOMAIN @ \ Pointed(r))]

NewItem(m, a, x, c) ==
  LET i == CHOOSE i \in ItemIds \ DOMAIN m.items : TRUE
      n == [m EXCEPT !.items = With(@, i, [atom |-> a, importance |-> x, context |-> c]),
                     !.held = @ \cup {i},
                     !.byThought = With(@, a, i)]
  IN Indexed(n, i)

\* begin() of the multimap
LeastImportant(m) ==
  LET s == m.byImportance
      k == CHOOSE k \in DOMAIN s : \A j \in DOMAIN s : s[k][1] < s[j][1] \/ (s[k][1] = s[j][1] /\ k <= j)
  IN s[k][2]
-----------------------------------------------------------------------------
(* Operations *)

\* A context given as "" leaves an existing item where it is
Unnamed == ""

MutantMoveFirst(m, i, c) ==
  LET moved == [m EXCEPT !.items = With(@, i, [m.items[i] EXCEPT !.context = c])]
  IN Indexed(Unindexed(moved, {i}), i)
MoveTo(m, i, c) ==
  LET u == Unindexed(m, {i})
  IN Indexed([u EXCEPT !.items = With(@, i, [m.items[i] EXCEPT !.context = c])], i)

UpdateItem(a, x, c) ==
  /\ Unlocked /\ a \in DOMAIN memory.byThought
  /\ LET i == memory.byThought[a]
         m == SetImportance(memory, [j \in {i} |-> x])
     IN /\ memory' = IF c \in {Unnamed, m.items[i].context} THEN m ELSE MoveTo(m, i, c)
        /\ drifted' = (drifted \/ x # memory.items[i].importance)
  /\ UNCHANGED <<activeContext, bufferSize, threshold, evicting>>

\* A new item waits for room first
AddItem(a, x, c) ==
  /\ Unlocked /\ a \notin DOMAIN memory.byThought
  /\ DOMAIN memory.items # ItemIds /\ Len(memory.byImportance) < MaxIndexed
  /\ evicting' = [next |-> "insert", target |-> bufferSize - 1, atom |-> a, importance |-> x,
                  context |-> IF c = Unnamed THEN activeContext ELSE c]
  /\ UNCHANGED <<memory, activeContext, bufferSize, threshold, drifted>>

RemoveItem(a) ==
  /\ Unlocked /\ a \in DOMAIN memory.byThought
  /\ memory' = WithoutItems(memory, {memory.byThought[a]})
  /\ UNCHANGED <<activeContext, bufferSize, threshold, evicting, drifted>>

UpdateImportance(a, x) ==
  /\ Unlocked /\ a \in DOMAIN memory.byThought
  /\ LET i == memory.byThought[a]
     IN memory' = Reindexed(memory, SetImportance(memory, [j \in {i} |-> x]), {i})
  /\ UNCHANGED <<activeContext, bufferSize, threshold, evicting, drifted>>

SetActiveContext(c) ==
  /\ Unlocked /\ activeContext' = c
  /\ UNCHANGED <<memory, bufferSize, threshold, evicting, drifted>>

ClearContext(c) ==
  /\ Unlocked
  /\ memory' = WithoutItems(memory, {p[2] : p \in {q \in memory.byContext : q[1] = c}})
  /\ UNCHANGED <<activeContext, bufferSize, threshold, evicting, drifted>>

ClearItems ==
  /\ Unlocked /\ memory' = NoItems /\ drifted' = FALSE
  /\ UNCHANGED <<activeContext, bufferSize, threshold, evicting>>

SetThreshold(x) ==
  /\ Unlocked /\ threshold' = x
  /\ UNCHANGED <<memory, activeContext, bufferSize, evicting, drifted>>
-----------------------------------------------------------------------------
(* Capacity and cleanup *)

EnforceFrom(size, cap) ==
  IF size < cap THEN NotEvicting
  ELSE [next |-> "unlock", target |-> IF cap = 0 THEN 0 ELSE cap - 1]

SetMaxCapacity(cap) ==
  /\ Unlocked /\ bufferSize' = cap
  /\ LET size == Cardinality(memory.held)
     IN evicting' = IF size > cap THEN EnforceFrom(size, cap) ELSE NotEvicting
  /\ UNCHANGED <<memory, activeContext, threshold, drifted>>

\* What may be left of an importance: a factor of 0.01 to 1, by the time since the last access
Decays(x) == {y \in 0..x : y = 0 => x = 0}

Significant(m, faded) == {i \in m.held : m.items[i].importance - faded[i] > 1}

Decayed(m, faded) == Reindexed(m, SetImportance(m, faded), Significant(m, faded))

\* aged: the items kept for longer than _max_retention_time
RunCleanup(faded, aged) ==
  LET d == Decayed(memory, faded)
      c == WithoutItems(d, aged \cup {i \in d.held : d.items[i].importance < threshold})
  IN /\ Unlocked
     /\ memory' = c
     /\ evicting' = EnforceFrom(Cardinality(c.held), bufferSize)
     /\ drifted' = (drifted \/ \E i \in memory.held \ Significant(memory, faded) :
                                 faded[i] # memory.items[i].importance)
     /\ UNCHANGED <<activeContext, bufferSize, threshold>>

Crowded == /\ Cardinality(memory.held) > evicting.target
           /\ memory.byImportance # <<>>

EvictOne ==
  /\ ~Unlocked /\ Crowded
  /\ memory' = WithoutItems(memory, {LeastImportant(memory)})
  /\ UNCHANGED <<activeContext, bufferSize, threshold, evicting, drifted>>

\* addItem's insertion, or the end of enforceCapacityLimits
FinishCall ==
  /\ ~Unlocked /\ ~Crowded
  /\ memory' = IF evicting.next = "insert"
               THEN NewItem(memory, evicting.atom, evicting.importance, evicting.context)
               ELSE memory
  /\ evicting' = NotEvicting
  /\ UNCHANGED <<activeContext, bufferSize, threshold, drifted>>

WorkingInit ==
  /\ memory = NoItems /\ activeContext = "default" /\ evicting = NotEvicting
  /\ bufferSize \in BufferSizes /\ threshold \in Thresholds /\ drifted = FALSE

AllContexts == Contexts \cup {"default"}

ItemStep ==
  \/ \E a \in Thoughts, x \in Importances, c \in AllContexts \cup {Unnamed} : UpdateItem(a, x, c) \/ AddItem(a, x, c)
  \/ \E a \in Thoughts, x \in Importances : UpdateImportance(a, x)
  \/ \E a \in Thoughts : RemoveItem(a)

UpkeepStep ==
  \/ \E c \in AllContexts : SetActiveContext(c) \/ ClearContext(c)
  \/ ClearItems
  \/ \E x \in Thresholds : SetThreshold(x)
  \/ \E cap \in BufferSizes : SetMaxCapacity(cap)
  \/ \E faded \in [memory.held -> UNION {Decays(x) : x \in Importances}], aged \in SUBSET memory.held :
       /\ \A i \in memory.held : faded[i] \in Decays(memory.items[i].importance)
       /\ RunCleanup(faded, aged)

EvictionStep == EvictOne \/ FinishCall

WorkingNext ==
  /\ ItemStep \/ UpkeepStep \/ EvictionStep
  /\ Len(memory'.byImportance) <= MaxIndexed

WorkingFairness == WF_workingVars(EvictionStep)
WorkingSpec == WorkingInit /\ [][WorkingNext]_workingVars /\ WorkingFairness
-----------------------------------------------------------------------------
\* What validateMemoryConsistency looks for, and what getItemsByContext and the
\* eviction loops count on: whenever the lock is free, the buffer and the index by
\* atom hold the same items, one per atom, within the capacity (one item if that is
\* zero); each item is in the context index under its own context and in the
\* importance index under its own importance, and nothing else is; as long as no
\* importance changed and its index did not (addItem of a known atom,
\* applyTemporalDecay).
BufferIsIndexed ==
  Unlocked /\ ~drifted =>
    LET m == memory
    IN /\ m.held = {m.byThought[a] : a \in DOMAIN m.byThought}
       /\ \A a \in DOMAIN m.byThought : m.items[m.byThought[a]].atom = a
       /\ m.byContext = {<<m.items[i].context, i>> : i \in m.held}
       /\ ToSet(m.byImportance) = {<<m.items[i].importance, i>> : i \in m.held}
       /\ Len(m.byImportance) = Cardinality(m.held)
       /\ Cardinality(m.held) <= IF bufferSize = 0 THEN 1 ELSE bufferSize

\* "Ensure there is room for the new item (evict until size < capacity)"
\* (WorkingMemory.cpp:126): the loop ends, and the caller gets the lock back
EvictionEnds == ~Unlocked ~> Unlocked
=============================================================================
