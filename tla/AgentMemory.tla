---------------------------- MODULE AgentMemory ----------------------------
(***************************************************************************)
(* The parts of an agent that keep handles into the AtomStore:             *)
(* EpisodicMemory (src/src/EpisodicMemory.cpp), KnowledgeIntegrator        *)
(* (src/src/KnowledgeIntegrator.cpp) and CognitiveLoop::phaseReflection    *)
(* (src/src/CognitiveLoop.cpp), with the process's other callers, which    *)
(* add and link atoms, and with the CLI's save and load (src/main.cpp).    *)
(*                                                                         *)
(* An operation of a client is one action: the memories hold their own     *)
(* lock over it, the loop's atoms are touched by the loop only, and no     *)
(* caller names another's atoms.                                           *)
(***************************************************************************)
EXTENDS AtomStore, SequencesExt, StdContainers

CONSTANTS
  Concepts,        \* names that percepts, goals, rules and formConcept use
  Contents,        \* knowledge contents
  Durations,       \* what a cycle may take, in milliseconds
  Levels,          \* importance and confidence values, as naturals
  Relations,       \* types of the links callers make
  MaxEpisodes,     \* EpisodicMemory::_maxEpisodes
  LoadInPlace,     \* may `load` come while the agent still holds handles?
  MaxEpisodeId,    \* bound: episodes recorded between two clears
  MaxEntryId,      \* bound: knowledge entries added between two clears
  MaxCycles        \* bound: cycles run by one process

ASSUME MemoryAssumption == /\ Levels \subseteq Nat
                           /\ MaxEpisodes \in Nat \ {0}
                           /\ LoadInPlace \in BOOLEAN
                           /\ {MaxEpisodeId, MaxEntryId, MaxCycles} \subseteq Nat

VARIABLES
  episodes,        \* EpisodicMemory::_episodes, oldest first; _byId has the same ones
  nextEpisode,     \* EpisodicMemory::_nextId
  entries,         \* KnowledgeIntegrator::_entries
  contentIndex,    \* KnowledgeIntegrator::_contentIndex, as pairs
  nextEntry,       \* KnowledgeIntegrator::_nextId
  cycleCount,      \* CognitiveLoop::_cycleCount
  prev             \* CognitiveLoop::_prevStateLink, _prevCycleNode, _prevDurationNode

episodic  == <<episodes, nextEpisode>>
knowledge == <<entries, contentIndex, nextEntry>>
loop      == <<cycleCount, prev>>
vars == <<store, file, episodic, knowledge, loop>>
-----------------------------------------------------------------------------
EpisodeLabel(n)   == <<"Episode", n>>
KnowledgeLabel(c) == <<"Knowledge", c>>
CycleLabel(n)     == <<"Cycle", n>>
DurationLabel(d)  == <<"Duration", d>>
ConceptLabels     == {"Concept"} \X Concepts
CycleLabels       == {"Cycle"} \X (1..MaxCycles)
AgentLabels == ConceptLabels \cup CycleLabels \cup ({"Duration"} \X Durations)
          \cup ({"Knowledge"} \X Contents) \cup ({"Episode"} \X (1..MaxEpisodeId))

CallerLinks == {"Link"} \X Relations
StateLink   == <<"STATE">>
AgentLinks  == CallerLinks \cup {StateLink}

\* The store's constants cover what the agent puts into it
ASSUME AgentAtomsAssumption == AgentLabels \subseteq Labels /\ AgentLinks \subseteq LinkTypes

Live == store.byId

\* Handles some client will pass to remove() later
EpisodeAtoms == {episodes[i].atom : i \in DOMAIN episodes}
EntryAtoms   == {e.atom : e \in entries}
Owned        == EpisodeAtoms \cup EntryAtoms \cup prev
-----------------------------------------------------------------------------
(* The agent's other callers *)

\* addNode: percepts, task and goal atoms, the consequents of rules
AddConcept(c) ==
  /\ store' = AddNode(store, <<"Concept", c>>)
  /\ Room(store')
  /\ UNCHANGED <<file, episodic, knowledge, loop>>

AssertRelation(t, subject, object) ==
  /\ store' = AddLink(store, t, <<subject.id, object.id>>)
  /\ Room(store')
  /\ UNCHANGED <<file, episodic, knowledge, loop>>

\* formConcept: the concept's node and a link from the exemplar to it
FormConcept(c, t, exemplar) ==
  LET s == AddNode(store, <<"Concept", c>>)
      n == NodeAt(s, <<"Concept", c>>)
  IN /\ store' = AddLink(s, t, <<exemplar.id, n.id>>)
     /\ Room(store')
     /\ UNCHANGED <<file, episodic, knowledge, loop>>
-----------------------------------------------------------------------------
(* EpisodicMemory *)

MutantLeastImportant(eps, v) ==
  \A i \in DOMAIN eps : eps[v].importance <= eps[i].importance

\* Who trimToCapacity evicts: the first among the least important episodes that
\* were never recalled, else the oldest one
Unrecalled(eps) == {i \in DOMAIN eps : ~eps[i].recalled}
IsVictim(eps, v) ==
  IF Unrecalled(eps) = {} THEN v = 1
  ELSE /\ v \in Unrecalled(eps)
       /\ \A i \in Unrecalled(eps) : \/ eps[v].importance < eps[i].importance
                                     \/ eps[v].importance = eps[i].importance /\ v <= i

\* trimToCapacity, called after one episode was appended to at most MaxEpisodes
Trim(eps, s) ==
  IF Len(eps) <= MaxEpisodes THEN episodes' = eps /\ store' = s
  ELSE \E v \in DOMAIN eps : /\ IsVictim(eps, v)
                             /\ episodes' = RemoveAt(eps, v)
                             /\ store' = RemoveAll(s, {eps[v].atom})

Episode(n, imp, a) == [id |-> n, importance |-> imp, atom |-> a, recalled |-> FALSE]

Record(imp) ==
  LET s == AddNode(store, EpisodeLabel(nextEpisode))
      a == NodeAt(s, EpisodeLabel(nextEpisode))
  IN /\ nextEpisode <= MaxEpisodeId
     /\ Room(s)
     /\ Trim(Append(episodes, Episode(nextEpisode, imp, a)), s)
     /\ nextEpisode' = nextEpisode + 1
     /\ UNCHANGED <<file, knowledge, loop>>

\* recordAtom hands an atom of the callers over to the memory; two owners of one
\* atom are left out (see the README)
RecordAtom(a, imp) ==
  /\ nextEpisode <= MaxEpisodeId
  /\ a \notin Owned
  /\ a.label \in CallerLinks \cup ConceptLabels
  /\ Trim(Append(episodes, Episode(nextEpisode, imp, a)), store)
  /\ nextEpisode' = nextEpisode + 1
  /\ UNCHANGED <<file, knowledge, loop>>

Recall(n) ==
  /\ \E i \in DOMAIN episodes : /\ episodes[i].id = n
                                /\ episodes' = [episodes EXCEPT ![i].recalled = TRUE]
  /\ UNCHANGED <<store, file, nextEpisode, knowledge, loop>>

MutantForgetAtoms(threshold) ==
  LET Low(e) == e.importance < threshold
  IN /\ episodes' = SelectSeq(episodes, LAMBDA e : e.recalled \/ ~Low(e))
     /\ store' = RemoveAll(store, {e.atom : e \in {x \in ToSet(episodes) : Low(x)}})
     /\ UNCHANGED <<file, nextEpisode, knowledge, loop>>

Forget(threshold) ==
  LET Kept(e) == e.recalled \/ e.importance >= threshold
      kept    == {i \in DOMAIN episodes : Kept(episodes[i])}
  IN /\ episodes' = ElementsAt(episodes, kept)
     /\ store' = RemoveAll(store, {episodes[i].atom : i \in DOMAIN episodes \ kept})
     /\ UNCHANGED <<file, nextEpisode, knowledge, loop>>

\* clear() drops the episodes and restarts the ids, the atoms stay
ClearEpisodes ==
  /\ episodes' = <<>>
  /\ nextEpisode' = 1
  /\ UNCHANGED <<store, file, knowledge, loop>>
-----------------------------------------------------------------------------
(* KnowledgeIntegrator *)

HigherOf(x, y) == IF x >= y THEN x ELSE y

\* A known content only raises its entry's confidence
StrengthenKnowledge(c, conf) ==
  \E e \in entries :
    /\ <<c, e.id>> \in contentIndex
    /\ entries' = (entries \ {e}) \cup {[e EXCEPT !.confidence = HigherOf(@, conf)]}
    /\ UNCHANGED <<store, file, episodic, contentIndex, nextEntry, loop>>

AddKnowledge(c, conf) ==
  LET s == AddNode(store, KnowledgeLabel(c))
      e == [id |-> nextEntry, content |-> c, confidence |-> conf,
            atom |-> NodeAt(s, KnowledgeLabel(c))]
  IN /\ \A n \in 1..MaxEntryId : <<c, n>> \notin contentIndex
     /\ nextEntry <= MaxEntryId
     /\ Room(s)
     /\ store' = s
     /\ entries' = entries \cup {e}
     /\ contentIndex' = contentIndex \cup {<<c, nextEntry>>}
     /\ nextEntry' = nextEntry + 1
     /\ UNCHANGED <<file, episodic, loop>>

MutantKeepContent(gone) ==
  /\ entries' = entries \ gone
  /\ store' = RemoveAll(store, {e.atom : e \in gone})
  /\ UNCHANGED <<file, episodic, contentIndex, nextEntry, loop>>

Drop(gone) ==
  /\ entries' = entries \ gone
  /\ contentIndex' = {p \in contentIndex : \A e \in gone : p[1] # e.content}
  /\ store' = RemoveAll(store, {e.atom : e \in gone})
  /\ UNCHANGED <<file, episodic, nextEntry, loop>>

RemoveKnowledge(e) == Drop({e})

Consolidate(threshold) == Drop({e \in entries : e.confidence < threshold})

\* "Clear all integrated knowledge (keeps AtomStore intact)"
ClearKnowledge ==
  /\ entries' = {}
  /\ contentIndex' = {}
  /\ nextEntry' = 1
  /\ UNCHANGED <<store, file, episodic, loop>>
-----------------------------------------------------------------------------
(* CognitiveLoop, and the process *)

\* phaseReflection of the next cycle, which took d
Reflect(d) ==
  LET n  == cycleCount + 1
      s1 == RemoveAll(store, prev)
      s2 == AddNode(AddNode(s1, CycleLabel(n)), DurationLabel(d))
      cycle == NodeAt(s2, CycleLabel(n))
      taken == NodeAt(s2, DurationLabel(d))
      ids   == <<cycle.id, taken.id>>
  IN /\ n <= MaxCycles
     /\ store' = AddLink(s2, StateLink, ids)
     /\ Room(store')
     /\ prev' = {cycle, taken, LinkAt(store', StateLink, ids)}
     /\ cycleCount' = n
     /\ UNCHANGED <<file, episodic, knowledge>>

Save == SaveToFile /\ UNCHANGED <<episodic, knowledge, loop>>

Load ==
  /\ LoadInPlace \/ Owned = {}
  /\ LoadFromFile
  /\ UNCHANGED <<episodic, knowledge, loop>>

Restart ==
  /\ store' = Empty(0)
  /\ episodes' = <<>> /\ nextEpisode' = 1
  /\ entries' = {} /\ contentIndex' = {} /\ nextEntry' = 1
  /\ cycleCount' = 0 /\ prev' = {}
  /\ UNCHANGED file

Init ==
  /\ StoreInit
  /\ episodes = <<>> /\ nextEpisode = 1
  /\ entries = {} /\ contentIndex = {} /\ nextEntry = 1
  /\ cycleCount = 0 /\ prev = {}

CallerStep ==
  \/ \E c \in Concepts : AddConcept(c)
  \/ \E t \in CallerLinks, a, b \in Live : AssertRelation(t, a, b)
  \/ \E c \in Concepts, t \in CallerLinks, a \in Live : FormConcept(c, t, a)
EpisodicStep ==
  \/ \E imp \in Levels : Record(imp)
  \/ \E a \in Live, imp \in Levels : RecordAtom(a, imp)
  \/ \E n \in 1..MaxEpisodeId : Recall(n)
  \/ \E th \in Levels : Forget(th)
  \/ ClearEpisodes
KnowledgeStep ==
  \/ \E c \in Contents, conf \in Levels : StrengthenKnowledge(c, conf) \/ AddKnowledge(c, conf)
  \/ \E e \in entries : RemoveKnowledge(e)
  \/ \E th \in Levels : Consolidate(th)
  \/ ClearKnowledge
CliStep == Save \/ Load \/ Restart \/ \E d \in Durations : Reflect(d)

Next == CallerStep \/ EpisodicStep \/ KnowledgeStep \/ CliStep
Spec == Init /\ [][Next]_vars
-----------------------------------------------------------------------------
Episodes == [id : Nat, importance : Levels, atom : Atoms, recalled : BOOLEAN]
Entries  == [id : Nat, content : Contents, confidence : Levels, atom : Atoms]

TypeOK ==
  /\ StoreTypeOK
  /\ episodes \in Seq(Episodes) /\ nextEpisode \in Nat
  /\ entries \subseteq Entries /\ contentIndex \subseteq Contents \X Nat /\ nextEntry \in Nat
  /\ cycleCount \in Nat /\ prev \subseteq Atoms

\* Every handle a client will pass to remove() is of an atom the store has, and
\* no two episodes or entries share one: a removal takes nobody else's atom
HandlesAreLive ==
  /\ Owned \subseteq Live
  /\ \A i, j \in DOMAIN episodes : episodes[i].atom = episodes[j].atom => i = j
  /\ \A e, f \in entries : e.atom = f.atom => e = f
  /\ EpisodeAtoms \cap EntryAtoms = {} /\ prev \cap (EpisodeAtoms \cup EntryAtoms) = {}

\* Each content leads to its one entry and each entry is found by its content,
\* so that addKnowledge never returns or updates an entry that was removed
KnowledgeIndexed ==
  /\ contentIndex = {<<e.content, e.id>> : e \in entries}
  /\ \A e, f \in entries : e.content = f.content \/ e.id = f.id => e = f

\* "We keep only the most recent cycle's data in the store"
\* (CognitiveLoop.cpp:161-162), as long as the process loaded no snapshot
OneCycleKept ==
  store.epoch = 0 =>
    \A a, b \in Live : /\ a.label \in CycleLabels /\ b.label \in CycleLabels => a = b
                       /\ a.label = StateLink /\ b.label = StateLink => a = b

\* Nothing the memory keeps of the store or of its own entries goes stale: neither
\* the handles it will remove by nor the index it looks entries up with, and no
\* cycle's data stays behind the next one
MemoryIsCurrent == HandlesAreLive /\ KnowledgeIndexed /\ OneCycleKept

\* A full memory that holds recalled episodes alone
FullOfRecalled == Len(episodes) >= MaxEpisodes /\ Unrecalled(episodes) = {}

\* An episode somebody recalled is not forgotten, nor evicted for another one while
\* there is one to evict that was not recalled: only clear() and the end of the process
\* drop it.  Nothing is said of recording into a memory full of recalled episodes, where
\* the comments of trimToCapacity promise that the oldest goes (EpisodicMemory.cpp:179
\* and 188) and the code lets the one being recorded go
RecalledEpisodesStay ==
  [][nextEpisode' = nextEpisode \/ (nextEpisode' > nextEpisode /\ ~FullOfRecalled) =>
       \A i \in DOMAIN episodes :
         episodes[i].recalled => \E j \in DOMAIN episodes' : episodes'[j].id = episodes[i].id]_vars

\* phaseReflection removes "the previous cycle's metadata atoms"
\* (CognitiveLoop.cpp:161) and nothing else
OnlyMetadataRemoved ==
  [][(\E d \in Durations : Reflect(d)) => Live \ prev \subseteq store'.byId]_vars

\* What a step drops, it was told to drop: neither a recalled episode that another could
\* have gone for nor an atom beside the last cycle's own
NothingElseIsDropped == RecalledEpisodesStay /\ OnlyMetadataRemoved

\* What save reported as written can be loaded: snapshots "preserve nodes,
\* links, truth values, and attention values" (docs/DEPLOYMENT.md:177)
SnapshotLoads == Loads(file)

Saved(atoms) == {<<a.id, a.label, a.out>> : a \in atoms}

\* A snapshot without dangling links comes back whole, ids included, and the
\* next atom gets a fresh id (tests/test_persistence.cpp:157-175)
RoundTrip ==
  [][/\ LoadFromFile
     /\ \A a \in file.atoms : OutIds(a) \subseteq {b.id : b \in file.atoms}
     => Saved(Live') = Saved(file.atoms) /\ store'.nextId = file.nextId]_vars
====
