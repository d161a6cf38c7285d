----------------------------- MODULE AgentProofs -----------------------------
(***************************************************************************)
(* What the agent's store, memories and loop promise after every sequence  *)
(* of calls, for every set of names, contents, percepts and tasks.         *)
(***************************************************************************)
EXTENDS AgentMemory, AgentLoop, ContainerLemmas

(***************************************************************************)
(* The AtomStore                                                           *)
(***************************************************************************)
StoreInv == StoreTypeOK /\ StoreIsSound /\ FileIsSound

LEMMA EmptyIsSound == ASSUME NEW e \in Nat PROVE Empty(e) \in Stores /\ Sound(Empty(e))
  BY DEF Empty, Stores, Ids, Sound, IndexesAgree, IncomingExact, OrderedIds, Nodes, Links

\* A new atom with a new key, over older ids, keeps the maps in agreement
LEMMA InsertIsSound ==
  ASSUME NEW s \in Stores, Sound(s),
         NEW label \in Labels \cup LinkTypes, NEW out \in Seq(Ids),
         \A i \in DOMAIN out : out[i] < s.nextId,
         \A b \in s.byId : Key(b) # <<label, out>>
  PROVE  Insert(s, NewAtom(s, label, out)) \in Stores /\ Sound(Insert(s, NewAtom(s, label, out)))
<1> DEFINE a == NewAtom(s, label, out)
           r == Insert(s, a)
<1>1. /\ a \in Atoms /\ a.id = s.nextId /\ a.out = out /\ a.label = label
      /\ s.nextId \in Ids /\ s.nextId + 1 \in Ids /\ s.epoch \in Nat
  BY DEF NewAtom, Atoms, Stores, Ids
<1>2. \A b \in s.byId : b \in Atoms /\ b.id \in Ids /\ b.id < s.nextId
  BY DEF Sound, OrderedIds, Stores, Atoms
<1>3. OutIds(a) \subseteq Ids /\ \A i \in OutIds(a) : i < s.nextId
  BY <1>1 DEF OutIds
<1>4. r.byId = s.byId \cup {a}
  BY <1>1, <1>2 DEF Insert, Ids
<1>5. r \in Stores
  <2>1. Incoming(a) \subseteq Ids \X Ids
    BY <1>1, <1>3 DEF Incoming
  <2>2. Nodes({a}) \subseteq Atoms /\ Links({a}) \subseteq Atoms
    BY <1>1 DEF Nodes, Links
  <2> QED BY <1>1, <2>1, <2>2 DEF Insert, Stores
<1>6. IndexesAgree(r)
  <2>1. \A b, c \in r.byId : b.id = c.id \/ Key(b) = Key(c) => b = c
    <3>1. \A b \in s.byId : b.id # a.id
      BY <1>1, <1>2 DEF Ids
    <3>2. Key(a) = <<label, out>>
      BY <1>1 DEF Key
    <3> QED BY <1>4, <3>1, <3>2 DEF Sound, IndexesAgree
  <2>2. r.nodeIndex = Nodes(r.byId) /\ r.linkIndex = Links(r.byId) /\ r.typeIndex = r.byId
    BY <1>4 DEF Insert, Sound, IndexesAgree, Nodes, Links
  <2> QED BY <2>1, <2>2 DEF IndexesAgree
<1>7. IncomingExact(r)
  BY <1>4 DEF Insert, Sound, IncomingExact
<1>8. OrderedIds(r)
  <2>1. r.nextId = s.nextId + 1
    BY DEF Insert
  <2>2. ASSUME NEW b \in s.byId PROVE b.id < r.nextId /\ \A i \in OutIds(b) : i < b.id
    BY <1>1, <1>2, <2>1 DEF Sound, OrderedIds, Ids
  <2>3. a.id < r.nextId /\ \A i \in OutIds(a) : i < a.id
    BY <1>1, <1>3, <2>1 DEF Ids
  <2> QED BY <1>4, <2>2, <2>3 DEF OrderedIds
<1> QED BY <1>5, <1>6, <1>7, <1>8 DEF Sound

LEMMA AddNodeIsSound ==
  ASSUME NEW s \in Stores, Sound(s), NEW l \in Labels
  PROVE  AddNode(s, l) \in Stores /\ Sound(AddNode(s, l))
<1>1. CASE HasNode(s, l)
  BY <1>1 DEF AddNode
<1>2. CASE ~HasNode(s, l)
  <2>1. \A b \in s.byId : Key(b) # <<l, <<>>>>
    BY <1>2 DEF HasNode, Sound, IndexesAgree, Nodes, IsNode, Key
  <2>2. <<>> \in Seq(Ids) /\ \A i \in DOMAIN <<>> : <<>>[i] < s.nextId
    OBVIOUS
  <2> QED BY <1>2, <2>1, <2>2, InsertIsSound DEF AddNode
<1> QED BY <1>1, <1>2

LEMMA AddLinkIsSound ==
  ASSUME NEW s \in Stores, Sound(s), NEW t \in LinkTypes,
         NEW ids \in Seq(Ids), ids # <<>>, \A i \in DOMAIN ids : ids[i] < s.nextId
  PROVE  AddLink(s, t, ids) \in Stores /\ Sound(AddLink(s, t, ids))
<1>1. CASE HasLink(s, t, ids)
  BY <1>1 DEF AddLink
<1>2. CASE ~HasLink(s, t, ids)
  <2>1. \A b \in s.byId : Key(b) # <<t, ids>>
    BY <1>2 DEF HasLink, Sound, IndexesAgree, Links, IsLink, Key
  <2> QED BY <1>2, <2>1, InsertIsSound DEF AddLink
<1> QED BY <1>1, <1>2

\* remove() of atoms the store has erases them from every map, and nothing else
LEMMA RemoveIsSound ==
  ASSUME NEW s \in Stores, Sound(s), NEW H \in SUBSET s.byId
  PROVE  RemoveAll(s, H) \in Stores /\ Sound(RemoveAll(s, H))
<1> DEFINE r == RemoveAll(s, H)
<1>1. r \in Stores
  BY DEF RemoveAll, Stores
<1>2. r.byId = s.byId \ H
  BY DEF RemoveAll, Sound, IndexesAgree
<1>3. IndexesAgree(r)
  <2>1. r.nodeIndex = Nodes(s.byId) \ H /\ r.linkIndex = Links(s.byId) \ H
    <3>1. \A b \in s.byId : b \in H <=> \E h \in H : Key(h) = Key(b)
      BY DEF Sound, IndexesAgree
    <3> QED BY <3>1 DEF RemoveAll, Sound, IndexesAgree, Nodes, Links
  <2>2. r.typeIndex = s.byId \ H
    BY DEF RemoveAll, Sound, IndexesAgree
  <2> QED BY <1>2, <2>1, <2>2 DEF Sound, IndexesAgree, Nodes, Links
<1>4. IncomingExact(r)
  <2>1. r.incoming = s.incoming \ UNION {Incoming(h) : h \in H}
    BY DEF RemoveAll
  <2>2. \A b \in s.byId \ H, h \in H : Incoming(b) \cap Incoming(h) = {}
    BY DEF Sound, IndexesAgree, Incoming
  <2> QED BY <1>2, <2>1, <2>2 DEF Sound, IncomingExact
<1>5. OrderedIds(r)
  BY <1>2 DEF RemoveAll, Sound, OrderedIds
<1> QED BY <1>1, <1>3, <1>4, <1>5 DEF Sound

\* A snapshot with dangling links is read up to the first of them: what was
\* read until then is a sound store too
LEMMA RestoreIsSound ==
  ASSUME NEW s \in Stores, file \in Files, FileIsSound, file # NoFile
  PROVE  Restore(s, file) \in Stores /\ Sound(Restore(s, file))
<1> DEFINE r == Restore(s, file)
           read == LinesRead(file)
           new == {Reread(s, a) : a \in read}
           last == {a \in new : \A b \in new : Key(b) = Key(a) => b.id <= a.id}
<1>1. read \subseteq file.atoms /\ file.atoms \subseteq Atoms /\ s.epoch + 1 \in Nat
  BY DEF LinesRead, Files, Stores
<1>2. \A a \in read : /\ Reread(s, a) \in Atoms
                      /\ Reread(s, a).id = a.id
                      /\ Key(Reread(s, a)) = Key(a)
                      /\ OutIds(Reread(s, a)) = OutIds(a)
  BY <1>1 DEF Reread, Atoms, Key, OutIds
<1>3. new \subseteq Atoms
  BY <1>2
<1>4. \A a, b \in new : a.id = b.id \/ Key(a) = Key(b) => a = b
  BY <1>1, <1>2 DEF FileIsSound
<1>5. last = new
  <2>1. \A a \in new : a.id \in Nat
    BY <1>3 DEF Atoms, Ids
  <2> QED BY <1>4, <2>1
<1>6. /\ r.epoch = s.epoch + 1 /\ r.nextId = file.nextId /\ r.byId = new /\ r.typeIndex = new
      /\ r.nodeIndex = Nodes(new) /\ r.linkIndex = Links(new)
      /\ r.incoming = UNION {Incoming(a) : a \in new}
  BY <1>5 DEF Restore
<1>7. \A a \in new : a.id < file.nextId /\ \A i \in OutIds(a) : i < a.id
  BY <1>1, <1>2 DEF FileIsSound
<1>8. r \in Stores
  <2>1. file.nextId \in Ids
    <3>1. CASE file.nextId # 0
      BY <3>1 DEF Files, Ids
    <3>2. CASE file.nextId = 0
      BY <3>2 DEF Files, NoFile, FileIsSound, Atoms, Ids
    <3> QED BY <3>1, <3>2
  <2>2. UNION {Incoming(a) : a \in new} \subseteq Ids \X Ids
    <3>1. \A a \in new : a.id \in Ids /\ OutIds(a) \subseteq Ids
      BY <1>3 DEF Atoms, OutIds
    <3> QED BY <3>1 DEF Incoming
  <2> QED BY <1>1, <1>3, <1>6, <2>1, <2>2 DEF Restore, Stores, Nodes, Links
<1>9. Sound(r)
  BY <1>4, <1>6, <1>7 DEF Sound, IndexesAgree, IncomingExact, OrderedIds
<1> QED BY <1>8, <1>9

LEMMA StoreInitially == StoreInit => StoreInv
<1> SUFFICES ASSUME StoreInit PROVE StoreInv
  OBVIOUS
<1>1. store \in Stores /\ Sound(store)
  BY EmptyIsSound DEF StoreInit
<1>2. file \in Files /\ FileIsSound
  BY DEF StoreInit, NoFile, Files, FileIsSound
<1> QED BY <1>1, <1>2 DEF StoreInv, StoreTypeOK, StoreIsSound

LEMMA StoreNextStep == StoreInv /\ [StoreNext]_storeVars => StoreInv'
<1> SUFFICES ASSUME StoreInv, [StoreNext]_storeVars PROVE StoreInv'
  OBVIOUS
<1> USE DEF StoreInv, StoreTypeOK, StoreIsSound
<1>1. CASE store' \in Stores /\ Sound(store') /\ file' = file
  BY <1>1 DEF FileIsSound
<1>2. CASE AddNodeCall
  BY <1>1, <1>2, AddNodeIsSound DEF AddNodeCall
<1>3. CASE AddLinkCall
  <2>1. PICK t \in LinkTypes, n \in 1..2 : \E ids \in [1..n -> 1..(store.nextId - 1)] :
          store' = AddLink(store, t, ids) /\ file' = file
    BY <1>3 DEF AddLinkCall
  <2>2. PICK ids \in [1..n -> 1..(store.nextId - 1)] :
          store' = AddLink(store, t, ids) /\ file' = file
    BY <2>1
  <2>3. store.nextId \in Ids
    BY DEF Stores
  <2>4. ids \in Seq(Ids) /\ ids # <<>> /\ \A i \in DOMAIN ids : ids[i] < store.nextId
    BY <2>3 DEF Ids
  <2> QED BY <1>1, <2>2, <2>4, AddLinkIsSound
<1>4. CASE RemoveCall
  BY <1>1, <1>4, RemoveIsSound DEF RemoveCall
<1>5. CASE Clear
  BY <1>1, <1>5, EmptyIsSound DEF Clear, Stores
<1>6. CASE SaveToFile
  <2>1. store' = store /\ file' = Snapshot(store)
    BY <1>6 DEF SaveToFile
  <2>2. file' \in Files
    BY <2>1 DEF Snapshot, Stores, Files, Ids
  <2>3. FileIsSound'
    BY <2>1 DEF Snapshot, FileIsSound, Sound, IndexesAgree, OrderedIds
  <2> QED BY <2>1, <2>2, <2>3
<1>7. CASE LoadFromFile
  BY <1>1, <1>7, RestoreIsSound DEF LoadFromFile
<1>8. CASE NewStore
  BY <1>1, <1>8, EmptyIsSound DEF NewStore
<1>9. CASE UNCHANGED storeVars
  BY <1>9 DEF storeVars, FileIsSound
<1> QED BY <1>2, <1>3, <1>4, <1>5, <1>6, <1>7, <1>8, <1>9 DEF StoreNext

\* The types of AtomStore's members
THEOREM StoreTypes == StoreSpec => []StoreTypeOK
<1> QED BY StoreInitially, StoreNextStep, PTL DEF StoreSpec, StoreInv

\* _byId, _nodeIndex, _linkIndex, _typeIndex and _incoming always describe the
\* same graph, and ids grow from a link's targets to the link
THEOREM StoreStaysSound == StoreSpec => []StoreIsSound
<1> QED BY StoreInitially, StoreNextStep, PTL DEF StoreSpec, StoreInv

-----------------------------------------------------------------------------
(***************************************************************************)
(* The agent's memories: types                                             *)
(***************************************************************************)
\* What AtomStore's operations return, whatever the maps say of each other
LEMMA InsertType ==
  ASSUME NEW s \in Stores, NEW label \in Labels \cup LinkTypes, NEW out \in Seq(Ids)
  PROVE  /\ NewAtom(s, label, out) \in Atoms
         /\ Insert(s, NewAtom(s, label, out)) \in Stores
<1> DEFINE a == NewAtom(s, label, out)
<1>1. a \in Atoms /\ s.nextId \in Ids /\ s.nextId + 1 \in Ids /\ s.epoch \in Nat
  BY DEF NewAtom, Atoms, Stores, Ids
<1>2. Incoming(a) \subseteq Ids \X Ids
  BY <1>1 DEF Incoming, OutIds, Atoms
<1>3. Nodes({a}) \subseteq Atoms /\ Links({a}) \subseteq Atoms
  BY <1>1 DEF Nodes, Links
<1> QED BY <1>1, <1>2, <1>3 DEF Insert, Stores

LEMMA AddNodeType ==
  ASSUME NEW s \in Stores, NEW l \in Labels
  PROVE  /\ AddNode(s, l) \in Stores
         /\ NodeAt(AddNode(s, l), l) \in AddNode(s, l).nodeIndex
         /\ NodeAt(AddNode(s, l), l) \in Atoms
         /\ NodeAt(AddNode(s, l), l).label = l
<1> DEFINE r == AddNode(s, l)
<1>1. r \in Stores /\ HasNode(r, l)
  <2>1. CASE HasNode(s, l)
    BY <2>1 DEF AddNode
  <2>2. CASE ~HasNode(s, l)
    <3> DEFINE a == NewAtom(s, l, <<>>)
    <3>1. <<>> \in Seq(Ids) /\ l \in Labels \cup LinkTypes
      OBVIOUS
    <3>2. r = Insert(s, a) /\ r \in Stores
      BY <2>2, <3>1, InsertType DEF AddNode
    <3>3. a.label = l /\ a \in Nodes({a})
      BY DEF NewAtom, Nodes, IsNode
    <3>4. Insert(s, a).nodeIndex = s.nodeIndex \cup Nodes({a})
      BY DEF Insert
    <3> HIDE DEF a, r
    <3>5. a \in r.nodeIndex
      BY <3>2, <3>3, <3>4
    <3> QED BY <3>2, <3>3, <3>5 DEF HasNode
  <2> QED BY <2>1, <2>2
<1>2. NodeAt(r, l) \in r.nodeIndex /\ NodeAt(r, l).label = l
  BY <1>1 DEF HasNode, NodeAt
<1>3. r.nodeIndex \subseteq Atoms
  BY <1>1 DEF Stores
<1> QED BY <1>1, <1>2, <1>3

LEMMA AddLinkType ==
  ASSUME NEW s \in Stores, NEW t \in LinkTypes, NEW ids \in Seq(Ids), ids # <<>>
  PROVE  /\ AddLink(s, t, ids) \in Stores
         /\ LinkAt(AddLink(s, t, ids), t, ids) \in AddLink(s, t, ids).linkIndex
         /\ LinkAt(AddLink(s, t, ids), t, ids) \in Atoms
         /\ Key(LinkAt(AddLink(s, t, ids), t, ids)) = <<t, ids>>
<1> DEFINE r == AddLink(s, t, ids)
<1>1. r \in Stores /\ HasLink(r, t, ids)
  <2>1. CASE HasLink(s, t, ids)
    BY <2>1 DEF AddLink
  <2>2. CASE ~HasLink(s, t, ids)
    <3> DEFINE a == NewAtom(s, t, ids)
    <3>1. r = Insert(s, a) /\ r \in Stores
      BY <2>2, InsertType DEF AddLink
    <3>2. Key(a) = <<t, ids>> /\ a \in Links({a})
      BY DEF NewAtom, Links, IsLink, Key
    <3>3. Insert(s, a).linkIndex = s.linkIndex \cup Links({a})
      BY DEF Insert
    <3> HIDE DEF a, r
    <3>4. a \in r.linkIndex
      BY <3>1, <3>2, <3>3
    <3> QED BY <3>1, <3>2, <3>4 DEF HasLink
  <2> QED BY <2>1, <2>2
<1>2. LinkAt(r, t, ids) \in r.linkIndex /\ Key(LinkAt(r, t, ids)) = <<t, ids>>
  BY <1>1 DEF HasLink, LinkAt
<1>3. r.linkIndex \subseteq Atoms
  BY <1>1 DEF Stores
<1> QED BY <1>1, <1>2, <1>3

LEMMA RemoveType == ASSUME NEW s \in Stores, NEW H PROVE RemoveAll(s, H) \in Stores
  BY DEF RemoveAll, Stores

LEMMA RestoreType ==
  ASSUME NEW s \in Stores, NEW f \in Files, f.nextId \in Ids
  PROVE  Restore(s, f) \in Stores
<1> DEFINE new == {Reread(s, a) : a \in LinesRead(f)}
           last == {a \in new : \A b \in new : Key(b) = Key(a) => b.id <= a.id}
           in == UNION {Incoming(a) : a \in new}
<1>1. LinesRead(f) \subseteq Atoms /\ s.epoch + 1 \in Nat
  BY DEF LinesRead, Files, Stores
<1>2. new \subseteq Atoms
  BY <1>1 DEF Reread, Atoms
<1>3. in \subseteq Ids \X Ids
  BY <1>2 DEF Incoming, OutIds, Atoms
<1>4. last \subseteq Atoms
  BY <1>2
<1>5. Restore(s, f) = [epoch |-> s.epoch + 1, nextId |-> f.nextId, byId |-> new,
                       nodeIndex |-> Nodes(last), linkIndex |-> Links(last), typeIndex |-> new,
                       incoming |-> in]
  BY DEF Restore
<1> HIDE DEF new, last, in
<1> QED BY <1>1, <1>2, <1>3, <1>4, <1>5 DEF Stores, Nodes, Links

FileWritten == file = NoFile \/ file.nextId \in Ids
Counted == nextEpisode \in 1..(MaxEpisodeId + 1) /\ nextEntry \in 1..(MaxEntryId + 1)
TypeInv == TypeOK /\ FileWritten /\ Counted

\* The names the agent's clients make are names the store knows
LEMMA LabelsKnown ==
  /\ \A c \in Concepts : <<"Concept", c>> \in Labels
  /\ \A n \in 1..MaxEpisodeId : EpisodeLabel(n) \in Labels
  /\ \A c \in Contents : KnowledgeLabel(c) \in Labels
  /\ \A n \in 1..MaxCycles : CycleLabel(n) \in Labels
  /\ \A d \in Durations : DurationLabel(d) \in Labels
  /\ CallerLinks \subseteq LinkTypes /\ StateLink \in LinkTypes
  BY AgentAtomsAssumption
     DEF AgentLabels, AgentLinks, ConceptLabels, CycleLabels, EpisodeLabel, KnowledgeLabel,
         CycleLabel, DurationLabel

LEMMA CallerTypes == TypeInv /\ CallerStep => TypeInv'
<1> SUFFICES ASSUME TypeInv, CallerStep PROVE TypeInv'
  OBVIOUS
<1>1. CASE store' \in Stores /\ UNCHANGED <<file, episodic, knowledge, loop>>
  BY <1>1 DEF TypeInv, TypeOK, StoreTypeOK, FileWritten, Counted, episodic, knowledge, loop
<1>2. store \in Stores /\ Live \subseteq Atoms
  BY DEF TypeInv, TypeOK, StoreTypeOK, Live, Stores
<1>3. ASSUME NEW c \in Concepts, AddConcept(c) PROVE TypeInv'
  <2>1. store' \in Stores
    BY <1>2, <1>3, LabelsKnown, AddNodeType DEF AddConcept
  <2> QED BY <1>1, <1>3, <2>1 DEF AddConcept
<1>4. \A a, b \in Atoms : <<a.id, b.id>> \in Seq(Ids) /\ <<a.id, b.id>> # <<>>
  BY DEF Atoms
<1>5. ASSUME NEW t \in CallerLinks, NEW a \in Live, NEW b \in Live, AssertRelation(t, a, b)
      PROVE  TypeInv'
  <2>1. store' \in Stores
    BY <1>2, <1>4, <1>5, LabelsKnown, AddLinkType DEF AssertRelation
  <2> QED BY <1>1, <1>5, <2>1 DEF AssertRelation
<1>6. ASSUME NEW c \in Concepts, NEW t \in CallerLinks, NEW a \in Live, FormConcept(c, t, a)
      PROVE  TypeInv'
  <2> DEFINE s == AddNode(store, <<"Concept", c>>)
             n == NodeAt(s, <<"Concept", c>>)
  <2>1. s \in Stores /\ n \in Atoms
    BY <1>2, LabelsKnown, AddNodeType
  <2>2. store' = AddLink(s, t, <<a.id, n.id>>) /\ UNCHANGED <<file, episodic, knowledge, loop>>
    BY <1>6 DEF FormConcept
  <2> HIDE DEF s, n
  <2>3. store' \in Stores
    BY <1>2, <1>4, <2>1, <2>2, LabelsKnown, AddLinkType
  <2> QED BY <1>1, <2>2, <2>3
<1> QED BY <1>3, <1>5, <1>6 DEF CallerStep

\* trimToCapacity returns the episodes, or all but one
LEMMA TrimTypes ==
  ASSUME NEW eps \in Seq(Episodes), NEW s \in Stores, Trim(eps, s)
  PROVE  episodes' \in Seq(Episodes) /\ store' \in Stores
<1>1. CASE Len(eps) <= MaxEpisodes
  BY <1>1 DEF Trim
<1>2. CASE ~(Len(eps) <= MaxEpisodes)
  <2>1. PICK v \in DOMAIN eps : episodes' = RemoveAt(eps, v) /\ store' = RemoveAll(s, {eps[v].atom})
    BY <1>2 DEF Trim
  <2> QED BY <2>1, RemoveAtIs, RemoveType
<1> QED BY <1>1, <1>2

LEMMA EpisodicTypes == TypeInv /\ EpisodicStep => TypeInv'
<1> SUFFICES ASSUME TypeInv, EpisodicStep PROVE TypeInv'
  OBVIOUS
<1>1. CASE /\ store' \in Stores /\ episodes' \in Seq(Episodes)
           /\ nextEpisode' \in 1..(MaxEpisodeId + 1) /\ UNCHANGED <<file, knowledge, loop>>
  BY <1>1 DEF TypeInv, TypeOK, StoreTypeOK, FileWritten, Counted, knowledge, loop
<1>2. /\ store \in Stores /\ Live \subseteq Atoms /\ episodes \in Seq(Episodes)
      /\ nextEpisode \in 1..(MaxEpisodeId + 1) /\ MaxEpisodeId \in Nat
  BY MemoryAssumption DEF TypeInv, TypeOK, StoreTypeOK, Counted, Live, Stores
<1>3. ASSUME NEW imp \in Levels, NEW a \in Atoms
      PROVE  Append(episodes, Episode(nextEpisode, imp, a)) \in Seq(Episodes)
  <2>1. Episode(nextEpisode, imp, a) \in Episodes
    BY <1>2 DEF Episode, Episodes
  <2> QED BY <1>2, <2>1
<1>4. ASSUME NEW imp \in Levels, Record(imp) PROVE TypeInv'
  <2> DEFINE s == AddNode(store, EpisodeLabel(nextEpisode))
             a == NodeAt(s, EpisodeLabel(nextEpisode))
  <2>1. nextEpisode <= MaxEpisodeId /\ nextEpisode' = nextEpisode + 1
        /\ Trim(Append(episodes, Episode(nextEpisode, imp, a)), s)
        /\ UNCHANGED <<file, knowledge, loop>>
    BY <1>4 DEF Record
  <2>2. EpisodeLabel(nextEpisode) \in Labels
    BY <1>2, <2>1, LabelsKnown
  <2>3. s \in Stores /\ a \in Atoms
    BY <1>2, <2>2, AddNodeType
  <2> HIDE DEF s, a
  <2>4. episodes' \in Seq(Episodes) /\ store' \in Stores
    BY <1>3, <2>1, <2>3, TrimTypes
  <2> QED BY <1>1, <1>2, <2>1, <2>4
<1>5. ASSUME NEW a \in Live, NEW imp \in Levels, RecordAtom(a, imp) PROVE TypeInv'
  <2>1. nextEpisode <= MaxEpisodeId /\ nextEpisode' = nextEpisode + 1
        /\ Trim(Append(episodes, Episode(nextEpisode, imp, a)), store)
        /\ UNCHANGED <<file, knowledge, loop>>
    BY <1>5 DEF RecordAtom
  <2>2. episodes' \in Seq(Episodes) /\ store' \in Stores
    BY <1>2, <1>3, <2>1, TrimTypes
  <2> QED BY <1>1, <1>2, <2>1, <2>2
<1>6. ASSUME NEW n, Recall(n) PROVE TypeInv'
  <2>1. PICK i \in DOMAIN episodes : episodes' = [episodes EXCEPT ![i].recalled = TRUE]
    BY <1>6 DEF Recall
  <2>2. episodes[i] \in Episodes
    BY <1>2
  <2>3. [episodes[i] EXCEPT !.recalled = TRUE] \in Episodes
    BY <2>2 DEF Episodes
  <2>4. episodes' = [episodes EXCEPT ![i] = [episodes[i] EXCEPT !.recalled = TRUE]]
    BY <2>1
  <2>5. episodes' \in Seq(Episodes)
    BY <1>2, <2>3, <2>4
  <2> QED BY <1>1, <1>2, <1>6, <2>5 DEF Recall
<1>7. ASSUME NEW th, Forget(th) PROVE TypeInv'
  <2> DEFINE kept == {i \in DOMAIN episodes : episodes[i].recalled \/ episodes[i].importance >= th}
             gone == {episodes[i].atom : i \in DOMAIN episodes \ kept}
  <2>1. episodes' = ElementsAt(episodes, kept) /\ store' = RemoveAll(store, gone)
        /\ UNCHANGED <<file, nextEpisode, knowledge, loop>>
    BY <1>7 DEF Forget
  <2>2. kept \subseteq DOMAIN episodes
    OBVIOUS
  <2> HIDE DEF kept, gone
  <2>3. episodes' \in Seq(Episodes)
    BY <1>2, <2>1, <2>2, ElementsAtIs
  <2> QED BY <1>1, <1>2, <2>1, <2>3, RemoveType
<1>8. CASE ClearEpisodes
  BY <1>1, <1>2, <1>8 DEF ClearEpisodes
<1> QED BY <1>4, <1>5, <1>6, <1>7, <1>8 DEF EpisodicStep

LEMMA KnowledgeTypes == TypeInv /\ KnowledgeStep => TypeInv'
<1> SUFFICES ASSUME TypeInv, KnowledgeStep PROVE TypeInv'
  OBVIOUS
<1>1. CASE /\ store' \in Stores /\ entries' \subseteq Entries /\ contentIndex' \subseteq Contents \X Nat
           /\ nextEntry' \in 1..(MaxEntryId + 1) /\ UNCHANGED <<file, episodic, loop>>
  BY <1>1 DEF TypeInv, TypeOK, StoreTypeOK, FileWritten, Counted, episodic, loop
<1>2. /\ store \in Stores /\ entries \subseteq Entries /\ contentIndex \subseteq Contents \X Nat
      /\ nextEntry \in 1..(MaxEntryId + 1) /\ MaxEntryId \in Nat
  BY MemoryAssumption DEF TypeInv, TypeOK, StoreTypeOK, Counted
<1>3. ASSUME NEW c \in Contents, NEW conf \in Levels, StrengthenKnowledge(c, conf) PROVE TypeInv'
  <2>1. PICK e \in entries :
          /\ entries' = (entries \ {e}) \cup {[e EXCEPT !.confidence = HigherOf(@, conf)]}
          /\ UNCHANGED <<store, file, episodic, contentIndex, nextEntry, loop>>
    BY <1>3 DEF StrengthenKnowledge
  <2>2. e \in Entries
    BY <1>2
  <2>3. [e EXCEPT !.confidence = HigherOf(@, conf)] \in Entries
    BY <2>2 DEF HigherOf, Entries
  <2> QED BY <1>1, <1>2, <2>1, <2>3
<1>4. ASSUME NEW c \in Contents, NEW conf \in Levels, AddKnowledge(c, conf) PROVE TypeInv'
  <2> DEFINE s == AddNode(store, KnowledgeLabel(c))
             a == NodeAt(s, KnowledgeLabel(c))
  <2>1. PICK e : e = [id |-> nextEntry, content |-> c, confidence |-> conf, atom |-> a]
    OBVIOUS
  <2>2. /\ nextEntry <= MaxEntryId /\ store' = s /\ entries' = entries \cup {e}
        /\ contentIndex' = contentIndex \cup {<<c, nextEntry>>} /\ nextEntry' = nextEntry + 1
        /\ UNCHANGED <<file, episodic, loop>>
    BY <1>4, <2>1 DEF AddKnowledge
  <2>3. s \in Stores /\ a \in Atoms
    BY <1>2, LabelsKnown, AddNodeType
  <2>4. e \in Entries
    BY <1>2, <2>1, <2>3 DEF Entries
  <2> HIDE DEF s, a
  <2> QED BY <1>1, <1>2, <2>2, <2>3, <2>4
<1>5. ASSUME NEW gone, Drop(gone) PROVE TypeInv'
  BY <1>1, <1>2, <1>5, RemoveType DEF Drop
<1>6. CASE ClearKnowledge
  BY <1>1, <1>2, <1>6 DEF ClearKnowledge
<1> QED BY <1>3, <1>4, <1>5, <1>6 DEF KnowledgeStep, RemoveKnowledge, Consolidate

LEMMA CliTypes == TypeInv /\ CliStep => TypeInv'
<1> SUFFICES ASSUME TypeInv, CliStep PROVE TypeInv'
  OBVIOUS
<1>1. /\ store \in Stores /\ file \in Files /\ FileWritten /\ cycleCount \in Nat /\ prev \subseteq Atoms
      /\ MaxCycles \in Nat /\ MaxEpisodeId \in Nat /\ MaxEntryId \in Nat
  BY MemoryAssumption DEF TypeInv, TypeOK, StoreTypeOK
<1>2. CASE Save
  <2>1. file' = Snapshot(store) /\ UNCHANGED <<store, episodic, knowledge, loop>>
    BY <1>2 DEF Save, SaveToFile
  <2>2. Snapshot(store) \in Files /\ Snapshot(store).nextId \in Ids
    BY <1>1 DEF Snapshot, Files, Stores, Ids
  <2> QED BY <2>1, <2>2 DEF TypeInv, TypeOK, StoreTypeOK, FileWritten, Counted, episodic, knowledge, loop
<1>3. CASE Load
  <2>1. file # NoFile /\ store' = Restore(store, file) /\ UNCHANGED <<file, episodic, knowledge, loop>>
    BY <1>3 DEF Load, LoadFromFile
  <2>2. store' \in Stores
    BY <1>1, <2>1, RestoreType DEF FileWritten
  <2> QED BY <2>1, <2>2 DEF TypeInv, TypeOK, StoreTypeOK, FileWritten, Counted, episodic, knowledge, loop
<1>4. CASE Restart
  <2>1. Empty(0) \in Stores
    BY EmptyIsSound
  <2> QED BY <1>1, <1>4, <2>1 DEF Restart, TypeInv, TypeOK, StoreTypeOK, FileWritten, Counted
<1>5. ASSUME NEW d \in Durations, Reflect(d) PROVE TypeInv'
  <2> DEFINE n == cycleCount + 1
             s1 == RemoveAll(store, prev)
             m == AddNode(s1, CycleLabel(n))
             s2 == AddNode(m, DurationLabel(d))
             cycl == NodeAt(s2, CycleLabel(n))
             taken == NodeAt(s2, DurationLabel(d))
             ids == <<cycl.id, taken.id>>
             link == LinkAt(AddLink(s2, StateLink, ids), StateLink, ids)
  <2>1. /\ n <= MaxCycles /\ store' = AddLink(s2, StateLink, ids)
        /\ prev' = {cycl, taken, link} /\ cycleCount' = n /\ UNCHANGED <<file, episodic, knowledge>>
    BY <1>5 DEF Reflect
  <2>2. n \in 1..MaxCycles /\ CycleLabel(n) \in Labels /\ DurationLabel(d) \in Labels
    BY <1>1, <2>1, LabelsKnown
  <2>3. s1 \in Stores
    BY <1>1, RemoveType
  <2>4. m \in Stores /\ HasNode(m, CycleLabel(n))
    BY <2>2, <2>3, AddNodeType, SMTT(30) DEF HasNode
  <2>5. s2 \in Stores /\ taken \in Atoms
    BY <2>2, <2>4, AddNodeType
  <2>6. HasNode(s2, CycleLabel(n))
    BY <2>4 DEF AddNode, Insert, HasNode
  <2>7. cycl \in Atoms
    <3>1. s2.nodeIndex \subseteq Atoms
      BY <2>5 DEF Stores
    <3>2. cycl \in s2.nodeIndex
      BY <2>6 DEF HasNode, NodeAt
    <3> QED BY <3>1, <3>2
  <2>8. ids \in Seq(Ids) /\ ids # <<>>
    BY <2>5, <2>7 DEF Atoms
  <2> HIDE DEF n, s1, m, s2, cycl, taken, ids
  <2>9. store' \in Stores /\ link \in Atoms
    BY <2>1, <2>5, <2>8, LabelsKnown, AddLinkType
  <2>10. n \in Nat /\ prev' \subseteq Atoms
    BY <2>1, <2>2, <2>5, <2>7, <2>9
  <2> HIDE DEF link
  <2> QED BY <2>1, <2>9, <2>10 DEF TypeInv, TypeOK, StoreTypeOK, FileWritten, Counted, episodic, knowledge
<1> QED BY <1>2, <1>3, <1>4, <1>5 DEF CliStep

\* The types of what EpisodicMemory, KnowledgeIntegrator, CognitiveLoop and the store keep
THEOREM MemoryTypes == Spec => []TypeOK
<1>1. Init => TypeInv
  <2> SUFFICES ASSUME Init PROVE TypeInv
    OBVIOUS
  <2>1. store \in Stores /\ file \in Files
    BY EmptyIsSound DEF Init, StoreInit, NoFile, Files
  <2> QED BY <2>1, MemoryAssumption DEF Init, StoreInit, TypeInv, TypeOK, StoreTypeOK, FileWritten, Counted
<1>2. TypeInv /\ [Next]_vars => TypeInv'
  <2>1. TypeInv /\ UNCHANGED vars => TypeInv'
    BY DEF vars, episodic, knowledge, loop, TypeInv, TypeOK, StoreTypeOK, FileWritten, Counted
  <2> QED BY <2>1, CallerTypes, EpisodicTypes, KnowledgeTypes, CliTypes DEF Next
<1> QED BY <1>1, <1>2, PTL DEF Spec, TypeInv

-----------------------------------------------------------------------------
(***************************************************************************)
(* The agent's memories: the atoms of one client are told from another's   *)
(* by their labels                                                         *)
(***************************************************************************)
CallersLabels == CallerLinks \cup ConceptLabels
CycleMarks    == CycleLabels \cup {StateLink}
PrevLabels    == CycleMarks \cup ({"Duration"} \X Durations)

LEMMA LabelsApart ==
  /\ \A n, m : EpisodeLabel(n) = EpisodeLabel(m) => n = m
  /\ \A c, d : KnowledgeLabel(c) = KnowledgeLabel(d) => c = d
  /\ \A n, c : EpisodeLabel(n) # KnowledgeLabel(c)
  /\ \A n : EpisodeLabel(n) \notin CallersLabels \cup PrevLabels
  /\ \A c : KnowledgeLabel(c) \notin CallersLabels \cup PrevLabels
  /\ CallersLabels \cap PrevLabels = {} /\ StateLink \notin CycleLabels
  /\ \A d : DurationLabel(d) \notin CycleMarks
<1>1. \A x, y : <<x, y>> # StateLink
  BY DEF StateLink
<1>2. ASSUME NEW x, NEW y
      PROVE  /\ <<x, y>> \in CallersLabels => x \in {"Link", "Concept"}
             /\ <<x, y>> \in PrevLabels => x \in {"Cycle", "Duration"}
             /\ <<x, y>> \in CycleMarks => x = "Cycle"
  BY <1>1 DEF CallersLabels, CallerLinks, ConceptLabels, PrevLabels, CycleMarks, CycleLabels
<1>3. \A l \in CallersLabels : \E x, y : l = <<x, y>>
  BY DEF CallersLabels, CallerLinks, ConceptLabels
<1>4. StateLink \notin CycleLabels
  BY <1>1 DEF CycleLabels
<1>5. CallersLabels \cap PrevLabels = {}
  BY <1>2, <1>3
<1>6. \A n : EpisodeLabel(n) \notin CallersLabels \cup PrevLabels
  BY <1>2 DEF EpisodeLabel
<1>7. \A c : KnowledgeLabel(c) \notin CallersLabels \cup PrevLabels
  BY <1>2 DEF KnowledgeLabel
<1>8. \A d : DurationLabel(d) \notin CycleMarks
  BY <1>2 DEF DurationLabel
<1>9. \A n, c : EpisodeLabel(n) # KnowledgeLabel(c)
  BY DEF EpisodeLabel, KnowledgeLabel
<1> QED BY <1>4, <1>5, <1>6, <1>7, <1>8, <1>9 DEF EpisodeLabel, KnowledgeLabel

\* An episode's atom was made for it, or handed over by a caller
EpisodesLabelled ==
  \A i \in DOMAIN episodes :
    /\ episodes[i].id \in 1..(nextEpisode - 1)
    /\ episodes[i].atom.label \in CallersLabels \cup {EpisodeLabel(episodes[i].id)}

EntriesLabelled ==
  \A e \in entries : e.id \in 1..(nextEntry - 1) /\ e.atom.label = KnowledgeLabel(e.content)

\* What the store has of a cycle is the last one's, while nothing was loaded
PrevLabelled ==
  /\ \A a \in prev : a.label \in PrevLabels
  /\ \A a, b \in prev : /\ a.label \in CycleLabels /\ b.label \in CycleLabels => a = b
                        /\ a.label = StateLink /\ b.label = StateLink => a = b
  /\ store.epoch = 0 => \A a \in Live : a.label \in CycleMarks => a \in prev

StoreKept == TypeInv /\ StoreIsSound /\ FileIsSound
MemoryInv ==
  /\ StoreKept
  /\ EpisodesLabelled /\ EntriesLabelled /\ PrevLabelled
  /\ HandlesAreLive /\ KnowledgeIndexed

LEMMA InvIsCurrent == MemoryInv => MemoryIsCurrent
  BY DEF MemoryInv, PrevLabelled, CycleMarks, MemoryIsCurrent, OneCycleKept

\* What addNode does to a sound store
LEMMA AddNodeDoes ==
  ASSUME NEW s \in Stores, Sound(s), NEW l \in Labels
  PROVE  LET r == AddNode(s, l)
             a == NodeAt(r, l)
         IN /\ r \in Stores /\ Sound(r) /\ r.epoch = s.epoch
            /\ r.byId = s.byId \cup {a} /\ a \in r.byId /\ a \in Atoms
            /\ a.label = l /\ IsNode(a)
<1> DEFINE r == AddNode(s, l)
           a == NodeAt(r, l)
<1>1. r \in Stores /\ Sound(r)
  BY AddNodeIsSound
<1>2. a \in r.nodeIndex /\ a \in Atoms /\ a.label = l
  BY AddNodeType
<1>3. r.nodeIndex = Nodes(r.byId) /\ \A b, c \in r.byId : Key(b) = Key(c) => b = c
  BY <1>1 DEF Sound, IndexesAgree
<1>4. a \in r.byId /\ IsNode(a)
  BY <1>2, <1>3 DEF Nodes
<1>5. r.epoch = s.epoch /\ r.byId = s.byId \cup {a}
  <2>1. CASE HasNode(s, l)
    BY <1>4, <2>1 DEF AddNode
  <2>2. CASE ~HasNode(s, l)
    <3> DEFINE b == NewAtom(s, l, <<>>)
    <3>1. r = Insert(s, b)
      BY <2>2 DEF AddNode
    <3>2. Insert(s, b).epoch = s.epoch /\ Insert(s, b).byId = {c \in s.byId : c.id # b.id} \cup {b}
      BY DEF Insert
    <3>3. b.id = s.nextId /\ b.label = l /\ b.out = <<>>
      BY DEF NewAtom
    <3>4. \A c \in s.byId : c.id < s.nextId /\ c.id \in Nat
      BY DEF Sound, OrderedIds, Stores, Atoms, Ids
    <3>5. r.byId = s.byId \cup {b} /\ r.epoch = s.epoch
      <4>1. s.nextId \in Nat
        BY DEF Stores, Ids
      <4> HIDE DEF b
      <4> QED BY <3>1, <3>2, <3>3, <3>4, <4>1
    <3>6. Key(b) = Key(a)
      BY <1>2, <1>4, <3>3 DEF Key, IsNode
    <3> HIDE DEF a, b, r
    <3> QED BY <1>3, <1>4, <3>5, <3>6
  <2> QED BY <2>1, <2>2
<1> HIDE DEF r, a
<1> QED BY <1>1, <1>2, <1>4, <1>5 DEF r, a

LEMMA AddLinkDoes ==
  ASSUME NEW s \in Stores, Sound(s), NEW t \in LinkTypes,
         NEW ids \in Seq(Ids), ids # <<>>, \A i \in DOMAIN ids : ids[i] < s.nextId
  PROVE  LET r == AddLink(s, t, ids)
             a == LinkAt(r, t, ids)
         IN /\ r \in Stores /\ Sound(r) /\ r.epoch = s.epoch
            /\ r.byId = s.byId \cup {a} /\ a \in r.byId /\ a \in Atoms
            /\ a.label = t
<1> DEFINE r == AddLink(s, t, ids)
           a == LinkAt(r, t, ids)
<1>1. r \in Stores /\ Sound(r)
  BY AddLinkIsSound
<1>2. a \in r.linkIndex /\ a \in Atoms /\ Key(a) = <<t, ids>>
  BY AddLinkType
<1>3. r.linkIndex = Links(r.byId) /\ \A b, c \in r.byId : Key(b) = Key(c) => b = c
  BY <1>1 DEF Sound, IndexesAgree
<1>4. a \in r.byId /\ a.label = t
  BY <1>2, <1>3 DEF Links, Key
<1>5. r.epoch = s.epoch /\ r.byId = s.byId \cup {a}
  <2>1. CASE HasLink(s, t, ids)
    BY <1>4, <2>1 DEF AddLink
  <2>2. CASE ~HasLink(s, t, ids)
    <3> DEFINE b == NewAtom(s, t, ids)
    <3>1. r = Insert(s, b)
      BY <2>2 DEF AddLink
    <3>2. Insert(s, b).epoch = s.epoch /\ Insert(s, b).byId = {c \in s.byId : c.id # b.id} \cup {b}
      BY DEF Insert
    <3>3. b.id = s.nextId /\ Key(b) = <<t, ids>>
      BY DEF NewAtom, Key
    <3>4. \A c \in s.byId : c.id < s.nextId /\ c.id \in Nat
      BY DEF Sound, OrderedIds, Stores, Atoms, Ids
    <3>5. r.byId = s.byId \cup {b} /\ r.epoch = s.epoch
      <4>1. s.nextId \in Nat
        BY DEF Stores, Ids
      <4> HIDE DEF b
      <4> QED BY <3>1, <3>2, <3>3, <3>4, <4>1
    <3>6. Key(b) = Key(a)
      BY <1>2, <3>3
    <3> HIDE DEF a, b, r
    <3> QED BY <1>3, <1>4, <3>5, <3>6
  <2> QED BY <2>1, <2>2
<1> HIDE DEF r, a
<1> QED BY <1>1, <1>2, <1>4, <1>5 DEF r, a

\* remove() takes the atoms whose handles it is given, and no others
LEMMA RemoveDoes ==
  ASSUME NEW s \in Stores, Sound(s), NEW H \in SUBSET s.byId
  PROVE  LET r == RemoveAll(s, H)
         IN r \in Stores /\ Sound(r) /\ r.epoch = s.epoch /\ r.byId = s.byId \ H
<1>1. RemoveAll(s, H).byId = s.byId \ H /\ RemoveAll(s, H).epoch = s.epoch
  BY DEF RemoveAll, Sound, IndexesAgree
<1> QED BY <1>1, RemoveIsSound

\* Atoms of the callers do not disturb the agent's memories
LEMMA CallersAdd ==
  ASSUME MemoryInv, NEW A, store' \in Stores, Sound(store'), store'.epoch = store.epoch,
         store'.byId = store.byId \cup A, \A a \in A : a.label \in CallersLabels,
         UNCHANGED <<file, episodic, knowledge, loop>>
  PROVE  MemoryInv'
<1>1. StoreKept'
  BY DEF MemoryInv, StoreKept, TypeInv, TypeOK, StoreTypeOK, FileWritten, Counted, StoreIsSound, FileIsSound,
         episodic, knowledge, loop
<1>2. UNCHANGED <<episodes, nextEpisode, entries, contentIndex, nextEntry, prev>>
  BY DEF episodic, knowledge, loop
<1>3. EpisodesLabelled' /\ EntriesLabelled' /\ KnowledgeIndexed'
  BY <1>2 DEF MemoryInv, EpisodesLabelled, EntriesLabelled, KnowledgeIndexed
<1>4. HandlesAreLive'
  BY <1>2 DEF MemoryInv, HandlesAreLive, Live, Owned, EpisodeAtoms, EntryAtoms
<1>5. PrevLabelled'
  BY <1>2, LabelsApart DEF MemoryInv, PrevLabelled, Live, PrevLabels
<1> QED BY <1>1, <1>3, <1>4, <1>5 DEF MemoryInv

LEMMA CallerKeeps == MemoryInv /\ CallerStep => MemoryInv'
<1> SUFFICES ASSUME MemoryInv, CallerStep PROVE MemoryInv'
  OBVIOUS
<1>1. store \in Stores /\ Sound(store) /\ Live \subseteq Atoms
  BY DEF MemoryInv, StoreKept, StoreIsSound, TypeInv, TypeOK, StoreTypeOK, Live, Stores
<1>2. ASSUME NEW c \in Concepts, AddConcept(c) PROVE MemoryInv'
  <2> DEFINE l == <<"Concept", c>>
             a == NodeAt(AddNode(store, l), l)
  <2>1. l \in Labels /\ l \in CallersLabels
    BY LabelsKnown DEF CallersLabels, ConceptLabels
  <2>2. store' = AddNode(store, l) /\ UNCHANGED <<file, episodic, knowledge, loop>>
    BY <1>2 DEF AddConcept
  <2>3. /\ store' \in Stores /\ Sound(store') /\ store'.epoch = store.epoch
        /\ store'.byId = store.byId \cup {a} /\ a.label = l
    BY <1>1, <2>1, <2>2, AddNodeDoes
  <2> HIDE DEF l, a
  <2> QED BY <2>1, <2>2, <2>3, CallersAdd
<1>3. ASSUME NEW s \in Stores, Sound(s), NEW a \in s.byId, NEW b \in s.byId
      PROVE  LET ids == <<a.id, b.id>>
             IN ids \in Seq(Ids) /\ ids # <<>> /\ \A i \in DOMAIN ids : ids[i] < s.nextId
  <2>1. a.id \in Ids /\ b.id \in Ids /\ a.id < s.nextId /\ b.id < s.nextId
    BY <1>3 DEF Stores, Atoms, Sound, OrderedIds
  <2> QED BY <2>1
<1>4. ASSUME NEW t \in CallerLinks, NEW x \in Live, NEW y \in Live, AssertRelation(t, x, y)
      PROVE  MemoryInv'
  <2> DEFINE ids == <<x.id, y.id>>
             a == LinkAt(AddLink(store, t, ids), t, ids)
  <2>1. t \in LinkTypes /\ t \in CallersLabels
    BY LabelsKnown DEF CallersLabels
  <2>2. store' = AddLink(store, t, ids) /\ UNCHANGED <<file, episodic, knowledge, loop>>
    BY <1>4 DEF AssertRelation
  <2>3. ids \in Seq(Ids) /\ ids # <<>> /\ \A i \in DOMAIN ids : ids[i] < store.nextId
    BY <1>1, <1>3 DEF Live
  <2> HIDE DEF ids
  <2>4. /\ store' \in Stores /\ Sound(store') /\ store'.epoch = store.epoch
        /\ store'.byId = store.byId \cup {a} /\ a.label = t
    BY <1>1, <2>1, <2>2, <2>3, AddLinkDoes
  <2> HIDE DEF a
  <2> QED BY <2>1, <2>2, <2>4, CallersAdd
<1>5. ASSUME NEW c \in Concepts, NEW t \in CallerLinks, NEW x \in Live, FormConcept(c, t, x)
      PROVE  MemoryInv'
  <2> DEFINE l == <<"Concept", c>>
             s == AddNode(store, l)
             n == NodeAt(s, l)
             ids == <<x.id, n.id>>
             a == LinkAt(AddLink(s, t, ids), t, ids)
  <2>1. t \in LinkTypes /\ t \in CallersLabels /\ l \in Labels /\ l \in CallersLabels
    BY LabelsKnown DEF CallersLabels, ConceptLabels
  <2>2. store' = AddLink(s, t, ids) /\ UNCHANGED <<file, episodic, knowledge, loop>>
    BY <1>5 DEF FormConcept
  <2>3. /\ s \in Stores /\ Sound(s) /\ s.epoch = store.epoch
        /\ s.byId = store.byId \cup {n} /\ n.label = l
    BY <1>1, <2>1, AddNodeDoes
  <2> HIDE DEF l, s, n
  <2>4. ids \in Seq(Ids) /\ ids # <<>> /\ \A i \in DOMAIN ids : ids[i] < s.nextId
    BY <1>3, <2>3 DEF Live
  <2> HIDE DEF ids
  <2>5. /\ store' \in Stores /\ Sound(store') /\ store'.epoch = s.epoch
        /\ store'.byId = s.byId \cup {a} /\ a.label = t
    BY <2>1, <2>2, <2>3, <2>4, AddLinkDoes
  <2> HIDE DEF a
  <2>6. store'.byId = store.byId \cup {n, a} /\ store'.epoch = store.epoch
    BY <2>3, <2>5
  <2> QED BY <2>1, <2>2, <2>3, <2>5, <2>6, CallersAdd, ZenonT(60)
<1> QED BY <1>2, <1>4, <1>5 DEF CallerStep

\* No two of these episodes have the same atom
AtomsDiffer(eps) == \A i, j \in DOMAIN eps : eps[i].atom = eps[j].atom => i = j

\* trimToCapacity leaves out one episode and its atom, or nothing: the others
\* are there still, and so are their atoms
LEMMA TrimDoes ==
  ASSUME NEW eps \in Seq(Episodes), AtomsDiffer(eps), NEW s \in Stores, Sound(s),
         \A i \in DOMAIN eps : eps[i].atom \in s.byId,
         Trim(eps, s)
  PROVE  /\ store' \in Stores /\ Sound(store') /\ store'.epoch = s.epoch
         /\ AtomsDiffer(episodes')
         /\ \E gone \in SUBSET DOMAIN eps :
              /\ store'.byId = s.byId \ {eps[i].atom : i \in gone}
              /\ \A k \in DOMAIN episodes' : \E i \in DOMAIN eps \ gone : episodes'[k] = eps[i]
              /\ \A i \in DOMAIN eps \ gone : \E k \in DOMAIN episodes' : episodes'[k] = eps[i]
              /\ Unrecalled(eps) # {} => gone \subseteq Unrecalled(eps)
<1>1. CASE Len(eps) <= MaxEpisodes
  <2>1. episodes' = eps /\ store' = s
    BY <1>1 DEF Trim
  <2>2. {} \in SUBSET DOMAIN eps /\ {eps[i].atom : i \in {}} = {}
    OBVIOUS
  <2>3. s.byId = s.byId \ {eps[i].atom : i \in {}}
    BY <2>2
  <2>4. \A k \in DOMAIN episodes' : \E i \in DOMAIN eps \ {} : episodes'[k] = eps[i]
    BY <2>1
  <2>5. \A i \in DOMAIN eps \ {} : \E k \in DOMAIN episodes' : episodes'[k] = eps[i]
    BY <2>1
  <2>6. store'.byId = s.byId \ {eps[i].atom : i \in {}}
    BY <2>1, <2>3
  <2> QED BY <2>1, <2>2, <2>4, <2>5, <2>6
<1>2. CASE ~(Len(eps) <= MaxEpisodes)
  <2>1. PICK v \in DOMAIN eps : /\ IsVictim(eps, v) /\ episodes' = RemoveAt(eps, v)
                                /\ store' = RemoveAll(s, {eps[v].atom})
    BY <1>2 DEF Trim
  <2>2. /\ store' \in Stores /\ Sound(store') /\ store'.epoch = s.epoch
        /\ store'.byId = s.byId \ {eps[v].atom}
    BY <2>1, RemoveDoes
  <2>10. Picks(episodes', eps, DOMAIN eps \ {v})
    BY <2>1, RemoveAtIs
  <2>3. PICK f \in [DOMAIN episodes' -> DOMAIN eps \ {v}] :
          /\ \A k \in DOMAIN episodes' : episodes'[k] = eps[f[k]]
          /\ \A j, k \in DOMAIN episodes' : j < k => f[j] < f[k]
          /\ \A i \in DOMAIN eps \ {v} : \E k \in DOMAIN episodes' : f[k] = i
    BY <2>10 DEF Picks
  <2>4. episodes' \in Seq(Episodes)
    BY <2>1, RemoveAtIs
  <2>5. AtomsDiffer(episodes')
    <3>1. SUFFICES ASSUME NEW i \in DOMAIN episodes', NEW j \in DOMAIN episodes',
                          episodes'[i].atom = episodes'[j].atom
                   PROVE  i = j
      BY DEF AtomsDiffer
    <3>2. f[i] \in DOMAIN eps /\ f[j] \in DOMAIN eps /\ eps[f[i]].atom = eps[f[j]].atom
      BY <2>3, <3>1
    <3>3. f[i] = f[j] /\ f[i] \in Nat
      BY <3>2 DEF AtomsDiffer
    <3>4. ~(i < j) /\ ~(j < i)
      BY <2>3, <3>3
    <3> QED BY <2>4, <3>4
  <2>6. \A k \in DOMAIN episodes' : \E i \in DOMAIN eps \ {v} : episodes'[k] = eps[i]
    BY <2>3
  <2>7. \A i \in DOMAIN eps \ {v} : \E k \in DOMAIN episodes' : episodes'[k] = eps[i]
    BY <2>3
  <2>8. Unrecalled(eps) # {} => {v} \subseteq Unrecalled(eps)
    BY <2>1 DEF IsVictim
  <2>9. {v} \in SUBSET DOMAIN eps /\ {eps[i].atom : i \in {v}} = {eps[v].atom}
    OBVIOUS
  <2> QED BY <2>2, <2>5, <2>6, <2>7, <2>8, <2>9
<1> QED BY <1>1, <1>2

\* The episodes that stay, and their atoms, after some of them were dropped
LEMMA EpisodesDropped ==
  ASSUME MemoryInv, TypeInv', UNCHANGED <<file, nextEpisode, knowledge, loop>>,
         store' \in Stores, Sound(store'), store'.epoch = store.epoch,
         AtomsDiffer(episodes'),
         NEW gone \in SUBSET DOMAIN episodes,
         store'.byId = store.byId \ {episodes[i].atom : i \in gone},
         \A k \in DOMAIN episodes' : \E i \in DOMAIN episodes \ gone : episodes'[k] = episodes[i]
  PROVE  MemoryInv'
<1>1. StoreKept'
  BY DEF MemoryInv, StoreKept, StoreIsSound, FileIsSound
<1>2. UNCHANGED <<nextEpisode, entries, contentIndex, nextEntry, prev>>
  BY DEF knowledge, loop
<1>3. EpisodesLabelled'
  BY <1>2 DEF MemoryInv, EpisodesLabelled
<1>4. EntriesLabelled' /\ KnowledgeIndexed'
  BY <1>2 DEF MemoryInv, EntriesLabelled, KnowledgeIndexed
<1>5. PrevLabelled'
  BY <1>2 DEF MemoryInv, PrevLabelled, Live
<1>6. HandlesAreLive'
  <2>1. /\ Owned \subseteq Live /\ AtomsDiffer(episodes) /\ EpisodeAtoms \cap EntryAtoms = {}
        /\ prev \cap (EpisodeAtoms \cup EntryAtoms) = {}
        /\ \A e, f \in entries : e.atom = f.atom => e = f
    BY DEF MemoryInv, HandlesAreLive, AtomsDiffer
  <2>2. EntryAtoms' = EntryAtoms /\ prev' = prev
    BY <1>2 DEF EntryAtoms
  <2>3. EpisodeAtoms' \subseteq EpisodeAtoms
    BY DEF EpisodeAtoms
  <2>4. EpisodeAtoms' \cap {episodes[i].atom : i \in gone} = {}
    BY <2>1 DEF EpisodeAtoms, AtomsDiffer
  <2>5. {episodes[i].atom : i \in gone} \subseteq EpisodeAtoms
    BY DEF EpisodeAtoms
  <2>6. Owned' \subseteq Live'
    BY <2>1, <2>2, <2>3, <2>4, <2>5 DEF Owned, Live
  <2> QED BY <1>2, <2>1, <2>2, <2>3, <2>6 DEF HandlesAreLive, AtomsDiffer
<1> QED BY <1>1, <1>3, <1>4, <1>5, <1>6 DEF MemoryInv

\* An episode is appended with an atom of its own, and the memory trimmed
LEMMA EpisodeAppended ==
  ASSUME MemoryInv, TypeInv', UNCHANGED <<file, knowledge, loop>>,
         NEW s \in Stores, Sound(s), s.epoch = store.epoch, NEW a \in Atoms,
         s.byId = store.byId \cup {a}, a \notin Owned,
         a.label \in CallersLabels \cup {EpisodeLabel(nextEpisode)},
         NEW imp \in Levels,
         Trim(Append(episodes, Episode(nextEpisode, imp, a)), s),
         nextEpisode' = nextEpisode + 1
  PROVE  /\ MemoryInv'
         /\ \A i \in DOMAIN episodes :
              episodes[i].recalled => \E j \in DOMAIN episodes' : episodes'[j].id = episodes[i].id
<1> DEFINE e == Episode(nextEpisode, imp, a)
           eps == Append(episodes, e)
           n == Len(episodes)
<1>1. /\ episodes \in Seq(Episodes) /\ nextEpisode \in Nat \ {0} /\ AtomsDiffer(episodes)
      /\ Owned \subseteq Live /\ EpisodeAtoms \subseteq Owned
  BY DEF MemoryInv, StoreKept, TypeInv, TypeOK, Counted, HandlesAreLive, AtomsDiffer, Owned
<1>2. e \in Episodes /\ e.id = nextEpisode /\ e.atom = a /\ e.recalled = FALSE
  BY <1>1 DEF Episode, Episodes
<1> HIDE DEF e
<1>3. /\ eps \in Seq(Episodes) /\ n \in Nat /\ DOMAIN eps = 1..(n + 1) /\ DOMAIN episodes = 1..n
      /\ eps[n + 1] = e /\ \A i \in 1..n : eps[i] = episodes[i]
  BY <1>1, <1>2
<1> HIDE DEF eps, n
<1>4. \A i \in 1..n : episodes[i].atom \in EpisodeAtoms
  BY <1>3 DEF EpisodeAtoms
<1>5. AtomsDiffer(eps)
  <2>1. SUFFICES ASSUME NEW i \in DOMAIN eps, NEW j \in DOMAIN eps, eps[i].atom = eps[j].atom
                 PROVE  i = j
    BY DEF AtomsDiffer
  <2>2. CASE i \in 1..n /\ j \in 1..n
    BY <1>1, <1>3, <2>1, <2>2 DEF AtomsDiffer
  <2>3. CASE i = n + 1 /\ j \in 1..n
    BY <1>1, <1>2, <1>3, <1>4, <2>1, <2>3
  <2>4. CASE i \in 1..n /\ j = n + 1
    BY <1>1, <1>2, <1>3, <1>4, <2>1, <2>4
  <2> QED BY <1>3, <2>1, <2>2, <2>3, <2>4
<1>6. \A i \in DOMAIN eps : eps[i].atom \in s.byId
  BY <1>1, <1>2, <1>3, <1>4 DEF Live
<1>7. n + 1 \in Unrecalled(eps)
  BY <1>2, <1>3 DEF Unrecalled
<1>8. /\ store' \in Stores /\ Sound(store') /\ store'.epoch = s.epoch /\ AtomsDiffer(episodes')
  BY <1>3, <1>5, <1>6, TrimDoes DEF eps, e
<1>9. PICK gone \in SUBSET DOMAIN eps :
        /\ store'.byId = s.byId \ {eps[i].atom : i \in gone}
        /\ \A k \in DOMAIN episodes' : \E i \in DOMAIN eps \ gone : episodes'[k] = eps[i]
        /\ \A i \in DOMAIN eps \ gone : \E k \in DOMAIN episodes' : episodes'[k] = eps[i]
        /\ gone \subseteq Unrecalled(eps)
  BY <1>3, <1>5, <1>6, <1>7, TrimDoes DEF eps, e
<1>10. \A i \in DOMAIN episodes :
         episodes[i].recalled => \E j \in DOMAIN episodes' : episodes'[j].id = episodes[i].id
  <2>1. SUFFICES ASSUME NEW i \in DOMAIN episodes, episodes[i].recalled
                 PROVE  \E j \in DOMAIN episodes' : episodes'[j].id = episodes[i].id
    OBVIOUS
  <2>2. i \in DOMAIN eps /\ eps[i] = episodes[i]
    BY <1>3, <2>1
  <2>3. i \notin gone
    BY <1>9, <2>1, <2>2 DEF Unrecalled
  <2> QED BY <1>9, <2>2, <2>3
<1>11. StoreKept'
  BY <1>8 DEF MemoryInv, StoreKept, StoreIsSound, FileIsSound
<1>12. UNCHANGED <<entries, contentIndex, nextEntry, prev>>
  BY DEF knowledge, loop
<1>13. EntriesLabelled' /\ KnowledgeIndexed'
  BY <1>12 DEF MemoryInv, EntriesLabelled, KnowledgeIndexed
<1>14. EpisodesLabelled'
  <2>1. \A i \in DOMAIN eps : /\ eps[i].id \in 1..nextEpisode
                              /\ eps[i].atom.label \in CallersLabels \cup {EpisodeLabel(eps[i].id)}
    BY <1>1, <1>2, <1>3 DEF MemoryInv, EpisodesLabelled
  <2>2. nextEpisode' - 1 = nextEpisode
    BY <1>1
  <2> QED BY <1>9, <2>1, <2>2 DEF EpisodesLabelled
<1>15. \A i \in DOMAIN eps : eps[i].atom \in EpisodeAtoms \cup {a}
  BY <1>2, <1>3, <1>4
<1>16. PrevLabelled'
  <2>1. a.label \notin PrevLabels
    BY LabelsApart
  <2> QED BY <1>8, <1>9, <1>12, <2>1 DEF MemoryInv, PrevLabelled, Live, PrevLabels
<1>17. HandlesAreLive'
  <2>1. /\ EpisodeAtoms \cap EntryAtoms = {} /\ prev \cap (EpisodeAtoms \cup EntryAtoms) = {}
        /\ \A x, y \in entries : x.atom = y.atom => x = y
        /\ a \notin EpisodeAtoms /\ a \notin EntryAtoms /\ a \notin prev
    BY DEF MemoryInv, HandlesAreLive, Owned
  <2>2. EntryAtoms' = EntryAtoms /\ prev' = prev
    BY <1>12 DEF EntryAtoms
  <2>3. EpisodeAtoms' \subseteq EpisodeAtoms \cup {a}
    BY <1>9, <1>15 DEF EpisodeAtoms
  <2> DEFINE lost == {eps[i].atom : i \in gone}
  <2>4. EpisodeAtoms' \cap lost = {}
    BY <1>5, <1>9 DEF EpisodeAtoms, AtomsDiffer
  <2>5. lost \subseteq EpisodeAtoms \cup {a}
    BY <1>9, <1>15
  <2>6. store'.byId = (store.byId \cup {a}) \ lost
    BY <1>9
  <2> HIDE DEF lost
  <2>7. Owned' \subseteq Live'
    BY <1>1, <2>1, <2>2, <2>3, <2>4, <2>5, <2>6 DEF Owned, Live
  <2> QED BY <1>8, <1>12, <2>1, <2>2, <2>3, <2>7 DEF HandlesAreLive, AtomsDiffer
<1> QED BY <1>10, <1>11, <1>13, <1>14, <1>16, <1>17 DEF MemoryInv

\* EpisodicMemory keeps the recalled episodes as long as it counts on
RecalledStay ==
  nextEpisode' >= nextEpisode =>
    \A i \in DOMAIN episodes :
      episodes[i].recalled => \E j \in DOMAIN episodes' : episodes'[j].id = episodes[i].id

LEMMA EpisodicKeeps == MemoryInv /\ EpisodicStep => MemoryInv' /\ RecalledStay
<1> SUFFICES ASSUME MemoryInv, EpisodicStep PROVE MemoryInv' /\ RecalledStay
  OBVIOUS
<1>1. TypeInv'
  BY EpisodicTypes DEF MemoryInv, StoreKept
<1>2. /\ store \in Stores /\ Sound(store) /\ Live \subseteq Atoms /\ episodes \in Seq(Episodes)
      /\ nextEpisode \in 1..(MaxEpisodeId + 1) /\ MaxEpisodeId \in Nat /\ AtomsDiffer(episodes)
      /\ Owned \subseteq Live /\ EpisodeAtoms \subseteq Owned
  BY MemoryAssumption
     DEF MemoryInv, StoreKept, StoreIsSound, TypeInv, TypeOK, StoreTypeOK, Live, Stores, Counted,
         HandlesAreLive, AtomsDiffer, Owned
<1>3. ASSUME NEW imp \in Levels, Record(imp) PROVE MemoryInv' /\ RecalledStay
  <2> DEFINE l == EpisodeLabel(nextEpisode)
             s == AddNode(store, l)
             a == NodeAt(s, l)
  <2>1. /\ nextEpisode <= MaxEpisodeId /\ nextEpisode' = nextEpisode + 1
        /\ Trim(Append(episodes, Episode(nextEpisode, imp, a)), s)
        /\ UNCHANGED <<file, knowledge, loop>>
    BY <1>3 DEF Record
  <2>2. l \in Labels
    BY <1>2, <2>1, LabelsKnown
  <2>3. /\ s \in Stores /\ Sound(s) /\ s.epoch = store.epoch
        /\ s.byId = store.byId \cup {a} /\ a \in Atoms /\ a.label = l
    BY <1>2, <2>2, AddNodeDoes
  <2> HIDE DEF s, a
  <2>4. a \notin Owned
    <3>1. a \notin EpisodeAtoms
      <4>1. SUFFICES ASSUME NEW i \in DOMAIN episodes, a = episodes[i].atom PROVE FALSE
        BY DEF EpisodeAtoms
      <4>2. /\ episodes[i].id \in 1..(nextEpisode - 1)
            /\ l \in CallersLabels \cup {EpisodeLabel(episodes[i].id)}
        BY <2>3, <4>1 DEF MemoryInv, EpisodesLabelled
      <4>3. episodes[i].id = nextEpisode
        BY <4>2, LabelsApart
      <4> QED BY <1>2, <4>2, <4>3
    <3>2. a \notin EntryAtoms
      BY <2>3, LabelsApart DEF MemoryInv, EntriesLabelled, EntryAtoms
    <3>3. a \notin prev
      BY <2>3, LabelsApart DEF MemoryInv, PrevLabelled
    <3> QED BY <3>1, <3>2, <3>3 DEF Owned
  <2> QED BY <1>1, <2>1, <2>3, <2>4, EpisodeAppended DEF RecalledStay
<1>4. ASSUME NEW a \in Live, NEW imp \in Levels, RecordAtom(a, imp) PROVE MemoryInv' /\ RecalledStay
  <2>1. /\ nextEpisode' = nextEpisode + 1 /\ a \notin Owned /\ a.label \in CallersLabels
        /\ Trim(Append(episodes, Episode(nextEpisode, imp, a)), store)
        /\ UNCHANGED <<file, knowledge, loop>>
    BY <1>4 DEF RecordAtom, CallersLabels
  <2>2. store.byId = store.byId \cup {a} /\ a \in Atoms
    BY <1>2 DEF Live
  <2> QED BY <1>1, <1>2, <2>1, <2>2, EpisodeAppended DEF RecalledStay
<1>5. ASSUME NEW n, Recall(n) PROVE MemoryInv' /\ RecalledStay
  <2>1. PICK i \in DOMAIN episodes : episodes' = [episodes EXCEPT ![i].recalled = TRUE]
    BY <1>5 DEF Recall
  <2>2. UNCHANGED <<store, file, nextEpisode, knowledge, loop>>
    BY <1>5 DEF Recall
  <2>3. DOMAIN episodes' = DOMAIN episodes
    BY <2>1
  <2>4. ASSUME NEW j \in DOMAIN episodes
        PROVE  episodes'[j].id = episodes[j].id /\ episodes'[j].atom = episodes[j].atom
    <3>1. episodes[j] \in Episodes
      BY <1>2
    <3>2. CASE j = i
      BY <2>1, <3>1, <3>2 DEF Episodes
    <3>3. CASE j # i
      BY <2>1, <3>3
    <3> QED BY <3>2, <3>3
  <2>5. /\ UNCHANGED <<entries, contentIndex, nextEntry, prev>>
        /\ EpisodeAtoms' = EpisodeAtoms
    BY <2>2, <2>3, <2>4 DEF knowledge, loop, EpisodeAtoms
  <2>6. StoreKept' /\ EntriesLabelled' /\ KnowledgeIndexed' /\ PrevLabelled'
    BY <1>1, <2>2, <2>5
       DEF MemoryInv, StoreKept, StoreIsSound, FileIsSound, EntriesLabelled, KnowledgeIndexed,
           PrevLabelled, Live
  <2>7. EpisodesLabelled'
    BY <2>2, <2>3, <2>4 DEF MemoryInv, EpisodesLabelled
  <2>8. HandlesAreLive'
    <3>1. EntryAtoms' = EntryAtoms /\ Live' = Live /\ prev' = prev /\ entries' = entries
      BY <2>2, <2>5 DEF EntryAtoms, Live
    <3>2. AtomsDiffer(episodes')
      BY <1>2, <2>3, <2>4 DEF AtomsDiffer
    <3> QED BY <2>5, <3>1, <3>2 DEF MemoryInv, HandlesAreLive, Owned, AtomsDiffer
  <2>9. RecalledStay
    BY <2>3, <2>4 DEF RecalledStay
  <2> QED BY <2>6, <2>7, <2>8, <2>9 DEF MemoryInv
<1>6. ASSUME NEW th \in Levels, Forget(th) PROVE MemoryInv' /\ RecalledStay
  <2> DEFINE kept == {i \in DOMAIN episodes : episodes[i].recalled \/ episodes[i].importance >= th}
             gone == DOMAIN episodes \ kept
             lost == {episodes[i].atom : i \in gone}
  <2>1. episodes' = ElementsAt(episodes, kept) /\ store' = RemoveAll(store, lost)
        /\ UNCHANGED <<file, nextEpisode, knowledge, loop>>
    BY <1>6 DEF Forget
  <2>2. lost \in SUBSET store.byId
    BY <1>2 DEF EpisodeAtoms, Live
  <2>3. /\ store' \in Stores /\ Sound(store') /\ store'.epoch = store.epoch
        /\ store'.byId = store.byId \ lost
    BY <1>2, <2>1, <2>2, RemoveDoes
  <2>4. kept \subseteq DOMAIN episodes /\ gone \in SUBSET DOMAIN episodes
        /\ DOMAIN episodes \ gone = kept
        /\ \A i \in DOMAIN episodes : episodes[i].recalled => i \in kept
    OBVIOUS
  <2> HIDE DEF kept
  <2>10. episodes' \in Seq(Episodes) /\ Picks(episodes', episodes, kept)
    BY <1>2, <2>1, <2>4, ElementsAtIs
  <2>5. PICK f \in [DOMAIN episodes' -> kept] :
          /\ \A k \in DOMAIN episodes' : episodes'[k] = episodes[f[k]]
          /\ \A j, k \in DOMAIN episodes' : j < k => f[j] < f[k]
          /\ \A i \in kept : \E k \in DOMAIN episodes' : f[k] = i
    BY <2>10 DEF Picks
  <2>6. episodes' \in Seq(Episodes)
    BY <2>10
  <2>7. AtomsDiffer(episodes')
    <3>1. SUFFICES ASSUME NEW i \in DOMAIN episodes', NEW j \in DOMAIN episodes',
                          episodes'[i].atom = episodes'[j].atom
                   PROVE  i = j
      BY DEF AtomsDiffer
    <3>2. f[i] \in DOMAIN episodes /\ f[j] \in DOMAIN episodes
          /\ episodes[f[i]].atom = episodes[f[j]].atom
      BY <2>4, <2>5, <3>1
    <3>3. f[i] = f[j] /\ f[i] \in Nat
      BY <1>2, <3>2 DEF AtomsDiffer
    <3>4. ~(i < j) /\ ~(j < i)
      BY <2>5, <3>3
    <3> QED BY <2>6, <3>4
  <2>8. \A k \in DOMAIN episodes' : \E i \in DOMAIN episodes \ gone : episodes'[k] = episodes[i]
    BY <2>4, <2>5
  <2>9. RecalledStay
    BY <2>4, <2>5 DEF RecalledStay
  <2> HIDE DEF gone
  <2> QED BY <1>1, <2>1, <2>3, <2>4, <2>7, <2>8, <2>9, EpisodesDropped
<1>7. CASE ClearEpisodes
  <2>1. episodes' = <<>> /\ nextEpisode' = 1 /\ UNCHANGED <<store, file, knowledge, loop>>
    BY <1>7 DEF ClearEpisodes
  <2>2. UNCHANGED <<entries, contentIndex, nextEntry, prev>> /\ EpisodeAtoms' = {} /\ EntryAtoms' = EntryAtoms
    BY <2>1 DEF knowledge, loop, EpisodeAtoms, EntryAtoms
  <2>3. StoreKept' /\ EntriesLabelled' /\ KnowledgeIndexed' /\ PrevLabelled' /\ EpisodesLabelled'
    BY <1>1, <2>1, <2>2
       DEF MemoryInv, StoreKept, StoreIsSound, FileIsSound, EntriesLabelled, KnowledgeIndexed,
           PrevLabelled, Live, EpisodesLabelled
  <2>4. HandlesAreLive'
    BY <2>1, <2>2 DEF MemoryInv, HandlesAreLive, Owned, Live
  <2>5. RecalledStay
    <3>1. \A i \in DOMAIN episodes : episodes[i].id \in 1..(nextEpisode - 1)
      BY DEF MemoryInv, EpisodesLabelled
    <3> QED BY <1>2, <2>1, <3>1 DEF RecalledStay
  <2> QED BY <2>3, <2>4, <2>5 DEF MemoryInv
<1> QED BY <1>3, <1>4, <1>5, <1>6, <1>7 DEF EpisodicStep

\* The integrator put the atoms of A into the store and took those of R out
KnowledgeChanged(A, R) ==
  /\ UNCHANGED <<file, episodic, loop>>
  /\ store' \in Stores /\ Sound(store') /\ store'.epoch = store.epoch
  /\ store'.byId = (store.byId \cup A) \ R
  /\ \A a \in A : a.label \notin CycleMarks
  /\ \A a \in R : a.label \notin PrevLabels
  /\ EntryAtoms' \subseteq EntryAtoms \cup A /\ R \cap EntryAtoms' = {}
  /\ R \cap EpisodeAtoms = {} /\ A \cap (EpisodeAtoms \cup prev) = {}

LEMMA KnowledgeKeeps == MemoryInv /\ KnowledgeStep => MemoryInv'
<1> SUFFICES ASSUME MemoryInv, KnowledgeStep PROVE MemoryInv'
  OBVIOUS
<1>1. TypeInv'
  BY KnowledgeTypes DEF MemoryInv, StoreKept
<1>2. /\ store \in Stores /\ Sound(store) /\ entries \subseteq Entries
      /\ nextEntry \in 1..(MaxEntryId + 1) /\ MaxEntryId \in Nat
      /\ Owned \subseteq Live /\ EntryAtoms \subseteq Owned
      /\ \A e, f \in entries : e.atom = f.atom \/ e.content = f.content \/ e.id = f.id => e = f
      /\ contentIndex = {<<e.content, e.id>> : e \in entries}
      /\ \A e \in entries : e.id \in 1..(nextEntry - 1) /\ e.atom.label = KnowledgeLabel(e.content)
      /\ EpisodeAtoms \cap EntryAtoms = {} /\ prev \cap (EpisodeAtoms \cup EntryAtoms) = {}
  BY MemoryAssumption
     DEF MemoryInv, StoreKept, StoreIsSound, TypeInv, TypeOK, StoreTypeOK, Counted,
         HandlesAreLive, KnowledgeIndexed, EntriesLabelled, Owned
<1>3. ASSUME NEW A, NEW R, KnowledgeChanged(A, R), EntriesLabelled', KnowledgeIndexed',
             \A e, f \in entries' : e.atom = f.atom => e = f
      PROVE  MemoryInv'
  <2> USE <1>3 DEF KnowledgeChanged
  <2>1. UNCHANGED <<episodes, nextEpisode, prev>> /\ EpisodeAtoms' = EpisodeAtoms
    BY <1>3 DEF episodic, loop, EpisodeAtoms
  <2>2. StoreKept' /\ EpisodesLabelled'
    BY <1>1, <1>3, <2>1 DEF MemoryInv, StoreKept, StoreIsSound, FileIsSound, EpisodesLabelled
  <2>3. PrevLabelled'
    BY <1>3, <2>1 DEF MemoryInv, PrevLabelled, Live
  <2>4. HandlesAreLive'
    <3>1. \A a \in prev : a.label \in PrevLabels
      BY DEF MemoryInv, PrevLabelled
    <3>2. Owned' \subseteq Live'
      BY <1>2, <1>3, <2>1, <3>1 DEF Owned, Live
    <3> QED BY <1>2, <1>3, <2>1, <3>2 DEF MemoryInv, HandlesAreLive
  <2> QED BY <1>3, <2>2, <2>3, <2>4 DEF MemoryInv
<1>4. ASSUME NEW c \in Contents, NEW conf \in Levels, StrengthenKnowledge(c, conf) PROVE MemoryInv'
  <2>1. PICK e \in entries :
          /\ entries' = (entries \ {e}) \cup {[e EXCEPT !.confidence = HigherOf(@, conf)]}
          /\ UNCHANGED <<store, file, episodic, contentIndex, nextEntry, loop>>
    BY <1>4 DEF StrengthenKnowledge
  <2>2. PICK x : x = [e EXCEPT !.confidence = HigherOf(@, conf)]
    OBVIOUS
  <2>3. x.id = e.id /\ x.content = e.content /\ x.atom = e.atom
    BY <1>2, <2>2 DEF Entries
  <2>4. entries' = (entries \ {e}) \cup {x}
    BY <2>1, <2>2
  <2>5. EntryAtoms' = EntryAtoms
    BY <2>3, <2>4 DEF EntryAtoms
  <2>6. EntriesLabelled'
    BY <1>2, <2>1, <2>3, <2>4 DEF EntriesLabelled
  <2>7. \A f, g \in entries' : f.atom = g.atom \/ f.content = g.content \/ f.id = g.id => f = g
    BY <1>2, <2>3, <2>4
  <2>8. {<<f.content, f.id>> : f \in entries'} = {<<f.content, f.id>> : f \in entries}
    BY <2>3, <2>4
  <2>9. KnowledgeIndexed'
    BY <1>2, <2>1, <2>7, <2>8 DEF KnowledgeIndexed
  <2>10. KnowledgeChanged({}, {})
    BY <1>2, <2>1, <2>5 DEF KnowledgeChanged
  <2> QED BY <1>3, <2>6, <2>7, <2>9, <2>10
<1>5. ASSUME NEW c \in Contents, NEW conf \in Levels, AddKnowledge(c, conf) PROVE MemoryInv'
  <2> DEFINE l == KnowledgeLabel(c)
             s == AddNode(store, l)
             a == NodeAt(s, l)
  <2>1. PICK e : e = [id |-> nextEntry, content |-> c, confidence |-> conf, atom |-> a]
    OBVIOUS
  <2>2. /\ nextEntry <= MaxEntryId /\ store' = s /\ entries' = entries \cup {e}
        /\ contentIndex' = contentIndex \cup {<<c, nextEntry>>} /\ nextEntry' = nextEntry + 1
        /\ UNCHANGED <<file, episodic, loop>>
        /\ \A n \in 1..MaxEntryId : <<c, n>> \notin contentIndex
    BY <1>5, <2>1 DEF AddKnowledge
  <2>3. /\ s \in Stores /\ Sound(s) /\ s.epoch = store.epoch
        /\ s.byId = store.byId \cup {a} /\ a \in Atoms /\ a.label = l
    BY <1>2, LabelsKnown, AddNodeDoes
  <2>4. e.id = nextEntry /\ e.content = c /\ e.atom = a
    BY <2>1
  <2> HIDE DEF s, a
  <2>5. \A f \in entries : f.content # c
    <3>1. SUFFICES ASSUME NEW f \in entries, f.content = c PROVE FALSE
      OBVIOUS
    <3>2. f.id \in 1..MaxEntryId /\ <<c, f.id>> \in contentIndex
      BY <1>2, <3>1
    <3> QED BY <2>2, <3>2
  <2>6. a \notin EntryAtoms
    BY <1>2, <2>3, <2>5, LabelsApart DEF EntryAtoms
  <2>7. a \notin EpisodeAtoms /\ a \notin prev
    BY <2>3, LabelsApart DEF MemoryInv, EpisodesLabelled, PrevLabelled, EpisodeAtoms
  <2>8. EntryAtoms' = EntryAtoms \cup {a}
    BY <2>2, <2>4 DEF EntryAtoms
  <2>9. \A f, g \in entries' : f.atom = g.atom \/ f.content = g.content \/ f.id = g.id => f = g
    <3>1. \A f \in entries : f.atom # a /\ f.content # c /\ f.id # nextEntry
      BY <1>2, <2>5, <2>6 DEF EntryAtoms
    <3> QED BY <1>2, <2>2, <2>4, <3>1
  <2>10. EntriesLabelled'
    <3>1. \A f \in entries : f.id \in 1..nextEntry
      BY <1>2
    <3>2. nextEntry \in 1..nextEntry /\ nextEntry' - 1 = nextEntry
      BY <1>2, <2>2
    <3> QED BY <1>2, <2>2, <2>3, <2>4, <3>1, <3>2 DEF EntriesLabelled
  <2>11. KnowledgeIndexed'
    <3>1. {<<f.content, f.id>> : f \in entries'} = {<<f.content, f.id>> : f \in entries} \cup {<<e.content, e.id>>}
      BY <2>2
    <3> QED BY <1>2, <2>2, <2>4, <2>9, <3>1 DEF KnowledgeIndexed
  <2>12. a.label \notin CycleMarks
    BY <2>3, LabelsApart DEF PrevLabels
  <2>13. KnowledgeChanged({a}, {})
    BY <1>2, <2>2, <2>3, <2>7, <2>8, <2>12 DEF KnowledgeChanged
  <2> QED BY <1>3, <2>9, <2>10, <2>11, <2>13
<1>6. ASSUME NEW gone \in SUBSET entries, Drop(gone) PROVE MemoryInv'
  <2> DEFINE lost == {e.atom : e \in gone}
  <2>1. /\ entries' = entries \ gone /\ store' = RemoveAll(store, lost)
        /\ contentIndex' = {p \in contentIndex : \A e \in gone : p[1] # e.content}
        /\ UNCHANGED <<file, episodic, nextEntry, loop>>
    BY <1>6 DEF Drop
  <2>2. lost \in SUBSET store.byId /\ lost \subseteq EntryAtoms
    BY <1>2 DEF EntryAtoms, Live
  <2>3. /\ store' \in Stores /\ Sound(store') /\ store'.epoch = store.epoch
        /\ store'.byId = (store.byId \cup {}) \ lost
    BY <1>2, <2>1, <2>2, RemoveDoes
  <2>4. EntriesLabelled'
    BY <1>2, <2>1 DEF EntriesLabelled
  <2>5. contentIndex' = {<<e.content, e.id>> : e \in entries'}
    <3>1. ASSUME NEW e \in entries
          PROVE  (\A f \in gone : <<e.content, e.id>>[1] # f.content) <=> e \notin gone
      BY <1>2
    <3>2. contentIndex' = {p \in {<<e.content, e.id>> : e \in entries} : \A f \in gone : p[1] # f.content}
      BY <1>2, <2>1
    <3> QED BY <2>1, <3>1, <3>2
  <2>6. \A f, g \in entries' : f.atom = g.atom \/ f.content = g.content \/ f.id = g.id => f = g
    BY <1>2, <2>1
  <2>7. KnowledgeIndexed'
    BY <2>5, <2>6 DEF KnowledgeIndexed
  <2>8. \A a \in lost : a.label \notin PrevLabels
    BY <1>2, LabelsApart
  <2>9. EntryAtoms' \subseteq EntryAtoms \cup {} /\ lost \cap EntryAtoms' = {} /\ lost \cap EpisodeAtoms = {}
    BY <1>2, <2>1, <2>2 DEF EntryAtoms
  <2> HIDE DEF lost
  <2>10. KnowledgeChanged({}, lost)
    BY <2>1, <2>3, <2>8, <2>9 DEF KnowledgeChanged
  <2> QED BY <1>3, <2>4, <2>6, <2>7, <2>10
<1>7. CASE ClearKnowledge
  <2>1. entries' = {} /\ contentIndex' = {} /\ UNCHANGED <<store, file, episodic, loop>>
    BY <1>7 DEF ClearKnowledge
  <2>2. EntriesLabelled' /\ KnowledgeIndexed' /\ EntryAtoms' = {}
    BY <2>1 DEF EntriesLabelled, KnowledgeIndexed, EntryAtoms
  <2>3. KnowledgeChanged({}, {})
    BY <1>2, <2>1, <2>2 DEF KnowledgeChanged
  <2> QED BY <1>3, <2>1, <2>2, <2>3
<1>8. ASSUME NEW e \in entries, RemoveKnowledge(e) PROVE MemoryInv'
  BY <1>6, <1>8 DEF RemoveKnowledge
<1>9. ASSUME NEW th \in Levels, Consolidate(th) PROVE MemoryInv'
  BY <1>6, <1>9 DEF Consolidate
<1> QED BY <1>4, <1>5, <1>7, <1>8, <1>9 DEF KnowledgeStep

\* The steps of the loop and of the command line that may drop atoms or episodes
LEMMA CliKeeps ==
  ASSUME ~LoadInPlace, MemoryInv, CliStep
  PROVE  /\ MemoryInv' /\ RecalledStay
         /\ (\E d \in Durations : Reflect(d)) => Live \ prev \subseteq store'.byId
<1>1. TypeInv'
  BY CliTypes DEF MemoryInv, StoreKept
<1>2. /\ store \in Stores /\ Sound(store) /\ file \in Files /\ FileIsSound /\ cycleCount \in Nat
      /\ MaxCycles \in Nat /\ nextEpisode \in Nat \ {0} /\ Owned \subseteq Live /\ prev \subseteq Owned
      /\ EpisodeAtoms \cap EntryAtoms = {} /\ prev \cap (EpisodeAtoms \cup EntryAtoms) = {}
  BY MemoryAssumption
     DEF MemoryInv, StoreKept, StoreIsSound, TypeInv, TypeOK, StoreTypeOK, Counted, HandlesAreLive, Owned
<1>3. ASSUME NEW d \in Durations, Reflect(d) PROVE MemoryInv' /\ Live \ prev \subseteq store'.byId
  <2> DEFINE n == cycleCount + 1
             s1 == RemoveAll(store, prev)
             m == AddNode(s1, CycleLabel(n))
             c1 == NodeAt(m, CycleLabel(n))
             s2 == AddNode(m, DurationLabel(d))
             cycl == NodeAt(s2, CycleLabel(n))
             taken == NodeAt(s2, DurationLabel(d))
             ids == <<cycl.id, taken.id>>
             link == LinkAt(AddLink(s2, StateLink, ids), StateLink, ids)
  <2>1. /\ n <= MaxCycles /\ store' = AddLink(s2, StateLink, ids)
        /\ prev' = {cycl, taken, link} /\ UNCHANGED <<file, episodic, knowledge>>
    BY <1>3 DEF Reflect
  <2>2. n \in 1..MaxCycles /\ CycleLabel(n) \in Labels /\ DurationLabel(d) \in Labels /\ StateLink \in LinkTypes
    BY <1>2, <2>1, LabelsKnown
  <2>3. s1 \in Stores /\ Sound(s1) /\ s1.epoch = store.epoch /\ s1.byId = store.byId \ prev
    BY <1>2, RemoveDoes DEF Live
  <2> HIDE DEF s1
  <2>4. /\ m \in Stores /\ Sound(m) /\ m.epoch = store.epoch /\ m.byId = s1.byId \cup {c1}
        /\ c1 \in Atoms /\ c1.label = CycleLabel(n) /\ IsNode(c1)
    BY <2>2, <2>3, AddNodeDoes
  <2> HIDE DEF m, c1
  <2>5. /\ s2 \in Stores /\ Sound(s2) /\ s2.epoch = store.epoch /\ s2.byId = m.byId \cup {taken}
        /\ taken \in s2.byId /\ taken \in Atoms /\ taken.label = DurationLabel(d)
    BY <2>2, <2>4, AddNodeDoes
  <2>6. cycl = c1 /\ c1 \in s2.byId
    <3>1. c1 \in s2.nodeIndex /\ \A b \in s2.nodeIndex : b.label = c1.label => b = c1
      BY <2>4, <2>5 DEF Sound, IndexesAgree, Nodes, IsNode, Key
    <3>2. cycl \in s2.nodeIndex /\ cycl.label = CycleLabel(n)
      BY <2>4, <3>1 DEF NodeAt
    <3> QED BY <2>4, <2>5, <3>1, <3>2
  <2>7. ids \in Seq(Ids) /\ ids # <<>> /\ \A i \in DOMAIN ids : ids[i] < s2.nextId
    <3>1. cycl.id \in Ids /\ taken.id \in Ids /\ cycl.id < s2.nextId /\ taken.id < s2.nextId
      BY <2>4, <2>5, <2>6 DEF Atoms, Sound, OrderedIds
    <3> HIDE DEF cycl, taken
    <3> QED BY <3>1
  <2> HIDE DEF s2, cycl, taken, ids
  <2>8. /\ store' \in Stores /\ Sound(store') /\ store'.epoch = store.epoch
        /\ store'.byId = s2.byId \cup {link} /\ link.label = StateLink
    BY <2>1, <2>2, <2>5, <2>7, AddLinkDoes
  <2> HIDE DEF link
  <2>9. store'.byId = (store.byId \ prev) \cup {cycl, taken, link}
    BY <2>3, <2>4, <2>5, <2>6, <2>8
  <2>10. cycl.label \in CycleLabels /\ cycl.label # StateLink
    BY <2>2, <2>4, <2>6, LabelsApart DEF CycleLabels, CycleLabel
  <2>11. taken.label \in PrevLabels \ CycleMarks
    BY <2>5, LabelsApart DEF PrevLabels, DurationLabel
  <2>12. link.label = StateLink /\ link.label \notin CycleLabels
    BY <2>8, LabelsApart
  <2>13. UNCHANGED <<episodes, nextEpisode, entries, contentIndex, nextEntry>>
    BY <2>1 DEF episodic, knowledge
  <2>14. PrevLabelled'
    <3>1. \A a \in prev' : a.label \in PrevLabels
      BY <2>1, <2>10, <2>11, <2>12 DEF PrevLabels, CycleMarks
    <3>2. \A a, b \in prev' : /\ a.label \in CycleLabels /\ b.label \in CycleLabels => a = b
                              /\ a.label = StateLink /\ b.label = StateLink => a = b
      BY <2>1, <2>10, <2>11, <2>12 DEF CycleMarks
    <3>3. store'.epoch = 0 => \A a \in store'.byId : a.label \in CycleMarks => a \in prev'
      BY <2>1, <2>8, <2>9 DEF MemoryInv, PrevLabelled, Live
    <3> QED BY <3>1, <3>2, <3>3 DEF PrevLabelled, Live
  <2>15. StoreKept' /\ EpisodesLabelled' /\ EntriesLabelled' /\ KnowledgeIndexed'
    BY <1>1, <2>1, <2>8, <2>13
       DEF MemoryInv, StoreKept, StoreIsSound, FileIsSound, EpisodesLabelled, EntriesLabelled, KnowledgeIndexed
  <2>16. HandlesAreLive'
    <3>1. EpisodeAtoms' = EpisodeAtoms /\ EntryAtoms' = EntryAtoms
      BY <2>13 DEF EpisodeAtoms, EntryAtoms
    <3>2. \A a \in EpisodeAtoms \cup EntryAtoms : a.label \notin PrevLabels
      BY LabelsApart DEF MemoryInv, EpisodesLabelled, EntriesLabelled, EpisodeAtoms, EntryAtoms
    <3>3. \A a \in prev' : a.label \in PrevLabels
      BY <2>14 DEF PrevLabelled
    <3>4. Owned' \subseteq Live'
      BY <1>2, <2>1, <2>9, <3>1 DEF Owned, Live
    <3> QED BY <1>2, <2>13, <3>1, <3>2, <3>3, <3>4 DEF MemoryInv, HandlesAreLive
  <2> QED BY <2>9, <2>14, <2>15, <2>16 DEF MemoryInv, Live
<1>4. ASSUME Save PROVE MemoryInv' /\ RecalledStay
  <2>1. file' = Snapshot(store) /\ UNCHANGED <<store, episodic, knowledge, loop>>
    BY <1>4 DEF Save, SaveToFile
  <2>2. FileIsSound'
    BY <1>2, <2>1 DEF Snapshot, FileIsSound, Sound, IndexesAgree, OrderedIds
  <2>3. UNCHANGED <<episodes, nextEpisode, entries, contentIndex, nextEntry, prev>>
    BY <2>1 DEF episodic, knowledge, loop
  <2> QED BY <1>1, <2>1, <2>2, <2>3
          DEF MemoryInv, StoreKept, StoreIsSound, EpisodesLabelled, EntriesLabelled, PrevLabelled,
              HandlesAreLive, KnowledgeIndexed, Live, Owned, EpisodeAtoms, EntryAtoms, RecalledStay
<1>5. ASSUME Load PROVE MemoryInv' /\ RecalledStay
  <2>1. /\ file # NoFile /\ store' = Restore(store, file)
        /\ UNCHANGED <<file, episodic, knowledge, loop>> /\ Owned = {}
    BY <1>5 DEF Load, LoadFromFile
  <2>2. store' \in Stores /\ Sound(store')
    BY <1>2, <2>1, RestoreIsSound
  <2>3. UNCHANGED <<episodes, nextEpisode, entries, contentIndex, nextEntry, prev>>
    BY <2>1 DEF episodic, knowledge, loop
  <2>4. EpisodeAtoms' = {} /\ EntryAtoms' = {} /\ prev' = {}
    BY <2>1, <2>3 DEF Owned, EpisodeAtoms, EntryAtoms
  <2>5. store'.epoch # 0
    <3>1. store'.epoch = store.epoch + 1
      BY <2>1 DEF Restore
    <3> QED BY <1>2, <3>1 DEF Stores
  <2>6. StoreKept' /\ EpisodesLabelled' /\ EntriesLabelled' /\ KnowledgeIndexed'
    BY <1>1, <2>1, <2>2, <2>3
       DEF MemoryInv, StoreKept, StoreIsSound, FileIsSound, EpisodesLabelled, EntriesLabelled, KnowledgeIndexed
  <2>7. PrevLabelled'
    BY <2>4, <2>5 DEF PrevLabelled
  <2>8. HandlesAreLive'
    BY <2>3, <2>4 DEF MemoryInv, HandlesAreLive, Owned
  <2> QED BY <2>3, <2>6, <2>7, <2>8 DEF MemoryInv, RecalledStay
<1>6. ASSUME Restart PROVE MemoryInv' /\ RecalledStay
  <2>1. /\ store' = Empty(0) /\ episodes' = <<>> /\ nextEpisode' = 1 /\ entries' = {} /\ contentIndex' = {}
        /\ prev' = {} /\ file' = file
    BY <1>6 DEF Restart
  <2>2. Sound(store') /\ store'.byId = {}
    BY <2>1, EmptyIsSound DEF Empty
  <2>3. EpisodesLabelled' /\ EntriesLabelled' /\ PrevLabelled' /\ KnowledgeIndexed'
    BY <2>1, <2>2 DEF EpisodesLabelled, EntriesLabelled, PrevLabelled, KnowledgeIndexed, Live
  <2>4. EpisodeAtoms' = {} /\ EntryAtoms' = {}
    BY <2>1 DEF EpisodeAtoms, EntryAtoms
  <2>5. HandlesAreLive'
    BY <2>1, <2>4 DEF HandlesAreLive, Owned
  <2>6. StoreKept'
    BY <1>1, <1>2, <2>1, <2>2 DEF StoreKept, StoreIsSound, FileIsSound
  <2>7. RecalledStay
    <3>1. \A i \in DOMAIN episodes : episodes[i].id \in 1..(nextEpisode - 1)
      BY DEF MemoryInv, EpisodesLabelled
    <3> QED BY <1>2, <2>1, <3>1 DEF RecalledStay
  <2> QED BY <2>3, <2>5, <2>6, <2>7 DEF MemoryInv
<1>7. (\E d \in Durations : Reflect(d)) => MemoryInv' /\ RecalledStay /\ Live \ prev \subseteq store'.byId
  <2>1. ASSUME NEW d \in Durations, Reflect(d) PROVE RecalledStay
    BY <2>1 DEF Reflect, episodic, RecalledStay
  <2> QED BY <1>3, <2>1
<1>8. (\E d \in Durations : Reflect(d)) \/ Save \/ Load \/ Restart
  BY DEF CliStep
<1> QED BY <1>4, <1>5, <1>6, <1>7, <1>8

\* A snapshot in which every link's targets are written is read to its end
LEMMA RestoreIsWhole ==
  ASSUME FileIsSound, file \in Files, LoadFromFile,
         \A a \in file.atoms : OutIds(a) \subseteq {b.id : b \in file.atoms}
  PROVE  Saved(Live') = Saved(file.atoms) /\ store'.nextId = file.nextId
<1>1. ASSUME NEW a \in file.atoms PROVE ~Broken(file, a)
  <2>1. SUFFICES ASSUME NEW i \in OutIds(a), \A b \in file.atoms : b.id = i => b.id >= a.id PROVE FALSE
    BY DEF Broken
  <2>2. PICK b \in file.atoms : b.id = i
    OBVIOUS
  <2>3. i < a.id /\ i \in Nat /\ a.id \in Nat
    BY <2>2 DEF FileIsSound, Files, Atoms, Ids
  <2> QED BY <2>1, <2>2, <2>3
<1>2. LinesRead(file) = file.atoms
  BY <1>1 DEF LinesRead
<1>3. store'.byId = {Reread(store, a) : a \in file.atoms} /\ store'.nextId = file.nextId
  BY <1>2 DEF LoadFromFile, Restore
<1>4. \A a \in file.atoms : LET b == Reread(store, a) IN b.id = a.id /\ b.label = a.label /\ b.out = a.out
  BY DEF Reread
<1>5. Saved(store'.byId) = Saved(file.atoms)
  BY <1>3, <1>4 DEF Saved
<1> QED BY <1>3, <1>5 DEF Live

LEMMA MemoryInitially == Init => MemoryInv
<1> SUFFICES ASSUME Init PROVE MemoryInv
  OBVIOUS
<1>1. TypeInv
  <2>1. store \in Stores /\ file \in Files
    BY EmptyIsSound DEF Init, StoreInit, NoFile, Files
  <2> QED BY <2>1, MemoryAssumption DEF Init, StoreInit, TypeInv, TypeOK, StoreTypeOK, FileWritten, Counted
<1>2. StoreIsSound /\ FileIsSound /\ Live = {}
  BY EmptyIsSound DEF Init, StoreInit, StoreIsSound, NoFile, FileIsSound, Empty, Live
<1>3. Owned = {} /\ EpisodeAtoms = {} /\ EntryAtoms = {}
  BY DEF Init, Owned, EpisodeAtoms, EntryAtoms
<1>4. HandlesAreLive
  BY <1>3 DEF Init, HandlesAreLive
<1>5. EpisodesLabelled /\ EntriesLabelled /\ PrevLabelled /\ KnowledgeIndexed
  BY <1>2 DEF Init, EpisodesLabelled, EntriesLabelled, PrevLabelled, KnowledgeIndexed
<1> QED BY <1>1, <1>2, <1>4, <1>5 DEF MemoryInv, StoreKept

LEMMA MemoryKeeps == ~LoadInPlace /\ MemoryInv /\ [Next]_vars => MemoryInv'
<1>1. ASSUME MemoryInv, UNCHANGED vars PROVE MemoryInv'
  <2>1. UNCHANGED <<store, file, episodes, nextEpisode, entries, contentIndex, nextEntry, cycleCount, prev>>
    BY <1>1 DEF vars, episodic, knowledge, loop
  <2>2. StoreKept'
    BY <1>1, <2>1 DEF MemoryInv, StoreKept, TypeInv, TypeOK, StoreTypeOK, FileWritten, Counted,
                      StoreIsSound, FileIsSound
  <2>3. EpisodesLabelled' /\ EntriesLabelled' /\ PrevLabelled' /\ KnowledgeIndexed'
    BY <1>1, <2>1 DEF MemoryInv, EpisodesLabelled, EntriesLabelled, PrevLabelled, KnowledgeIndexed, Live
  <2>4. EpisodeAtoms' = EpisodeAtoms /\ EntryAtoms' = EntryAtoms /\ Live' = Live
    BY <2>1 DEF EpisodeAtoms, EntryAtoms, Live
  <2>5. HandlesAreLive'
    BY <1>1, <2>1, <2>4 DEF MemoryInv, HandlesAreLive, Owned
  <2> QED BY <2>2, <2>3, <2>5 DEF MemoryInv
<1> QED BY <1>1, CallerKeeps, EpisodicKeeps, KnowledgeKeeps, CliKeeps DEF Next

\* Every handle EpisodicMemory, KnowledgeIntegrator and CognitiveLoop will remove
\* by is of an atom of its own that the store has, _contentIndex leads to the
\* entries and one cycle's atoms are kept, as long as no snapshot is loaded under
\* the agent's feet
THEOREM MemoryStaysCurrent == ~LoadInPlace => (Spec => []MemoryIsCurrent)
<1> SUFFICES ASSUME ~LoadInPlace PROVE Spec => []MemoryIsCurrent
  OBVIOUS
<1>1. MemoryInv /\ [Next]_vars => MemoryInv'
  BY MemoryKeeps
<1> QED BY <1>1, MemoryInitially, InvIsCurrent, PTL DEF Spec

\* forget() leaves the recalled episodes, trimToCapacity too while another one can be
\* evicted, and phaseReflection removes no atom but the last cycle's
THEOREM NothingIsLost == ~LoadInPlace => (Spec => NothingElseIsDropped)
<1> SUFFICES ASSUME ~LoadInPlace PROVE Spec => NothingElseIsDropped
  OBVIOUS
<1>1. MemoryInv /\ [Next]_vars => MemoryInv'
  BY MemoryKeeps
<1>2. MemoryInv /\ [Next]_vars =>
        [nextEpisode' = nextEpisode \/ (nextEpisode' > nextEpisode /\ ~FullOfRecalled) =>
           \A i \in DOMAIN episodes :
             episodes[i].recalled => \E j \in DOMAIN episodes' : episodes'[j].id = episodes[i].id]_vars
  <2>1. episodes' = episodes => RecalledStay
    BY DEF RecalledStay
  <2>2. CallerStep \/ KnowledgeStep => episodes' = episodes
    BY DEF CallerStep, AddConcept, AssertRelation, FormConcept, KnowledgeStep, StrengthenKnowledge,
           AddKnowledge, RemoveKnowledge, Consolidate, Drop, ClearKnowledge, episodic
  <2>3. MemoryInv /\ Next => RecalledStay
    BY <2>1, <2>2, EpisodicKeeps, CliKeeps DEF Next
  <2>4. MemoryInv /\ MemoryInv' => nextEpisode \in Nat /\ nextEpisode' \in Nat
    BY DEF MemoryInv, StoreKept, TypeInv, TypeOK
  <2>5. nextEpisode \in Nat /\ nextEpisode' \in Nat =>
          (nextEpisode' = nextEpisode \/ nextEpisode' > nextEpisode => nextEpisode' >= nextEpisode)
    OBVIOUS
  <2> QED BY <1>1, <2>3, <2>4, <2>5 DEF RecalledStay
<1>3. MemoryInv => [(\E d \in Durations : Reflect(d)) => Live \ prev \subseteq store'.byId]_vars
  BY CliKeeps DEF CliStep
<1> QED BY <1>1, <1>2, <1>3, MemoryInitially, PTL
        DEF Spec, NothingElseIsDropped, RecalledEpisodesStay, OnlyMetadataRemoved

\* The episode appended to a memory full of recalled ones is the only one trimToCapacity
\* can evict
LEMMA TrimLeavesRecalled ==
  ASSUME MemoryInv, FullOfRecalled, NEW s, NEW a, NEW imp,
         Trim(Append(episodes, Episode(nextEpisode, imp, a)), s)
  PROVE  episodes' = episodes
<1> DEFINE e == Episode(nextEpisode, imp, a)
           eps == Append(episodes, e)
           n == Len(episodes)
           All == Episodes \cup {e}
<1>1. episodes \in Seq(Episodes) /\ nextEpisode \in Nat /\ MaxEpisodes \in Nat
  BY MemoryAssumption DEF MemoryInv, StoreKept, TypeInv, TypeOK
<1>2. e \in All /\ e.recalled = FALSE /\ episodes \in Seq(All)
  BY <1>1 DEF Episode
<1> HIDE DEF e, All
<1>3. /\ eps \in Seq(All) /\ n \in Nat /\ Len(eps) = n + 1 /\ DOMAIN eps = 1..(n + 1)
      /\ DOMAIN episodes = 1..n /\ eps[n + 1] = e /\ \A i \in 1..n : eps[i] = episodes[i]
  BY <1>1, <1>2
<1>4. RemoveAt(eps, n + 1) = episodes
  <2>1. SubSeq(eps, 1, n) = episodes /\ SubSeq(eps, n + 2, n + 1) = <<>>
    BY <1>1, <1>3
  <2> QED BY <1>1, <1>3, <2>1 DEF RemoveAt
<1> HIDE DEF eps, n
<1>5. \A i \in 1..n : episodes[i].recalled
  BY <1>3 DEF FullOfRecalled, Unrecalled
<1>6. Unrecalled(eps) = {n + 1}
  BY <1>2, <1>3, <1>5 DEF Unrecalled
<1>7. Len(eps) > MaxEpisodes
  BY <1>1, <1>3 DEF FullOfRecalled, n
<1>8. PICK v \in DOMAIN eps : IsVictim(eps, v) /\ episodes' = RemoveAt(eps, v)
  <2>1. Trim(eps, s)
    BY DEF eps, e
  <2>2. ~(Len(eps) <= MaxEpisodes)
    BY <1>1, <1>3, <1>7
  <2> QED BY <2>1, <2>2, Zenon DEF Trim
<1>9. v = n + 1
  BY <1>6, <1>8 DEF IsVictim
<1> QED BY <1>4, <1>8, <1>9

\* "Falls back to the oldest episode if all episodes have been recalled"
\* (EpisodicMemory.cpp:179) never comes to pass: what is recorded into a memory full of
\* recalled episodes is gone when recordEpisode or recordAtom returns
THEOREM FallbackNeverComes ==
  ~LoadInPlace => (Spec => [][nextEpisode' > nextEpisode /\ FullOfRecalled => episodes' = episodes]_vars)
<1> SUFFICES ASSUME ~LoadInPlace
             PROVE  Spec => [][nextEpisode' > nextEpisode /\ FullOfRecalled => episodes' = episodes]_vars
  OBVIOUS
<1>1. MemoryInv /\ [Next]_vars => MemoryInv'
  BY MemoryKeeps
<1>2. MemoryInv /\ [Next]_vars => [nextEpisode' > nextEpisode /\ FullOfRecalled => episodes' = episodes]_vars
  <2> SUFFICES ASSUME MemoryInv, Next, nextEpisode' > nextEpisode, FullOfRecalled PROVE episodes' = episodes
    OBVIOUS
  <2>1. nextEpisode \in Nat \ {0}
    BY DEF MemoryInv, StoreKept, TypeInv, Counted
  <2>2. CASE CallerStep \/ KnowledgeStep
    BY <2>2 DEF CallerStep, AddConcept, AssertRelation, FormConcept, KnowledgeStep, StrengthenKnowledge,
                AddKnowledge, RemoveKnowledge, Consolidate, Drop, ClearKnowledge, episodic
  <2>3. CASE EpisodicStep
    <3>1. CASE \E imp \in Levels : Record(imp)
      BY <3>1, TrimLeavesRecalled DEF Record
    <3>2. CASE \E a \in Live, imp \in Levels : RecordAtom(a, imp)
      BY <3>2, TrimLeavesRecalled DEF RecordAtom
    <3>3. CASE (\E m \in 1..MaxEpisodeId : Recall(m)) \/ (\E th \in Levels : Forget(th)) \/ ClearEpisodes
      <4>1. nextEpisode' = nextEpisode \/ nextEpisode' = 1
        BY <3>3 DEF Recall, Forget, ClearEpisodes
      <4> QED BY <2>1, <4>1
    <3> QED BY <2>3, <3>1, <3>2, <3>3 DEF EpisodicStep
  <2>4. CASE CliStep
    <3>1. nextEpisode' = nextEpisode \/ nextEpisode' = 1
      BY <2>4 DEF CliStep, Save, Load, Restart, Reflect, episodic
    <3> QED BY <2>1, <3>1
  <2> QED BY <2>2, <2>3, <2>4 DEF Next
<1> QED BY <1>1, <1>2, MemoryInitially, PTL DEF Spec

\* loadFromFile gives back what saveToFile wrote, ids and next id included,
\* when no link of the snapshot dangles
THEOREM SnapshotsComeBack == ~LoadInPlace => (Spec => RoundTrip)
<1> SUFFICES ASSUME ~LoadInPlace PROVE Spec => RoundTrip
  OBVIOUS
<1>1. MemoryInv /\ [Next]_vars => MemoryInv'
  BY MemoryKeeps
<1>2. MemoryInv =>
        [/\ LoadFromFile
         /\ \A a \in file.atoms : OutIds(a) \subseteq {b.id : b \in file.atoms}
         => Saved(Live') = Saved(file.atoms) /\ store'.nextId = file.nextId]_vars
  BY RestoreIsWhole DEF MemoryInv, StoreKept, TypeInv, TypeOK, StoreTypeOK
<1> QED BY <1>1, <1>2, MemoryInitially, PTL DEF Spec, RoundTrip

-----------------------------------------------------------------------------
(***************************************************************************)
(* The agent's loop: the task queue                                        *)
(***************************************************************************)
Ordered(q, prio) == \A i, j \in DOMAIN q : i < j => prio[q[i]] <= prio[q[j]]

\* Tasks of these priorities, lowest first
Between(q, prio, lo, hi) ==
  q \in Seq(Tasks) /\ Ordered(q, prio) /\ \A i \in DOMAIN q : prio[q[i]] \in lo..hi

LEMMA JoinedIsOrdered ==
  ASSUME NEW a, NEW b, NEW prio, NEW lo \in Nat, NEW m \in Nat, NEW up \in Nat, NEW hi \in Nat,
         lo <= m, up = m + 1, up <= hi, Between(a, prio, lo, m), Between(b, prio, up, hi)
  PROVE  Between(a \o b, prio, lo, hi) /\ ToSet(a \o b) = ToSet(a) \cup ToSet(b)
<1> DEFINE r == a \o b
           n == Len(a)
           k == Len(b)
<1>1. a \in Seq(Tasks) /\ b \in Seq(Tasks) /\ n \in Nat /\ k \in Nat /\ DOMAIN a = 1..n /\ DOMAIN b = 1..k
  BY DEF Between
<1>2. r \in Seq(Tasks) /\ DOMAIN r = 1..(n + k)
      /\ \A i \in 1..(n + k) : r[i] = IF i <= n THEN a[i] ELSE b[i - n]
  BY <1>1
<1> HIDE DEF r, n, k
<1>3. ASSUME NEW i \in 1..(n + k)
      PROVE  /\ i <= n => i \in DOMAIN a /\ r[i] = a[i] /\ prio[r[i]] \in lo..m
             /\ ~(i <= n) => i - n \in DOMAIN b /\ r[i] = b[i - n] /\ prio[r[i]] \in up..hi
  <2>1. CASE i <= n
    <3>1. i \in DOMAIN a /\ r[i] = a[i]
      BY <1>1, <1>2, <2>1
    <3> QED BY <2>1, <3>1 DEF Between
  <2>2. CASE ~(i <= n)
    <3>1. i - n \in DOMAIN b /\ r[i] = b[i - n]
      BY <1>1, <1>2, <2>2
    <3> QED BY <2>2, <3>1 DEF Between
  <2> QED BY <2>1, <2>2
<1>4. \A i \in DOMAIN r : prio[r[i]] \in lo..hi
  BY <1>2, <1>3
<1>5. Ordered(r, prio)
  <2>1. SUFFICES ASSUME NEW i \in 1..(n + k), NEW j \in 1..(n + k), i < j PROVE prio[r[i]] <= prio[r[j]]
    BY <1>2 DEF Ordered
  <2>2. CASE j <= n
    <3>1. i \in DOMAIN a /\ j \in DOMAIN a /\ r[i] = a[i] /\ r[j] = a[j]
      BY <1>1, <1>3, <2>1, <2>2
    <3> QED BY <2>1, <3>1 DEF Between, Ordered
  <2>3. CASE ~(i <= n)
    <3>1. i - n \in DOMAIN b /\ j - n \in DOMAIN b /\ i - n < j - n
          /\ r[i] = b[i - n] /\ r[j] = b[j - n]
      BY <1>1, <1>3, <2>1, <2>3
    <3> QED BY <3>1 DEF Between, Ordered
  <2>4. CASE i <= n /\ ~(j <= n)
    BY <1>3, <2>1, <2>4
  <2> QED BY <1>1, <2>1, <2>2, <2>3, <2>4
<1>6. ToSet(r) = ToSet(a) \cup ToSet(b)
  <2>1. ASSUME NEW i \in 1..n PROVE i \in 1..(n + k) /\ r[i] = a[i]
    BY <1>1, <1>2
  <2>2. ASSUME NEW i \in 1..k PROVE n + i \in 1..(n + k) /\ r[n + i] = b[i]
    BY <1>1, <1>2
  <2>3. ToSet(a) = {a[i] : i \in 1..n} /\ ToSet(b) = {b[i] : i \in 1..k} /\ ToSet(r) = {r[i] : i \in 1..(n + k)}
    BY <1>1, <1>2 DEF ToSet
  <2>4. ToSet(a) \subseteq ToSet(r) /\ ToSet(b) \subseteq ToSet(r)
    BY <2>1, <2>2, <2>3
  <2>5. ASSUME NEW i \in 1..(n + k) PROVE r[i] \in ToSet(a) \cup ToSet(b)
    BY <1>1, <1>3, <2>3
  <2>6. ToSet(r) \subseteq ToSet(a) \cup ToSet(b)
    BY <2>3, <2>5
  <2> QED BY <2>4, <2>6
<1> QED BY <1>2, <1>4, <1>5, <1>6 DEF Between, r

\* sortQueue puts the same tasks in order
LEMMA SortedIs ==
  ASSUME NEW q \in Seq(Tasks), NEW prio, \A i \in DOMAIN q : prio[q[i]] \in 0..4
  PROVE  Sorted(q, prio) \in Seq(Tasks) /\ Ordered(Sorted(q, prio), prio) /\ ToSet(Sorted(q, prio)) = ToSet(q)
<1> DEFINE At(p) == {i \in DOMAIN q : prio[q[i]] = p}
           Of(p) == ElementsAt(q, At(p))
<1>1. ASSUME NEW p \in 0..4
      PROVE  Between(Of(p), prio, p, p) /\ ToSet(Of(p)) = {q[i] : i \in At(p)}
  <2> DEFINE r == Of(p)
             I == At(p)
  <2>1. I \subseteq DOMAIN q
    OBVIOUS
  <2>2. r \in Seq(Tasks) /\ Picks(r, q, I)
    BY <2>1, ElementsAtIs
  <2>3. \A i \in I : prio[q[i]] = p
    OBVIOUS
  <2> HIDE DEF r, I
  <2>4. PICK f \in [DOMAIN r -> I] :
          /\ \A k \in DOMAIN r : r[k] = q[f[k]]
          /\ \A i \in I : \E k \in DOMAIN r : f[k] = i
    BY <2>2 DEF Picks
  <2>5. \A k \in DOMAIN r : prio[r[k]] = p
    BY <2>3, <2>4
  <2>6. Between(r, prio, p, p)
    BY <2>2, <2>5 DEF Between, Ordered
  <2>7. ToSet(r) = {q[i] : i \in I}
    BY <2>4 DEF ToSet
  <2> QED BY <2>6, <2>7 DEF r, I
<1> HIDE DEF Of
<1> DEFINE s1 == Of(0) \o Of(1)
           s2 == s1 \o Of(2)
           s3 == s2 \o Of(3)
           s4 == s3 \o Of(4)
<1>2. Between(s1, prio, 0, 1) /\ ToSet(s1) = ToSet(Of(0)) \cup ToSet(Of(1))
  <2>1. Between(Of(0), prio, 0, 0) /\ Between(Of(1), prio, 1, 1)
    BY <1>1
  <2>2. 0 \in Nat /\ 0 \in Nat /\ 1 \in Nat /\ 0 <= 0 /\ 1 = 0 + 1 /\ 1 <= 1
    OBVIOUS
  <2> QED BY <2>1, <2>2, JoinedIsOrdered, Zenon
<1> HIDE DEF s1
<1>3. Between(s2, prio, 0, 2) /\ ToSet(s2) = ToSet(s1) \cup ToSet(Of(2))
  <2>1. Between(s1, prio, 0, 1) /\ Between(Of(2), prio, 2, 2)
    BY <1>1, <1>2
  <2>2. 0 \in Nat /\ 1 \in Nat /\ 2 \in Nat /\ 0 <= 1 /\ 2 = 1 + 1 /\ 2 <= 2
    OBVIOUS
  <2> QED BY <2>1, <2>2, JoinedIsOrdered, Zenon
<1> HIDE DEF s2
<1>4. Between(s3, prio, 0, 3) /\ ToSet(s3) = ToSet(s2) \cup ToSet(Of(3))
  <2>1. Between(s2, prio, 0, 2) /\ Between(Of(3), prio, 3, 3)
    BY <1>1, <1>3
  <2>2. 0 \in Nat /\ 2 \in Nat /\ 3 \in Nat /\ 0 <= 2 /\ 3 = 2 + 1 /\ 3 <= 3
    OBVIOUS
  <2> QED BY <2>1, <2>2, JoinedIsOrdered, Zenon
<1> HIDE DEF s3
<1>5. Between(s4, prio, 0, 4) /\ ToSet(s4) = ToSet(s3) \cup ToSet(Of(4))
  <2>1. Between(s3, prio, 0, 3) /\ Between(Of(4), prio, 4, 4)
    BY <1>1, <1>4
  <2>2. 0 \in Nat /\ 3 \in Nat /\ 4 \in Nat /\ 0 <= 3 /\ 4 = 3 + 1 /\ 4 <= 4
    OBVIOUS
  <2> QED BY <2>1, <2>2, JoinedIsOrdered, Zenon
<1> HIDE DEF s4
<1>6. ToSet(s4) = UNION {{q[i] : i \in At(p)} : p \in 0..4}
  <2>1. ToSet(s4) = {q[i] : i \in At(0)} \cup {q[i] : i \in At(1)} \cup {q[i] : i \in At(2)}
                    \cup {q[i] : i \in At(3)} \cup {q[i] : i \in At(4)}
    BY <1>1, <1>2, <1>3, <1>4, <1>5
  <2>2. 0..4 = {0, 1, 2, 3, 4}
    OBVIOUS
  <2> HIDE DEF At
  <2> QED BY <2>1, <2>2
<1>7. UNION {{q[i] : i \in At(p)} : p \in 0..4} = ToSet(q)
  BY DEF ToSet
<1>8. Sorted(q, prio) = s4
  BY DEF Sorted, s4, s3, s2, s1, Of
<1> QED BY <1>5, <1>6, <1>7, <1>8 DEF Between

\* The queue without the tasks that ended is in order still, and its head goes
\* before every pending task
LEMMA PendingIs ==
  ASSUME NEW q \in Seq(Tasks), NEW prio, Ordered(q, prio), \A i \in DOMAIN q : prio[q[i]] \in 0..4,
         NEW I, I \subseteq DOMAIN q
  PROVE  LET r == ElementsAt(q, I)
         IN /\ r \in Seq(Tasks) /\ Ordered(r, prio) /\ ToSet(r) = {q[i] : i \in I}
            /\ r # <<>> => \E v \in I : Head(r) = q[v] /\ \A i \in I : prio[Head(r)] <= prio[q[i]]
<1> DEFINE r == ElementsAt(q, I)
<1>1. r \in Seq(Tasks) /\ Picks(r, q, I)
  BY ElementsAtIs
<1> HIDE DEF r
<1>2. PICK f \in [DOMAIN r -> I] : /\ \A k \in DOMAIN r : r[k] = q[f[k]]
                                   /\ \A j, k \in DOMAIN r : j < k => f[j] < f[k]
                                   /\ \A i \in I : \E k \in DOMAIN r : f[k] = i
  BY <1>1 DEF Picks
<1>3. Ordered(r, prio)
  BY <1>2 DEF Ordered
<1>4. ToSet(r) = {q[i] : i \in I}
  BY <1>2 DEF ToSet
<1>5. ASSUME r # <<>> PROVE \E v \in I : Head(r) = q[v] /\ \A i \in I : prio[Head(r)] <= prio[q[i]]
  <2>1. 1 \in DOMAIN r /\ Head(r) = r[1] /\ DOMAIN r = 1..Len(r)
    BY <1>1, <1>5
  <2>2. f[1] \in I /\ Head(r) = q[f[1]]
    BY <1>2, <2>1
  <2>3. ASSUME NEW i \in I PROVE prio[q[f[1]]] <= prio[q[i]]
    <3>1. PICK k \in DOMAIN r : f[k] = i
      BY <1>2
    <3>2. f[1] \in DOMAIN q /\ i \in DOMAIN q /\ prio[q[f[1]]] \in Nat
      BY <2>2
    <3>3. CASE k = 1
      BY <3>1, <3>2, <3>3
    <3>4. CASE k # 1
      <4>1. 1 < k
        BY <2>1, <3>4
      <4>2. f[1] < i
        BY <1>2, <2>1, <3>1, <4>1
      <4> QED BY <3>2, <4>2 DEF Ordered
    <3> QED BY <3>3, <3>4
  <2> QED BY <2>2, <2>3
<1> QED BY <1>1, <1>3, <1>4, <1>5 DEF r

-----------------------------------------------------------------------------
(***************************************************************************)
(* The agent's loop: threads, percepts and calls                           *)
(***************************************************************************)
\* Who is in a cycle, and where
Driven ==
  /\ thread = "live" <=> driver = "loop"
  /\ owner = "cycling" <=> driver = "owner"
  /\ driver = None <=> phase = "idle"
  /\ phase \in {"check", "limit", "ending"} => driver = "loop"

\* Only tasks that were created are queued, in order, or attached to goals, and a
\* cycle in an action has room for it
TasksKnown ==
  /\ \A t \in ToSet(queue) : priority[t] # None
  /\ \A g \in Goals : goalTasks[g] # None => \A t \in goalTasks[g] : priority[t] # None
  /\ \A t \in Tasks : /\ priority[t] = None <=> born[t] = None
                      /\ priority[t] = None <=> status[t] = None
  /\ currentGoal # None => goalTasks[currentGoal] # None
  /\ Ordered(queue, priority)
  /\ phase = "action" => queue # <<>> /\ executed < MaxTasksPerCycle

\* The batch is empty but between the swap and its last percept
BatchTaken == batch # <<>> => phase = "perceive"

\* A task's action is called when the task is at the front, and ends before the next one's
CallsCounted ==
  /\ \A t \in Tasks : Pending(t) => calls[t] = (IF phase = "action" /\ t = Head(queue) THEN 1 ELSE 0)
  /\ \A t \in Tasks : ~Pending(t) => calls[t] = (IF status[t] = None THEN 0 ELSE 1)
  /\ phase = "action" => Pending(Head(queue))

LoopBase ==
  /\ LoopTypeOK /\ Driven /\ TasksKnown
  /\ BatchTaken /\ PerceptsInOrder /\ AtMostOneBoost /\ RunningMeansLoop
LoopInv == LoopBase /\ CallsCounted

\* Steps that touch neither tasks nor percepts
ControlOnly ==
  /\ UNCHANGED <<input, tasks, promoted, calls, batch, perceived>>
  /\ (phase # "action" /\ phase' # "action") \/ UNCHANGED <<phase, executed>>
  /\ phase # "perceive" \/ phase' = phase

LEMMA ControlFrame ==
  ASSUME LoopBase, ControlOnly
  PROVE  /\ TasksKnown' /\ BatchTaken' /\ PerceptsInOrder' /\ AtMostOneBoost'
         /\ CallsCounted => CallsCounted'
<1>1. /\ UNCHANGED <<perceptQueue, added, queue, slots, priority, status, goalTasks, currentGoal, born,
                     promoted, calls, batch, perceived>>
      /\ (phase # "action" /\ phase' # "action") \/ UNCHANGED <<phase, executed>>
      /\ phase # "perceive" \/ phase' = phase
  BY DEF ControlOnly, input, tasks
<1>2. TasksKnown'
  BY <1>1 DEF LoopBase, TasksKnown
<1>3. BatchTaken' /\ PerceptsInOrder'
  BY <1>1 DEF LoopBase, BatchTaken, PerceptsInOrder
<1>4. AtMostOneBoost'
  BY <1>1 DEF LoopBase, AtMostOneBoost
<1>5. CallsCounted => CallsCounted'
  BY <1>1 DEF CallsCounted, Pending
<1> QED BY <1>2, <1>3, <1>4, <1>5

\* Members a step of the threads leaves as they are keep their types
ControlTypes ==
  /\ running \in BOOLEAN /\ thread \in {"none", "live", "done"}
  /\ driver \in {None, "loop", "owner"} /\ owner \in {"free", "starting", "stopping", "cycling"}
  /\ phase \in {"idle", "check", "swap", "perceive", "plan", "act", "action", "reflect", "limit", "ending"}
  /\ executed \in 0..MaxTasksPerCycle
  /\ maxCycles \in CycleLimits /\ cycles \in 0..maxCycles /\ runs \in 0..MaxRuns
DataTypes ==
  /\ perceptQueue \in Seq(Percepts) /\ batch \in Seq(Percepts)
  /\ added \in Seq(Percepts) /\ perceived \in Seq(Percepts)
  /\ queue \in Seq(Tasks) /\ promoted \subseteq Tasks
  /\ priority \in [Tasks -> (0..4) \cup {None}] /\ born \in [Tasks -> (0..4) \cup {None}]
  /\ status \in [Tasks -> {None, "pending", "completed", "failed"}]
  /\ goalTasks \in [Goals -> (SUBSET Tasks) \cup {None}] /\ currentGoal \in Goals \cup {None}
  /\ calls \in [Tasks -> Nat] /\ slots \in Nat

LEMMA LoopTypes ==
  /\ LoopTypeOK <=> ControlTypes /\ DataTypes
  /\ LoopTypeOK' <=> ControlTypes' /\ DataTypes'
<1>1. LoopTypeOK <=> ControlTypes /\ DataTypes
  BY DEF LoopTypeOK, ControlTypes, DataTypes
<1>2. LoopTypeOK' <=> ControlTypes' /\ DataTypes'
  BY DEF LoopTypeOK, ControlTypes, DataTypes
<1> QED BY <1>1, <1>2

LEMMA DataKept ==
  ASSUME DataTypes, UNCHANGED <<input, tasks, promoted, calls, batch, perceived>>
  PROVE  DataTypes'
  BY DEF DataTypes, input, tasks

\* A cycle starts
LEMMA CycleBegins ==
  ASSUME ControlTypes, NEW d \in {"loop", "owner"}, BeginCycle(d)
  PROVE  /\ driver' = d /\ phase' = "swap" /\ UNCHANGED <<batch, perceived>>
         /\ maxCycles' = maxCycles => executed' \in 0..MaxTasksPerCycle /\ cycles' \in 0..maxCycles'
<1>1. maxCycles \in Nat /\ MaxTasksPerCycle \in Nat /\ cycles \in 0..maxCycles
  BY LoopAssumption DEF ControlTypes
<1> QED BY <1>1 DEF BeginCycle

LEMMA ControlKeeps ==
  ASSUME LoopBase,
         EndCycle \/ CheckRunning \/ CheckLimit \/ StopItself \/ OwnerStep
  PROVE  LoopBase' /\ (CallsCounted => CallsCounted')
<1> DEFINE Threads == ControlTypes' /\ Driven' /\ RunningMeansLoop'
<1>1. SUFFICES ASSUME TRUE PROVE Threads /\ ControlOnly
  <2>1. DataTypes /\ UNCHANGED <<input, tasks, promoted, calls, batch, perceived>>
    BY <1>1, LoopTypes DEF LoopBase, ControlOnly
  <2>2. LoopTypeOK'
    BY <1>1, <2>1, DataKept, LoopTypes
  <2> QED BY <1>1, <2>2, ControlFrame DEF LoopBase
<1>2. ControlTypes /\ Driven /\ RunningMeansLoop
  BY LoopTypes DEF LoopBase
<1>3. None \notin {"loop", "owner"} /\ MaxRuns \in Nat
  BY LoopAssumption
<1>4. CASE EndCycle
  <2>1. ControlOnly
    BY <1>4 DEF EndCycle, ControlOnly
  <2>2. Threads
    BY <1>2, <1>3, <1>4 DEF EndCycle, ControlTypes, Driven, RunningMeansLoop
  <2> QED BY <2>1, <2>2
<1>5. CASE CheckRunning
  <2>1. CASE running
    <3>1. /\ phase = "check" /\ BeginCycle("loop")
          /\ UNCHANGED <<input, tasks, promoted, calls, running, owner, runs, maxCycles, thread>>
      BY <1>5, <2>1 DEF CheckRunning
    <3>2. /\ driver' = "loop" /\ phase' = "swap" /\ UNCHANGED <<batch, perceived>>
          /\ executed' \in 0..MaxTasksPerCycle /\ cycles' \in 0..maxCycles'
      BY <1>2, <3>1, CycleBegins
    <3>3. ControlOnly
      BY <3>1, <3>2 DEF ControlOnly
    <3>4. Threads
      BY <1>2, <1>3, <3>1, <3>2 DEF ControlTypes, Driven, RunningMeansLoop
    <3> QED BY <3>3, <3>4
  <2>2. CASE ~running
    <3>1. /\ phase = "check" /\ phase' = "idle" /\ driver' = None /\ thread' = "done"
          /\ UNCHANGED <<batch, perceived, executed, cycles>>
          /\ UNCHANGED <<input, tasks, promoted, calls, running, owner, runs, maxCycles>>
      BY <1>5, <2>2 DEF CheckRunning
    <3>2. ControlOnly
      BY <3>1 DEF ControlOnly
    <3>3. Threads
      BY <1>2, <1>3, <2>2, <3>1 DEF ControlTypes, Driven, RunningMeansLoop
    <3> QED BY <3>2, <3>3
  <2> QED BY <2>1, <2>2
<1>6. CASE CheckLimit
  <2>1. ControlOnly
    BY <1>6 DEF CheckLimit, ControlOnly
  <2>2. Threads
    BY <1>2, <1>3, <1>6 DEF CheckLimit, control, ControlTypes, Driven, RunningMeansLoop
  <2> QED BY <2>1, <2>2
<1>7. CASE StopItself
  <2>1. ControlOnly
    BY <1>7 DEF StopItself, ControlOnly
  <2>2. Threads
    BY <1>2, <1>3, <1>7 DEF StopItself, ControlTypes, Driven, RunningMeansLoop
  <2> QED BY <2>1, <2>2
<1>8. CASE Start
  <2>1. ControlOnly
    BY <1>8 DEF Start, cycle, ControlOnly
  <2>2. Threads
    BY <1>2, <1>3, <1>8 DEF Start, cycle, ControlTypes, Driven, RunningMeansLoop
  <2> QED BY <2>1, <2>2
<1>9. CASE Spawn
  <2>1. driver = None /\ phase = "idle"
    BY <1>2, <1>9 DEF Spawn, ControlTypes, Driven
  <2>2. ControlOnly
    BY <1>9, <2>1 DEF Spawn, ControlOnly
  <2>3. Threads
    BY <1>2, <1>3, <1>9 DEF Spawn, ControlTypes, Driven, RunningMeansLoop
  <2> QED BY <2>2, <2>3
<1>10. CASE Stop
  <2>1. ControlOnly
    BY <1>10 DEF Stop, cycle, ControlOnly
  <2>2. Threads
    BY <1>2, <1>3, <1>10 DEF Stop, cycle, ControlTypes, Driven, RunningMeansLoop
  <2> QED BY <2>1, <2>2
<1>11. CASE Join
  <2>1. ControlOnly
    BY <1>11 DEF Join, cycle, ControlOnly
  <2>2. Threads
    BY <1>2, <1>3, <1>11 DEF Join, cycle, ControlTypes, Driven, RunningMeansLoop
  <2> QED BY <2>1, <2>2
<1>12. CASE RunSingleCycle
  <2>1. /\ owner = "free" /\ thread # "live" /\ ~running /\ runs < MaxRuns /\ runs' = runs + 1
        /\ owner' = "cycling" /\ BeginCycle("owner")
        /\ UNCHANGED <<input, tasks, promoted, calls, running, thread, maxCycles>>
    BY <1>12 DEF RunSingleCycle
  <2>2. driver = None /\ phase = "idle"
    BY <1>2, <2>1 DEF ControlTypes, Driven
  <2>3. /\ driver' = "owner" /\ phase' = "swap" /\ UNCHANGED <<batch, perceived>>
        /\ executed' \in 0..MaxTasksPerCycle /\ cycles' \in 0..maxCycles'
    BY <1>2, <2>1, CycleBegins
  <2>4. ControlOnly
    BY <2>1, <2>2, <2>3 DEF ControlOnly
  <2>5. runs' \in 0..MaxRuns
    BY <1>2, <1>3, <2>1 DEF ControlTypes
  <2>6. Threads
    BY <1>2, <1>3, <2>1, <2>3, <2>5 DEF ControlTypes, Driven, RunningMeansLoop
  <2> QED BY <2>4, <2>6
<1> QED BY <1>4, <1>5, <1>6, <1>7, <1>8, <1>9, <1>10, <1>11, <1>12 DEF OwnerStep

\* Steps that touch neither tasks nor the threads
PerceptsOnly ==
  /\ UNCHANGED <<tasks, promoted, calls, driver, executed, cycles, control>>
  /\ (phase \in {"swap", "perceive"} /\ phase' \in {"perceive", "plan"}) \/ phase' = phase

LEMMA PerceptFrame ==
  ASSUME LoopBase, PerceptsOnly, BatchTaken', PerceptsInOrder',
         perceptQueue' \in Seq(Percepts), batch' \in Seq(Percepts),
         added' \in Seq(Percepts), perceived' \in Seq(Percepts)
  PROVE  LoopBase' /\ (CallsCounted => CallsCounted')
<1>1. /\ UNCHANGED <<queue, slots, priority, status, goalTasks, currentGoal, born, promoted, calls,
                     driver, executed, cycles, running, thread, owner, runs, maxCycles>>
      /\ (phase \in {"swap", "perceive"} /\ phase' \in {"perceive", "plan"}) \/ phase' = phase
  BY DEF PerceptsOnly, tasks, control
<1>2. LoopTypeOK'
  <2>1. ControlTypes'
    BY <1>1, LoopTypes DEF LoopBase, ControlTypes
  <2>2. DataTypes'
    BY <1>1, LoopTypes DEF LoopBase, DataTypes
  <2> QED BY <2>1, <2>2, LoopTypes
<1>3. Driven' /\ RunningMeansLoop'
  BY <1>1 DEF LoopBase, Driven, RunningMeansLoop
<1>4. TasksKnown'
  BY <1>1 DEF LoopBase, TasksKnown
<1>5. AtMostOneBoost'
  BY <1>1 DEF LoopBase, AtMostOneBoost
<1>6. CallsCounted => CallsCounted'
  BY <1>1 DEF CallsCounted, Pending
<1> QED BY <1>2, <1>3, <1>4, <1>5, <1>6 DEF LoopBase

\* Percepts move on from one sequence to the next, none passes another
LEMMA Moved ==
  ASSUME NEW S, NEW a \in Seq(S), NEW b \in Seq(S)
  PROVE  /\ \A x \in S : a \o Append(b, x) = Append(a \o b, x)
         /\ b # <<>> => /\ Append(a, Head(b)) \o Tail(b) = a \o b
                        /\ Append(a, Head(b)) \in Seq(S) /\ Tail(b) \in Seq(S)
         /\ a \o <<>> = a /\ <<>> \o a = a
<1>1. \A x \in S : a \o Append(b, x) = Append(a \o b, x)
  OBVIOUS
<1>2. ASSUME b # <<>> PROVE /\ Append(a, Head(b)) \o Tail(b) = a \o b
                            /\ Append(a, Head(b)) \in Seq(S) /\ Tail(b) \in Seq(S)
  <2>1. Head(b) \in S /\ Tail(b) \in Seq(S) /\ Len(Tail(b)) = Len(b) - 1 /\ Len(b) \in Nat \ {0}
        /\ Head(b) = b[1] /\ \A i \in 1..(Len(b) - 1) : Tail(b)[i] = b[i + 1]
    BY <1>2
  <2> DEFINE l == Append(a, Head(b))
             t == Tail(b)
             n == Len(a)
             m == Len(b)
  <2>2. l \in Seq(S) /\ n \in Nat /\ Len(l) = n + 1 /\ l[n + 1] = b[1] /\ \A i \in 1..n : l[i] = a[i]
    BY <2>1
  <2>3. t \in Seq(S) /\ Len(t) = m - 1 /\ m \in Nat \ {0} /\ \A i \in 1..(m - 1) : t[i] = b[i + 1]
    BY <2>1
  <2> HIDE DEF l, t
  <2>4. l \o t \in Seq(S) /\ Len(l \o t) = n + m
    <3>1. l \in Seq(S) /\ t \in Seq(S)
      BY <2>2, <2>3
    <3>2. l \o t \in Seq(S) /\ Len(l \o t) = Len(l) + Len(t)
      BY <3>1, ConcatProperties, Zenon
    <3>3. Len(l) + Len(t) = n + m
      BY <2>2, <2>3
    <3> QED BY <3>2, <3>3
  <2>5. a \o b \in Seq(S) /\ Len(a \o b) = n + m
    OBVIOUS
  <2>6. ASSUME NEW i \in 1..(n + m) PROVE (l \o t)[i] = (a \o b)[i]
    <3>1. CASE i <= n
      BY <2>2, <2>3, <2>6, <3>1
    <3>2. CASE i = n + 1
      BY <2>2, <2>3, <2>6, <3>2
    <3>3. CASE i > n + 1
      <4>1. (l \o t)[i] = t[i - (n + 1)] /\ i - (n + 1) \in 1..(m - 1) /\ (i - (n + 1)) + 1 = i - n
        BY <2>2, <2>3, <2>6, <3>3
      <4>2. (a \o b)[i] = b[i - n]
        BY <2>2, <2>3, <2>6, <3>3
      <4> QED BY <2>3, <4>1, <4>2
    <3> QED BY <2>2, <2>3, <3>1, <3>2, <3>3
  <2>7. l \o t = a \o b
    BY <2>4, <2>5, <2>6, SeqEqual
  <2> QED BY <2>1, <2>2, <2>7 DEF l, t
<1>3. a \o <<>> = a /\ <<>> \o a = a
  BY ConcatEmptySeq
<1> QED BY <1>1, <1>2, <1>3

LEMMA PerceptKeeps ==
  ASSUME LoopBase, PerceptStep \/ SwapPercepts \/ Perceive
  PROVE  LoopBase' /\ (CallsCounted => CallsCounted')
<1>1. /\ perceptQueue \in Seq(Percepts) /\ batch \in Seq(Percepts)
      /\ added \in Seq(Percepts) /\ perceived \in Seq(Percepts)
      /\ perceived \o batch \o perceptQueue = added
      /\ batch # <<>> => phase = "perceive"
  BY DEF LoopBase, LoopTypeOK, PerceptsInOrder, BatchTaken
<1>2. ASSUME NEW p \in Percepts, AddPercept(p) PROVE LoopBase' /\ (CallsCounted => CallsCounted')
  <2>1. perceptQueue' = Append(perceptQueue, p) /\ added' = Append(added, p)
        /\ UNCHANGED <<tasks, promoted, calls, cycle, control>>
    BY <1>2 DEF AddPercept
  <2>2. PerceptsOnly /\ UNCHANGED <<batch, perceived, phase>>
    BY <2>1 DEF PerceptsOnly, cycle
  <2>3. perceived \o batch \in Seq(Percepts)
    BY <1>1
  <2>4. PerceptsInOrder'
    <3>1. perceived \o batch \o Append(perceptQueue, p) = Append(perceived \o batch \o perceptQueue, p)
      BY <1>1, <2>3, Moved, SMTT(30)
    <3> QED BY <1>1, <2>1, <2>2, <3>1 DEF PerceptsInOrder
  <2>5. BatchTaken'
    BY <1>1, <2>2 DEF BatchTaken
  <2>6. perceptQueue' \in Seq(Percepts) /\ added' \in Seq(Percepts)
    BY <1>1, <2>1
  <2> QED BY <1>1, <2>2, <2>4, <2>5, <2>6, PerceptFrame
<1>3. CASE SwapPercepts
  <2>1. /\ phase = "swap" /\ batch' = perceptQueue /\ perceptQueue' = <<>> /\ phase' = "perceive"
        /\ UNCHANGED <<added, tasks, promoted, calls, perceived, driver, executed, cycles, control>>
    BY <1>3 DEF SwapPercepts
  <2>2. PerceptsOnly
    BY <2>1 DEF PerceptsOnly
  <2>3. batch = <<>>
    BY <1>1, <2>1
  <2>4. PerceptsInOrder'
    <3>1. perceived \o batch = perceived /\ perceived \o perceptQueue \in Seq(Percepts)
      BY <1>1, <2>3, Moved
    <3>2. (perceived \o perceptQueue) \o <<>> = perceived \o perceptQueue
      BY <3>1, Moved
    <3> QED BY <1>1, <2>1, <3>1, <3>2 DEF PerceptsInOrder
  <2>5. BatchTaken'
    BY <2>1 DEF BatchTaken
  <2>6. perceptQueue' \in Seq(Percepts)
    BY <2>1
  <2> QED BY <1>1, <2>1, <2>2, <2>4, <2>5, <2>6, PerceptFrame
<1>4. CASE Perceive
  <2>1. phase = "perceive" /\ UNCHANGED <<input, tasks, promoted, calls, driver, executed, cycles, control>>
    BY <1>4 DEF Perceive
  <2>2. UNCHANGED <<perceptQueue, added>>
    BY <2>1 DEF input
  <2>3. CASE batch = <<>>
    <3>1. phase' = "plan" /\ UNCHANGED <<batch, perceived>>
      BY <1>4, <2>3 DEF Perceive
    <3>2. PerceptsOnly
      BY <2>1, <3>1 DEF PerceptsOnly
    <3>3. PerceptsInOrder' /\ BatchTaken'
      BY <1>1, <2>2, <2>3, <3>1 DEF PerceptsInOrder, BatchTaken
    <3> QED BY <1>1, <2>2, <3>1, <3>2, <3>3, PerceptFrame
  <2>4. CASE batch # <<>>
    <3>1. perceived' = Append(perceived, Head(batch)) /\ batch' = Tail(batch) /\ phase' = phase
      BY <1>4, <2>4 DEF Perceive
    <3>2. PerceptsOnly
      BY <2>1, <3>1 DEF PerceptsOnly
    <3>3. /\ Append(perceived, Head(batch)) \o Tail(batch) = perceived \o batch
          /\ perceived' \in Seq(Percepts) /\ batch' \in Seq(Percepts)
      BY <1>1, <2>4, <3>1, Moved
    <3>4. PerceptsInOrder' /\ BatchTaken'
      BY <1>1, <2>1, <2>2, <3>1, <3>3 DEF PerceptsInOrder, BatchTaken
    <3> QED BY <1>1, <2>2, <3>2, <3>3, <3>4, PerceptFrame
  <2> QED BY <2>3, <2>4
<1> QED BY <1>2, <1>3, <1>4 DEF PerceptStep

\* Steps that touch neither percepts nor the threads
TasksOnly == UNCHANGED <<input, batch, perceived, driver, cycles, control>>

LEMMA TaskFrame ==
  ASSUME LoopBase, TasksOnly,
         \/ phase' = phase
         \/ phase \in {"plan", "act", "action"} /\ phase' \in {"act", "action", "reflect"},
         executed' = executed \/ executed' \in 0..MaxTasksPerCycle,
         queue' \in Seq(Tasks), promoted' \subseteq Tasks, slots' \in Nat,
         priority' \in [Tasks -> (0..4) \cup {None}], born' \in [Tasks -> (0..4) \cup {None}],
         status' \in [Tasks -> {None, "pending", "completed", "failed"}],
         goalTasks' \in [Goals -> (SUBSET Tasks) \cup {None}], currentGoal' \in Goals \cup {None},
         calls' \in [Tasks -> Nat],
         TasksKnown', AtMostOneBoost'
  PROVE  LoopBase'
<1>1. UNCHANGED <<perceptQueue, added, batch, perceived, driver, cycles, running, thread, owner,
                  runs, maxCycles>>
  BY DEF TasksOnly, input, control
<1>2. DataTypes'
  BY <1>1, LoopTypes DEF LoopBase, DataTypes
<1>3. ControlTypes'
  BY <1>1, LoopTypes DEF LoopBase, ControlTypes
<1>4. Driven' /\ RunningMeansLoop'
  BY <1>1 DEF LoopBase, Driven, RunningMeansLoop
<1>5. BatchTaken' /\ PerceptsInOrder'
  BY <1>1 DEF LoopBase, BatchTaken, PerceptsInOrder
<1> QED BY <1>2, <1>3, <1>4, <1>5, LoopTypes DEF LoopBase

\* A priority a task got is one of the five, and fits those of the queue
LEMMA QueuePriorities ==
  ASSUME LoopBase
  PROVE  /\ \A t \in Tasks : priority[t] # None => priority[t] \in 0..4
         /\ \A i \in DOMAIN queue : queue[i] \in Tasks /\ priority[queue[i]] \in 0..4
         /\ queue \in Seq(Tasks) /\ priority \in [Tasks -> (0..4) \cup {None}]
<1>1. queue \in Seq(Tasks) /\ priority \in [Tasks -> (0..4) \cup {None}]
  BY DEF LoopBase, LoopTypeOK
<1>2. \A t \in ToSet(queue) : priority[t] # None
  BY DEF LoopBase, TasksKnown
<1>3. \A t \in Tasks : priority[t] # None => priority[t] \in 0..4
  BY <1>1
<1>4. \A i \in DOMAIN queue : queue[i] \in Tasks /\ queue[i] \in ToSet(queue)
  BY <1>1 DEF ToSet
<1> QED BY <1>1, <1>2, <1>3, <1>4

\* enqueue and attachToGoal put the task into the sorted queue
LEMMA PushIs ==
  ASSUME LoopBase, NEW t \in Tasks, priority[t] # None, Push(t)
  PROVE  /\ queue' \in Seq(Tasks) /\ Ordered(queue', priority)
         /\ ToSet(queue') = ToSet(queue) \cup {t} /\ queue' # <<>> /\ slots' \in Nat
<1> DEFINE q == Append(queue, t)
           n == Len(queue)
<1>1. /\ \A i \in DOMAIN queue : queue[i] \in Tasks /\ priority[queue[i]] \in 0..4
      /\ priority[t] \in 0..4 /\ queue \in Seq(Tasks)
  BY QueuePriorities
<1>2. /\ q \in Seq(Tasks) /\ n \in Nat /\ DOMAIN q = 1..(n + 1) /\ DOMAIN queue = 1..n
      /\ q[n + 1] = t /\ \A i \in 1..n : q[i] = queue[i]
  BY <1>1
<1> HIDE DEF q, n
<1>3. \A i \in DOMAIN q : priority[q[i]] \in 0..4
  BY <1>1, <1>2
<1>4. queue' = Sorted(q, priority) /\ Grow
  BY DEF Push, q
<1>5. queue' \in Seq(Tasks) /\ Ordered(queue', priority) /\ ToSet(queue') = ToSet(q)
  BY <1>2, <1>3, <1>4, SortedIs
<1>6. ToSet(q) = ToSet(queue) \cup {t}
  <2>1. ToSet(q) = {q[i] : i \in 1..(n + 1)} /\ ToSet(queue) = {queue[i] : i \in 1..n}
    BY <1>2 DEF ToSet
  <2>2. ToSet(queue) \subseteq ToSet(q) /\ t \in ToSet(q)
    BY <1>2, <2>1
  <2>3. \A i \in 1..(n + 1) : q[i] \in ToSet(queue) \cup {t}
    BY <1>2, <2>1
  <2> QED BY <2>1, <2>2, <2>3
<1>7. queue' # <<>>
  <2>1. ToSet(<<>>) = {}
    BY DEF ToSet
  <2> QED BY <1>5, <1>6, <2>1
<1>8. slots \in Nat
  BY DEF LoopBase, LoopTypeOK
<1>9. slots' \in Nat
  BY <1>4, <1>8 DEF Grow
<1> QED BY <1>5, <1>6, <1>7, <1>9

\* The queue is longer by a task and ordered again, and nothing else of the tasks changed
LEMMA PushKeeps ==
  ASSUME LoopBase, NEW t \in Tasks, priority[t] # None, Push(t), MayCall,
         UNCHANGED <<input, priority, status, currentGoal, born, promoted, calls, cycle, control>>,
         goalTasks' \in [Goals -> (SUBSET Tasks) \cup {None}],
         \A g \in Goals : goalTasks'[g] # None => \A u \in goalTasks'[g] : priority[u] # None,
         \A g \in Goals : goalTasks'[g] = None => goalTasks[g] = None
  PROVE  LoopBase' /\ (~ReentrantCalls /\ CallsCounted => CallsCounted')
<1>1. /\ queue' \in Seq(Tasks) /\ Ordered(queue', priority)
      /\ ToSet(queue') = ToSet(queue) \cup {t} /\ queue' # <<>> /\ slots' \in Nat
  BY PushIs
<1>2. TasksOnly /\ UNCHANGED <<phase, executed>>
  BY DEF TasksOnly, cycle
<1>3. TasksKnown'
  <2>1. currentGoal \in Goals \cup {None}
    BY DEF LoopBase, LoopTypeOK
  <2>2. currentGoal' # None => goalTasks'[currentGoal'] # None
    BY <2>1 DEF LoopBase, TasksKnown
  <2> QED BY <1>1, <1>2, <2>2 DEF LoopBase, TasksKnown
<1>4. AtMostOneBoost'
  BY DEF LoopBase, AtMostOneBoost
<1>5. LoopBase'
  <2>1. /\ promoted' \subseteq Tasks /\ priority' \in [Tasks -> (0..4) \cup {None}]
        /\ born' \in [Tasks -> (0..4) \cup {None}]
        /\ status' \in [Tasks -> {None, "pending", "completed", "failed"}]
        /\ currentGoal' \in Goals \cup {None} /\ calls' \in [Tasks -> Nat]
    BY DEF LoopBase, LoopTypeOK
  <2> QED BY <1>1, <1>2, <1>3, <1>4, <2>1, TaskFrame
<1>6. ~ReentrantCalls /\ CallsCounted => CallsCounted'
  BY <1>2 DEF MayCall, CallsCounted, Pending
<1> QED BY <1>5, <1>6

LEMMA TaskKeeps ==
  ASSUME LoopBase, TaskStep
  PROVE  LoopBase' /\ (~ReentrantCalls /\ CallsCounted => CallsCounted')
<1> DEFINE Goal == LoopBase' /\ (~ReentrantCalls /\ CallsCounted => CallsCounted')
<1>1. /\ queue \in Seq(Tasks) /\ promoted \subseteq Tasks /\ slots \in Nat
      /\ priority \in [Tasks -> (0..4) \cup {None}] /\ born \in [Tasks -> (0..4) \cup {None}]
      /\ status \in [Tasks -> {None, "pending", "completed", "failed"}]
      /\ goalTasks \in [Goals -> (SUBSET Tasks) \cup {None}] /\ currentGoal \in Goals \cup {None}
      /\ calls \in [Tasks -> Nat]
  BY DEF LoopBase, LoopTypeOK
<1>2. TasksKnown /\ AtMostOneBoost
  BY DEF LoopBase
<1>3. /\ None \notin {"pending", "completed", "failed"} /\ None \notin 0..4 /\ Priorities \subseteq 0..4
      /\ \A S \in SUBSET Tasks : None # S
  BY LoopAssumption
<1>4. ASSUME NEW t \in Tasks, NEW p \in Priorities, CreateTask(t, p) PROVE Goal
  <2>1. /\ MayCall /\ priority[t] = None /\ priority' = [priority EXCEPT ![t] = p]
        /\ born' = [born EXCEPT ![t] = p] /\ status' = [status EXCEPT ![t] = "pending"]
        /\ UNCHANGED <<input, queue, slots, goalTasks, currentGoal, promoted, calls, cycle, control>>
    BY <1>4 DEF CreateTask
  <2>2. TasksOnly /\ UNCHANGED <<phase, executed>>
    BY <2>1 DEF TasksOnly, cycle
  <2>3. t \notin ToSet(queue) /\ born[t] = None /\ status[t] = None
    BY <1>2, <2>1 DEF TasksKnown
  <2>4. /\ \A u \in Tasks \ {t} : priority'[u] = priority[u] /\ born'[u] = born[u] /\ status'[u] = status[u]
        /\ priority'[t] = p /\ born'[t] = p /\ status'[t] = "pending" /\ p # None /\ p \in 0..4
    BY <1>1, <1>3, <2>1
  <2>5. \A i \in DOMAIN queue : queue[i] \in Tasks \ {t}
    BY <1>1, <2>3 DEF ToSet
  <2>6. TasksKnown'
    <3>1. \A u \in ToSet(queue') : priority'[u] # None
      BY <1>2, <2>1, <2>3, <2>4, <2>5 DEF TasksKnown, ToSet
    <3>2. \A g \in Goals : goalTasks'[g] # None => \A u \in goalTasks'[g] : priority'[u] # None
      BY <1>1, <1>2, <2>1, <2>4 DEF TasksKnown
    <3>3. \A u \in Tasks : /\ priority'[u] = None <=> born'[u] = None
                           /\ priority'[u] = None <=> status'[u] = None
      BY <1>2, <1>3, <2>4 DEF TasksKnown
    <3>4. Ordered(queue', priority')
      BY <1>2, <2>1, <2>4, <2>5 DEF TasksKnown, Ordered
    <3> QED BY <1>2, <2>1, <2>2, <3>1, <3>2, <3>3, <3>4 DEF TasksKnown
  <2>7. AtMostOneBoost'
    BY <1>2, <2>1, <2>4 DEF AtMostOneBoost
  <2>8. LoopBase'
    <3>1. /\ priority' \in [Tasks -> (0..4) \cup {None}] /\ born' \in [Tasks -> (0..4) \cup {None}]
          /\ status' \in [Tasks -> {None, "pending", "completed", "failed"}]
      BY <1>1, <1>3, <2>1
    <3> QED BY <1>1, <2>1, <2>2, <2>6, <2>7, <3>1, TaskFrame
  <2>9. ~ReentrantCalls /\ CallsCounted => CallsCounted'
    BY <1>3, <2>1, <2>2, <2>3, <2>4 DEF MayCall, CallsCounted, Pending
  <2> QED BY <2>8, <2>9
<1>5. ASSUME NEW t \in Tasks, Enqueue(t) PROVE Goal
  <2>1. /\ MayCall /\ priority[t] # None /\ Push(t)
        /\ UNCHANGED <<input, priority, status, goalTasks, currentGoal, born, promoted, calls, cycle, control>>
    BY <1>5 DEF Enqueue
  <2> QED BY <1>1, <1>2, <2>1, PushKeeps DEF TasksKnown
<1>6. ASSUME NEW g \in Goals, NEW t \in Tasks, AttachToGoal(g, t) PROVE Goal
  <2>1. /\ MayCall /\ priority[t] # None /\ Push(t)
        /\ goalTasks' = IF goalTasks[g] = None THEN goalTasks ELSE [goalTasks EXCEPT ![g] = @ \cup {t}]
        /\ UNCHANGED <<input, priority, status, currentGoal, born, promoted, calls, cycle, control>>
    BY <1>6 DEF AttachToGoal
  <2>2. goalTasks' \in [Goals -> (SUBSET Tasks) \cup {None}]
    <3>1. goalTasks[g] # None => goalTasks[g] \in SUBSET Tasks
      BY <1>1
    <3> QED BY <1>1, <2>1, <3>1
  <2>3. \A h \in Goals : goalTasks'[h] # None => \A u \in goalTasks'[h] : priority[u] # None
    <3>1. ASSUME NEW h \in Goals, goalTasks[h] # None PROVE \A u \in goalTasks[h] : priority[u] # None
      BY <1>2, <3>1 DEF TasksKnown
    <3> QED BY <1>1, <2>1, <3>1
  <2>4. \A h \in Goals : goalTasks'[h] = None => goalTasks[h] = None
    <3>1. goalTasks[g] # None => goalTasks[g] \cup {t} # None
      <4>1. goalTasks[g] # None => goalTasks[g] \cup {t} \in SUBSET Tasks
        BY <1>1
      <4> QED BY <1>3, <4>1
    <3> QED BY <1>1, <2>1, <3>1
  <2> QED BY <2>1, <2>2, <2>3, <2>4, PushKeeps
<1>7. ASSUME NEW g \in Goals, SetGoal(g) \/ AchieveGoal(g) PROVE Goal
  <2>1. /\ MayCall /\ UNCHANGED <<input, queue, slots, priority, status, born, promoted, calls, cycle, control>>
        /\ goalTasks' = goalTasks \/ goalTasks' = [goalTasks EXCEPT ![g] = {}]
        /\ currentGoal' \in Goals \cup {None}
        /\ currentGoal' # None => goalTasks' = [goalTasks EXCEPT ![currentGoal'] = {}]
    BY <1>7 DEF SetGoal, AchieveGoal
  <2>2. TasksOnly /\ UNCHANGED <<phase, executed>>
    BY <2>1 DEF TasksOnly, cycle
  <2>3. goalTasks' \in [Goals -> (SUBSET Tasks) \cup {None}]
    BY <1>1, <2>1
  <2>4. \A h \in Goals : goalTasks'[h] = goalTasks[h] \/ goalTasks'[h] = {}
    BY <1>1, <2>1
  <2>5. TasksKnown'
    <3>1. currentGoal' # None => goalTasks'[currentGoal'] # None
      BY <1>1, <1>3, <2>1
    <3> QED BY <1>2, <2>1, <2>2, <2>4, <3>1 DEF TasksKnown
  <2>6. AtMostOneBoost'
    BY <1>2, <2>1 DEF AtMostOneBoost
  <2>7. LoopBase'
    BY <1>1, <2>1, <2>2, <2>3, <2>5, <2>6, TaskFrame
  <2>8. CallsCounted => CallsCounted'
    BY <2>1, <2>2 DEF CallsCounted, Pending
  <2> QED BY <2>7, <2>8
<1> QED BY <1>4, <1>5, <1>6, <1>7 DEF TaskStep

\* phasePlanning: no task is promoted twice, and the queue is sorted again
LEMMA PlanningKeeps ==
  ASSUME LoopBase, PhasePlanning
  PROVE  LoopBase' /\ (CallsCounted => CallsCounted')
<1>1. /\ queue \in Seq(Tasks) /\ promoted \subseteq Tasks /\ slots \in Nat
      /\ priority \in [Tasks -> (0..4) \cup {None}] /\ born \in [Tasks -> (0..4) \cup {None}]
      /\ status \in [Tasks -> {None, "pending", "completed", "failed"}]
      /\ goalTasks \in [Goals -> (SUBSET Tasks) \cup {None}] /\ currentGoal \in Goals \cup {None}
      /\ calls \in [Tasks -> Nat] /\ TasksKnown /\ AtMostOneBoost
  BY DEF LoopBase, LoopTypeOK
<1>2. /\ phase = "plan" /\ phase' = "act"
      /\ priority' = [t \in Tasks |-> IF t \in ToPromote THEN priority[t] - 1 ELSE priority[t]]
      /\ promoted' = promoted \cup ToPromote
      /\ queue' = IF ToPromote = {} THEN queue ELSE Sorted(queue, priority')
      /\ UNCHANGED <<input, slots, status, goalTasks, currentGoal, born, calls, batch, perceived, driver,
                     executed, cycles, control>>
  BY DEF PhasePlanning
<1>3. \A t \in ToPromote : t \in Tasks /\ t \notin promoted /\ priority[t] \in 2..4
  <2>1. SUFFICES ASSUME currentGoal # None, NEW t \in goalTasks[currentGoal], t \notin promoted,
                        priority[t] > 1
                 PROVE  t \in Tasks /\ priority[t] \in 2..4
    BY DEF ToPromote, High
  <2>2. goalTasks[currentGoal] \in SUBSET Tasks /\ \A u \in goalTasks[currentGoal] : priority[u] # None
    BY <1>1, <2>1 DEF TasksKnown
  <2>3. t \in Tasks /\ priority[t] \in 0..4
    BY <1>1, <2>1, <2>2
  <2> QED BY <2>1, <2>3
<1>4. /\ \A t \in Tasks : priority'[t] = IF t \in ToPromote THEN priority[t] - 1 ELSE priority[t]
      /\ priority' \in [Tasks -> (0..4) \cup {None}]
      /\ \A t \in Tasks : priority'[t] = None <=> priority[t] = None
  <2>1. \A n \in Nat : n # None
    BY LoopAssumption
  <2> QED BY <1>1, <1>2, <1>3, <2>1
<1>5. queue' \in Seq(Tasks) /\ Ordered(queue', priority') /\ ToSet(queue') = ToSet(queue)
  <2>1. CASE ToPromote = {}
    <3>1. priority' = priority
      BY <1>1, <1>2, <2>1
    <3> QED BY <1>1, <1>2, <2>1, <3>1 DEF TasksKnown
  <2>2. CASE ToPromote # {}
    <3>1. \A i \in DOMAIN queue : queue[i] \in Tasks /\ priority[queue[i]] # None
      BY QueuePriorities, LoopAssumption
    <3>2. \A i \in DOMAIN queue : priority'[queue[i]] \in 0..4
      BY <1>4, <3>1
    <3> QED BY <1>1, <1>2, <2>2, <3>2, SortedIs
  <2> QED BY <2>1, <2>2
<1>6. TasksKnown'
  <2>1. \A t \in ToSet(queue') : priority'[t] # None
    <3>1. \A t \in ToSet(queue) : t \in Tasks
      BY <1>1 DEF ToSet
    <3> QED BY <1>1, <1>4, <1>5, <3>1 DEF TasksKnown
  <2>2. \A g \in Goals : goalTasks'[g] # None => \A t \in goalTasks'[g] : priority'[t] # None
    BY <1>1, <1>2, <1>4 DEF TasksKnown
  <2>3. \A t \in Tasks : /\ priority'[t] = None <=> born'[t] = None
                         /\ priority'[t] = None <=> status'[t] = None
    BY <1>1, <1>2, <1>4 DEF TasksKnown
  <2> QED BY <1>1, <1>2, <1>5, <2>1, <2>2, <2>3 DEF TasksKnown
<1>7. AtMostOneBoost'
  <2>1. SUFFICES ASSUME NEW t \in Tasks, priority'[t] # born[t]
                 PROVE  /\ priority'[t] = born[t] - 1 /\ priority'[t] >= 1 /\ t \in promoted'
    BY <1>2 DEF AtMostOneBoost, High
  <2>2. CASE t \in ToPromote
    <3>1. priority[t] = born[t] /\ priority[t] \in 2..4
      BY <1>1, <1>3, <2>2 DEF AtMostOneBoost
    <3> QED BY <1>2, <1>4, <2>2, <3>1
  <2>3. CASE t \notin ToPromote
    BY <1>1, <1>2, <1>4, <2>1, <2>3 DEF AtMostOneBoost, High
  <2> QED BY <2>2, <2>3
<1>8. LoopBase'
  <2>1. TasksOnly
    BY <1>2 DEF TasksOnly
  <2>2. promoted' \subseteq Tasks
    BY <1>1, <1>2, <1>3
  <2> QED BY <1>1, <1>2, <1>4, <1>5, <1>6, <1>7, <2>1, <2>2, TaskFrame
<1>9. CallsCounted => CallsCounted'
  BY <1>2 DEF CallsCounted, Pending
<1> QED BY <1>8, <1>9

\* executeNext calls the action of a pending task that no pending task goes before
LEMMA StartKeeps ==
  ASSUME LoopBase, StartTask
  PROVE  /\ LoopBase' /\ (CallsCounted => CallsCounted')
         /\ \A t \in Tasks : calls'[t] > calls[t] =>
              \A u \in ToSet(queue) : Pending(u) => priority[t] <= priority[u]
<1> DEFINE I == {i \in DOMAIN queue : Pending(queue[i])}
           todo == ElementsAt(queue, I)
           First == \A t \in Tasks : calls'[t] > calls[t] =>
                      \A u \in ToSet(queue) : Pending(u) => priority[t] <= priority[u]
<1>1. /\ queue \in Seq(Tasks) /\ promoted \subseteq Tasks /\ slots \in Nat
      /\ priority \in [Tasks -> (0..4) \cup {None}] /\ born \in [Tasks -> (0..4) \cup {None}]
      /\ status \in [Tasks -> {None, "pending", "completed", "failed"}]
      /\ goalTasks \in [Goals -> (SUBSET Tasks) \cup {None}] /\ currentGoal \in Goals \cup {None}
      /\ calls \in [Tasks -> Nat] /\ TasksKnown /\ AtMostOneBoost
  BY DEF LoopBase, LoopTypeOK
<1>2. /\ phase = "act"
      /\ UNCHANGED <<input, slots, priority, status, goalTasks, currentGoal, born, promoted, batch,
                     perceived, driver, executed, cycles, control>>
  BY DEF StartTask
<1>3. /\ CycleIsFull => phase' = "reflect" /\ UNCHANGED <<queue, calls>>
      /\ ~CycleIsFull => /\ queue' = todo
                         /\ todo = <<>> => phase' = "reflect" /\ UNCHANGED calls
                         /\ todo # <<>> => /\ phase' = "action"
                                           /\ calls' = [calls EXCEPT ![Head(todo)] = @ + 1]
  BY DEF StartTask
<1>4. I \subseteq DOMAIN queue /\ Ordered(queue, priority)
      /\ \A i \in DOMAIN queue : queue[i] \in Tasks /\ priority[queue[i]] \in 0..4
  BY <1>1, QueuePriorities DEF TasksKnown
<1>5. /\ todo \in Seq(Tasks) /\ Ordered(todo, priority) /\ ToSet(todo) = {queue[i] : i \in I}
      /\ todo # <<>> => \E v \in I : Head(todo) = queue[v] /\ \A i \in I : priority[Head(todo)] <= priority[queue[i]]
  BY <1>1, <1>4, PendingIs
<1>6. \A i \in DOMAIN queue : Pending(queue[i]) <=> i \in I
  OBVIOUS
<1> HIDE DEF I, todo
<1>7. \A t \in ToSet(todo) : t \in ToSet(queue)
  BY <1>4, <1>5 DEF ToSet
<1>8. TasksOnly /\ AtMostOneBoost'
  BY <1>1, <1>2 DEF TasksOnly, AtMostOneBoost
<1>9. CASE phase' = "reflect"
  <2>1. UNCHANGED calls /\ (queue' = queue \/ queue' = todo)
    BY <1>3, <1>9
  <2>2. TasksKnown'
    BY <1>1, <1>2, <1>5, <1>7, <1>9, <2>1 DEF TasksKnown
  <2>3. LoopBase'
    <3>1. queue' \in Seq(Tasks)
      BY <1>1, <1>5, <2>1
    <3> QED BY <1>1, <1>2, <1>8, <1>9, <2>1, <2>2, <3>1, TaskFrame
  <2>4. CallsCounted => CallsCounted'
    BY <1>2, <1>9, <2>1 DEF CallsCounted, Pending
  <2>5. First
    BY <1>1, <2>1
  <2> QED BY <2>3, <2>4, <2>5
<1>10. CASE phase' # "reflect"
  <2>1. /\ ~CycleIsFull /\ queue' = todo /\ todo # <<>> /\ phase' = "action"
        /\ calls' = [calls EXCEPT ![Head(todo)] = @ + 1]
    BY <1>3, <1>10
  <2>2. PICK v \in I : Head(todo) = queue[v] /\ \A i \in I : priority[Head(todo)] <= priority[queue[i]]
    BY <1>5, <2>1
  <2> DEFINE h == Head(todo)
  <2>3. h \in Tasks /\ Pending(h)
    BY <1>4, <1>6, <2>2
  <2> HIDE DEF h
  <2>4. executed < MaxTasksPerCycle
    BY LoopAssumption, <2>1 DEF CycleIsFull, LoopBase, LoopTypeOK
  <2>5. TasksKnown'
    BY <1>1, <1>2, <1>5, <1>7, <2>1, <2>4 DEF TasksKnown
  <2>6. /\ calls' \in [Tasks -> Nat] /\ calls'[h] = calls[h] + 1
        /\ \A t \in Tasks \ {h} : calls'[t] = calls[t]
    BY <1>1, <2>1, <2>3 DEF h
  <2>7. LoopBase'
    BY <1>1, <1>2, <1>5, <1>8, <2>1, <2>5, <2>6, TaskFrame
  <2>8. ASSUME CallsCounted PROVE CallsCounted'
    <3>1. \A t \in Tasks : Pending(t) => calls[t] = 0
      BY <1>2, <2>8 DEF CallsCounted
    <3>2. \A t \in Tasks : Pending(t)' <=> Pending(t)
      BY <1>2 DEF Pending
    <3>3. Head(queue') = h /\ h \in Tasks
      BY <2>1, <2>3 DEF h
    <3>4. \A t \in Tasks : Pending(t)' => calls'[t] = (IF phase' = "action" /\ t = Head(queue') THEN 1 ELSE 0)
      BY <2>1, <2>3, <2>6, <3>1, <3>2, <3>3
    <3>5. \A t \in Tasks : ~Pending(t)' => calls'[t] = (IF status'[t] = None THEN 0 ELSE 1)
      BY <1>2, <2>3, <2>6, <2>8, <3>2 DEF CallsCounted
    <3> QED BY <2>3, <3>2, <3>3, <3>4, <3>5 DEF CallsCounted
  <2>9. First
    <3>1. SUFFICES ASSUME NEW t \in Tasks, calls'[t] > calls[t], NEW u \in ToSet(queue), Pending(u)
                   PROVE  priority[t] <= priority[u]
      OBVIOUS
    <3>2. t = h
      BY <1>1, <2>6, <3>1
    <3>3. PICK i \in DOMAIN queue : u = queue[i]
      BY <3>1 DEF ToSet
    <3> QED BY <1>6, <2>2, <3>1, <3>2, <3>3 DEF h
  <2> QED BY <2>7, <2>8, <2>9
<1> QED BY <1>9, <1>10

\* executeNext after the action: the task it was called for ends
LEMMA FinishKeeps ==
  ASSUME LoopBase, NEW ok \in BOOLEAN, FinishTask(ok)
  PROVE  LoopBase' /\ (CallsCounted => CallsCounted')
<1> DEFINE h == Head(queue)
           n == Len(queue)
           e == IF ok THEN "completed" ELSE "failed"
<1>1. /\ queue \in Seq(Tasks) /\ promoted \subseteq Tasks /\ slots \in Nat
      /\ priority \in [Tasks -> (0..4) \cup {None}] /\ born \in [Tasks -> (0..4) \cup {None}]
      /\ status \in [Tasks -> {None, "pending", "completed", "failed"}]
      /\ goalTasks \in [Goals -> (SUBSET Tasks) \cup {None}] /\ currentGoal \in Goals \cup {None}
      /\ calls \in [Tasks -> Nat] /\ TasksKnown /\ AtMostOneBoost
  BY DEF LoopBase, LoopTypeOK
<1>2. /\ phase = "action" /\ phase' = "act" /\ status' = [status EXCEPT ![h] = e]
      /\ queue' = Tail(queue) /\ executed' = executed + 1
      /\ UNCHANGED <<input, slots, priority, goalTasks, currentGoal, born, promoted, calls, batch,
                     perceived, driver, cycles, control>>
  BY DEF FinishTask
<1>3. queue # <<>> /\ executed < MaxTasksPerCycle
  BY <1>1, <1>2 DEF TasksKnown
<1>4. /\ h \in Tasks /\ h \in ToSet(queue) /\ queue' \in Seq(Tasks)
      /\ n \in Nat \ {0} /\ DOMAIN queue = 1..n /\ DOMAIN queue' = 1..(n - 1)
      /\ \A i \in 1..(n - 1) : i + 1 \in 1..n /\ queue'[i] = queue[i + 1]
  <2>1. h \in Tasks /\ h = queue[1] /\ 1 \in DOMAIN queue
    BY <1>1, <1>3
  <2>2. h \in ToSet(queue)
    BY <2>1 DEF ToSet
  <2> QED BY <1>1, <1>2, <1>3, <2>1, <2>2
<1>5. e \in {"completed", "failed"} /\ e # None /\ e # "pending"
  BY LoopAssumption
<1> HIDE DEF h, n, e
<1>6. status'[h] = e /\ \A t \in Tasks \ {h} : status'[t] = status[t]
  BY <1>1, <1>2, <1>4
<1>7. TasksKnown'
  <2>1. \A t \in ToSet(queue') : t \in ToSet(queue)
    BY <1>4 DEF ToSet
  <2>2. \A i, j \in 1..(n - 1) : i < j => priority[queue'[i]] <= priority[queue'[j]]
    <3>1. SUFFICES ASSUME NEW i \in 1..(n - 1), NEW j \in 1..(n - 1), i < j
                   PROVE  priority[queue'[i]] <= priority[queue'[j]]
      OBVIOUS
    <3>2. i + 1 < j + 1 /\ i + 1 \in DOMAIN queue /\ j + 1 \in DOMAIN queue
      BY <1>4, <3>1
    <3>3. priority[queue[i + 1]] <= priority[queue[j + 1]]
      BY <1>1, <3>2 DEF TasksKnown, Ordered
    <3> QED BY <1>4, <3>3
  <2>3. Ordered(queue', priority')
    BY <1>2, <1>4, <2>2 DEF Ordered
  <2>4. \A t \in Tasks : priority'[t] = None <=> status'[t] = None
    <3>1. priority[h] # None
      BY <1>1, <1>4 DEF TasksKnown
    <3> QED BY <1>1, <1>2, <1>5, <1>6, <3>1 DEF TasksKnown
  <2> QED BY <1>1, <1>2, <2>1, <2>3, <2>4 DEF TasksKnown
<1>8. LoopBase'
  <2>1. TasksOnly /\ AtMostOneBoost'
    BY <1>1, <1>2 DEF TasksOnly, AtMostOneBoost
  <2>2. executed' \in 0..MaxTasksPerCycle
    BY LoopAssumption, <1>2, <1>3 DEF LoopBase, LoopTypeOK
  <2>3. status' \in [Tasks -> {None, "pending", "completed", "failed"}]
    BY <1>1, <1>2, <1>4, <1>5
  <2> QED BY <1>1, <1>2, <1>4, <1>7, <2>1, <2>2, <2>3, TaskFrame
<1>9. ASSUME CallsCounted PROVE CallsCounted'
  <2>1. calls[h] = 1
    BY <1>2, <1>4, <1>9 DEF CallsCounted, h
  <2>2. \A t \in Tasks \ {h} : Pending(t) => calls[t] = 0
    BY <1>2, <1>9 DEF CallsCounted, h
  <2>3. \A t \in Tasks \ {h} : ~Pending(t) => calls[t] = (IF status[t] = None THEN 0 ELSE 1)
    BY <1>9 DEF CallsCounted
  <2> QED BY <1>2, <1>4, <1>5, <1>6, <2>1, <2>2, <2>3 DEF CallsCounted, Pending
<1> QED BY <1>8, <1>9

\* The invariant's part about calls needs actions that leave the tasks alone
LEMMA LoopStep ==
  ASSUME LoopBase, [LoopNext]_loopVars
  PROVE  LoopBase' /\ (~ReentrantCalls /\ CallsCounted => CallsCounted')
<1>1. CASE UNCHANGED loopVars
  <2>1. UNCHANGED <<input, tasks, promoted, calls, batch, perceived, phase, executed, control, driver, cycles>>
    BY <1>1 DEF loopVars, cycle
  <2>2. ControlOnly
    BY <2>1 DEF ControlOnly
  <2>3. LoopTypeOK' /\ Driven' /\ RunningMeansLoop'
    <3>1. DataTypes'
      BY <2>1, LoopTypes, DataKept DEF LoopBase
    <3>2. ControlTypes' /\ Driven' /\ RunningMeansLoop'
      BY <2>1, LoopTypes DEF LoopBase, control, ControlTypes, Driven, RunningMeansLoop
    <3> QED BY <3>1, <3>2, LoopTypes
  <2> QED BY <2>2, <2>3, ControlFrame DEF LoopBase
<1>2. CASE PerceptStep \/ SwapPercepts \/ Perceive
  BY <1>2, PerceptKeeps
<1>3. CASE TaskStep
  BY <1>3, TaskKeeps
<1>4. CASE EndCycle \/ CheckRunning \/ CheckLimit \/ StopItself \/ OwnerStep
  BY <1>4, ControlKeeps
<1>5. CASE PhasePlanning
  BY <1>5, PlanningKeeps
<1>6. CASE StartTask
  BY <1>6, StartKeeps
<1>7. CASE \E ok \in BOOLEAN : FinishTask(ok)
  BY <1>7, FinishKeeps
<1> QED BY <1>1, <1>2, <1>3, <1>4, <1>5, <1>6, <1>7 DEF LoopNext, CycleStep

LEMMA LoopStarts ==
  ASSUME LoopInit
  PROVE  LoopBase /\ CallsCounted
<1>1. LoopTypeOK
  <2>1. ControlTypes
    <3>1. 0 \in 0..MaxTasksPerCycle /\ 0 \in 0..MaxRuns /\ \A n \in CycleLimits : 0 \in 0..n
      BY LoopAssumption
    <3>2. maxCycles \in CycleLimits /\ executed = 0 /\ cycles = 0 /\ runs = 0
      BY DEF LoopInit
    <3>3. 0 \in 0..maxCycles
      BY <3>1, <3>2
    <3> QED BY <3>1, <3>2, <3>3 DEF LoopInit, ControlTypes
  <2>2. DataTypes
    <3>1. priority \in [Tasks -> (0..4) \cup {None}] /\ born = priority /\ calls \in [Tasks -> Nat]
      BY DEF LoopInit
    <3>2. status \in [Tasks -> {None, "pending", "completed", "failed"}]
          /\ goalTasks \in [Goals -> (SUBSET Tasks) \cup {None}]
      BY DEF LoopInit
    <3> QED BY <3>1, <3>2 DEF LoopInit, DataTypes
  <2> QED BY <2>1, <2>2, LoopTypes
<1>2. Driven /\ BatchTaken /\ RunningMeansLoop /\ AtMostOneBoost
  BY LoopAssumption DEF LoopInit, Driven, BatchTaken, RunningMeansLoop, AtMostOneBoost
<1>3. TasksKnown
  BY DEF LoopInit, TasksKnown, Ordered, ToSet
<1>4. PerceptsInOrder
  <2>1. perceived = <<>> /\ batch = <<>> /\ perceptQueue = <<>> /\ added = <<>>
    BY DEF LoopInit
  <2>2. <<>> \in Seq(Percepts)
    OBVIOUS
  <2>3. (<<>> \o <<>>) \o <<>> = <<>>
    BY <2>2, ConcatEmptySeq
  <2> QED BY <2>1, <2>3 DEF PerceptsInOrder
<1>5. CallsCounted
  BY LoopAssumption DEF LoopInit, CallsCounted, Pending
<1> QED BY <1>1, <1>2, <1>3, <1>4, <1>5 DEF LoopBase

\* Whatever the callers and the actions do, enqueue and promote included: the types,
\* the percepts' way in (none is lost, doubled or passes another), one promotion per
\* task, and the loop behind _running, in every execution
THEOREM LoopKeepsItsBooks == LoopSpec => [](LoopTypeOK /\ PerceptsInOrder /\ AtMostOneBoost /\ RunningMeansLoop)
<1>1. LoopBase => LoopTypeOK /\ PerceptsInOrder /\ AtMostOneBoost /\ RunningMeansLoop
  BY DEF LoopBase
<1>2. LoopInit => LoopBase
  BY LoopStarts
<1>3. LoopBase /\ [LoopNext]_loopVars => LoopBase'
  BY LoopStep
<1> QED BY <1>1, <1>2, <1>3, PTL DEF LoopSpec

\* When no action enqueues while it runs, every task's action is called once, and the
\* tasks it was called for are those that end up completed or failed (executeNext
\* marks the queue's front, which an action that enqueues may have changed)
THEOREM LoopStaysSound == ~ReentrantCalls => (LoopSpec => []LoopIsSound)
<1>1. LoopInv => LoopIsSound
  <2>1. SUFFICES ASSUME LoopInv PROVE EndedMeansCalled
    BY DEF LoopInv, LoopBase, LoopIsSound
  <2>2. CallsCounted /\ LoopTypeOK /\ TasksKnown
    BY <2>1 DEF LoopInv, LoopBase
  <2>3. ASSUME NEW t \in Tasks
        PROVE  calls[t] = IF status[t] \in {"completed", "failed"} \/ InAction(t) THEN 1 ELSE 0
    <3>1. None \notin {"pending", "completed", "failed"}
      BY LoopAssumption
    <3>2. CASE Pending(t)
      <4>1. calls[t] = (IF phase = "action" /\ t = Head(queue) THEN 1 ELSE 0)
        BY <2>2, <3>2 DEF CallsCounted
      <4> QED BY <3>2, <4>1 DEF InAction, Pending
    <3>3. CASE ~Pending(t)
      <4>1. calls[t] = (IF status[t] = None THEN 0 ELSE 1)
        BY <2>2, <3>3 DEF CallsCounted
      <4>2. status[t] \in {None, "pending", "completed", "failed"}
        BY <2>2 DEF LoopTypeOK
      <4> QED BY <3>1, <3>3, <4>1, <4>2 DEF InAction, Pending
    <3> QED BY <3>2, <3>3
  <2> QED BY <2>3 DEF EndedMeansCalled
<1>2. LoopInit => LoopInv
  BY LoopStarts DEF LoopInv
<1>3. ASSUME ~ReentrantCalls PROVE LoopInv /\ [LoopNext]_loopVars => LoopInv'
  BY <1>3, LoopStep DEF LoopInv
<1>4. SUFFICES ASSUME ~ReentrantCalls PROVE LoopSpec => []LoopIsSound
  OBVIOUS
<1> QED BY <1>1, <1>2, <1>3, <1>4, PTL DEF LoopSpec

\* No task's action is called while a pending task of a higher priority is queued,
\* whatever was enqueued or promoted since the queue was last sorted
THEOREM HighestGoesFirst == LoopSpec => HighestPriorityFirst
<1> DEFINE First == \A t \in Tasks : calls'[t] > calls[t] =>
                      \A u \in ToSet(queue) : Pending(u) => priority[t] <= priority[u]
<1>1. LoopBase /\ [LoopNext]_loopVars => [First]_loopVars
  <2>1. SUFFICES ASSUME LoopBase, LoopNext PROVE First
    OBVIOUS
  <2>2. CASE StartTask
    BY <2>1, <2>2, StartKeeps
  <2>3. CASE ~StartTask
    <3>1. UNCHANGED calls
      BY <2>1, <2>3 DEF LoopNext, PerceptStep, TaskStep, CycleStep, OwnerStep, AddPercept, CreateTask, Enqueue,
         AttachToGoal, SetGoal, AchieveGoal, SwapPercepts, Perceive, PhasePlanning, EndCycle, FinishTask,
         CheckRunning, CheckLimit, StopItself, Start, Spawn, Stop, Join, RunSingleCycle
    <3>2. calls \in [Tasks -> Nat]
      BY <2>1 DEF LoopBase, LoopTypeOK
    <3> QED BY <3>1, <3>2
  <2> QED BY <2>2, <2>3
<1>2. LoopInit => LoopBase
  BY LoopStarts
<1>3. LoopBase /\ [LoopNext]_loopVars => LoopBase'
  BY LoopStep
<1> QED BY <1>1, <1>2, <1>3, PTL DEF LoopSpec, HighestPriorityFirst
=============================================================================
