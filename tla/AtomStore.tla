----------------------------- MODULE AtomStore -----------------------------
(***************************************************************************)
(* AtomStore (src/src/AtomStore.cpp): the graph every other part of the    *)
(* agent writes to, its four indexes and its snapshot file.                *)
(*                                                                         *)
(* Each operation holds _mutex from start to end, so it is a function from *)
(* the store to the store.  The keys of _byId, _nodeIndex, _linkIndex and  *)
(* _typeIndex are computed from the atom stored under them, so a map is    *)
(* modelled as the set of atoms it holds; _incoming, from an atom id to    *)
(* the ids of the links over it, is a set of pairs.                        *)
(*                                                                         *)
(* A Handle is a pointer.  Two objects can share an id once clear() or     *)
(* loadFromFile() has restarted the ids, so an atom also carries the epoch *)
(* (how many times that happened before it was created): epoch and id      *)
(* together identify the object.                                           *)
(***************************************************************************)
EXTENDS Naturals, Sequences, FiniteSets

CONSTANTS
  Labels,      \* (type, name) of the nodes
  LinkTypes,   \* types of the links
  MaxId        \* bound: no atom is created with a larger id

ASSUME StoreAssumption == MaxId \in Nat

VARIABLES
  store,       \* the AtomStore object
  file         \* the snapshot last written by saveToFile
-----------------------------------------------------------------------------
Ids   == Nat \ {0}
Atoms == [epoch : Nat, id : Ids, label : Labels \cup LinkTypes, out : Seq(Ids)]
Stores == [epoch : Nat, nextId : Ids, byId : SUBSET Atoms, nodeIndex : SUBSET Atoms,
           linkIndex : SUBSET Atoms, typeIndex : SUBSET Atoms,
           incoming : SUBSET (Ids \X Ids)]
Files == [nextId : Nat, atoms : SUBSET Atoms]
NoFile == [nextId |-> 0, atoms |-> {}]    \* before the first saveToFile

IsNode(a) == a.out = <<>>
IsLink(a) == a.out # <<>>
Key(a)    == <<a.label, a.out>>           \* nodeKey, linkKey: type and name, or type and ids
OutIds(a) == {a.out[i] : i \in DOMAIN a.out}
Nodes(S)  == {a \in S : IsNode(a)}
Links(S)  == {a \in S : IsLink(a)}

MutantIdsFromZero(e) ==
  [epoch |-> e, nextId |-> 0, byId |-> {}, nodeIndex |-> {}, linkIndex |-> {},
   typeIndex |-> {}, incoming |-> {}]

Empty(e) == [epoch |-> e, nextId |-> 1, byId |-> {}, nodeIndex |-> {}, linkIndex |-> {},
             typeIndex |-> {}, incoming |-> {}]

\* The node with this label, and the link with this type over these ids
NodeAt(s, l)      == CHOOSE a \in s.nodeIndex : a.label = l
LinkAt(s, t, ids) == CHOOSE a \in s.linkIndex : Key(a) = <<t, ids>>
HasNode(s, l)      == \E a \in s.nodeIndex : a.label = l
HasLink(s, t, ids) == \E a \in s.linkIndex : Key(a) = <<t, ids>>

Incoming(a) == {<<i, a.id>> : i \in OutIds(a)}

\* A new atom takes the next id and enters every map
NewAtom(s, label, out) == [epoch |-> s.epoch, id |-> s.nextId, label |-> label, out |-> out]
Insert(s, a) ==
  [epoch     |-> s.epoch,
   nextId    |-> s.nextId + 1,
   byId      |-> {b \in s.byId : b.id # a.id} \cup {a},
   nodeIndex |-> s.nodeIndex \cup Nodes({a}),
   linkIndex |-> s.linkIndex \cup Links({a}),
   typeIndex |-> s.typeIndex \cup {a},
   incoming  |-> s.incoming \cup Incoming(a)]

\* addNode and addLink create an atom only when the index has none
AddNode(s, l)      == IF HasNode(s, l) THEN s ELSE Insert(s, NewAtom(s, l, <<>>))
AddLink(s, t, ids) == IF HasLink(s, t, ids) THEN s ELSE Insert(s, NewAtom(s, t, ids))

\* Faults a careless edit could introduce; no action uses these operators
MutantKeepIncoming(s, H) ==
  [s EXCEPT !.byId = {b \in @ : \A h \in H : h.id # b.id},
            !.nodeIndex = {b \in @ : \A h \in H : Key(h) # Key(b)},
            !.linkIndex = {b \in @ : \A h \in H : Key(h) # Key(b)},
            !.typeIndex = @ \ H]
MutantKeepLinks(s, H) ==
  [s EXCEPT !.byId = {b \in @ : \A h \in Nodes(H) : h.id # b.id},
            !.nodeIndex = {b \in @ : \A h \in Nodes(H) : Key(h) # Key(b)},
            !.typeIndex = @ \ Nodes(H)]
MutantCascade(s, H) ==
  [s EXCEPT !.byId = {b \in @ : \A h \in H : h.id # b.id /\ h.id \notin OutIds(b)}]

\* remove(h) for every h of H.  _byId is erased by id, the other two maps by
\* key and the type index by object, whatever the handle's own epoch
RemoveAll(s, H) ==
  [epoch     |-> s.epoch,
   nextId    |-> s.nextId,
   byId      |-> {b \in s.byId : \A h \in H : h.id # b.id},
   nodeIndex |-> {b \in s.nodeIndex : \A h \in H : Key(h) # Key(b)},
   linkIndex |-> {b \in s.linkIndex : \A h \in H : Key(h) # Key(b)},
   typeIndex |-> s.typeIndex \ H,
   incoming  |-> s.incoming \ UNION {Incoming(h) : h \in H}]

\* saveToFile writes every atom of _byId in the order of the ids
Snapshot(s) == [nextId |-> s.nextId, atoms |-> s.byId]

\* A line whose link names an id that no earlier line defines stops the load
Broken(f, a)    == \E i \in OutIds(a) : \A b \in f.atoms : b.id = i => b.id >= a.id
Loads(f)        == \A a \in f.atoms : ~Broken(f, a)
LinesRead(f)    == {a \in f.atoms : \A b \in f.atoms : Broken(f, b) => a.id < b.id}

Reread(s, a) == [epoch |-> s.epoch + 1, id |-> a.id, label |-> a.label, out |-> a.out]

MutantForgetNextId(s, f) ==
  LET new == {Reread(s, a) : a \in LinesRead(f)}
  IN [epoch |-> s.epoch + 1, nextId |-> 1, byId |-> new, nodeIndex |-> Nodes(new),
      linkIndex |-> Links(new), typeIndex |-> new, incoming |-> UNION {Incoming(a) : a \in new}]

\* loadFromFile: the store is cleared and then filled line by line, up to the
\* first broken one.  Of two lines with one key the later one stays indexed
Restore(s, f) ==
  LET new  == {Reread(s, a) : a \in LinesRead(f)}
      last == {a \in new : \A b \in new : Key(b) = Key(a) => b.id <= a.id}
  IN [epoch |-> s.epoch + 1, nextId |-> f.nextId, byId |-> new, nodeIndex |-> Nodes(last),
      linkIndex |-> Links(last), typeIndex |-> new, incoming |-> UNION {Incoming(a) : a \in new}]
-----------------------------------------------------------------------------
(***************************************************************************)
(* The store under arbitrary callers.  They remove only atoms the store    *)
(* has; they may link to any atom created so far, also to one that was     *)
(* removed while they held its handle.                                     *)
(***************************************************************************)
storeVars == <<store, file>>

StoreInit == store = Empty(0) /\ file = NoFile

Room(s) == s.nextId <= MaxId + 1

AddNodeCall == \E l \in Labels : store' = AddNode(store, l) /\ Room(store') /\ UNCHANGED file

\* The callers of addLink pass at least one handle; two is as many as matter
AddLinkCall ==
  \E t \in LinkTypes, n \in 1..2 : \E ids \in [1..n -> 1..(store.nextId - 1)] :
    store' = AddLink(store, t, ids) /\ Room(store') /\ UNCHANGED file

RemoveCall == \E a \in store.byId : store' = RemoveAll(store, {a}) /\ UNCHANGED file

Clear == store' = Empty(store.epoch + 1) /\ UNCHANGED file

SaveToFile == file' = Snapshot(store) /\ UNCHANGED store

LoadFromFile == file # NoFile /\ store' = Restore(store, file) /\ UNCHANGED file

\* A new process: the store is empty, the file is still there
NewStore == store' = Empty(0) /\ UNCHANGED file

StoreNext == AddNodeCall \/ AddLinkCall \/ RemoveCall \/ Clear \/ SaveToFile \/ LoadFromFile \/ NewStore

StoreSpec == StoreInit /\ [][StoreNext]_storeVars
-----------------------------------------------------------------------------
StoreTypeOK == store \in Stores /\ file \in Files

\* One atom per id and per key, and the four maps hold the same atoms: what
\* addNode and addLink retrieve, what getByType lists and what saveToFile
\* writes are the same set
IndexesAgree(s) ==
  /\ \A a, b \in s.byId : a.id = b.id \/ Key(a) = Key(b) => a = b
  /\ s.nodeIndex = Nodes(s.byId)
  /\ s.linkIndex = Links(s.byId)
  /\ s.typeIndex = s.byId

\* getIncoming(h) lists the live links over h, all of them and no other
IncomingExact(s) == s.incoming = UNION {Incoming(a) : a \in s.byId}

\* "lower ids come first" (AtomStore.cpp:229): a link is younger than what it
\* links, and an id is never given out twice
OrderedIds(s) ==
  \A a \in s.byId : a.id < s.nextId /\ \A i \in OutIds(a) : i < a.id

Sound(s) == IndexesAgree(s) /\ IncomingExact(s) /\ OrderedIds(s)

\* The store's maps agree after every sequence of calls, loads of snapshots with
\* dangling links included
StoreIsSound == Sound(store)

\* What the store's invariants say of the lines of the file
FileIsSound ==
  /\ \A a, b \in file.atoms : a.id = b.id \/ Key(a) = Key(b) => a = b
  /\ \A a \in file.atoms : a.id < file.nextId /\ \A i \in OutIds(a) : i < a.id
=============================================================================
