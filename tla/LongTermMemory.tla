--------------------------- MODULE LongTermMemory ---------------------------
(***************************************************************************)
(* LongTermMemory (src/agentzero-memory/src/LongTermMemory.cpp): records   *)
(* in memory with four indexes kept by hand, a set of those to be written, *)
(* a storage that may not be there, and a worker that consolidates.        *)
(*                                                                         *)
(* Every operation is one critical section of _memory_mutex.  Access       *)
(* counts are told apart where the code does (2 and 10), ages by steps of  *)
(* the clock: one is more than an hour, two more than a day.  The          *)
(* attention bank is not built in, and a storage that is there does not    *)
(* fail; statistics, the access cache and the backup's file are left out.  *)
(***************************************************************************)
EXTENDS Integers, FiniteSets, StdContainers

CONSTANTS
  Handles,
  Nodes,       \* those of Handles that are nodes and have a name
  RecordKinds, \* ContextType
  MaxAge,      \* bound: steps of the clock
  MaxKeywords  \* bound: entries of one name in _keyword_index

ASSUME LongAssumption == Nodes \subseteq Handles /\ MaxAge \in Nat /\ MaxKeywords \in Nat

Low == 25     \* MemoryImportance::LOW, and MINIMAL
Moderate == 50
High == 75    \* HIGH, and CRITICAL
Levels == {Low, Moderate, High}

VARIABLES
  memoryRecords,     \* _memory_records
  importances,       \* _importance_index
  createdAt,         \* _temporal_index
  contextIndex,      \* _context_index
  keywordIndex,      \* _keyword_index: entries per node
  persistentHandles, \* _persistent_handles
  dirtyHandles,      \* _dirty_handles
  storage,           \* atoms in _persistent_storage
  hasStorage,        \* HAVE_ATOMSPACE_ROCKS
  working,           \* between initialize and shutdown
  hours,             \* the clock
  known,             \* what happened: stored or loaded since last removed
  letGo,             \* what happened: taken out of memory before they were written
  archived           \* what happened: dropped by consolidation though of importance

indexes == <<importances, createdAt, contextIndex, keywordIndex>>
disk == <<persistentHandles, dirtyHandles, storage>>
ghosts == <<known, letGo, archived>>
longVars == <<memoryRecords, indexes, disk, hasStorage, working, hours, ghosts>>

WithoutHandle(index, h) == {e \in index : e[2] # h}
-----------------------------------------------------------------------------
\* addToIndices; it takes nothing out
AddToIndices(h, r) ==
  /\ importances' = importances \cup {<<r.importance, h>>}
  /\ createdAt' = createdAt \cup {<<r.created, h>>}
  /\ contextIndex' = contextIndex \cup (r.contexts \X {h})
  /\ h \in Nodes => keywordIndex[h] < MaxKeywords
  /\ keywordIndex' = [n \in Nodes |-> IF n = h THEN keywordIndex[n] + 1 ELSE keywordIndex[n]]

\* Of several entries under a name only the first goes
WithoutName(h) == [n \in Nodes |-> IF n = h /\ keywordIndex[n] > 0 THEN keywordIndex[n] - 1 ELSE keywordIndex[n]]

MutantKeepTime(h) ==
  /\ importances' = WithoutHandle(importances, h) /\ createdAt' = createdAt
  /\ contextIndex' = WithoutHandle(contextIndex, h) /\ keywordIndex' = WithoutName(h)
\* removeFromIndices
RemoveFromIndices(h) ==
  /\ importances' = WithoutHandle(importances, h) /\ createdAt' = WithoutHandle(createdAt, h)
  /\ contextIndex' = WithoutHandle(contextIndex, h) /\ keywordIndex' = WithoutName(h)

\* persistHandle of each of H
Persisted(H) == IF hasStorage THEN storage \cup H ELSE storage

Record(importance, contexts, created, accesses) ==
  [importance |-> importance, contexts |-> contexts, created |-> created, accesses |-> accesses]

NewRecord(importance, contexts) == Record(importance, contexts, hours, "few")

\* store; durable: a level of at least MEDIUM_TERM
Store(h, importance, contexts, durable) ==
  LET r == IF h \in DOMAIN memoryRecords
           THEN Record(importance, contexts, memoryRecords[h].created, memoryRecords[h].accesses)
           ELSE NewRecord(importance, contexts)
  IN /\ memoryRecords' = With(memoryRecords, h, r)
     /\ AddToIndices(h, r)
     /\ IF durable THEN /\ dirtyHandles' = dirtyHandles \cup {h}
                        /\ persistentHandles' = persistentHandles \cup {h}
                   ELSE UNCHANGED <<dirtyHandles, persistentHandles>>
     /\ known' = known \cup {h} /\ archived' = archived \ {h}
     /\ letGo' = IF durable THEN letGo \ {h} ELSE letGo
     /\ UNCHANGED <<storage, hasStorage, working, hours>>

\* retrieve of a record
Access(h) ==
  /\ h \in DOMAIN memoryRecords
  /\ LET r == memoryRecords[h]
     IN \E n \in IF r.accesses = "few" THEN {"few", "some"} ELSE {"some", "many"} :
          /\ r.accesses = "many" => n = "many"
          /\ memoryRecords' = With(memoryRecords, h, Record(r.importance, r.contexts, r.created, n))
  /\ UNCHANGED <<indexes, disk, hasStorage, working, hours, ghosts>>

\* retrieve of an atom that has none (loadHandle): it comes back as one of MEDIUM importance
LoadHandle(h) ==
  /\ h \notin DOMAIN memoryRecords /\ h \in storage
  /\ memoryRecords' = With(memoryRecords, h, NewRecord(Moderate, {}))
  /\ AddToIndices(h, NewRecord(Moderate, {}))
  /\ known' = known \cup {h} /\ archived' = archived \ {h}
  /\ UNCHANGED <<disk, hasStorage, working, hours, letGo>>

\* remove
RemoveMemory(h, fromPersistence) ==
  /\ memoryRecords' = Without(memoryRecords, {h})
  /\ RemoveFromIndices(h)
  /\ dirtyHandles' = dirtyHandles \ {h}
  /\ IF fromPersistence
     THEN persistentHandles' = persistentHandles \ {h} /\ storage' = storage \ {h}
     ELSE UNCHANGED <<persistentHandles, storage>>
  /\ known' = known \ {h}
  /\ letGo' = IF ~fromPersistence /\ h \in dirtyHandles THEN letGo \cup {h} ELSE letGo
  /\ archived' = IF fromPersistence THEN archived \ {h} ELSE archived
  /\ UNCHANGED <<hasStorage, working, hours>>

MutantInsertFirst(h, old, new) == (importances \cup {<<new, h>>}) \ {<<old, h>>}
\* Out under the old importance, in under the new one, which may be the same
Relisted(h, old, new) == (importances \ {<<old, h>>}) \cup {<<new, h>>}

\* updateImportance
UpdateRecordImportance(h, importance) ==
  /\ h \in DOMAIN memoryRecords
  /\ LET r == memoryRecords[h]
     IN /\ importances' = Relisted(h, r.importance, importance)
        /\ memoryRecords' = With(memoryRecords, h, Record(importance, r.contexts, r.created, r.accesses))
  /\ UNCHANGED <<createdAt, contextIndex, keywordIndex, disk, hasStorage, working, hours, ghosts>>
-----------------------------------------------------------------------------
Age(h) == hours - memoryRecords[h].created

\* identifyConsolidationCandidates
Candidates ==
  {h \in DOMAIN memoryRecords :
     \/ Age(h) >= 2 /\ memoryRecords[h].importance <= Low
     \/ memoryRecords[h].accesses = "few" /\ memoryRecords[h].importance <= Moderate}

\* shouldRetainMemory
Retained(h) ==
  memoryRecords[h].importance >= High \/ memoryRecords[h].accesses = "many" \/ Age(h) = 0

MutantAboveMedium(H) == {h \in H : Retained(h) \/ memoryRecords[h].importance > Moderate}
\* Of the candidates, those that are written before they may go
WrittenFirst(H) == {h \in H : Retained(h) \/ memoryRecords[h].importance >= Moderate}

\* performMemoryConsolidation: the record goes, what the indexes say of it stays
Consolidate ==
  /\ LET gone == {h \in Candidates : ~Retained(h)}
     IN /\ storage' = Persisted(WrittenFirst(Candidates))
        /\ memoryRecords' = Without(memoryRecords, gone)
        /\ archived' = archived \cup {h \in gone : memoryRecords[h].importance \in {Moderate, High}}
  /\ UNCHANGED <<indexes, persistentHandles, dirtyHandles, hasStorage, working, hours, known, letGo>>

MutantClearOnly ==
  /\ dirtyHandles' = {}
  /\ UNCHANGED <<storage, persistentHandles>>
\* flushDirtyHandles, alone, for a backup or from shutdown
Flush ==
  /\ storage' = Persisted(dirtyHandles)
  /\ dirtyHandles' = {}
  /\ UNCHANGED persistentHandles

FlushToPersistence ==
  /\ Flush
  /\ UNCHANGED <<memoryRecords, indexes, hasStorage, working, hours, ghosts>>

\* shutdown: the workers are joined, the rest is written, the storage is closed
ShutMemory ==
  /\ Flush
  /\ working' = FALSE
  /\ UNCHANGED <<memoryRecords, indexes, hasStorage, hours, ghosts>>

\* initialize, after shutdown or in a new process; the storage is what it was
Restart ==
  /\ memoryRecords' = NoKeys /\ importances' = {} /\ createdAt' = {} /\ contextIndex' = {}
  /\ keywordIndex' = [n \in Nodes |-> 0] /\ persistentHandles' = {} /\ dirtyHandles' = {}
  /\ working' = TRUE /\ known' = {} /\ letGo' = {}
  /\ UNCHANGED <<storage, hasStorage, hours, archived>>

HoursPass ==
  /\ hours < MaxAge
  /\ hours' = hours + 1
  /\ UNCHANGED <<memoryRecords, indexes, disk, hasStorage, working, ghosts>>

LongInit ==
  /\ memoryRecords = NoKeys /\ importances = {} /\ createdAt = {} /\ contextIndex = {}
  /\ keywordIndex = [n \in Nodes |-> 0] /\ persistentHandles = {} /\ dirtyHandles = {}
  /\ storage = {} /\ hasStorage \in BOOLEAN /\ working = TRUE /\ hours = 0
  /\ known = {} /\ letGo = {} /\ archived = {}

RecordStep ==
  \E h \in Handles :
    \/ Access(h) \/ LoadHandle(h)
    \/ \E durable \in BOOLEAN : RemoveMemory(h, durable)
    \/ \E i \in Levels :
         \/ UpdateRecordImportance(h, i)
         \/ \E contexts \in SUBSET RecordKinds, durable \in BOOLEAN : Store(h, i, contexts, durable)

\* Nothing is called between shutdown and the next initialize
LongNext ==
  \/ working /\ (RecordStep \/ Consolidate \/ FlushToPersistence \/ ShutMemory)
  \/ Restart \/ HoursPass

LongSpec == LongInit /\ [][LongNext]_longVars
-----------------------------------------------------------------------------
\* Every record is found by importance, time, contexts and name, though store, load and
\* consolidation leave old entries behind; and what remove took out is found by none but
\* its name until it is stored or loaded again.
RecordsAreFound ==
  /\ \A h \in DOMAIN memoryRecords :
       LET r == memoryRecords[h]
       IN /\ <<r.importance, h>> \in importances /\ <<r.created, h>> \in createdAt
          /\ \A c \in r.contexts : <<c, h>> \in contextIndex
          /\ h \in Nodes => keywordIndex[h] > 0
  /\ \A e \in importances \cup createdAt \cup contextIndex : e[2] \in known

\* Where there is a storage, what contains() goes on to answer for is written or about to
\* be, "Remove from active memory but keep in persistence if important"
\* (LongTermMemory.cpp:444) holds of all that consolidation drops, and shutdown leaves
\* nothing unwritten: through flushes, restarts, removals and new stores of the same atom.
NothingIsLost ==
  hasStorage =>
    /\ archived \subseteq storage
    /\ \A h \in persistentHandles \ letGo : h \in storage \/ (working /\ h \in dirtyHandles)

\* Both: memories stay found and stay written.
MemoriesAreKept == RecordsAreFound /\ NothingIsLost
=============================================================================
