--------------------------- MODULE ExperienceManager ---------------------------
(***************************************************************************)
(* ExperienceManager (src/src/ExperienceManager.cpp): a vector of          *)
(* experiences with indexes of positions by id, by type and by context.    *)
(* There is no lock; one caller uses it.                                   *)
(*                                                                         *)
(* An experience's id is the atom named by its type and the millisecond in *)
(* which it was recorded: two of one millisecond share it, and the index   *)
(* by id then holds the later one.  Tasks, outcomes and similarity change  *)
(* nothing and are left out; the queries read the indexes.                 *)
(***************************************************************************)
EXTENDS Naturals, SequencesExt, StdContainers

CONSTANTS
  ExperienceTypes,
  ExperienceContexts,   \* NoContext among them, Handle::UNDEFINED
  NoContext,
  Weights,              \* importances
  ExperienceLimits,     \* values of _max_experiences
  ImportanceThreshold,  \* _importance_threshold
  RetentionPeriod,      \* _retention_period
  MaxExperienceTime     \* bound: the clock

ASSUME ExperienceAssumption ==
  /\ NoContext \in ExperienceContexts
  /\ Weights \subseteq Nat /\ ExperienceLimits \subseteq Nat /\ RetentionPeriod \in Nat

VARIABLES
  experiences,      \* _experiences: a sequence of [type, context, at, importance]
  experienceIndex,  \* _experience_index: id -> position
  ofType,           \* _type_index: type -> sequence of positions
  inContext,        \* _context_index: context -> sequence of positions
  maxExperiences,   \* _max_experiences
  experienceTime    \* the time, in milliseconds

experienceVars == <<experiences, experienceIndex, ofType, inContext, maxExperiences, experienceTime>>

Id(x) == <<x.type, x.at>>
Positions(all, Test(_)) == Ascending({i \in DOMAIN all : Test(all[i])})
-----------------------------------------------------------------------------
MutantAppendOnly(all) ==
  /\ experienceIndex' = experienceIndex /\ ofType' = ofType /\ inContext' = inContext
\* indexExperience for each from first to last, with nothing indexed before
Reindex(all) ==
  /\ experienceIndex' = [id \in {Id(x) : x \in ToSet(all)} |-> Max({i \in DOMAIN all : Id(all[i]) = id})]
  /\ ofType' = [t \in {x.type : x \in ToSet(all)} |-> Positions(all, LAMBDA x : x.type = t)]
  /\ inContext' = [c \in {x.context : x \in ToSet(all)} \ {NoContext} |-> Positions(all, LAMBDA x : x.context = c)]

\* indexExperience for one more
Index(x, i) ==
  LET Filed(f, k) == With(f, k, IF k \in DOMAIN f THEN Append(f[k], i) ELSE <<i>>)
  IN /\ experienceIndex' = With(experienceIndex, Id(x), i)
     /\ ofType' = Filed(ofType, x.type)
     /\ inContext' = IF x.context = NoContext THEN inContext ELSE Filed(inContext, x.context)

\* What consolidateMemory keeps of all, in their order: what is important and young, and of
\* that the most important, the later of equal ones
RetainedExperiences(all) ==
  LET Good(x) == x.importance >= ImportanceThreshold /\ experienceTime - x.at <= RetentionPeriod
      good == {i \in DOMAIN all : Good(all[i])}
      Before(i, j) == all[i].importance < all[j].importance \/ (all[i].importance = all[j].importance /\ i < j)
      kept == {i \in good : Cardinality({j \in good : Before(i, j)}) < maxExperiences}
  IN ElementsAt(all, kept)

\* A full memory is consolidated at once
RecordExperience(t, c, w) ==
  LET x == [type |-> t, context |-> c, at |-> experienceTime, importance |-> w]
      all == Append(experiences, x)
  IN /\ IF Len(all) > maxExperiences THEN experiences' = RetainedExperiences(all) /\ Reindex(experiences')
        ELSE experiences' = all /\ Index(x, Len(all))
     /\ UNCHANGED <<maxExperiences, experienceTime>>

ConsolidateMemory ==
  /\ experiences' = RetainedExperiences(experiences) /\ Reindex(experiences')
  /\ UNCHANGED <<maxExperiences, experienceTime>>

\* Of the experiences that share the id, the one the index holds
UpdateExperienceImportance(id, w) ==
  /\ id \in DOMAIN experienceIndex
  /\ experiences' = [experiences EXCEPT ![experienceIndex[id]].importance = w]
  /\ UNCHANGED <<experienceIndex, ofType, inContext, maxExperiences, experienceTime>>

ClearAllExperiences ==
  /\ experiences' = <<>> /\ Reindex(<<>>)
  /\ UNCHANGED <<maxExperiences, experienceTime>>

\* Nothing is dropped before the next consolidation
SetMaxExperiences(n) ==
  /\ maxExperiences' = n
  /\ UNCHANGED <<experiences, experienceIndex, ofType, inContext, experienceTime>>

TimePasses ==
  /\ experienceTime < MaxExperienceTime /\ experienceTime' = experienceTime + 1
  /\ UNCHANGED <<experiences, experienceIndex, ofType, inContext, maxExperiences>>

ExperienceInit ==
  /\ experiences = <<>> /\ experienceIndex = <<>> /\ ofType = <<>> /\ inContext = <<>>
  /\ maxExperiences \in ExperienceLimits /\ experienceTime = 0

ExperienceNext ==
  \/ \E t \in ExperienceTypes, c \in ExperienceContexts, w \in Weights : RecordExperience(t, c, w)
  \/ ConsolidateMemory \/ ClearAllExperiences \/ TimePasses
  \/ \E id \in DOMAIN experienceIndex, w \in Weights : UpdateExperienceImportance(id, w)
  \/ \E n \in ExperienceLimits : SetMaxExperiences(n)

ExperienceSpec == ExperienceInit /\ [][ExperienceNext]_experienceVars
-----------------------------------------------------------------------------
\* Positions move whenever something is dropped, and still every position in an index is
\* that of an experience it says, each experience is found by its type, by its context and,
\* unless a later one has its id, by its id.
ExperiencesAgree ==
  LET Says(i, Test(_)) == i \in DOMAIN experiences /\ Test(experiences[i])
  IN /\ \A id \in DOMAIN experienceIndex : Says(experienceIndex[id], LAMBDA x : Id(x) = id)
     /\ \A i \in DOMAIN experiences :
          LET x == experiences[i]
          IN /\ Id(x) \in DOMAIN experienceIndex /\ experienceIndex[Id(x)] >= i
             /\ x.type \in DOMAIN ofType /\ i \in ToSet(ofType[x.type])
             /\ x.context # NoContext => x.context \in DOMAIN inContext /\ i \in ToSet(inContext[x.context])
     /\ \A t \in DOMAIN ofType : \A i \in ToSet(ofType[t]) : Says(i, LAMBDA x : x.type = t)
     /\ \A c \in DOMAIN inContext : \A i \in ToSet(inContext[c]) : Says(i, LAMBDA x : x.context = c)
     /\ \A f \in {ofType, inContext} : \A k \in DOMAIN f : IsInjective(f[k])
=============================================================================
