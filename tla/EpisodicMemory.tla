---------------------------- MODULE EpisodicMemory ----------------------------
(***************************************************************************)
(* EpisodicMemory of agentzero-memory                                      *)
(* (src/agentzero-memory/src/EpisodicMemory.cpp): another class than the   *)
(* one AgentMemory models.  A list of episodes, oldest first, with episodeIndex *)
(* by id, by time and by context.  Every operation holds one lock.         *)
(*                                                                         *)
(* An id is the time in nanoseconds with the sequence counter: clearAll    *)
(* starts the counter again, so that ids may repeat when the clock has not *)
(* moved, or was set back.  The clock is read once more for the time the   *)
(* episode is filed under.  Atoms, metadata and importances, which nothing *)
(* here looks at, are left out.                                            *)
(***************************************************************************)
EXTENDS Naturals, SequencesExt, StdContainers

CONSTANTS
  EpisodeContexts,  \* "" is none
  EpisodeLimits,    \* values of _max_episodes, 0 is no limit
  Instants,         \* readings of the clock
  MaxEpisodes, MaxSequence   \* bounds: episodes without a limit, the counter

ASSUME EpisodeAssumption == EpisodeLimits \subseteq Nat /\ Instants \subseteq Nat

VARIABLES
  episodes,      \* _episodes: a sequence of [id, at, context]
  episodeIndex,       \* [id: _episode_index, time: _temporal_index, context: _context_index]
  sequence,      \* _sequence_counter
  episodeLimit   \* _max_episodes

episodeVars == <<episodes, episodeIndex, sequence, episodeLimit>>

NoIndexes == [id |-> NoKeys, time |-> EmptyBag, context |-> EmptyBag]
Contextless == ""
ContextEntry(e) == IF e.context = Contextless THEN EmptyBag ELSE SetToBag({<<e.context, e.id>>})
-----------------------------------------------------------------------------
\* addToIndices
Added(ix, e) ==
  [id |-> With(ix.id, e.id, e),
   time |-> ix.time (+) SetToBag({<<e.at, e.id>>}),
   context |-> ix.context (+) ContextEntry(e)]

MutantKeepContext(ix, e) ==
  [id |-> Without(ix.id, {e.id}),
   time |-> ix.time (-) SetToBag({<<e.at, e.id>>}),
   context |-> ix.context]
\* removeFromIndices
Removed(ix, e) ==
  [id |-> Without(ix.id, {e.id}),
   time |-> ix.time (-) SetToBag({<<e.at, e.id>>}),
   context |-> ix.context (-) ContextEntry(e)]

\* storeEpisode, storeEpisodeMulti: one more than the limit drives out the oldest
StoreEpisode(now, at, c) ==
  LET e == [id |-> <<now, sequence>>, at |-> at, context |-> c]
      all == Append(episodes, e)
      ix == Added(episodeIndex, e)
  IN /\ sequence < MaxSequence /\ Len(episodes) < MaxEpisodes
     /\ sequence' = sequence + 1
     /\ IF episodeLimit = 0 \/ Len(all) <= episodeLimit
        THEN episodes' = all /\ episodeIndex' = ix
        ELSE episodes' = Tail(all) /\ episodeIndex' = Removed(ix, ix.id[Head(all).id])
     /\ UNCHANGED episodeLimit

RemoveEpisode(id) ==
  /\ id \in DOMAIN episodeIndex.id
  /\ episodeIndex' = Removed(episodeIndex, episodeIndex.id[id])
  /\ LET k == SelectInSeq(episodes, LAMBDA e : e.id = id)
     IN episodes' = IF k = 0 THEN episodes ELSE RemoveAt(episodes, k)
  /\ UNCHANGED <<sequence, episodeLimit>>

\* clearAll, and shutdown, which leaves the counter
ClearEpisodes(counter) ==
  /\ episodes' = <<>> /\ episodeIndex' = NoIndexes
  /\ sequence' = counter
  /\ UNCHANGED episodeLimit

EpisodeInit ==
  /\ episodes = <<>> /\ episodeIndex = NoIndexes
  /\ sequence = 0 /\ episodeLimit \in EpisodeLimits

EpisodeNext ==
  \/ \E now, at \in Instants, c \in EpisodeContexts : StoreEpisode(now, at, c)
  \/ \E id \in DOMAIN episodeIndex.id : RemoveEpisode(id)
  \/ \E counter \in {0, sequence} : ClearEpisodes(counter)

EpisodeSpec == EpisodeInit /\ [][EpisodeNext]_episodeVars
-----------------------------------------------------------------------------
\* What is found by id, by time and by context are the episodes of the list, each once,
\* although the clock may stand still or go back and episodes leave from either end; the
\* list is in the order of the counter and within its limit, and ids are not used twice.
EpisodesAgree ==
  LET all == ToSet(episodes)
  IN /\ IsInjective([i \in DOMAIN episodes |-> episodes[i].id])
     /\ episodeIndex.id = [id \in {e.id : e \in all} |-> CHOOSE e \in all : e.id = id]
     /\ episodeIndex.time = SetToBag({<<e.at, e.id>> : e \in all})
     /\ episodeIndex.context = SetToBag({<<e.context, e.id>> : e \in {f \in all : f.context # Contextless}})
     /\ \A i, j \in DOMAIN episodes : i < j => episodes[i].id[2] < episodes[j].id[2]
     /\ episodeLimit # 0 => Len(episodes) <= episodeLimit
=============================================================================
