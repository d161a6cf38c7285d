--------------------------- MODULE RaftProperties ---------------------------
(***************************************************************************)
(* What RaftNode promises: the safety and liveness of the Raft protocol    *)
(* stated over the state of src/src/RaftConsensus.cpp.                     *)
(***************************************************************************)
EXTENDS Raft, TLC

CONSTANTS
  MaxActive,   \* bound of the runs: how many nodes are inside a round at once
  Impatient    \* of the liveness runs: the members whose election timer may fire

Calling == {"votecall", "votereply", "appendlookup", "appendcall",
            "appendreply"}

NodeTypes ==
  /\ currentTerm \in [Nodes -> Nat]
  /\ votedFor    \in [Nodes -> Nodes \cup {None}]
  /\ stored      \in [Nodes -> [term : Nat, vote : Nodes \cup {None}]]
  /\ role        \in [Nodes -> Roles]
  /\ leaderId    \in [Nodes -> Nodes \cup {None}]
ReplicaTypes ==
  /\ log         \in [Nodes -> Seq(Entries)]
  /\ commitIndex \in [Nodes -> Nat]
IndexTypes ==
  /\ nextIndex   \in [Nodes -> [Nodes -> Nat \ {0}]]
  /\ matchIndex  \in [Nodes -> [Nodes -> Nat]]
NetworkTypes ==
  /\ bus         \in [Nodes -> {"absent", "votes", "both"}]
  /\ isolated    \in [Nodes -> BOOLEAN]
RoundTypes ==
  /\ pc          \in [Nodes -> {"idle", "candidate", "election", "heartbeat"}
                               \cup Calling]
  /\ todo        \in [Nodes -> SUBSET Nodes]
  /\ target      \in [Nodes -> Nodes \cup {None}]
  /\ granted     \in [Nodes -> SUBSET Nodes]
  /\ \A n \in Nodes : /\ todo[n] \subseteq Peers(n)
                      /\ pc[n] \in Calling => target[n] \in Peers(n)
CallTypes ==
  /\ rpc         \in [Nodes -> Request]
  /\ reply       \in [Nodes -> Reply]

\* Every variable keeps its type: terms, votes and roles of the nodes, logs
\* and the locals of the thread's current round, which only ever calls peers.
TypeOK == /\ NodeTypes /\ ReplicaTypes /\ IndexTypes /\ NetworkTypes
          /\ RoundTypes /\ CallTypes

\* No two nodes are leader of the same term, however votes, heartbeats,
\* partitions, restarts and reloads interleave (_runElection, _becomeLeader).
ElectionSafety ==
  \A n, m \in Nodes :
    role[n] = "LEADER" /\ role[m] = "LEADER" /\ currentTerm[n] = currentTerm[m]
      => n = m

\* Nodes of one term that know a leader know the same one: leaderId is what a
\* client asks any node to find where to submit.
LeaderAgreement ==
  \A n, m \in Nodes :
    /\ currentTerm[n] = currentTerm[m]
    /\ leaderId[n] # None /\ leaderId[m] # None
    => leaderId[n] = leaderId[m]

\* A node votes once per term and its term never goes back, across stop, start
\* and a reload from the log store: whatever is promised is persisted first.
VoteOncePerTerm ==
  [][\A n \in Nodes :
       /\ currentTerm'[n] >= currentTerm[n]
       /\ votedFor[n] # None /\ votedFor'[n] # votedFor[n]
            => currentTerm'[n] > currentTerm[n]]_vars

-----------------------------------------------------------------------------
(***************************************************************************)
(* Why there is one leader per term.  Everyone in the support of a         *)
(* standing candidate is pledged to it: no vote of that term is left for a *)
(* rival.                                                                  *)
(***************************************************************************)
Standing(n) == /\ role[n] = "CANDIDATE"
               /\ pc[n] \in {"election", "votecall", "votereply"}
Support(n)  == granted[n] \cup (IF pc[n] = "votereply" /\ reply[n].ok
                                THEN {target[n]} ELSE {})
Pledged(v, n) == \/ currentTerm[v] > currentTerm[n]
                 \/ currentTerm[v] = currentTerm[n] /\ votedFor[v] = n
Rivals(n, m)  == n # m /\ currentTerm[n] = currentTerm[m]
Quorums == {Q \in SUBSET Nodes : Cardinality(Q) >= ElectionMajority}

\* The store never lags behind the node, so a reload forgets no vote
StoreIsCurrent ==
  \A n \in Nodes : stored[n] = [term |-> currentTerm[n], vote |-> votedFor[n]]
OwnVote ==
  \A n \in Nodes : role[n] # "FOLLOWER" => votedFor[n] = n
SupportIsPledged ==
  \A n \in Nodes : Standing(n) =>
    /\ rpc[n].term = currentTerm[n]
    /\ \A v \in Support(n) : Pledged(v, n)
SupportIsExclusive ==
  \A n, m \in Nodes : Standing(n) /\ Standing(m) /\ Rivals(n, m)
    => Support(n) \cap Support(m) = {}
LeaderHasQuorum ==
  \A n \in Nodes : role[n] = "LEADER" =>
    \E Q \in Quorums : \A v \in Q :
      /\ Pledged(v, n)
      /\ \A m \in Nodes : Standing(m) /\ Rivals(n, m) => v \notin Support(m)

\* The inductive strengthening of ElectionSafety: a vote counted for one
\* candidate of a term, or on its way to be, is counted for no other.
ElectionInv == /\ StoreIsCurrent /\ OwnVote
               /\ SupportIsPledged /\ SupportIsExclusive
               /\ LeaderHasQuorum /\ ElectionSafety
-----------------------------------------------------------------------------
\* Two logs that hold an entry of the same term at the same index are equal up
\* to that index (the prevLog check and truncation in handleAppendEntries).
LogMatching ==
  \A n, m \in Nodes : \A i \in DOMAIN log[n] \cap DOMAIN log[m] :
    log[n][i].term = log[m][i].term
      => SubSeq(log[n], 1, i) = SubSeq(log[m], 1, i)

Committed(n) == SubSeq(log[n], 1, commitIndex[n])

\* Whatever a node of an earlier or equal term has committed is in the log of
\* every leader (the up-to-date check of handleRequestVote together with the
\* current-term rule of _advanceCommitIndex).
LeaderCompleteness ==
  \A n, m \in Nodes :
    role[m] = "LEADER" /\ currentTerm[m] >= currentTerm[n]
      => /\ commitIndex[n] <= Len(log[m])
         /\ Committed(n) = SubSeq(log[m], 1, commitIndex[n])

\* The committedLog() of two nodes never disagree on an index.
StateMachineSafety ==
  \A n, m \in Nodes :
    LET shared == Lower(commitIndex[n], commitIndex[m])
    IN SubSeq(log[n], 1, shared) = SubSeq(log[m], 1, shared)

\* No step changes or drops an entry a node has committed: truncation in
\* handleAppendEntries never reaches below commitIndex, which only a reload
\* moves back.
CommittedIsStable ==
  [][\A n \in Nodes :
       /\ SubSeq(log'[n], 1, commitIndex[n]) = Committed(n)
       /\ commitIndex'[n] < commitIndex[n] => commitIndex'[n] = 0]_vars
-----------------------------------------------------------------------------
(***************************************************************************)
(* Liveness.  Under the bound a leader of term MaxTerm is never deposed by *)
(* an election, so it stands for a leader that stays one.  Only members    *)
(* outside Faulty are promised anything; the run has no others.            *)
(***************************************************************************)
Reliable == Nodes \ Faulty
StableLeader(n) == role[n] = "LEADER" /\ currentTerm[n] = MaxTerm

\* A command a stable leader has accepted is eventually committed at every
\* member: rejected heartbeats walk nextIndex back until the logs meet, and the
\* commit index follows in a later heartbeat.
AcceptedIsCommitted ==
  \A n \in Reliable : \A i \in 1..MaxLog :
    (/\ StableLeader(n)
     /\ i <= Len(log[n]) /\ log[n][i].term = MaxTerm)
      ~> \A p \in Reliable : commitIndex[p] >= i

\* A stable leader ends up known to all: deposed leaders and losing candidates
\* fall back to follower and no reply still in flight disturbs that.
StableLeaderIsFollowed ==
  \A n \in Reliable :
    StableLeader(n) ~> []\A p \in Reliable \ {n} :
                            role[p] = "FOLLOWER" /\ leaderId[p] = n
-----------------------------------------------------------------------------
(* What the runs take states to be the same up to, and the states they look at *)

\* Faulty and reliable members are not interchangeable
Symmetry == {s \in Permutations(Nodes) :
               \A n \in Nodes : n \in Faulty <=> s[n] \in Faulty}

FewRounds == Cardinality({n \in Nodes : pc[n] # "idle"}) <= MaxActive

\* For liveness: elections start while no other thread is inside a round and at some
\* members only, which restricts nothing but when timers fire
QuietNext ==
  \/ \E n \in Impatient : /\ BecomeCandidate(n)
                          /\ \A m \in Nodes : pc[m] = "idle"
  \/ \E n \in Nodes : RoundStep(n)
  \/ \E n \in Nodes, c \in Commands : SubmitCommand(n, c)
  \/ \E n \in Faulty : OwnerStep(n)
QuietSpec == Init /\ [][QuietNext]_vars /\ ThreadFairness
=============================================================================
