-------------------------------- MODULE Raft --------------------------------
(***************************************************************************)
(* RaftNode and RaftCluster (src/src/RaftConsensus.cpp) over the log store *)
(* of src/src/RaftLogStore.cpp.                                            *)
(*                                                                         *)
(* Each node runs one thread (_runLoop).  The bus is synchronous: the      *)
(* thread that sends an RPC looks the target's handler up under the bus    *)
(* lock, then runs that handler itself under the target's lock _mu, then   *)
(* takes its own _mu to look at the reply.  Every critical section is one  *)
(* action here, so threads interleave exactly between critical sections.   *)
(***************************************************************************)
EXTENDS Naturals, Sequences, FiniteSets

CONSTANTS
  Nodes,       \* RaftNodeConfig::nodeId of every member
  Faulty,      \* the members that are partitioned, stopped or reloaded
  Commands,    \* what clients submit
  None,        \* the empty std::string in _votedFor and _leaderId
  MaxTerm,     \* bound: no election is started beyond this term
  MaxLog       \* bound: no command is submitted once a log is this long

ASSUME NodesAssumption == /\ IsFiniteSet(Nodes)
                          /\ Nodes # {}
                          /\ Faulty \subseteq Nodes
                          /\ None \notin Nodes
ASSUME BoundsAssumption == MaxTerm \in Nat /\ MaxLog \in Nat

VARIABLES
  currentTerm, votedFor, role, leaderId, commitIndex, nextIndex, matchIndex,
  log,         \* the store's entries; the sentinel at index 0 is left out
  stored,      \* the store's (term, votedFor), written by persistState
  bus,         \* which handlers of the node the bus holds
  isolated,    \* RaftCluster::_partitioned
  pc,          \* where the node's thread is
  todo,        \* the peers this election or heartbeat round has yet to call
  target,      \* the peer being called
  rpc,         \* the request the thread is sending
  reply,       \* the reply it got
  granted      \* who granted a vote in this election, the node included

persistent == <<currentTerm, votedFor, stored>>
replicas   == <<log, commitIndex>>
indices    == <<nextIndex, matchIndex>>
network    == <<bus, isolated>>
thread     == <<pc, todo, target, rpc, reply, granted>>
vars == <<persistent, role, leaderId, replicas, indices, network, thread>>
-----------------------------------------------------------------------------
Entries == [term : Nat, command : Commands]
Roles   == {"FOLLOWER", "CANDIDATE", "LEADER"}

Peers(n) == Nodes \ {n}              \* RaftNodeConfig::peers, without the node

\* Faults a careless edit could introduce; no action uses these operators
MutantHalfOfPeers  == (Cardinality(Nodes) - 1) \div 2
MutantHalfOfNodes  == Cardinality(Nodes) \div 2
MutantTermOrMinusOne(l, i) == IF i \in DOMAIN l THEN l[i].term ELSE 0 - 1

ElectionMajority == (Cardinality(Nodes) - 1) \div 2 + 1
CommitMajority   == Cardinality(Nodes) \div 2 + 1

Lower(a, b) == IF a < b THEN a ELSE b

\* get(i).term: the sentinel and every index out of range have term 0
TermAt(l, i) == IF i \in DOMAIN l THEN l[i].term ELSE 0
LastTerm(l)  == TermAt(l, Len(l))

\* RequestVoteRPC (index, logTerm = lastLogIndex, lastLogTerm) and
\* AppendEntriesRPC (index, logTerm = prevLogIndex, prevLogTerm)
Request == [term : Nat, index : Nat, logTerm : Nat,
            entries : Seq(Entries), commit : Nat]
Reply   == [term : Nat, ok : BOOLEAN, match : Nat]
VoteRequest(term, l) == [term |-> term, index |-> Len(l),
                         logTerm |-> LastTerm(l), entries |-> <<>>,
                         commit |-> 0]
Heartbeat(term, commit) == [term |-> term, index |-> 0, logTerm |-> 0,
                            entries |-> <<>>, commit |-> commit]
NoRequest == Heartbeat(0, 0)
NoReply   == [term |-> 0, ok |-> FALSE, match |-> 0]

Init ==
  /\ currentTerm = [n \in Nodes |-> 0]
  /\ votedFor    = [n \in Nodes |-> None]
  /\ stored      = [n \in Nodes |-> [term |-> 0, vote |-> None]]
  /\ role        = [n \in Nodes |-> "FOLLOWER"]
  /\ leaderId    = [n \in Nodes |-> None]
  /\ log         = [n \in Nodes |-> <<>>]
  /\ commitIndex = [n \in Nodes |-> 0]
  /\ nextIndex   = [n \in Nodes |-> [p \in Nodes |-> 1]]
  /\ matchIndex  = [n \in Nodes |-> [p \in Nodes |-> 0]]
  /\ bus         = [n \in Nodes |-> "both"]
  /\ isolated    = [n \in Nodes |-> FALSE]
  /\ pc          = [n \in Nodes |-> "idle"]
  /\ todo        = [n \in Nodes |-> {}]
  /\ target      = [n \in Nodes |-> None]
  /\ rpc         = [n \in Nodes |-> NoRequest]
  /\ reply       = [n \in Nodes |-> NoReply]
  /\ granted     = [n \in Nodes |-> {}]

MutantPersistTermOnly(n, term, vote) ==
  /\ currentTerm' = [currentTerm EXCEPT ![n] = term]
  /\ votedFor'    = [votedFor EXCEPT ![n] = vote]
  /\ stored'      = [stored EXCEPT ![n] = [term |-> term, vote |-> None]]

\* A state change that ends with persistState
SetTermAndVote(n, term, vote) ==
  /\ currentTerm' = [currentTerm EXCEPT ![n] = term]
  /\ votedFor'    = [votedFor EXCEPT ![n] = vote]
  /\ stored'      = [stored EXCEPT ![n] = [term |-> term, vote |-> vote]]

\* The thread leaves its round: the locals of the round are gone
EndRound(n) ==
  /\ pc'      = [pc EXCEPT ![n] = "idle"]
  /\ todo'    = [todo EXCEPT ![n] = {}]
  /\ target'  = [target EXCEPT ![n] = None]
  /\ rpc'     = [rpc EXCEPT ![n] = NoRequest]
  /\ reply'   = [reply EXCEPT ![n] = NoReply]
  /\ granted' = [granted EXCEPT ![n] = {}]

MutantKeepLeaderId(n, term) ==
  /\ SetTermAndVote(n, term, None)
  /\ role'     = [role EXCEPT ![n] = "FOLLOWER"]
  /\ UNCHANGED leaderId
MutantKeepRole(n, term) ==
  /\ SetTermAndVote(n, term, None)
  /\ leaderId' = [leaderId EXCEPT ![n] = None]
  /\ UNCHANGED role

\* _becomeFollower(term), with the default leaderId ""
BecomeFollower(n, term) ==
  /\ SetTermAndVote(n, term, None)
  /\ role'     = [role EXCEPT ![n] = "FOLLOWER"]
  /\ leaderId' = [leaderId EXCEPT ![n] = None]
-----------------------------------------------------------------------------
(***************************************************************************)
(* Elections.  The election deadline is abstracted away: it is random,     *)
(* wall-clock, and read without the lock its writers hold.                 *)
(***************************************************************************)
BecomeCandidate(n) ==
  /\ pc[n] = "idle" /\ bus[n] = "both"
  /\ role[n] # "LEADER"
  /\ currentTerm[n] < MaxTerm
  /\ SetTermAndVote(n, currentTerm[n] + 1, n)
  /\ role'     = [role EXCEPT ![n] = "CANDIDATE"]
  /\ leaderId' = [leaderId EXCEPT ![n] = None]
  /\ pc'       = [pc EXCEPT ![n] = "candidate"]
  /\ UNCHANGED <<replicas, indices, network, todo, target, rpc, reply, granted>>

\* The term and the end of the log are read in a second critical section
SnapshotElection(n) ==
  /\ pc[n] = "candidate"
  /\ pc'  = [pc EXCEPT ![n] = "election"]
  /\ todo' = [todo EXCEPT ![n] = Peers(n)]
  /\ rpc' = [rpc EXCEPT ![n] = VoteRequest(currentTerm[n], log[n])]
  /\ granted' = [granted EXCEPT ![n] = {n}]
  /\ UNCHANGED <<persistent, role, leaderId, replicas, indices, network,
                 target, reply>>

\* RaftCluster::sendVote up to the end of its critical section
LookupVoter(n, p) ==
  /\ pc[n] = "election" /\ p \in todo[n]
  /\ todo' = [todo EXCEPT ![n] = @ \ {p}]
  /\ IF bus[p] # "absent" /\ ~isolated[p]
     THEN /\ pc'     = [pc EXCEPT ![n] = "votecall"]
          /\ target' = [target EXCEPT ![n] = p]
     ELSE UNCHANGED <<pc, target>>
  /\ UNCHANGED <<persistent, role, leaderId, replicas, indices, network,
                 rpc, reply, granted>>

MutantLongerLog(index, term, l) == index >= Len(l)

UpToDate(index, term, l) ==
  \/ term > LastTerm(l)
  \/ term = LastTerm(l) /\ index >= Len(l)

\* handleRequestVote at v = target[n], run by n's thread
HandleRequestVote(n, v) ==
  LET q     == rpc[n]
      newer == q.term > currentTerm[v]
      term  == IF newer THEN q.term ELSE currentTerm[v]
      vote  == IF newer THEN None ELSE votedFor[v]
      grant == /\ q.term = term
               /\ vote \in {None, n}
               /\ UpToDate(q.index, q.logTerm, log[v])
  IN /\ IF newer \/ grant
        THEN SetTermAndVote(v, term, IF grant THEN n ELSE vote)
        ELSE UNCHANGED persistent
     /\ role'     = [role EXCEPT ![v] = IF newer THEN "FOLLOWER" ELSE @]
     /\ leaderId' = [leaderId EXCEPT ![v] = IF newer THEN None ELSE @]
     /\ reply'    = [reply EXCEPT ![n] =
                       [term |-> term, ok |-> grant, match |-> 0]]

CallVoter(n) ==
  /\ pc[n] = "votecall"
  /\ HandleRequestVote(n, target[n])
  /\ pc' = [pc EXCEPT ![n] = "votereply"]
  /\ UNCHANGED <<replicas, indices, network, todo, target, rpc, granted>>

\* The caller's critical section after sendVote returned
ReceiveVote(n) ==
  /\ pc[n] = "votereply"
  /\ \/ /\ reply[n].term > currentTerm[n]
        /\ BecomeFollower(n, reply[n].term)
        /\ EndRound(n)
     \/ /\ reply[n].term <= currentTerm[n]
        /\ role[n] # "CANDIDATE"
        /\ EndRound(n)
        /\ UNCHANGED <<persistent, role, leaderId>>
     \/ /\ reply[n].term <= currentTerm[n]
        /\ role[n] = "CANDIDATE"
        /\ granted' = [granted EXCEPT ![n] =
                         IF reply[n].ok THEN @ \cup {target[n]} ELSE @]
        /\ pc'     = [pc EXCEPT ![n] = "election"]
        /\ target' = [target EXCEPT ![n] = None]
        /\ reply'  = [reply EXCEPT ![n] = NoReply]
        /\ UNCHANGED <<persistent, role, leaderId, todo, rpc>>
  /\ UNCHANGED <<replicas, indices, network>>

\* The last critical section of _runElection, _becomeLeader included
FinishElection(n) ==
  /\ pc[n] = "election" /\ todo[n] = {}
  /\ IF role[n] = "CANDIDATE" /\ Cardinality(granted[n]) >= ElectionMajority
     THEN /\ role'       = [role EXCEPT ![n] = "LEADER"]
          /\ leaderId'   = [leaderId EXCEPT ![n] = n]
          /\ nextIndex'  = [nextIndex EXCEPT ![n] =
                              [p \in Nodes |-> Len(log[n]) + 1]]
          /\ matchIndex' = [matchIndex EXCEPT ![n] = [p \in Nodes |-> 0]]
     ELSE UNCHANGED <<role, leaderId, indices>>
  /\ EndRound(n)
  /\ UNCHANGED <<persistent, replicas, network>>
-----------------------------------------------------------------------------
(***************************************************************************)
(* Heartbeats and replication.                                             *)
(***************************************************************************)
\* _sendHeartbeats: term and commit index are read once for the whole round
StartHeartbeats(n) ==
  /\ pc[n] = "idle" /\ bus[n] = "both"
  /\ role[n] = "LEADER"
  /\ pc'   = [pc EXCEPT ![n] = "heartbeat"]
  /\ todo' = [todo EXCEPT ![n] = Peers(n)]
  /\ rpc'  = [rpc EXCEPT ![n] = Heartbeat(currentTerm[n], commitIndex[n])]
  /\ UNCHANGED <<persistent, role, leaderId, replicas, indices, network,
                 target, reply, granted>>

\* Still leader?  Then take what p lacks, up to the end of the log
BuildAppend(n, p) ==
  /\ pc[n] = "heartbeat" /\ p \in todo[n]
  /\ IF role[n] = "LEADER"
     THEN LET prev == nextIndex[n][p] - 1 IN
          /\ rpc' = [rpc EXCEPT ![n] =
               [term |-> rpc[n].term, index |-> prev,
                logTerm |-> TermAt(log[n], prev),
                entries |-> SubSeq(log[n], prev + 1, Len(log[n])),
                commit |-> rpc[n].commit]]
          /\ pc'     = [pc EXCEPT ![n] = "appendlookup"]
          /\ target' = [target EXCEPT ![n] = p]
          /\ todo'   = [todo EXCEPT ![n] = @ \ {p}]
          /\ UNCHANGED <<reply, granted>>
     ELSE EndRound(n)
  /\ UNCHANGED <<persistent, role, leaderId, replicas, indices, network>>

\* The loop over the peers goes on: the locals of this iteration are gone
NextPeer(n) ==
  /\ pc'     = [pc EXCEPT ![n] = "heartbeat"]
  /\ target' = [target EXCEPT ![n] = None]
  /\ reply'  = [reply EXCEPT ![n] = NoReply]
  /\ rpc'    = [rpc EXCEPT ![n] = Heartbeat(rpc[n].term, rpc[n].commit)]

\* RaftCluster::sendAppend up to the end of its critical section
LookupFollower(n) ==
  /\ pc[n] = "appendlookup"
  /\ IF bus[target[n]] = "both" /\ ~isolated[target[n]]
     THEN /\ pc' = [pc EXCEPT ![n] = "appendcall"]
          /\ UNCHANGED <<target, rpc, reply>>
     ELSE NextPeer(n)
  /\ UNCHANGED <<persistent, role, leaderId, replicas, indices, network,
                 todo, granted>>

MutantNoTruncation(l, prev, entries) ==
  l \o SubSeq(entries, Len(l) - prev + 1, Len(entries))

\* The loop over rpc.entries: entries already there stay, the first missing or
\* conflicting one truncates the log and the rest of the request follows it
Merge(l, prev, entries) ==
  LET differing == {i \in DOMAIN entries :
                      prev + i > Len(l) \/ l[prev + i].term # entries[i].term}
      first     == CHOOSE i \in differing : \A j \in differing : i <= j
  IN IF differing = {} THEN l
     ELSE SubSeq(l, 1, prev + first - 1)
            \o SubSeq(entries, first, Len(entries))

\* handleAppendEntries at f = target[n], run by n's thread
HandleAppendEntries(n, f) ==
  LET q     == rpc[n]
      newer == q.term > currentTerm[f]
      stale == q.term < currentTerm[f]
      term  == IF newer THEN q.term ELSE currentTerm[f]
      match == /\ ~stale
               /\ q.index <= Len(log[f])
               /\ TermAt(log[f], q.index) = q.logTerm
      merged == IF match THEN Merge(log[f], q.index, q.entries) ELSE log[f]
  IN /\ IF newer THEN SetTermAndVote(f, term, None) ELSE UNCHANGED persistent
     /\ role'     = [role EXCEPT ![f] = IF stale THEN @ ELSE "FOLLOWER"]
     /\ leaderId' = [leaderId EXCEPT ![f] = IF stale THEN @ ELSE n]
     /\ log'      = [log EXCEPT ![f] = merged]
     /\ commitIndex' = [commitIndex EXCEPT ![f] =
                          IF match /\ q.commit > @
                          THEN Lower(q.commit, Len(merged)) ELSE @]
     /\ reply' = [reply EXCEPT ![n] =
                    [term |-> term, ok |-> match,
                     match |-> IF match THEN q.index + Len(q.entries) ELSE 0]]

CallFollower(n) ==
  /\ pc[n] = "appendcall"
  /\ HandleAppendEntries(n, target[n])
  /\ pc' = [pc EXCEPT ![n] = "appendreply"]
  /\ UNCHANGED <<indices, network, todo, target, rpc, granted>>

MutantAnyTerm(n, i, match) ==
  Cardinality({p \in Peers(n) : match[p] >= i}) + 1 >= CommitMajority

\* _advanceCommitIndex: the highest entry of this term a majority holds
Replicated(n, i, match) ==
  /\ log[n][i].term = currentTerm[n]
  /\ Cardinality({p \in Peers(n) : match[p] >= i}) + 1 >= CommitMajority
AdvanceCommitIndex(n, match) ==
  LET agreed == {i \in (commitIndex[n] + 1)..Len(log[n]) :
                   Replicated(n, i, match)}
  IN IF agreed = {} THEN commitIndex[n]
     ELSE CHOOSE i \in agreed : \A j \in agreed : j <= i

MutantNoBackOff(i) == i

\* Retry further back on the next heartbeat
BackOff(i) == IF i > 1 THEN i - 1 ELSE i

\* The caller's critical section after sendAppend returned
ReceiveAppend(n) ==
  /\ pc[n] = "appendreply"
  /\ \/ /\ reply[n].term > currentTerm[n]
        /\ BecomeFollower(n, reply[n].term)
        /\ EndRound(n)
        /\ UNCHANGED <<commitIndex, indices>>
     \/ /\ reply[n].term <= currentTerm[n]
        /\ role[n] # "LEADER"
        /\ EndRound(n)
        /\ UNCHANGED <<persistent, role, leaderId, commitIndex, indices>>
     \/ /\ reply[n].term <= currentTerm[n]
        /\ role[n] = "LEADER"
        /\ IF reply[n].ok
           THEN LET match == [matchIndex[n] EXCEPT ![target[n]] = reply[n].match]
                IN /\ matchIndex'  = [matchIndex EXCEPT ![n] = match]
                   /\ nextIndex'   = [nextIndex EXCEPT ![n][target[n]] =
                                        reply[n].match + 1]
                   /\ commitIndex' = [commitIndex EXCEPT ![n] =
                                        AdvanceCommitIndex(n, match)]
           ELSE /\ nextIndex' = [nextIndex EXCEPT ![n][target[n]] = BackOff(@)]
                /\ UNCHANGED <<matchIndex, commitIndex>>
        /\ NextPeer(n)
        /\ UNCHANGED <<persistent, role, leaderId, todo, granted>>
  /\ UNCHANGED <<log, network>>

FinishHeartbeats(n) ==
  /\ pc[n] = "heartbeat" /\ todo[n] = {}
  /\ EndRound(n)
  /\ UNCHANGED <<persistent, role, leaderId, replicas, indices, network>>

\* submitCommand from any client thread; it only asks for the role
SubmitCommand(n, c) ==
  /\ role[n] = "LEADER"
  /\ Len(log[n]) < MaxLog
  /\ log' = [log EXCEPT ![n] =
               Append(@, [term |-> currentTerm[n], command |-> c])]
  /\ UNCHANGED <<persistent, role, leaderId, commitIndex, indices, network,
                 thread>>
-----------------------------------------------------------------------------
(***************************************************************************)
(* The owner of the nodes: partitions, stop(), start(), and a new RaftNode *)
(* over the log store of a stopped one.                                    *)
(***************************************************************************)
SetIsolated(n, b) ==
  /\ isolated' = [isolated EXCEPT ![n] = b]
  /\ UNCHANGED <<persistent, role, leaderId, replicas, indices, bus, thread>>

Partition(n) == bus[n] # "absent" /\ ~isolated[n] /\ SetIsolated(n, TRUE)
Heal(n)      == isolated[n] /\ SetIsolated(n, FALSE)

\* stop() joins the thread, so it takes effect between two rounds
Stop(n) ==
  /\ pc[n] = "idle" /\ bus[n] = "both"
  /\ bus'      = [bus EXCEPT ![n] = "absent"]
  /\ isolated' = [isolated EXCEPT ![n] = FALSE]
  /\ UNCHANGED <<persistent, role, leaderId, replicas, indices, thread>>

\* start() registers the vote handler, which clears the partition flag ...
RegisterVoteHandler(n) ==
  /\ bus[n] = "absent"
  /\ bus'      = [bus EXCEPT ![n] = "votes"]
  /\ isolated' = [isolated EXCEPT ![n] = FALSE]
  /\ UNCHANGED <<persistent, role, leaderId, replicas, indices, thread>>
\* ... and then the append handler, under the bus lock again
RegisterAppendHandler(n) ==
  /\ bus[n] = "votes"
  /\ bus' = [bus EXCEPT ![n] = "both"]
  /\ UNCHANGED <<persistent, role, leaderId, replicas, indices, isolated, thread>>

\* A new RaftNode over the store of one nobody is calling any more
Reload(n) ==
  /\ bus[n] = "absent"
  /\ \A m \in Nodes : pc[m] \in {"votecall", "appendcall"} => target[m] # n
  /\ currentTerm' = [currentTerm EXCEPT ![n] = stored[n].term]
  /\ votedFor'    = [votedFor EXCEPT ![n] = stored[n].vote]
  /\ role'        = [role EXCEPT ![n] = "FOLLOWER"]
  /\ leaderId'    = [leaderId EXCEPT ![n] = None]
  /\ commitIndex' = [commitIndex EXCEPT ![n] = 0]
  /\ nextIndex'   = [nextIndex EXCEPT ![n] = [p \in Nodes |-> 1]]
  /\ matchIndex'  = [matchIndex EXCEPT ![n] = [p \in Nodes |-> 0]]
  /\ UNCHANGED <<stored, log, network, thread>>

RoundStep(n) ==
  \/ SnapshotElection(n) \/ CallVoter(n) \/ ReceiveVote(n) \/ FinishElection(n)
  \/ StartHeartbeats(n) \/ LookupFollower(n) \/ CallFollower(n)
  \/ ReceiveAppend(n) \/ FinishHeartbeats(n)
  \/ \E p \in Nodes : LookupVoter(n, p) \/ BuildAppend(n, p)

OwnerStep(n) ==
  Partition(n) \/ Heal(n) \/ Stop(n) \/ RegisterVoteHandler(n)
    \/ RegisterAppendHandler(n) \/ Reload(n)

Next ==
  \/ \E n \in Nodes : BecomeCandidate(n) \/ RoundStep(n)
  \/ \E n \in Nodes, c \in Commands : SubmitCommand(n, c)
  \/ \E n \in Faulty : OwnerStep(n)

Spec == Init /\ [][Next]_vars

\* The thread of a node is never blocked for good: every lock it takes is held
\* for one short critical section.  Timeouts, clients and faults owe nothing.
ThreadFairness == \A n \in Nodes : WF_vars(RoundStep(n))
FairSpec == Spec /\ ThreadFairness
=============================================================================
