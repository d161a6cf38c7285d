------------------------------ MODULE RaftProofs -----------------------------
(***************************************************************************)
(* Every variable of Raft keeps its type, for every cluster, every Faulty  *)
(* and every bound (the first part).  Votes are kept in every cluster, and *)
(* there is one leader per term in every cluster of odd size, whatever the *)
(* faults and the bounds (the second part); there, one leader is known of  *)
(* a term, and logs match (the third part).                                *)
(***************************************************************************)
EXTENDS RaftProperties, WellFoundedInduction, SequenceTheorems, FiniteSetTheorems, TLAPS

(***************************************************************************)
(* The positions a CHOOSE of the code's loops picks do exist.              *)
(***************************************************************************)
LEMMA NatOrder == IsWellFoundedOn({ss \in Nat \X Nat : ss[1] < ss[2]}, Nat)
  BY NatLessThanWellFounded DEF OpToRel

LEMMA LeastNatural ==
  ASSUME NEW T \in SUBSET Nat, T # {}
  PROVE  \E x \in T : \A y \in T : x <= y
<1> DEFINE R == {ss \in Nat \X Nat : ss[1] < ss[2]}
<1>1. \E x \in T : \A y \in T : ~ (<<y, x>> \in R)
  BY NatOrder, WFMin
<1>2. ASSUME NEW x \in T, NEW y \in T, ~(y < x) PROVE x <= y
  BY <1>2
<1> QED BY <1>1, <1>2

LEMMA GreatestBelow ==
  ASSUME NEW b \in Nat, NEW T \in SUBSET (0..b), T # {}
  PROVE  \E x \in T : \A y \in T : y <= x
<1> DEFINE U == {b - x : x \in T}
<1>1. U \in SUBSET Nat /\ U # {}
  OBVIOUS
<1>2. PICK u \in U : \A w \in U : u <= w
  BY <1>1, LeastNatural
<1>3. PICK x \in T : u = b - x
  OBVIOUS
<1>4. \A y \in T : b - x <= b - y
  BY <1>2, <1>3
<1> QED BY <1>4

(***************************************************************************)
(* The log helpers stay within their types.                                *)
(***************************************************************************)
LEMMA TermAtType ==
  ASSUME NEW l \in Seq(Entries), NEW i \in Int
  PROVE  TermAt(l, i) \in Nat
<1>1. CASE i \in DOMAIN l
  <2>1. l[i] \in Entries BY <1>1
  <2> QED BY <1>1, <2>1 DEF TermAt, Entries
<1>2. CASE i \notin DOMAIN l BY <1>2 DEF TermAt
<1> QED BY <1>1, <1>2

\* The loop of handleAppendEntries leaves a log: what it keeps ends where the
\* request first differs, inside the old log.
LEMMA MergeType ==
  ASSUME NEW l \in Seq(Entries), NEW prev \in Nat, NEW es \in Seq(Entries),
         prev <= Len(l)
  PROVE  Merge(l, prev, es) \in Seq(Entries)
<1> DEFINE differing == {i \in DOMAIN es :
                           prev + i > Len(l) \/ l[prev + i].term # es[i].term}
           first == CHOOSE i \in differing : \A j \in differing : i <= j
<1>0. DOMAIN es = 1..Len(es) /\ Len(es) \in Nat /\ Len(l) \in Nat
  BY LenProperties
<1>1. CASE differing = {}
  BY <1>1 DEF Merge
<1>2. CASE differing # {}
  <2>1. differing \in SUBSET Nat
    BY <1>0
  <2>2. first \in differing /\ \A j \in differing : first <= j
    BY <2>1, <1>2, LeastNatural
  <2> HIDE DEF differing, first
  <2>3. first \in 1..Len(es)
    BY <2>2, <1>0 DEF differing
  <2>4. prev + first - 1 <= Len(l)
    <3>1. CASE first = 1 BY <3>1
    <3>2. CASE first # 1
      <4>1. first - 1 \in DOMAIN es /\ ~(first <= first - 1)
        BY <2>3, <3>2, <1>0
      <4>2. first - 1 \notin differing
        BY <4>1, <2>2
      <4> QED BY <4>1, <4>2, <2>3, <1>0 DEF differing
    <3> QED BY <3>1, <3>2
  <2>5. SubSeq(l, 1, prev + first - 1) \in Seq(Entries)
    <3>1. \A i \in 1..(prev + first - 1) : l[i] \in Entries
      BY <2>4, <2>3, <1>0, ElementOfSeq
    <3> QED BY <3>1, <2>3, SubSeqProperties
  <2>6. SubSeq(es, first, Len(es)) \in Seq(Entries)
    <3>1. \A i \in first..Len(es) : es[i] \in Entries
      BY <2>3, <1>0, ElementOfSeq
    <3> QED BY <3>1, <2>3, <1>0, SubSeqProperties
  <2>7. Merge(l, prev, es) = SubSeq(l, 1, prev + first - 1)
                               \o SubSeq(es, first, Len(es))
    BY <1>2 DEF Merge, differing, first
  <2> QED BY <2>5, <2>6, <2>7, ConcatProperties
<1> QED BY <1>1, <1>2

\* The commit index a leader computes is one.
LEMMA AdvanceCommitIndexType ==
  ASSUME ReplicaTypes, NEW n \in Nodes, NEW match
  PROVE  AdvanceCommitIndex(n, match) \in Nat
<1> DEFINE agreed == {i \in (commitIndex[n] + 1)..Len(log[n]) :
                        Replicated(n, i, match)}
<1>0. commitIndex[n] \in Nat /\ Len(log[n]) \in Nat
  BY LenProperties DEF ReplicaTypes
<1>1. CASE agreed = {}
  BY <1>0, <1>1 DEF AdvanceCommitIndex
<1>2. CASE agreed # {}
  <2>1. agreed \in SUBSET (0..Len(log[n]))
    BY <1>0
  <2>2. \E x \in agreed : \A y \in agreed : y <= x
    BY <1>0, <1>2, <2>1, GreatestBelow
  <2>3. AdvanceCommitIndex(n, match) \in agreed
    BY <1>2, <2>2 DEF AdvanceCommitIndex
  <2> QED BY <2>1, <2>3, <1>0
<1> QED BY <1>1, <1>2
-----------------------------------------------------------------------------
(***************************************************************************)
(* A group of variables that does not change keeps its types; so do the    *)
(* assignments several actions share.                                      *)
(***************************************************************************)
LEMMA UnchangedTypes ==
  ASSUME TypeOK
  PROVE  /\ UNCHANGED <<persistent, role, leaderId>> => NodeTypes'
         /\ UNCHANGED <<log, commitIndex>> => ReplicaTypes'
         /\ UNCHANGED <<nextIndex, matchIndex>> => IndexTypes'
         /\ UNCHANGED <<bus, isolated>> => NetworkTypes'
         /\ UNCHANGED <<pc, todo, target, granted>> => RoundTypes'
         /\ UNCHANGED <<rpc, reply>> => CallTypes'
  BY DEF TypeOK, NodeTypes, ReplicaTypes, IndexTypes, NetworkTypes,
         RoundTypes, CallTypes, persistent

LEMMA RequestTypes ==
  /\ \A term, commit \in Nat : Heartbeat(term, commit) \in Request
  /\ \A term \in Nat : \A l \in Seq(Entries) : VoteRequest(term, l) \in Request
  /\ NoRequest \in Request
  /\ NoReply \in Reply
<1>1. <<>> \in Seq(Entries)
  BY EmptySeq
<1>2. \A l \in Seq(Entries) : Len(l) \in Nat /\ LastTerm(l) \in Nat
  BY TermAtType, LenProperties DEF LastTerm
<1>3. \A term, commit \in Nat : Heartbeat(term, commit) \in Request
  BY <1>1 DEF Heartbeat, Request
<1>4. \A term \in Nat : \A l \in Seq(Entries) : VoteRequest(term, l) \in Request
  BY <1>1, <1>2 DEF VoteRequest, Request
<1> QED BY <1>3, <1>4 DEF NoRequest, NoReply, Reply

LEMMA SetTermAndVoteType ==
  ASSUME NodeTypes, NEW v \in Nodes, NEW term \in Nat,
         NEW vote \in Nodes \cup {None}, SetTermAndVote(v, term, vote),
         role' \in [Nodes -> Roles], leaderId' \in [Nodes -> Nodes \cup {None}]
  PROVE  NodeTypes'
  BY DEF NodeTypes, SetTermAndVote

LEMMA BecomeFollowerType ==
  ASSUME NodeTypes, NEW n \in Nodes, NEW term \in Nat, BecomeFollower(n, term)
  PROVE  NodeTypes'
<1>1. /\ role' \in [Nodes -> Roles]
      /\ leaderId' \in [Nodes -> Nodes \cup {None}]
  BY DEF BecomeFollower, NodeTypes, Roles
<1> QED BY <1>1, SetTermAndVoteType DEF BecomeFollower

LEMMA EndRoundType ==
  ASSUME RoundTypes, CallTypes, NEW n \in Nodes, EndRound(n)
  PROVE  RoundTypes' /\ CallTypes'
<1>1. CallTypes'
  BY RequestTypes DEF CallTypes, EndRound
<1>2. RoundTypes'
  BY DEF RoundTypes, EndRound, Calling
<1> QED BY <1>1, <1>2

LEMMA NextPeerType ==
  ASSUME RoundTypes, CallTypes, NEW n \in Nodes, NextPeer(n),
         UNCHANGED <<todo, granted>>
  PROVE  RoundTypes' /\ CallTypes'
<1>1. rpc[n].term \in Nat /\ rpc[n].commit \in Nat
  BY DEF CallTypes, Request
<1>2. CallTypes'
  BY <1>1, RequestTypes DEF CallTypes, NextPeer
<1>3. RoundTypes'
  BY DEF RoundTypes, NextPeer, Calling
<1> QED BY <1>2, <1>3
-----------------------------------------------------------------------------
(***************************************************************************)
(* Every action keeps the types.                                           *)
(***************************************************************************)
LEMMA InitType == Init => TypeOK
<1> SUFFICES ASSUME Init PROVE TypeOK
  OBVIOUS
<1>1. NodeTypes /\ ReplicaTypes /\ IndexTypes /\ NetworkTypes
  BY EmptySeq DEF Init, NodeTypes, ReplicaTypes, IndexTypes, NetworkTypes, Roles
<1>2. RoundTypes /\ CallTypes
  BY RequestTypes DEF Init, RoundTypes, CallTypes, Calling
<1> QED BY <1>1, <1>2 DEF TypeOK

LEMMA ElectionStepType ==
  ASSUME TypeOK, NEW n \in Nodes, NEW p \in Nodes,
         \/ BecomeCandidate(n) \/ SnapshotElection(n) \/ LookupVoter(n, p)
         \/ CallVoter(n) \/ ReceiveVote(n) \/ FinishElection(n)
  PROVE  TypeOK'
<1> USE DEF replicas, indices, network
<1>1. CASE BecomeCandidate(n)
  <2>1. NodeTypes'
    <3>1. /\ role' \in [Nodes -> Roles]
          /\ leaderId' \in [Nodes -> Nodes \cup {None}]
          /\ currentTerm[n] + 1 \in Nat
      BY <1>1 DEF BecomeCandidate, TypeOK, NodeTypes, Roles
    <3> QED BY <1>1, <3>1, SetTermAndVoteType DEF BecomeCandidate, TypeOK
  <2>2. RoundTypes'
    BY <1>1 DEF BecomeCandidate, TypeOK, RoundTypes, Calling
  <2> QED BY <1>1, <2>1, <2>2, UnchangedTypes DEF BecomeCandidate, TypeOK
<1>2. CASE SnapshotElection(n)
  <2>1. RoundTypes'
    BY <1>2 DEF SnapshotElection, TypeOK, RoundTypes, Calling, Peers
  <2>2. CallTypes'
    BY <1>2, RequestTypes
       DEF SnapshotElection, TypeOK, CallTypes, NodeTypes, ReplicaTypes
  <2> QED BY <1>2, <2>1, <2>2, UnchangedTypes DEF SnapshotElection, TypeOK
<1>3. CASE LookupVoter(n, p)
  <2>1. RoundTypes'
    BY <1>3 DEF LookupVoter, TypeOK, RoundTypes, Calling, Peers
  <2> QED BY <1>3, <2>1, UnchangedTypes DEF LookupVoter, TypeOK
<1>4. CASE CallVoter(n)
  <2> DEFINE v == target[n]
             q == rpc[n]
             newer == q.term > currentTerm[v]
             term == IF newer THEN q.term ELSE currentTerm[v]
             vote == IF newer THEN None ELSE votedFor[v]
             grant == /\ q.term = term
                      /\ vote \in {None, n}
                      /\ UpToDate(q.index, q.logTerm, log[v])
  <2>1. v \in Nodes
    BY <1>4 DEF CallVoter, TypeOK, RoundTypes, Calling, Peers
  <2>2. term \in Nat /\ vote \in Nodes \cup {None}
    BY <2>1 DEF TypeOK, NodeTypes, CallTypes, Request
  <2>3. /\ \/ SetTermAndVote(v, term, IF grant THEN n ELSE vote)
           \/ UNCHANGED persistent
        /\ role' = [role EXCEPT ![v] = IF newer THEN "FOLLOWER" ELSE @]
        /\ leaderId' = [leaderId EXCEPT ![v] = IF newer THEN None ELSE @]
        /\ reply' = [reply EXCEPT ![n] =
                        [term |-> term, ok |-> grant, match |-> 0]]
    BY <1>4 DEF CallVoter, HandleRequestVote
  <2>4. grant \in BOOLEAN
    BY DEF UpToDate
  <2> HIDE DEF term, vote, grant, newer
  <2>5. /\ role' \in [Nodes -> Roles]
        /\ leaderId' \in [Nodes -> Nodes \cup {None}]
    BY <2>1, <2>3 DEF TypeOK, NodeTypes, Roles
  <2>6. NodeTypes'
    <3>1. CASE UNCHANGED persistent
      BY <2>5, <3>1 DEF TypeOK, NodeTypes, persistent
    <3> QED BY <2>1, <2>2, <2>3, <2>5, <3>1, SetTermAndVoteType DEF TypeOK
  <2>7. CallTypes'
    BY <1>4, <2>2, <2>3, <2>4 DEF CallVoter, TypeOK, CallTypes, Reply
  <2>8. RoundTypes'
    BY <1>4 DEF CallVoter, TypeOK, RoundTypes, Calling
  <2> QED BY <1>4, <2>6, <2>7, <2>8, UnchangedTypes DEF CallVoter, TypeOK
<1>5. CASE ReceiveVote(n)
  <2>1. CASE BecomeFollower(n, reply[n].term) /\ EndRound(n)
    <3>1. reply[n].term \in Nat
      BY DEF TypeOK, CallTypes, Reply
    <3> QED BY <1>5, <2>1, <3>1, BecomeFollowerType, EndRoundType, UnchangedTypes
            DEF ReceiveVote, TypeOK
  <2>2. CASE EndRound(n) /\ UNCHANGED <<persistent, role, leaderId>>
    BY <1>5, <2>2, EndRoundType, UnchangedTypes DEF ReceiveVote, TypeOK
  <2>3. CASE /\ role[n] = "CANDIDATE"
             /\ granted' = [granted EXCEPT ![n] =
                              IF reply[n].ok THEN @ \cup {target[n]} ELSE @]
             /\ pc'     = [pc EXCEPT ![n] = "election"]
             /\ target' = [target EXCEPT ![n] = None]
             /\ reply'  = [reply EXCEPT ![n] = NoReply]
             /\ UNCHANGED <<persistent, role, leaderId, todo, rpc>>
    <3>1. RoundTypes'
      BY <1>5, <2>3 DEF ReceiveVote, TypeOK, RoundTypes, Calling, Peers
    <3>2. CallTypes'
      BY <2>3, RequestTypes DEF TypeOK, CallTypes
    <3> QED BY <1>5, <2>3, <3>1, <3>2, UnchangedTypes DEF ReceiveVote, TypeOK
  <2> QED BY <1>5, <2>1, <2>2, <2>3 DEF ReceiveVote
<1>6. CASE FinishElection(n)
  <2>1. Len(log[n]) + 1 \in Nat \ {0}
    BY LenProperties DEF TypeOK, ReplicaTypes
  <2>2. NodeTypes'
    BY <1>6 DEF FinishElection, TypeOK, NodeTypes, Roles, persistent
  <2>3. IndexTypes'
    <3>1. CASE UNCHANGED <<nextIndex, matchIndex>>
      BY <3>1, UnchangedTypes
    <3>2. CASE /\ nextIndex' = [nextIndex EXCEPT ![n] =
                                 [peer \in Nodes |-> Len(log[n]) + 1]]
               /\ matchIndex' = [matchIndex EXCEPT ![n] =
                                  [peer \in Nodes |-> 0]]
      <4>1. /\ [peer \in Nodes |-> Len(log[n]) + 1] \in [Nodes -> Nat \ {0}]
            /\ [peer \in Nodes |-> 0] \in [Nodes -> Nat]
        BY <2>1
      <4> QED BY <3>2, <4>1 DEF TypeOK, IndexTypes
    <3> QED BY <1>6, <3>1, <3>2 DEF FinishElection
  <2> QED BY <1>6, <2>2, <2>3, EndRoundType, UnchangedTypes
          DEF FinishElection, TypeOK
<1> QED BY <1>1, <1>2, <1>3, <1>4, <1>5, <1>6

LEMMA HeartbeatStepType ==
  ASSUME TypeOK, NEW n \in Nodes, NEW p \in Nodes,
         \/ StartHeartbeats(n) \/ BuildAppend(n, p) \/ LookupFollower(n)
         \/ CallFollower(n) \/ ReceiveAppend(n) \/ FinishHeartbeats(n)
  PROVE  TypeOK'
<1> USE DEF replicas, indices, network
<1>1. CASE StartHeartbeats(n)
  <2>1. RoundTypes'
    BY <1>1 DEF StartHeartbeats, TypeOK, RoundTypes, Calling, Peers
  <2>2. CallTypes'
    BY <1>1, RequestTypes
       DEF StartHeartbeats, TypeOK, CallTypes, NodeTypes, ReplicaTypes
  <2> QED BY <1>1, <2>1, <2>2, UnchangedTypes DEF StartHeartbeats, TypeOK
<1>2. CASE BuildAppend(n, p)
  <2>1. CASE role[n] = "LEADER"
    <3> DEFINE prev == nextIndex[n][p] - 1
    <3>1. prev \in Nat /\ Len(log[n]) \in Nat /\ log[n] \in Seq(Entries)
      BY LenProperties DEF TypeOK, IndexTypes, ReplicaTypes
    <3>2. TermAt(log[n], prev) \in Nat
      BY <3>1, TermAtType, SMTT(30)
    <3>3. SubSeq(log[n], prev + 1, Len(log[n])) \in Seq(Entries)
      <4>1. \A i \in (prev + 1)..Len(log[n]) : log[n][i] \in Entries
        BY <3>1, ElementOfSeq
      <4> QED BY <3>1, <4>1, SubSeqProperties
    <3>4. CallTypes'
      <4>1. [term |-> rpc[n].term, index |-> prev,
             logTerm |-> TermAt(log[n], prev),
             entries |-> SubSeq(log[n], prev + 1, Len(log[n])),
             commit |-> rpc[n].commit] \in Request
        BY <3>1, <3>2, <3>3 DEF TypeOK, CallTypes, Request
      <4>2. UNCHANGED reply
        BY <1>2, <2>1 DEF BuildAppend
      <4> QED BY <1>2, <2>1, <4>1, <4>2 DEF BuildAppend, TypeOK, CallTypes
    <3>5. RoundTypes'
      BY <1>2, <2>1 DEF BuildAppend, TypeOK, RoundTypes, Calling, Peers
    <3> QED BY <1>2, <3>4, <3>5, UnchangedTypes DEF BuildAppend, TypeOK
  <2>2. CASE role[n] # "LEADER"
    BY <1>2, <2>2, EndRoundType, UnchangedTypes DEF BuildAppend, TypeOK
  <2> QED BY <2>1, <2>2
<1>3. CASE LookupFollower(n)
  <2>1. CASE NextPeer(n)
    BY <1>3, <2>1, NextPeerType, UnchangedTypes DEF LookupFollower, TypeOK
  <2>2. CASE /\ pc' = [pc EXCEPT ![n] = "appendcall"]
             /\ UNCHANGED <<target, rpc, reply>>
    <3>1. RoundTypes'
      BY <1>3, <2>2 DEF LookupFollower, TypeOK, RoundTypes, Calling
    <3> QED BY <1>3, <2>2, <3>1, UnchangedTypes DEF LookupFollower, TypeOK
  <2> QED BY <1>3, <2>1, <2>2 DEF LookupFollower
<1>4. CASE CallFollower(n)
  <2> DEFINE f == target[n]
             q == rpc[n]
             newer == q.term > currentTerm[f]
             stale == q.term < currentTerm[f]
             term == IF newer THEN q.term ELSE currentTerm[f]
             match == /\ ~stale
                      /\ q.index <= Len(log[f])
                      /\ TermAt(log[f], q.index) = q.logTerm
             merged == IF match THEN Merge(log[f], q.index, q.entries)
                       ELSE log[f]
  <2>1. f \in Nodes
    BY <1>4 DEF CallFollower, TypeOK, RoundTypes, Calling, Peers
  <2>2. /\ q.term \in Nat /\ q.index \in Nat
        /\ q.commit \in Nat /\ q.entries \in Seq(Entries)
    BY DEF TypeOK, CallTypes, Request
  <2>3. /\ SetTermAndVote(f, term, None) \/ UNCHANGED persistent
        /\ role' = [role EXCEPT ![f] = IF stale THEN @ ELSE "FOLLOWER"]
        /\ leaderId' = [leaderId EXCEPT ![f] = IF stale THEN @ ELSE n]
        /\ log' = [log EXCEPT ![f] = merged]
        /\ commitIndex' = [commitIndex EXCEPT ![f] =
                              IF match /\ q.commit > @
                              THEN Lower(q.commit, Len(merged)) ELSE @]
        /\ reply' = [reply EXCEPT ![n] =
                        [term |-> term, ok |-> match,
                         match |-> IF match THEN q.index + Len(q.entries)
                                   ELSE 0]]
    BY <1>4 DEF CallFollower, HandleAppendEntries
  <2>4. term \in Nat /\ match \in BOOLEAN
    BY <2>1, <2>2 DEF TypeOK, NodeTypes
  <2>5. merged \in Seq(Entries)
    BY <2>1, <2>2, MergeType DEF TypeOK, ReplicaTypes
  <2> HIDE DEF term, match, merged, newer, stale
  <2>6. Len(merged) \in Nat /\ Len(q.entries) \in Nat
    BY <2>2, <2>5, LenProperties
  <2>7. /\ role' \in [Nodes -> Roles]
        /\ leaderId' \in [Nodes -> Nodes \cup {None}]
    BY <2>1, <2>3 DEF TypeOK, NodeTypes, Roles
  <2>8. NodeTypes'
    <3>1. CASE UNCHANGED persistent
      BY <2>7, <3>1 DEF TypeOK, NodeTypes, persistent
    <3> QED BY <2>1, <2>3, <2>4, <2>7, <3>1, SetTermAndVoteType DEF TypeOK
  <2>9. ReplicaTypes'
    BY <2>1, <2>2, <2>3, <2>5, <2>6 DEF TypeOK, ReplicaTypes, Lower
  <2>10. CallTypes'
    BY <1>4, <2>2, <2>3, <2>4, <2>6, SMTT(30) DEF CallFollower, TypeOK, CallTypes, Reply
  <2>11. RoundTypes'
    BY <1>4 DEF CallFollower, TypeOK, RoundTypes, Calling
  <2> QED BY <1>4, <2>8, <2>9, <2>10, <2>11, UnchangedTypes
          DEF CallFollower, TypeOK
<1>5. CASE ReceiveAppend(n)
  <2>1. /\ reply[n].term \in Nat /\ reply[n].match \in Nat
        /\ target[n] \in Nodes
    BY <1>5 DEF ReceiveAppend, TypeOK, CallTypes, Reply, RoundTypes, Calling,
                Peers
  <2>2. CASE /\ BecomeFollower(n, reply[n].term)
             /\ EndRound(n)
             /\ UNCHANGED <<commitIndex, indices>>
    BY <1>5, <2>1, <2>2, BecomeFollowerType, EndRoundType, UnchangedTypes
       DEF ReceiveAppend, TypeOK
  <2>3. CASE /\ EndRound(n)
             /\ UNCHANGED <<persistent, role, leaderId, commitIndex, indices>>
    BY <1>5, <2>3, EndRoundType, UnchangedTypes DEF ReceiveAppend, TypeOK
  <2>4. CASE /\ role[n] = "LEADER"
             /\ IF reply[n].ok
                THEN LET match == [matchIndex[n] EXCEPT
                                     ![target[n]] = reply[n].match]
                     IN /\ matchIndex'  = [matchIndex EXCEPT ![n] = match]
                        /\ nextIndex'   = [nextIndex EXCEPT ![n][target[n]] =
                                             reply[n].match + 1]
                        /\ commitIndex' = [commitIndex EXCEPT ![n] =
                                             AdvanceCommitIndex(n, match)]
                ELSE /\ nextIndex' = [nextIndex EXCEPT
                                        ![n][target[n]] = BackOff(@)]
                     /\ UNCHANGED <<matchIndex, commitIndex>>
             /\ NextPeer(n)
             /\ UNCHANGED <<persistent, role, leaderId, todo, granted>>
    <3>1. \A m : AdvanceCommitIndex(n, m) \in Nat
      BY AdvanceCommitIndexType DEF TypeOK
    <3>2. ReplicaTypes'
      <4>1. CASE reply[n].ok
        BY <1>5, <2>4, <3>1, <4>1 DEF ReceiveAppend, TypeOK, ReplicaTypes
      <4>2. CASE ~reply[n].ok
        BY <1>5, <2>4, <4>2, UnchangedTypes DEF ReceiveAppend
      <4> QED BY <4>1, <4>2
    <3>3. IndexTypes'
      <4>1. CASE reply[n].ok
        <5>1. /\ reply[n].match + 1 \in Nat \ {0}
              /\ nextIndex[n] \in [Nodes -> Nat \ {0}]
              /\ matchIndex[n] \in [Nodes -> Nat]
          BY <2>1 DEF TypeOK, IndexTypes
        <5>2. /\ [nextIndex[n] EXCEPT ![target[n]] = reply[n].match + 1]
                    \in [Nodes -> Nat \ {0}]
              /\ [matchIndex[n] EXCEPT ![target[n]] = reply[n].match]
                    \in [Nodes -> Nat]
          BY <2>1, <5>1
        <5>3. /\ nextIndex' = [nextIndex EXCEPT ![n] =
                   [nextIndex[n] EXCEPT ![target[n]] = reply[n].match + 1]]
              /\ matchIndex' = [matchIndex EXCEPT ![n] =
                   [matchIndex[n] EXCEPT ![target[n]] = reply[n].match]]
          BY <2>4, <4>1
        <5> QED BY <5>2, <5>3 DEF TypeOK, IndexTypes
      <4>2. CASE ~reply[n].ok
        <5>1. BackOff(nextIndex[n][target[n]]) \in Nat \ {0}
          BY <2>1 DEF TypeOK, IndexTypes, BackOff
        <5>2. [nextIndex[n] EXCEPT ![target[n]] = BackOff(@)]
                \in [Nodes -> Nat \ {0}]
          BY <2>1, <5>1 DEF TypeOK, IndexTypes
        <5>3. /\ nextIndex' = [nextIndex EXCEPT ![n] =
                   [nextIndex[n] EXCEPT ![target[n]] = BackOff(@)]]
              /\ UNCHANGED matchIndex
          BY <2>4, <4>2
        <5> QED BY <5>2, <5>3 DEF TypeOK, IndexTypes
      <4> QED BY <4>1, <4>2
    <3> QED BY <1>5, <2>4, <3>2, <3>3, NextPeerType, UnchangedTypes
            DEF ReceiveAppend, TypeOK
  <2> QED BY <1>5, <2>2, <2>3, <2>4 DEF ReceiveAppend
<1>6. CASE FinishHeartbeats(n)
  BY <1>6, EndRoundType, UnchangedTypes DEF FinishHeartbeats, TypeOK
<1> QED BY <1>1, <1>2, <1>3, <1>4, <1>5, <1>6

LEMMA OutsideStepType ==
  ASSUME TypeOK, NEW n \in Nodes,
         OwnerStep(n) \/ \E c \in Commands : SubmitCommand(n, c)
  PROVE  TypeOK'
<1> USE DEF replicas, indices, network, thread
<1>1. CASE \E c \in Commands : SubmitCommand(n, c)
  <2>1. PICK c \in Commands : SubmitCommand(n, c)
    BY <1>1
  <2>2. [term |-> currentTerm[n], command |-> c] \in Entries
    BY DEF Entries, TypeOK, NodeTypes
  <2>3. ReplicaTypes'
    BY <2>1, <2>2, AppendProperties DEF SubmitCommand, TypeOK, ReplicaTypes
  <2> QED BY <2>1, <2>3, UnchangedTypes DEF SubmitCommand, TypeOK
<1>2. CASE Partition(n) \/ Heal(n)
  <2>1. NetworkTypes'
    BY <1>2 DEF Partition, Heal, SetIsolated, TypeOK, NetworkTypes
  <2> QED BY <1>2, <2>1, UnchangedTypes DEF Partition, Heal, SetIsolated, TypeOK
<1>3. CASE Stop(n) \/ RegisterVoteHandler(n) \/ RegisterAppendHandler(n)
  <2>1. NetworkTypes'
    BY <1>3 DEF Stop, RegisterVoteHandler, RegisterAppendHandler, TypeOK,
                NetworkTypes
  <2> QED BY <1>3, <2>1, UnchangedTypes
          DEF Stop, RegisterVoteHandler, RegisterAppendHandler, TypeOK
<1>4. CASE Reload(n)
  <2>1. NodeTypes'
    BY <1>4 DEF Reload, TypeOK, NodeTypes, Roles
  <2>2. ReplicaTypes' /\ IndexTypes'
    BY <1>4 DEF Reload, TypeOK, ReplicaTypes, IndexTypes
  <2> QED BY <1>4, <2>1, <2>2, UnchangedTypes DEF Reload, TypeOK
<1> QED BY <1>1, <1>2, <1>3, <1>4 DEF OwnerStep

\* Every step of every thread, client and owner keeps the types.
LEMMA NextType == TypeOK /\ [Next]_vars => TypeOK'
<1> SUFFICES ASSUME TypeOK, [Next]_vars PROVE TypeOK'
  OBVIOUS
<1>1. ASSUME NEW n \in Nodes, BecomeCandidate(n) \/ RoundStep(n)
      PROVE  TypeOK'
  BY <1>1, ElectionStepType, HeartbeatStepType DEF RoundStep
<1>2. ASSUME NEW n \in Nodes, NEW c \in Commands, SubmitCommand(n, c)
      PROVE  TypeOK'
  BY <1>2, OutsideStepType
<1>3. ASSUME NEW n \in Faulty, OwnerStep(n)
      PROVE  TypeOK'
  BY <1>3, OutsideStepType, NodesAssumption
<1>4. CASE UNCHANGED vars
  BY <1>4, UnchangedTypes DEF vars, replicas, indices, network, thread, TypeOK
<1> QED BY <1>1, <1>2, <1>3, <1>4 DEF Next

\* TypeOK holds for every cluster size and every bound.
THEOREM TypeCorrect == Spec => []TypeOK
<1> QED BY InitType, NextType, PTL DEF Spec

-------------------------------------------------------------------------------
(***************************************************************************)
(* What one step can do to votes, to the support of a candidate and to the *)
(* roles.  The invariant follows from these three facts alone.             *)
(***************************************************************************)
\* A node keeps its vote as long as it keeps its term
VotesForward ==
  \A v \in Nodes :
    \/ currentTerm'[v] > currentTerm[v]
    \/ /\ currentTerm'[v] = currentTerm[v]
       /\ votedFor[v] # None => votedFor'[v] = votedFor[v]

\* Support is gained only by a vote cast in the candidate's own term
Kept(n, v) == /\ Standing(n) /\ v \in Support(n)
              /\ currentTerm'[n] = currentTerm[n]
Cast(n, v) == currentTerm'[v] = currentTerm'[n] /\ votedFor'[v] = n
SupportForward ==
  \A n \in Nodes : Standing(n)' =>
    /\ rpc'[n].term = currentTerm'[n]
    /\ \A v \in Support(n)' : Kept(n, v) \/ Cast(n, v)

\* Candidates voted for themselves; leaders were elected by their support
Elected(n) == Standing(n) /\ Support(n) \in Quorums
RolesForward ==
  \A n \in Nodes :
    /\ role'[n] # "FOLLOWER" => votedFor'[n] = n
    /\ role'[n] = "LEADER" => /\ currentTerm'[n] = currentTerm[n]
                              /\ role[n] = "LEADER" \/ Elected(n)
-----------------------------------------------------------------------------
LEMMA PersistedVotes ==
  ASSUME TypeOK, StoreIsCurrent, NEW v \in Nodes, NEW term \in Nat, NEW vote,
         SetTermAndVote(v, term, vote),
         \/ term > currentTerm[v]
         \/ /\ term = currentTerm[v]
            /\ votedFor[v] # None => vote = votedFor[v]
  PROVE  VotesForward /\ StoreIsCurrent'
<1>1. /\ currentTerm' = [currentTerm EXCEPT ![v] = term]
      /\ votedFor' = [votedFor EXCEPT ![v] = vote]
      /\ stored' = [stored EXCEPT ![v] = [term |-> term, vote |-> vote]]
  BY DEF SetTermAndVote
<1>2. VotesForward
  BY <1>1 DEF VotesForward, TypeOK, NodeTypes
<1>3. StoreIsCurrent'
  <2> SUFFICES ASSUME NEW w \in Nodes
               PROVE  stored'[w] = [term |-> currentTerm'[w],
                                    vote |-> votedFor'[w]]
    BY DEF StoreIsCurrent
  <2>1. CASE w = v
    BY <1>1, <2>1 DEF TypeOK, NodeTypes
  <2>2. CASE w # v
    BY <1>1, <2>2 DEF TypeOK, NodeTypes, StoreIsCurrent
  <2> QED BY <2>1, <2>2
<1> QED BY <1>2, <1>3

LEMMA UnchangedVotes ==
  ASSUME TypeOK, StoreIsCurrent, UNCHANGED persistent
  PROVE  VotesForward /\ StoreIsCurrent'
  BY DEF persistent, VotesForward, StoreIsCurrent, TypeOK, NodeTypes

LEMMA CalledPeer ==
  ASSUME TypeOK, NEW n \in Nodes, pc[n] \in Calling
  PROVE  target[n] \in Nodes /\ target[n] # n
  BY DEF TypeOK, RoundTypes, Peers

\* Every step keeps votes and persists them.
LEMMA VotesStep ==
  ASSUME TypeOK, StoreIsCurrent, [Next]_vars
  PROVE  VotesForward /\ StoreIsCurrent'
<1>1. ASSUME NEW n \in Nodes, BecomeCandidate(n)
      PROVE  VotesForward /\ StoreIsCurrent'
  <2>1. currentTerm[n] + 1 \in Nat /\ currentTerm[n] + 1 > currentTerm[n]
    BY DEF TypeOK, NodeTypes
  <2> QED BY <1>1, <2>1, PersistedVotes DEF BecomeCandidate
<1>2. ASSUME NEW n \in Nodes, CallVoter(n)
      PROVE  VotesForward /\ StoreIsCurrent'
  <2> DEFINE v == target[n]
             q == rpc[n]
             newer == q.term > currentTerm[v]
             term == IF newer THEN q.term ELSE currentTerm[v]
             vote == IF newer THEN None ELSE votedFor[v]
             grant == /\ q.term = term
                      /\ vote \in {None, n}
                      /\ UpToDate(q.index, q.logTerm, log[v])
  <2>1. v \in Nodes
    BY <1>2, CalledPeer DEF CallVoter, Calling
  <2>2. \/ SetTermAndVote(v, term, IF grant THEN n ELSE vote)
        \/ UNCHANGED persistent
    BY <1>2 DEF CallVoter, HandleRequestVote
  <2>3. q.term \in Nat /\ currentTerm[v] \in Nat
    BY <2>1 DEF TypeOK, CallTypes, Request, NodeTypes
  <2>4. \/ term > currentTerm[v]
        \/ /\ term = currentTerm[v]
           /\ votedFor[v] # None => (IF grant THEN n ELSE vote) = votedFor[v]
    BY <2>3
  <2> HIDE DEF v, term, grant, vote
  <2>5. term \in Nat
    BY <2>3 DEF term
  <2> QED BY <2>1, <2>2, <2>4, <2>5, PersistedVotes, UnchangedVotes
<1>3. ASSUME NEW n \in Nodes, CallFollower(n)
      PROVE  VotesForward /\ StoreIsCurrent'
  <2> DEFINE f == target[n]
  <2>1. f \in Nodes /\ rpc[n].term \in Nat
    BY <1>3, CalledPeer
       DEF CallFollower, Calling, TypeOK, CallTypes, Request
  <2>2. \/ /\ rpc[n].term > currentTerm[f]
           /\ SetTermAndVote(f, rpc[n].term, None)
        \/ UNCHANGED persistent
    BY <1>3 DEF CallFollower, HandleAppendEntries
  <2> QED BY <2>1, <2>2, PersistedVotes, UnchangedVotes
<1>4. ASSUME NEW n \in Nodes, reply[n].term > currentTerm[n],
             BecomeFollower(n, reply[n].term)
      PROVE  VotesForward /\ StoreIsCurrent'
  <2>1. reply[n].term \in Nat
    BY DEF TypeOK, CallTypes, Reply
  <2> QED BY <1>4, <2>1, PersistedVotes DEF BecomeFollower
<1>5. ASSUME NEW n \in Nodes, Reload(n)
      PROVE  VotesForward /\ StoreIsCurrent'
  <2>1. UNCHANGED persistent
    BY <1>5 DEF Reload, StoreIsCurrent, TypeOK, NodeTypes, persistent
  <2> QED BY <2>1, UnchangedVotes
<1>6. CASE UNCHANGED vars
  BY <1>6, UnchangedVotes DEF vars
<1>7. ASSUME NEW n \in Nodes, RoundStep(n)
      PROVE  VotesForward /\ StoreIsCurrent'
  BY <1>2, <1>3, <1>4, <1>7, UnchangedVotes
     DEF RoundStep, SnapshotElection, LookupVoter, ReceiveVote, FinishElection,
         StartHeartbeats, BuildAppend, LookupFollower, ReceiveAppend,
         FinishHeartbeats
<1>8. ASSUME NEW n \in Nodes, NEW c \in Commands, SubmitCommand(n, c)
      PROVE  VotesForward /\ StoreIsCurrent'
  BY <1>8, UnchangedVotes DEF SubmitCommand
<1>9. ASSUME NEW n \in Nodes, OwnerStep(n)
      PROVE  VotesForward /\ StoreIsCurrent'
  BY <1>5, <1>9, UnchangedVotes
     DEF OwnerStep, Partition, Heal, SetIsolated, Stop, RegisterVoteHandler,
         RegisterAppendHandler
<1> QED BY <1>1, <1>6, <1>7, <1>8, <1>9, NodesAssumption DEF Next

LEMMA InitStore == Init => StoreIsCurrent
  BY DEF Init, StoreIsCurrent

\* In every cluster a node votes at most once per term, across stop, start and
\* a reload from the log store.
THEOREM VotesAreKept == Spec => VoteOncePerTerm
<1> DEFINE OneVote ==
      \A n \in Nodes : /\ currentTerm'[n] >= currentTerm[n]
                       /\ votedFor[n] # None /\ votedFor'[n] # votedFor[n]
                            => currentTerm'[n] > currentTerm[n]
<1>1. TypeOK /\ StoreIsCurrent /\ [Next]_vars => StoreIsCurrent'
  BY VotesStep
<1>2. TypeOK /\ TypeOK' /\ StoreIsCurrent /\ [Next]_vars => [OneVote]_vars
  <2> SUFFICES ASSUME TypeOK, TypeOK', StoreIsCurrent, [Next]_vars PROVE OneVote
    OBVIOUS
  <2>1. VotesForward
    BY VotesStep
  <2>2. \A n \in Nodes : currentTerm[n] \in Nat /\ currentTerm'[n] \in Nat
    BY DEF TypeOK, NodeTypes
  <2> QED BY <2>1, <2>2 DEF VotesForward
<1> QED BY <1>1, <1>2, InitStore, TypeCorrect, PTL DEF Spec, VoteOncePerTerm
-----------------------------------------------------------------------------
(***************************************************************************)
(* Support and roles, one lemma per kind of step.                          *)
(***************************************************************************)
\* A step that leaves terms, votes and roles alone and gives no candidate
\* more support
LEMMA QuietSupport ==
  ASSUME TypeOK, ElectionInv, UNCHANGED <<persistent, role>>,
         \A n \in Nodes : Standing(n)' =>
            /\ Standing(n)
            /\ rpc'[n].term = rpc[n].term
            /\ Support(n)' \subseteq Support(n)
  PROVE  SupportForward /\ RolesForward
<1>1. SupportForward
  BY DEF SupportForward, Kept, ElectionInv, SupportIsPledged, persistent
<1>2. RolesForward
  BY DEF RolesForward, ElectionInv, OwnVote, TypeOK, NodeTypes, Roles, persistent
<1> QED BY <1>1, <1>2

\* A node that steps down for a later term ends its round
LEMMA StepDownSupport ==
  ASSUME TypeOK, ElectionInv, NEW n \in Nodes, NEW term \in Nat,
         BecomeFollower(n, term), EndRound(n)
  PROVE  SupportForward /\ RolesForward
<1>1. /\ role' = [role EXCEPT ![n] = "FOLLOWER"]
      /\ currentTerm' = [currentTerm EXCEPT ![n] = term]
      /\ votedFor' = [votedFor EXCEPT ![n] = None]
  BY DEF BecomeFollower, SetTermAndVote
<1>2. /\ role'[n] = "FOLLOWER"
      /\ \A m \in Nodes \ {n} : /\ role'[m] = role[m]
                                /\ currentTerm'[m] = currentTerm[m]
                                /\ votedFor'[m] = votedFor[m]
  BY <1>1 DEF TypeOK, NodeTypes
<1>3. \A m \in Nodes \ {n} :
        /\ pc'[m] = pc[m] /\ rpc'[m] = rpc[m] /\ granted'[m] = granted[m]
        /\ reply'[m] = reply[m] /\ target'[m] = target[m]
  BY DEF EndRound, TypeOK, RoundTypes, CallTypes
<1>4. SupportForward
  <2> SUFFICES ASSUME NEW m \in Nodes, Standing(m)'
               PROVE  /\ rpc'[m].term = currentTerm'[m]
                      /\ \A v \in Support(m)' : Kept(m, v)
    BY DEF SupportForward
  <2>1. m # n
    BY <1>2 DEF Standing
  <2>2. Standing(m) /\ Support(m)' = Support(m)
    BY <1>2, <1>3, <2>1 DEF Standing, Support
  <2> QED BY <1>2, <1>3, <2>1, <2>2 DEF Kept, ElectionInv, SupportIsPledged
<1>5. RolesForward
  BY <1>2 DEF RolesForward, ElectionInv, OwnVote
<1> QED BY <1>4, <1>5

LEMMA CandidateSupport ==
  ASSUME TypeOK, ElectionInv, NEW n \in Nodes, BecomeCandidate(n)
  PROVE  SupportForward /\ RolesForward
<1>1. /\ role' = [role EXCEPT ![n] = "CANDIDATE"]
      /\ currentTerm' = [currentTerm EXCEPT ![n] = currentTerm[n] + 1]
      /\ votedFor' = [votedFor EXCEPT ![n] = n]
      /\ pc' = [pc EXCEPT ![n] = "candidate"]
      /\ UNCHANGED <<rpc, granted, reply, target>>
  BY DEF BecomeCandidate, SetTermAndVote
<1>2. /\ pc'[n] = "candidate" /\ role'[n] = "CANDIDATE" /\ votedFor'[n] = n
      /\ \A m \in Nodes \ {n} : /\ role'[m] = role[m] /\ pc'[m] = pc[m]
                                /\ currentTerm'[m] = currentTerm[m]
                                /\ votedFor'[m] = votedFor[m]
  BY <1>1 DEF TypeOK, NodeTypes, RoundTypes
<1>3. SupportForward
  <2> SUFFICES ASSUME NEW m \in Nodes, Standing(m)'
               PROVE  /\ rpc'[m].term = currentTerm'[m]
                      /\ \A v \in Support(m)' : Kept(m, v)
    BY DEF SupportForward
  <2>1. m # n
    BY <1>2 DEF Standing
  <2>2. Standing(m) /\ Support(m)' = Support(m)
    BY <1>1, <1>2, <2>1 DEF Standing, Support
  <2> QED BY <1>1, <1>2, <2>1, <2>2 DEF Kept, ElectionInv, SupportIsPledged
<1>4. RolesForward
  BY <1>2 DEF RolesForward, ElectionInv, OwnVote
<1> QED BY <1>3, <1>4

LEMMA SnapshotSupport ==
  ASSUME TypeOK, ElectionInv, NEW n \in Nodes, SnapshotElection(n)
  PROVE  SupportForward /\ RolesForward
<1>1. /\ pc' = [pc EXCEPT ![n] = "election"]
      /\ granted' = [granted EXCEPT ![n] = {n}]
      /\ rpc' = [rpc EXCEPT ![n] = VoteRequest(currentTerm[n], log[n])]
      /\ UNCHANGED <<currentTerm, votedFor, role, target, reply>>
  BY DEF SnapshotElection, persistent
<1>2. /\ pc'[n] = "election" /\ granted'[n] = {n}
      /\ rpc'[n].term = currentTerm[n]
      /\ \A m \in Nodes \ {n} : /\ pc'[m] = pc[m] /\ rpc'[m] = rpc[m]
                                /\ granted'[m] = granted[m]
  BY <1>1 DEF TypeOK, RoundTypes, CallTypes, VoteRequest
<1>3. SupportForward
  <2> SUFFICES ASSUME NEW m \in Nodes, Standing(m)'
               PROVE  /\ rpc'[m].term = currentTerm'[m]
                      /\ \A v \in Support(m)' : Kept(m, v) \/ Cast(m, v)
    BY DEF SupportForward
  <2>1. CASE m = n
    <3>1. Support(n)' = {n}
      BY <1>2 DEF Support
    <3>2. votedFor[n] = n
      BY <1>1, <2>1 DEF Standing, ElectionInv, OwnVote
    <3> QED BY <1>1, <1>2, <2>1, <3>1, <3>2 DEF Cast
  <2>2. CASE m # n
    <3>1. Standing(m) /\ Support(m)' = Support(m)
      BY <1>1, <1>2, <2>2 DEF Standing, Support
    <3> QED BY <1>1, <1>2, <2>2, <3>1 DEF Kept, ElectionInv, SupportIsPledged
  <2> QED BY <2>1, <2>2
<1>4. RolesForward
  BY <1>1 DEF RolesForward, ElectionInv, OwnVote
<1> QED BY <1>3, <1>4

LEMMA CallVoterSupport ==
  ASSUME TypeOK, ElectionInv, NEW n \in Nodes, CallVoter(n)
  PROVE  SupportForward /\ RolesForward
<1> DEFINE v == target[n]
           q == rpc[n]
           newer == q.term > currentTerm[v]
           term == IF newer THEN q.term ELSE currentTerm[v]
           vote == IF newer THEN None ELSE votedFor[v]
           grant == /\ q.term = term
                    /\ vote \in {None, n}
                    /\ UpToDate(q.index, q.logTerm, log[v])
<1>1. v \in Nodes /\ v # n /\ pc[n] = "votecall"
  BY CalledPeer DEF CallVoter, Calling
<1>2. /\ currentTerm' = [currentTerm EXCEPT ![v] = term]
      /\ votedFor' = [votedFor EXCEPT ![v] = IF grant THEN n ELSE vote]
      /\ role' = [role EXCEPT ![v] = IF newer THEN "FOLLOWER" ELSE @]
      /\ reply' = [reply EXCEPT ![n] =
                      [term |-> term, ok |-> grant, match |-> 0]]
      /\ pc' = [pc EXCEPT ![n] = "votereply"]
      /\ UNCHANGED <<target, rpc, granted>>
  BY <1>1 DEF CallVoter, HandleRequestVote, SetTermAndVote, persistent, TypeOK,
              NodeTypes
<1>3. grant => q.term = term /\ vote \in {None, n}
  OBVIOUS
<1>4. grant \in BOOLEAN
  BY DEF UpToDate
<1> HIDE DEF grant
<1>5. /\ currentTerm'[v] = term /\ votedFor'[v] = IF grant THEN n ELSE vote
      /\ role'[v] = IF newer THEN "FOLLOWER" ELSE role[v]
      /\ \A m \in Nodes \ {v} : /\ currentTerm'[m] = currentTerm[m]
                                /\ votedFor'[m] = votedFor[m]
                                /\ role'[m] = role[m]
  BY <1>1, <1>2 DEF TypeOK, NodeTypes
<1>6. /\ pc'[n] = "votereply" /\ reply'[n].ok = grant
      /\ \A m \in Nodes \ {n} : pc'[m] = pc[m] /\ reply'[m] = reply[m]
  BY <1>1, <1>2 DEF TypeOK, RoundTypes, CallTypes
<1>7. SupportForward
  <2> SUFFICES ASSUME NEW m \in Nodes, Standing(m)'
               PROVE  /\ rpc'[m].term = currentTerm'[m]
                      /\ \A w \in Support(m)' : Kept(m, w) \/ Cast(m, w)
    BY DEF SupportForward
  <2>1. CASE m = n
    <3>1. Standing(n) /\ currentTerm'[n] = currentTerm[n]
      BY <1>1, <1>5, <2>1 DEF Standing
    <3>2. q.term = currentTerm[n]
      BY <3>1 DEF ElectionInv, SupportIsPledged
    <3>3. Support(n)' = granted[n] \cup (IF grant THEN {v} ELSE {})
      BY <1>2, <1>6 DEF Support
    <3>4. granted[n] \subseteq Support(n)
      BY DEF Support
    <3>5. grant => Cast(n, v)
      BY <1>3, <1>5, <3>1, <3>2 DEF Cast
    <3> QED BY <1>2, <2>1, <3>1, <3>2, <3>3, <3>4, <3>5 DEF Kept
  <2>2. CASE m # n
    <3>1. Standing(m) /\ Support(m)' = Support(m)
      BY <1>1, <1>2, <1>5, <1>6, <2>2 DEF Standing, Support
    <3>2. currentTerm'[m] = currentTerm[m]
      BY <1>1, <1>5 DEF Standing
    <3> QED BY <1>2, <3>1, <3>2 DEF Kept, ElectionInv, SupportIsPledged
  <2> QED BY <2>1, <2>2
<1>8. RolesForward
  <2> SUFFICES ASSUME NEW m \in Nodes, role'[m] # "FOLLOWER"
               PROVE  /\ votedFor'[m] = m /\ currentTerm'[m] = currentTerm[m]
                      /\ role'[m] = role[m]
    BY DEF RolesForward
  <2>1. CASE m = v
    <3>1. ~newer /\ role'[m] = role[m]
      BY <1>5, <2>1
    <3>2. votedFor[v] = v
      BY <2>1, <3>1 DEF ElectionInv, OwnVote
    <3>3. ~grant
      BY <1>1, <1>3, <3>1, <3>2, NodesAssumption
    <3> QED BY <1>5, <2>1, <3>1, <3>2, <3>3
  <2>2. CASE m # v
    BY <1>5, <2>2 DEF ElectionInv, OwnVote
  <2> QED BY <2>1, <2>2
<1> QED BY <1>7, <1>8

LEMMA CallFollowerSupport ==
  ASSUME TypeOK, ElectionInv, NEW n \in Nodes, CallFollower(n)
  PROVE  SupportForward /\ RolesForward
<1> DEFINE f == target[n]
           q == rpc[n]
           newer == q.term > currentTerm[f]
           stale == q.term < currentTerm[f]
           term == IF newer THEN q.term ELSE currentTerm[f]
           vote == IF newer THEN None ELSE votedFor[f]
<1>1. f \in Nodes /\ f # n /\ pc[n] = "appendcall"
  BY CalledPeer DEF CallFollower, Calling
<1>2. /\ currentTerm' = [currentTerm EXCEPT ![f] = term]
      /\ votedFor' = [votedFor EXCEPT ![f] = vote]
      /\ role' = [role EXCEPT ![f] = IF stale THEN @ ELSE "FOLLOWER"]
      /\ \E r : reply' = [reply EXCEPT ![n] = r]
      /\ pc' = [pc EXCEPT ![n] = "appendreply"]
      /\ UNCHANGED <<target, rpc, granted>>
  BY <1>1 DEF CallFollower, HandleAppendEntries, SetTermAndVote, persistent,
              TypeOK, NodeTypes
<1>3. q.term \in Nat /\ currentTerm[f] \in Nat
  BY <1>1 DEF TypeOK, NodeTypes, CallTypes, Request
<1>4. /\ role'[f] # "FOLLOWER" => /\ currentTerm'[f] = currentTerm[f]
                                  /\ votedFor'[f] = votedFor[f]
                                  /\ role'[f] = role[f]
      /\ \A m \in Nodes \ {f} : /\ currentTerm'[m] = currentTerm[m]
                                /\ votedFor'[m] = votedFor[m]
                                /\ role'[m] = role[m]
  BY <1>1, <1>2, <1>3 DEF TypeOK, NodeTypes
<1>5. /\ pc'[n] = "appendreply"
      /\ \A m \in Nodes \ {n} : pc'[m] = pc[m] /\ reply'[m] = reply[m]
  BY <1>1, <1>2 DEF TypeOK, RoundTypes, CallTypes
<1>6. SupportForward
  <2> SUFFICES ASSUME NEW m \in Nodes, Standing(m)'
               PROVE  /\ rpc'[m].term = currentTerm'[m]
                      /\ \A v \in Support(m)' : Kept(m, v)
    BY DEF SupportForward
  <2>1. m # n
    BY <1>5 DEF Standing
  <2>2. /\ Standing(m) /\ Support(m)' = Support(m)
        /\ currentTerm'[m] = currentTerm[m]
    BY <1>1, <1>2, <1>4, <1>5, <2>1 DEF Standing, Support
  <2> QED BY <1>2, <2>2 DEF Kept, ElectionInv, SupportIsPledged
<1>7. RolesForward
  BY <1>4 DEF RolesForward, ElectionInv, OwnVote
<1> QED BY <1>6, <1>7

LEMMA FinishElectionSupport ==
  ASSUME TypeOK, ElectionInv, NEW n \in Nodes, FinishElection(n)
  PROVE  SupportForward /\ RolesForward
<1>1. /\ pc'[n] = "idle"
      /\ \A m \in Nodes \ {n} :
           /\ pc'[m] = pc[m] /\ rpc'[m] = rpc[m] /\ granted'[m] = granted[m]
           /\ reply'[m] = reply[m] /\ target'[m] = target[m]
  BY DEF FinishElection, EndRound, TypeOK, RoundTypes, CallTypes
<1>2. /\ UNCHANGED <<currentTerm, votedFor>>
      /\ \A m \in Nodes \ {n} : role'[m] = role[m]
  BY DEF FinishElection, persistent, TypeOK, NodeTypes
<1>3. \/ role'[n] = role[n]
      \/ /\ role[n] = "CANDIDATE"
         /\ Cardinality(granted[n]) >= ElectionMajority
  BY DEF FinishElection
<1>4. SupportForward
  <2> SUFFICES ASSUME NEW m \in Nodes, Standing(m)'
               PROVE  /\ rpc'[m].term = currentTerm'[m]
                      /\ \A v \in Support(m)' : Kept(m, v)
    BY DEF SupportForward
  <2>1. m # n
    BY <1>1 DEF Standing
  <2>2. Standing(m) /\ Support(m)' = Support(m)
    BY <1>1, <1>2, <2>1 DEF Standing, Support
  <2> QED BY <1>1, <1>2, <2>1, <2>2 DEF Kept, ElectionInv, SupportIsPledged
<1>5. RolesForward
  <2>1. ASSUME role'[n] # role[n]
        PROVE  votedFor[n] = n /\ Elected(n)
    <3>1. role[n] = "CANDIDATE" /\ pc[n] = "election"
      BY <1>3, <2>1 DEF FinishElection
    <3>2. Support(n) = granted[n]
      BY <3>1 DEF Support
    <3>3. granted[n] \in Quorums
      BY <1>3, <2>1 DEF Quorums, TypeOK, RoundTypes
    <3> QED BY <3>1, <3>2, <3>3 DEF Elected, Standing, ElectionInv, OwnVote
  <2> QED BY <1>2, <2>1 DEF RolesForward, ElectionInv, OwnVote
<1> QED BY <1>4, <1>5

LEMMA ReceiveVoteSupport ==
  ASSUME TypeOK, ElectionInv, NEW n \in Nodes, ReceiveVote(n)
  PROVE  SupportForward /\ RolesForward
<1>1. pc[n] = "votereply" /\ reply[n].term \in Nat
  BY DEF ReceiveVote, TypeOK, CallTypes, Reply
<1>2. CASE BecomeFollower(n, reply[n].term) /\ EndRound(n)
  BY <1>1, <1>2, StepDownSupport
<1>3. CASE EndRound(n) /\ UNCHANGED <<persistent, role>>
  <2>1. /\ pc'[n] = "idle"
        /\ \A m \in Nodes \ {n} :
             /\ pc'[m] = pc[m] /\ rpc'[m] = rpc[m] /\ granted'[m] = granted[m]
             /\ reply'[m] = reply[m] /\ target'[m] = target[m]
    BY <1>3 DEF EndRound, TypeOK, RoundTypes, CallTypes
  <2> QED BY <1>3, <2>1, QuietSupport DEF Standing, Support
<1>4. CASE /\ granted' = [granted EXCEPT ![n] =
                             IF reply[n].ok THEN @ \cup {target[n]} ELSE @]
           /\ pc'     = [pc EXCEPT ![n] = "election"]
           /\ target' = [target EXCEPT ![n] = None]
           /\ reply'  = [reply EXCEPT ![n] = NoReply]
           /\ role[n] = "CANDIDATE"
           /\ UNCHANGED <<persistent, role, rpc>>
  <2>1. /\ pc'[n] = "election"
        /\ granted'[n] = IF reply[n].ok THEN granted[n] \cup {target[n]}
                         ELSE granted[n]
        /\ \A m \in Nodes \ {n} :
             /\ pc'[m] = pc[m] /\ granted'[m] = granted[m]
             /\ reply'[m] = reply[m] /\ target'[m] = target[m]
    BY <1>4 DEF TypeOK, RoundTypes, CallTypes
  <2>2. Standing(n) /\ Support(n)' = Support(n)
    BY <1>1, <1>4, <2>1 DEF Standing, Support
  <2>3. \A m \in Nodes \ {n} : /\ Standing(m)' => Standing(m)
                               /\ Support(m)' = Support(m)
    BY <1>4, <2>1 DEF Standing, Support
  <2> QED BY <1>4, <2>2, <2>3, QuietSupport
<1> QED BY <1>2, <1>3, <1>4 DEF ReceiveVote

\* The steps of a heartbeat round leave elections alone; so do clients, the
\* bus and the owners.
LEMMA RoundSupport ==
  ASSUME TypeOK, ElectionInv, NEW n \in Nodes, NEW p \in Nodes,
         \/ LookupVoter(n, p) \/ StartHeartbeats(n) \/ BuildAppend(n, p)
         \/ LookupFollower(n) \/ FinishHeartbeats(n)
  PROVE  SupportForward /\ RolesForward
<1>1. UNCHANGED <<persistent, role>>
  BY DEF LookupVoter, StartHeartbeats, BuildAppend, LookupFollower,
         FinishHeartbeats
<1>2. \A m \in Nodes \ {n} :
        /\ pc'[m] = pc[m] /\ rpc'[m] = rpc[m] /\ granted'[m] = granted[m]
        /\ reply'[m] = reply[m] /\ target'[m] = target[m]
  BY DEF LookupVoter, StartHeartbeats, BuildAppend, LookupFollower, NextPeer,
         FinishHeartbeats, EndRound, TypeOK, RoundTypes, CallTypes
<1>3. CASE LookupVoter(n, p)
  <2>1. pc[n] = "election" /\ pc'[n] \in {"election", "votecall"}
    BY <1>3 DEF LookupVoter, TypeOK, RoundTypes
  <2>2. UNCHANGED <<rpc, granted>>
    BY <1>3 DEF LookupVoter
  <2> QED BY <1>1, <1>2, <2>1, <2>2, QuietSupport DEF Standing, Support
<1>4. CASE ~LookupVoter(n, p)
  <2>1. pc'[n] \notin {"election", "votecall", "votereply"}
    BY <1>4 DEF StartHeartbeats, BuildAppend, LookupFollower, NextPeer,
                FinishHeartbeats, EndRound, TypeOK, RoundTypes
  <2> QED BY <1>1, <1>2, <2>1, QuietSupport DEF Standing, Support
<1> QED BY <1>3, <1>4

LEMMA OutsideSupport ==
  ASSUME TypeOK, ElectionInv, NEW n \in Nodes,
         \/ OwnerStep(n) \/ \E c \in Commands : SubmitCommand(n, c)
         \/ UNCHANGED vars
  PROVE  SupportForward /\ RolesForward
<1>1. CASE Reload(n)
  <2>1. UNCHANGED <<currentTerm, votedFor>>
    BY <1>1 DEF Reload, ElectionInv, StoreIsCurrent, TypeOK, NodeTypes
  <2>2. /\ role'[n] = "FOLLOWER"
        /\ \A m \in Nodes \ {n} : role'[m] = role[m]
    BY <1>1 DEF Reload, TypeOK, NodeTypes
  <2>3. UNCHANGED thread
    BY <1>1 DEF Reload
  <2>4. SupportForward
    BY <2>1, <2>2, <2>3 DEF SupportForward, Standing, Support, Kept, thread,
                            ElectionInv, SupportIsPledged
  <2>5. RolesForward
    BY <2>1, <2>2 DEF RolesForward, ElectionInv, OwnVote
  <2> QED BY <2>4, <2>5
<1>2. CASE ~Reload(n)
  <2>1. UNCHANGED <<persistent, role, thread>>
    BY <1>2 DEF OwnerStep, Partition, Heal, SetIsolated, Stop, vars,
                RegisterVoteHandler, RegisterAppendHandler, SubmitCommand
  <2> QED BY <2>1, QuietSupport DEF Standing, Support, thread
<1> QED BY <1>1, <1>2

LEMMA ReceiveAppendSupport ==
  ASSUME TypeOK, ElectionInv, NEW n \in Nodes, ReceiveAppend(n)
  PROVE  SupportForward /\ RolesForward
<1>1. reply[n].term \in Nat
  BY DEF TypeOK, CallTypes, Reply
<1>2. CASE BecomeFollower(n, reply[n].term) /\ EndRound(n)
  BY <1>1, <1>2, StepDownSupport
<1>3. ASSUME UNCHANGED <<persistent, role>>, pc'[n] \in {"idle", "heartbeat"},
             \A m \in Nodes \ {n} :
               /\ pc'[m] = pc[m] /\ rpc'[m] = rpc[m] /\ granted'[m] = granted[m]
               /\ reply'[m] = reply[m] /\ target'[m] = target[m]
      PROVE  SupportForward /\ RolesForward
  BY <1>3, QuietSupport DEF Standing, Support
<1>4. CASE /\ EndRound(n)
           /\ UNCHANGED <<persistent, role, leaderId, commitIndex, indices>>
  BY <1>3, <1>4 DEF EndRound, TypeOK, RoundTypes, CallTypes
<1>5. CASE NextPeer(n) /\ UNCHANGED <<persistent, role, leaderId, todo, granted>>
  BY <1>3, <1>5 DEF NextPeer, TypeOK, RoundTypes, CallTypes
<1> QED BY <1>2, <1>4, <1>5 DEF ReceiveAppend

\* Every step of every thread, client and owner moves support and roles forward.
LEMMA SupportStep ==
  ASSUME TypeOK, ElectionInv, [Next]_vars
  PROVE  SupportForward /\ RolesForward
<1>1. ASSUME NEW n \in Nodes, BecomeCandidate(n) \/ RoundStep(n)
      PROVE  SupportForward /\ RolesForward
  BY <1>1, CandidateSupport, SnapshotSupport, CallVoterSupport,
     ReceiveVoteSupport, FinishElectionSupport, CallFollowerSupport,
     ReceiveAppendSupport, RoundSupport DEF RoundStep
<1>2. ASSUME NEW n \in Nodes, NEW c \in Commands, SubmitCommand(n, c)
      PROVE  SupportForward /\ RolesForward
  BY <1>2, OutsideSupport
<1>3. ASSUME NEW n \in Faulty, OwnerStep(n)
      PROVE  SupportForward /\ RolesForward
  BY <1>3, OutsideSupport, NodesAssumption
<1>4. CASE UNCHANGED vars
  BY <1>4, OutsideSupport, NodesAssumption
<1> QED BY <1>1, <1>2, <1>3, <1>4 DEF Next
-----------------------------------------------------------------------------
(***************************************************************************)
(* The majority the code computes from the peers alone is a majority of    *)
(* the members only when their number is odd.                              *)
(***************************************************************************)
OddCluster == \E k \in Nat : Cardinality(Nodes) = 2 * k + 1

LEMMA QuorumsIntersect ==
  ASSUME OddCluster, NEW Q \in Quorums, NEW R \in Quorums
  PROVE  \E v \in Nodes : v \in Q /\ v \in R
<1>1. PICK k \in Nat : Cardinality(Nodes) = 2 * k + 1
  BY DEF OddCluster
<1>2. ElectionMajority = k + 1
  BY <1>1 DEF ElectionMajority
<1>3. /\ Q \subseteq Nodes /\ R \subseteq Nodes
      /\ Cardinality(Q) >= k + 1 /\ Cardinality(R) >= k + 1
  BY <1>2 DEF Quorums
<1>4. /\ Cardinality(Q) \in Nat /\ Cardinality(R) \in Nat
      /\ IsFiniteSet(Nodes)
  BY <1>3, NodesAssumption, FS_Subset, FS_CardinalityType
<1>5. Cardinality(Q) + Cardinality(R) > Cardinality(Nodes)
  BY <1>1, <1>3, <1>4
<1> QED BY <1>3, <1>4, <1>5, FS_MajoritiesIntersect

\* One step keeps the invariant: whoever gains a vote gains one cast in its own
\* term, which no one it competes with can hold.
LEMMA ElectionStep ==
  ASSUME OddCluster, TypeOK, ElectionInv, [Next]_vars
  PROVE  ElectionInv'
<1>1. VotesForward /\ StoreIsCurrent' /\ SupportForward /\ RolesForward
  BY VotesStep, SupportStep DEF ElectionInv
<1>2. OwnVote'
  BY <1>1 DEF OwnVote, RolesForward
<1>3. ASSUME NEW n \in Nodes, NEW v \in Nodes, Pledged(v, n),
             currentTerm'[n] = currentTerm[n]
      PROVE  Pledged(v, n)'
  BY <1>1, <1>3, NextType, NodesAssumption
     DEF VotesForward, Pledged, TypeOK, NodeTypes
<1>5. SupportIsPledged'
  <2> SUFFICES ASSUME NEW n \in Nodes, Standing(n)', NEW v \in Support(n)'
               PROVE  Pledged(v, n)'
    BY <1>1 DEF SupportIsPledged, SupportForward
  <2>1. CASE Kept(n, v)
    <3>1. v \in Nodes /\ Pledged(v, n)
      BY <2>1 DEF Kept, ElectionInv, SupportIsPledged, Support, TypeOK,
                  RoundTypes, Peers, Calling
    <3> QED BY <1>3, <2>1, <3>1 DEF Kept
  <2>2. CASE Cast(n, v)
    BY <2>2 DEF Cast, Pledged
  <2> QED BY <1>1, <2>1, <2>2 DEF SupportForward
\* No vote of a pledged node goes to a rival
<1>6. ASSUME NEW n \in Nodes, NEW v \in Nodes, Pledged(v, n)',
             NEW m \in Nodes, Rivals(n, m)'
      PROVE  ~Cast(m, v)
  <2>1. /\ currentTerm'[v] \in Nat /\ currentTerm'[n] \in Nat
        /\ currentTerm'[m] = currentTerm'[n] /\ n # m
    BY <1>6, NextType DEF TypeOK, NodeTypes, Rivals
  <2> QED BY <1>6, <2>1 DEF Pledged, Cast
<1>7. SupportIsExclusive'
  <2> SUFFICES ASSUME NEW n \in Nodes, NEW m \in Nodes, Standing(n)',
                      Standing(m)', Rivals(n, m)',
                      NEW v, v \in Support(n)', v \in Support(m)'
               PROVE  FALSE
    BY DEF SupportIsExclusive
  <2>1. v \in Nodes
    BY NextType DEF Support, TypeOK, RoundTypes, Calling, Peers
  <2>2. Pledged(v, n)' /\ Pledged(v, m)' /\ Rivals(m, n)'
    BY <1>5 DEF SupportIsPledged, Rivals
  <2>3. Kept(n, v) /\ Kept(m, v)
    BY <1>1, <1>6, <2>1, <2>2 DEF SupportForward
  <2> QED BY <2>3 DEF Kept, Rivals, ElectionInv, SupportIsExclusive
<1>8. LeaderHasQuorum'
  <2> SUFFICES ASSUME NEW n \in Nodes, role'[n] = "LEADER"
               PROVE  \E Q \in Quorums : \A v \in Q :
                        /\ Pledged(v, n)'
                        /\ \A m \in Nodes : Standing(m)' /\ Rivals(n, m)'
                             => v \notin Support(m)'
    BY DEF LeaderHasQuorum, Quorums, ElectionMajority
  <2>1. currentTerm'[n] = currentTerm[n]
    BY <1>1 DEF RolesForward
  <2>2. ASSUME NEW Q \in Quorums, NEW v \in Q, Pledged(v, n),
               \A m \in Nodes : Standing(m) /\ Rivals(n, m)
                 => v \notin Support(m)
        PROVE  /\ Pledged(v, n)'
               /\ \A m \in Nodes : Standing(m)' /\ Rivals(n, m)'
                    => v \notin Support(m)'
    <3>1. v \in Nodes /\ Pledged(v, n)'
      BY <1>3, <2>1, <2>2 DEF Quorums
    <3>2. ASSUME NEW m \in Nodes, Standing(m)', Rivals(n, m)', v \in Support(m)'
          PROVE  FALSE
      <4>1. Kept(m, v)
        BY <1>1, <1>6, <3>1, <3>2 DEF SupportForward
      <4> QED BY <2>1, <2>2, <3>2, <4>1 DEF Kept, Rivals
    <3> QED BY <3>1, <3>2
  <2>3. CASE role[n] = "LEADER"
    <3>1. PICK Q \in Quorums : \A v \in Q :
            /\ Pledged(v, n)
            /\ \A m \in Nodes : Standing(m) /\ Rivals(n, m) => v \notin Support(m)
      BY <2>3 DEF ElectionInv, LeaderHasQuorum
    <3> QED BY <2>2, <3>1
  <2>4. CASE Elected(n)
    <3>1. Support(n) \in Quorums
      BY <2>4 DEF Elected
    <3>2. \A v \in Support(n) :
            /\ Pledged(v, n)
            /\ \A m \in Nodes : Standing(m) /\ Rivals(n, m) => v \notin Support(m)
      BY <2>4 DEF Elected, ElectionInv, SupportIsPledged, SupportIsExclusive
    <3> QED BY <2>2, <3>1, <3>2
  <2> QED BY <1>1, <2>3, <2>4 DEF RolesForward
<1>9. ElectionSafety'
  <2> SUFFICES ASSUME NEW n \in Nodes, NEW m \in Nodes, role'[n] = "LEADER",
                      role'[m] = "LEADER", currentTerm'[n] = currentTerm'[m],
                      n # m
               PROVE  FALSE
    BY DEF ElectionSafety
  <2>1. Rivals(n, m) /\ Rivals(m, n)
    BY <1>1 DEF RolesForward, Rivals
  <2>2. ASSUME NEW k \in Nodes, NEW l \in Nodes, Rivals(k, l),
               role[k] = "LEADER", Elected(l)
        PROVE  FALSE
    <3>1. PICK Q \in Quorums : \A v \in Q :
            \A j \in Nodes : Standing(j) /\ Rivals(k, j) => v \notin Support(j)
      BY <2>2 DEF ElectionInv, LeaderHasQuorum
    <3> QED BY <2>2, <3>1, QuorumsIntersect DEF Elected
  <2>3. CASE role[n] = "LEADER" /\ role[m] = "LEADER"
    BY <2>1, <2>3 DEF ElectionInv, ElectionSafety, Rivals
  <2>4. CASE Elected(n) /\ Elected(m)
    <3>1. \E v \in Nodes : v \in Support(n) /\ v \in Support(m)
      BY <2>4, QuorumsIntersect DEF Elected
    <3> QED BY <2>1, <2>4, <3>1 DEF Elected, ElectionInv, SupportIsExclusive
  <2> QED BY <1>1, <2>1, <2>2, <2>3, <2>4 DEF RolesForward
<1> QED BY <1>1, <1>2, <1>5, <1>7, <1>8, <1>9 DEF ElectionInv

LEMMA InitElection == Init => ElectionInv
  BY InitStore
     DEF Init, ElectionInv, OwnVote, SupportIsPledged, SupportIsExclusive,
         LeaderHasQuorum, ElectionSafety, Standing

\* In a cluster of odd size the inductive invariant of elections holds.
THEOREM ElectionInvariant == OddCluster => (Spec => []ElectionInv)
<1> SUFFICES ASSUME OddCluster PROVE Spec => []ElectionInv
  OBVIOUS
<1>1. TypeOK /\ ElectionInv /\ [Next]_vars => ElectionInv'
  BY ElectionStep
<1> QED BY <1>1, InitElection, TypeCorrect, PTL DEF Spec

\* In a cluster of odd size no two nodes are ever leader of the same term; the
\* run raft_even shows that the assumption is needed.
THEOREM OneLeaderPerTerm == OddCluster => (Spec => []ElectionSafety)
<1> SUFFICES ASSUME OddCluster PROVE Spec => []ElectionSafety
  OBVIOUS
<1>1. ElectionInv => ElectionSafety
  BY DEF ElectionInv
<1> QED BY <1>1, ElectionInvariant, PTL

(***************************************************************************)
(* Claims.  A node claims a term while it leads it, while its thread is    *)
(* still in a heartbeat round of it, and as long as someone takes it for   *)
(* the leader of that term.                                                *)
(***************************************************************************)
InRound(n) ==
  pc[n] \in {"heartbeat", "appendlookup", "appendcall", "appendreply"}
Claims(l, t) ==
  \/ role[l] = "LEADER" /\ currentTerm[l] = t
  \/ InRound(l) /\ rpc[l].term = t
  \/ \E m \in Nodes : leaderId[m] = l /\ currentTerm[m] = t

\* What outlives the leadership: a quorum can vote for nobody else in term t,
\* and no vote of theirs is left on its way to another candidate of it
Loyal(v, l, t) ==
  \/ currentTerm[v] > t
  \/ currentTerm[v] = t /\ votedFor[v] = l
Unclaimed(v, t) ==
  \A m \in Nodes : Standing(m) /\ currentTerm[m] = t => v \notin Support(m)
Won(l, t) ==
  /\ Loyal(l, l, t)
  /\ ~(role[l] = "CANDIDATE" /\ currentTerm[l] = t)
  /\ \E Q \in Quorums : \A v \in Q : Loyal(v, l, t) /\ Unclaimed(v, t)

ClaimInv ==
  /\ \A l \in Nodes, t \in Nat : Claims(l, t) => Won(l, t)
  /\ \A l, m \in Nodes, t \in Nat : Claims(l, t) /\ Claims(m, t) => l = m
  /\ \A n \in Nodes : InRound(n) /\ role[n] = "LEADER"
                        => rpc[n].term = currentTerm[n]

\* What one step does to candidates, rounds and the leaders nodes know
CandidatesForward ==
  \A l \in Nodes : role'[l] = "CANDIDATE" =>
    \/ role[l] = "CANDIDATE" /\ currentTerm'[l] = currentTerm[l]
    \/ currentTerm'[l] > currentTerm[l]
RoundsForward ==
  \A l \in Nodes : InRound(l)' =>
    \/ /\ InRound(l) /\ rpc'[l].term = rpc[l].term
       /\ role'[l] = "LEADER" => role[l] = "LEADER"
    \/ /\ role[l] = "LEADER" /\ rpc'[l].term = currentTerm'[l]
       /\ currentTerm'[l] = currentTerm[l]
KnownForward ==
  \A m \in Nodes : leaderId'[m] # None =>
    \/ leaderId'[m] = leaderId[m] /\ currentTerm'[m] = currentTerm[m]
    \/ \E l \in Nodes : /\ leaderId'[m] = l /\ InRound(l)
                        /\ rpc[l].term = currentTerm'[m]
    \/ leaderId'[m] = m /\ role'[m] = "LEADER"
ClaimForward == CandidatesForward /\ RoundsForward /\ KnownForward

LEMMA CandidateClaim ==
  ASSUME TypeOK, NEW n \in Nodes, BecomeCandidate(n)
  PROVE  ClaimForward
<1>1. /\ currentTerm[n] + 1 > currentTerm[n]
      /\ currentTerm'[n] = currentTerm[n] + 1
      /\ leaderId'[n] = None /\ pc'[n] = "candidate"
      /\ \A m \in Nodes \ {n} :
           /\ currentTerm'[m] = currentTerm[m] /\ role'[m] = role[m]
           /\ leaderId'[m] = leaderId[m] /\ pc'[m] = pc[m]
      /\ UNCHANGED rpc
  BY DEF BecomeCandidate, SetTermAndVote, TypeOK, NodeTypes, RoundTypes
<1> QED BY <1>1 DEF ClaimForward, CandidatesForward, RoundsForward,
                    KnownForward, InRound

LEMMA CallVoterClaim ==
  ASSUME TypeOK, NEW n \in Nodes, CallVoter(n)
  PROVE  ClaimForward
<1> DEFINE v == target[n]
           newer == rpc[n].term > currentTerm[v]
<1>1. v \in Nodes
  BY CalledPeer DEF CallVoter, Calling
<1>2. /\ currentTerm'[v] = (IF newer THEN rpc[n].term ELSE currentTerm[v])
      /\ role'[v] = (IF newer THEN "FOLLOWER" ELSE role[v])
      /\ leaderId'[v] = (IF newer THEN None ELSE leaderId[v])
      /\ \A m \in Nodes \ {v} : /\ currentTerm'[m] = currentTerm[m]
                                /\ role'[m] = role[m]
                                /\ leaderId'[m] = leaderId[m]
  BY <1>1 DEF CallVoter, HandleRequestVote, SetTermAndVote, persistent, TypeOK,
              NodeTypes
<1>3. /\ pc'[n] = "votereply" /\ UNCHANGED rpc
      /\ \A m \in Nodes \ {n} : pc'[m] = pc[m]
  BY DEF CallVoter, TypeOK, RoundTypes
<1> HIDE DEF v, newer
<1> QED BY <1>1, <1>2, <1>3 DEF ClaimForward, CandidatesForward, RoundsForward,
                                KnownForward, InRound

LEMMA CallFollowerClaim ==
  ASSUME TypeOK, NEW n \in Nodes, CallFollower(n)
  PROVE  ClaimForward
<1> DEFINE f == target[n]
           t == rpc[n].term
<1>1. f \in Nodes /\ pc[n] = "appendcall"
  BY CalledPeer DEF CallFollower, Calling
<1>2. t \in Nat /\ currentTerm[f] \in Nat
  BY <1>1 DEF TypeOK, NodeTypes, CallTypes, Request
<1>3. /\ currentTerm'[f] = (IF t > currentTerm[f] THEN t ELSE currentTerm[f])
      /\ role'[f] = (IF t < currentTerm[f] THEN role[f] ELSE "FOLLOWER")
      /\ leaderId'[f] = (IF t < currentTerm[f] THEN leaderId[f] ELSE n)
      /\ \A m \in Nodes \ {f} : /\ currentTerm'[m] = currentTerm[m]
                                /\ role'[m] = role[m]
                                /\ leaderId'[m] = leaderId[m]
  BY <1>1 DEF CallFollower, HandleAppendEntries, SetTermAndVote, persistent,
              TypeOK, NodeTypes
<1>4. /\ pc'[n] = "appendreply" /\ UNCHANGED rpc
      /\ \A m \in Nodes \ {n} : pc'[m] = pc[m]
  BY DEF CallFollower, TypeOK, RoundTypes
<1> HIDE DEF f, t
<1>5. CandidatesForward /\ RoundsForward
  BY <1>1, <1>2, <1>3, <1>4 DEF CandidatesForward, RoundsForward, InRound
<1>6. KnownForward
  <2>1. CASE t < currentTerm[f]
    BY <1>2, <1>3, <2>1 DEF KnownForward
  <2>2. CASE ~(t < currentTerm[f])
    <3>1. currentTerm'[f] = t /\ leaderId'[f] = n
      BY <1>2, <1>3, <2>2
    <3>2. InRound(n) /\ rpc[n].term = currentTerm'[f]
      BY <1>1, <3>1 DEF InRound, t
    <3> QED BY <1>3, <3>1, <3>2 DEF KnownForward
  <2> QED BY <2>1, <2>2
<1> QED BY <1>5, <1>6 DEF ClaimForward

\* A node that steps down for a later term ends its round
LEMMA StepDownClaim ==
  ASSUME TypeOK, NEW n \in Nodes, NEW term \in Nat,
         BecomeFollower(n, term), EndRound(n)
  PROVE  ClaimForward
<1>1. /\ role'[n] = "FOLLOWER" /\ leaderId'[n] = None /\ pc'[n] = "idle"
      /\ \A m \in Nodes \ {n} :
           /\ currentTerm'[m] = currentTerm[m] /\ role'[m] = role[m]
           /\ leaderId'[m] = leaderId[m] /\ pc'[m] = pc[m] /\ rpc'[m] = rpc[m]
  BY DEF BecomeFollower, SetTermAndVote, EndRound, TypeOK, NodeTypes, RoundTypes,
         CallTypes
<1> QED BY <1>1 DEF ClaimForward, CandidatesForward, RoundsForward,
                    KnownForward, InRound

\* A step that changes no term, role or known leader and keeps the term of
\* every round that goes on
LEMMA QuietClaim ==
  ASSUME TypeOK, UNCHANGED <<currentTerm, role, leaderId>>,
         \A l \in Nodes : InRound(l)' => InRound(l) /\ rpc'[l].term = rpc[l].term
  PROVE  ClaimForward
  BY DEF ClaimForward, CandidatesForward, RoundsForward, KnownForward

\* Rounds begin at leaders and elections end them
LEMMA RoundClaim ==
  ASSUME TypeOK, ElectionInv, NEW n \in Nodes, NEW p \in Nodes,
         \/ SnapshotElection(n) \/ LookupVoter(n, p) \/ FinishElection(n)
         \/ StartHeartbeats(n) \/ BuildAppend(n, p) \/ LookupFollower(n)
         \/ FinishHeartbeats(n)
  PROVE  ClaimForward
<1>1. CASE StartHeartbeats(n)
  <2>1. /\ UNCHANGED <<currentTerm, role, leaderId>>
        /\ role[n] = "LEADER" /\ rpc'[n].term = currentTerm[n]
        /\ \A m \in Nodes \ {n} : pc'[m] = pc[m] /\ rpc'[m] = rpc[m]
    BY <1>1 DEF StartHeartbeats, Heartbeat, persistent, TypeOK, RoundTypes,
                CallTypes
  <2>2. RoundsForward
    BY <2>1 DEF RoundsForward, InRound
  <2> QED BY <2>1, <2>2 DEF ClaimForward, CandidatesForward, KnownForward
<1>2. CASE FinishElection(n)
  <2>1. /\ pc'[n] = "idle"
        /\ \A m \in Nodes \ {n} : pc'[m] = pc[m] /\ rpc'[m] = rpc[m]
    BY <1>2 DEF FinishElection, EndRound, TypeOK, RoundTypes, CallTypes
  <2>2. \/ UNCHANGED <<role, leaderId>>
        \/ /\ role' = [role EXCEPT ![n] = "LEADER"]
           /\ leaderId' = [leaderId EXCEPT ![n] = n]
    BY <1>2 DEF FinishElection
  <2>3. /\ UNCHANGED currentTerm
        /\ \/ UNCHANGED <<role, leaderId>>
           \/ role'[n] = "LEADER" /\ leaderId'[n] = n
        /\ \A m \in Nodes \ {n} : role'[m] = role[m] /\ leaderId'[m] = leaderId[m]
    BY <1>2, <2>2 DEF FinishElection, persistent, TypeOK, NodeTypes
  <2> QED BY <2>1, <2>3 DEF ClaimForward, CandidatesForward, RoundsForward,
                      KnownForward, InRound
<1>3. CASE SnapshotElection(n) \/ LookupVoter(n, p)
  <2>1. /\ UNCHANGED <<currentTerm, role, leaderId>>
        /\ ~InRound(n)'
        /\ \A m \in Nodes \ {n} : pc'[m] = pc[m] /\ rpc'[m] = rpc[m]
    BY <1>3 DEF SnapshotElection, LookupVoter, InRound, persistent, TypeOK,
                RoundTypes, CallTypes
  <2> QED BY <2>1, QuietClaim DEF InRound
<1>4. CASE BuildAppend(n, p) \/ LookupFollower(n) \/ FinishHeartbeats(n)
  <2>1. /\ UNCHANGED <<currentTerm, role, leaderId>> /\ InRound(n)
        /\ \A m \in Nodes \ {n} : pc'[m] = pc[m] /\ rpc'[m] = rpc[m]
    BY <1>4 DEF BuildAppend, LookupFollower, FinishHeartbeats, NextPeer,
                EndRound, InRound, persistent, TypeOK, RoundTypes, CallTypes
  <2>2. rpc'[n].term = rpc[n].term \/ pc'[n] = "idle"
    BY <1>4 DEF BuildAppend, LookupFollower, FinishHeartbeats, NextPeer,
                Heartbeat, EndRound, TypeOK, RoundTypes, CallTypes
  <2> QED BY <2>1, <2>2, QuietClaim DEF InRound
<1> QED BY <1>1, <1>2, <1>3, <1>4

LEMMA ReceiveClaim ==
  ASSUME TypeOK, NEW n \in Nodes, ReceiveVote(n) \/ ReceiveAppend(n)
  PROVE  ClaimForward
<1>1. reply[n].term \in Nat
  BY DEF TypeOK, CallTypes, Reply
<1>2. CASE BecomeFollower(n, reply[n].term) /\ EndRound(n)
  BY <1>1, <1>2, StepDownClaim
<1>3. CASE /\ UNCHANGED <<persistent, role, leaderId>>
           /\ \/ EndRound(n)
              \/ pc' = [pc EXCEPT ![n] = "election"] /\ UNCHANGED rpc
  <2>1. /\ UNCHANGED <<currentTerm, role, leaderId>> /\ ~InRound(n)'
        /\ \A m \in Nodes \ {n} : pc'[m] = pc[m] /\ rpc'[m] = rpc[m]
    BY <1>3 DEF EndRound, InRound, persistent, TypeOK, RoundTypes, CallTypes
  <2> QED BY <2>1, QuietClaim DEF InRound
<1>4. CASE /\ UNCHANGED <<persistent, role, leaderId>>
           /\ pc[n] = "appendreply" /\ NextPeer(n)
  <2>1. /\ UNCHANGED <<currentTerm, role, leaderId>> /\ InRound(n)
        /\ rpc'[n].term = rpc[n].term
        /\ \A m \in Nodes \ {n} : pc'[m] = pc[m] /\ rpc'[m] = rpc[m]
    BY <1>4 DEF NextPeer, Heartbeat, InRound, persistent, TypeOK, RoundTypes,
                CallTypes
  <2> QED BY <2>1, QuietClaim DEF InRound
<1>5. CASE ReceiveVote(n)
  BY <1>2, <1>3, <1>5 DEF ReceiveVote
<1>6. CASE ReceiveAppend(n)
  BY <1>2, <1>3, <1>4, <1>6 DEF ReceiveAppend
<1> QED BY <1>5, <1>6

LEMMA OutsideClaim ==
  ASSUME TypeOK, ElectionInv, NEW n \in Nodes,
         \/ OwnerStep(n) \/ \E c \in Commands : SubmitCommand(n, c)
         \/ UNCHANGED vars
  PROVE  ClaimForward
<1>1. CASE Reload(n)
  <2>1. /\ UNCHANGED <<currentTerm, pc, rpc>>
        /\ role'[n] = "FOLLOWER" /\ leaderId'[n] = None
        /\ \A m \in Nodes \ {n} : role'[m] = role[m] /\ leaderId'[m] = leaderId[m]
    BY <1>1 DEF Reload, thread, ElectionInv, StoreIsCurrent, TypeOK, NodeTypes
  <2> QED BY <2>1 DEF ClaimForward, CandidatesForward, RoundsForward,
                      KnownForward, InRound
<1>2. CASE ~Reload(n)
  <2>1. UNCHANGED <<persistent, role, leaderId, thread>>
    BY <1>2 DEF OwnerStep, Partition, Heal, SetIsolated, Stop, vars,
                RegisterVoteHandler, RegisterAppendHandler, SubmitCommand
  <2> QED BY <2>1, QuietClaim DEF InRound, persistent, thread
<1> QED BY <1>1, <1>2

LEMMA ClaimStep ==
  ASSUME TypeOK, ElectionInv, [Next]_vars
  PROVE  ClaimForward
<1>1. ASSUME NEW n \in Nodes, BecomeCandidate(n) \/ RoundStep(n)
      PROVE  ClaimForward
  BY <1>1, CandidateClaim, CallVoterClaim, CallFollowerClaim, RoundClaim,
     ReceiveClaim DEF RoundStep
<1>2. ASSUME NEW n \in Nodes, NEW c \in Commands, SubmitCommand(n, c)
      PROVE  ClaimForward
  BY <1>2, OutsideClaim
<1>3. ASSUME NEW n \in Faulty, OwnerStep(n)
      PROVE  ClaimForward
  BY <1>3, OutsideClaim, NodesAssumption
<1>4. CASE UNCHANGED vars
  BY <1>4, OutsideClaim, NodesAssumption
<1> QED BY <1>1, <1>2, <1>3, <1>4 DEF Next

\* What was won stays won
LEMMA LoyalStep ==
  ASSUME TypeOK, ElectionInv, [Next]_vars, NEW v \in Nodes, NEW l \in Nodes,
         NEW t \in Nat, Loyal(v, l, t)
  PROVE  Loyal(v, l, t)'
<1>1. VotesForward /\ TypeOK'
  BY VotesStep, NextType DEF ElectionInv
<1> QED BY <1>1, NodesAssumption DEF VotesForward, Loyal, TypeOK, NodeTypes

LEMMA WonStep ==
  ASSUME TypeOK, ElectionInv, [Next]_vars,
         NEW l \in Nodes, NEW t \in Nat, Won(l, t)
  PROVE  Won(l, t)'
<1>1. SupportForward /\ CandidatesForward /\ TypeOK'
  BY SupportStep, ClaimStep, NextType DEF ClaimForward
<1>2. Loyal(l, l, t)'
  BY LoyalStep DEF Won
<1>3. ~(role'[l] = "CANDIDATE" /\ currentTerm'[l] = t)
  BY <1>1 DEF CandidatesForward, Won, Loyal, TypeOK, NodeTypes
<1>4. PICK Q \in Quorums : \A v \in Q : Loyal(v, l, t) /\ Unclaimed(v, t)
  BY DEF Won
<1>5. ASSUME NEW v \in Q
      PROVE  Loyal(v, l, t)' /\ Unclaimed(v, t)'
  <2>1. v \in Nodes /\ Loyal(v, l, t)'
    BY <1>4, LoyalStep DEF Quorums
  <2>2. ASSUME NEW m \in Nodes, Standing(m)', currentTerm'[m] = t,
               v \in Support(m)'
        PROVE  FALSE
    <3>1. CASE Kept(m, v)
      BY <1>4, <2>2, <3>1 DEF Kept, Unclaimed
    <3>2. CASE Cast(m, v)
      <4>1. m = l
        BY <2>1, <2>2, <3>2, <1>1 DEF Cast, Loyal, TypeOK, NodeTypes
      <4> QED BY <1>3, <2>2, <4>1 DEF Standing
    <3> QED BY <1>1, <2>2, <3>1, <3>2 DEF SupportForward
  <2> QED BY <2>1, <2>2 DEF Unclaimed
<1>6. Q \in Quorums'
  BY <1>4 DEF Quorums, ElectionMajority
<1> QED BY <1>2, <1>3, <1>5, <1>6 DEF Won

\* Whoever is elected wins its term, and nobody has won it before
LEMMA ElectionWins ==
  ASSUME TypeOK, ElectionInv, [Next]_vars, NEW n \in Nodes, Elected(n),
         role'[n] = "LEADER", NEW t \in Nat, t = currentTerm[n]
  PROVE  Won(n, t)'
<1>1. /\ SupportForward /\ CandidatesForward /\ VotesForward /\ RolesForward
      /\ TypeOK'
  BY SupportStep, VotesStep, ClaimStep, NextType DEF ClaimForward, ElectionInv
<1>2. votedFor'[n] = n /\ currentTerm'[n] = t
  BY <1>1 DEF RolesForward
<1>3. ASSUME NEW v \in Support(n)
      PROVE  Loyal(v, n, t)' /\ Unclaimed(v, t)'
  <2>1. v \in Nodes
    BY DEF Support, Elected, Standing, TypeOK, RoundTypes, Calling, Peers
  <2>2. Pledged(v, n)
    BY DEF Elected, ElectionInv, SupportIsPledged
  <2>3. Loyal(v, n, t)'
    BY <2>1, <2>2, LoyalStep, <1>2 DEF Pledged, Loyal
  <2>4. ASSUME NEW m \in Nodes, Standing(m)', currentTerm'[m] = t,
               v \in Support(m)'
        PROVE  FALSE
    <3>1. m # n
      BY <2>4 DEF Standing
    <3>2. CASE Kept(m, v)
      BY <2>4, <3>1, <3>2
         DEF Kept, Elected, ElectionInv, SupportIsExclusive, Rivals
    <3>3. CASE Cast(m, v)
      BY <1>1, <2>1, <2>3, <2>4, <3>1, <3>3 DEF Cast, Loyal, TypeOK, NodeTypes
    <3> QED BY <1>1, <2>4, <3>2, <3>3 DEF SupportForward
  <2> QED BY <2>3, <2>4 DEF Unclaimed
<1>4. Loyal(n, n, t)'
  BY <1>2 DEF Loyal
<1>5. Support(n) \in Quorums'
  BY DEF Elected, Quorums, ElectionMajority
<1> QED BY <1>2, <1>3, <1>4, <1>5 DEF Won

LEMMA ElectionIsFirst ==
  ASSUME OddCluster, NEW n \in Nodes, Elected(n), NEW l \in Nodes
  PROVE  ~Won(l, currentTerm[n])
<1> SUFFICES ASSUME Won(l, currentTerm[n]) PROVE FALSE
  OBVIOUS
<1>1. PICK Q \in Quorums : \A v \in Q : Unclaimed(v, currentTerm[n])
  BY DEF Won
<1>2. PICK v \in Nodes : v \in Q /\ v \in Support(n)
  BY QuorumsIntersect DEF Elected
<1> QED BY <1>1, <1>2 DEF Unclaimed, Elected

\* Claims are old ones or those of whoever this step elects
LEMMA ClaimsStep ==
  ASSUME TypeOK, ElectionInv, [Next]_vars,
         NEW l \in Nodes, NEW t \in Nat, Claims(l, t)'
  PROVE  \/ Claims(l, t)
         \/ Elected(l) /\ role'[l] = "LEADER" /\ currentTerm[l] = t
<1>1. RolesForward /\ RoundsForward /\ KnownForward
  BY SupportStep, ClaimStep DEF ClaimForward
<1>2. CASE role'[l] = "LEADER" /\ currentTerm'[l] = t
  BY <1>1, <1>2 DEF RolesForward, Claims
<1>3. CASE InRound(l)' /\ rpc'[l].term = t
  BY <1>1, <1>3 DEF RoundsForward, Claims
<1>4. CASE \E m \in Nodes : leaderId'[m] = l /\ currentTerm'[m] = t
  <2>1. PICK m \in Nodes : leaderId'[m] = l /\ currentTerm'[m] = t
    BY <1>4
  <2>2. l # None
    BY NodesAssumption
  <2> QED BY <1>1, <1>2, <2>1, <2>2 DEF KnownForward, Claims
<1> QED BY <1>2, <1>3, <1>4 DEF Claims

LEMMA ClaimInvStep ==
  ASSUME OddCluster, TypeOK, ElectionInv, ClaimInv, [Next]_vars
  PROVE  ClaimInv'
<1>1. ASSUME NEW l \in Nodes, NEW t \in Nat, Claims(l, t)'
      PROVE  Won(l, t)'
  BY <1>1, ClaimsStep, WonStep, ElectionWins DEF ClaimInv
<1>2. ASSUME NEW l \in Nodes, NEW m \in Nodes, NEW t \in Nat,
             Claims(l, t)', Claims(m, t)', l # m
      PROVE  FALSE
  <2>1. ASSUME NEW j \in Nodes, NEW k \in Nodes, Claims(j, t), Elected(k),
               currentTerm[k] = t
        PROVE  FALSE
    BY <2>1, ElectionIsFirst DEF ClaimInv
  <2>2. CASE Claims(l, t) /\ Claims(m, t)
    BY <1>2, <2>2 DEF ClaimInv
  <2>3. CASE /\ Elected(l) /\ currentTerm[l] = t
             /\ Elected(m) /\ currentTerm[m] = t
    <3>1. \E v \in Nodes : v \in Support(l) /\ v \in Support(m)
      BY <2>3, QuorumsIntersect DEF Elected
    <3> QED BY <1>2, <2>3, <3>1
            DEF Elected, ElectionInv, SupportIsExclusive, Rivals
  <2> QED BY <1>2, <2>1, <2>2, <2>3, ClaimsStep
<1>3. ASSUME NEW n \in Nodes, InRound(n)', role'[n] = "LEADER"
      PROVE  rpc'[n].term = currentTerm'[n]
  <2>1. RolesForward /\ RoundsForward
    BY SupportStep, ClaimStep DEF ClaimForward
  <2> QED BY <1>3, <2>1 DEF RolesForward, RoundsForward, ClaimInv
<1> QED BY <1>1, <1>2, <1>3 DEF ClaimInv

LEMMA InitClaim == Init => ClaimInv
  BY NodesAssumption DEF Init, ClaimInv, Claims, InRound

LEMMA ClaimInvariant == OddCluster => (Spec => []ClaimInv)
<1> SUFFICES ASSUME OddCluster PROVE Spec => []ClaimInv
  OBVIOUS
<1>1. TypeOK /\ ElectionInv /\ ClaimInv /\ [Next]_vars => ClaimInv'
  BY ClaimInvStep
<1> QED BY <1>1, InitClaim, TypeCorrect, ElectionInvariant, PTL DEF Spec

\* In a cluster of odd size two nodes of one term never know different
\* leaders: a heartbeat still under way claims its term as a leader does.
THEOREM OneKnownLeader == OddCluster => (Spec => []LeaderAgreement)
<1> SUFFICES ASSUME OddCluster PROVE Spec => []LeaderAgreement
  OBVIOUS
<1>1. TypeOK /\ ClaimInv => LeaderAgreement
  BY DEF TypeOK, NodeTypes, ClaimInv, Claims, LeaderAgreement
<1> QED BY <1>1, ClaimInvariant, TypeCorrect, PTL
-----------------------------------------------------------------------------

(***************************************************************************)
(* Copies of logs.  A request carries the end of its sender's log as it    *)
(* was when the request was built.  The proofs follow that copy: it is not *)
(* a part of the node, but a function of the steps that led to the state.  *)
(***************************************************************************)
Sending(n) == pc[n] \in {"appendlookup", "appendcall"}

\* Given the copies g before a step, the copies after it
NextSent(g) ==
  [n \in Nodes |-> IF pc[n] # "appendlookup" /\ pc'[n] = "appendlookup"
                   THEN log[n] ELSE g[n]]

Copies(g) == {log[n] : n \in Nodes} \cup {g[n] : n \in Nodes}
Holds(X, P) == Len(P) <= Len(X) /\ \A k \in 1..Len(P) : X[k] = P[k]

\* An entry is found below a later or equal one of its term only where both
\* logs are equal up to it
Agree(X, Y) ==
  \A i \in DOMAIN X, j \in DOMAIN Y :
    i <= j /\ X[i].term = Y[j].term => \A k \in 1..i : X[k] = Y[k]
TermsGrow(X) == \A i, j \in DOMAIN X : i <= j => X[i].term <= X[j].term

\* Node n sends the end of G
Carries(n, G) ==
  /\ rpc[n].index <= Len(G)
  /\ rpc[n].logTerm = TermAt(G, rpc[n].index)
  /\ rpc[n].entries = SubSeq(G, rpc[n].index + 1, Len(G))

\* What handleAppendEntries leaves of the log X of a follower when the request
\* carries the end of G and they meet at prev
LEMMA MergeCases ==
  ASSUME NEW X \in Seq(Entries), NEW G \in Seq(Entries), NEW prev \in Nat,
         prev <= Len(X), prev <= Len(G), TermAt(X, prev) = TermAt(G, prev),
         Agree(X, G)
  PROVE  Merge(X, prev, SubSeq(G, prev + 1, Len(G)))
           = IF Holds(X, G) THEN X ELSE G
<1> DEFINE a  == Len(X)
           b  == Len(G)
           es == SubSeq(G, prev + 1, b)
           differing == {i \in DOMAIN es :
                           prev + i > a \/ X[prev + i].term # es[i].term}
           first == CHOOSE i \in differing : \A j \in differing : i <= j
           kept  == SubSeq(X, 1, prev + first - 1)
           rest  == SubSeq(es, first, Len(es))
<1>1. /\ a \in Nat /\ b \in Nat /\ prev <= a /\ prev <= b
      /\ DOMAIN X = 1..a /\ DOMAIN G = 1..b
  BY LenProperties
<1>2. es \in Seq(Entries)
  OBVIOUS
<1>3. Len(es) = b - prev /\ \A i \in 1..(b - prev) : es[i] = G[prev + i]
  <2> HIDE DEF b
  <2> QED BY <1>1, <1>2
<1>4. DOMAIN es = 1..(b - prev)
  BY <1>2, <1>3
<1>5. Holds(X, G) <=> b <= a /\ \A k \in 1..b : X[k] = G[k]
  BY DEF Holds
<1>6. Merge(X, prev, es) = IF differing = {} THEN X ELSE kept \o rest
  BY DEF Merge
<1> SUFFICES Merge(X, prev, es) = IF Holds(X, G) THEN X ELSE G
  OBVIOUS
<1> HIDE DEF a, b, es
<1>7. \A k \in 1..prev : X[k] = G[k]
  <2>1. CASE prev = 0
    BY <2>1
  <2>2. CASE prev # 0
    <3>1. prev \in 1..a /\ prev \in 1..b
      BY <1>1, <2>2
    <3>2. X[prev].term = G[prev].term
      BY <1>1, <3>1 DEF TermAt
    <3> QED BY <1>1, <3>1, <3>2 DEF Agree
  <2> QED BY <2>1, <2>2
\* Below the first difference the two logs are equal
<1>8. ASSUME NEW k \in 1..b, k > prev => k - prev \notin differing,
             prev < k => k <= a
      PROVE  X[k] = G[k]
  <2>1. CASE k <= prev
    BY <1>1, <1>7, <2>1
  <2>2. CASE k > prev
    <3>1. k - prev \in 1..(b - prev) /\ prev + (k - prev) = k
      BY <1>1, <2>2
    <3>2. X[k].term = G[k].term
      <4>1. es[k - prev] = G[k]
        BY <1>3, <3>1
      <4> QED BY <1>4, <1>8, <2>2, <3>1, <4>1
    <3>3. k \in 1..a /\ k \in 1..b
      BY <1>1, <1>8, <2>2
    <3> QED BY <1>1, <3>2, <3>3 DEF Agree
  <2> QED BY <1>1, <2>1, <2>2
<1>9. CASE differing = {}
  <2>1. b <= a
    <3>1. CASE b = prev
      BY <1>1, <3>1
    <3>2. CASE b # prev
      <4>1. b - prev \in 1..(b - prev) /\ prev + (b - prev) = b
        BY <1>1, <3>2
      <4>2. \A j \in 1..(b - prev) : ~ (prev + j > a)
        BY <1>4, <1>9
      <4>3. ~ (b > a)
        BY <4>1, <4>2
      <4> QED BY <1>1, <4>3
    <3> QED BY <3>1, <3>2
  <2>2. \A k \in 1..b : X[k] = G[k]
    BY <1>1, <1>8, <1>9, <2>1
  <2> QED BY <1>5, <1>6, <1>9, <2>1, <2>2
<1>10. CASE differing # {}
  <2>1. differing \subseteq 1..(b - prev)
    BY <1>4
  <2>2. first \in differing /\ \A j \in differing : first <= j
    <3>1. differing \subseteq Nat
      BY <1>1, <2>1
    <3>2. \E x \in differing : \A y \in differing : x <= y
      BY <1>10, <3>1, LeastNatural
    <3> HIDE DEF differing
    <3> QED BY <3>2
  <2>3. /\ first \in 1..(b - prev)
        /\ prev + first > a \/ X[prev + first].term # es[first].term
    BY <2>1, <2>2
  <2>4. ~ Holds(X, G)
    <3>1. prev + first \in 1..b /\ es[first] = G[prev + first]
      <4> HIDE DEF first, differing
      <4> QED BY <1>1, <1>3, <2>3
    <3> HIDE DEF first, differing
    <3> QED BY <1>1, <1>5, <2>3, <3>1
  <2>5. \A j \in 1..(b - prev) : j < first => j \notin differing
    <3> HIDE DEF first, differing
    <3> QED BY <1>1, <2>1, <2>2, <2>3
  <2> DEFINE c == prev + first - 1
  <2>6. c \in Nat /\ c <= a /\ c < b /\ prev <= c
    <3>1. first > 1 => prev + (first - 1) <= a
      <4> SUFFICES ASSUME first > 1 PROVE prev + (first - 1) <= a
        OBVIOUS
      <4>1. first - 1 \in 1..(b - prev) /\ first - 1 < first
        <5> HIDE DEF first, differing
        <5> QED BY <1>1, <2>3
      <4>2. first - 1 \notin differing
        <5> HIDE DEF first, differing
        <5> QED BY <2>5, <4>1
      <4> QED BY <1>1, <1>4, <4>1, <4>2, SMTT(30)
    <3> HIDE DEF first, differing
    <3> QED BY <1>1, <2>3, <3>1
  <2>7. ASSUME NEW k \in 1..c
        PROVE  X[k] = G[k]
    <3>1. k \in 1..b /\ k <= a /\ k - prev < first
      <4> HIDE DEF first, differing
      <4> QED BY <1>1, <2>3, <2>6
    <3>2. k > prev => k - prev \notin differing
      <4> SUFFICES ASSUME k > prev PROVE k - prev \notin differing
        OBVIOUS
      <4>1. k - prev \in 1..(b - prev)
        <5> HIDE DEF first, differing, c
        <5> QED BY <1>1, <3>1
      <4> QED BY <2>5, <3>1, <4>1
    <3> HIDE DEF differing
    <3> QED BY <1>8, <3>1, <3>2
  <2>8. /\ kept \in Seq(Entries) /\ Len(kept) = c
        /\ \A k \in 1..c : kept[k] = X[k]
    <3>1. kept = SubSeq(X, 1, c)
      OBVIOUS
    <3>2. c <= Len(X)
      BY <2>6 DEF a
    <3> HIDE DEF kept, c
    <3> QED BY <2>6, <3>1, <3>2
  <2>9. /\ rest \in Seq(Entries) /\ Len(rest) = b - c
        /\ \A k \in 1..(b - c) : rest[k] = G[c + k]
    <3> HIDE DEF first, differing
    <3>1. rest \in Seq(Entries) /\ Len(rest) = Len(es) - first + 1
          /\ \A k \in 1..(Len(es) - first + 1) : rest[k] = es[first + k - 1]
      <4>1. Len(es) \in Nat /\ first \in 1..Len(es)
        BY <1>1, <1>3, <2>3
      <4> QED BY <1>2, <4>1
    <3>2. Len(es) - first + 1 = b - c
      BY <1>1, <1>3, <2>3
    <3>3. ASSUME NEW k \in 1..(b - c)
          PROVE  rest[k] = G[c + k]
      <4>1. /\ first + k - 1 \in 1..(b - prev)
            /\ prev + (first + k - 1) = c + k
        BY <1>1, <2>3
      <4> HIDE DEF rest, c
      <4> QED BY <1>3, <3>1, <3>2, <4>1
    <3> QED BY <3>1, <3>2, <3>3
  <2> DEFINE whole == kept \o rest
  <2>10. whole = G
    <3> HIDE DEF kept, rest, c, first, differing
    <3>1. /\ whole \in Seq(Entries) /\ Len(whole) = c + (b - c)
          /\ \A k \in 1..c : whole[k] = kept[k]
          /\ \A k \in 1..(b - c) : whole[c + k] = rest[k]
      <4>1. /\ whole \in Seq(Entries) /\ Len(whole) = Len(kept) + Len(rest)
            /\ \A k \in 1..(Len(kept) + Len(rest)) :
                 whole[k] = IF k <= Len(kept) THEN kept[k]
                                             ELSE rest[k - Len(kept)]
        <5>1. kept \in Seq(Entries) /\ rest \in Seq(Entries)
          BY <2>8, <2>9
        <5> QED BY <5>1, ConcatProperties
      <4> HIDE DEF whole
      <4>2. /\ Len(whole) = c + (b - c)
            /\ \A k \in 1..(c + (b - c)) :
                 whole[k] = IF k <= c THEN kept[k] ELSE rest[k - c]
        BY <2>8, <2>9, <4>1
      <4>3. \A k \in 1..c : k \in 1..(c + (b - c)) /\ k <= c
        BY <1>1, <2>6
      <4>4. \A k \in 1..(b - c) : /\ c + k \in 1..(c + (b - c))
                                  /\ ~ (c + k <= c) /\ (c + k) - c = k
        BY <1>1, <2>6
      <4> QED BY <4>1, <4>2, <4>3, <4>4
    <3>2. c + (b - c) = b
      BY <1>1, <2>6
    <3>3. ASSUME NEW k \in 1..b
          PROVE  whole[k] = G[k]
      <4>1. CASE k \in 1..c
        BY <2>7, <2>8, <3>1, <4>1
      <4>2. CASE k \notin 1..c
        <5>1. k - c \in 1..(b - c) /\ c + (k - c) = k
          BY <1>1, <2>6, <4>2
        <5> HIDE DEF whole
        <5> QED BY <2>9, <3>1, <5>1
      <4> QED BY <4>1, <4>2
    <3>4. Len(whole) = Len(G) /\ Len(G) = b
      BY <3>1, <3>2 DEF b
    <3> HIDE DEF whole
    <3> QED BY <3>1, <3>3, <3>4, SeqEqual
  <2> HIDE DEF kept, rest, differing
  <2> QED BY <1>6, <1>10, <2>4, <2>10
<1> QED BY <1>9, <1>10

(***************************************************************************)
(* The invariant of the logs, over every node's log and every copy on its  *)
(* way to a follower.                                                      *)
(***************************************************************************)
CopiesAgree(g) ==
  /\ \A X \in Copies(g) : TermsGrow(X)
  /\ \A X, Y \in Copies(g) : Agree(X, Y)
\* Every term of an entry was won, and its leader, while it leads, has every
\* entry of the term
TermsWon(g) ==
  \A X \in Copies(g) : \A i \in DOMAIN X : \E l \in Nodes : Won(l, X[i].term)
LeaderHasAll(g) ==
  \A l \in Nodes : role[l] = "LEADER" =>
    \A X \in Copies(g) : \A i \in DOMAIN X : X[i].term = currentTerm[l] =>
      i \in DOMAIN log[l] /\ log[l][i].term = currentTerm[l]
TermsReached(g) ==
  \A n \in Nodes :
    /\ \A i \in DOMAIN log[n] : log[n][i].term <= currentTerm[n]
    /\ Sending(n) => \A i \in DOMAIN g[n] : g[n][i].term <= rpc[n].term
Carried(g) == \A n \in Nodes : Sending(n) => Carries(n, g[n])
\* What a leader believes of its followers ends where its log does
LeaderAhead(g) ==
  \A n \in Nodes : role[n] = "LEADER" =>
    /\ \A p \in Nodes : /\ nextIndex[n][p] <= Len(log[n]) + 1
                        /\ matchIndex[n][p] <= Len(log[n])
    /\ Sending(n) => Holds(log[n], g[n])
    /\ pc[n] = "appendreply" => reply[n].match <= Len(log[n])
\* A candidate asks for votes with the end of the log it still has
StandingLog ==
  \A m \in Nodes : Standing(m) => /\ rpc[m].index = Len(log[m])
                                  /\ rpc[m].logTerm = LastTerm(log[m])
LogInv(g) ==
  /\ CopiesAgree(g) /\ TermsWon(g) /\ LeaderHasAll(g) /\ TermsReached(g)
  /\ Carried(g) /\ LeaderAhead(g) /\ StandingLog

\* A client's command at the end of a leader's log
Submits(n, c) ==
  /\ role[n] = "LEADER"
  /\ log' = [log EXCEPT ![n] =
               Append(@, [term |-> currentTerm[n], command |-> c])]
  /\ UNCHANGED <<persistent, role, leaderId, commitIndex, indices, thread>>
\* A request of n that differs from the log of f and replaces it
Overwrites(n, f, g) ==
  /\ pc[n] = "appendcall" /\ f = target[n] /\ f # n
  /\ role'[f] = "FOLLOWER"
  /\ currentTerm[f] <= rpc[n].term /\ currentTerm'[f] = rpc[n].term
  /\ ~ Holds(log[f], g[n])
  /\ log' = [log EXCEPT ![f] = g[n]]
LogsForward(g) ==
  \/ UNCHANGED log
  \/ \E n \in Nodes, c \in Commands : Submits(n, c)
  \/ \E n, f \in Nodes : Overwrites(n, f, g)

\* What handleAppendEntries does at f when n's request carries the end of G
LEMMA CallFollowerLog ==
  ASSUME TypeOK, NEW n \in Nodes, NEW G \in Seq(Entries), CallFollower(n),
         Carries(n, G), Agree(log[target[n]], G)
  PROVE  LET f == target[n]
             match == /\ rpc[n].term >= currentTerm[f]
                      /\ rpc[n].index <= Len(log[f])
                      /\ TermAt(log[f], rpc[n].index) = rpc[n].logTerm
         IN /\ f \in Nodes /\ f # n
            /\ match => log' = [log EXCEPT ![f] =
                                  IF Holds(log[f], G) THEN log[f] ELSE G]
            /\ ~ match => log' = log
            /\ reply'[n].ok = match
            /\ match => reply'[n].match = Len(G)
            /\ ~ match => reply'[n].match = 0
            /\ \A m \in Nodes \ {n} : reply'[m] = reply[m]
            /\ commitIndex' = [commitIndex EXCEPT ![f] =
                                 IF match /\ rpc[n].commit > commitIndex[f]
                                 THEN Lower(rpc[n].commit, Len(log'[f]))
                                 ELSE commitIndex[f]]
<1> DEFINE f == target[n]
           q == rpc[n]
           match == /\ q.term >= currentTerm[f]
                    /\ q.index <= Len(log[f])
                    /\ TermAt(log[f], q.index) = q.logTerm
           merged == IF match THEN Merge(log[f], q.index, q.entries)
                              ELSE log[f]
<1>1. f \in Nodes /\ f # n
  BY CalledPeer DEF CallFollower, Calling
<1>2. /\ q.term \in Nat /\ q.index \in Nat /\ q.entries \in Seq(Entries)
      /\ currentTerm[f] \in Nat /\ log[f] \in Seq(Entries)
  BY <1>1 DEF TypeOK, NodeTypes, ReplicaTypes, CallTypes, Request
<1>3. /\ log' = [log EXCEPT ![f] = merged]
      /\ commitIndex' = [commitIndex EXCEPT ![f] =
                           IF match /\ q.commit > @
                           THEN Lower(q.commit, Len(merged)) ELSE @]
      /\ reply'[n].ok = match
      /\ reply'[n].match = IF match THEN q.index + Len(q.entries) ELSE 0
      /\ \A m \in Nodes \ {n} : reply'[m] = reply[m]
  <2>1. match = /\ ~ (q.term < currentTerm[f])
                /\ q.index <= Len(log[f])
                /\ TermAt(log[f], q.index) = q.logTerm
    BY <1>2
  <2> HIDE DEF match
  <2>2. /\ log' = [log EXCEPT ![f] = merged]
        /\ commitIndex' = [commitIndex EXCEPT ![f] =
                             IF match /\ q.commit > @
                             THEN Lower(q.commit, Len(merged)) ELSE @]
        /\ \E term : reply' = [reply EXCEPT ![n] =
             [term |-> term, ok |-> match,
              match |-> IF match THEN q.index + Len(q.entries) ELSE 0]]
    BY <2>1, Zenon DEF CallFollower, HandleAppendEntries
  <2> QED BY <2>2 DEF TypeOK, CallTypes
<1>4. log'[f] = merged
  BY <1>1, <1>3 DEF TypeOK, ReplicaTypes
<1>5. ASSUME match
      PROVE  /\ merged = IF Holds(log[f], G) THEN log[f] ELSE G
             /\ q.index + Len(q.entries) = Len(G)
  <2>1. /\ q.index <= Len(G) /\ q.index <= Len(log[f])
        /\ TermAt(log[f], q.index) = TermAt(G, q.index)
        /\ q.entries = SubSeq(G, q.index + 1, Len(G))
    BY <1>5 DEF Carries
  <2>2. Merge(log[f], q.index, q.entries)
          = IF Holds(log[f], G) THEN log[f] ELSE G
    BY <1>2, <2>1, MergeCases
  <2>3. Len(q.entries) = Len(G) - q.index
    BY <1>2, <2>1
  <2> QED BY <1>2, <1>5, <2>2, <2>3, LenProperties
<1>6. ~ match => log' = log
  BY <1>1, <1>3 DEF TypeOK, ReplicaTypes
<1> HIDE DEF match, merged, q, f
<1>7. match => log' = [log EXCEPT ![f] = IF Holds(log[f], G) THEN log[f] ELSE G]
  BY <1>3, <1>5
<1>8. commitIndex' = [commitIndex EXCEPT ![f] =
                        IF match /\ q.commit > commitIndex[f]
                        THEN Lower(q.commit, Len(log'[f])) ELSE commitIndex[f]]
  BY <1>3, <1>4
<1> QED BY <1>1, <1>3, <1>5, <1>6, <1>7, <1>8 DEF match, q, f

LEMMA LogsStep ==
  ASSUME TypeOK, NEW g \in [Nodes -> Seq(Entries)], LogInv(g), [Next]_vars
  PROVE  LogsForward(g)
<1>1. ASSUME NEW n \in Nodes, CallFollower(n)
      PROVE  LogsForward(g)
  <2> DEFINE f == target[n]
             match == /\ rpc[n].term >= currentTerm[f]
                      /\ rpc[n].index <= Len(log[f])
                      /\ TermAt(log[f], rpc[n].index) = rpc[n].logTerm
  <2>1. f \in Nodes /\ f # n
    BY <1>1, CalledPeer DEF CallFollower, Calling
  <2>2. Carries(n, g[n]) /\ Agree(log[f], g[n])
    BY <1>1, <2>1 DEF LogInv, Carried, CopiesAgree, Copies, Sending, CallFollower
  <2>3. /\ match => log' = [log EXCEPT ![f] =
                              IF Holds(log[f], g[n]) THEN log[f] ELSE g[n]]
        /\ ~ match => log' = log
    BY <1>1, <2>2, CallFollowerLog
  <2>4. CASE ~ match \/ Holds(log[f], g[n])
    BY <2>1, <2>3, <2>4 DEF LogsForward, TypeOK, ReplicaTypes
  <2>5. CASE match /\ ~ Holds(log[f], g[n])
    <3>1. rpc[n].term \in Nat /\ currentTerm[f] \in Nat
      BY <2>1 DEF TypeOK, NodeTypes, CallTypes, Request
    <3>2. rpc[n].term >= currentTerm[f] /\ ~ (rpc[n].term < currentTerm[f])
      BY <2>5, <3>1
    <3>3. role'[f] = "FOLLOWER"
      BY <1>1, <2>1, <3>2
         DEF CallFollower, HandleAppendEntries, TypeOK, NodeTypes
    <3>4. currentTerm'[f] = rpc[n].term
      BY <1>1, <2>1, <3>1, <3>2
         DEF CallFollower, HandleAppendEntries, SetTermAndVote, persistent,
             TypeOK, NodeTypes
    <3>5. log' = [log EXCEPT ![f] = g[n]]
      BY <2>3, <2>5
    <3>6. pc[n] = "appendcall"
      BY <1>1 DEF CallFollower
    <3>7. Overwrites(n, f, g)
      BY <2>1, <2>5, <3>1, <3>2, <3>3, <3>4, <3>5, <3>6 DEF Overwrites
    <3> QED BY <2>1, <3>7 DEF LogsForward
  <2> QED BY <2>4, <2>5
<1>2. ASSUME NEW n \in Nodes, BecomeCandidate(n) \/ RoundStep(n),
             ~ CallFollower(n)
      PROVE  UNCHANGED log
  BY <1>2 DEF RoundStep, BecomeCandidate, SnapshotElection, CallVoter,
     ReceiveVote, FinishElection, StartHeartbeats, LookupFollower,
     ReceiveAppend, FinishHeartbeats, LookupVoter, BuildAppend, replicas
<1>3. ASSUME NEW n \in Nodes, NEW c \in Commands, SubmitCommand(n, c)
      PROVE  Submits(n, c)
  BY <1>3 DEF SubmitCommand, Submits
<1>4. ASSUME NEW n \in Faulty, OwnerStep(n)
      PROVE  UNCHANGED log
  BY <1>4 DEF OwnerStep, Partition, Heal, SetIsolated, Stop,
     RegisterVoteHandler, RegisterAppendHandler, Reload, replicas
<1>5. CASE UNCHANGED vars
  BY <1>5 DEF vars, replicas, LogsForward
<1> QED BY <1>1, <1>2, <1>3, <1>4, <1>5, Zenon DEF Next, LogsForward

\* A thread that sends goes on sending the same request, or has just built it
\* from its leader's log
Resends(n, g, h) == Sending(n) /\ rpc'[n] = rpc[n] /\ h[n] = g[n]
Builds(n, h) ==
  /\ role[n] = "LEADER" /\ pc[n] = "heartbeat"
  /\ UNCHANGED <<log, role, currentTerm, commitIndex>>
  /\ h[n] = log[n]
  /\ rpc'[n].term = rpc[n].term /\ rpc'[n].commit = rpc[n].commit
  /\ rpc'[n].index <= Len(log[n])
  /\ rpc'[n].logTerm = TermAt(log[n], rpc'[n].index)
  /\ rpc'[n].entries = SubSeq(log[n], rpc'[n].index + 1, Len(log[n]))

LEMMA SendingStep ==
  ASSUME TypeOK, NEW g \in [Nodes -> Seq(Entries)], LogInv(g), [Next]_vars,
         NEW h, h = NextSent(g), NEW n \in Nodes, Sending(n)'
  PROVE  Resends(n, g, h) \/ Builds(n, h)
<1>1. CASE pc'[n] = pc[n] /\ rpc'[n] = rpc[n]
  BY <1>1 DEF Resends, Sending, NextSent
<1>2. ASSUME NEW p \in Nodes, BuildAppend(n, p)
      PROVE  Builds(n, h)
  <2>1. /\ role[n] = "LEADER" /\ pc[n] = "heartbeat" /\ pc'[n] = "appendlookup"
        /\ nextIndex[n][p] \in Nat \ {0} /\ nextIndex[n][p] <= Len(log[n]) + 1
    BY <1>2 DEF BuildAppend, EndRound, Sending, TypeOK, RoundTypes, IndexTypes,
                LogInv, LeaderAhead
  <2> DEFINE prev == nextIndex[n][p] - 1
             rest == SubSeq(log[n], prev + 1, Len(log[n]))
  <2>2. rpc'[n] = [term |-> rpc[n].term, index |-> prev,
                   logTerm |-> TermAt(log[n], prev), entries |-> rest,
                   commit |-> rpc[n].commit]
    BY <1>2, <2>1 DEF BuildAppend, TypeOK, CallTypes
  <2>3. UNCHANGED <<log, role, currentTerm, commitIndex>>
    BY <1>2 DEF BuildAppend, replicas, persistent
  <2>4. h[n] = log[n]
    BY <2>1 DEF NextSent
  <2>5. prev <= Len(log[n])
    <3>1. Len(log[n]) \in Nat
      BY LenProperties DEF TypeOK, ReplicaTypes
    <3> QED BY <2>1, <3>1
  <2> HIDE DEF prev
  <2>6. /\ rpc'[n].term = rpc[n].term /\ rpc'[n].commit = rpc[n].commit
        /\ rpc'[n].index = prev /\ rpc'[n].logTerm = TermAt(log[n], prev)
        /\ rpc'[n].entries = rest
    <3> HIDE DEF rest
    <3> QED BY <2>2
  <2> QED BY <2>1, <2>3, <2>4, <2>5, <2>6, Zenon DEF Builds
<1>3. ASSUME NEW p \in Nodes, \/ BecomeCandidate(n) \/ SnapshotElection(n)
             \/ LookupVoter(n, p) \/ CallVoter(n) \/ ReceiveVote(n)
             \/ FinishElection(n) \/ StartHeartbeats(n) \/ CallFollower(n)
             \/ ReceiveAppend(n) \/ FinishHeartbeats(n)
      PROVE  FALSE
  BY <1>3 DEF BecomeCandidate, SnapshotElection, LookupVoter, CallVoter,
     ReceiveVote, FinishElection, StartHeartbeats, CallFollower, ReceiveAppend,
     FinishHeartbeats, EndRound, NextPeer, Sending, TypeOK, RoundTypes
<1>4. ASSUME LookupFollower(n)
      PROVE  Resends(n, g, h)
  BY <1>4 DEF LookupFollower, NextPeer, Sending, Resends, NextSent, TypeOK,
     RoundTypes
<1>5. ASSUME NEW m \in Nodes \ {n}, NEW p \in Nodes,
             \/ BecomeCandidate(m) \/ SnapshotElection(m)
             \/ LookupVoter(m, p) \/ CallVoter(m) \/ ReceiveVote(m)
             \/ FinishElection(m) \/ StartHeartbeats(m) \/ CallFollower(m)
             \/ ReceiveAppend(m) \/ FinishHeartbeats(m) \/ BuildAppend(m, p)
             \/ LookupFollower(m)
      PROVE  pc'[n] = pc[n] /\ rpc'[n] = rpc[n]
  BY <1>5 DEF BecomeCandidate, SnapshotElection, LookupVoter, CallVoter,
     ReceiveVote, FinishElection, StartHeartbeats, CallFollower, ReceiveAppend,
     FinishHeartbeats, BuildAppend, LookupFollower, EndRound, NextPeer,
     TypeOK, RoundTypes, CallTypes
<1>6. ASSUME NEW m \in Nodes, OwnerStep(m) \/ \E c \in Commands : SubmitCommand(m, c)
      PROVE  UNCHANGED thread
  BY <1>6 DEF OwnerStep, Partition, Heal, SetIsolated, Stop,
     RegisterVoteHandler, RegisterAppendHandler, Reload, SubmitCommand
<1>7. ASSUME NEW m \in Nodes, BecomeCandidate(m) \/ RoundStep(m)
      PROVE  Resends(n, g, h) \/ Builds(n, h)
  BY <1>1, <1>2, <1>3, <1>4, <1>5, <1>7 DEF RoundStep
<1>8. CASE UNCHANGED thread
  BY <1>1, <1>8 DEF thread
<1>9. Faulty \subseteq Nodes
  BY NodesAssumption
<1> QED BY <1>6, <1>7, <1>8, <1>9 DEF Next, vars

\* Every copy after a step is one from before, or a leader's log with a command
LEMMA CopiesStep ==
  ASSUME TypeOK, NEW g \in [Nodes -> Seq(Entries)], LogInv(g), [Next]_vars,
         NEW h, h = NextSent(g), NEW X \in Copies(h)'
  PROVE  \/ X \in Copies(g)
         \/ \E n \in Nodes, c \in Commands : Submits(n, c) /\ X = log'[n]
<1>1. LogsForward(g)
  BY LogsStep
<1>2. \A n \in Nodes : h[n] \in Copies(g)
  BY DEF NextSent, Copies
<1>3. ASSUME NEW n \in Nodes, X = log'[n]
      PROVE  \/ X \in Copies(g)
             \/ \E m \in Nodes, c \in Commands : Submits(m, c) /\ X = log'[m]
  BY <1>1, <1>3 DEF LogsForward, Submits, Overwrites, Copies, TypeOK, ReplicaTypes
<1> QED BY <1>2, <1>3 DEF Copies

LEMMA LogType ==
  ASSUME TypeOK, NEW n \in Nodes
  PROVE  /\ log[n] \in Seq(Entries) /\ Len(log[n]) \in Nat
         /\ DOMAIN log[n] = 1..Len(log[n])
         /\ \A i \in DOMAIN log[n] : log[n][i].term \in Nat
         /\ currentTerm[n] \in Nat /\ rpc[n].term \in Nat
<1>1. /\ log[n] \in Seq(Entries)
      /\ currentTerm[n] \in Nat /\ rpc[n].term \in Nat
  BY DEF TypeOK, NodeTypes, ReplicaTypes, CallTypes, Request
<1>2. Len(log[n]) \in Nat /\ DOMAIN log[n] = 1..Len(log[n])
  BY <1>1, LenProperties
<1>3. \A i \in DOMAIN log[n] : log[n][i] \in Entries
  BY <1>1, <1>2, ElementOfSeq
<1>4. \A e \in Entries : e.term \in Nat
  BY DEF Entries
<1> QED BY <1>1, <1>2, <1>3, <1>4

LEMMA TermsForward ==
  ASSUME TypeOK, ElectionInv, [Next]_vars, NEW n \in Nodes
  PROVE  /\ currentTerm[n] \in Nat /\ currentTerm'[n] \in Nat
         /\ currentTerm[n] <= currentTerm'[n]
<1>1. VotesForward /\ TypeOK'
  BY VotesStep, NextType DEF ElectionInv
<1>2. currentTerm[n] \in Nat /\ currentTerm'[n] \in Nat
  BY <1>1 DEF TypeOK, NodeTypes
<1> QED BY <1>1, <1>2 DEF VotesForward

LEMMA CopiesType ==
  ASSUME TypeOK, NEW g \in [Nodes -> Seq(Entries)], NEW X \in Copies(g)
  PROVE  /\ X \in Seq(Entries) /\ Len(X) \in Nat /\ DOMAIN X = 1..Len(X)
         /\ \A i \in DOMAIN X : X[i] \in Entries /\ X[i].term \in Nat
<1>1. X \in Seq(Entries)
  BY DEF Copies, TypeOK, ReplicaTypes
<1>2. Len(X) \in Nat /\ DOMAIN X = 1..Len(X)
  BY <1>1, LenProperties
<1>3. \A i \in DOMAIN X : X[i] \in Entries
  BY <1>1, <1>2, ElementOfSeq
<1>4. \A e \in Entries : e.term \in Nat
  BY DEF Entries
<1> QED BY <1>1, <1>2, <1>3, <1>4

\* What appending a command does to a log
LEMMA SubmitLog ==
  ASSUME TypeOK, NEW n \in Nodes, NEW c \in Commands, Submits(n, c)
  PROVE  /\ log'[n] \in Seq(Entries) /\ Len(log'[n]) = Len(log[n]) + 1
         /\ \A k \in 1..Len(log[n]) : log'[n][k] = log[n][k]
         /\ log'[n][Len(log[n]) + 1].term = currentTerm[n]
         /\ \A m \in Nodes \ {n} : log'[m] = log[m]
         /\ Len(log[n]) \in Nat
         /\ DOMAIN log[n] = 1..Len(log[n])
         /\ DOMAIN log'[n] = 1..(Len(log[n]) + 1)
<1>1. log'[n] = Append(log[n], [term |-> currentTerm[n], command |-> c])
  BY DEF Submits, TypeOK, ReplicaTypes
<1>2. /\ log[n] \in Seq(Entries)
      /\ [term |-> currentTerm[n], command |-> c] \in Entries
  BY DEF TypeOK, ReplicaTypes, NodeTypes, Entries
<1>3. \A m \in Nodes \ {n} : log'[m] = log[m]
  BY DEF Submits, TypeOK, ReplicaTypes
<1> QED BY <1>1, <1>2, <1>3, AppendProperties, LenProperties

LEMMA CopiesAgreeStep ==
  ASSUME TypeOK, ElectionSafety, NEW g \in [Nodes -> Seq(Entries)], LogInv(g),
         [Next]_vars, NEW h, h = NextSent(g)
  PROVE  CopiesAgree(h)'
<1> DEFINE New(Z) == \E n \in Nodes, c \in Commands : Submits(n, c) /\ Z = log'[n]
\* A new entry extends the log of the only one that has all entries of its term
<1>1. ASSUME NEW n \in Nodes, NEW c \in Commands, Submits(n, c)
      PROVE  /\ TermsGrow(log'[n])
             /\ \A X \in Copies(g) : Agree(X, log'[n]) /\ Agree(log'[n], X)
             /\ Agree(log'[n], log'[n])
  <2> DEFINE L == Len(log[n])
             Z == log'[n]
             t == currentTerm[n]
  <2>1. /\ Z \in Seq(Entries) /\ Len(Z) = L + 1 /\ L \in Nat
        /\ \A k \in 1..L : Z[k] = log[n][k]
        /\ Z[L + 1].term = t
        /\ DOMAIN Z = 1..(L + 1) /\ DOMAIN log[n] = 1..L
    BY <1>1, SubmitLog, LenProperties DEF TypeOK, ReplicaTypes
  <2>2. /\ log[n] \in Copies(g)
        /\ \A i \in DOMAIN log[n] : log[n][i].term <= t /\ log[n][i].term \in Nat
        /\ t \in Nat
    BY CopiesType DEF Copies, LogInv, TermsReached, TypeOK, NodeTypes
  <2>3. \A X \in Copies(g) : \A i \in DOMAIN X : X[i].term = t =>
          i \in DOMAIN log[n] /\ log[n][i].term = t
    BY <1>1 DEF Submits, LogInv, LeaderHasAll
  <2> HIDE DEF Z, t, L
  <2>4. TermsGrow(Z)
    <3> SUFFICES ASSUME NEW i \in 1..(L + 1), NEW j \in 1..(L + 1), i <= j
                 PROVE  Z[i].term <= Z[j].term
      BY <2>1 DEF TermsGrow
    <3>1. CASE j <= L
      <4>1. i \in 1..L /\ j \in 1..L
        BY <2>1, <3>1
      <4> QED BY <2>1, <2>2, <4>1 DEF LogInv, CopiesAgree, TermsGrow
    <3>2. CASE j = L + 1
      <4>1. i = L + 1 \/ i \in 1..L
        BY <2>1
      <4>2. CASE i = L + 1
        BY <2>1, <2>2, <3>2, <4>2
      <4>3. CASE i \in 1..L
        <5>1. Z[i] = log[n][i] /\ i \in DOMAIN log[n]
          BY <2>1, <4>3
        <5> QED BY <2>1, <2>2, <3>2, <5>1
      <4> QED BY <4>1, <4>2, <4>3
    <3> QED BY <2>1, <3>1, <3>2
  <2>5. ASSUME NEW X \in Copies(g)
        PROVE  Agree(X, Z)
    <3> SUFFICES ASSUME NEW i \in DOMAIN X, NEW j \in 1..(L + 1), i <= j,
                        X[i].term = Z[j].term, NEW k \in 1..i
                 PROVE  X[k] = Z[k]
      BY <2>1 DEF Agree
    <3>1. Agree(X, log[n]) /\ i \in Nat /\ DOMAIN X = 1..Len(X) /\ Len(X) \in Nat
      BY <2>2, CopiesType DEF LogInv, CopiesAgree
    <3>2. \E m \in 1..L : i <= m /\ X[i].term = log[n][m].term
      <4>1. CASE j \in 1..L
        <5>1. log[n][j].term = X[i].term
          BY <2>1, <4>1
        <5> QED BY <4>1, <5>1
      <4>2. CASE j = L + 1
        <5>1. X[i].term = t
          BY <2>1, <4>2
        <5>2. i \in DOMAIN log[n] /\ log[n][i].term = t
          BY <2>3, <5>1
        <5>3. i \in 1..L /\ i <= i
          BY <2>1, <3>1, <5>2
        <5> QED BY <5>1, <5>2, <5>3
      <4> QED BY <2>1, <4>1, <4>2
    <3>3. X[k] = log[n][k] /\ k \in 1..L
      BY <2>1, <3>1, <3>2 DEF Agree
    <3> QED BY <2>1, <3>3
  <2>6. ASSUME NEW X \in Copies(g)
        PROVE  Agree(Z, X)
    <3> SUFFICES ASSUME NEW i \in 1..(L + 1), NEW j \in DOMAIN X, i <= j,
                        Z[i].term = X[j].term, NEW k \in 1..i
                 PROVE  Z[k] = X[k]
      BY <2>1 DEF Agree
    <3>1. Agree(log[n], X) /\ DOMAIN X = 1..Len(X) /\ Len(X) \in Nat
      BY <2>2, CopiesType DEF LogInv, CopiesAgree
    <3>2. CASE i \in 1..L
      <4>1. log[n][i].term = X[j].term /\ k \in 1..L
        BY <2>1, <3>2
      <4> QED BY <2>1, <3>1, <3>2, <4>1 DEF Agree
    <3>3. CASE i = L + 1
      <4>1. j \in 1..L
        BY <2>1, <2>3, <3>3
      <4> QED BY <2>1, <3>1, <3>3, <4>1
    <3> QED BY <2>1, <3>2, <3>3
  <2>7. Agree(Z, Z)
    BY DEF Agree
  <2> QED BY <2>4, <2>5, <2>6, <2>7 DEF Z
<1>2. ASSUME NEW X \in Copies(h)'
      PROVE  X \in Copies(g) \/ New(X)
  BY <1>2, CopiesStep
<1>3. ASSUME NEW X, NEW Y, New(X), New(Y)
      PROVE  X = Y
  <2>1. PICK n \in Nodes, c \in Commands : Submits(n, c) /\ X = log'[n]
    BY <1>3
  <2>2. PICK m \in Nodes, d \in Commands : Submits(m, d) /\ Y = log'[m]
    BY <1>3
  <2>3. Len(log'[m]) = Len(log[m]) + 1 /\ Len(log[m]) \in Nat
        /\ (m # n => log'[m] = log[m])
    BY <2>1, <2>2, SubmitLog
  <2> QED BY <2>1, <2>2, <2>3
<1>4. ASSUME NEW X \in Copies(h)'
      PROVE  TermsGrow(X)
  BY <1>1, <1>2 DEF LogInv, CopiesAgree
<1>5. ASSUME NEW X \in Copies(h)', NEW Y \in Copies(h)'
      PROVE  Agree(X, Y)
  <2>1. CASE X \in Copies(g) /\ Y \in Copies(g)
    BY <2>1 DEF LogInv, CopiesAgree
  <2>2. CASE New(X) /\ New(Y)
    BY <1>1, <1>3, <2>2
  <2>3. CASE \/ New(X) /\ Y \in Copies(g)
             \/ X \in Copies(g) /\ New(Y)
    BY <1>1, <2>3
  <2> QED BY <1>2, <2>1, <2>2, <2>3
<1> QED BY <1>4, <1>5 DEF CopiesAgree, TermsGrow, Agree

LEMMA TermsWonStep ==
  ASSUME TypeOK, ElectionInv, ClaimInv, NEW g \in [Nodes -> Seq(Entries)],
         LogInv(g), [Next]_vars, NEW h, h = NextSent(g)
  PROVE  TermsWon(h)'
<1>1. ASSUME NEW X \in Copies(h)', NEW i \in DOMAIN X
      PROVE  \E l \in Nodes : X[i].term \in Nat /\ Won(l, X[i].term)
  <2>1. CASE X \in Copies(g)
    BY <2>1, CopiesType DEF LogInv, TermsWon
  <2>2. ASSUME NEW n \in Nodes, NEW c \in Commands, Submits(n, c), X = log'[n]
        PROVE  \E l \in Nodes : X[i].term \in Nat /\ Won(l, X[i].term)
    <3>1. /\ X \in Seq(Entries) /\ Len(X) = Len(log[n]) + 1
          /\ \A k \in 1..Len(log[n]) : X[k] = log[n][k]
          /\ X[Len(log[n]) + 1].term = currentTerm[n]
          /\ Len(log[n]) \in Nat
      BY <2>2, SubmitLog
    <3>2. CASE i = Len(log[n]) + 1
      <4>1. currentTerm[n] \in Nat /\ Won(n, currentTerm[n])
        BY <2>2 DEF Submits, ClaimInv, Claims, TypeOK, NodeTypes
      <4> QED BY <3>1, <3>2, <4>1
    <3>3. CASE i # Len(log[n]) + 1
      <4>1. i \in 1..Len(log[n]) /\ log[n] \in Copies(g)
        BY <1>1, <3>1, <3>3, LenProperties DEF Copies
      <4>2. i \in DOMAIN log[n]
        BY <4>1, LenProperties DEF TypeOK, ReplicaTypes
      <4> QED BY <3>1, <4>1, <4>2, CopiesType DEF LogInv, TermsWon
    <3> QED BY <3>2, <3>3
  <2> QED BY <1>1, <2>1, <2>2, CopiesStep
<1>2. ASSUME NEW X \in Copies(h)', NEW i \in DOMAIN X
      PROVE  \E l \in Nodes : Won(l, X[i].term)'
  BY <1>1, <1>2, WonStep
<1> QED BY <1>2 DEF TermsWon

\* Leaders keep their logs, except for the commands they append
LEMMA LeaderLogStep ==
  ASSUME TypeOK, NEW g \in [Nodes -> Seq(Entries)], LogInv(g), [Next]_vars,
         NEW l \in Nodes, role'[l] # "FOLLOWER"
  PROVE  \/ log'[l] = log[l]
         \/ /\ role[l] = "LEADER" /\ Holds(log'[l], log[l])
            /\ \E c \in Commands : Submits(l, c)
<1>1. LogsForward(g)
  BY LogsStep
<1>2. CASE \E n \in Nodes, c \in Commands : Submits(n, c)
  <2>1. PICK n \in Nodes, c \in Commands : Submits(n, c)
    BY <1>2
  <2>2. CASE n = l
    <3>1. Len(log[l]) \in Nat /\ Len(log'[l]) = Len(log[l]) + 1
          /\ \A k \in 1..Len(log[l]) : log'[l][k] = log[l][k]
      BY <2>1, <2>2, SubmitLog
    <3>2. Holds(log'[l], log[l])
      BY <3>1 DEF Holds
    <3> QED BY <2>1, <2>2, <3>2 DEF Submits
  <2>3. CASE n # l
    BY <2>1, <2>3, SubmitLog
  <2> QED BY <2>2, <2>3
<1>3. CASE \E n, f \in Nodes : Overwrites(n, f, g)
  BY <1>3 DEF Overwrites, TypeOK, ReplicaTypes
<1> QED BY <1>1, <1>2, <1>3 DEF LogsForward

LEMMA LeaderHasAllStep ==
  ASSUME OddCluster, TypeOK, ElectionInv, ClaimInv,
         NEW g \in [Nodes -> Seq(Entries)], LogInv(g), [Next]_vars,
         NEW h, h = NextSent(g)
  PROVE  LeaderHasAll(h)'
<1>1. RolesForward
  BY SupportStep
<1> SUFFICES ASSUME NEW l \in Nodes, role'[l] = "LEADER", NEW X \in Copies(h)',
                    NEW i \in DOMAIN X, X[i].term = currentTerm'[l]
             PROVE  i \in DOMAIN log'[l] /\ log'[l][i].term = currentTerm'[l]
  BY DEF LeaderHasAll
<1>2. /\ currentTerm'[l] = currentTerm[l]
      /\ role[l] = "LEADER" \/ Elected(l)
  BY <1>1 DEF RolesForward
<1>3. \/ log'[l] = log[l]
      \/ Holds(log'[l], log[l]) /\ \E c \in Commands : Submits(l, c)
  BY LeaderLogStep
<1>4. CASE X \in Copies(g) /\ role[l] = "LEADER"
  <2>1. i \in DOMAIN log[l] /\ log[l][i].term = currentTerm[l]
    BY <1>2, <1>4 DEF LogInv, LeaderHasAll
  <2>2. log[l] \in Seq(Entries)
    BY DEF TypeOK, ReplicaTypes
  <2>3. CASE log'[l] = log[l]
    BY <1>2, <2>1, <2>3
  <2>4. ASSUME NEW c \in Commands, Submits(l, c)
        PROVE  i \in DOMAIN log'[l] /\ log'[l][i].term = currentTerm'[l]
    <3>1. /\ Len(log[l]) \in Nat /\ DOMAIN log[l] = 1..Len(log[l])
          /\ DOMAIN log'[l] = 1..(Len(log[l]) + 1)
          /\ \A k \in 1..Len(log[l]) : log'[l][k] = log[l][k]
      BY <2>4, SubmitLog
    <3> QED BY <1>2, <2>1, <3>1
  <2> QED BY <1>3, <2>3, <2>4
<1>5. CASE X \in Copies(g) /\ Elected(l)
  BY <1>2, <1>5, ElectionIsFirst DEF LogInv, TermsWon
<1>6. ASSUME NEW n \in Nodes, NEW c \in Commands, Submits(n, c), X = log'[n]
      PROVE  i \in DOMAIN log'[l] /\ log'[l][i].term = currentTerm'[l]
  <2>1. role[l] = "LEADER" /\ role[n] = "LEADER"
    BY <1>2, <1>6 DEF Submits
  <2>2. CASE n = l
    BY <1>6, <2>2
  <2>3. CASE n # l
    <3>1. currentTerm[n] # currentTerm[l]
      BY <2>1, <2>3 DEF ElectionInv, ElectionSafety
    <3>2. /\ X \in Seq(Entries) /\ Len(X) = Len(log[n]) + 1
          /\ \A k \in 1..Len(log[n]) : X[k] = log[n][k]
          /\ X[Len(log[n]) + 1].term = currentTerm[n]
          /\ Len(log[n]) \in Nat /\ log'[l] = log[l]
          /\ DOMAIN log[n] = 1..Len(log[n])
          /\ DOMAIN X = 1..(Len(log[n]) + 1)
      BY <1>6, <2>3, SubmitLog
    <3>3. i \in DOMAIN log[n] /\ log[n][i].term = currentTerm[l]
      <4>1. i # Len(log[n]) + 1
        BY <1>2, <3>1, <3>2
      <4>2. i \in 1..Len(log[n])
        BY <3>2, <4>1
      <4> QED BY <1>2, <3>2, <4>2
    <3> QED BY <1>2, <2>1, <3>2, <3>3 DEF LogInv, LeaderHasAll, Copies
  <2> QED BY <2>2, <2>3
<1> QED BY <1>2, <1>4, <1>5, <1>6, CopiesStep

LEMMA TermsReachedStep ==
  ASSUME TypeOK, ElectionInv, ClaimInv, NEW g \in [Nodes -> Seq(Entries)],
         LogInv(g), [Next]_vars, NEW h, h = NextSent(g)
  PROVE  TermsReached(h)'
<1>1. TypeOK'
  BY NextType
<1>2. ASSUME NEW n \in Nodes, NEW i \in DOMAIN log'[n]
      PROVE  log'[n][i].term <= currentTerm'[n]
  <2>1. LogsForward(g)
    BY LogsStep
  <2>2. currentTerm[n] <= currentTerm'[n]
    BY TermsForward
  <2>3. log'[n] = log[n] => log'[n][i].term <= currentTerm[n]
    BY <1>2 DEF LogInv, TermsReached
  <2>4. /\ log'[n][i].term \in Nat /\ currentTerm[n] \in Nat
        /\ currentTerm'[n] \in Nat
    <3>1. log'[n] \in Seq(Entries) /\ DOMAIN log'[n] = 1..Len(log'[n])
      BY <1>1, LenProperties DEF TypeOK, ReplicaTypes
    <3>2. log'[n][i] \in Entries
      BY <1>2, <3>1, ElementOfSeq
    <3> QED BY <3>2, TermsForward DEF Entries
  <2>5. CASE log'[n] = log[n]
    BY <2>2, <2>3, <2>4, <2>5
  <2>6. ASSUME NEW m \in Nodes, NEW c \in Commands, Submits(m, c),
               log'[n] # log[n]
        PROVE  log'[n][i].term <= currentTerm[n]
    <3>1. n = m
      BY <2>6, SubmitLog
    <3>2. /\ log'[n] \in Seq(Entries) /\ Len(log'[n]) = Len(log[n]) + 1
          /\ \A k \in 1..Len(log[n]) : log'[n][k] = log[n][k]
          /\ log'[n][Len(log[n]) + 1].term = currentTerm[n]
          /\ Len(log[n]) \in Nat
          /\ DOMAIN log[n] = 1..Len(log[n])
          /\ DOMAIN log'[n] = 1..(Len(log[n]) + 1)
      BY <2>6, <3>1, SubmitLog
    <3>3. CASE i = Len(log[n]) + 1
      BY <2>4, <3>2, <3>3
    <3>4. CASE i # Len(log[n]) + 1
      <4>1. i \in DOMAIN log[n] /\ log'[n][i] = log[n][i]
        <5>1. i \in 1..Len(log[n])
          BY <1>2, <3>2, <3>4
        <5> QED BY <3>2, <5>1
      <4> QED BY <4>1 DEF LogInv, TermsReached
    <3> QED BY <3>3, <3>4
  <2>7. ASSUME NEW m \in Nodes, NEW f \in Nodes, Overwrites(m, f, g),
               log'[n] # log[n]
        PROVE  log'[n][i].term <= currentTerm'[n]
    <3>1. n = f /\ log'[n] = g[m] /\ Sending(m) /\ currentTerm'[n] = rpc[m].term
      BY <2>7 DEF Overwrites, TypeOK, ReplicaTypes, Sending
    <3> QED BY <1>2, <3>1 DEF LogInv, TermsReached
  <2> QED BY <2>1, <2>2, <2>4, <2>5, <2>6, <2>7 DEF LogsForward
<1>3. ASSUME NEW n \in Nodes, Sending(n)', NEW i \in DOMAIN h[n]
      PROVE  h[n][i].term <= rpc'[n].term
  <2>1. CASE Resends(n, g, h)
    BY <1>3, <2>1 DEF Resends, LogInv, TermsReached
  <2>2. CASE Builds(n, h)
    <3>1. rpc'[n].term = currentTerm[n] /\ h[n] = log[n]
      BY <2>2 DEF Builds, ClaimInv, InRound
    <3> QED BY <1>3, <3>1 DEF LogInv, TermsReached
  <2> QED BY <1>3, <2>1, <2>2, SendingStep
<1> QED BY <1>2, <1>3 DEF TermsReached

LEMMA CarriedStep ==
  ASSUME TypeOK, NEW g \in [Nodes -> Seq(Entries)], LogInv(g), [Next]_vars,
         NEW h, h = NextSent(g)
  PROVE  Carried(h)'
<1>1. ASSUME NEW n \in Nodes, Sending(n)'
      PROVE  /\ rpc'[n].index <= Len(h[n])
             /\ rpc'[n].logTerm = TermAt(h[n], rpc'[n].index)
             /\ rpc'[n].entries = SubSeq(h[n], rpc'[n].index + 1, Len(h[n]))
  <2>1. CASE Resends(n, g, h)
    BY <1>1, <2>1 DEF Resends, LogInv, Carried, Carries
  <2>2. CASE Builds(n, h)
    BY <2>2 DEF Builds
  <2> QED BY <1>1, <2>1, <2>2, SendingStep
<1> QED BY <1>1 DEF Carried, Carries

\* What the threads of other nodes leave alone at n
Own(n) == BecomeCandidate(n) \/ RoundStep(n)
Undisturbed(n) ==
  /\ pc'[n] = pc[n] /\ rpc'[n] = rpc[n] /\ reply'[n] = reply[n]
  /\ target'[n] = target[n] /\ granted'[n] = granted[n]
  /\ \/ nextIndex'[n] = nextIndex[n] /\ matchIndex'[n] = matchIndex[n]
     \/ role'[n] = "FOLLOWER"

LEMMA OwnOrUndisturbed ==
  ASSUME TypeOK, [Next]_vars, NEW n \in Nodes
  PROVE  Own(n) \/ Undisturbed(n)
<1>1. ASSUME NEW m \in Nodes \ {n}, NEW p \in Nodes,
             \/ BecomeCandidate(m) \/ SnapshotElection(m)
             \/ LookupVoter(m, p) \/ CallVoter(m) \/ ReceiveVote(m)
             \/ StartHeartbeats(m) \/ CallFollower(m)
             \/ FinishHeartbeats(m) \/ BuildAppend(m, p)
             \/ LookupFollower(m)
      PROVE  Undisturbed(n)
  BY <1>1 DEF BecomeCandidate, SnapshotElection, LookupVoter, CallVoter,
     ReceiveVote, StartHeartbeats, CallFollower, FinishHeartbeats,
     HandleRequestVote, HandleAppendEntries,
     BuildAppend, LookupFollower, EndRound, NextPeer, Undisturbed, indices,
     TypeOK, RoundTypes, CallTypes
<1>2. ASSUME NEW m \in Nodes \ {n}, FinishElection(m) \/ ReceiveAppend(m)
      PROVE  Undisturbed(n)
  <2>1. /\ pc'[n] = pc[n] /\ rpc'[n] = rpc[n] /\ reply'[n] = reply[n]
        /\ target'[n] = target[n] /\ granted'[n] = granted[n]
    BY <1>2 DEF FinishElection, ReceiveAppend, EndRound, NextPeer, TypeOK,
       RoundTypes, CallTypes
  <2>2. nextIndex'[n] = nextIndex[n] /\ matchIndex'[n] = matchIndex[n]
    BY <1>2 DEF FinishElection, ReceiveAppend, indices, TypeOK, IndexTypes
  <2> QED BY <2>1, <2>2 DEF Undisturbed
<1>3. ASSUME NEW m \in Nodes, Reload(m)
      PROVE  Undisturbed(n)
  BY <1>3 DEF Reload, Undisturbed, thread, TypeOK, IndexTypes, NodeTypes
<1>4. ASSUME NEW m \in Nodes, OwnerStep(m) \/ \E c \in Commands : SubmitCommand(m, c),
             ~ Reload(m)
      PROVE  UNCHANGED <<indices, thread>>
  BY <1>4 DEF OwnerStep, Partition, Heal, SetIsolated, Stop,
     RegisterVoteHandler, RegisterAppendHandler, SubmitCommand
<1>5. UNCHANGED <<indices, thread>> => Undisturbed(n)
  BY DEF indices, thread, Undisturbed
<1>6. ASSUME NEW m \in Nodes \ {n}, BecomeCandidate(m) \/ RoundStep(m)
      PROVE  Undisturbed(n)
  BY <1>1, <1>2, <1>6 DEF RoundStep
<1>7. Faulty \subseteq Nodes
  BY NodesAssumption
<1> QED BY <1>3, <1>4, <1>5, <1>6, <1>7 DEF Next, vars, Own

\* A new leader has just ended its election
LEMMA NewLeader ==
  ASSUME TypeOK, [Next]_vars, NEW n \in Nodes,
         role'[n] = "LEADER", role[n] # "LEADER"
  PROVE  /\ FinishElection(n) /\ pc'[n] = "idle"
         /\ UNCHANGED <<log, currentTerm, commitIndex>>
         /\ \A p \in Nodes : /\ nextIndex'[n][p] = Len(log[n]) + 1
                             /\ matchIndex'[n][p] = 0
<1>1. ASSUME NEW m \in Nodes \ {n}, BecomeCandidate(m) \/ RoundStep(m)
      PROVE  role'[n] \in {role[n], "FOLLOWER"}
  BY <1>1 DEF RoundStep, BecomeCandidate, SnapshotElection, CallVoter,
     ReceiveVote, FinishElection, StartHeartbeats, LookupFollower,
     CallFollower, ReceiveAppend, FinishHeartbeats, LookupVoter,
     BuildAppend, HandleRequestVote, HandleAppendEntries, BecomeFollower,
     TypeOK, NodeTypes
<1>2. ASSUME NEW m \in Nodes,
             OwnerStep(m) \/ \E c \in Commands : SubmitCommand(m, c)
      PROVE  role'[n] \in {role[n], "FOLLOWER"}
  BY <1>2 DEF OwnerStep, Partition, Heal, SetIsolated, Stop, Reload,
     RegisterVoteHandler, RegisterAppendHandler, SubmitCommand,
     TypeOK, NodeTypes
<1>3. ASSUME Own(n), ~ FinishElection(n), ~ CallVoter(n), ~ CallFollower(n)
      PROVE  UNCHANGED role \/ role'[n] # "LEADER"
  BY <1>3 DEF Own, RoundStep, BecomeCandidate, SnapshotElection,
     ReceiveVote, StartHeartbeats, LookupFollower, BecomeFollower,
     FinishHeartbeats, LookupVoter, BuildAppend, ReceiveAppend, TypeOK, NodeTypes
<1>4. CallVoter(n) \/ CallFollower(n) => role'[n] = role[n]
  BY CalledPeer DEF CallVoter, CallFollower, HandleRequestVote,
     HandleAppendEntries, Calling, TypeOK, NodeTypes
<1>5. Faulty \subseteq Nodes
  BY NodesAssumption
<1>6. FinishElection(n)
  BY <1>1, <1>2, <1>3, <1>4, <1>5 DEF Own, Next, vars
<1>7. ~ UNCHANGED role
  OBVIOUS
<1> QED BY <1>6, <1>7
        DEF FinishElection, EndRound, persistent, replicas, TypeOK, IndexTypes,
            RoundTypes

\* Nobody else makes a node a candidate
LEMMA CandidateKept ==
  ASSUME TypeOK, [Next]_vars, NEW n \in Nodes, role'[n] = "CANDIDATE", ~ Own(n)
  PROVE  role[n] = "CANDIDATE"
<1>1. ASSUME NEW m \in Nodes \ {n}, BecomeCandidate(m) \/ RoundStep(m)
      PROVE  role'[n] \in {role[n], "FOLLOWER"}
  BY <1>1 DEF RoundStep, BecomeCandidate, SnapshotElection, CallVoter,
     ReceiveVote, FinishElection, StartHeartbeats, LookupFollower,
     CallFollower, ReceiveAppend, FinishHeartbeats, LookupVoter,
     BuildAppend, HandleRequestVote, HandleAppendEntries, BecomeFollower,
     TypeOK, NodeTypes
<1>2. ASSUME NEW m \in Nodes,
             OwnerStep(m) \/ \E c \in Commands : SubmitCommand(m, c)
      PROVE  role'[n] \in {role[n], "FOLLOWER"}
  BY <1>2 DEF OwnerStep, Partition, Heal, SetIsolated, Stop, Reload,
     RegisterVoteHandler, RegisterAppendHandler, SubmitCommand,
     TypeOK, NodeTypes
<1>3. Faulty \subseteq Nodes
  BY NodesAssumption
<1> QED BY <1>1, <1>2, <1>3 DEF Own, Next, vars

\* The caller's critical section after sendAppend
LEMMA ReceiveAppendCases ==
  ASSUME TypeOK, NEW n \in Nodes, ReceiveAppend(n)
  PROVE  /\ pc[n] = "appendreply" /\ UNCHANGED log /\ pc'[n] # "appendreply"
         /\ target[n] \in Nodes
         /\ \/ UNCHANGED <<commitIndex, indices>>
            \/ /\ role[n] = "LEADER" /\ UNCHANGED <<currentTerm, role>>
               /\ ~ reply[n].ok
               /\ nextIndex' = [nextIndex EXCEPT ![n][target[n]] = BackOff(@)]
               /\ UNCHANGED <<matchIndex, commitIndex>>
            \/ /\ role[n] = "LEADER" /\ UNCHANGED <<currentTerm, role>>
               /\ reply[n].ok
               /\ nextIndex' = [nextIndex EXCEPT ![n][target[n]] =
                                  reply[n].match + 1]
               /\ matchIndex' = [matchIndex EXCEPT ![n][target[n]] =
                                   reply[n].match]
               /\ commitIndex' = [commitIndex EXCEPT ![n] =
                                    AdvanceCommitIndex(n, matchIndex'[n])]
<1>1. pc[n] = "appendreply" /\ target[n] \in Nodes /\ UNCHANGED log
  BY CalledPeer DEF ReceiveAppend, Calling
<1>2. pc'[n] # "appendreply"
  BY DEF ReceiveAppend, EndRound, NextPeer, TypeOK, RoundTypes
<1>3. CASE role[n] = "LEADER" /\ reply[n].ok /\ reply[n].term <= currentTerm[n]
  <2> DEFINE match == [matchIndex[n] EXCEPT ![target[n]] = reply[n].match]
  <2>1. /\ matchIndex' = [matchIndex EXCEPT ![n] = match]
        /\ nextIndex' = [nextIndex EXCEPT ![n][target[n]] = reply[n].match + 1]
        /\ commitIndex' = [commitIndex EXCEPT ![n] = AdvanceCommitIndex(n, match)]
        /\ UNCHANGED <<currentTerm, role>>
    BY <1>3 DEF ReceiveAppend, persistent, LogType, TypeOK, NodeTypes, CallTypes,
       Reply
  <2>2. matchIndex'[n] = match
    BY <2>1 DEF TypeOK, IndexTypes
  <2>3. matchIndex' = [matchIndex EXCEPT ![n][target[n]] = reply[n].match]
    BY <2>1
  <2>4. commitIndex' = [commitIndex EXCEPT ![n] =
                          AdvanceCommitIndex(n, matchIndex'[n])]
    BY <2>1, <2>2
  <2> QED BY <1>1, <1>2, <1>3, <2>1, <2>3, <2>4
<1>4. CASE ~ (role[n] = "LEADER" /\ reply[n].ok /\ reply[n].term <= currentTerm[n])
  BY <1>1, <1>2, <1>4 DEF ReceiveAppend, persistent
<1> QED BY <1>3, <1>4

\* A leader's counters, before and after what a client appends
LEMMA IndicesStep ==
  ASSUME TypeOK, NEW g \in [Nodes -> Seq(Entries)], LogInv(g),
         [Next]_vars, NEW n \in Nodes, role'[n] = "LEADER", NEW p \in Nodes
  PROVE  /\ nextIndex'[n][p] <= Len(log[n]) + 1
         /\ matchIndex'[n][p] <= Len(log[n])
<1>1. Len(log[n]) \in Nat
  BY LogType
<1>2. CASE role[n] # "LEADER"
  BY <1>1, <1>2, NewLeader
<1>3. CASE role[n] = "LEADER"
  <2>1. /\ nextIndex[n][p] <= Len(log[n]) + 1
        /\ matchIndex[n][p] <= Len(log[n])
    BY <1>3 DEF LogInv, LeaderAhead
  <2>2. CASE ReceiveAppend(n)
    <3>1. /\ reply[n].match <= Len(log[n]) /\ reply[n].match \in Nat
      BY <1>3, <2>2 DEF ReceiveAppend, LogInv, LeaderAhead, TypeOK, CallTypes,
         Reply
    <3>2. \A i \in Nat \ {0} : BackOff(i) <= i /\ BackOff(i) \in Nat
      BY DEF BackOff
    <3>3. /\ nextIndex \in [Nodes -> [Nodes -> Nat \ {0}]]
          /\ matchIndex \in [Nodes -> [Nodes -> Nat]]
      BY DEF TypeOK, IndexTypes
    <3>4. CASE UNCHANGED <<commitIndex, indices>>
      BY <2>1, <3>4 DEF indices
    <3>5. CASE /\ nextIndex' = [nextIndex EXCEPT ![n][target[n]] = BackOff(@)]
               /\ UNCHANGED matchIndex
      <4>1. \/ nextIndex'[n][p] = nextIndex[n][p]
            \/ nextIndex'[n][p] = BackOff(nextIndex[n][p])
        BY <3>3, <3>5
      <4>2. nextIndex[n][p] \in Nat \ {0}
        BY <3>3
      <4>3. nextIndex'[n][p] <= nextIndex[n][p] /\ nextIndex'[n][p] \in Nat
        BY <3>2, <4>1, <4>2
      <4> QED BY <1>1, <2>1, <3>5, <4>2, <4>3
    <3>6. CASE /\ nextIndex' = [nextIndex EXCEPT ![n][target[n]] =
                                  reply[n].match + 1]
               /\ matchIndex' = [matchIndex EXCEPT ![n][target[n]] =
                                   reply[n].match]
      <4>1. \/ nextIndex'[n][p] = nextIndex[n][p]
            \/ nextIndex'[n][p] = reply[n].match + 1
        BY <3>3, <3>6
      <4>2. \/ matchIndex'[n][p] = matchIndex[n][p]
            \/ matchIndex'[n][p] = reply[n].match
        BY <3>3, <3>6
      <4> QED BY <1>1, <2>1, <3>1, <4>1, <4>2
    <3> QED BY <2>2, <3>4, <3>5, <3>6, ReceiveAppendCases
  <2>3. CASE FinishElection(n)
    <3>1. \/ UNCHANGED indices
          \/ nextIndex'[n][p] = Len(log[n]) + 1 /\ matchIndex'[n][p] = 0
      BY <2>3 DEF FinishElection, TypeOK, IndexTypes
    <3> QED BY <1>1, <2>1, <3>1 DEF indices
  <2>4. CASE Own(n) /\ ~ ReceiveAppend(n) /\ ~ FinishElection(n)
    <3>1. UNCHANGED indices
      BY <2>4 DEF Own, RoundStep, BecomeCandidate, SnapshotElection, CallVoter,
         ReceiveVote, StartHeartbeats, LookupFollower, CallFollower,
         FinishHeartbeats, LookupVoter, BuildAppend
    <3> QED BY <2>1, <3>1 DEF indices
  <2>5. CASE Undisturbed(n)
    BY <2>1, <2>5 DEF Undisturbed
  <2> QED BY <2>2, <2>3, <2>4, <2>5, OwnOrUndisturbed
<1> QED BY <1>2, <1>3

\* A reply in a leader's hands claims no more than its log
LEMMA RepliesStep ==
  ASSUME TypeOK, NEW g \in [Nodes -> Seq(Entries)], LogInv(g), [Next]_vars,
         NEW n \in Nodes, role'[n] = "LEADER", pc'[n] = "appendreply"
  PROVE  reply'[n].match <= Len(log[n])
<1>1. role[n] = "LEADER"
  BY NewLeader
<1>2. CASE pc[n] = "appendreply" /\ reply'[n] = reply[n]
  BY <1>1, <1>2 DEF LogInv, LeaderAhead
<1>3. CASE CallFollower(n)
  <2>1. target[n] \in Nodes /\ Sending(n) /\ g[n] \in Seq(Entries)
    BY <1>3, CalledPeer DEF CallFollower, Calling, Sending
  <2>2. Carries(n, g[n]) /\ Agree(log[target[n]], g[n]) /\ Holds(log[n], g[n])
    BY <1>1, <2>1 DEF LogInv, Carried, CopiesAgree, Copies, LeaderAhead
  <2>3. reply'[n].match = Len(g[n]) \/ reply'[n].match = 0
    BY <1>3, <2>1, <2>2, CallFollowerLog
  <2> QED BY <2>2, <2>3, LogType DEF Holds
<1>4. CASE Own(n) /\ ~ CallFollower(n)
  <2>1. FALSE
    BY <1>4, ReceiveAppendCases DEF Own, RoundStep, BecomeCandidate,
       SnapshotElection, CallVoter, ReceiveVote, StartHeartbeats, LookupFollower,
       FinishElection, FinishHeartbeats, LookupVoter, BuildAppend, EndRound,
       NextPeer, TypeOK, RoundTypes
  <2> QED BY <2>1
<1>5. CASE Undisturbed(n)
  BY <1>2, <1>5 DEF Undisturbed
<1> QED BY <1>3, <1>4, <1>5, OwnOrUndisturbed

LEMMA LeaderAheadStep ==
  ASSUME TypeOK, NEW g \in [Nodes -> Seq(Entries)], LogInv(g), [Next]_vars,
         NEW h, h = NextSent(g)
  PROVE  LeaderAhead(h)'
<1> SUFFICES ASSUME NEW n \in Nodes, role'[n] = "LEADER"
             PROVE  /\ \A p \in Nodes : /\ nextIndex'[n][p] <= Len(log'[n]) + 1
                                        /\ matchIndex'[n][p] <= Len(log'[n])
                    /\ Sending(n)' => Holds(log'[n], h[n])
                    /\ pc'[n] = "appendreply" => reply'[n].match <= Len(log'[n])
  BY DEF LeaderAhead, Holds
<1>1. TypeOK'
  BY NextType
<1>2. Holds(log'[n], log[n])
  <2>1. Holds(log[n], log[n])
    BY LogType DEF Holds
  <2> QED BY <2>1, LeaderLogStep
<1>3. /\ Len(log[n]) \in Nat /\ Len(log'[n]) \in Nat
      /\ Len(log[n]) <= Len(log'[n])
      /\ \A k \in 1..Len(log[n]) : log'[n][k] = log[n][k]
  BY <1>1, <1>2, LogType, LenProperties DEF Holds, TypeOK, ReplicaTypes
<1>4. ASSUME NEW p \in Nodes
      PROVE  /\ nextIndex'[n][p] <= Len(log'[n]) + 1
             /\ matchIndex'[n][p] <= Len(log'[n])
  <2>1. nextIndex'[n][p] \in Nat /\ matchIndex'[n][p] \in Nat
    BY <1>1 DEF TypeOK, IndexTypes
  <2> QED BY <1>3, <2>1, IndicesStep
<1>5. ASSUME Sending(n)'
      PROVE  Holds(log'[n], h[n])
  <2>1. CASE Builds(n, h)
    BY <1>2, <2>1 DEF Builds
  <2>2. CASE Resends(n, g, h)
    <3>1. role[n] = "LEADER"
      BY <1>5, NewLeader DEF Sending
    <3>2. Holds(log[n], g[n]) /\ h[n] = g[n] /\ Len(g[n]) \in Nat
      BY <2>2, <3>1, LenProperties DEF Resends, LogInv, LeaderAhead
    <3> QED BY <1>3, <3>2 DEF Holds
  <2> QED BY <1>5, <2>1, <2>2, SendingStep
<1>6. ASSUME pc'[n] = "appendreply"
      PROVE  reply'[n].match <= Len(log'[n])
  <2>1. reply'[n].match \in Nat
    BY <1>1 DEF TypeOK, CallTypes, Reply
  <2> QED BY <1>3, <1>6, <2>1, RepliesStep
<1> QED BY <1>4, <1>5, <1>6

LEMMA StandingLogStep ==
  ASSUME TypeOK, ElectionInv, NEW g \in [Nodes -> Seq(Entries)], LogInv(g),
         [Next]_vars
  PROVE  StandingLog'
<1> SUFFICES ASSUME NEW m \in Nodes, Standing(m)'
             PROVE  /\ rpc'[m].index = Len(log'[m])
                    /\ rpc'[m].logTerm = LastTerm(log'[m])
  BY DEF StandingLog, LastTerm, TermAt
<1>1. role'[m] = "CANDIDATE"
  BY DEF Standing
<1>2. CASE log'[m] # log[m]
  <2>1. role[m] = "LEADER" /\ \E c \in Commands : Submits(m, c)
    BY <1>1, <1>2, LeaderLogStep
  <2> QED BY <1>1, <2>1 DEF Submits
<1>3. CASE log'[m] = log[m] /\ SnapshotElection(m)
  BY <1>3 DEF SnapshotElection, VoteRequest, TypeOK, CallTypes, LastTerm, TermAt
<1>4. CASE log'[m] = log[m] /\ ~ SnapshotElection(m)
  <2>1. Standing(m) /\ rpc'[m] = rpc[m]
    <3>1. CASE Own(m)
      <4>1. CASE CallVoter(m) \/ CallFollower(m)
        <5>1. role'[m] = role[m]
          BY <4>1, CalledPeer DEF CallVoter, CallFollower, HandleRequestVote,
             HandleAppendEntries, Calling, TypeOK, NodeTypes
        <5> QED BY <1>1, <4>1, <5>1 DEF CallVoter, CallFollower, Standing,
                                        TypeOK, RoundTypes
      <4>2. ASSUME NEW p \in Nodes, \/ StartHeartbeats(m) \/ LookupFollower(m)
                   \/ FinishHeartbeats(m) \/ LookupVoter(m, p)
                   \/ BuildAppend(m, p)
            PROVE  Standing(m) /\ rpc'[m] = rpc[m]
        BY <4>2 DEF StartHeartbeats, LookupFollower, FinishHeartbeats,
           LookupVoter, BuildAppend, EndRound, NextPeer, Standing, TypeOK,
           RoundTypes
      <4>3. CASE BecomeCandidate(m) \/ FinishElection(m) \/ ReceiveAppend(m)
        BY <4>3 DEF BecomeCandidate, FinishElection, ReceiveAppend, EndRound,
           NextPeer, Standing, TypeOK, RoundTypes
      <4>4. CASE ReceiveVote(m)
        BY <4>4 DEF ReceiveVote, EndRound, Standing, TypeOK, RoundTypes
      <4> QED BY <1>4, <3>1, <4>1, <4>2, <4>3, <4>4 DEF Own, RoundStep
    <3>2. CASE Undisturbed(m) /\ ~ Own(m)
      <4>1. role[m] = "CANDIDATE"
        BY <1>1, <1>4, <3>2, CandidateKept
      <4> QED BY <3>2, <4>1 DEF Undisturbed, Standing
    <3> QED BY <3>1, <3>2, OwnOrUndisturbed
  <2> QED BY <1>4, <2>1 DEF LogInv, StandingLog, LastTerm, TermAt
<1> QED BY <1>2, <1>3, <1>4

LEMMA LogInvStep ==
  ASSUME OddCluster, TypeOK, ElectionInv, ClaimInv,
         NEW g \in [Nodes -> Seq(Entries)], LogInv(g), [Next]_vars,
         NEW h, h = NextSent(g)
  PROVE  h \in [Nodes -> Seq(Entries)] /\ LogInv(h)'
<1>1. h \in [Nodes -> Seq(Entries)]
  BY DEF NextSent, TypeOK, ReplicaTypes
<1>2. ElectionSafety
  BY DEF ElectionInv
<1> QED BY <1>1, <1>2, CopiesAgreeStep, TermsWonStep, LeaderHasAllStep,
           TermsReachedStep, CarriedStep, LeaderAheadStep, StandingLogStep
        DEF LogInv

LEMMA InitLogs ==
  ASSUME Init, NEW g, g = [n \in Nodes |-> <<>>]
  PROVE  g \in [Nodes -> Seq(Entries)] /\ LogInv(g)
<1>1. /\ \A X \in Copies(g) : X = <<>>
      /\ DOMAIN <<>> = {}
  BY DEF Init, Copies
<1>2. /\ \A n \in Nodes : ~ Sending(n) /\ role[n] = "FOLLOWER" /\ ~ Standing(n)
      /\ \A n \in Nodes : log[n] = <<>>
  BY DEF Init, Sending, Standing
<1>3. g \in [Nodes -> Seq(Entries)]
  BY EmptySeq
<1> QED BY <1>1, <1>2, <1>3
        DEF LogInv, CopiesAgree, TermsGrow, Agree, TermsWon, LeaderHasAll,
            TermsReached, Carried, LeaderAhead, StandingLog

LogsAgree == \E g \in [Nodes -> Seq(Entries)] : LogInv(g)

LEMMA LogInvariant == OddCluster => (Spec => []LogsAgree)
<1> SUFFICES ASSUME OddCluster PROVE Spec => []LogsAgree
  OBVIOUS
<1>1. Init => LogsAgree
  <2> SUFFICES ASSUME Init PROVE LogsAgree
    OBVIOUS
  <2>1. \E g : g = [n \in Nodes |-> <<>>]
    OBVIOUS
  <2> QED BY <2>1, InitLogs DEF LogsAgree
<1>2. TypeOK /\ ElectionInv /\ ClaimInv /\ LogsAgree /\ [Next]_vars => LogsAgree'
  <2> SUFFICES ASSUME TypeOK, ElectionInv, ClaimInv, LogsAgree, [Next]_vars
               PROVE  LogsAgree'
    OBVIOUS
  <2>1. PICK g \in [Nodes -> Seq(Entries)] : LogInv(g)
    BY DEF LogsAgree
  <2>2. PICK h : h = NextSent(g)
    OBVIOUS
  <2>3. h \in [Nodes -> Seq(Entries)] /\ LogInv(h)'
    BY <2>1, <2>2, LogInvStep
  <2> QED BY <2>3 DEF LogsAgree, Entries
<1> QED BY <1>1, <1>2, ClaimInvariant, TypeCorrect, ElectionInvariant, PTL DEF Spec

LEMMA EqualPrefixes ==
  ASSUME NEW X \in Seq(Entries), NEW Y \in Seq(Entries), NEW i \in Nat,
         i <= Len(X), i <= Len(Y), \A k \in 1..i : X[k] = Y[k]
  PROVE  SubSeq(X, 1, i) = SubSeq(Y, 1, i)
<1> DEFINE P == SubSeq(X, 1, i)
           Q == SubSeq(Y, 1, i)
<1>1. Len(X) \in Nat /\ Len(Y) \in Nat
  BY LenProperties
<1>2. /\ P \in Seq(Entries) /\ Len(P) = i
      /\ \A k \in 1..i : P[k] = X[k]
  BY <1>1
<1>3. /\ Q \in Seq(Entries) /\ Len(Q) = i
      /\ \A k \in 1..i : Q[k] = Y[k]
  BY <1>1
<1> HIDE DEF P, Q
<1>4. P = Q
  BY <1>2, <1>3, SeqEqual
<1> QED BY <1>4 DEF P, Q

\* In a cluster of odd size two logs with an entry of the same term at the
\* same index are equal up to it: whatever handleAppendEntries overwrites, it
\* leaves a copy of what some leader of the term has had.
THEOREM LogsMatch == OddCluster => (Spec => []LogMatching)
<1> SUFFICES ASSUME OddCluster PROVE Spec => []LogMatching
  OBVIOUS
<1>1. TypeOK /\ LogsAgree => LogMatching
  <2> SUFFICES ASSUME TypeOK, LogsAgree, NEW n \in Nodes, NEW m \in Nodes,
                      NEW i \in DOMAIN log[n] \cap DOMAIN log[m],
                      log[n][i].term = log[m][i].term
               PROVE  SubSeq(log[n], 1, i) = SubSeq(log[m], 1, i)
    BY DEF LogMatching
  <2>1. Agree(log[n], log[m])
    BY DEF LogsAgree, LogInv, CopiesAgree, Copies
  <2>2. i \in Nat /\ i <= Len(log[n]) /\ i <= Len(log[m])
    BY LogType
  <2>3. \A k \in 1..i : log[n][k] = log[m][k]
    BY <2>1, <2>2 DEF Agree
  <2> QED BY <2>2, <2>3, LogType, EqualPrefixes
<1> QED BY <1>1, LogInvariant, TypeCorrect, PTL
=============================================================================
