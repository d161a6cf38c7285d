--------------------------- MODULE RaftCommitProofs ---------------------------
(***************************************************************************)
(* What a cluster of odd size has committed stays committed, whatever the  *)
(* faults and the bounds.                                                  *)
(***************************************************************************)
EXTENDS RaftProofs, RaftRefinement

(***************************************************************************)
(* Commitment.  P is safe in term t when no later leader can miss it: what *)
(* is known of term t and after it goes on from P.  A node holds P for     *)
(* good when it can only vote for candidates that hold it too.             *)
(***************************************************************************)
Proposal(P, t) ==
  /\ P \in Seq(Entries) /\ t \in Nat
  /\ P # <<>> /\ P[Len(P)].term = t
Safe(P, t, g) ==
  /\ \E l \in Nodes : Won(l, t)
  /\ \A X \in Copies(g) : \A j \in DOMAIN X : X[j].term > t => Holds(X, P)
  /\ \A m \in Nodes : role[m] = "LEADER" /\ currentTerm[m] >= t
                        => Holds(log[m], P)
  /\ \A n \in Nodes : Sending(n) =>
       /\ rpc[n].term > t => Holds(g[n], P)
       /\ rpc[n].term = t => Holds(g[n], P) \/ Holds(P, g[n])
Holder(P, t, v) ==
  /\ currentTerm[v] >= t
  /\ Holds(log[v], P)
  /\ \A m \in Nodes : Standing(m) /\ currentTerm[m] > t /\ v \in Support(m)
                        => Holds(log[m], P)
Decided(P, t, g) ==
  /\ Proposal(P, t) /\ Safe(P, t, g)
  /\ \E Q \in Quorums : \A v \in Q : Holder(P, t, v)

LEMMA HoldsTransitive ==
  ASSUME NEW X \in Seq(Entries), NEW Y \in Seq(Entries), NEW Z \in Seq(Entries),
         Holds(X, Y), Holds(Y, Z)
  PROVE  Holds(X, Z)
<1>1. Len(X) \in Nat /\ Len(Y) \in Nat /\ Len(Z) \in Nat
  BY LenProperties
<1> QED BY <1>1 DEF Holds

\* A voter that holds P gives its vote to a log that holds P
LEMMA VoteHolds ==
  ASSUME NEW X \in Seq(Entries), NEW Y \in Seq(Entries), NEW P, NEW t,
         Proposal(P, t), Holds(X, P), TermsGrow(X), Agree(X, Y),
         \A j \in DOMAIN Y : Y[j].term > t => Holds(Y, P),
         UpToDate(Len(Y), LastTerm(Y), X)
  PROVE  Holds(Y, P)
<1> DEFINE a == Len(X)
           b == Len(Y)
           c == Len(P)
<1>1. /\ a \in Nat /\ b \in Nat /\ c \in Nat \ {0}
      /\ DOMAIN X = 1..a /\ DOMAIN Y = 1..b /\ P[c].term = t /\ t \in Nat
  BY LenProperties, EmptySeq, SeqEqual DEF Proposal
<1>2. c <= a /\ \A k \in 1..c : X[k] = P[k]
  BY DEF Holds
<1>3. /\ LastTerm(X) = IF a = 0 THEN 0 ELSE X[a].term
      /\ LastTerm(Y) = IF b = 0 THEN 0 ELSE Y[b].term
  BY <1>1 DEF LastTerm, TermAt
<1>4. \/ LastTerm(Y) > LastTerm(X)
      \/ LastTerm(Y) = LastTerm(X) /\ b >= a
  BY DEF UpToDate
<1>5. Holds(Y, P) <=> c <= b /\ \A k \in 1..c : Y[k] = P[k]
  BY DEF Holds
<1>6. /\ \A i \in 1..a : X[i].term \in Nat
      /\ \A j \in 1..b : Y[j].term \in Nat
  <2>1. \A e \in Entries : e.term \in Nat
    BY DEF Entries
  <2> QED BY <2>1, ElementOfSeq
<1> HIDE DEF a, b, c
<1>7. a \in 1..a /\ c \in 1..a
  BY <1>1, <1>2
<1>8. X[a].term >= t
  <2>1. X[c].term <= X[a].term
    BY <1>1, <1>2, <1>7 DEF TermsGrow
  <2>2. X[c].term = t
    BY <1>1, <1>2
  <2> QED BY <1>1, <1>6, <1>7, <2>1, <2>2
<1>9. LastTerm(X) = X[a].term
  BY <1>1, <1>3, <1>7
<1>10. CASE LastTerm(Y) > LastTerm(X)
  <2>1. b # 0
    BY <1>3, <1>6, <1>7, <1>9, <1>10
  <2>2. b \in 1..b /\ LastTerm(Y) = Y[b].term
    BY <1>1, <1>3, <2>1
  <2>3. Y[b].term > t
    BY <1>1, <1>6, <1>7, <1>8, <1>9, <1>10, <2>2
  <2> QED BY <1>1, <2>2, <2>3
<1>11. CASE LastTerm(Y) = LastTerm(X) /\ b >= a
  <2>1. b \in 1..b /\ a \in 1..a /\ LastTerm(Y) = Y[b].term
    BY <1>1, <1>3, <1>7, <1>11
  <2>2. \A k \in 1..a : X[k] = Y[k]
    BY <1>1, <1>9, <1>11, <2>1 DEF Agree
  <2>3. c <= b /\ \A k \in 1..c : k \in 1..a
    BY <1>1, <1>2, <1>11
  <2> QED BY <1>2, <1>5, <2>2, <2>3
<1> QED BY <1>4, <1>10, <1>11

\* How a candidate gains support
Gains(m, v) ==
  \/ v = m /\ UNCHANGED log
  \/ /\ Standing(m) /\ CallVoter(m) /\ v = target[m] /\ UNCHANGED log
     /\ UpToDate(rpc[m].index, rpc[m].logTerm, log[v])

LEMMA GainsStep ==
  ASSUME TypeOK, ElectionInv, [Next]_vars, NEW m \in Nodes, Standing(m)',
         NEW v \in Support(m)'
  PROVE  Kept(m, v) \/ Gains(m, v)
<1>1. role'[m] = "CANDIDATE"
      /\ pc'[m] \in {"election", "votecall", "votereply"}
  BY DEF Standing
<1>2. CASE SnapshotElection(m)
  BY <1>2 DEF SnapshotElection, Support, Gains, replicas, TypeOK, RoundTypes
<1>3. CASE CallVoter(m)
  <2> DEFINE f == target[m]
             q == rpc[m]
             newer == q.term > currentTerm[f]
             term  == IF newer THEN q.term ELSE currentTerm[f]
             vote  == IF newer THEN None ELSE votedFor[f]
             grant == /\ q.term = term
                      /\ vote \in {None, m}
                      /\ UpToDate(q.index, q.logTerm, log[f])
  <2>1. f \in Nodes /\ f # m /\ pc[m] = "votecall" /\ UNCHANGED log
    BY <1>3, CalledPeer DEF CallVoter, Calling, replicas
  <2>2. role'[m] = role[m] /\ currentTerm'[m] = currentTerm[m]
    BY <1>3, <2>1 DEF CallVoter, HandleRequestVote, SetTermAndVote, persistent,
       TypeOK, NodeTypes
  <2>3. /\ granted' = granted /\ target' = target /\ pc'[m] = "votereply"
        /\ reply'[m].ok = grant
    BY <1>3 DEF CallVoter, HandleRequestVote, TypeOK, RoundTypes, CallTypes
  <2>4. Standing(m)
    BY <1>1, <2>1, <2>2 DEF Standing
  <2>5. v \in granted[m] \/ (v = f /\ grant)
    BY <2>3 DEF Support
  <2>6. CASE v \in granted[m]
    BY <2>2, <2>4, <2>6 DEF Kept, Support
  <2>7. CASE v = f /\ grant
    BY <1>3, <2>1, <2>4, <2>7 DEF Gains
  <2> QED BY <2>5, <2>6, <2>7
<1>4. CASE Undisturbed(m) /\ ~ Own(m)
  <2>1. role[m] = "CANDIDATE"
    BY <1>1, <1>4, CandidateKept
  <2>2. Standing(m) /\ v \in Support(m)
    BY <1>1, <1>4, <2>1 DEF Undisturbed, Standing, Support
  <2>3. currentTerm'[m] = currentTerm[m]
    <3>1. CandidatesForward
      BY ClaimStep DEF ClaimForward
    <3>2. rpc'[m].term = currentTerm'[m] /\ rpc[m].term = currentTerm[m]
      BY <2>2, SupportStep DEF SupportForward, ElectionInv, SupportIsPledged
    <3> QED BY <1>4, <3>2 DEF Undisturbed
  <2> QED BY <2>2, <2>3 DEF Kept
<1>5. ASSUME Own(m), ~ SnapshotElection(m), ~ CallVoter(m)
      PROVE  Kept(m, v)
  <2>1. ASSUME NEW p \in Nodes, LookupVoter(m, p)
        PROVE  Kept(m, v)
    BY <1>1, <2>1 DEF LookupVoter, Kept, Standing, Support, persistent, TypeOK,
       RoundTypes
  <2>2. CASE ReceiveVote(m)
    <3>1. /\ role[m] = "CANDIDATE" /\ pc[m] = "votereply"
          /\ granted' = [granted EXCEPT ![m] =
                           IF reply[m].ok THEN @ \cup {target[m]} ELSE @]
          /\ pc'[m] = "election" /\ UNCHANGED <<currentTerm, role>>
      BY <1>1, <2>2 DEF ReceiveVote, EndRound, persistent, TypeOK, RoundTypes
    <3>2. v \in granted'[m]
      BY <3>1 DEF Support
    <3> QED BY <3>1, <3>2 DEF Kept, Standing, Support, TypeOK, RoundTypes
  <2>3. ASSUME NEW p \in Nodes,
               \/ BecomeCandidate(m) \/ FinishElection(m) \/ ReceiveAppend(m)
               \/ StartHeartbeats(m) \/ LookupFollower(m) \/ CallFollower(m)
               \/ FinishHeartbeats(m) \/ BuildAppend(m, p)
        PROVE  FALSE
    BY <1>1, <2>3 DEF BecomeCandidate, FinishElection, ReceiveAppend,
       StartHeartbeats, LookupFollower, CallFollower, FinishHeartbeats,
       BuildAppend, EndRound, NextPeer, TypeOK, RoundTypes
  <2> QED BY <1>5, <2>1, <2>2, <2>3 DEF Own, RoundStep
<1> QED BY <1>2, <1>3, <1>4, <1>5, OwnOrUndisturbed

LEMMA LeadersHoldStep ==
  ASSUME OddCluster, TypeOK, ElectionInv, NEW g \in [Nodes -> Seq(Entries)],
         LogInv(g), [Next]_vars, NEW P, NEW t, Proposal(P, t), Safe(P, t, g),
         NEW W \in SUBSET Nodes, \A v \in W : Holder(P, t, v),
         \A m \in Nodes :
           Elected(m) /\ currentTerm[m] > t /\ role[m] # "LEADER"
             /\ role'[m] = "LEADER" => \E v \in W : v \in Support(m),
         NEW l \in Nodes, role'[l] = "LEADER", currentTerm'[l] >= t
  PROVE  Holds(log[l], P) /\ Holds(log'[l], P)
<1>1. /\ currentTerm'[l] = currentTerm[l]
      /\ role[l] = "LEADER" \/ Elected(l)
  BY SupportStep DEF RolesForward
<1>2. /\ log[l] \in Seq(Entries) /\ log'[l] \in Seq(Entries) /\ P \in Seq(Entries)
      /\ currentTerm[l] \in Nat /\ t \in Nat
  BY NextType DEF Proposal, TypeOK, ReplicaTypes, NodeTypes
<1>3. Holds(log[l], P)
  <2>1. CASE role[l] = "LEADER"
    BY <1>1, <2>1 DEF Safe
  <2>2. CASE role[l] # "LEADER"
    <3>1. Elected(l) /\ Standing(l)
      BY <1>1, <2>2 DEF Elected
    <3>2. currentTerm[l] # t
      BY <3>1, ElectionIsFirst DEF Safe
    <3>3. currentTerm[l] > t
      BY <1>1, <1>2, <3>2
    <3>4. PICK v \in W : v \in Support(l)
      BY <2>2, <3>1, <3>3
    <3> QED BY <3>1, <3>3, <3>4 DEF Holder
  <2> QED BY <2>1, <2>2
<1>4. log'[l] = log[l] \/ Holds(log'[l], log[l])
  BY LeaderLogStep
<1> QED BY <1>2, <1>3, <1>4, HoldsTransitive

LEMMA SafeStep ==
  ASSUME OddCluster, TypeOK, ElectionInv, ClaimInv,
         NEW g \in [Nodes -> Seq(Entries)], LogInv(g), [Next]_vars,
         NEW h, h = NextSent(g),
         NEW P, NEW t, Proposal(P, t), Safe(P, t, g),
         NEW W \in SUBSET Nodes, \A v \in W : Holder(P, t, v),
         \A m \in Nodes :
           Elected(m) /\ currentTerm[m] > t /\ role[m] # "LEADER"
             /\ role'[m] = "LEADER" => \E v \in W : v \in Support(m)
  PROVE  Safe(P, t, h)'
<1>1. t \in Nat /\ P \in Seq(Entries) /\ Len(P) \in Nat
  BY LenProperties DEF Proposal
<1>2. \E l \in Nodes : Won(l, t)'
  BY <1>1, WonStep DEF Safe
<1>3. ASSUME NEW X \in Copies(h)', NEW j \in DOMAIN X, X[j].term > t
      PROVE  Holds(X, P)
  <2>1. CASE X \in Copies(g)
    BY <1>3, <2>1 DEF Safe
  <2>2. ASSUME NEW n \in Nodes, NEW c \in Commands, Submits(n, c), X = log'[n]
        PROVE  Holds(X, P)
    <3>1. /\ X \in Seq(Entries) /\ Len(X) = Len(log[n]) + 1
          /\ \A k \in 1..Len(log[n]) : X[k] = log[n][k]
          /\ X[Len(log[n]) + 1].term = currentTerm[n]
          /\ Len(log[n]) \in Nat
          /\ DOMAIN log[n] = 1..Len(log[n])
          /\ DOMAIN X = 1..(Len(log[n]) + 1)
      BY <2>2, SubmitLog
    <3>2. Holds(log[n], P)
      <4>1. CASE j = Len(log[n]) + 1
        <5>1. currentTerm[n] > t /\ currentTerm[n] \in Nat
          BY <1>3, <3>1, <4>1, LogType
        <5>2. currentTerm[n] >= t /\ role[n] = "LEADER"
          BY <1>1, <2>2, <5>1 DEF Submits
        <5> QED BY <5>2 DEF Safe
      <4>2. CASE j # Len(log[n]) + 1
        <5>1. j \in 1..Len(log[n])
          BY <1>3, <3>1, <4>2
        <5>2. j \in DOMAIN log[n] /\ log[n][j].term > t /\ log[n] \in Copies(g)
          BY <1>3, <3>1, <5>1 DEF Copies
        <5> QED BY <5>2 DEF Safe
      <4> QED BY <4>1, <4>2
    <3> QED BY <1>1, <3>1, <3>2 DEF Holds
  <2> QED BY <2>1, <2>2, CopiesStep
<1>4. \A m \in Nodes : role'[m] = "LEADER" /\ currentTerm'[m] >= t
                         => Holds(log'[m], P)
  BY LeadersHoldStep
<1>5. ASSUME NEW n \in Nodes, Sending(n)'
      PROVE  /\ rpc'[n].term > t => Holds(h[n], P)
             /\ rpc'[n].term = t => Holds(h[n], P) \/ Holds(P, h[n])
  <2>1. CASE Resends(n, g, h)
    BY <2>1 DEF Resends, Safe
  <2>2. CASE Builds(n, h)
    <3>1. /\ role[n] = "LEADER" /\ rpc'[n].term = currentTerm[n]
          /\ h[n] = log[n] /\ currentTerm[n] \in Nat
      BY <2>2, LogType DEF Builds, ClaimInv, InRound
    <3>2. currentTerm[n] >= t => Holds(log[n], P)
      BY <3>1 DEF Safe
    <3> QED BY <1>1, <3>1, <3>2
  <2> QED BY <1>5, <2>1, <2>2, SendingStep
<1> QED BY <1>2, <1>3, <1>4, <1>5 DEF Safe, Holds

LEMMA HolderStep ==
  ASSUME TypeOK, ElectionInv, NEW g \in [Nodes -> Seq(Entries)],
         LogInv(g), [Next]_vars,
         NEW P, NEW t, Proposal(P, t), Safe(P, t, g),
         NEW v \in Nodes, Holder(P, t, v)
  PROVE  Holder(P, t, v)'
<1>1. /\ t \in Nat /\ P \in Seq(Entries) /\ Len(P) \in Nat
      /\ \A n \in Nodes : log'[n] \in Seq(Entries) /\ log[n] \in Seq(Entries)
  BY LenProperties, NextType DEF Proposal, TypeOK, ReplicaTypes
<1>2. currentTerm'[v] >= t
  BY <1>1, TermsForward DEF Holder
<1>3. Holds(log'[v], P)
  <2>1. CASE log'[v] = log[v]
    BY <2>1 DEF Holder
  <2>2. ASSUME NEW n \in Nodes, NEW c \in Commands, Submits(n, c),
               log'[v] # log[v]
        PROVE  Holds(log'[v], P)
    <3>1. /\ n = v /\ Len(log'[v]) = Len(log[v]) + 1 /\ Len(log[v]) \in Nat
          /\ \A k \in 1..Len(log[v]) : log'[v][k] = log[v][k]
      BY <2>2, SubmitLog
    <3> QED BY <1>1, <3>1 DEF Holder, Holds
  <2>3. ASSUME NEW n \in Nodes, NEW f \in Nodes, Overwrites(n, f, g),
               log'[v] # log[v]
        PROVE  Holds(log'[v], P)
    <3>1. /\ f = v /\ log'[v] = g[n] /\ Sending(n)
          /\ currentTerm[v] <= rpc[n].term /\ ~ Holds(log[v], g[n])
          /\ rpc[n].term \in Nat /\ currentTerm[v] \in Nat
          /\ g[n] \in Seq(Entries)
      BY <2>3, LogType DEF Overwrites, Sending, TypeOK, ReplicaTypes
    <3>2. rpc[n].term > t \/ rpc[n].term = t
      BY <1>1, <3>1 DEF Holder
    <3>3. ~ Holds(P, g[n])
      BY <1>1, <3>1, HoldsTransitive DEF Holder
    <3> QED BY <3>1, <3>2, <3>3 DEF Safe
  <2> QED BY <2>1, <2>2, <2>3, LogsStep DEF LogsForward
<1>4. ASSUME NEW m \in Nodes, Standing(m)', currentTerm'[m] > t, v \in Support(m)'
      PROVE  Holds(log'[m], P)
  <2>1. CASE Kept(m, v)
    <3>1. Holds(log[m], P)
      BY <1>4, <2>1 DEF Kept, Holder
    <3>2. log'[m] = log[m]
      BY <1>4, LeaderLogStep DEF Standing, Submits
    <3> QED BY <3>1, <3>2
  <2>2. CASE v = m
    BY <1>3, <2>2
  <2>3. CASE /\ Standing(m) /\ UNCHANGED log
             /\ UpToDate(rpc[m].index, rpc[m].logTerm, log[v])
    <3>1. rpc[m].index = Len(log[m]) /\ rpc[m].logTerm = LastTerm(log[m])
      BY <2>3 DEF LogInv, StandingLog
    <3>2. /\ TermsGrow(log[v]) /\ Agree(log[v], log[m])
          /\ \A j \in DOMAIN log[m] : log[m][j].term > t => Holds(log[m], P)
      BY DEF LogInv, CopiesAgree, Copies, Safe
    <3>3. Holds(log[m], P)
      BY <1>1, <2>3, <3>1, <3>2, VoteHolds DEF Holder
    <3> QED BY <2>3, <3>3
  <2> QED BY <1>4, <2>1, <2>2, <2>3, GainsStep DEF Gains
<1> QED BY <1>2, <1>3, <1>4 DEF Holder, Holds

\* What is decided stays decided
LEMMA DecidedStep ==
  ASSUME OddCluster, TypeOK, ElectionInv, ClaimInv,
         NEW g \in [Nodes -> Seq(Entries)], LogInv(g), [Next]_vars,
         NEW h, h = NextSent(g), NEW P, NEW t, Decided(P, t, g)
  PROVE  Decided(P, t, h)'
<1>1. PICK Q \in Quorums : \A v \in Q : Holder(P, t, v)
  BY DEF Decided
<1>2. Q \in SUBSET Nodes /\ Q \in Quorums'
  BY DEF Quorums, ElectionMajority
<1>3. \A m \in Nodes : Elected(m) => \E v \in Q : v \in Support(m)
  BY QuorumsIntersect DEF Elected
<1>4. Proposal(P, t) /\ Safe(P, t, g)
  BY DEF Decided
<1>5. Safe(P, t, h)'
  BY <1>1, <1>2, <1>3, <1>4, SafeStep
<1>6. \A v \in Q : Holder(P, t, v)'
  BY <1>1, <1>2, <1>4, HolderStep
<1>7. Proposal(P, t)'
  BY <1>4 DEF Proposal, Entries
<1> QED BY <1>2, <1>5, <1>6, <1>7 DEF Decided

-----------------------------------------------------------------------------
(***************************************************************************)
(* The invariant of commitment.  A node's commit index, and the one a      *)
(* round carries, lie in a decided prefix.  An entry of a leader's own     *)
(* term is held for good by whoever acknowledged it, unless a quorum       *)
(* without them has already gone on to a later term.                       *)
(***************************************************************************)
CommittedDecided(g) ==
  \A n \in Nodes : commitIndex[n] > 0 =>
    /\ commitIndex[n] <= Len(log[n])
    /\ \E P \in Seq(Entries), t \in Nat :
         /\ Decided(P, t, g) /\ t <= currentTerm[n]
         /\ commitIndex[n] <= Len(P)
         /\ \A k \in 1..commitIndex[n] : log[n][k] = P[k]
RoundDecided(g) ==
  \A n \in Nodes : InRound(n) /\ rpc[n].commit > 0 =>
    /\ \E P \in Seq(Entries), t \in Nat :
         /\ Decided(P, t, g) /\ t <= rpc[n].term
         /\ rpc[n].commit <= Len(P)
    /\ Sending(n) => rpc[n].commit <= Len(g[n])

\* Who holds entry i as far as leader l knows, a reply in its hands included
AckedBy(l, i) ==
  {l} \cup {p \in Peers(l) : matchIndex[l][p] >= i}
      \cup {f \in Nodes : /\ pc[l] = "appendreply" /\ f = target[l]
                          /\ reply[l].ok /\ reply[l].match >= i}
Bypassed(l, i) ==
  \E R \in Quorums : \A v \in R : v \notin AckedBy(l, i)
                                  /\ currentTerm[v] > currentTerm[l]
HeldByAcked(P, l, i, g) ==
  /\ Safe(P, currentTerm[l], g)
  /\ \A v \in AckedBy(l, i) : Holder(P, currentTerm[l], v)
AcksHold(g) ==
  \A l \in Nodes : role[l] = "LEADER" =>
    \A i \in DOMAIN log[l] : log[l][i].term = currentTerm[l] =>
      HeldByAcked(SubSeq(log[l], 1, i), l, i, g) \/ Bypassed(l, i)
CommitInv(g) == CommittedDecided(g) /\ RoundDecided(g) /\ AcksHold(g)

\* A prefix of a log with an entry of term t at its end is a proposal
LEMMA PrefixProposal ==
  ASSUME TypeOK, NEW l \in Nodes, NEW i \in DOMAIN log[l], NEW P,
         P = SubSeq(log[l], 1, i)
  PROVE  /\ Proposal(P, log[l][i].term) /\ Len(P) = i
         /\ \A k \in 1..i : P[k] = log[l][k]
         /\ Holds(log[l], P)
<1>1. /\ log[l] \in Seq(Entries) /\ Len(log[l]) \in Nat
      /\ i \in Nat /\ 1 <= i /\ i <= Len(log[l])
      /\ log[l][i].term \in Nat
  BY LogType
<1>2. /\ P \in Seq(Entries) /\ Len(P) = i
      /\ \A k \in 1..i : P[k] = log[l][k]
  BY <1>1
<1>3. P # <<>>
  BY <1>1, <1>2
<1>4. Holds(log[l], P)
  BY <1>1, <1>2 DEF Holds
<1>5. P[Len(P)].term = log[l][i].term
  BY <1>1, <1>2
<1> QED BY <1>1, <1>2, <1>3, <1>4, <1>5 DEF Proposal

\* Three steps move a commit index
LEMMA CommitMovers ==
  ASSUME [Next]_vars
  PROVE  \/ \E m \in Nodes : ReceiveAppend(m) \/ CallFollower(m) \/ Reload(m)
         \/ UNCHANGED commitIndex
<1>1. CASE \E m \in Nodes : BecomeCandidate(m) \/ RoundStep(m)
  BY <1>1 DEF BecomeCandidate, RoundStep, SnapshotElection, CallVoter,
     ReceiveVote, FinishElection, StartHeartbeats, LookupFollower,
     FinishHeartbeats, LookupVoter, BuildAppend, replicas
<1>2. CASE \E m \in Nodes, c \in Commands : SubmitCommand(m, c)
  BY <1>2 DEF SubmitCommand
<1>3. CASE \E m \in Faulty : OwnerStep(m)
  BY <1>3, NodesAssumption DEF OwnerStep, Partition, Heal, SetIsolated, Stop,
     RegisterVoteHandler, RegisterAppendHandler, replicas
<1>4. CASE UNCHANGED vars
  BY <1>4 DEF vars, replicas
<1> QED BY <1>1, <1>2, <1>3, <1>4 DEF Next

\* How commit indices move
LEMMA CommitsStep ==
  ASSUME TypeOK, NEW g \in [Nodes -> Seq(Entries)], LogInv(g), [Next]_vars,
         NEW n \in Nodes
  PROVE  \/ commitIndex'[n] = commitIndex[n]
         \/ commitIndex'[n] = 0
         \/ \E m \in Nodes :
              /\ pc[m] = "appendcall" /\ n = target[m]
              /\ rpc[m].term >= currentTerm[n] /\ currentTerm'[n] = rpc[m].term
              /\ rpc[m].commit > commitIndex[n]
              /\ commitIndex'[n] = Lower(rpc[m].commit, Len(log'[n]))
              /\ log'[n] = IF Holds(log[n], g[m]) THEN log[n] ELSE g[m]
         \/ /\ ReceiveAppend(n) /\ UNCHANGED <<log, currentTerm>>
            /\ role[n] = "LEADER" /\ reply[n].ok /\ pc[n] = "appendreply"
            /\ matchIndex' = [matchIndex EXCEPT ![n][target[n]] = reply[n].match]
            /\ commitIndex'[n] = AdvanceCommitIndex(n, matchIndex'[n])
<1>1. commitIndex \in [Nodes -> Nat] /\ log \in [Nodes -> Seq(Entries)]
  BY DEF TypeOK, ReplicaTypes
<1>2. ASSUME NEW m \in Nodes, ReceiveAppend(m)
      PROVE  \/ commitIndex'[n] = commitIndex[n]
             \/ /\ ReceiveAppend(n) /\ UNCHANGED <<log, currentTerm>>
                /\ role[n] = "LEADER" /\ reply[n].ok /\ pc[n] = "appendreply"
                /\ matchIndex' = [matchIndex EXCEPT ![n][target[n]] = reply[n].match]
                /\ commitIndex'[n] = AdvanceCommitIndex(n, matchIndex'[n])
  BY <1>1, <1>2, ReceiveAppendCases
<1>3. ASSUME NEW m \in Nodes, CallFollower(m)
      PROVE  \/ commitIndex'[n] = commitIndex[n]
             \/ /\ pc[m] = "appendcall" /\ n = target[m]
                /\ rpc[m].term >= currentTerm[n] /\ currentTerm'[n] = rpc[m].term
                /\ rpc[m].commit > commitIndex[n]
                /\ commitIndex'[n] = Lower(rpc[m].commit, Len(log'[n]))
                /\ log'[n] = IF Holds(log[n], g[m]) THEN log[n] ELSE g[m]
  <2>1. target[m] \in Nodes /\ Sending(m) /\ pc[m] = "appendcall"
    BY <1>3, CalledPeer DEF CallFollower, Calling, Sending
  <2>2. Carries(m, g[m]) /\ Agree(log[target[m]], g[m])
    BY <2>1 DEF LogInv, Carried, CopiesAgree, Copies
  <2> DEFINE f == target[m]
             match == /\ rpc[m].term >= currentTerm[f]
                      /\ rpc[m].index <= Len(log[f])
                      /\ TermAt(log[f], rpc[m].index) = rpc[m].logTerm
  <2>3. /\ match => log' = [log EXCEPT ![f] =
                              IF Holds(log[f], g[m]) THEN log[f] ELSE g[m]]
        /\ commitIndex' = [commitIndex EXCEPT ![f] =
                             IF match /\ rpc[m].commit > commitIndex[f]
                             THEN Lower(rpc[m].commit, Len(log'[f]))
                             ELSE commitIndex[f]]
    <3>1. g[m] \in Seq(Entries)
      OBVIOUS
    <3> QED BY <1>3, <2>2, <3>1, CallFollowerLog
  <2>4. match => rpc[m].term >= currentTerm[f]
    OBVIOUS
  <2> HIDE DEF match
  <2>5. CASE n # f
    BY <1>1, <2>1, <2>3, <2>5
  <2>6. CASE n = f
    <3>1. rpc[m].term >= currentTerm[n] => currentTerm'[n] = rpc[m].term
      BY <1>3, <2>1, <2>6, LogType DEF CallFollower, HandleAppendEntries,
         SetTermAndVote, persistent, TypeOK, NodeTypes
    <3> QED BY <1>1, <2>1, <2>3, <2>4, <2>6, <3>1
  <2> QED BY <2>5, <2>6
<1>4. ASSUME NEW m \in Nodes, Reload(m)
      PROVE  commitIndex'[n] = commitIndex[n] \/ commitIndex'[n] = 0
  BY <1>1, <1>4 DEF Reload
<1>5. CASE UNCHANGED commitIndex
  BY <1>5
<1>6. \/ \E m \in Nodes : ReceiveAppend(m) \/ CallFollower(m) \/ Reload(m)
      \/ UNCHANGED commitIndex
  BY CommitMovers
<1> QED BY <1>2, <1>3, <1>4, <1>5, <1>6

\* Two copies a decided prefix has met agree as far as both lie in it
LEMMA SentAgrees ==
  ASSUME TypeOK, NEW g \in [Nodes -> Seq(Entries)], NEW m \in Nodes, Sending(m),
         NEW P \in Seq(Entries), NEW t \in Nat, Decided(P, t, g),
         t <= rpc[m].term
  PROVE  Holds(g[m], P) \/ Holds(P, g[m])
<1>1. rpc[m].term > t \/ rpc[m].term = t
  BY LogType
<1> QED BY <1>1 DEF Decided, Safe

\* No step changes what a node has committed
LEMMA KeepsCommitted ==
  ASSUME TypeOK, ElectionInv, NEW g \in [Nodes -> Seq(Entries)], LogInv(g),
         CommittedDecided(g), [Next]_vars, NEW n \in Nodes
  PROVE  /\ commitIndex[n] <= Len(log[n]) /\ commitIndex[n] <= Len(log'[n])
         /\ \A k \in 1..commitIndex[n] : log'[n][k] = log[n][k]
<1>1. /\ commitIndex[n] \in Nat /\ Len(log[n]) \in Nat
      /\ log[n] \in Seq(Entries)
      /\ commitIndex[n] <= Len(log[n])
  <2>1. commitIndex[n] \in Nat
    BY DEF TypeOK, ReplicaTypes
  <2> QED BY <2>1, LogType DEF CommittedDecided
<1>2. CASE log'[n] = log[n]
  BY <1>1, <1>2
<1>3. ASSUME NEW m \in Nodes, NEW c \in Commands, Submits(m, c), m = n
      PROVE  /\ commitIndex[n] <= Len(log'[n])
             /\ \A k \in 1..commitIndex[n] : log'[n][k] = log[n][k]
  BY <1>1, <1>3, SubmitLog
<1>4. ASSUME NEW m \in Nodes, Overwrites(m, n, g), commitIndex[n] > 0
      PROVE  /\ commitIndex[n] <= Len(log'[n])
             /\ \A k \in 1..commitIndex[n] : log'[n][k] = log[n][k]
  <2>1. PICK P \in Seq(Entries), t \in Nat :
          /\ Decided(P, t, g) /\ t <= currentTerm[n]
          /\ commitIndex[n] <= Len(P)
          /\ \A k \in 1..commitIndex[n] : log[n][k] = P[k]
    BY <1>4 DEF CommittedDecided
  <2>2. /\ Sending(m) /\ currentTerm[n] <= rpc[m].term
        /\ ~ Holds(log[n], g[m]) /\ log'[n] = g[m]
    BY <1>4 DEF Overwrites, Sending, TypeOK, ReplicaTypes
  <2>3. t <= rpc[m].term
    BY <2>1, <2>2, LogType
  <2>4. Holds(g[m], P) \/ Holds(P, g[m])
    BY <2>1, <2>2, <2>3, SentAgrees
  <2>5. Len(g[m]) \in Nat /\ Len(P) \in Nat /\ g[m] \in Seq(Entries)
    BY LenProperties
  <2>6. commitIndex[n] <= Len(g[m])
    <3> SUFFICES ASSUME Len(g[m]) < commitIndex[n]
                 PROVE  FALSE
      BY <1>1, <2>5
    <3>1. Holds(P, g[m])
      BY <1>1, <2>1, <2>4, <2>5 DEF Holds
    <3>2. Holds(log[n], g[m])
      BY <1>1, <2>1, <2>5, <3>1 DEF Holds
    <3> QED BY <2>2, <3>2
  <2> QED BY <1>1, <2>1, <2>2, <2>4, <2>5, <2>6 DEF Holds
<1>5. CASE commitIndex[n] = 0
  <2>1. log' \in [Nodes -> Seq(Entries)]
    <3>1. TypeOK'
      BY NextType
    <3> QED BY <3>1 DEF TypeOK, ReplicaTypes, Entries
  <2>2. Len(log'[n]) \in Nat
    BY <2>1, LenProperties
  <2> QED BY <1>1, <1>5, <2>2
<1>6. \/ log'[n] = log[n]
      \/ \E m \in Nodes, c \in Commands : Submits(m, c) /\ m = n
      \/ \E m \in Nodes : Overwrites(m, n, g)
  <2>1. LogsForward(g)
    BY LogsStep
  <2>2. CASE UNCHANGED log
    BY <2>2
  <2>3. ASSUME NEW m \in Nodes, NEW c \in Commands, Submits(m, c), m # n
        PROVE  log'[n] = log[n]
    BY <2>3, SubmitLog
  <2>4. ASSUME NEW m \in Nodes, NEW f \in Nodes, Overwrites(m, f, g), f # n
        PROVE  log'[n] = log[n]
    BY <2>4 DEF Overwrites, TypeOK, ReplicaTypes
  <2> QED BY <2>1, <2>2, <2>3, <2>4 DEF LogsForward
<1> QED BY <1>1, <1>2, <1>3, <1>4, <1>5, <1>6

\* A leader that counts a majority of acknowledgements has decided
LEMMA AdvanceDecides ==
  ASSUME OddCluster, TypeOK, ElectionInv, NEW g \in [Nodes -> Seq(Entries)],
         LogInv(g), AcksHold(g), NEW n \in Nodes,
         /\ role[n] = "LEADER" /\ reply[n].ok /\ pc[n] = "appendreply"
         /\ matchIndex' = [matchIndex EXCEPT ![n][target[n]] = reply[n].match],
         NEW c, c = commitIndex'[n], c # commitIndex[n],
         c = AdvanceCommitIndex(n, matchIndex'[n])
  PROVE  /\ c \in Nat /\ c > commitIndex[n] /\ c <= Len(log[n])
         /\ \E P \in Seq(Entries) :
              /\ Decided(P, currentTerm[n], g) /\ Len(P) = c
              /\ \A k \in 1..c : log[n][k] = P[k]
<1> DEFINE match == matchIndex'[n]
           agreed == {i \in (commitIndex[n] + 1)..Len(log[n]) :
                        Replicated(n, i, match)}
           P == SubSeq(log[n], 1, c)
<1>0. match = [matchIndex[n] EXCEPT ![target[n]] = reply[n].match]
  BY DEF TypeOK, IndexTypes
<1>1. commitIndex[n] \in Nat /\ Len(log[n]) \in Nat /\ target[n] \in Nodes
      /\ target[n] # n
  BY LogType, CalledPeer DEF TypeOK, ReplicaTypes, Calling
<1>2. c \in agreed
  <2>1. agreed # {} /\ c = CHOOSE i \in agreed : \A j \in agreed : j <= i
    BY <1>0, Zenon DEF AdvanceCommitIndex
  <2>2. agreed \in SUBSET (0..Len(log[n]))
    BY <1>1
  <2> HIDE DEF agreed
  <2>3. \E x \in agreed : \A y \in agreed : y <= x
    BY <1>1, <2>1, <2>2, GreatestBelow
  <2> QED BY <2>1, <2>3
<1>3. /\ c \in Nat /\ c > commitIndex[n] /\ c <= Len(log[n])
      /\ c \in DOMAIN log[n] /\ c >= 1
  BY <1>1, <1>2, LogType
<1>4. /\ log[n][c].term = currentTerm[n]
      /\ Cardinality({p \in Peers(n) : match[p] >= c}) + 1 >= CommitMajority
  BY <1>2 DEF Replicated
<1> HIDE DEF agreed, match
<1>5. AckedBy(n, c) \in Quorums
  <2> DEFINE A == {p \in Peers(n) : match[p] >= c}
  <2>1. IsFiniteSet(Nodes) /\ Cardinality(Nodes) \in Nat
    BY NodesAssumption, FS_CardinalityType
  <2>2. A \subseteq Nodes /\ n \notin A
    BY DEF Peers
  <2>3. IsFiniteSet(A) /\ Cardinality(A) \in Nat
    BY <2>1, <2>2, FS_Subset, FS_CardinalityType
  <2>4. Cardinality(A \cup {n}) = Cardinality(A) + 1
    BY <2>2, <2>3, FS_AddElement
  <2>5. A \cup {n} \subseteq AckedBy(n, c)
    <3> SUFFICES ASSUME NEW p \in A, p # n
                 PROVE  p \in AckedBy(n, c)
      BY DEF AckedBy
    <3>1. p \in Peers(n) /\ match[p] >= c
      OBVIOUS
    <3>2. matchIndex[n] \in [Nodes -> Nat]
      BY DEF TypeOK, IndexTypes
    <3>3. CASE p = target[n]
      BY <1>0, <1>1, <3>1, <3>2, <3>3 DEF AckedBy
    <3>4. CASE p # target[n]
      BY <1>0, <1>1, <3>1, <3>2, <3>4 DEF AckedBy
    <3> QED BY <3>3, <3>4
  <2>6. AckedBy(n, c) \subseteq Nodes
    BY DEF AckedBy, Peers
  <2>7. /\ Cardinality(A \cup {n}) <= Cardinality(AckedBy(n, c))
        /\ Cardinality(AckedBy(n, c)) \in Nat
    BY <2>1, <2>5, <2>6, FS_Subset, FS_CardinalityType
  <2>8. CommitMajority = ElectionMajority
    <3>1. PICK k \in Nat : Cardinality(Nodes) = 2 * k + 1
      BY DEF OddCluster
    <3> QED BY <3>1 DEF CommitMajority, ElectionMajority
  <2>9. Cardinality(A) + 1 >= ElectionMajority
    BY <1>4, <2>8
  <2>10. ElectionMajority \in Nat
    BY <2>1 DEF ElectionMajority
  <2> HIDE DEF A
  <2>11. \A a, b, e \in Nat : a + 1 <= b /\ a + 1 >= e => b >= e
    OBVIOUS
  <2>12. Cardinality(A) + 1 <= Cardinality(AckedBy(n, c))
    BY <2>4, <2>7
  <2>13. Cardinality(AckedBy(n, c)) >= ElectionMajority
    BY <2>3, <2>7, <2>9, <2>10, <2>11, <2>12
  <2> QED BY <2>6, <2>13 DEF Quorums
<1>6. ~ Bypassed(n, c)
  <2> SUFFICES ASSUME NEW R \in Quorums, \A v \in R : v \notin AckedBy(n, c)
               PROVE  FALSE
    BY DEF Bypassed
  <2> QED BY <1>5, QuorumsIntersect
<1>7. HeldByAcked(P, n, c, g)
  BY <1>3, <1>4, <1>6 DEF AcksHold
<1>8. /\ Proposal(P, currentTerm[n]) /\ Len(P) = c
      /\ \A k \in 1..c : P[k] = log[n][k]
  BY <1>3, <1>4, PrefixProposal
<1> HIDE DEF P
<1>9. Decided(P, currentTerm[n], g)
  BY <1>5, <1>7, <1>8 DEF HeldByAcked, Decided
<1>10. P \in Seq(Entries)
  BY <1>8 DEF Proposal
<1> QED BY <1>3, <1>8, <1>9, <1>10

LEMMA CommittedDecidedStep ==
  ASSUME OddCluster, TypeOK, ElectionInv, ClaimInv,
         NEW g \in [Nodes -> Seq(Entries)], LogInv(g), CommitInv(g), [Next]_vars,
         NEW h, h = NextSent(g)
  PROVE  CommittedDecided(h)'
<1> SUFFICES ASSUME NEW n \in Nodes, commitIndex'[n] > 0
             PROVE  /\ commitIndex'[n] <= Len(log'[n])
                    /\ \E P \in Seq(Entries), t \in Nat :
                         /\ Decided(P, t, h)' /\ t <= currentTerm'[n]
                         /\ commitIndex'[n] <= Len(P)
                         /\ \A k \in 1..commitIndex'[n] : log'[n][k] = P[k]
  <2>1. Seq(Entries)' = Seq(Entries)
    BY DEF Entries
  <2> QED BY <2>1 DEF CommittedDecided
<1>1. \A P, t : Decided(P, t, g) => Decided(P, t, h)'
  BY DecidedStep
<1>2. /\ currentTerm[n] \in Nat /\ currentTerm'[n] \in Nat
      /\ currentTerm[n] <= currentTerm'[n]
  BY TermsForward
<1>3. /\ commitIndex[n] <= Len(log[n]) /\ commitIndex[n] <= Len(log'[n])
      /\ \A k \in 1..commitIndex[n] : log'[n][k] = log[n][k]
  BY KeepsCommitted DEF CommitInv
<1>4. CASE commitIndex'[n] = commitIndex[n]
  <2>1. PICK P \in Seq(Entries), t \in Nat :
          /\ Decided(P, t, g) /\ t <= currentTerm[n]
          /\ commitIndex[n] <= Len(P)
          /\ \A k \in 1..commitIndex[n] : log[n][k] = P[k]
    BY <1>4 DEF CommitInv, CommittedDecided
  <2>2. t <= currentTerm'[n]
    BY <1>2, <2>1
  <2> QED BY <1>1, <1>3, <1>4, <2>1, <2>2
<1>5. ASSUME NEW m \in Nodes, pc[m] = "appendcall", n = target[m],
             rpc[m].term >= currentTerm[n], currentTerm'[n] = rpc[m].term,
             rpc[m].commit > commitIndex[n],
             commitIndex'[n] = Lower(rpc[m].commit, Len(log'[n])),
             log'[n] = IF Holds(log[n], g[m]) THEN log[n] ELSE g[m]
      PROVE  /\ commitIndex'[n] <= Len(log'[n])
             /\ \E P \in Seq(Entries), t \in Nat :
                  /\ Decided(P, t, h)' /\ t <= currentTerm'[n]
                  /\ commitIndex'[n] <= Len(P)
                  /\ \A k \in 1..commitIndex'[n] : log'[n][k] = P[k]
  <2>1. Sending(m) /\ InRound(m)
    BY <1>5 DEF Sending, InRound
  <2>2. /\ rpc[m].commit \in Nat /\ commitIndex[n] \in Nat
        /\ Len(g[m]) \in Nat /\ Len(log[n]) \in Nat
    BY LogType, LenProperties DEF TypeOK, CallTypes, Request, ReplicaTypes
  <2>3. rpc[m].commit > 0 /\ rpc[m].commit <= Len(g[m])
    BY <1>5, <2>1, <2>2 DEF CommitInv, RoundDecided
  <2>4. PICK P \in Seq(Entries), t \in Nat :
          /\ Decided(P, t, g) /\ t <= rpc[m].term /\ rpc[m].commit <= Len(P)
    BY <2>1, <2>3 DEF CommitInv, RoundDecided
  <2>5. Len(P) \in Nat
    BY LenProperties
  <2>6. Holds(g[m], P) \/ Holds(P, g[m])
    BY <2>1, <2>4, SentAgrees
  <2>7. Holds(log'[n], g[m]) /\ Len(log'[n]) \in Nat
    BY <1>5, <2>2 DEF Holds
  <2>8. commitIndex'[n] = rpc[m].commit /\ rpc[m].commit <= Len(log'[n])
    BY <1>5, <2>2, <2>3, <2>7 DEF Holds, Lower
  <2>9. \A k \in 1..rpc[m].commit : log'[n][k] = g[m][k] /\ g[m][k] = P[k]
    BY <2>2, <2>3, <2>4, <2>5, <2>6, <2>7 DEF Holds
  <2> QED BY <1>1, <1>5, <2>4, <2>8, <2>9
<1>6. CASE /\ ReceiveAppend(n) /\ UNCHANGED <<log, currentTerm>>
           /\ role[n] = "LEADER" /\ reply[n].ok /\ pc[n] = "appendreply"
           /\ matchIndex' = [matchIndex EXCEPT ![n][target[n]] = reply[n].match]
           /\ commitIndex'[n] = AdvanceCommitIndex(n, matchIndex'[n])
           /\ commitIndex'[n] # commitIndex[n]
  <2>1. PICK c, t : c = commitIndex'[n] /\ t = currentTerm[n]
    OBVIOUS
  <2>2. AcksHold(g)
    BY DEF CommitInv
  <2>5. /\ c \in Nat /\ c > commitIndex[n] /\ c <= Len(log[n])
        /\ \E P \in Seq(Entries) :
             /\ Decided(P, currentTerm[n], g) /\ Len(P) = c
             /\ \A k \in 1..c : log[n][k] = P[k]
    <3>1. /\ role[n] = "LEADER" /\ reply[n].ok /\ pc[n] = "appendreply"
          /\ matchIndex' = [matchIndex EXCEPT ![n][target[n]] = reply[n].match]
      BY <1>6
    <3>2. c = commitIndex'[n] /\ c # commitIndex[n]
      BY <1>6, <2>1
    <3>3. c = AdvanceCommitIndex(n, matchIndex'[n])
      BY <1>6, <2>1
    <3> QED BY <3>1, <3>2, <3>3, <2>2, AdvanceDecides
  <2>6. PICK P \in Seq(Entries) :
             /\ Decided(P, t, g) /\ Len(P) = c
             /\ \A k \in 1..c : log[n][k] = P[k]
    BY <2>1, <2>5
  <2>7. Decided(P, t, h)'
    BY <1>1, <2>6
  <2>8. t \in Nat /\ t <= currentTerm'[n]
    BY <1>2, <2>1
  <2>9. c <= Len(log'[n]) /\ \A k \in 1..c : log'[n][k] = P[k]
    BY <1>6, <2>5, <2>6
  <2>10. \E Q \in Seq(Entries), u \in Nat :
           /\ Decided(Q, u, h)' /\ u <= currentTerm'[n] /\ c <= Len(Q)
           /\ \A k \in 1..c : log'[n][k] = Q[k]
    <3>1. c <= Len(P)
      BY <2>5, <2>6
    <3> QED BY <2>6, <2>7, <2>8, <2>9, <3>1, Zenon
  <2> QED BY <2>1, <2>9, <2>10, Zenon
<1> QED BY <1>4, <1>5, <1>6, CommitsStep

\* A round keeps the commit index it took from its leader
LEMMA RoundsStep ==
  ASSUME TypeOK, [Next]_vars, NEW n \in Nodes, InRound(n)'
  PROVE  \/ /\ InRound(n) /\ rpc'[n].commit = rpc[n].commit
            /\ rpc'[n].term = rpc[n].term
         \/ /\ role[n] = "LEADER" /\ pc'[n] = "heartbeat"
            /\ rpc'[n].commit = commitIndex[n] /\ rpc'[n].term = currentTerm[n]
<1>1. CASE Undisturbed(n)
  BY <1>1 DEF Undisturbed, InRound
<1>2. CASE StartHeartbeats(n)
  BY <1>2 DEF StartHeartbeats, Heartbeat, TypeOK, RoundTypes, CallTypes
<1>3. CASE CallFollower(n)
  BY <1>3 DEF CallFollower, InRound
<1>4. CASE LookupFollower(n) \/ ReceiveAppend(n)
  <2>1. \/ NextPeer(n)
        \/ EndRound(n)
        \/ UNCHANGED rpc
    BY <1>4 DEF LookupFollower, ReceiveAppend
  <2>2. EndRound(n) => pc'[n] = "idle"
    BY DEF EndRound, TypeOK, RoundTypes
  <2>3. NextPeer(n) => /\ rpc'[n].commit = rpc[n].commit
                       /\ rpc'[n].term = rpc[n].term
    BY DEF NextPeer, Heartbeat, TypeOK, CallTypes
  <2>4. InRound(n)
    BY <1>4 DEF LookupFollower, ReceiveAppend, InRound
  <2> QED BY <2>1, <2>2, <2>3, <2>4 DEF InRound
<1>5. ASSUME NEW p \in Nodes, BuildAppend(n, p)
      PROVE  /\ InRound(n) /\ rpc'[n].commit = rpc[n].commit
             /\ rpc'[n].term = rpc[n].term
  <2>1. EndRound(n) => pc'[n] = "idle"
    BY DEF EndRound, TypeOK, RoundTypes
  <2>2. InRound(n)
    BY <1>5 DEF BuildAppend, InRound
  <2> QED BY <1>5, <2>1, <2>2 DEF BuildAppend, InRound, TypeOK, CallTypes
<1>6. ASSUME \/ BecomeCandidate(n) \/ SnapshotElection(n) \/ CallVoter(n)
             \/ ReceiveVote(n) \/ FinishElection(n) \/ FinishHeartbeats(n)
             \/ \E p \in Nodes : LookupVoter(n, p)
      PROVE  FALSE
  BY <1>6 DEF BecomeCandidate, SnapshotElection, CallVoter, ReceiveVote,
     FinishElection, FinishHeartbeats, LookupVoter, EndRound, InRound, TypeOK,
     RoundTypes
<1> QED BY <1>1, <1>2, <1>3, <1>4, <1>5, <1>6, OwnOrUndisturbed
        DEF Own, RoundStep

LEMMA RoundDecidedStep ==
  ASSUME OddCluster, TypeOK, ElectionInv, ClaimInv,
         NEW g \in [Nodes -> Seq(Entries)], LogInv(g), CommitInv(g), [Next]_vars,
         NEW h, h = NextSent(g)
  PROVE  RoundDecided(h)'
<1> SUFFICES ASSUME NEW n \in Nodes, InRound(n)', rpc'[n].commit > 0
             PROVE  /\ \E P \in Seq(Entries), t \in Nat :
                         /\ Decided(P, t, h)' /\ t <= rpc'[n].term
                         /\ rpc'[n].commit <= Len(P)
                    /\ Sending(n)' => rpc'[n].commit <= Len(h[n])
  <2>1. Seq(Entries)' = Seq(Entries)
    BY DEF Entries
  <2> QED BY <2>1 DEF RoundDecided
<1>1. \A P, t : Decided(P, t, g) => Decided(P, t, h)'
  BY DecidedStep
<1>2. CASE /\ InRound(n) /\ rpc'[n].commit = rpc[n].commit
           /\ rpc'[n].term = rpc[n].term
  <2>1. PICK P \in Seq(Entries), t \in Nat :
          /\ Decided(P, t, g) /\ t <= rpc[n].term /\ rpc[n].commit <= Len(P)
    BY <1>2 DEF CommitInv, RoundDecided
  <2>2. ASSUME Sending(n)'
        PROVE  rpc'[n].commit <= Len(h[n])
    <3>1. CASE Resends(n, g, h)
      BY <1>2, <3>1 DEF Resends, CommitInv, RoundDecided
    <3>2. CASE Builds(n, h)
      <4>1. role[n] = "LEADER" /\ h[n] = log[n]
        BY <3>2 DEF Builds
      <4>2. rpc[n].term = currentTerm[n]
        BY <1>2, <4>1 DEF ClaimInv
      <4>3. Holds(log[n], P)
        BY <2>1, <4>1, <4>2 DEF Decided, Safe
      <4>4. Len(P) <= Len(log[n]) /\ Len(P) \in Nat /\ Len(log[n]) \in Nat
        BY <4>3, LogType, LenProperties DEF Holds
      <4>5. rpc[n].commit \in Nat
        BY DEF TypeOK, CallTypes, Request
      <4> QED BY <1>2, <2>1, <4>1, <4>4, <4>5
    <3> QED BY <2>2, <3>1, <3>2, SendingStep
  <2> QED BY <1>1, <1>2, <2>1, <2>2
<1>3. CASE /\ role[n] = "LEADER" /\ pc'[n] = "heartbeat"
           /\ rpc'[n].commit = commitIndex[n] /\ rpc'[n].term = currentTerm[n]
  <2>1. PICK P \in Seq(Entries), t \in Nat :
          /\ Decided(P, t, g) /\ t <= currentTerm[n] /\ commitIndex[n] <= Len(P)
    BY <1>3 DEF CommitInv, CommittedDecided
  <2>2. ~ Sending(n)'
    BY <1>3 DEF Sending
  <2> QED BY <1>1, <1>3, <2>1, <2>2
<1> QED BY <1>2, <1>3, RoundsStep

\* Acknowledgements are old ones, or that of the follower a leader has just
\* brought up to i
LEMMA AcksStep ==
  ASSUME OddCluster, TypeOK, ElectionInv, ClaimInv,
         NEW g \in [Nodes -> Seq(Entries)], LogInv(g), [Next]_vars,
         NEW l \in Nodes, role[l] = "LEADER", role'[l] = "LEADER",
         NEW i \in Nat, NEW v, v \in AckedBy(l, i)'
  PROVE  \/ v \in AckedBy(l, i)
         \/ /\ i <= Len(log[l]) /\ v \in Nodes
            /\ currentTerm[v] <= currentTerm[l]
            /\ currentTerm'[v] = currentTerm[l]
            /\ \A k \in 1..i : log'[v][k] = log[l][k]
            /\ i <= Len(log'[v])
<1>1. CASE v = l
  BY <1>1 DEF AckedBy
<1>2. CASE v \in Peers(l) /\ matchIndex'[l][v] >= i
  <2>1. /\ matchIndex \in [Nodes -> [Nodes -> Nat]] /\ v \in Nodes
    BY <1>2 DEF TypeOK, IndexTypes, Peers
  <2>2. CASE matchIndex'[l][v] = matchIndex[l][v]
    BY <1>2, <2>2 DEF AckedBy
  <2>3. CASE ReceiveAppend(l)
    <3>1. CASE UNCHANGED matchIndex
      BY <2>2, <3>1
    <3>2. CASE /\ reply[l].ok
               /\ matchIndex' = [matchIndex EXCEPT ![l][target[l]] =
                                   reply[l].match]
      <4>1. CASE v = target[l]
        <5>1. matchIndex'[l][v] = reply[l].match /\ pc[l] = "appendreply"
          BY <2>1, <2>3, <3>2, <4>1 DEF ReceiveAppend
        <5> QED BY <1>2, <2>1, <3>2, <4>1, <5>1 DEF AckedBy
      <4>2. CASE v # target[l]
        BY <2>1, <2>2, <3>2, <4>2
      <4> QED BY <4>1, <4>2
    <3> QED BY <2>3, <3>1, <3>2, ReceiveAppendCases DEF indices
  <2>4. CASE FinishElection(l)
    BY <2>2, <2>4 DEF FinishElection, indices
  <2>5. CASE Own(l) /\ ~ ReceiveAppend(l) /\ ~ FinishElection(l)
    <3>1. UNCHANGED indices
      BY <2>5 DEF Own, RoundStep, BecomeCandidate, SnapshotElection, CallVoter,
         ReceiveVote, StartHeartbeats, LookupFollower, CallFollower,
         FinishHeartbeats, LookupVoter, BuildAppend
    <3> QED BY <2>2, <3>1 DEF indices
  <2>6. CASE Undisturbed(l)
    BY <2>2, <2>6 DEF Undisturbed
  <2> QED BY <2>3, <2>4, <2>5, <2>6, OwnOrUndisturbed
<1>3. CASE /\ pc'[l] = "appendreply" /\ v = target'[l] /\ v \in Nodes
           /\ reply'[l].ok /\ reply'[l].match >= i
  <2>1. CASE Undisturbed(l)
    BY <1>3, <2>1 DEF Undisturbed, AckedBy
  <2>2. CASE CallFollower(l)
    <3>1. /\ Sending(l) /\ InRound(l) /\ target[l] \in Nodes
          /\ UNCHANGED target /\ v = target[l]
      BY <1>3, <2>2, CalledPeer DEF CallFollower, Calling, Sending, InRound
    <3>2. /\ Carries(l, g[l]) /\ Agree(log[v], g[l]) /\ Holds(log[l], g[l])
          /\ g[l] \in Seq(Entries)
      BY <3>1 DEF LogInv, Carried, CopiesAgree, Copies, LeaderAhead
    <3>3. rpc[l].term = currentTerm[l]
      BY <3>1 DEF ClaimInv
    <3>4. /\ rpc[l].term >= currentTerm[v]
          /\ log' = [log EXCEPT ![v] = IF Holds(log[v], g[l]) THEN log[v] ELSE g[l]]
          /\ reply'[l].match = Len(g[l])
      <4> DEFINE match == /\ rpc[l].term >= currentTerm[v]
                          /\ rpc[l].index <= Len(log[v])
                          /\ TermAt(log[v], rpc[l].index) = rpc[l].logTerm
      <4>1. /\ match => log' = [log EXCEPT ![v] =
                                  IF Holds(log[v], g[l]) THEN log[v] ELSE g[l]]
            /\ reply'[l].ok = match
            /\ match => reply'[l].match = Len(g[l])
        BY <2>2, <3>1, <3>2, CallFollowerLog
      <4>2. match => rpc[l].term >= currentTerm[v]
        OBVIOUS
      <4> HIDE DEF match
      <4> QED BY <1>3, <4>1, <4>2
    <3>5. currentTerm'[v] = currentTerm[l]
      BY <2>2, <3>1, <3>3, <3>4, LogType DEF CallFollower, HandleAppendEntries,
         SetTermAndVote, persistent, TypeOK, NodeTypes
    <3>6. Holds(log'[v], g[l])
      BY <1>3, <3>2, <3>4, LenProperties DEF Holds, TypeOK, ReplicaTypes
    <3>7. Len(g[l]) \in Nat /\ i <= Len(g[l]) /\ currentTerm[v] <= currentTerm[l]
      BY <1>3, <3>2, <3>3, <3>4, LogType, LenProperties
    <3>8. Len(log'[v]) \in Nat /\ Len(log[l]) \in Nat
      BY <1>3, <3>2, <3>4, LogType, LenProperties DEF TypeOK, ReplicaTypes
    <3>9. \A k \in 1..i : k \in 1..Len(g[l])
      BY <3>7
    <3>10. i <= Len(log[l]) /\ i <= Len(log'[v])
      BY <3>2, <3>6, <3>7, <3>8 DEF Holds
    <3>11. \A k \in 1..i : log'[v][k] = log[l][k]
      BY <3>2, <3>6, <3>9 DEF Holds
    <3> QED BY <1>3, <3>5, <3>7, <3>10, <3>11
  <2>3. CASE Own(l) /\ ~ CallFollower(l)
    BY <1>3, <2>3, ReceiveAppendCases DEF Own, RoundStep, BecomeCandidate,
       SnapshotElection, CallVoter, ReceiveVote, StartHeartbeats,
       LookupFollower, FinishElection, FinishHeartbeats, LookupVoter,
       BuildAppend, EndRound, NextPeer, TypeOK, RoundTypes
  <2> QED BY <2>1, <2>2, <2>3, OwnOrUndisturbed
<1> QED BY <1>1, <1>2, <1>3 DEF AckedBy

\* A node in the current term of a leader supports no candidate beyond it
LEMMA NoLaterVote ==
  ASSUME TypeOK, TypeOK', ElectionInv', NEW v \in Nodes, NEW t \in Nat,
         currentTerm'[v] = t, NEW m \in Nodes, Standing(m)', currentTerm'[m] > t
  PROVE  v \notin Support(m)'
<1>1. v \in Support(m)' => Pledged(v, m)'
  BY DEF ElectionInv, SupportIsPledged
<1>2. currentTerm'[m] \in Nat
  BY DEF TypeOK, NodeTypes
<1> QED BY <1>1, <1>2 DEF Pledged

\* What a client has just appended: its leader holds it, and nobody can know of
\* a later term unless a quorum has gone on to it
LEMMA FreshEntry ==
  ASSUME OddCluster, TypeOK, TypeOK', ElectionInv, ElectionInv', ClaimInv,
         ClaimInv', NEW g \in [Nodes -> Seq(Entries)], LogInv(g), [Next]_vars,
         NEW h \in [Nodes -> Seq(Entries)], LogInv(h)',
         NEW l \in Nodes, NEW c \in Commands, Submits(l, c),
         NEW i, i = Len(log[l]) + 1, AckedBy(l, i)' = {l}
  PROVE  HeldByAcked(SubSeq(log[l], 1, i), l, i, h)' \/ Bypassed(l, i)'
<1>1. PICK t, P : t = currentTerm[l] /\ P = SubSeq(log'[l], 1, i)
  OBVIOUS
<1>2. /\ t \in Nat /\ currentTerm'[l] = t /\ role'[l] = "LEADER"
  BY <1>1, LogType DEF Submits, persistent
<1>3. /\ log'[l] \in Seq(Entries) /\ Len(log'[l]) = i /\ i \in Nat
      /\ \A k \in DOMAIN log[l] : k <= i
  BY SubmitLog
<1>4. /\ Holds(log'[l], P) /\ Holds(P, log'[l]) /\ P \in Seq(Entries)
      /\ \A X : Holds(log'[l], X) => Holds(P, X)
  <2>1. P \in Seq(Entries) /\ Len(P) = i /\ \A k \in 1..i : P[k] = log'[l][k]
    BY <1>1, <1>3
  <2>2. P = log'[l]
    BY <1>3, <2>1, SeqEqual
  <2> QED BY <1>3, <2>1, <2>2 DEF Holds
<1>5. CASE \E x \in Nodes, T \in Nat : T > t /\ Won(x, T)'
  <2>1. PICK x \in Nodes, T \in Nat : T > t /\ Won(x, T)'
    BY <1>5
  <2>2. PICK Q \in Quorums' : \A v \in Q : Loyal(v, x, T)'
    BY <2>1 DEF Won
  <2>3. ASSUME NEW v \in Q
        PROVE  v \notin AckedBy(l, i)' /\ currentTerm'[v] > currentTerm'[l]
    <3>1. v \in Nodes
      BY DEF Quorums
    <3>2. currentTerm'[v] \in Nat
      BY <3>1 DEF TypeOK, NodeTypes
    <3>3. Loyal(v, x, T)'
      BY <2>2
    <3>4. currentTerm'[v] > T \/ currentTerm'[v] = T
      BY <3>3 DEF Loyal
    <3>5. currentTerm'[v] > t
      BY <1>2, <2>1, <3>2, <3>4
    <3>6. v # l
      BY <1>2, <3>2, <3>5
    <3> QED BY <1>2, <3>5, <3>6
  <2> QED BY <2>3 DEF Bypassed
<1>6. CASE \A x \in Nodes, T \in Nat : T > t => ~ Won(x, T)'
  <2>1. Won(l, t)'
    BY <1>2 DEF ClaimInv, Claims
  <2>2. ASSUME NEW X \in Copies(h)', NEW j \in DOMAIN X
        PROVE  ~ (X[j].term > t)
    <3>1. X \in Seq(Entries)
      BY DEF Copies, TypeOK, ReplicaTypes, Entries
    <3>2. X[j] \in Entries
      BY <3>1, ElementOfSeq
    <3>3. X[j].term \in Nat
      BY <3>2 DEF Entries
    <3>4. \E x \in Nodes : Won(x, X[j].term)'
      BY DEF LogInv, TermsWon
    <3> QED BY <1>6, <3>3, <3>4
  <2>3. ASSUME NEW m \in Nodes, role'[m] = "LEADER", currentTerm'[m] >= t
        PROVE  Holds(log'[m], P)
    <3>1. PICK T \in Nat : T = currentTerm'[m]
      BY DEF TypeOK, NodeTypes
    <3>2. Won(m, T)'
      BY <2>3, <3>1 DEF ClaimInv, Claims
    <3>3. currentTerm'[m] = t
      BY <1>2, <1>6, <2>3, <3>1, <3>2
    <3>4. m = l
      BY <1>2, <2>3, <3>3 DEF ElectionInv, ElectionSafety
    <3> QED BY <1>4, <3>4
  <2>4. ASSUME NEW n \in Nodes, Sending(n)'
        PROVE  /\ ~ (rpc'[n].term > t)
               /\ rpc'[n].term = t => Holds(P, h[n])
    <3>1. PICK T \in Nat : T = rpc'[n].term
      BY DEF TypeOK, CallTypes, Request
    <3>2. InRound(n)'
      BY <2>4 DEF Sending, InRound
    <3>3. Claims(n, T)'
      BY <3>1, <3>2 DEF Claims
    <3>4. Won(n, T)'
      BY <3>3 DEF ClaimInv
    <3>5. ASSUME T = t
          PROVE  Holds(P, h[n])
      <4>1. Claims(l, t)' /\ Claims(n, t)'
        BY <1>2, <3>3, <3>5 DEF Claims
      <4>2. n = l
        BY <1>2, <4>1 DEF ClaimInv
      <4>3. Holds(log'[l], h[l])
        BY <1>2, <2>4, <4>2 DEF LogInv, LeaderAhead
      <4> QED BY <1>4, <4>2, <4>3
    <3>6. ~ (T > t)
      BY <1>6, <3>4
    <3> QED BY <3>1, <3>5, <3>6
  <2>5. Safe(P, t, h)'
    <3>1. \A X \in Copies(h)' : \A j \in DOMAIN X :
            X[j].term > t => Holds(X, P)
      BY <2>2
    <3>2. \A m \in Nodes : role'[m] = "LEADER" /\ currentTerm'[m] >= t
                            => Holds(log'[m], P)
      BY <2>3
    <3>3. \A n \in Nodes : Sending(n)' =>
            /\ rpc'[n].term > t => Holds(h[n], P)
            /\ rpc'[n].term = t => Holds(h[n], P) \/ Holds(P, h[n])
      BY <2>4
    <3> QED BY <2>1, <3>1, <3>2, <3>3 DEF Safe, Holds
  <2>6. Holder(P, t, l)'
    <3>1. \A m \in Nodes : Standing(m)' /\ currentTerm'[m] > t
                              => l \notin Support(m)'
      BY <1>2, NoLaterVote
    <3>2. Holds(log[l], P)'
      BY <1>4 DEF Holds
    <3> QED BY <1>2, <3>1, <3>2 DEF Holder
  <2>7. HeldByAcked(SubSeq(log[l], 1, i), l, i, h)'
    BY <1>1, <1>2, <2>5, <2>6 DEF HeldByAcked
  <2> QED BY <2>7
<1> QED BY <1>5, <1>6

LEMMA OldEntry ==
  ASSUME OddCluster, TypeOK, TypeOK', ElectionInv, ElectionInv', ClaimInv,
         NEW g \in [Nodes -> Seq(Entries)], LogInv(g), [Next]_vars,
         NEW h, h = NextSent(g),
         NEW l \in Nodes, role[l] = "LEADER", role'[l] = "LEADER",
         NEW i \in DOMAIN log[l], log[l][i].term = currentTerm[l],
         NEW P, P = SubSeq(log[l], 1, i),
         HeldByAcked(P, l, i, g) \/ Bypassed(l, i)
  PROVE  HeldByAcked(P, l, i, h)' \/ Bypassed(l, i)'
<1>1. PICK t : t = currentTerm[l]
  OBVIOUS
<1>2. t \in Nat /\ currentTerm'[l] = t
  BY <1>1, LogType, SupportStep DEF RolesForward
<1>3. /\ Proposal(P, t) /\ Len(P) = i /\ i \in Nat
      /\ \A k \in 1..i : P[k] = log[l][k]
  <2>1. /\ Proposal(P, log[l][i].term) /\ Len(P) = i
        /\ \A k \in 1..i : P[k] = log[l][k]
    BY PrefixProposal
  <2>2. i \in Nat
    BY LogType
  <2> QED BY <1>1, <2>1, <2>2
<1>4. ASSUME NEW v, v \in AckedBy(l, i)', v \notin AckedBy(l, i)
      PROVE  /\ v \in Nodes /\ currentTerm[v] <= t /\ currentTerm'[v] = t
             /\ Holds(log'[v], P)
  <2>1. /\ v \in Nodes /\ currentTerm[v] <= t /\ currentTerm'[v] = t
        /\ \A k \in 1..i : log'[v][k] = log[l][k]
        /\ i <= Len(log'[v])
    BY <1>1, <1>3, <1>4, AcksStep
  <2> QED BY <1>3, <2>1 DEF Holds
<1>5. \A v \in Nodes : /\ currentTerm[v] \in Nat /\ currentTerm'[v] \in Nat
                       /\ currentTerm[v] <= currentTerm'[v]
  BY TermsForward
\* A quorum that has gone on without the acknowledgers stays without them
<1>6. ASSUME NEW R \in Quorums,
             \A v \in R : v \notin AckedBy(l, i) /\ currentTerm[v] > t
      PROVE  Bypassed(l, i)'
  <2>1. R \in Quorums'
    BY DEF Quorums, ElectionMajority
  <2>2. ASSUME NEW v \in R
        PROVE  v \notin AckedBy(l, i)' /\ currentTerm'[v] > currentTerm'[l]
    <3>1. v \in Nodes
      BY DEF Quorums
    <3>2. v \notin AckedBy(l, i) /\ currentTerm[v] > t
      BY <1>6
    <3> QED BY <1>2, <1>4, <1>5, <3>1, <3>2
  <2> QED BY <2>1, <2>2 DEF Bypassed
<1>7. CASE Bypassed(l, i)
  BY <1>1, <1>6, <1>7 DEF Bypassed
<1>8. CASE HeldByAcked(P, l, i, g)
  <2>1. PICK W : W = AckedBy(l, i)
    OBVIOUS
  <2>2. /\ W \in SUBSET Nodes /\ Safe(P, t, g)
        /\ \A v \in W : Holder(P, t, v)
    BY <1>1, <1>8, <2>1 DEF HeldByAcked, AckedBy, Peers
  <2>3. CASE \A m \in Nodes :
               Elected(m) /\ currentTerm[m] > t /\ role[m] # "LEADER"
                 /\ role'[m] = "LEADER" => \E v \in W : v \in Support(m)
    <3>1. Safe(P, t, h)'
      BY <1>3, <2>2, <2>3, SafeStep
    <3>2. \A v \in W : Holder(P, t, v)'
      BY <1>3, <2>2, HolderStep
    <3>3. ASSUME NEW v \in AckedBy(l, i)', v \notin W
          PROVE  Holder(P, t, v)'
      <4>1. v \in Nodes /\ currentTerm'[v] = t /\ Holds(log'[v], P)
        BY <1>4, <2>1, <3>3
      <4>2. \A m \in Nodes : Standing(m)' /\ currentTerm'[m] > t
                                => v \notin Support(m)'
        BY <1>2, <4>1, NoLaterVote
      <4>3. Holds(log[v], P)'
        BY <4>1 DEF Holds
      <4> QED BY <1>2, <4>1, <4>2, <4>3 DEF Holder
    <3> QED BY <1>2, <3>1, <3>2, <3>3 DEF HeldByAcked
  <2>4. ASSUME NEW m \in Nodes, Elected(m), currentTerm[m] > t,
               \A v \in W : v \notin Support(m)
        PROVE  Bypassed(l, i)'
    <3>1. Support(m) \in Quorums /\ Standing(m)
      BY <2>4 DEF Elected
    <3>2. ASSUME NEW v \in Support(m)
          PROVE  v \notin AckedBy(l, i) /\ currentTerm[v] > t
      <4>1. Pledged(v, m)
        BY <3>1 DEF ElectionInv, SupportIsPledged
      <4>2. v \in Nodes
        BY <3>1 DEF Quorums
      <4>3. currentTerm[v] >= currentTerm[m]
        BY <1>5, <4>1, <4>2 DEF Pledged
      <4> QED BY <1>2, <1>5, <2>1, <2>4, <4>2, <4>3
    <3> QED BY <1>6, <3>1, <3>2
  <2> QED BY <2>3, <2>4
<1> QED BY <1>7, <1>8

LEMMA AcksHoldStep ==
  ASSUME OddCluster, TypeOK, TypeOK', ElectionInv, ElectionInv', ClaimInv,
         ClaimInv', NEW g \in [Nodes -> Seq(Entries)], LogInv(g), CommitInv(g),
         [Next]_vars,
         NEW h \in [Nodes -> Seq(Entries)], h = NextSent(g), LogInv(h)'
  PROVE  AcksHold(h)'
<1> SUFFICES ASSUME NEW l \in Nodes, role'[l] = "LEADER",
                    NEW i \in DOMAIN log'[l],
                    log'[l][i].term = currentTerm'[l]
             PROVE  \/ HeldByAcked(SubSeq(log[l], 1, i), l, i, h)'
                    \/ Bypassed(l, i)'
  BY DEF AcksHold
<1>1. Len(log[l]) \in Nat /\ DOMAIN log[l] = 1..Len(log[l])
  BY LogType
<1>2. currentTerm'[l] = currentTerm[l]
  BY SupportStep DEF RolesForward
<1>3. CASE role[l] # "LEADER"
  <2>1. log'[l] = log[l]
    BY <1>3, NewLeader
  <2>2. Elected(l)
    BY <1>3, SupportStep DEF RolesForward
  <2>3. \E x \in Nodes : Won(x, currentTerm[l])
    BY <1>2, <2>1 DEF LogInv, TermsWon, Copies
  <2> QED BY <2>2, <2>3, ElectionIsFirst
<1>4. CASE role[l] = "LEADER" /\ i \in DOMAIN log[l]
  <2>1. /\ Len(log'[l]) \in Nat /\ log'[l] \in Seq(Entries)
        /\ log[l] \in Seq(Entries)
    BY LogType, LenProperties DEF TypeOK, ReplicaTypes, Entries
  <2>2. \A k \in 1..i : log'[l][k] = log[l][k]
    <3>1. log'[l] = log[l] \/ Holds(log'[l], log[l])
      BY LeaderLogStep
    <3> QED BY <1>1, <1>4, <3>1 DEF Holds
  <2>3. PICK P : P = SubSeq(log[l], 1, i)
    OBVIOUS
  <2>4. i \in Nat /\ 1 <= i /\ i <= Len(log[l]) /\ i <= Len(log'[l])
    BY <1>1, <1>4, <2>1
  <2>5. P = SubSeq(log'[l], 1, i)
    BY <2>1, <2>2, <2>3, <2>4, EqualPrefixes
  <2>6. log[l][i].term = currentTerm[l]
    BY <1>2, <2>2, <2>4
  <2>7. HeldByAcked(P, l, i, g) \/ Bypassed(l, i)
    BY <1>4, <2>3, <2>6 DEF CommitInv, AcksHold
  <2>8. HeldByAcked(P, l, i, h)' \/ Bypassed(l, i)'
    BY <1>4, <2>3, <2>6, <2>7, OldEntry
  <2> QED BY <2>5, <2>8 DEF HeldByAcked
<1>5. CASE role[l] = "LEADER" /\ i \notin DOMAIN log[l]
  <2>1. PICK c \in Commands : Submits(l, c)
    BY <1>5, LeaderLogStep
  <2>2. i = Len(log[l]) + 1
    BY <1>1, <1>5, <2>1, SubmitLog
  <2>3. AckedBy(l, i)' = {l}
    <3>1. /\ \A p \in Nodes : /\ matchIndex'[l][p] <= Len(log[l])
                              /\ matchIndex'[l][p] \in Nat
      BY IndicesStep DEF TypeOK, IndexTypes
    <3>2. /\ pc'[l] = "appendreply" => reply'[l].match <= Len(log[l])
          /\ reply'[l].match \in Nat
      BY RepliesStep DEF TypeOK, CallTypes, Reply
    <3> QED BY <1>1, <2>2, <3>1, <3>2 DEF AckedBy, Peers
  <2> QED BY <2>1, <2>2, <2>3, FreshEntry
<1> QED BY <1>3, <1>4, <1>5

LEMMA CommitInvStep ==
  ASSUME OddCluster, TypeOK, TypeOK', ElectionInv, ElectionInv', ClaimInv,
         ClaimInv', NEW g \in [Nodes -> Seq(Entries)], LogInv(g), CommitInv(g),
         [Next]_vars, NEW h, h = NextSent(g)
  PROVE  h \in [Nodes -> Seq(Entries)] /\ LogInv(h)' /\ CommitInv(h)'
<1>1. h \in [Nodes -> Seq(Entries)] /\ LogInv(h)'
  BY LogInvStep
<1>2. CommittedDecided(h)'
  BY CommittedDecidedStep
<1>3. RoundDecided(h)'
  BY RoundDecidedStep
<1>4. AcksHold(h)'
  BY <1>1, AcksHoldStep
<1> QED BY <1>1, <1>2, <1>3, <1>4 DEF CommitInv

CommitsAgree == \E g \in [Nodes -> Seq(Entries)] : LogInv(g) /\ CommitInv(g)

\* In a cluster of odd size every commit index lies in a decided prefix
LEMMA CommitInvariant == OddCluster => (Spec => []CommitsAgree)
<1> SUFFICES ASSUME OddCluster PROVE Spec => []CommitsAgree
  OBVIOUS
<1>1. Init => CommitsAgree
  <2> SUFFICES ASSUME Init PROVE CommitsAgree
    OBVIOUS
  <2>1. PICK g : g = [n \in Nodes |-> <<>>]
    OBVIOUS
  <2>2. g \in [Nodes -> Seq(Entries)] /\ LogInv(g)
    BY <2>1, InitLogs
  <2>3. \A n \in Nodes : /\ commitIndex[n] = 0 /\ ~ InRound(n)
                         /\ role[n] = "FOLLOWER"
    BY DEF Init, InRound
  <2>4. CommitInv(g)
    BY <2>3 DEF CommitInv, CommittedDecided, RoundDecided, AcksHold
  <2> QED BY <2>2, <2>4 DEF CommitsAgree
<1>2. TypeOK /\ TypeOK' /\ ElectionInv /\ ElectionInv' /\ ClaimInv /\ ClaimInv'
        /\ CommitsAgree /\ [Next]_vars => CommitsAgree'
  <2> SUFFICES ASSUME TypeOK, TypeOK', ElectionInv, ElectionInv', ClaimInv,
                      ClaimInv', CommitsAgree, [Next]_vars
               PROVE  CommitsAgree'
    OBVIOUS
  <2>1. PICK g \in [Nodes -> Seq(Entries)] : LogInv(g) /\ CommitInv(g)
    BY DEF CommitsAgree
  <2>2. PICK h : h = NextSent(g)
    OBVIOUS
  <2>3. h \in [Nodes -> Seq(Entries)] /\ LogInv(h)' /\ CommitInv(h)'
    BY <2>1, <2>2, CommitInvStep
  <2> QED BY <2>3 DEF CommitsAgree, Entries
<1> QED BY <1>1, <1>2, ClaimInvariant, TypeCorrect, ElectionInvariant, PTL DEF Spec

\* In a cluster of odd size every leader has what nodes of its own or an earlier
\* term have committed: the up-to-date check of handleRequestVote lets no one
\* past the quorum that holds it.
THEOREM LeadersAreComplete == OddCluster => (Spec => []LeaderCompleteness)
<1> SUFFICES ASSUME OddCluster PROVE Spec => []LeaderCompleteness
  OBVIOUS
<1>1. TypeOK /\ CommitsAgree => LeaderCompleteness
  <2> SUFFICES ASSUME TypeOK, CommitsAgree, NEW n \in Nodes, NEW m \in Nodes,
                      role[m] = "LEADER", currentTerm[m] >= currentTerm[n]
               PROVE  /\ commitIndex[n] <= Len(log[m])
                      /\ Committed(n) = SubSeq(log[m], 1, commitIndex[n])
    BY DEF LeaderCompleteness
  <2>1. PICK g \in [Nodes -> Seq(Entries)] : LogInv(g) /\ CommitInv(g)
    BY DEF CommitsAgree
  <2>2. /\ commitIndex[n] \in Nat /\ log[n] \in Seq(Entries)
        /\ log[m] \in Seq(Entries) /\ Len(log[n]) \in Nat
        /\ Len(log[m]) \in Nat /\ currentTerm[n] \in Nat
        /\ currentTerm[m] \in Nat
    BY LogType DEF TypeOK, ReplicaTypes
  <2>3. CASE commitIndex[n] = 0
    BY <2>2, <2>3, EqualPrefixes DEF Committed
  <2>4. CASE commitIndex[n] > 0
    <3>1. PICK P \in Seq(Entries), t \in Nat :
            /\ Decided(P, t, g) /\ t <= currentTerm[n]
            /\ commitIndex[n] <= Len(log[n]) /\ commitIndex[n] <= Len(P)
            /\ \A k \in 1..commitIndex[n] : log[n][k] = P[k]
      BY <2>1, <2>4 DEF CommitInv, CommittedDecided
    <3>2. currentTerm[m] >= t
      BY <2>2, <3>1
    <3>3. Holds(log[m], P)
      BY <3>1, <3>2 DEF Decided, Safe
    <3>4. /\ commitIndex[n] <= Len(log[m])
          /\ \A k \in 1..commitIndex[n] : log[n][k] = log[m][k]
      BY <2>2, <3>1, <3>3, LenProperties DEF Holds
    <3> QED BY <2>2, <3>1, <3>4, EqualPrefixes DEF Committed
  <2> QED BY <2>2, <2>3, <2>4
<1> QED BY <1>1, CommitInvariant, TypeCorrect, PTL

\* In a cluster of odd size what two nodes have committed never differs: the
\* quorums that hold the two prefixes have a node in common.
THEOREM StateMachinesAgree == OddCluster => (Spec => []StateMachineSafety)
<1> SUFFICES ASSUME OddCluster PROVE Spec => []StateMachineSafety
  OBVIOUS
<1>1. TypeOK /\ CommitsAgree => StateMachineSafety
  <2> SUFFICES ASSUME TypeOK, CommitsAgree, NEW n \in Nodes, NEW m \in Nodes,
                      NEW s, s = Lower(commitIndex[n], commitIndex[m])
               PROVE  SubSeq(log[n], 1, s) = SubSeq(log[m], 1, s)
    BY DEF StateMachineSafety
  <2>1. PICK g \in [Nodes -> Seq(Entries)] : LogInv(g) /\ CommitInv(g)
    BY DEF CommitsAgree
  <2>2. /\ commitIndex[n] \in Nat /\ commitIndex[m] \in Nat
        /\ log[n] \in Seq(Entries) /\ log[m] \in Seq(Entries)
        /\ Len(log[n]) \in Nat /\ Len(log[m]) \in Nat
    BY LogType DEF TypeOK, ReplicaTypes
  <2>3. s \in Nat /\ s <= commitIndex[n] /\ s <= commitIndex[m]
    BY <2>2 DEF Lower
  <2>4. CASE s = 0
    BY <2>2, <2>4, EqualPrefixes
  <2>5. CASE s > 0
    <3>1. commitIndex[n] > 0 /\ commitIndex[m] > 0
      BY <2>2, <2>3, <2>5
    <3>2. PICK P \in Seq(Entries), t \in Nat :
            /\ Decided(P, t, g)
            /\ commitIndex[n] <= Len(log[n]) /\ commitIndex[n] <= Len(P)
            /\ \A k \in 1..commitIndex[n] : log[n][k] = P[k]
      BY <2>1, <3>1 DEF CommitInv, CommittedDecided
    <3>3. PICK Q \in Seq(Entries), u \in Nat :
            /\ Decided(Q, u, g)
            /\ commitIndex[m] <= Len(log[m]) /\ commitIndex[m] <= Len(Q)
            /\ \A k \in 1..commitIndex[m] : log[m][k] = Q[k]
      BY <2>1, <3>1 DEF CommitInv, CommittedDecided
    <3>4. PICK v \in Nodes : Holds(log[v], P) /\ Holds(log[v], Q)
      <4>1. PICK A \in Quorums : \A v \in A : Holder(P, t, v)
        BY <3>2 DEF Decided
      <4>2. PICK B \in Quorums : \A v \in B : Holder(Q, u, v)
        BY <3>3 DEF Decided
      <4> QED BY <4>1, <4>2, QuorumsIntersect DEF Holder
    <3>5. Len(P) \in Nat /\ Len(Q) \in Nat
      BY LenProperties
    <3>6. \A k \in 1..s : log[n][k] = P[k] /\ log[m][k] = Q[k]
      BY <2>2, <2>3, <3>2, <3>3, SMTT(30)
    <3>7. \A k \in 1..s : P[k] = log[v][k] /\ Q[k] = log[v][k]
      BY <2>2, <2>3, <3>2, <3>3, <3>4, <3>5, SMTT(30) DEF Holds
    <3> QED BY <2>2, <2>3, <3>2, <3>3, <3>6, <3>7, EqualPrefixes
  <2> QED BY <2>3, <2>4, <2>5
<1> QED BY <1>1, CommitInvariant, TypeCorrect, PTL

\* Only a reload moves a commit index back
LEMMA CommitsForward ==
  ASSUME OddCluster, TypeOK, TypeOK', ElectionInv,
         NEW g \in [Nodes -> Seq(Entries)], LogInv(g), CommitInv(g), [Next]_vars,
         NEW n \in Nodes
  PROVE  commitIndex'[n] < commitIndex[n] => commitIndex'[n] = 0
<1> SUFFICES ASSUME commitIndex'[n] < commitIndex[n], commitIndex'[n] # 0
             PROVE  FALSE
  OBVIOUS
<1>1. /\ commitIndex[n] \in Nat /\ commitIndex'[n] \in Nat
      /\ Len(log'[n]) \in Nat /\ commitIndex[n] <= Len(log'[n])
  <2>1. commitIndex[n] <= Len(log'[n])
    BY KeepsCommitted DEF CommitInv
  <2> QED BY <2>1, LenProperties DEF TypeOK, ReplicaTypes, Entries
<1>2. ASSUME NEW m \in Nodes, rpc[m].commit > commitIndex[n],
             commitIndex'[n] = Lower(rpc[m].commit, Len(log'[n]))
      PROVE  FALSE
  <2>1. rpc[m].commit \in Nat
    BY DEF TypeOK, CallTypes, Request
  <2> QED BY <1>1, <1>2, <2>1 DEF Lower
<1>3. CASE /\ role[n] = "LEADER" /\ reply[n].ok /\ pc[n] = "appendreply"
           /\ matchIndex' = [matchIndex EXCEPT ![n][target[n]] = reply[n].match]
           /\ commitIndex'[n] = AdvanceCommitIndex(n, matchIndex'[n])
  <2>1. PICK c : c = commitIndex'[n]
    OBVIOUS
  <2>2. c = AdvanceCommitIndex(n, matchIndex'[n]) /\ c # commitIndex[n]
    BY <1>1, <1>3, <2>1
  <2>3. AcksHold(g)
    BY DEF CommitInv
  <2>4. c > commitIndex[n]
    BY <1>3, <2>1, <2>2, <2>3, AdvanceDecides
  <2> QED BY <1>1, <2>1, <2>4
<1>4. \/ commitIndex'[n] = commitIndex[n]
      \/ \E m \in Nodes : /\ rpc[m].commit > commitIndex[n]
                          /\ commitIndex'[n] = Lower(rpc[m].commit, Len(log'[n]))
      \/ /\ role[n] = "LEADER" /\ reply[n].ok /\ pc[n] = "appendreply"
         /\ matchIndex' = [matchIndex EXCEPT ![n][target[n]] = reply[n].match]
         /\ commitIndex'[n] = AdvanceCommitIndex(n, matchIndex'[n])
  BY CommitsStep
<1> QED BY <1>1, <1>2, <1>3, <1>4

\* In a cluster of odd size no step changes an entry below a commit index, and
\* only a reload moves a commit index back: handleAppendEntries truncates
\* above it whatever request arrives, however old.
THEOREM CommittedIsKept == OddCluster => (Spec => CommittedIsStable)
<1> SUFFICES ASSUME OddCluster PROVE Spec => CommittedIsStable
  OBVIOUS
<1> DEFINE Stable ==
      \A n \in Nodes :
        /\ SubSeq(log'[n], 1, commitIndex[n]) = Committed(n)
        /\ commitIndex'[n] < commitIndex[n] => commitIndex'[n] = 0
<1>1. TypeOK /\ TypeOK' /\ ElectionInv /\ CommitsAgree /\ [Next]_vars
        => [Stable]_vars
  <2> SUFFICES ASSUME TypeOK, TypeOK', ElectionInv, CommitsAgree, [Next]_vars,
                      NEW n \in Nodes
               PROVE  /\ SubSeq(log'[n], 1, commitIndex[n]) = Committed(n)
                      /\ commitIndex'[n] < commitIndex[n]
                           => commitIndex'[n] = 0
    OBVIOUS
  <2>1. PICK g \in [Nodes -> Seq(Entries)] : LogInv(g) /\ CommitInv(g)
    BY DEF CommitsAgree
  <2>2. /\ commitIndex[n] \in Nat /\ log[n] \in Seq(Entries)
        /\ commitIndex'[n] \in Nat /\ log'[n] \in Seq(Entries)
        /\ Len(log[n]) \in Nat /\ Len(log'[n]) \in Nat
    BY LenProperties DEF TypeOK, ReplicaTypes, Entries
  <2>3. /\ commitIndex[n] <= Len(log[n]) /\ commitIndex[n] <= Len(log'[n])
        /\ \A k \in 1..commitIndex[n] : log'[n][k] = log[n][k]
    BY <2>1, KeepsCommitted DEF CommitInv
  <2>4. SubSeq(log'[n], 1, commitIndex[n]) = Committed(n)
    BY <2>2, <2>3, EqualPrefixes DEF Committed
  <2>5. commitIndex'[n] < commitIndex[n] => commitIndex'[n] = 0
    BY <2>1, CommitsForward
  <2> QED BY <2>4, <2>5
<1> QED BY <1>1, CommitInvariant, TypeCorrect, ElectionInvariant, PTL
        DEF Spec, CommittedIsStable

-----------------------------------------------------------------------------
(***************************************************************************)
(* Refinement.  The longest committed log there has been is the log of     *)
(* ReplicatedLog: it is part of a decided prefix, and so is what any node  *)
(* has committed.                                                          *)
(***************************************************************************)
ChosenDecided(g) ==
  chosen # <<>> => \E P \in Seq(Entries), t \in Nat :
                     Decided(P, t, g) /\ Holds(P, chosen)
LearnedIsChosen ==
  \A n \in Nodes : /\ commitIndex[n] <= Len(chosen)
                   /\ \A k \in 1..commitIndex[n] : log[n][k] = chosen[k]
HistoryInv(g) == chosen \in Seq(Entries) /\ ChosenDecided(g) /\ LearnedIsChosen

\* Decided prefixes are equal as far as both go
LEMMA DecidedAgree ==
  ASSUME OddCluster, NEW g, NEW P \in Seq(Entries), NEW t, Decided(P, t, g)',
         NEW Q \in Seq(Entries), NEW u, Decided(Q, u, g)',
         NEW k \in Nat, 1 <= k, k <= Len(P), k <= Len(Q)
  PROVE  P[k] = Q[k]
<1>1. PICK A \in Quorums' : \A v \in A : Holder(P, t, v)'
  BY DEF Decided
<1>2. PICK B \in Quorums' : \A v \in B : Holder(Q, u, v)'
  BY DEF Decided
<1>3. Quorums' = Quorums
  BY DEF Quorums, ElectionMajority
<1>4. PICK v \in Nodes : v \in A /\ v \in B
  BY <1>3, QuorumsIntersect
<1>5. Holder(P, t, v)' /\ Holder(Q, u, v)'
  BY <1>1, <1>2, <1>4
<1>6. Len(P) \in Nat /\ Len(Q) \in Nat
  BY LenProperties
<1>7. k \in 1..Len(P) /\ k \in 1..Len(Q)
  BY <1>6
<1> QED BY <1>5, <1>7 DEF Holder, Holds

\* A step moves the commit index of one node
LEMMA OneCommit ==
  ASSUME TypeOK, [Next]_vars
  PROVE  \E n \in Nodes : \A m \in Nodes \ {n} : commitIndex'[m] = commitIndex[m]
<1>1. commitIndex \in [Nodes -> Nat]
  BY DEF TypeOK, ReplicaTypes
<1>2. ASSUME NEW n \in Nodes, ReceiveAppend(n)
      PROVE  \A m \in Nodes \ {n} : commitIndex'[m] = commitIndex[m]
  BY <1>1, <1>2, ReceiveAppendCases
<1>3. ASSUME NEW n \in Nodes, CallFollower(n)
      PROVE  /\ target[n] \in Nodes
             /\ \A m \in Nodes \ {target[n]} : commitIndex'[m] = commitIndex[m]
  <2>1. target[n] \in Nodes
    BY <1>3, CalledPeer DEF CallFollower, Calling
  <2>2. \E c : commitIndex' = [commitIndex EXCEPT ![target[n]] = c]
    BY <1>3 DEF CallFollower, HandleAppendEntries
  <2> QED BY <1>1, <2>1, <2>2
<1>4. ASSUME NEW n \in Nodes, Reload(n)
      PROVE  \A m \in Nodes \ {n} : commitIndex'[m] = commitIndex[m]
  BY <1>1, <1>4 DEF Reload
<1>5. CASE UNCHANGED commitIndex
  BY <1>5, NodesAssumption
<1>6. \/ \E m \in Nodes : ReceiveAppend(m) \/ CallFollower(m) \/ Reload(m)
      \/ UNCHANGED commitIndex
  BY CommitMovers
<1> QED BY <1>2, <1>3, <1>4, <1>5, <1>6

\* A node whose commit index stays has the same committed log
LEMMA SameCommitted ==
  ASSUME TypeOK, TypeOK', ElectionInv, NEW g \in [Nodes -> Seq(Entries)],
         LogInv(g), CommitInv(g), [Next]_vars,
         NEW n \in Nodes, commitIndex'[n] = commitIndex[n]
  PROVE  Committed(n)' = Committed(n)
<1>1. /\ commitIndex[n] \in Nat
      /\ log[n] \in Seq(Entries) /\ log'[n] \in Seq(Entries)
  BY DEF TypeOK, ReplicaTypes, Entries
<1>2. CommittedDecided(g)
  BY DEF CommitInv
<1>3. /\ commitIndex[n] <= Len(log[n]) /\ commitIndex[n] <= Len(log'[n])
      /\ \A k \in 1..commitIndex[n] : log'[n][k] = log[n][k]
  BY <1>2, KeepsCommitted
<1>4. SubSeq(log'[n], 1, commitIndex[n]) = SubSeq(log[n], 1, commitIndex[n])
  BY <1>1, <1>3, EqualPrefixes
<1> QED BY <1>4 DEF Committed

\* A longer committed log goes on from the longest there has been
LEMMA ChosenGrows ==
  ASSUME OddCluster, TypeOK, TypeOK', ElectionInv, ClaimInv,
         NEW g \in [Nodes -> Seq(Entries)], LogInv(g), HistoryInv(g),
         [Next]_vars, NEW h, h = NextSent(g), CommittedDecided(h)',
         NEW n \in Nodes, commitIndex'[n] > Len(chosen),
         chosen' = SubSeq(log'[n], 1, commitIndex'[n])
  PROVE  /\ chosen' \in Seq(Entries) /\ Len(chosen') = commitIndex'[n]
         /\ \A k \in 1..Len(chosen) : chosen'[k] = chosen[k]
         /\ ChosenDecided(h)'
<1>1. /\ commitIndex'[n] \in Nat /\ log'[n] \in Seq(Entries)
      /\ chosen \in Seq(Entries) /\ Len(chosen) \in Nat
      /\ Len(log'[n]) \in Nat
  BY LenProperties DEF TypeOK, ReplicaTypes, Entries, HistoryInv
<1>2. PICK P \in Seq(Entries), t \in Nat :
        /\ Decided(P, t, h)' /\ commitIndex'[n] <= Len(P)
        /\ commitIndex'[n] <= Len(log'[n])
        /\ \A k \in 1..commitIndex'[n] : log'[n][k] = P[k]
  <2>1. commitIndex'[n] > 0
    BY <1>1
  <2> QED BY <2>1, Zenon DEF CommittedDecided, Entries
<1>3. /\ chosen' \in Seq(Entries) /\ Len(chosen') = commitIndex'[n]
      /\ \A k \in 1..commitIndex'[n] : chosen'[k] = log'[n][k]
  BY <1>1, <1>2
<1>4. Holds(P, chosen')
  BY <1>1, <1>2, <1>3 DEF Holds
<1>5. ChosenDecided(h)'
  BY <1>2, <1>4 DEF ChosenDecided, Entries, Holds
<1>6. ASSUME NEW k \in 1..Len(chosen)
      PROVE  chosen'[k] = chosen[k]
  <2>1. chosen # <<>>
    BY <1>1
  <2>2. PICK Q \in Seq(Entries), u \in Nat : Decided(Q, u, g) /\ Holds(Q, chosen)
    BY <2>1 DEF HistoryInv, ChosenDecided
  <2>3. Decided(Q, u, h)'
    BY <2>2, DecidedStep
  <2>4. /\ k \in Nat /\ 1 <= k /\ k <= Len(P) /\ k <= Len(Q)
        /\ k \in 1..commitIndex'[n]
    <3>1. Len(P) \in Nat /\ Len(Q) \in Nat
      BY LenProperties
    <3> QED BY <1>1, <1>2, <2>2, <3>1 DEF Holds
  <2>5. P[k] = Q[k]
    BY <1>2, <2>3, <2>4, DecidedAgree
  <2> QED BY <1>2, <1>3, <2>2, <2>4, <2>5 DEF Holds
<1> QED BY <1>3, <1>5, <1>6

\* A committed log no longer than the chosen one is a part of it
LEMMA LearnsChosen ==
  ASSUME OddCluster, TypeOK', NEW h, CommittedDecided(h)',
         chosen' \in Seq(Entries), ChosenDecided(h)',
         \A n \in Nodes : commitIndex'[n] <= Len(chosen')
  PROVE  LearnedIsChosen'
<1> SUFFICES ASSUME NEW n \in Nodes, NEW k \in 1..commitIndex'[n]
             PROVE  log'[n][k] = chosen'[k]
  BY DEF LearnedIsChosen
<1>1. /\ commitIndex'[n] \in Nat /\ log'[n] \in Seq(Entries)
      /\ Len(chosen') \in Nat
  BY LenProperties DEF TypeOK, ReplicaTypes, Entries
<1>2. PICK P \in Seq(Entries), t \in Nat :
        /\ Decided(P, t, h)' /\ commitIndex'[n] <= Len(P)
        /\ \A j \in 1..commitIndex'[n] : log'[n][j] = P[j]
  <2>1. commitIndex'[n] > 0
    BY <1>1
  <2> QED BY <2>1, Zenon DEF CommittedDecided, Entries
<1>3. chosen' # <<>>
  BY <1>1
<1>4. PICK Q \in Seq(Entries), u \in Nat : Decided(Q, u, h)' /\ Holds(Q, chosen')
  BY <1>3 DEF ChosenDecided, Entries, Holds
<1>5. /\ k \in Nat /\ 1 <= k /\ k <= Len(P) /\ k <= Len(Q)
      /\ k \in 1..Len(chosen')
  <2>1. Len(P) \in Nat /\ Len(Q) \in Nat
    BY LenProperties
  <2> QED BY <1>1, <1>2, <1>4, <2>1 DEF Holds
<1>6. P[k] = Q[k]
  BY <1>2, <1>4, <1>5, DecidedAgree
<1> QED BY <1>2, <1>4, <1>5, <1>6 DEF Holds

\* The log of chosen entries and what is known of it agree after a step
LEMMA HistoryAfter ==
  ASSUME OddCluster, TypeOK, TypeOK', ElectionInv, ClaimInv,
         NEW g \in [Nodes -> Seq(Entries)], LogInv(g), CommitInv(g),
         HistoryInv(g), [HNext]_<<vars, chosen>>,
         NEW h, h = NextSent(g), CommittedDecided(h)'
  PROVE  /\ HistoryInv(h)'
         /\ \/ UNCHANGED chosen
            \/ \E n \in Nodes :
                 /\ commitIndex'[n] > Len(chosen)
                 /\ chosen' = SubSeq(log'[n], 1, commitIndex'[n])
                 /\ \A k \in 1..Len(chosen) : chosen'[k] = chosen[k]
                 /\ \A m \in Nodes \ {n} : commitIndex'[m] = commitIndex[m]
<1>1. [Next]_vars
  BY DEF HNext
<1>2. /\ chosen \in Seq(Entries) /\ Len(chosen) \in Nat
      /\ \A n \in Nodes : /\ commitIndex[n] \in Nat /\ commitIndex'[n] \in Nat
                          /\ commitIndex[n] <= Len(chosen)
  BY LenProperties DEF HistoryInv, LearnedIsChosen, TypeOK, ReplicaTypes
<1>3. \/ UNCHANGED chosen /\ \A n \in Nodes : commitIndex'[n] <= Len(chosen)
      \/ \E n \in Nodes : /\ commitIndex'[n] > Len(chosen)
                          /\ chosen' = SubSeq(log'[n], 1, commitIndex'[n])
  <2>1. CASE UNCHANGED <<vars, chosen>>
    BY <1>2, <2>1 DEF vars, replicas
  <2>2. CASE HNext /\ \E n \in Nodes : commitIndex'[n] > Len(chosen)
    BY <2>2 DEF HNext
  <2>3. CASE HNext /\ ~ \E n \in Nodes : commitIndex'[n] > Len(chosen)
    BY <1>2, <2>3 DEF HNext
  <2> QED BY <2>1, <2>2, <2>3
<1>4. CASE UNCHANGED chosen /\ \A n \in Nodes : commitIndex'[n] <= Len(chosen)
  <2>1. chosen' = chosen
    BY <1>4
  <2>2. ChosenDecided(h)'
    <3>1. CASE chosen = <<>>
      BY <2>1, <3>1 DEF ChosenDecided
    <3>2. CASE chosen # <<>>
      <4>1. PICK P \in Seq(Entries), t \in Nat :
              Decided(P, t, g) /\ Holds(P, chosen)
        BY <3>2 DEF HistoryInv, ChosenDecided
      <4>2. Decided(P, t, h)'
        BY <1>1, <4>1, DecidedStep
      <4> QED BY <2>1, <4>1, <4>2 DEF ChosenDecided, Entries, Holds
    <3> QED BY <3>1, <3>2
  <2>3. chosen' \in Seq(Entries) /\ \A n \in Nodes : commitIndex'[n] <= Len(chosen')
    BY <1>2, <1>4, <2>1
  <2>4. LearnedIsChosen'
    BY <2>2, <2>3, LearnsChosen
  <2> QED BY <2>1, <2>2, <2>3, <2>4 DEF HistoryInv, Entries
<1>5. ASSUME NEW n \in Nodes, commitIndex'[n] > Len(chosen),
             chosen' = SubSeq(log'[n], 1, commitIndex'[n])
      PROVE  /\ HistoryInv(h)'
             /\ \A k \in 1..Len(chosen) : chosen'[k] = chosen[k]
             /\ \A m \in Nodes \ {n} : commitIndex'[m] = commitIndex[m]
  <2>1. /\ chosen' \in Seq(Entries) /\ Len(chosen') = commitIndex'[n]
        /\ \A k \in 1..Len(chosen) : chosen'[k] = chosen[k]
        /\ ChosenDecided(h)'
    BY <1>1, <1>5, ChosenGrows
  <2>2. \A m \in Nodes \ {n} : commitIndex'[m] = commitIndex[m]
    <3>1. PICK l \in Nodes : \A m \in Nodes \ {l} : commitIndex'[m] = commitIndex[m]
      BY <1>1, OneCommit
    <3>2. l = n
      BY <1>2, <1>5, <3>1
    <3> QED BY <3>1, <3>2
  <2>3. \A m \in Nodes : commitIndex'[m] <= Len(chosen')
    <3>1. commitIndex'[n] = Len(chosen')
      BY <2>1
    <3>2. ASSUME NEW m \in Nodes, m # n PROVE commitIndex'[m] <= Len(chosen')
      <4>1. commitIndex'[m] = commitIndex[m] /\ commitIndex[m] <= Len(chosen)
        BY <1>2, <2>2, <3>2
      <4>2. commitIndex[m] \in Int /\ Len(chosen) \in Int /\ commitIndex'[n] \in Int
        BY <1>2
      <4>3. ASSUME NEW i \in Int, NEW j \in Int, NEW k \in Int, i <= j, k > j PROVE i <= k
        BY <4>3
      <4>4. commitIndex[m] <= commitIndex'[n]
        BY <1>5, <4>1, <4>2, <4>3
      <4> QED BY <3>1, <4>1, <4>4
    <3> QED BY <1>2, <3>1, <3>2
  <2>4. LearnedIsChosen'
    BY <2>1, <2>3, LearnsChosen
  <2> QED BY <2>1, <2>2, <2>4 DEF HistoryInv, Entries
<1> QED BY <1>3, <1>4, <1>5

\* A step that makes the chosen log longer is a Choose of the abstract log
LEMMA ChoosesAbstract ==
  ASSUME TypeOK, TypeOK', ElectionInv,
         NEW g \in [Nodes -> Seq(Entries)], LogInv(g), CommitInv(g),
         [Next]_vars, chosen \in Seq(Entries), chosen' \in Seq(Entries),
         NEW n \in Nodes, commitIndex'[n] > Len(chosen), commitIndex'[n] = Len(chosen'),
         chosen' = SubSeq(log'[n], 1, commitIndex'[n]),
         \A k \in 1..Len(chosen) : chosen'[k] = chosen[k],
         \A m \in Nodes \ {n} : commitIndex'[m] = commitIndex[m]
  PROVE  Abstract!Choose(n)
<1>1. \A m \in Nodes \ {n} : Committed(m)' = Committed(m)
  BY SameCommitted
<1>2. Committed(n)' = chosen'
  BY DEF Committed
<1>3. [m \in Nodes |-> Committed(m)]'
        = [[m \in Nodes |-> Committed(m)] EXCEPT ![n] = chosen']
  BY <1>1, <1>2, NodesAssumption
<1>4. Abstract!IsStrictPrefix(chosen, chosen')
  <2>1. Len(chosen) \in Nat /\ Len(chosen') \in Nat /\ Len(chosen) < Len(chosen')
    BY LenProperties
  <2>2. chosen # chosen'
    BY <2>1
  <2>3. SubSeq(chosen, 1, Len(chosen)) = SubSeq(chosen', 1, Len(chosen))
    BY <2>1, EqualPrefixes
  <2> QED BY <2>1, <2>2, <2>3 DEF Abstract!IsStrictPrefix, Abstract!IsPrefix
<1> QED BY <1>3, <1>4 DEF Abstract!Choose

\* A step that leaves the chosen log is a Learn or a Forget
LEMMA LearnsAbstract ==
  ASSUME OddCluster, TypeOK, TypeOK', ElectionInv,
         NEW g \in [Nodes -> Seq(Entries)], LogInv(g), CommitInv(g),
         [Next]_vars, NEW h, HistoryInv(g), HistoryInv(h)', CommittedDecided(h)',
         UNCHANGED chosen
  PROVE  Abstract!Next
<1>1. PICK n \in Nodes : \A m \in Nodes \ {n} : commitIndex'[m] = commitIndex[m]
  BY OneCommit
<1>2. \A m \in Nodes \ {n} : Committed(m)' = Committed(m)
  BY <1>1, SameCommitted
<1>3. [m \in Nodes |-> Committed(m)]'
        = [[m \in Nodes |-> Committed(m)] EXCEPT ![n] = Committed(n)']
  BY <1>2
<1>4. /\ commitIndex[n] \in Nat /\ commitIndex'[n] \in Nat
      /\ log[n] \in Seq(Entries) /\ log'[n] \in Seq(Entries)
      /\ Len(log[n]) \in Nat /\ Len(log'[n]) \in Nat
      /\ chosen \in Seq(Entries) /\ Len(chosen) \in Nat
  BY LenProperties DEF TypeOK, ReplicaTypes, Entries, HistoryInv
<1>5. CASE commitIndex'[n] >= commitIndex[n]
  <2>1. /\ commitIndex'[n] <= Len(chosen)
        /\ \A k \in 1..commitIndex'[n] : log'[n][k] = chosen[k]
    BY DEF HistoryInv, LearnedIsChosen
  <2>2. commitIndex[n] <= Len(log[n]) /\ commitIndex'[n] <= Len(log'[n])
    <3>1. commitIndex[n] <= Len(log[n])
      BY <1>4 DEF CommitInv, CommittedDecided
    <3>2. commitIndex'[n] <= Len(log'[n])
      BY <1>4 DEF CommittedDecided
    <3> QED BY <3>1, <3>2
  <2>3. Committed(n)' = SubSeq(chosen, 1, commitIndex'[n])
    BY <1>4, <2>1, <2>2, EqualPrefixes DEF Committed
  <2>4. Len(Committed(n)) = commitIndex[n]
    BY <1>4, <2>2 DEF Committed
  <2>5. commitIndex'[n] \in Len([m \in Nodes |-> Committed(m)][n])..Len(chosen)
    BY <1>4, <1>5, <2>1, <2>4
  <2>6. Abstract!Learn(n)
    BY <1>3, <2>3, <2>5 DEF Abstract!Learn
  <2> QED BY <2>6 DEF Abstract!Next
<1>6. CASE commitIndex'[n] < commitIndex[n]
  <2>1. commitIndex'[n] = 0
    BY <1>6, CommitsForward
  <2>2. Committed(n)' = <<>>
    BY <1>4, <2>1 DEF Committed
  <2>3. Abstract!Forget(n)
    BY <1>3, <2>2 DEF Abstract!Forget
  <2> QED BY <2>3 DEF Abstract!Next
<1> QED BY <1>4, <1>5, <1>6

HistoryAgrees ==
  \E g \in [Nodes -> Seq(Entries)] : LogInv(g) /\ CommitInv(g) /\ HistoryInv(g)

\* In a cluster of odd size the nodes implement one log of chosen commands
\* that only grows, of which every committedLog() is a prefix.
THEOREM RaftImplements == OddCluster => (HSpec => ImplementsReplicatedLog)
<1> SUFFICES ASSUME OddCluster PROVE HSpec => ImplementsReplicatedLog
  OBVIOUS
<1> DEFINE Known == [n \in Nodes |-> Committed(n)]
<1>1. HInit => HistoryAgrees /\ Abstract!Init
  <2> SUFFICES ASSUME HInit PROVE HistoryAgrees /\ Abstract!Init
    OBVIOUS
  <2>1. Init /\ chosen = <<>>
    BY DEF HInit
  <2>2. PICK g : g = [n \in Nodes |-> <<>>]
    OBVIOUS
  <2>3. g \in [Nodes -> Seq(Entries)] /\ LogInv(g)
    BY <2>1, <2>2, InitLogs
  <2>4. \A n \in Nodes : /\ commitIndex[n] = 0 /\ ~ InRound(n) /\ log[n] = <<>>
                         /\ role[n] = "FOLLOWER"
    BY <2>1 DEF Init, InRound
  <2>5. CommitInv(g)
    BY <2>4 DEF CommitInv, CommittedDecided, RoundDecided, AcksHold
  <2>6. HistoryInv(g)
    BY <2>1, <2>4 DEF HistoryInv, ChosenDecided, LearnedIsChosen
  <2>7. \A n \in Nodes : Committed(n) = <<>>
    BY <2>4 DEF Committed
  <2>8. Abstract!Init
    BY <2>1, <2>7 DEF Abstract!Init
  <2> QED BY <2>3, <2>5, <2>6, <2>8 DEF HistoryAgrees
<1>2. TypeOK /\ TypeOK' /\ ElectionInv /\ ElectionInv' /\ ClaimInv /\ ClaimInv'
        /\ HistoryAgrees /\ [HNext]_<<vars, chosen>>
        => HistoryAgrees' /\ [Abstract!Next]_<<chosen, Known>>
  <2> SUFFICES ASSUME TypeOK, TypeOK', ElectionInv, ElectionInv', ClaimInv,
                      ClaimInv', HistoryAgrees, [HNext]_<<vars, chosen>>
               PROVE  HistoryAgrees' /\ Abstract!Next
    OBVIOUS
  <2>1. PICK g \in [Nodes -> Seq(Entries)] :
          LogInv(g) /\ CommitInv(g) /\ HistoryInv(g)
    BY DEF HistoryAgrees
  <2>2. PICK h : h = NextSent(g)
    OBVIOUS
  <2>3. [Next]_vars
    BY DEF HNext
  <2>4. h \in [Nodes -> Seq(Entries)] /\ LogInv(h)' /\ CommitInv(h)'
    BY <2>1, <2>2, <2>3, CommitInvStep
  <2>5. CommittedDecided(h)'
    BY <2>4 DEF CommitInv
  <2>6. /\ HistoryInv(h)'
        /\ \/ UNCHANGED chosen
           \/ \E n \in Nodes :
                /\ commitIndex'[n] > Len(chosen)
                /\ chosen' = SubSeq(log'[n], 1, commitIndex'[n])
                /\ \A k \in 1..Len(chosen) : chosen'[k] = chosen[k]
                /\ \A m \in Nodes \ {n} : commitIndex'[m] = commitIndex[m]
    BY <2>1, <2>2, <2>5, HistoryAfter
  <2>7. HistoryAgrees'
    BY <2>4, <2>6 DEF HistoryAgrees, Entries
  <2>8. CASE UNCHANGED chosen
    <3>1. HistoryInv(h)' /\ HistoryInv(g)
      BY <2>1, <2>6
    <3> QED BY <2>1, <2>3, <2>5, <2>7, <2>8, <3>1, LearnsAbstract
  <2>9. ASSUME NEW n \in Nodes, commitIndex'[n] > Len(chosen),
               chosen' = SubSeq(log'[n], 1, commitIndex'[n]),
               \A k \in 1..Len(chosen) : chosen'[k] = chosen[k],
               \A m \in Nodes \ {n} : commitIndex'[m] = commitIndex[m]
        PROVE  HistoryAgrees' /\ Abstract!Next
    <3>1. chosen \in Seq(Entries) /\ chosen' \in Seq(Entries)
      BY <2>1, <2>6 DEF HistoryInv, Entries
    <3>2. commitIndex'[n] = Len(chosen')
      <4>1. commitIndex'[n] \in Nat /\ log'[n] \in Seq(Entries)
        BY DEF TypeOK, ReplicaTypes, Entries
      <4>2. commitIndex'[n] > 0
        BY <2>9, <3>1, <4>1, LenProperties
      <4>3. commitIndex'[n] <= Len(log'[n])
        BY <2>5, <4>2 DEF CommittedDecided
      <4> QED BY <2>9, <4>1, <4>3, LenProperties
    <3>3. Abstract!Choose(n)
      BY <2>1, <2>3, <2>9, <3>1, <3>2, ChoosesAbstract
    <3> QED BY <2>7, <3>3 DEF Abstract!Next
  <2> QED BY <2>6, <2>8, <2>9
<1>3. HSpec => Spec
  <2>1. HInit => Init
    BY DEF HInit
  <2>2. [HNext]_<<vars, chosen>> => [Next]_vars
    BY DEF HNext
  <2> QED BY <2>1, <2>2, PTL DEF HSpec, Spec
<1> QED BY <1>1, <1>2, <1>3, TypeCorrect, ElectionInvariant, ClaimInvariant, PTL
        DEF HSpec, ImplementsReplicatedLog, Abstract!Spec
=============================================================================
