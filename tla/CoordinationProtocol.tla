------------------------ MODULE CoordinationProtocol ------------------------
(***************************************************************************)
(* CoordinationProtocol (src/src/CoordinationProtocol.cpp), one object per *)
(* node: the peers it knows with their missed heartbeats, a leader, offers *)
(* to hand tasks off, and proposals.  Each map has a lock of its own, and  *)
(* what a call does after it released one lock is a step of its own:       *)
(* reporting changes of peers, storing an election's winner, recording an  *)
(* offer.  Any operation is called by any thread; one called from inside a *)
(* report counts as another thread's.                                      *)
(*                                                                         *)
(* The atoms that mirror the peers and the leader are only ever added;     *)
(* tallyVotes and the counts of rounds are only read.                      *)
(***************************************************************************)
EXTENDS Integers, Sequences, StdContainers

CONSTANTS
  Peers,            \* ids of peers, in their order
  ProtocolNodes,    \* the peers that run this code
  Threads,          \* of each node
  MissedThreshold,
  DeadThreshold,
  OfferIds,         \* generateId's: one may be drawn again
  BallotIds

ASSUME ProtocolAssumption ==
  /\ Peers \subseteq Nat \ {0} /\ ProtocolNodes \subseteq Peers
  /\ MissedThreshold \in Nat \ {0} /\ DeadThreshold \in Nat \ {0}

VARIABLES
  up,         \* initialized_
  peers,      \* peers_: per peer, state and missed_heartbeats
  listening,  \* liveness_cb_ is set
  leader,     \* current_leader_, 0 for none
  offers,     \* handoffs_: per id, target_peer
  ballots,    \* proposals_: per id, the votes
  todo,       \* what each thread's call has yet to do
  \* What the callback was told, for the property
  heard,      \* the last state reported of each peer since it was registered
  mixed       \* peers whose last change came while a report of them was outstanding

books == <<leader, offers, ballots>>
reported == <<heard, mixed>>
protocolVars == <<up, peers, listening, books, todo, reported>>

\* Misses are told apart up to DeadThreshold
Fresh == [state |-> "ACTIVE", missed |-> 0]
Active(n) == {p \in DOMAIN peers[n] : peers[n][p].state = "ACTIVE"}
Least(S) == CHOOSE p \in S : \A q \in S : p <= q
Free(n, t) == todo[n][t] = <<>>
Then(n, t, steps) == todo' = [todo EXCEPT ![n][t] = steps]

\* The changes of peers that thread t of n has made and is still to report, by peer
Changes(n, t) ==
  IF Free(n, t) \/ Head(todo[n][t]).do # "report" THEN NoKeys ELSE Head(todo[n][t]).of
Reporting(n) == UNION {DOMAIN Changes(n, t) : t \in Threads}
-----------------------------------------------------------------------------
(* Lifecycle and discovery *)

\* The local peer is registered, again if it was
Initialize(n) ==
  /\ ~up[n]
  /\ up' = [up EXCEPT ![n] = TRUE]
  /\ peers' = [peers EXCEPT ![n] = With(@, n, Fresh)]
  /\ UNCHANGED <<listening, books, todo, reported>>

RegisterPeer(n, p) ==
  /\ p \notin DOMAIN peers[n]
  /\ peers' = [peers EXCEPT ![n] = With(@, p, Fresh)]
  /\ heard' = [heard EXCEPT ![n] = Without(@, {p})]
  /\ mixed' = [mixed EXCEPT ![n] = IF p \in Reporting(n) THEN @ \cup {p} ELSE @ \ {p}]
  /\ UNCHANGED <<up, listening, books, todo>>

DeregisterPeer(n, p) ==
  /\ p \in DOMAIN peers[n]
  /\ peers' = [peers EXCEPT ![n] = Without(@, {p})]
  /\ UNCHANGED <<up, listening, books, todo, reported>>

\* The maps are cleared one after the other; the leader stays
Shutdown(n, t) ==
  /\ up[n] /\ Free(n, t)
  /\ peers' = [peers EXCEPT ![n] = NoKeys]
  /\ Then(n, t, <<[do |-> "clear offers"], [do |-> "clear ballots"]>>)
  /\ UNCHANGED <<up, listening, books, reported>>

ClearOffers(n) == offers' = [offers EXCEPT ![n] = NoKeys] /\ UNCHANGED <<up, ballots>>
ClearBallots(n) ==
  /\ ballots' = [ballots EXCEPT ![n] = NoKeys]
  /\ up' = [up EXCEPT ![n] = FALSE]
  /\ UNCHANGED offers

ClearNext(n, t) ==
  /\ ~Free(n, t)
  /\ \/ Head(todo[n][t]).do = "clear offers" /\ ClearOffers(n)
     \/ Head(todo[n][t]).do = "clear ballots" /\ ClearBallots(n)
  /\ Then(n, t, Tail(todo[n][t]))
  /\ UNCHANGED <<peers, listening, leader, reported>>
-----------------------------------------------------------------------------
(* Heartbeats *)

Reports(changes) == IF DOMAIN changes = {} THEN <<>> ELSE <<[do |-> "report", of |-> changes]>>

\* Peers have changed, and thread t is to report it if a callback is set
ReportChanges(n, t, changes) ==
  /\ Then(n, t, IF listening[n] THEN Reports(changes) ELSE <<>>)
  /\ mixed' = [mixed EXCEPT ![n] = (@ \ DOMAIN changes) \cup (DOMAIN changes \cap Reporting(n))]
  /\ UNCHANGED <<up, listening, books, heard>>

MutantSilentRecovery(n, t, p) ==
  /\ Free(n, t) /\ p \in DOMAIN peers[n]
  /\ peers' = [peers EXCEPT ![n] = With(@, p, Fresh)]
  /\ ReportChanges(n, t, NoKeys)
RecordHeartbeat(n, t, p) ==
  /\ Free(n, t) /\ p \in DOMAIN peers[n]
  /\ peers' = [peers EXCEPT ![n] = With(@, p, Fresh)]
  /\ ReportChanges(n, t, [q \in {p} \ Active(n) |-> "ACTIVE"])

\* A state nothing says to change stays as it is
Escalated(peer) ==
  LET missed == peer.missed + 1
  IN [missed |-> IF missed > DeadThreshold THEN DeadThreshold ELSE missed,
      state  |-> CASE missed >= DeadThreshold   -> "DEAD"
                   [] MissedThreshold <= missed /\ missed < DeadThreshold -> "SUSPECTED"
                   [] OTHER                     -> peer.state]

TickHeartbeat(n, t) ==
  /\ Free(n, t)
  /\ peers' = [peers EXCEPT ![n] =
       [p \in DOMAIN @ |-> IF p = n THEN @[p] ELSE Escalated(@[p])]]
  /\ LET changed == {p \in DOMAIN peers[n] : peers'[n][p].state # peers[n][p].state}
     IN ReportChanges(n, t, [p \in changed |-> peers'[n][p].state])

\* Between reports, which go to the callback that was set when the change was made: one set
\* while a call is between its change and copying the callback is left out
SetLivenessCallback(n, set) ==
  /\ Reporting(n) = {}
  /\ listening' = [listening EXCEPT ![n] = set]
  /\ heard' = [heard EXCEPT ![n] = NoKeys]
  /\ UNCHANGED <<up, peers, books, todo, mixed>>

\* The callback is told outside the lock, of one peer after the other
Report(n, t) ==
  LET p == Least(DOMAIN Changes(n, t))
  IN /\ DOMAIN Changes(n, t) # {}
     /\ heard' = [heard EXCEPT ![n] = With(@, p, Changes(n, t)[p])]
     /\ Then(n, t, Reports(Without(Changes(n, t), {p})))
     /\ UNCHANGED <<up, peers, listening, books, mixed>>
-----------------------------------------------------------------------------
(* Leader *)

\* The winner of a snapshot of the active peers is stored later
MutantStickyLeader(n) == IF leader[n] \in DOMAIN peers[n] THEN leader[n] ELSE Least(Active(n))
Winner(n) == Least(Active(n))
ElectLeader(n, t) ==
  /\ Free(n, t) /\ Active(n) # {}
  /\ Then(n, t, <<[do |-> "lead", peer |-> Winner(n)]>>)
  /\ UNCHANGED <<up, peers, listening, books, reported>>

StoreLeader(n, t) ==
  /\ ~Free(n, t) /\ Head(todo[n][t]).do = "lead"
  /\ leader' = [leader EXCEPT ![n] = Head(todo[n][t]).peer]
  /\ Then(n, t, <<>>)
  /\ UNCHANGED <<up, peers, listening, offers, ballots, reported>>

SetLeader(n, p) ==
  /\ leader' = [leader EXCEPT ![n] = p]
  /\ UNCHANGED <<up, peers, listening, offers, ballots, todo, reported>>
-----------------------------------------------------------------------------
(* Hand-offs and proposals *)

\* To the peer asked for, or to the first active one but this
InitiateHandoff(n, t, p) ==
  /\ Free(n, t)
  /\ p = 0 => Active(n) \ {n} # {}
  /\ Then(n, t, <<[do |-> "offer", peer |-> IF p = 0 THEN Least(Active(n) \ {n}) ELSE p]>>)
  /\ UNCHANGED <<up, peers, listening, books, reported>>

RecordOffer(n, t, r) ==
  /\ ~Free(n, t) /\ Head(todo[n][t]).do = "offer"
  /\ offers' = [offers EXCEPT ![n] = With(@, r, Head(todo[n][t]).peer)]
  /\ Then(n, t, <<>>)
  /\ UNCHANGED <<up, peers, listening, leader, ballots, reported>>

\* An offer that is refused stays
AcceptHandoff(n, r) ==
  /\ r \in DOMAIN offers[n]
  /\ offers' = [offers EXCEPT ![n] = Without(@, {r})]
  /\ UNCHANGED <<up, peers, listening, leader, ballots, todo, reported>>

CreateBallot(n, b) ==
  /\ ballots' = [ballots EXCEPT ![n] = With(@, b, NoKeys)]
  /\ UNCHANGED <<up, peers, listening, leader, offers, todo, reported>>

\* Anybody votes, and again
CastBallot(n, b, p, v) ==
  /\ b \in DOMAIN ballots[n]
  /\ ballots' = [ballots EXCEPT ![n] = With(@, b, With(@[b], p, v))]
  /\ UNCHANGED <<up, peers, listening, leader, offers, todo, reported>>
-----------------------------------------------------------------------------
ProtocolInit ==
  /\ up = [n \in ProtocolNodes |-> FALSE] /\ listening \in [ProtocolNodes -> BOOLEAN]
  /\ peers = [n \in ProtocolNodes |-> NoKeys] /\ leader = [n \in ProtocolNodes |-> 0]
  /\ offers = [n \in ProtocolNodes |-> NoKeys] /\ ballots = [n \in ProtocolNodes |-> NoKeys]
  /\ todo = [n \in ProtocolNodes |-> [t \in Threads |-> <<>>]]
  /\ heard = [n \in ProtocolNodes |-> NoKeys] /\ mixed = [n \in ProtocolNodes |-> {}]

\* Steps of n that concern the peers in P
PeerStep(n, P) ==
  \/ Initialize(n)
  \/ \E p \in P : RegisterPeer(n, p) \/ DeregisterPeer(n, p)
  \/ \E set \in BOOLEAN : SetLivenessCallback(n, set)
  \/ \E t \in Threads :
       \/ Shutdown(n, t) \/ ClearNext(n, t)
       \/ \E p \in P : RecordHeartbeat(n, t, p)
       \/ TickHeartbeat(n, t) \/ Report(n, t)

BookStep(n, P) ==
  \/ \E p \in P : SetLeader(n, p)
  \/ \E t \in Threads :
       \/ ElectLeader(n, t) \/ StoreLeader(n, t)
       \/ \E p \in P \cup {0} : InitiateHandoff(n, t, p)
       \/ \E r \in OfferIds : RecordOffer(n, t, r)
  \/ \E r \in OfferIds : AcceptHandoff(n, r)
  \/ \E b \in BallotIds : CreateBallot(n, b)
  \/ \E b \in BallotIds, p \in P, v \in BOOLEAN : CastBallot(n, b, p, v)

ProtocolNext == \E n \in ProtocolNodes : PeerStep(n, Peers) \/ BookStep(n, Peers)
ProtocolSpec == ProtocolInit /\ [][ProtocolNext]_protocolVars
-----------------------------------------------------------------------------
\* "A callback invoked when a peer's liveness state changes": what it was last told
\* of a registered peer is the peer's state once nothing is left to report, unless
\* the peer changed while an earlier change of it was still to be reported
\* (recordHeartbeat and tickHeartbeat, which report after releasing the lock).
ReportsAreCurrent ==
  \A n \in ProtocolNodes :
    \A p \in (DOMAIN peers[n] \cap DOMAIN heard[n]) \ (Reporting(n) \cup mixed[n]) :
      heard[n][p] = peers[n][p].state
=============================================================================
