-------------------------- MODULE ConflictResolver --------------------------
(***************************************************************************)
(* ConflictResolver (src/src/ConflictResolver.cpp): tickets wait in a      *)
(* queue, resolve() takes the one of highest effective priority.  The      *)
(* resources of a ticket only decide which others resolve() reports as     *)
(* deferred; those stay queued like all the rest.                          *)
(*                                                                         *)
(* Effective priorities depend on how long tickets have waited.  Each      *)
(* ticket keeps the time to the next submission (the last one: to now), up *)
(* to MaxGap, which is more than any difference of priorities is worth and *)
(* any deadline lasts, so more would decide nothing else.                  *)
(***************************************************************************)
EXTENDS Integers, SequencesExt

CONSTANTS
  Tickets,          \* ids, each of one ticket at a time
  TicketPriorities,
  Slas,             \* slaSeconds, 0 for none
  FairnessWeight,   \* _fairnessWeight
  MaxGap,           \* bound: seconds told apart, see above
  MaxWaiting        \* bound: tickets queued at once

ASSUME ResolverAssumption ==
  /\ TicketPriorities \subseteq 0..99 /\ Slas \subseteq 0..99
  /\ FairnessWeight \in Nat \ {0} /\ MaxGap \in Nat
  /\ \A p, q \in TicketPriorities : p - q < MaxGap * FairnessWeight
  /\ \A d \in Slas : d <= MaxGap

VARIABLES
  tickets,   \* _queue, in order of submission
  rule       \* _strategy

resolverVars == <<tickets, rule>>

Waits(t) == \E k \in DOMAIN tickets : tickets[k].id = t
-----------------------------------------------------------------------------
AddGap(k, d) == IF tickets[k].gap + d > MaxGap THEN MaxGap ELSE tickets[k].gap + d

\* The queue without its k-th ticket, whose time goes to the one before
Dequeued(k) ==
  RemoveAt(IF k = 1 THEN tickets
           ELSE [tickets EXCEPT ![k - 1].gap = AddGap(k - 1, tickets[k].gap)], k)

SubmitTicket(t, p, d) ==
  /\ ~Waits(t) /\ Len(tickets) < MaxWaiting
  /\ tickets' = Append(tickets, [id |-> t, priority |-> p, sla |-> d, gap |-> 0])
  /\ UNCHANGED rule

CancelTicket(t) ==
  /\ \E k \in DOMAIN tickets : tickets[k].id = t /\ tickets' = Dequeued(k)
  /\ UNCHANGED rule

ClearTickets == tickets' = <<>> /\ UNCHANGED rule

SetRule(r) == rule' = r /\ UNCHANGED tickets

SecondPasses ==
  /\ tickets # <<>>
  /\ tickets' = [tickets EXCEPT ![Len(tickets)].gap = AddGap(Len(tickets), 1)]
  /\ UNCHANGED rule
-----------------------------------------------------------------------------
Waited(k) == FoldSeq(LAMBDA t, w : t.gap + w, 0, SubSeq(tickets, k, Len(tickets)))

\* 1e6 is more than 100 / seconds and any priority
Urgency(k) ==
  LET left == tickets[k].sla - Waited(k)
  IN CASE tickets[k].sla = 0 -> 0
       [] left <= 0          -> 1000000
       [] OTHER              -> 100 \div left

MutantNoAging(k) == tickets[k].priority + IF rule = "SLA_PRIORITY" THEN Urgency(k) ELSE 0
EffectivePriority(k) ==
  tickets[k].priority + CASE rule = "STRICT_PRIORITY"   -> 0
                          [] rule = "FAIRNESS_WEIGHTED" -> Waited(k) * FairnessWeight
                          [] rule = "SLA_PRIORITY"      -> Urgency(k)

\* std::max_element: the first of the highest
Resolve ==
  /\ \E k \in DOMAIN tickets :
       /\ \A j \in DOMAIN tickets :
            /\ EffectivePriority(k) >= EffectivePriority(j)
            /\ j < k => EffectivePriority(k) > EffectivePriority(j)
       /\ tickets' = Dequeued(k)
  /\ UNCHANGED rule

Rules == {"STRICT_PRIORITY", "FAIRNESS_WEIGHTED", "SLA_PRIORITY"}

ResolverInit == tickets = <<>> /\ rule \in Rules

SubmitStep == \E t \in Tickets, p \in TicketPriorities, d \in Slas : SubmitTicket(t, p, d)
OwnerOfTickets ==
  \/ \E t \in Tickets : CancelTicket(t)
  \/ ClearTickets
  \/ \E r \in Rules : SetRule(r)

ResolverNext == SubmitStep \/ OwnerOfTickets \/ SecondPasses \/ Resolve

\* resolve() goes on being called, and seconds pass
ResolverFairness == WF_resolverVars(Resolve) /\ WF_resolverVars(SecondPasses)
ResolverSpec == ResolverInit /\ [][ResolverNext]_resolverVars /\ ResolverFairness
-----------------------------------------------------------------------------
\* "Anti-starvation: waiting time boosts effective prio": as long as the resolver
\* weighs by fairness, no ticket waits for ever, whatever is submitted after it
\* and however often (ConflictResolver::resolve, _effectivePriority).
FairTicketsWin ==
  [](rule = "FAIRNESS_WEIGHTED") => \A t \in Tickets : Waits(t) ~> ~Waits(t)
=============================================================================
