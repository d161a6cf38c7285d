------------------------------ MODULE AgentComms ------------------------------
(***************************************************************************)
(* AgentComms (src/agentzero-communication/src/AgentComms.cpp): one        *)
(* agent's inbox with a limit and the handlers of types of messages.       *)
(* Sending counts in one critical section and delivers in another; a       *)
(* handler runs after the lock is released, so whatever it calls is as if  *)
(* another thread called it.                                               *)
(*                                                                         *)
(* Only messages to the agent itself or to everybody ("*") are delivered,  *)
(* by whoever sends them; a bus may deliver others' (deliver is public).   *)
(* The registered peers are looked up by nobody and are left out.          *)
(***************************************************************************)
EXTENDS Naturals, SequencesExt

CONSTANTS
  CommThreads,
  MessageTypes,
  Correspondents,   \* ids of other agents
  InboxLimit,       \* _max_inbox
  BatchSizes,       \* values of max_messages
  MaxMessages       \* bound: messages ever made

ASSUME CommsAssumption ==
  /\ IsFiniteSet(CommThreads) /\ {"self", "*"} \cap Correspondents = {}
  /\ InboxLimit \in Nat /\ MaxMessages \in Nat /\ BatchSizes \subseteq Nat

VARIABLES
  inbox,           \* _inbox: a sequence of [id, type]
  handlers,        \* the keys of _handlers
  sentCount, receivedCount,
  mail,            \* thread -> [at, message, left]: what it is doing
  arrived,         \* history: what was put into the inbox, in order
  taken,           \* history: what was received, dispatched or cleared, in order
  handled,         \* history: what a handler was called with, in any order
  posted           \* history: how many messages were made, and how many were dropped

commsVars == <<inbox, handlers, sentCount, receivedCount, mail, arrived, taken, handled, posted>>

Silent == [at |-> "idle", message |-> <<>>, left |-> 0]
Made(type) == [id |-> posted.made + 1, type |-> type]
-----------------------------------------------------------------------------
\* sendMessage and broadcast up to the end of the first critical section
Send(t, type, to) ==
  /\ mail[t].at = "idle" /\ posted.made < MaxMessages
  /\ sentCount' = sentCount + 1
  /\ posted' = [posted EXCEPT !.made = @ + 1]
  /\ mail' = IF to \in {"self", "*"}
             THEN [mail EXCEPT ![t] = [Silent EXCEPT !.at = "delivering", !.message = Made(type)]]
             ELSE mail
  /\ UNCHANGED <<inbox, handlers, receivedCount, arrived, taken, handled>>

\* deliver called from outside, with somebody else's message
Bring(t, type) ==
  /\ mail[t].at = "idle" /\ posted.made < MaxMessages
  /\ posted' = [posted EXCEPT !.made = @ + 1]
  /\ mail' = [mail EXCEPT ![t] = [Silent EXCEPT !.at = "delivering", !.message = Made(type)]]
  /\ UNCHANGED <<inbox, handlers, sentCount, receivedCount, arrived, taken, handled>>

MutantCountDropped(t) ==
  /\ mail[t].at = "delivering"
  /\ receivedCount' = receivedCount + 1
  /\ IF Len(inbox) >= InboxLimit
     THEN posted' = [posted EXCEPT !.dropped = @ + 1] /\ UNCHANGED <<inbox, arrived>>
     ELSE /\ inbox' = Append(inbox, mail[t].message) /\ arrived' = Append(arrived, mail[t].message)
          /\ UNCHANGED posted
  /\ mail' = [mail EXCEPT ![t] = Silent]
  /\ UNCHANGED <<handlers, sentCount, taken, handled>>
Deliver(t) ==
  /\ mail[t].at = "delivering"
  /\ IF Len(inbox) >= InboxLimit
     THEN posted' = [posted EXCEPT !.dropped = @ + 1] /\ UNCHANGED <<inbox, receivedCount, arrived>>
     ELSE /\ inbox' = Append(inbox, mail[t].message) /\ arrived' = Append(arrived, mail[t].message)
          /\ receivedCount' = receivedCount + 1
          /\ UNCHANGED posted
  /\ mail' = [mail EXCEPT ![t] = Silent]
  /\ UNCHANGED <<handlers, sentCount, taken, handled>>

Receive ==
  /\ inbox # <<>>
  /\ inbox' = Tail(inbox) /\ taken' = Append(taken, Head(inbox))
  /\ UNCHANGED <<handlers, sentCount, receivedCount, mail, arrived, handled, posted>>

ClearInbox ==
  /\ inbox' = <<>> /\ taken' = taken \o inbox
  /\ UNCHANGED <<handlers, sentCount, receivedCount, mail, arrived, handled, posted>>

SetHandler(type) ==
  /\ handlers' = handlers \cup {type}
  /\ UNCHANGED <<inbox, sentCount, receivedCount, mail, arrived, taken, handled, posted>>

ClearHandler(type) ==
  /\ handlers' = handlers \ {type}
  /\ UNCHANGED <<inbox, sentCount, receivedCount, mail, arrived, taken, handled, posted>>

BeginDispatch(t, n) ==
  /\ mail[t].at = "idle" /\ n > 0
  /\ mail' = [mail EXCEPT ![t] = [Silent EXCEPT !.at = "dispatching", !.left = n]]
  /\ UNCHANGED <<inbox, handlers, sentCount, receivedCount, arrived, taken, handled, posted>>

\* What is left of a batch after a message, or after none was found
Onward(n) == IF n = 0 THEN Silent ELSE [Silent EXCEPT !.at = "dispatching", !.left = n]

MutantLeaveUntilHandled(t) ==
  /\ mail[t].at = "dispatching" /\ inbox # <<>> /\ Head(inbox).type \in handlers
  /\ mail' = [mail EXCEPT ![t] = [@ EXCEPT !.at = "handling", !.message = Head(inbox)]]
  /\ UNCHANGED <<inbox, handlers, sentCount, receivedCount, arrived, taken, handled, posted>>
\* One round's critical section: the message leaves the inbox and the handler is copied
TakeMessage(t) ==
  /\ mail[t].at = "dispatching"
  /\ IF inbox = <<>>
     THEN mail' = [mail EXCEPT ![t] = Silent] /\ UNCHANGED <<inbox, taken>>
     ELSE /\ inbox' = Tail(inbox) /\ taken' = Append(taken, Head(inbox))
          /\ mail' = [mail EXCEPT ![t] = IF Head(inbox).type \in handlers
                                         THEN [@ EXCEPT !.at = "handling", !.message = Head(inbox)]
                                         ELSE Onward(@.left - 1)]
  /\ UNCHANGED <<handlers, sentCount, receivedCount, arrived, handled, posted>>

\* The handler is called and returns
Handle(t) ==
  /\ mail[t].at = "handling"
  /\ handled' = Append(handled, mail[t].message)
  /\ mail' = [mail EXCEPT ![t] = Onward(@.left - 1)]
  /\ UNCHANGED <<inbox, handlers, sentCount, receivedCount, arrived, taken, posted>>

\* A handler that throws ends the dispatch; its message is gone
HandlerThrows(t) ==
  /\ mail[t].at = "handling"
  /\ handled' = Append(handled, mail[t].message)
  /\ mail' = [mail EXCEPT ![t] = Silent]
  /\ UNCHANGED <<inbox, handlers, sentCount, receivedCount, arrived, taken, posted>>

CommsInit ==
  /\ inbox = <<>> /\ handlers = {} /\ sentCount = 0 /\ receivedCount = 0
  /\ mail = [t \in CommThreads |-> Silent]
  /\ arrived = <<>> /\ taken = <<>> /\ handled = <<>> /\ posted = [made |-> 0, dropped |-> 0]

CommsNext ==
  \/ \E t \in CommThreads :
       \/ \E type \in MessageTypes :
            Bring(t, type) \/ \E to \in Correspondents \cup {"self", "*"} : Send(t, type, to)
       \/ Deliver(t) \/ TakeMessage(t) \/ Handle(t) \/ HandlerThrows(t)
       \/ \E n \in BatchSizes : BeginDispatch(t, n)
  \/ Receive \/ ClearInbox
  \/ \E type \in MessageTypes : SetHandler(type) \/ ClearHandler(type)
-----------------------------------------------------------------------------
\* What is put into the inbox leaves it once, in the order in which it came, however many
\* threads take from it; a handler is called at most once with a message, while threads
\* dispatch side by side; and what was received and what was dropped are counted apart.
MessagesAreKept ==
  /\ arrived = taken \o inbox /\ IsInjective(arrived)
  /\ receivedCount = Len(arrived) /\ Len(inbox) <= InboxLimit
  /\ IsInjective(handled) /\ ToSet(handled) \subseteq ToSet(taken)
  /\ \A t, u \in CommThreads : mail[t].at = "handling" =>
       /\ mail[t].message \in ToSet(taken) \ ToSet(handled)
       /\ mail[u].at = "handling" /\ mail[u].message = mail[t].message => t = u
  /\ receivedCount + posted.dropped + Cardinality({t \in CommThreads : mail[t].at = "delivering"}) <= posted.made
=============================================================================
