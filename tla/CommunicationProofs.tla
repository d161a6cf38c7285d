------------------------- MODULE CommunicationProofs -------------------------
(***************************************************************************)
(* What the parts of agentzero-communication promise, for any number of    *)
(* threads, messages, sessions and conversations: the inbox, the dialogue  *)
(* manager and the sessions over it, in this order.                        *)
(***************************************************************************)
EXTENDS AgentServices, FiniteSetTheorems, SequenceTheorems, TLAPS

(***************************************************************************)
(* Communication: messages between agents                                  *)
(***************************************************************************)
Messages == [id : Nat \ {0}, type : MessageTypes]
Mail == [at : {"idle", "delivering", "dispatching", "handling"}, message : Messages \cup {<<>>}, left : Int]

Delivering == {t \in CommThreads : mail[t].at = "delivering"}
Handling == {t \in CommThreads : mail[t].at = "handling"}

MailTypeOK ==
  /\ inbox \in Seq(Messages) /\ arrived \in Seq(Messages) /\ taken \in Seq(Messages) /\ handled \in Seq(Messages)
  /\ mail \in [CommThreads -> Mail]
  /\ receivedCount \in Nat /\ posted \in [made : Nat, dropped : Nat]
\* A message is being delivered or has arrived, by one thread and once
MailIsOnce ==
  /\ IsInjective(arrived) /\ \A m \in ToSet(arrived) : m.id <= posted.made
  /\ \A t \in Delivering :
       /\ mail[t].message \in Messages /\ mail[t].message.id <= posted.made
       /\ \A m \in ToSet(arrived) : m.id # mail[t].message.id
       /\ \A u \in Delivering : mail[u].message.id = mail[t].message.id => u = t
\* A message in a handler's hands was taken, by one thread, and not handled before
MailIsHandledOnce ==
  /\ IsInjective(handled) /\ ToSet(handled) \subseteq ToSet(taken)
  /\ \A t \in Handling :
       /\ mail[t].message \in ToSet(taken) \ ToSet(handled)
       /\ \A u \in Handling : mail[u].message = mail[t].message => u = t
MailAddsUp ==
  /\ arrived = taken \o inbox
  /\ receivedCount = Len(arrived) /\ Len(inbox) <= InboxLimit
  /\ receivedCount + posted.dropped + Cardinality(Delivering) <= posted.made
CommsInv == MailTypeOK /\ MailIsOnce /\ MailIsHandledOnce /\ MailAddsUp

\* What appending to a sequence does to its elements
LEMMA AppendOne ==
  ASSUME NEW S, NEW s \in Seq(S), NEW e \in S
  PROVE  /\ Append(s, e) \in Seq(S) /\ ToSet(Append(s, e)) = ToSet(s) \cup {e}
         /\ Len(Append(s, e)) = Len(s) + 1
         /\ IsInjective(s) /\ e \notin ToSet(s) => IsInjective(Append(s, e))
<1> DEFINE t == Append(s, e)
<1>1. /\ t \in Seq(S) /\ Len(t) = Len(s) + 1 /\ t[Len(s) + 1] = e /\ Len(s) \in Nat
      /\ DOMAIN t = 1..(Len(s) + 1) /\ DOMAIN s = 1..Len(s)
      /\ \A i \in 1..Len(s) : t[i] = s[i]
  OBVIOUS
<1> HIDE DEF t
<1>2. \A i \in DOMAIN t : \/ i = Len(s) + 1
                          \/ i \in DOMAIN s /\ t[i] = s[i]
  BY <1>1
<1>3. ToSet(t) = ToSet(s) \cup {e}
  <2>1. ASSUME NEW x \in ToSet(t) PROVE x \in ToSet(s) \cup {e}
    BY <1>1, <1>2, <2>1 DEF ToSet
  <2>2. ASSUME NEW x \in ToSet(s) PROVE x \in ToSet(t)
    <3>1. PICK i \in DOMAIN s : s[i] = x
      BY <2>2 DEF ToSet
    <3>2. i \in DOMAIN t /\ t[i] = x
      BY <1>1, <3>1
    <3> QED BY <3>2 DEF ToSet
  <2>3. e \in ToSet(t)
    BY <1>1 DEF ToSet
  <2> QED BY <2>1, <2>2, <2>3
<1>4. ASSUME IsInjective(s), e \notin ToSet(s) PROVE IsInjective(t)
  <2>1. \A i \in DOMAIN s : s[i] # e
    BY <1>4 DEF ToSet
  <2> QED BY <1>1, <1>2, <1>4, <2>1 DEF IsInjective
<1> QED BY <1>1, <1>3, <1>4 DEF t

\* Moving the first of a queue to the end of what was taken from it
LEMMA TakeOne ==
  ASSUME NEW S, NEW s \in Seq(S), NEW q \in Seq(S), q # <<>>
  PROVE  /\ Tail(q) \in Seq(S) /\ Head(q) \in S /\ Len(Tail(q)) = Len(q) - 1
         /\ Append(s, Head(q)) \o Tail(q) = s \o q
         /\ Head(q) \in ToSet(s \o q)
<1>1. Head(q) \in S /\ Tail(q) \in Seq(S) /\ Len(Tail(q)) = Len(q) - 1 /\ Head(q) = q[1]
      /\ q = <<Head(q)>> \o Tail(q) /\ Len(q) \in Nat \ {0} /\ Len(s) \in Nat
  OBVIOUS
<1>2. Append(s, Head(q)) \o Tail(q) = s \o q
  OBVIOUS
<1>3. s \o q \in Seq(S) /\ DOMAIN (s \o q) = 1..(Len(s) + Len(q)) /\ (s \o q)[Len(s) + 1] = q[1]
  BY <1>1
<1>4. Len(s) + 1 \in DOMAIN (s \o q)
  BY <1>1, <1>3
<1> QED BY <1>1, <1>2, <1>3, <1>4 DEF ToSet

\* The first of the queue is not among what was taken before
LEMMA TakeNew ==
  ASSUME NEW S, NEW s \in Seq(S), NEW q \in Seq(S), q # <<>>, IsInjective(s \o q)
  PROVE  Head(q) \notin ToSet(s)
<1> SUFFICES ASSUME NEW i \in DOMAIN s, s[i] = Head(q) PROVE FALSE
  BY DEF ToSet
<1> DEFINE r == s \o q
<1>1. /\ DOMAIN r = 1..(Len(s) + Len(q)) /\ r[i] = s[i] /\ r[Len(s) + 1] = Head(q)
      /\ i \in 1..Len(s) /\ Len(s) \in Nat /\ Len(q) \in Nat \ {0}
  OBVIOUS
<1> HIDE DEF r
<1>2. i \in DOMAIN r /\ Len(s) + 1 \in DOMAIN r /\ i # Len(s) + 1 /\ r[i] = r[Len(s) + 1]
  BY <1>1
<1>3. IsInjective(r)
  BY DEF r
<1> QED BY <1>2, <1>3 DEF IsInjective

LEMMA ElementsOf == ASSUME NEW S, NEW s \in Seq(S) PROVE ToSet(s) \subseteq S
<1>1. \A i \in DOMAIN s : s[i] \in S
  OBVIOUS
<1> QED BY <1>1 DEF ToSet

LEMMA JoinedSet ==
  ASSUME NEW S, NEW s \in Seq(S), NEW q \in Seq(S)
  PROVE  s \o q \in Seq(S) /\ ToSet(s) \subseteq ToSet(s \o q) /\ Len(s \o q) = Len(s) + Len(q)
<1>1. /\ s \o q \in Seq(S) /\ Len(s \o q) = Len(s) + Len(q) /\ DOMAIN s = 1..Len(s)
      /\ DOMAIN (s \o q) = 1..(Len(s) + Len(q)) /\ Len(s) \in Nat /\ Len(q) \in Nat
      /\ \A i \in 1..Len(s) : (s \o q)[i] = s[i]
  OBVIOUS
<1>2. \A i \in DOMAIN s : i \in DOMAIN (s \o q) /\ (s \o q)[i] = s[i]
  BY <1>1
<1> QED BY <1>1, <1>2 DEF ToSet

LEMMA MailMoves ==
  ASSUME mail \in [CommThreads -> Mail], NEW t \in CommThreads, NEW r \in Mail,
         mail' = [mail EXCEPT ![t] = r]
  PROVE  /\ mail' \in [CommThreads -> Mail] /\ mail'[t] = r
         /\ \A u \in CommThreads : u # t => mail'[u] = mail[u]
         /\ r.at = "delivering" => Delivering' = Delivering \cup {t}
         /\ r.at # "delivering" => Delivering' = Delivering \ {t}
         /\ r.at = "handling" => Handling' = Handling \cup {t}
         /\ r.at # "handling" => Handling' = Handling \ {t}
BY DEF Delivering, Handling

LEMMA DeliveringFinite ==
  /\ IsFiniteSet(Delivering) /\ Cardinality(Delivering) \in Nat
  /\ \A t : t \in Delivering => Cardinality(Delivering \ {t}) = Cardinality(Delivering) - 1
  /\ \A t : t \notin Delivering => /\ Cardinality(Delivering \cup {t}) = Cardinality(Delivering) + 1
                                   /\ Delivering \ {t} = Delivering
<1>1. Delivering \subseteq CommThreads
  BY DEF Delivering
<1>2. IsFiniteSet(Delivering)
  BY <1>1, CommsAssumption, FS_Subset
<1> QED BY <1>2, FS_CardinalityType, FS_RemoveElement, FS_AddElement

LEMMA CommsStart == CommsInit => CommsInv
<1> SUFFICES ASSUME CommsInit PROVE CommsInv
  OBVIOUS
<1>1. /\ inbox = <<>> /\ arrived = <<>> /\ taken = <<>> /\ handled = <<>>
      /\ mail = [t \in CommThreads |-> [at |-> "idle", message |-> <<>>, left |-> 0]]
      /\ receivedCount = 0 /\ posted = [made |-> 0, dropped |-> 0]
  BY DEF CommsInit, Silent
<1>2. MailTypeOK
  <2>1. mail \in [CommThreads -> Mail]
    BY <1>1 DEF Mail
  <2> QED BY <1>1, <2>1 DEF MailTypeOK
<1>3. Delivering = {} /\ Handling = {} /\ ToSet(<<>>) = {} /\ IsInjective(<<>>)
  BY <1>1 DEF Delivering, Handling, ToSet, IsInjective
<1>4. MailIsOnce /\ MailIsHandledOnce
  BY <1>1, <1>3 DEF MailIsOnce, MailIsHandledOnce
<1>5. MailAddsUp
  <2>1. Cardinality(Delivering) = 0 /\ posted.made = 0 /\ posted.dropped = 0 /\ InboxLimit \in Nat
    BY <1>1, <1>3, FS_EmptySet, CommsAssumption
  <2>2. <<>> \o <<>> = <<>> /\ Len(<<>>) = 0
    OBVIOUS
  <2> QED BY <1>1, <2>1, <2>2 DEF MailAddsUp
<1> QED BY <1>2, <1>4, <1>5 DEF CommsInv

\* A message that begins to be delivered is a new one
LEMMA PostKeeps ==
  ASSUME CommsInv, NEW t \in CommThreads, NEW type \in MessageTypes,
         mail[t].at = "idle", posted' = [posted EXCEPT !.made = @ + 1],
         \/ mail' = mail
         \/ mail' = [mail EXCEPT ![t] = [Silent EXCEPT !.at = "delivering", !.message = Made(type)]],
         UNCHANGED <<inbox, receivedCount, arrived, taken, handled>>
  PROVE  CommsInv'
<1>1. /\ posted.made \in Nat /\ posted.dropped \in Nat /\ receivedCount \in Nat
      /\ posted' \in [made : Nat, dropped : Nat]
      /\ posted'.made = posted.made + 1 /\ posted'.dropped = posted.dropped
  <2>1. posted \in [made : Nat, dropped : Nat] /\ receivedCount \in Nat
    BY DEF CommsInv, MailTypeOK
  <2> QED BY <2>1
<1>2. mail \in [CommThreads -> Mail] /\ t \notin Delivering /\ t \notin Handling
  BY DEF CommsInv, MailTypeOK, Delivering, Handling
<1>3. CASE mail' = mail
  <2>1. Delivering' = Delivering /\ Handling' = Handling
    BY <1>3 DEF Delivering, Handling
  <2>2. MailTypeOK' /\ MailIsHandledOnce'
    <3>1. MailTypeOK'
      BY <1>1, <1>2, <1>3 DEF CommsInv, MailTypeOK
    <3>2. MailIsHandledOnce'
      BY <1>3, <2>1 DEF CommsInv, MailIsHandledOnce
    <3> QED BY <3>1, <3>2
  <2>3. MailIsOnce'
    <3>1. \A m \in ToSet(arrived) : m.id \in Nat
      <4>1. ToSet(arrived) \subseteq Messages
        BY ElementsOf DEF CommsInv, MailTypeOK
      <4> QED BY <4>1 DEF Messages
    <3>2. \A u \in Delivering : mail[u].message.id \in Nat
      BY DEF CommsInv, MailIsOnce, Messages
    <3> QED BY <1>1, <1>3, <2>1, <3>1, <3>2 DEF CommsInv, MailIsOnce
  <2>4. MailAddsUp'
    BY <1>1, <2>1, DeliveringFinite DEF CommsInv, MailAddsUp
  <2> QED BY <2>2, <2>3, <2>4 DEF CommsInv
<1>4. CASE mail' = [mail EXCEPT ![t] = [Silent EXCEPT !.at = "delivering", !.message = Made(type)]]
  <2> DEFINE r == [Silent EXCEPT !.at = "delivering", !.message = Made(type)]
  <2>1. /\ r \in Mail /\ r.at = "delivering" /\ r.message \in Messages /\ r.message.id = posted.made + 1
    <3>1. Made(type) \in Messages /\ Made(type).id = posted.made + 1
      BY <1>1 DEF Made, Messages
    <3>2. Silent \in Mail
      BY DEF Silent, Mail
    <3>3. r \in Mail /\ r.at = "delivering" /\ r.message = Made(type)
      BY <3>1, <3>2 DEF Mail
    <3> QED BY <3>1, <3>3
  <2>2. mail' = [mail EXCEPT ![t] = r]
    BY <1>4
  <2> HIDE DEF r
  <2>3. /\ mail' \in [CommThreads -> Mail] /\ mail'[t] = r
        /\ \A u \in CommThreads : u # t => mail'[u] = mail[u]
        /\ Delivering' = Delivering \cup {t} /\ Handling' = Handling
    <3>1. Handling' = Handling \ {t}
      BY <1>2, <2>1, <2>2, MailMoves
    <3>2. Delivering' = Delivering \cup {t}
      BY <1>2, <2>1, <2>2, MailMoves
    <3>3. Handling \ {t} = Handling
      BY <1>2
    <3> QED BY <1>2, <2>1, <2>2, <3>1, <3>2, <3>3
  <2>4. MailTypeOK'
    BY <1>1, <2>3 DEF CommsInv, MailTypeOK
  <2>5. MailIsHandledOnce'
    <3>1. \A u \in Handling : mail'[u] = mail[u]
      BY <1>2, <2>3 DEF Handling
    <3> QED BY <2>3, <3>1 DEF CommsInv, MailIsHandledOnce
  <2>6. MailIsOnce'
    <3>1. \A m \in ToSet(arrived) : m.id \in Nat /\ m.id <= posted.made
      <4>1. ToSet(arrived) \subseteq Messages
        BY ElementsOf DEF CommsInv, MailTypeOK
      <4> QED BY <4>1 DEF CommsInv, MailIsOnce, Messages
    <3>2. \A u \in Delivering : /\ mail'[u] = mail[u] /\ u # t
                                /\ mail[u].message \in Messages
                                /\ mail[u].message.id \in Nat /\ mail[u].message.id <= posted.made
                                /\ \A m \in ToSet(arrived) : m.id # mail[u].message.id
      BY <1>2, <2>3 DEF CommsInv, MailIsOnce, Messages, Delivering
    <3>3. \A u \in Delivering' :
            /\ mail'[u].message \in Messages /\ mail'[u].message.id <= posted'.made
            /\ \A m \in ToSet(arrived') : m.id # mail'[u].message.id
      BY <1>1, <2>1, <2>3, <3>1, <3>2
    <3>4. \A u, v \in Delivering' : mail'[u].message.id = mail'[v].message.id => u = v
      <4> SUFFICES ASSUME NEW u \in Delivering', NEW v \in Delivering', mail'[u].message.id = mail'[v].message.id
                   PROVE  u = v
        OBVIOUS
      <4>1. CASE u = t \/ v = t
        BY <1>1, <2>1, <2>3, <3>2, <4>1
      <4>2. CASE u # t /\ v # t
        BY <2>3, <3>2, <4>2 DEF CommsInv, MailIsOnce
      <4> QED BY <4>1, <4>2
    <3> QED BY <1>1, <3>1, <3>3, <3>4 DEF CommsInv, MailIsOnce
  <2>7. MailAddsUp'
    <3>1. Cardinality(Delivering') = Cardinality(Delivering) + 1
      BY <1>2, <2>3, DeliveringFinite
    <3> QED BY <1>1, <3>1, DeliveringFinite DEF CommsInv, MailAddsUp
  <2> QED BY <2>4, <2>5, <2>6, <2>7 DEF CommsInv
<1> QED BY <1>3, <1>4

\* A delivery puts the message into the inbox, or drops it
LEMMA DeliverKeeps == ASSUME CommsInv, NEW t \in CommThreads, Deliver(t) PROVE CommsInv'
<1> DEFINE m == mail[t].message
<1>1. /\ posted \in [made : Nat, dropped : Nat] /\ posted.made \in Nat /\ posted.dropped \in Nat
      /\ receivedCount \in Nat /\ mail \in [CommThreads -> Mail]
      /\ inbox \in Seq(Messages) /\ arrived \in Seq(Messages) /\ taken \in Seq(Messages)
  BY DEF CommsInv, MailTypeOK
<1>2. /\ t \in Delivering /\ t \notin Handling /\ m \in Messages /\ m.id <= posted.made
      /\ \A e \in ToSet(arrived) : e.id # m.id
      /\ \A u \in Delivering : mail[u].message.id = m.id => u = t
  BY DEF Deliver, CommsInv, MailIsOnce, Delivering, Handling
<1>3. /\ mail' \in [CommThreads -> Mail]
      /\ \A u \in CommThreads : u # t => mail'[u] = mail[u]
      /\ Delivering' = Delivering \ {t} /\ Handling' = Handling
  <2>1. Silent \in Mail /\ Silent.at = "idle"
    BY DEF Silent, Mail
  <2>2. mail' = [mail EXCEPT ![t] = Silent]
    BY DEF Deliver
  <2>3. Handling' = Handling \ {t} /\ Delivering' = Delivering \ {t}
    BY <1>1, <2>1, <2>2, MailMoves
  <2>4. Handling \ {t} = Handling
    BY <1>2
  <2> QED BY <1>1, <2>1, <2>2, <2>3, <2>4
<1>4. Cardinality(Delivering') = Cardinality(Delivering) - 1 /\ Cardinality(Delivering) \in Nat
  BY <1>2, <1>3, DeliveringFinite
<1>5. MailIsHandledOnce'
  <2>1. taken' = taken /\ handled' = handled
    BY DEF Deliver
  <2>2. \A u \in Handling : mail'[u] = mail[u]
    BY <1>2, <1>3 DEF Handling
  <2> QED BY <1>3, <2>1, <2>2 DEF CommsInv, MailIsHandledOnce
<1> HIDE DEF m
<1>6. CASE Len(inbox) >= InboxLimit
  <2>1. /\ posted' = [posted EXCEPT !.dropped = @ + 1]
        /\ UNCHANGED <<inbox, receivedCount, arrived, taken, handled>>
    BY <1>6 DEF Deliver
  <2>2. /\ posted' \in [made : Nat, dropped : Nat]
        /\ posted'.made = posted.made /\ posted'.dropped = posted.dropped + 1
    BY <1>1, <2>1
  <2>3. MailTypeOK'
    BY <1>3, <2>1, <2>2 DEF CommsInv, MailTypeOK
  <2>4. MailIsOnce'
    <3>1. \A u \in Delivering' : u \in Delivering /\ mail'[u] = mail[u]
      BY <1>3 DEF Delivering
    <3> QED BY <1>3, <2>1, <2>2, <3>1 DEF CommsInv, MailIsOnce
  <2>5. MailAddsUp'
    BY <1>1, <1>4, <2>1, <2>2 DEF CommsInv, MailAddsUp
  <2> QED BY <1>5, <2>3, <2>4, <2>5 DEF CommsInv
<1>7. CASE ~(Len(inbox) >= InboxLimit)
  <2>1. /\ inbox' = Append(inbox, m) /\ arrived' = Append(arrived, m) /\ receivedCount' = receivedCount + 1
        /\ UNCHANGED <<posted, taken, handled>>
    BY <1>7 DEF Deliver, m
  <2>2. /\ inbox' \in Seq(Messages) /\ Len(inbox') = Len(inbox) + 1
        /\ arrived' \in Seq(Messages) /\ Len(arrived') = Len(arrived) + 1
        /\ ToSet(arrived') = ToSet(arrived) \cup {m}
        /\ IsInjective(arrived')
    <3>1. m \notin ToSet(arrived) /\ IsInjective(arrived)
      BY <1>2 DEF CommsInv, MailIsOnce
    <3> QED BY <1>1, <1>2, <2>1, <3>1, AppendOne
  <2>3. MailTypeOK'
    BY <1>1, <1>3, <2>1, <2>2 DEF CommsInv, MailTypeOK
  <2>4. MailIsOnce'
    <3>1. \A u \in Delivering' : u \in Delivering /\ u # t /\ mail'[u] = mail[u] /\ mail[u].message.id # m.id
      BY <1>2, <1>3 DEF Delivering
    <3>2. IsInjective(arrived')
      BY <2>2
    <3>3. \A a \in ToSet(arrived') : a.id <= posted'.made
      <4>1. \A a \in ToSet(arrived) : a.id <= posted.made
        BY DEF CommsInv, MailIsOnce
      <4> QED BY <1>2, <2>1, <2>2, <4>1
    <3>4. ASSUME NEW u \in Delivering'
          PROVE  /\ mail'[u].message \in Messages /\ mail'[u].message.id <= posted'.made
                 /\ \A a \in ToSet(arrived') : a.id # mail'[u].message.id
                 /\ \A v \in Delivering' : mail'[v].message.id = mail'[u].message.id => v = u
      <4>1. /\ mail[u].message \in Messages /\ mail[u].message.id <= posted.made
            /\ \A a \in ToSet(arrived) : a.id # mail[u].message.id
            /\ \A v \in Delivering : mail[v].message.id = mail[u].message.id => v = u
        BY <3>1 DEF CommsInv, MailIsOnce
      <4> QED BY <2>1, <2>2, <3>1, <4>1
    <3> QED BY <3>2, <3>3, <3>4 DEF MailIsOnce
  <2>5. MailAddsUp'
    <3>1. arrived' = taken' \o inbox'
      <4>1. arrived = taken \o inbox
        BY DEF CommsInv, MailAddsUp
      <4>2. Append(taken \o inbox, m) = taken \o Append(inbox, m)
        <5>1. taken \in Seq(Messages) /\ inbox \in Seq(Messages) /\ m \in Messages
          BY <1>1, <1>2
        <5> QED BY <5>1
      <4> QED BY <2>1, <4>1, <4>2
    <3>2. Len(inbox') <= InboxLimit
      BY <1>1, <1>7, <2>2, CommsAssumption
    <3> QED BY <1>1, <1>4, <2>1, <2>2, <3>1, <3>2 DEF CommsInv, MailAddsUp
  <2> QED BY <1>5, <2>3, <2>4, <2>5 DEF CommsInv
<1> QED BY <1>6, <1>7

\* What leaves the inbox was taken; a thread that dispatches may have it in its hands
LEMMA TakeKeeps ==
  ASSUME CommsInv, NEW q \in Seq(Messages), NEW s \in Seq(Messages),
         inbox' = q, taken' = s, s \o q = taken \o inbox, Len(q) <= Len(inbox),
         ToSet(taken) \subseteq ToSet(s),
         mail' \in [CommThreads -> Mail], Delivering' = Delivering,
         \A t \in Delivering : mail'[t] = mail[t],
         \A t \in Handling' : \/ t \in Handling /\ mail'[t] = mail[t]
                              \/ /\ mail'[t].message \in ToSet(s) \ ToSet(taken)
                                 /\ \A u \in Handling' : u # t => u \in Handling /\ mail'[u] = mail[u],
         UNCHANGED <<receivedCount, arrived, handled, posted>>
  PROVE  CommsInv'
<1>1. MailTypeOK'
  <2>1. arrived \in Seq(Messages) /\ handled \in Seq(Messages)
        /\ receivedCount \in Nat /\ posted \in [made : Nat, dropped : Nat]
    BY DEF CommsInv, MailTypeOK
  <2>2. arrived' = arrived /\ handled' = handled /\ receivedCount' = receivedCount /\ posted' = posted
    OBVIOUS
  <2> QED BY <2>1, <2>2 DEF MailTypeOK
<1>2. MailIsOnce'
  <2>1. MailIsOnce
    BY DEF CommsInv
  <2>2. arrived' = arrived /\ posted' = posted
    OBVIOUS
  <2>3. \A t \in Delivering' : t \in Delivering /\ mail'[t] = mail[t]
    OBVIOUS
  <2> QED BY <2>1, <2>2, <2>3 DEF MailIsOnce
<1>3. MailIsHandledOnce'
  <2>1. /\ IsInjective(handled) /\ ToSet(handled) \subseteq ToSet(taken) /\ handled' = handled
        /\ \A t \in Handling :
             /\ mail[t].message \in ToSet(taken) \ ToSet(handled)
             /\ \A u \in Handling : mail[u].message = mail[t].message => u = t
    BY DEF CommsInv, MailIsHandledOnce
  <2>2. \A t \in Handling' : mail'[t].message \in ToSet(taken') \ ToSet(handled')
    BY <2>1
  <2>3. \A t, u \in Handling' : mail'[u].message = mail'[t].message => u = t
    <3> SUFFICES ASSUME NEW t \in Handling', NEW u \in Handling', mail'[u].message = mail'[t].message, u # t
                 PROVE  FALSE
      OBVIOUS
    <3>1. CASE t \in Handling /\ mail'[t] = mail[t] /\ u \in Handling /\ mail'[u] = mail[u]
      BY <2>1, <3>1
    <3>2. CASE mail'[t].message \notin ToSet(taken) /\ u \in Handling /\ mail'[u] = mail[u]
      BY <2>1, <3>2
    <3>3. CASE mail'[u].message \notin ToSet(taken) /\ t \in Handling /\ mail'[t] = mail[t]
      BY <2>1, <3>3
    <3> QED BY <3>1, <3>2, <3>3
  <2> QED BY <2>1, <2>2, <2>3 DEF MailIsHandledOnce
<1>4. MailAddsUp'
  <2>1. Len(inbox') <= InboxLimit
    BY CommsAssumption DEF CommsInv, MailAddsUp, MailTypeOK
  <2> QED BY <2>1 DEF CommsInv, MailAddsUp
<1> QED BY <1>1, <1>2, <1>3, <1>4 DEF CommsInv


\* A thread's mail changes while nothing else does, and nothing is in its hands afterwards
LEMMA IdleKeeps ==
  ASSUME CommsInv, NEW t \in CommThreads, NEW r \in Mail, mail' = [mail EXCEPT ![t] = r],
         t \notin Delivering, r.at \in {"idle", "dispatching"},
         UNCHANGED <<inbox, receivedCount, arrived, taken, handled, posted>>
  PROVE  CommsInv'
<1>1. /\ mail \in [CommThreads -> Mail] /\ inbox \in Seq(Messages) /\ taken \in Seq(Messages)
  BY DEF CommsInv, MailTypeOK
<1>2. /\ mail' \in [CommThreads -> Mail]
      /\ \A u \in CommThreads : u # t => mail'[u] = mail[u]
      /\ Delivering' = Delivering \ {t} /\ Handling' = Handling \ {t}
  <2>1. r.at # "delivering" /\ r.at # "handling"
    OBVIOUS
  <2> QED BY <1>1, <2>1, MailMoves
<1>3. Delivering' = Delivering
  BY <1>2
<1>4. (\A u \in Delivering : mail'[u] = mail[u]) /\ (\A u \in Handling' : u \in Handling /\ mail'[u] = mail[u])
  BY <1>2 DEF Delivering, Handling
<1>5. inbox' = inbox /\ taken' = taken /\ Len(inbox) <= Len(inbox)
      /\ UNCHANGED <<receivedCount, arrived, handled, posted>>
  BY <1>1
<1> QED BY <1>1, <1>2, <1>3, <1>4, <1>5, TakeKeeps

\* What the first of the inbox is to those who have taken messages before
LEMMA FirstOfInbox ==
  ASSUME CommsInv, inbox # <<>>
  PROVE  LET h == Head(inbox)
             q == Tail(inbox)
             s == Append(taken, h)
         IN /\ h \in Messages /\ q \in Seq(Messages) /\ s \in Seq(Messages)
            /\ s \o q = taken \o inbox /\ Len(q) <= Len(inbox)
            /\ ToSet(s) = ToSet(taken) \cup {h} /\ h \notin ToSet(taken)
<1>1. inbox \in Seq(Messages) /\ taken \in Seq(Messages) /\ IsInjective(taken \o inbox)
  BY DEF CommsInv, MailTypeOK, MailIsOnce, MailAddsUp
<1>2. /\ Head(inbox) \in Messages /\ Tail(inbox) \in Seq(Messages) /\ Len(Tail(inbox)) = Len(inbox) - 1
      /\ Append(taken, Head(inbox)) \o Tail(inbox) = taken \o inbox
  BY <1>1, TakeOne
<1>3. /\ Append(taken, Head(inbox)) \in Seq(Messages)
      /\ ToSet(Append(taken, Head(inbox))) = ToSet(taken) \cup {Head(inbox)}
  BY <1>1, <1>2, AppendOne
<1>4. Head(inbox) \notin ToSet(taken)
  BY <1>1, TakeNew
<1>5. Len(Tail(inbox)) <= Len(inbox)
  BY <1>1, <1>2
<1> QED BY <1>2, <1>3, <1>4, <1>5

LEMMA ReceiveKeeps == ASSUME CommsInv, Receive \/ ClearInbox PROVE CommsInv'
<1>1. /\ mail \in [CommThreads -> Mail] /\ inbox \in Seq(Messages) /\ taken \in Seq(Messages)
  BY DEF CommsInv, MailTypeOK
<1>2. /\ mail' \in [CommThreads -> Mail] /\ Delivering' = Delivering /\ Handling' = Handling /\ mail' = mail
      /\ UNCHANGED <<receivedCount, arrived, handled, posted>>
  BY <1>1 DEF Receive, ClearInbox, Delivering, Handling
<1>3. CASE Receive
  <2>1. inbox' = Tail(inbox) /\ taken' = Append(taken, Head(inbox)) /\ inbox # <<>>
    BY <1>3 DEF Receive
  <2>2. /\ inbox' \in Seq(Messages) /\ taken' \in Seq(Messages)
        /\ taken' \o inbox' = taken \o inbox /\ Len(inbox') <= Len(inbox)
        /\ ToSet(taken) \subseteq ToSet(taken')
    BY <2>1, FirstOfInbox
  <2> QED BY <1>2, <2>2, TakeKeeps
<1>4. CASE ClearInbox
  <2>1. inbox' = <<>> /\ taken' = taken \o inbox
    BY <1>4 DEF ClearInbox
  <2>2. /\ inbox' \in Seq(Messages) /\ taken' \in Seq(Messages)
        /\ ToSet(taken) \subseteq ToSet(taken')
    BY <1>1, <2>1, JoinedSet
  <2>3. taken' \o inbox' = taken \o inbox /\ Len(inbox') <= Len(inbox)
    <3>1. taken \o inbox \in Seq(Messages) /\ Len(inbox) \in Nat /\ Len(<<>>) = 0
      BY <1>1, JoinedSet
    <3>2. \A s \in Seq(Messages) : s \o <<>> = s
      OBVIOUS
    <3> QED BY <2>1, <3>1, <3>2
  <2> QED BY <1>2, <2>2, <2>3, TakeKeeps
<1> QED BY <1>3, <1>4

LEMMA DispatchesOn ==
  ASSUME NEW n \in Int
  PROVE  Onward(n) \in Mail /\ Onward(n).at \in {"idle", "dispatching"}
<1>1. Silent \in Mail /\ Silent.at = "idle"
  BY DEF Silent, Mail
<1> QED BY <1>1 DEF Onward, Mail

LEMMA DispatchKeeps == ASSUME CommsInv, NEW t \in CommThreads, TakeMessage(t) PROVE CommsInv'
<1>1. /\ mail \in [CommThreads -> Mail] /\ inbox \in Seq(Messages) /\ taken \in Seq(Messages)
      /\ mail[t].at = "dispatching" /\ t \notin Delivering /\ t \notin Handling
      /\ mail[t].left \in Int
  BY DEF CommsInv, MailTypeOK, TakeMessage, Delivering, Handling, Mail
<1>2. UNCHANGED <<receivedCount, arrived, handled, posted>>
  BY DEF TakeMessage
<1>3. CASE inbox = <<>>
  <2>1. mail' = [mail EXCEPT ![t] = Silent] /\ UNCHANGED <<inbox, taken>>
    BY <1>3 DEF TakeMessage
  <2>2. Silent \in Mail /\ Silent.at = "idle"
    BY DEF Silent, Mail
  <2> QED BY <1>1, <1>2, <2>1, <2>2, IdleKeeps
<1>4. CASE inbox # <<>>
  <2> DEFINE h == Head(inbox)
             r == IF h.type \in handlers THEN [mail[t] EXCEPT !.at = "handling", !.message = h]
                  ELSE Onward(mail[t].left - 1)
  <2>1. /\ inbox' = Tail(inbox) /\ taken' = Append(taken, h) /\ mail' = [mail EXCEPT ![t] = r]
    BY <1>1, <1>4 DEF TakeMessage
  <2>2. /\ inbox' \in Seq(Messages) /\ taken' \in Seq(Messages) /\ h \in Messages
        /\ taken' \o inbox' = taken \o inbox /\ Len(inbox') <= Len(inbox)
        /\ ToSet(taken) \subseteq ToSet(taken') /\ h \in ToSet(taken') \ ToSet(taken)
    BY <1>4, <2>1, FirstOfInbox
  <2> HIDE DEF h
  <2>3. CASE h.type \in handlers
    <3>1. r \in Mail /\ r.at = "handling" /\ r.message = h
      BY <1>1, <2>2, <2>3 DEF Mail
    <3> HIDE DEF r
    <3>2. /\ mail' \in [CommThreads -> Mail] /\ mail'[t] = r
          /\ \A u \in CommThreads : u # t => mail'[u] = mail[u]
          /\ Delivering' = Delivering \ {t} /\ Handling' = Handling \cup {t}
      <4>1. r.at # "delivering"
        BY <3>1
      <4> QED BY <1>1, <2>1, <3>1, <4>1, MailMoves
    <3>3. Delivering' = Delivering /\ \A u \in Delivering : mail'[u] = mail[u]
      BY <1>1, <3>2 DEF Delivering
    <3>4. \A u \in Handling : mail'[u] = mail[u]
      BY <1>1, <3>2 DEF Handling
    <3>5. \A v \in Handling' : \/ v \in Handling /\ mail'[v] = mail[v]
                               \/ /\ mail'[v].message \in ToSet(taken') \ ToSet(taken)
                                  /\ \A u \in Handling' : u # v => u \in Handling /\ mail'[u] = mail[u]
      BY <2>2, <3>1, <3>2, <3>4
    <3> QED BY <1>2, <2>2, <3>2, <3>3, <3>5, TakeKeeps
  <2>4. CASE h.type \notin handlers
    <3>1. r \in Mail /\ r.at \in {"idle", "dispatching"}
      <4>1. r = Onward(mail[t].left - 1)
        BY <2>4
      <4>2. mail[t].left - 1 \in Int
        BY <1>1
      <4> HIDE DEF r
      <4> QED BY <4>1, <4>2, DispatchesOn
    <3> HIDE DEF r
    <3>2. /\ mail' \in [CommThreads -> Mail]
          /\ \A u \in CommThreads : u # t => mail'[u] = mail[u]
          /\ Delivering' = Delivering \ {t} /\ Handling' = Handling \ {t}
      <4>1. r.at # "delivering" /\ r.at # "handling"
        BY <3>1
      <4> QED BY <1>1, <2>1, <3>1, <4>1, MailMoves
    <3>3. Delivering' = Delivering /\ \A u \in Delivering : mail'[u] = mail[u]
      BY <1>1, <3>2 DEF Delivering
    <3>4. \A u \in Handling' : u \in Handling /\ mail'[u] = mail[u]
      BY <1>1, <3>2 DEF Handling
    <3> QED BY <1>2, <2>2, <3>2, <3>3, <3>4, TakeKeeps
  <2> QED BY <2>3, <2>4
<1> QED BY <1>3, <1>4

\* A message that a handler was called with is out of the thread's hands
LEMMA HandleKeeps == ASSUME CommsInv, NEW t \in CommThreads, Handle(t) \/ HandlerThrows(t) PROVE CommsInv'
<1> DEFINE m == mail[t].message
<1>1. /\ mail \in [CommThreads -> Mail] /\ mail[t].left \in Int /\ handled \in Seq(Messages)
      /\ t \in Handling /\ t \notin Delivering /\ taken \in Seq(Messages)
  BY DEF CommsInv, MailTypeOK, Handle, HandlerThrows, Handling, Delivering, Mail
<1>2. /\ m \in ToSet(taken) \ ToSet(handled) /\ m \in Messages
      /\ \A u \in Handling : mail[u].message = m => u = t
  <2>1. ToSet(taken) \subseteq Messages
    BY <1>1, ElementsOf
  <2> QED BY <1>1, <2>1 DEF CommsInv, MailIsHandledOnce
<1>3. PICK r \in Mail : mail' = [mail EXCEPT ![t] = r] /\ r.at \in {"idle", "dispatching"}
  <2>1. Silent \in Mail /\ Silent.at = "idle"
    BY DEF Silent, Mail
  <2>2. Onward(mail[t].left - 1) \in Mail /\ Onward(mail[t].left - 1).at \in {"idle", "dispatching"}
    BY <1>1, DispatchesOn
  <2> QED BY <2>1, <2>2 DEF Handle, HandlerThrows
<1>4. /\ handled' = Append(handled, m)
      /\ UNCHANGED <<inbox, receivedCount, arrived, taken, posted>>
  BY DEF Handle, HandlerThrows
<1> HIDE DEF m
<1>5. /\ mail' \in [CommThreads -> Mail]
      /\ \A u \in CommThreads : u # t => mail'[u] = mail[u]
      /\ Delivering' = Delivering \ {t} /\ Handling' = Handling \ {t}
  <2>1. r.at # "delivering" /\ r.at # "handling"
    BY <1>3
  <2> QED BY <1>1, <1>3, <2>1, MailMoves
<1>6. Delivering' = Delivering /\ \A u \in Delivering : mail'[u] = mail[u]
  BY <1>1, <1>5 DEF Delivering
<1>7. \A u \in Handling' : u \in Handling /\ u # t /\ mail'[u] = mail[u]
  BY <1>1, <1>5 DEF Handling
<1>8. /\ handled' \in Seq(Messages) /\ ToSet(handled') = ToSet(handled) \cup {m} /\ IsInjective(handled')
  <2>1. IsInjective(handled)
    BY DEF CommsInv, MailIsHandledOnce
  <2> QED BY <1>1, <1>2, <1>4, <2>1, AppendOne
<1>9. MailTypeOK'
  BY <1>4, <1>5, <1>8 DEF CommsInv, MailTypeOK
<1>10. MailIsOnce'
  BY <1>4, <1>6 DEF CommsInv, MailIsOnce
<1>11. MailIsHandledOnce'
  <2>1. \A u \in Handling' : mail'[u].message \in ToSet(taken) \ ToSet(handled')
    BY <1>1, <1>2, <1>7, <1>8 DEF CommsInv, MailIsHandledOnce
  <2>2. ToSet(handled') \subseteq ToSet(taken)
    BY <1>2, <1>8 DEF CommsInv, MailIsHandledOnce
  <2>3. \A u, v \in Handling' : mail'[v].message = mail'[u].message => v = u
    BY <1>7 DEF CommsInv, MailIsHandledOnce
  <2> QED BY <1>4, <1>8, <2>1, <2>2, <2>3 DEF MailIsHandledOnce
<1>12. MailAddsUp'
  BY <1>4, <1>6 DEF CommsInv, MailAddsUp
<1> QED BY <1>9, <1>10, <1>11, <1>12 DEF CommsInv

LEMMA MailUnchanged ==
  ASSUME CommsInv, UNCHANGED <<inbox, receivedCount, mail, arrived, taken, handled, posted>>
  PROVE  CommsInv'
<1>1. Delivering' = Delivering /\ Handling' = Handling
  BY DEF Delivering, Handling
<1>2. MailTypeOK'
  BY DEF CommsInv, MailTypeOK
<1>3. MailIsOnce'
  BY <1>1 DEF CommsInv, MailIsOnce
<1>4. MailIsHandledOnce'
  BY <1>1 DEF CommsInv, MailIsHandledOnce
<1>5. MailAddsUp'
  BY <1>1 DEF CommsInv, MailAddsUp
<1> QED BY <1>2, <1>3, <1>4, <1>5 DEF CommsInv

LEMMA CommsStep == ASSUME CommsInv, [CommsNext]_commsVars PROVE CommsInv'
<1>1. mail \in [CommThreads -> Mail]
  BY DEF CommsInv, MailTypeOK
<1>2. ASSUME NEW t \in CommThreads, NEW type \in MessageTypes,
             Bring(t, type) \/ \E to \in Correspondents \cup {"self", "*"} : Send(t, type, to)
      PROVE  CommsInv'
  <2>1. /\ mail[t].at = "idle" /\ posted' = [posted EXCEPT !.made = @ + 1]
        /\ \/ mail' = mail
           \/ mail' = [mail EXCEPT ![t] = [Silent EXCEPT !.at = "delivering", !.message = Made(type)]]
        /\ UNCHANGED <<inbox, receivedCount, arrived, taken, handled>>
    BY <1>2 DEF Bring, Send
  <2> QED BY <2>1, PostKeeps
<1>3. ASSUME NEW t \in CommThreads, NEW n \in BatchSizes, BeginDispatch(t, n) PROVE CommsInv'
  <2> DEFINE r == [Silent EXCEPT !.at = "dispatching", !.left = n]
  <2>1. /\ mail' = [mail EXCEPT ![t] = r] /\ t \notin Delivering
        /\ UNCHANGED <<inbox, receivedCount, arrived, taken, handled, posted>>
    BY <1>3 DEF BeginDispatch, Delivering
  <2>2. r \in Mail /\ r.at \in {"idle", "dispatching"}
    <3>1. Silent \in Mail /\ n \in Int
      BY CommsAssumption DEF Silent, Mail
    <3> QED BY <3>1 DEF Mail
  <2> HIDE DEF r
  <2> QED BY <2>1, <2>2, IdleKeeps
<1>4. ASSUME NEW type, SetHandler(type) \/ ClearHandler(type) PROVE CommsInv'
  <2>1. UNCHANGED <<inbox, receivedCount, mail, arrived, taken, handled, posted>>
    BY <1>4 DEF SetHandler, ClearHandler
  <2> QED BY <2>1, MailUnchanged
<1>5. CASE UNCHANGED commsVars
  BY <1>5, MailUnchanged DEF commsVars
<1> QED BY <1>2, <1>3, <1>4, <1>5, DeliverKeeps, ReceiveKeeps, DispatchKeeps, HandleKeeps DEF CommsNext

LEMMA MessagesAreKeptThen == CommsInv => MessagesAreKept
<1> SUFFICES ASSUME CommsInv PROVE MessagesAreKept
  OBVIOUS
<1>1. Delivering = {t \in CommThreads : mail[t].at = "delivering"}
  BY DEF Delivering
<1>2. \A t, u \in CommThreads : mail[t].at = "handling" =>
        /\ mail[t].message \in ToSet(taken) \ ToSet(handled)
        /\ mail[u].at = "handling" /\ mail[u].message = mail[t].message => t = u
  BY DEF CommsInv, MailIsHandledOnce, Handling
<1> QED BY <1>1, <1>2 DEF CommsInv, MailAddsUp, MailIsOnce, MailIsHandledOnce, MessagesAreKept

(***************************************************************************)
(* Communication: conversations                                            *)
(***************************************************************************)
Turns == [by : {"user", "agent"}, message : Nat]
Talks == [active : BOOLEAN, turns : Seq(Turns), idle : BOOLEAN]

\* turns ends said
Ends(turns, said) ==
  /\ Len(turns) <= Len(said)
  /\ \A i \in 1..Len(turns) : turns[i] = said[i + (Len(said) - Len(turns))]
Replied(turns) ==
  \A i \in 1..Len(turns) : turns[i].by = "user" =>
    i < Len(turns) /\ turns[i + 1] = [turns[i] EXCEPT !.by = "agent"]

TalkOK(c) ==
  /\ conversations[c] \in Talks /\ saidIn[c] \in Seq(Turns)
  /\ Ends(conversations[c].turns, saidIn[c])
  /\ saidIn[c] # <<>> => conversations[c].turns # <<>>
  /\ Replied(conversations[c].turns)
DialogueInv ==
  /\ DOMAIN saidIn = DOMAIN conversations
  /\ maxTurns \in Nat \ {0} /\ utterances \in Nat
  /\ \A c \in DOMAIN conversations : TalkOK(c)

LEMMA EndsIsSuffix ==
  ASSUME NEW s \in Seq(Turns), NEW t \in Seq(Turns), Ends(s, t)
  PROVE  IsSuffix(s, t)
<1> DEFINE r == Reverse(s)
           q == Reverse(t)
<1>1. /\ Len(s) \in Nat /\ Len(t) \in Nat /\ Len(s) <= Len(t)
      /\ \A i \in 1..Len(s) : s[i] = t[i + (Len(t) - Len(s))]
  BY DEF Ends
<1>2. /\ r \in Seq(Turns) /\ q \in Seq(Turns) /\ Len(r) = Len(s) /\ Len(q) = Len(t)
      /\ \A i \in 1..Len(s) : r[i] = s[(Len(s) - i) + 1]
      /\ \A i \in 1..Len(t) : q[i] = t[(Len(t) - i) + 1]
  <2>1. r = [i \in 1..Len(s) |-> s[(Len(s) - i) + 1]] /\ q = [i \in 1..Len(t) |-> t[(Len(t) - i) + 1]]
    BY DEF Reverse
  <2>2. \A i \in 1..Len(s) : (Len(s) - i) + 1 \in 1..Len(s) /\ s[(Len(s) - i) + 1] \in Turns
    BY <1>1
  <2>3. \A i \in 1..Len(t) : (Len(t) - i) + 1 \in 1..Len(t) /\ t[(Len(t) - i) + 1] \in Turns
    BY <1>1
  <2>4. r \in [1..Len(s) -> Turns] /\ q \in [1..Len(t) -> Turns]
    BY <2>1, <2>2, <2>3
  <2> HIDE DEF r, q
  <2>5. r \in Seq(Turns) /\ q \in Seq(Turns) /\ Len(r) = Len(s) /\ Len(q) = Len(t)
    <3>1. ASSUME NEW n \in Nat, NEW f \in [1..n -> Turns] PROVE f \in Seq(Turns) /\ Len(f) = n
      OBVIOUS
    <3> QED BY <1>1, <2>4, <3>1
  <2> QED BY <2>1, <2>5
<1> HIDE DEF r, q
<1>3. \A i \in 1..Len(s) : r[i] = q[i]
  <2> SUFFICES ASSUME NEW i \in 1..Len(s) PROVE r[i] = q[i]
    OBVIOUS
  <2>1. /\ (Len(s) - i) + 1 \in 1..Len(s) /\ i \in 1..Len(t)
        /\ ((Len(s) - i) + 1) + (Len(t) - Len(s)) = (Len(t) - i) + 1
    BY <1>1
  <2>2. r[i] = s[(Len(s) - i) + 1] /\ q[i] = t[(Len(t) - i) + 1]
    BY <1>2, <2>1
  <2>3. s[(Len(s) - i) + 1] = t[((Len(s) - i) + 1) + (Len(t) - Len(s))]
    BY <1>1, <2>1
  <2> QED BY <2>1, <2>2, <2>3
<1>4. SubSeq(r, 1, Len(r)) = SubSeq(q, 1, Len(r))
  <2>1. SubSeq(r, 1, Len(r)) = [i \in 1..Len(r) |-> r[i]]
    BY <1>1, <1>2
  <2>2. SubSeq(q, 1, Len(r)) = [i \in 1..Len(r) |-> q[i]]
    BY <1>1, <1>2
  <2>3. [i \in 1..Len(r) |-> r[i]] = [i \in 1..Len(r) |-> q[i]]
    BY <1>2, <1>3
  <2> QED BY <2>1, <2>2, <2>3
<1>5. IsPrefix(r, q)
  BY <1>1, <1>2, <1>4 DEF IsPrefix
<1> QED BY <1>5 DEF IsSuffix, r, q

\* What is said next is said at the end of both
LEMMA SayNext ==
  ASSUME NEW s \in Seq(Turns), NEW t \in Seq(Turns), NEW new \in Seq(Turns),
         Ends(s, t), Replied(s), Replied(new)
  PROVE  /\ s \o new \in Seq(Turns) /\ t \o new \in Seq(Turns)
         /\ Ends(s \o new, t \o new) /\ Replied(s \o new)
         /\ Len(s \o new) = Len(s) + Len(new)
<1> DEFINE p == s \o new
           q == t \o new
<1>1. /\ p \in Seq(Turns) /\ Len(p) = Len(s) + Len(new)
      /\ \A i \in 1..Len(s) : p[i] = s[i]
      /\ \A i \in 1..Len(new) : p[i + Len(s)] = new[i]
  OBVIOUS
<1>2. /\ q \in Seq(Turns) /\ Len(q) = Len(t) + Len(new)
      /\ \A i \in 1..Len(t) : q[i] = t[i]
      /\ \A i \in 1..Len(new) : q[i + Len(t)] = new[i]
  OBVIOUS
<1>3. /\ Len(s) \in Nat /\ Len(t) \in Nat /\ Len(new) \in Nat /\ Len(s) <= Len(t)
      /\ \A i \in 1..Len(s) : s[i] = t[i + (Len(t) - Len(s))]
  BY DEF Ends
<1> HIDE DEF p, q
<1>4. \A i \in 1..Len(p) : \/ i \in 1..Len(s)
                           \/ i > Len(s) /\ i - Len(s) \in 1..Len(new) /\ p[i] = new[i - Len(s)]
  <2> SUFFICES ASSUME NEW i \in 1..Len(p), i \notin 1..Len(s)
               PROVE  i > Len(s) /\ i - Len(s) \in 1..Len(new) /\ p[i] = new[i - Len(s)]
    OBVIOUS
  <2>1. i > Len(s) /\ i - Len(s) \in 1..Len(new) /\ (i - Len(s)) + Len(s) = i
    BY <1>1, <1>3
  <2> QED BY <1>1, <2>1
<1>5. Ends(p, q)
  <2>1. Len(p) <= Len(q) /\ Len(q) - Len(p) = Len(t) - Len(s)
    BY <1>1, <1>2, <1>3
  <2>2. ASSUME NEW i \in 1..Len(s) PROVE p[i] = q[i + (Len(q) - Len(p))]
    <3>1. i + (Len(t) - Len(s)) \in 1..Len(t)
      BY <1>3
    <3>2. p[i] = s[i] /\ s[i] = t[i + (Len(t) - Len(s))]
      BY <1>1, <1>3
    <3>3. q[i + (Len(t) - Len(s))] = t[i + (Len(t) - Len(s))]
      BY <1>2, <3>1
    <3> QED BY <2>1, <3>2, <3>3
  <2>3. ASSUME NEW i \in 1..Len(p), i > Len(s), i - Len(s) \in 1..Len(new), p[i] = new[i - Len(s)]
        PROVE  p[i] = q[i + (Len(q) - Len(p))]
    <3>1. (i - Len(s)) + Len(t) = i + (Len(q) - Len(p))
      <4>1. i \in Int /\ Len(s) \in Nat /\ Len(t) \in Nat
        BY <1>1, <1>3
      <4>2. (i - Len(s)) + Len(t) = i + (Len(t) - Len(s))
        BY <4>1
      <4>3. Len(q) - Len(p) = Len(t) - Len(s)
        BY <2>1
      <4> QED BY <4>2, <4>3
    <3>2. q[(i - Len(s)) + Len(t)] = new[i - Len(s)]
      BY <1>2, <2>3
    <3> QED BY <2>3, <3>1, <3>2
  <2>4. \A i \in 1..Len(p) : p[i] = q[i + (Len(q) - Len(p))]
    BY <1>4, <2>2, <2>3
  <2> QED BY <2>1, <2>4 DEF Ends
<1>6. Replied(p)
  <2> SUFFICES ASSUME NEW i \in 1..Len(p), p[i].by = "user"
               PROVE  i < Len(p) /\ p[i + 1] = [p[i] EXCEPT !.by = "agent"]
    BY DEF Replied
  <2>1. CASE i \in 1..Len(s)
    <3>1. i < Len(s) /\ s[i + 1] = [s[i] EXCEPT !.by = "agent"]
      BY <1>1, <2>1 DEF Replied
    <3>2. i + 1 \in 1..Len(s) /\ i < Len(p)
      BY <1>1, <1>3, <2>1, <3>1
    <3> QED BY <1>1, <2>1, <3>1, <3>2
  <2>2. CASE i > Len(s) /\ i - Len(s) \in 1..Len(new) /\ p[i] = new[i - Len(s)]
    <3> DEFINE j == i - Len(s)
    <3>1. j < Len(new) /\ new[j + 1] = [new[j] EXCEPT !.by = "agent"]
      BY <2>2 DEF Replied
    <3>2. j + 1 \in 1..Len(new) /\ (j + 1) + Len(s) = i + 1 /\ i < Len(p)
      BY <1>1, <1>3, <2>2, <3>1
    <3>3. p[(j + 1) + Len(s)] = new[j + 1]
      BY <1>1, <3>2
    <3> QED BY <2>2, <3>1, <3>2, <3>3
  <2> QED BY <1>4, <2>1, <2>2
<1> QED BY <1>1, <1>2, <1>5, <1>6 DEF p, q

\* A history cut at its front still ends what was said, and has its replies
LEMMA TrimKeeps ==
  ASSUME NEW s \in Seq(Turns), s # <<>>, NEW t \in Seq(Turns), Ends(s, t), Replied(s),
         maxTurns \in Nat \ {0}
  PROVE  LET c == TrimHistory(s)
         IN c \in Seq(Turns) /\ c # <<>> /\ Ends(c, t) /\ Replied(c)
<1>1. CASE Len(s) <= maxTurns
  BY <1>1 DEF TrimHistory
<1>2. CASE ~(Len(s) <= maxTurns)
  <2> DEFINE k == Len(s) - maxTurns
             c == SubSeq(s, k + 1, Len(s))
  <2>1. k \in Nat \ {0} /\ Len(s) \in Nat /\ k < Len(s) /\ Len(s) - k = maxTurns
    BY <1>2
  <2> HIDE DEF k
  <2>2. /\ c \in Seq(Turns) /\ Len(c) = Len(s) - k
        /\ \A i \in 1..(Len(s) - k) : c[i] = s[k + i]
    <3>1. \A i \in 1..(Len(s) - k) : (k + 1) + i - 1 = k + i
      BY <2>1
    <3>2. k + 1 \in 1..Len(s) /\ Len(s) - (k + 1) + 1 = Len(s) - k
      BY <2>1
    <3>3. c \in Seq(Turns) /\ Len(c) = Len(s) - (k + 1) + 1
          /\ \A i \in 1..(Len(s) - (k + 1) + 1) : c[i] = s[(k + 1) + i - 1]
      BY <2>1, <3>2, SubSeqProperties
    <3> QED BY <3>1, <3>2, <3>3
  <2> HIDE DEF c
  <2>3. Ends(c, t)
    <3>1. /\ Len(s) <= Len(t) /\ Len(t) \in Nat
          /\ \A i \in 1..Len(s) : s[i] = t[i + (Len(t) - Len(s))]
      BY DEF Ends
    <3>2. Len(c) <= Len(t)
      BY <2>1, <2>2, <3>1
    <3>3. ASSUME NEW i \in 1..Len(c) PROVE c[i] = t[i + (Len(t) - Len(c))]
      <4>1. k + i \in 1..Len(s) /\ (k + i) + (Len(t) - Len(s)) = i + (Len(t) - Len(c)) /\ i \in 1..(Len(s) - k)
        BY <2>1, <2>2, <3>1
      <4>2. c[i] = s[k + i]
        BY <2>2, <4>1
      <4>3. s[k + i] = t[(k + i) + (Len(t) - Len(s))]
        BY <3>1, <4>1
      <4> QED BY <4>1, <4>2, <4>3
    <3> QED BY <3>2, <3>3 DEF Ends
  <2>4. Replied(c)
    <3> SUFFICES ASSUME NEW i \in 1..Len(c), c[i].by = "user"
                 PROVE  i < Len(c) /\ c[i + 1] = [c[i] EXCEPT !.by = "agent"]
      BY DEF Replied
    <3>1. k + i \in 1..Len(s) /\ i \in 1..(Len(s) - k)
      BY <2>1, <2>2
    <3>2. c[i] = s[k + i]
      BY <2>2, <3>1
    <3>3. k + i < Len(s) /\ s[(k + i) + 1] = [s[k + i] EXCEPT !.by = "agent"]
      BY <3>1, <3>2 DEF Replied
    <3>4. i + 1 \in 1..(Len(s) - k) /\ k + (i + 1) = (k + i) + 1 /\ i < Len(c)
      BY <2>1, <2>2, <3>1, <3>3
    <3>5. c[i + 1] = s[k + (i + 1)]
      BY <2>2, <3>4
    <3> QED BY <3>2, <3>3, <3>4, <3>5
  <2>5. c # <<>>
    BY <2>1, <2>2
  <2>6. TrimHistory(s) = c
    BY <1>2 DEF TrimHistory, c, k
  <2> QED BY <2>2, <2>3, <2>4, <2>5, <2>6
<1> QED BY <1>1, <1>2


\* One conversation changes, or begins, and its turns with it
LEMMA OneTalk ==
  ASSUME DialogueInv, NEW c, DOMAIN conversations' = DOMAIN conversations \cup {c},
         DOMAIN saidIn' = DOMAIN saidIn \cup {c},
         \A d \in DOMAIN conversations : d # c => conversations'[d] = conversations[d] /\ saidIn'[d] = saidIn[d],
         TalkOK(c)', maxTurns' = maxTurns, utterances' \in Nat
  PROVE  DialogueInv'
<1>1. \A d \in DOMAIN conversations' : d # c => TalkOK(d)'
  BY DEF DialogueInv, TalkOK
<1> QED BY <1>1 DEF DialogueInv

\* Conversations change in whether they are active or idle only
LEMMA SameTurns ==
  ASSUME DialogueInv, DOMAIN conversations' = DOMAIN conversations, saidIn' = saidIn,
         \A d \in DOMAIN conversations : /\ conversations'[d] \in Talks
                                         /\ conversations'[d].turns = conversations[d].turns,
         maxTurns' \in Nat \ {0}, utterances' = utterances
  PROVE  DialogueInv'
<1>1. \A d \in DOMAIN conversations' : TalkOK(d)'
  BY DEF DialogueInv, TalkOK
<1> QED BY <1>1 DEF DialogueInv

\* What a turn adds to a conversation, whether or not it was there before
LEMMA AddKeeps ==
  ASSUME DialogueInv, NEW c, NEW new \in Seq(Turns), new # <<>>, Replied(new), NEW map,
         (map = conversations /\ c \in DOMAIN conversations) \/ map = GetOrCreate(c),
         map[c].active, AddTurns(map, c, new), maxTurns' = maxTurns
  PROVE  /\ DialogueInv'
         /\ DOMAIN conversations' = DOMAIN conversations \cup {c} /\ conversations'[c].active
         /\ \A d \in DOMAIN conversations : d # c => conversations'[d] = conversations[d] /\ saidIn'[d] = saidIn[d]
         /\ saidIn'[c] = (IF c \in DOMAIN saidIn THEN saidIn[c] ELSE <<>>) \o new
<1> DEFINE said == IF c \in DOMAIN saidIn THEN saidIn[c] ELSE <<>>
           old == map[c]
           turns == old.turns \o new
           talk == [old EXCEPT !.turns = TrimHistory(turns), !.idle = FALSE]
<1>1. /\ DOMAIN map = DOMAIN conversations \cup {c} /\ old \in Talks /\ said \in Seq(Turns)
      /\ \A d \in DOMAIN conversations : d # c => map[d] = conversations[d]
      /\ Ends(old.turns, said) /\ Replied(old.turns)
  <2>1. CASE c \in DOMAIN conversations
    <3>1. map = conversations /\ said = saidIn[c] /\ TalkOK(c)
      BY <2>1 DEF GetOrCreate, DialogueInv
    <3> QED BY <2>1, <3>1 DEF TalkOK
  <2>2. CASE c \notin DOMAIN conversations
    <3>1. map = With(conversations, c, NewConversation) /\ said = <<>>
      BY <2>2 DEF GetOrCreate, DialogueInv
    <3>2. /\ DOMAIN map = DOMAIN conversations \cup {c} /\ old = NewConversation
          /\ \A d \in DOMAIN conversations : d # c => map[d] = conversations[d]
      BY <2>2, <3>1 DEF With
    <3>3. NewConversation \in Talks /\ NewConversation.turns = <<>>
      BY DEF NewConversation, Talks
    <3>4. Ends(<<>>, <<>>)
      BY DEF Ends
    <3>5. Replied(<<>>)
      BY DEF Replied
    <3>6. old \in Talks /\ old.turns = <<>>
      BY <3>2, <3>3
    <3>7. Ends(old.turns, said) /\ Replied(old.turns)
      BY <3>1, <3>4, <3>5, <3>6
    <3>8. said \in Seq(Turns)
      <4>1. said = <<>>
        BY <3>1
      <4>2. <<>> \in Seq(Turns)
        OBVIOUS
      <4> HIDE DEF said
      <4> QED BY <4>1, <4>2
    <3> QED BY <3>2, <3>6, <3>7, <3>8
  <2> QED BY <2>1, <2>2
<1>2. /\ conversations' = [map EXCEPT ![c].turns = TrimHistory(@ \o new), ![c].idle = FALSE]
      /\ saidIn' = With(saidIn, c, said \o new) /\ utterances' = utterances + 1
  BY DEF AddTurns
<1>3. /\ old.turns \in Seq(Turns) /\ maxTurns \in Nat \ {0} /\ utterances \in Nat
      /\ DOMAIN saidIn = DOMAIN conversations
  BY <1>1 DEF Talks, DialogueInv
<1> HIDE DEF said
<1>4. /\ turns \in Seq(Turns) /\ said \o new \in Seq(Turns)
      /\ Ends(turns, said \o new) /\ Replied(turns) /\ turns # <<>>
  <2>1. /\ turns \in Seq(Turns) /\ said \o new \in Seq(Turns) /\ Len(turns) = Len(old.turns) + Len(new)
        /\ Ends(turns, said \o new) /\ Replied(turns)
    BY <1>1, <1>3, SayNext
  <2>2. Len(old.turns) \in Nat /\ Len(new) \in Nat \ {0}
    BY <1>3
  <2>3. turns # <<>>
    <3> HIDE DEF turns
    <3> QED BY <2>1, <2>2
  <2> QED BY <2>1, <2>3
<1> HIDE DEF turns
<1>5. /\ TrimHistory(turns) \in Seq(Turns) /\ TrimHistory(turns) # <<>>
      /\ Ends(TrimHistory(turns), said \o new) /\ Replied(TrimHistory(turns))
  BY <1>3, <1>4, TrimKeeps
<1>6. /\ talk \in Talks /\ talk.turns = TrimHistory(turns) /\ talk.active
  BY <1>1, <1>5 DEF Talks
<1>7. /\ DOMAIN conversations' = DOMAIN conversations \cup {c} /\ conversations'[c] = talk
      /\ \A d \in DOMAIN conversations : d # c => conversations'[d] = conversations[d]
  <2>1. conversations' = [map EXCEPT ![c] = talk]
    BY <1>2 DEF turns
  <2> HIDE DEF talk
  <2> QED BY <1>1, <2>1
<1>8. /\ DOMAIN saidIn' = DOMAIN saidIn \cup {c} /\ saidIn'[c] = said \o new
      /\ \A d \in DOMAIN conversations : d # c => saidIn'[d] = saidIn[d]
  BY <1>2, <1>3 DEF With
<1> HIDE DEF talk
<1>9. TalkOK(c)'
  <2> DEFINE now == TrimHistory(turns)
             all == said \o new
  <2>1. conversations'[c].turns = now /\ conversations'[c] \in Talks /\ saidIn'[c] = all
    BY <1>6, <1>7, <1>8
  <2>2. now # <<>> /\ Ends(now, all) /\ Replied(now) /\ all \in Seq(Turns)
    BY <1>4, <1>5
  <2> HIDE DEF now, all
  <2>3. conversations'[c].turns # <<>> /\ saidIn'[c] \in Seq(Turns) /\ conversations'[c] \in Talks
    BY <2>1, <2>2
  <2>4. Ends(conversations'[c].turns, saidIn'[c])
    BY <2>1, <2>2
  <2>5. Replied(conversations'[c].turns)
    BY <2>1, <2>2
  <2> QED BY <2>3, <2>4, <2>5 DEF TalkOK
<1>10. DialogueInv'
  <2>1. DOMAIN conversations' = DOMAIN conversations \cup {c} /\ DOMAIN saidIn' = DOMAIN saidIn \cup {c}
    BY <1>7, <1>8
  <2>2. \A d \in DOMAIN conversations : d # c => conversations'[d] = conversations[d] /\ saidIn'[d] = saidIn[d]
    BY <1>3, <1>7, <1>8
  <2>3. utterances' \in Nat
    BY <1>2, <1>3
  <2> QED BY <1>9, <2>1, <2>2, <2>3, OneTalk
<1> QED BY <1>6, <1>7, <1>8, <1>10 DEF said

\* The two turns of a message, and the one of an agent that speaks first
LEMMA TurnsSaid ==
  ASSUME utterances \in Nat
  PROVE  /\ Turn("user") \in Turns /\ Turn("agent") \in Turns
         /\ Turn("user").by = "user" /\ Turn("agent").by = "agent"
         /\ <<Turn("user"), Turn("agent")>> \in Seq(Turns) /\ Replied(<<Turn("user"), Turn("agent")>>)
         /\ <<Turn("agent")>> \in Seq(Turns) /\ Replied(<<Turn("agent")>>)
<1>1. /\ Turn("user") \in Turns /\ Turn("agent") \in Turns
      /\ Turn("user").by = "user" /\ Turn("agent").by = "agent"
      /\ Turn("agent") = [Turn("user") EXCEPT !.by = "agent"]
  BY DEF Turn, Turns
<1>2. ASSUME NEW u \in Turns, NEW a \in Turns, u.by = "user", a.by = "agent", a = [u EXCEPT !.by = "agent"]
      PROVE  <<u, a>> \in Seq(Turns) /\ Replied(<<u, a>>)
  <2>1. /\ <<u, a>> \in Seq(Turns) /\ Len(<<u, a>>) = 2 /\ <<u, a>>[1] = u /\ <<u, a>>[2] = a
    OBVIOUS
  <2> DEFINE t == <<u, a>>
  <2>2. t[2] = [t[1] EXCEPT !.by = "agent"] /\ t[2].by = "agent" /\ Len(t) = 2
    <3>1. t[1] = u /\ t[2] = a /\ Len(t) = 2
      BY <2>1
    <3> HIDE DEF t
    <3> QED BY <1>2, <3>1
  <2> HIDE DEF t
  <2>3. ASSUME NEW i \in 1..Len(t), t[i].by = "user"
        PROVE  i < Len(t) /\ t[i + 1] = [t[i] EXCEPT !.by = "agent"]
    <3>1. i = 1 \/ i = 2
      BY <2>2
    <3>2. i = 1
      BY <2>2, <2>3, <3>1
    <3>3. i + 1 = 2 /\ i < Len(t)
      BY <2>2, <3>2
    <3> QED BY <2>2, <3>2, <3>3
  <2>4. Replied(t)
    BY <2>3 DEF Replied
  <2> QED BY <2>1, <2>4 DEF t
<1>3. ASSUME NEW a \in Turns, a.by = "agent"
      PROVE  <<a>> \in Seq(Turns) /\ Replied(<<a>>)
  BY <1>3 DEF Replied
<1> QED BY <1>1, <1>2, <1>3

(***************************************************************************)
(* What is said by users                                                   *)
(***************************************************************************)
SaidBy(q) == {i \in DOMAIN q : q[i].by = "user"}

LEMMA UserTurnsAre == \A c : /\ UserTurns(c) = Cardinality(SaidBy(saidIn[c]))
                             /\ UserTurns(c)' = Cardinality(SaidBy(saidIn'[c]))
<1>1. \A c : UserTurns(c) = Cardinality(SaidBy(saidIn[c]))
  BY DEF UserTurns, SaidBy
<1>2. \A c : UserTurns(c)' = Cardinality(SaidBy(saidIn'[c]))
  BY DEF UserTurns, SaidBy
<1> QED BY <1>1, <1>2

LEMMA SaidIsFinite ==
  ASSUME NEW q \in Seq(Turns)
  PROVE  IsFiniteSet(SaidBy(q)) /\ Cardinality(SaidBy(q)) \in Nat
<1>1. SaidBy(q) \subseteq 1..Len(q) /\ Len(q) \in Nat
  BY DEF SaidBy
<1>2. IsFiniteSet(1..Len(q))
  BY <1>1, FS_Interval
<1>3. IsFiniteSet(SaidBy(q))
  BY <1>1, <1>2, FS_Subset
<1> QED BY <1>3, FS_CardinalityType

LEMMA NothingSaid == Cardinality(SaidBy(<<>>)) = 0
<1>1. SaidBy(<<>>) = {}
  BY DEF SaidBy
<1> QED BY <1>1, FS_EmptySet

LEMMA AgentSays ==
  ASSUME NEW q \in Seq(Turns), NEW a \in Turns, a.by = "agent"
  PROVE  SaidBy(q \o <<a>>) = SaidBy(q)
<1> DEFINE r == q \o <<a>>
<1>1. /\ Len(q) \in Nat /\ DOMAIN q = 1..Len(q) /\ DOMAIN r = 1..(Len(q) + 1)
      /\ r[Len(q) + 1] = a /\ \A i \in 1..Len(q) : r[i] = q[i]
  OBVIOUS
<1> HIDE DEF r
<1>2. \A i \in 1..(Len(q) + 1) : i \in 1..Len(q) \/ i = Len(q) + 1
  BY <1>1
<1>3. a.by # "user"
  OBVIOUS
<1>4. SaidBy(r) = SaidBy(q)
  <2>1. ASSUME NEW i \in SaidBy(r) PROVE i \in SaidBy(q)
    BY <1>1, <1>2, <1>3 DEF SaidBy
  <2>2. ASSUME NEW i \in SaidBy(q) PROVE i \in SaidBy(r)
    <3>1. i \in 1..Len(q) /\ i \in 1..(Len(q) + 1)
      BY <1>1 DEF SaidBy
    <3> QED BY <1>1, <3>1 DEF SaidBy
  <2> QED BY <2>1, <2>2
<1> QED BY <1>4 DEF r

LEMMA BothSay ==
  ASSUME NEW q \in Seq(Turns), NEW u \in Turns, u.by = "user", NEW a \in Turns, a.by = "agent"
  PROVE  Cardinality(SaidBy(q \o <<u, a>>)) = Cardinality(SaidBy(q)) + 1
<1> DEFINE r == q \o <<u, a>>
           n == Len(q) + 1
<1>1. /\ Len(q) \in Nat /\ DOMAIN q = 1..Len(q) /\ DOMAIN r = 1..(Len(q) + 2)
      /\ r[Len(q) + 1] = u /\ r[Len(q) + 2] = a /\ \A i \in 1..Len(q) : r[i] = q[i]
  OBVIOUS
<1> HIDE DEF r
<1>2. \A i \in 1..(Len(q) + 2) : i \in 1..Len(q) \/ i = Len(q) + 1 \/ i = Len(q) + 2
  BY <1>1
<1>3. a.by # "user"
  OBVIOUS
<1>4. SaidBy(r) = SaidBy(q) \cup {n}
  <2>1. ASSUME NEW i \in SaidBy(r) PROVE i \in SaidBy(q) \cup {n}
    BY <1>1, <1>2, <1>3 DEF SaidBy
  <2>2. ASSUME NEW i \in SaidBy(q) PROVE i \in SaidBy(r)
    <3>1. i \in 1..Len(q) /\ i \in 1..(Len(q) + 2)
      BY <1>1 DEF SaidBy
    <3> QED BY <1>1, <3>1 DEF SaidBy
  <2>3. n \in SaidBy(r)
    <3>1. n \in 1..(Len(q) + 2)
      BY <1>1
    <3> QED BY <1>1, <3>1 DEF SaidBy
  <2> QED BY <2>1, <2>2, <2>3
<1>5. n \notin SaidBy(q)
  BY <1>1 DEF SaidBy
<1>6. Cardinality(SaidBy(q) \cup {n}) = Cardinality(SaidBy(q)) + 1
  BY <1>5, SaidIsFinite, FS_AddElement
<1> QED BY <1>4, <1>6 DEF r

(***************************************************************************)
(* Communication: what an operation on conversations does to the others    *)
(***************************************************************************)
\* Only one conversation may have changed
Apart(c) ==
  /\ DOMAIN conversations \subseteq DOMAIN conversations'
  /\ \A d \in DOMAIN conversations : d # c =>
       /\ conversations'[d] = conversations[d] /\ saidIn'[d] = saidIn[d]
       /\ d \in timedOut' <=> d \in timedOut

\* Conversations that nobody ends but a timeout, and no user speaks in
Spared(S) ==
  \A s \in S \cap DOMAIN conversations :
    /\ s \in DOMAIN conversations' /\ UserTurns(s)' = UserTurns(s)
    /\ conversations'[s].active => conversations[s].active
    /\ conversations[s].active \/ s \in timedOut => conversations'[s].active \/ s \in timedOut'

LEMMA ApartSpares ==
  ASSUME NEW c, NEW S, c \notin S, Apart(c)
  PROVE  Spared(S)
BY UserTurnsAre DEF Apart, Spared

LEMMA NewTalk == NewConversation \in Talks /\ NewConversation.turns = <<>> /\ NewConversation.active
BY DEF NewConversation, Talks

LEMMA StartKeeps ==
  ASSUME DialogueInv, NEW c, StartConversation(c)
  PROVE  /\ DialogueInv' /\ Apart(c) /\ DOMAIN conversations' = DOMAIN conversations \cup {c}
         /\ c \notin DOMAIN conversations => conversations'[c].active /\ UserTurns(c)' = 0
<1>1. DOMAIN saidIn = DOMAIN conversations /\ utterances \in Nat
  BY DEF DialogueInv
<1>2. CASE c \in ActiveConversations
  <2>1. UNCHANGED <<conversations, maxTurns, saidIn, timedOut, utterances>> /\ c \in DOMAIN conversations
    BY <1>2 DEF StartConversation, dialogueVars, ActiveConversations
  <2>2. \A d \in DOMAIN conversations : TalkOK(d)'
    BY <2>1 DEF DialogueInv, TalkOK
  <2> QED BY <2>1, <2>2 DEF DialogueInv, Apart
<1>3. CASE c \notin ActiveConversations
  <2>1. /\ conversations' = With(conversations, c, NewConversation) /\ saidIn' = With(saidIn, c, <<>>)
        /\ timedOut' = timedOut \ {c} /\ maxTurns' = maxTurns /\ utterances' = utterances
    BY <1>3 DEF StartConversation
  <2>2. /\ DOMAIN conversations' = DOMAIN conversations \cup {c} /\ DOMAIN saidIn' = DOMAIN saidIn \cup {c}
        /\ conversations'[c] = NewConversation /\ saidIn'[c] = <<>>
        /\ \A d \in DOMAIN conversations : d # c => conversations'[d] = conversations[d] /\ saidIn'[d] = saidIn[d]
    BY <1>1, <2>1 DEF With
  <2>3. TalkOK(c)'
    <3>1. conversations'[c] \in Talks /\ conversations'[c].turns = <<>>
      BY <2>2, NewTalk
    <3>2. saidIn'[c] \in Seq(Turns)
      BY <2>2
    <3>3. Ends(<<>>, <<>>)
      BY DEF Ends
    <3>4. Replied(<<>>)
      BY DEF Replied
    <3>5. Ends(conversations'[c].turns, saidIn'[c]) /\ Replied(conversations'[c].turns)
      BY <2>2, <3>1, <3>3, <3>4
    <3> QED BY <2>2, <3>1, <3>2, <3>5 DEF TalkOK
  <2>4. DialogueInv'
    BY <1>1, <2>1, <2>2, <2>3, OneTalk
  <2>5. Apart(c)
    BY <2>1, <2>2 DEF Apart
  <2>6. conversations'[c].active
    BY <2>2, NewTalk
  <2>7. UserTurns(c)' = 0
    BY <2>2, UserTurnsAre, NothingSaid
  <2> QED BY <2>2, <2>4, <2>5, <2>6, <2>7
<1> QED BY <1>2, <1>3

LEMMA EndKeeps ==
  ASSUME DialogueInv, NEW c, EndConversation(c)
  PROVE  /\ DialogueInv' /\ Apart(c) /\ DOMAIN conversations' = DOMAIN conversations
         /\ saidIn' = saidIn /\ timedOut' = timedOut
         /\ c \in DOMAIN conversations => ~conversations'[c].active
<1>1. UNCHANGED <<maxTurns, saidIn, timedOut, utterances>>
  BY DEF EndConversation
<1>2. /\ DOMAIN conversations' = DOMAIN conversations
      /\ \A d \in DOMAIN conversations : d # c => conversations'[d] = conversations[d]
      /\ c \in DOMAIN conversations => conversations'[c] = [conversations[c] EXCEPT !.active = FALSE]
  BY DEF EndConversation
<1>3. \A d \in DOMAIN conversations : conversations[d] \in Talks
  BY DEF DialogueInv, TalkOK
<1>4. c \in DOMAIN conversations =>
        /\ conversations'[c] \in Talks /\ conversations'[c].turns = conversations[c].turns
        /\ ~conversations'[c].active
  BY <1>2, <1>3 DEF Talks
<1>5. DialogueInv'
  <2>1. maxTurns' \in Nat \ {0}
    BY <1>1 DEF DialogueInv
  <2>2. \A d \in DOMAIN conversations : /\ conversations'[d] \in Talks
                                        /\ conversations'[d].turns = conversations[d].turns
    BY <1>2, <1>3, <1>4
  <2> QED BY <1>1, <1>2, <2>1, <2>2, SameTurns
<1> QED BY <1>1, <1>2, <1>4, <1>5 DEF Apart

LEMMA ProcessKeeps ==
  ASSUME DialogueInv, NEW c, ProcessMessage(c)
  PROVE  /\ DialogueInv' /\ Apart(c) /\ DOMAIN conversations' = DOMAIN conversations \cup {c}
         /\ timedOut' = timedOut
         /\ c \in DOMAIN conversations =>
              /\ conversations'[c].active = conversations[c].active
              /\ UserTurns(c)' = IF conversations[c].active THEN UserTurns(c) + 1 ELSE UserTurns(c)
<1> DEFINE map == GetOrCreate(c)
           new == <<Turn("user"), Turn("agent")>>
<1>1. maxTurns' = maxTurns /\ timedOut' = timedOut
  BY DEF ProcessMessage
<1>2. /\ DOMAIN saidIn = DOMAIN conversations /\ utterances \in Nat
      /\ \A d \in DOMAIN conversations : conversations[d] \in Talks /\ saidIn[d] \in Seq(Turns)
  BY DEF DialogueInv, TalkOK
<1>3. /\ new \in Seq(Turns) /\ Replied(new)
      /\ Turn("user") \in Turns /\ Turn("agent") \in Turns
      /\ Turn("user").by = "user" /\ Turn("agent").by = "agent"
  BY <1>2, TurnsSaid
<1>4. new # <<>>
  OBVIOUS
<1>5. c \in DOMAIN conversations => map = conversations
  BY DEF GetOrCreate
<1>6. c \notin DOMAIN conversations => map[c] = NewConversation
  BY DEF GetOrCreate, With
<1>7. CASE map[c].active
  <2>1. AddTurns(map, c, new)
    BY <1>7 DEF ProcessMessage
  <2> HIDE DEF new, map
  <2>2. /\ DialogueInv'
        /\ DOMAIN conversations' = DOMAIN conversations \cup {c} /\ conversations'[c].active
        /\ \A d \in DOMAIN conversations : d # c => conversations'[d] = conversations[d] /\ saidIn'[d] = saidIn[d]
        /\ saidIn'[c] = (IF c \in DOMAIN saidIn THEN saidIn[c] ELSE <<>>) \o new
    <3>1. map = GetOrCreate(c)
      BY DEF map
    <3> QED BY <1>1, <1>3, <1>4, <1>7, <2>1, <3>1, AddKeeps
  <2>3. c \in DOMAIN conversations =>
          /\ conversations[c].active /\ saidIn'[c] = saidIn[c] \o new /\ saidIn[c] \in Seq(Turns)
    BY <1>2, <1>5, <1>7, <2>2
  <2>4. c \in DOMAIN conversations => UserTurns(c)' = UserTurns(c) + 1
    <3> SUFFICES ASSUME c \in DOMAIN conversations PROVE UserTurns(c)' = UserTurns(c) + 1
      OBVIOUS
    <3>1. Cardinality(SaidBy(saidIn[c] \o new)) = Cardinality(SaidBy(saidIn[c])) + 1
      BY <1>3, <2>3, BothSay DEF new
    <3> QED BY <2>3, <3>1, UserTurnsAre
  <2>5. Apart(c)
    BY <1>1, <2>2 DEF Apart
  <2>6. c \in DOMAIN conversations => conversations[c] \in Talks /\ conversations'[c] \in Talks
    BY <1>2, <2>2 DEF DialogueInv, TalkOK
  <2> QED BY <1>1, <2>2, <2>3, <2>4, <2>5, <2>6 DEF Talks
<1>8. CASE ~map[c].active
  <2>1. UNCHANGED <<conversations, saidIn, utterances>>
    BY <1>8 DEF ProcessMessage
  <2>2. c \in DOMAIN conversations
    BY <1>6, <1>8, NewTalk
  <2>3. DialogueInv'
    <3>1. maxTurns' \in Nat \ {0}
      BY <1>1 DEF DialogueInv
    <3> QED BY <1>2, <2>1, <3>1, SameTurns
  <2>4. ~conversations[c].active
    BY <1>5, <1>8, <2>2
  <2>5. UserTurns(c)' = UserTurns(c)
    BY <2>1, UserTurnsAre
  <2>6. Apart(c)
    BY <1>1, <2>1 DEF Apart
  <2> QED BY <1>1, <2>1, <2>2, <2>3, <2>4, <2>5, <2>6
<1> QED BY <1>7, <1>8

\* The manager's callers: every conversation keeps its turns, and those of S are spared
LEMMA DialogueKeeps ==
  ASSUME DialogueInv, DialogueStep, NEW S, S \cap OwnConversations = {}
  PROVE  /\ DialogueInv' /\ Spared(S)
         /\ DOMAIN conversations \subseteq DOMAIN conversations'
         /\ DOMAIN conversations' \subseteq DOMAIN conversations \cup OwnConversations
<1>1. /\ DOMAIN saidIn = DOMAIN conversations /\ utterances \in Nat /\ maxTurns \in Nat \ {0}
      /\ \A d \in DOMAIN conversations : conversations[d] \in Talks /\ saidIn[d] \in Seq(Turns)
  BY DEF DialogueInv, TalkOK
<1>2. ASSUME NEW c \in DOMAIN conversations, SpeakFirst(c)
      PROVE  DialogueInv' /\ Spared(S) /\ DOMAIN conversations' = DOMAIN conversations
  <2> DEFINE new == <<Turn("agent")>>
  <2>1. /\ conversations[c].active /\ AddTurns(conversations, c, new)
        /\ maxTurns' = maxTurns /\ timedOut' = timedOut
    BY <1>2 DEF SpeakFirst, ActiveConversations
  <2>2. new \in Seq(Turns) /\ Replied(new) /\ Turn("agent") \in Turns /\ Turn("agent").by = "agent"
    BY <1>1, TurnsSaid
  <2>3. new # <<>>
    OBVIOUS
  <2> HIDE DEF new
  <2>4. /\ DialogueInv'
        /\ DOMAIN conversations' = DOMAIN conversations \cup {c} /\ conversations'[c].active
        /\ \A d \in DOMAIN conversations : d # c => conversations'[d] = conversations[d] /\ saidIn'[d] = saidIn[d]
        /\ saidIn'[c] = (IF c \in DOMAIN saidIn THEN saidIn[c] ELSE <<>>) \o new
    BY <2>1, <2>2, <2>3, AddKeeps
  <2>5. UserTurns(c)' = UserTurns(c)
    <3>1. saidIn'[c] = saidIn[c] \o new /\ saidIn[c] \in Seq(Turns)
      BY <1>1, <2>4
    <3>2. SaidBy(saidIn[c] \o new) = SaidBy(saidIn[c])
      BY <2>2, <3>1, AgentSays DEF new
    <3> QED BY <3>1, <3>2, UserTurnsAre
  <2>6. \A s \in DOMAIN conversations : UserTurns(s)' = UserTurns(s)
    BY <2>4, <2>5, UserTurnsAre
  <2>7. \A s \in DOMAIN conversations : conversations'[s].active = conversations[s].active
    <3>1. \A s \in DOMAIN conversations' : conversations'[s] \in Talks
      BY <2>4 DEF DialogueInv, TalkOK
    <3> QED BY <1>1, <2>1, <2>4, <3>1 DEF Talks
  <2>8. Spared(S)
    BY <2>1, <2>4, <2>6, <2>7 DEF Spared
  <2>9. DOMAIN conversations' = DOMAIN conversations
    BY <2>4
  <2> QED BY <2>4, <2>8, <2>9
\* Nothing is said, and conversations end by a timeout only
<1>3. ASSUME DOMAIN conversations' = DOMAIN conversations, saidIn' = saidIn, utterances' = utterances,
             maxTurns' \in Nat \ {0}, timedOut \subseteq timedOut',
             \A d \in DOMAIN conversations :
               /\ conversations'[d] \in Talks /\ conversations'[d].turns = conversations[d].turns
               /\ conversations'[d].active => conversations[d].active
               /\ conversations[d].active => conversations'[d].active \/ d \in timedOut'
      PROVE  DialogueInv' /\ Spared(S) /\ DOMAIN conversations' = DOMAIN conversations
  <2>1. DialogueInv'
    BY <1>3, SameTurns
  <2>2. Spared(S)
    BY <1>3, UserTurnsAre DEF Spared
  <2> QED BY <1>3, <2>1, <2>2
<1>4. ASSUME NEW c \in DOMAIN conversations, NEW b \in BOOLEAN,
             conversations' = [conversations EXCEPT ![c].idle = b],
             UNCHANGED <<maxTurns, saidIn, timedOut, utterances>>
      PROVE  DialogueInv' /\ Spared(S) /\ DOMAIN conversations' = DOMAIN conversations
  <2>1. /\ DOMAIN conversations' = DOMAIN conversations
        /\ \A d \in DOMAIN conversations : d # c => conversations'[d] = conversations[d]
        /\ conversations'[c] = [conversations[c] EXCEPT !.idle = b]
    BY <1>4
  <2>2. /\ conversations'[c] \in Talks /\ conversations'[c].turns = conversations[c].turns
        /\ conversations'[c].active = conversations[c].active
    BY <1>1, <1>4, <2>1 DEF Talks
  <2> QED BY <1>1, <1>3, <1>4, <2>1, <2>2
<1>5. ASSUME NEW c \in DOMAIN conversations, TouchConversation(c) \/ FallsIdle(c)
      PROVE  DialogueInv' /\ Spared(S) /\ DOMAIN conversations' = DOMAIN conversations
  BY <1>4, <1>5 DEF TouchConversation, FallsIdle
<1>6. ASSUME NEW n \in HistoryLimits, SetMaxHistory(n)
      PROVE  DialogueInv' /\ Spared(S) /\ DOMAIN conversations' = DOMAIN conversations
  <2>1. maxTurns' \in Nat \ {0}
    <3>1. n \in Nat
      BY DialogueAssumption
    <3>2. \E x \in {1, n} : \A y \in {1, n} : x >= y
      <4>1. CASE n >= 1
        BY <3>1, <4>1
      <4>2. CASE ~(n >= 1)
        BY <3>1, <4>2
      <4> QED BY <4>1, <4>2
    <3>3. Max({1, n}) \in {1, n} /\ Max({1, n}) >= 1
      BY <3>2 DEF Max
    <3> QED BY <1>6, <3>1, <3>3 DEF SetMaxHistory
  <2>2. UNCHANGED <<conversations, saidIn, timedOut, utterances>>
    BY <1>6 DEF SetMaxHistory
  <2> QED BY <1>1, <1>3, <2>1, <2>2
<1>7. ASSUME LengthenTimeout
      PROVE  DialogueInv' /\ Spared(S) /\ DOMAIN conversations' = DOMAIN conversations
  <2>1. /\ conversations' = [c \in DOMAIN conversations |-> [conversations[c] EXCEPT !.idle = FALSE]]
        /\ UNCHANGED <<maxTurns, saidIn, timedOut, utterances>>
    BY <1>7 DEF LengthenTimeout
  <2>2. \A d \in DOMAIN conversations :
               /\ conversations'[d] \in Talks /\ conversations'[d].turns = conversations[d].turns
               /\ conversations'[d].active = conversations[d].active
    BY <1>1, <2>1 DEF Talks
  <2> QED BY <1>1, <1>3, <2>1, <2>2
<1>8. ASSUME CleanupInactiveConversations
      PROVE  DialogueInv' /\ Spared(S) /\ DOMAIN conversations' = DOMAIN conversations
  <2> DEFINE late == {c \in ActiveConversations : conversations[c].idle}
  <2>1. /\ conversations' = [c \in DOMAIN conversations |->
                               [conversations[c] EXCEPT !.active = @ /\ c \notin late]]
        /\ timedOut' = timedOut \cup late
        /\ UNCHANGED <<maxTurns, saidIn, utterances>>
    BY <1>8 DEF CleanupInactiveConversations
  <2> HIDE DEF late
  <2>2. DOMAIN conversations' = DOMAIN conversations /\ timedOut \subseteq timedOut'
    BY <2>1
  <2>3. ASSUME NEW d \in DOMAIN conversations
        PROVE  /\ conversations'[d] \in Talks /\ conversations'[d].turns = conversations[d].turns
               /\ conversations'[d].active => conversations[d].active
               /\ conversations[d].active => conversations'[d].active \/ d \in timedOut'
    <3>1. /\ conversations[d] \in Talks
          /\ conversations'[d] = [conversations[d] EXCEPT !.active = conversations[d].active /\ d \notin late]
      BY <1>1, <2>1
    <3>2. CASE d \in late
      <4>1. conversations'[d] = [conversations[d] EXCEPT !.active = FALSE] /\ d \in timedOut'
        BY <2>1, <3>1, <3>2
      <4> QED BY <3>1, <4>1 DEF Talks
    <3>3. CASE d \notin late
      <4>1. conversations'[d] = [conversations[d] EXCEPT !.active = conversations[d].active]
        <5>1. conversations[d].active \in BOOLEAN
          BY <3>1 DEF Talks
        <5>2. (conversations[d].active /\ d \notin late) = conversations[d].active
          BY <3>3, <5>1
        <5> QED BY <3>1, <5>2
      <4> QED BY <3>1, <4>1 DEF Talks
    <3> QED BY <3>2, <3>3
  <2> QED BY <1>1, <1>3, <2>1, <2>2, <2>3
<1>9. ASSUME NEW c \in OwnConversations, StartConversation(c) \/ EndConversation(c) \/ ProcessMessage(c)
      PROVE  /\ DialogueInv' /\ Spared(S)
             /\ DOMAIN conversations \subseteq DOMAIN conversations'
             /\ DOMAIN conversations' \subseteq DOMAIN conversations \cup {c}
  <2>1. DialogueInv' /\ Apart(c) /\ DOMAIN conversations' \subseteq DOMAIN conversations \cup {c}
    BY <1>9, StartKeeps, EndKeeps, ProcessKeeps
  <2>2. c \notin S
    OBVIOUS
  <2> QED BY <2>1, <2>2, ApartSpares DEF Apart
<1> QED BY <1>2, <1>5, <1>6, <1>7, <1>8, <1>9 DEF DialogueStep

LEMMA TurnsAreRecentThen == DialogueInv => TurnsAreRecent
<1> SUFFICES ASSUME DialogueInv, NEW c \in DOMAIN conversations
             PROVE  LET turns == conversations[c].turns
                    IN /\ IsSuffix(turns, saidIn[c])
                       /\ saidIn[c] # <<>> => turns # <<>>
                       /\ \A i \in DOMAIN turns : turns[i].by = "user" =>
                            i < Len(turns) /\ turns[i + 1] = [turns[i] EXCEPT !.by = "agent"]
  BY DEF TurnsAreRecent
<1>1. TalkOK(c)
  BY DEF DialogueInv
<1>2. conversations[c].turns \in Seq(Turns) /\ saidIn[c] \in Seq(Turns)
  BY <1>1 DEF TalkOK, Talks
<1>3. IsSuffix(conversations[c].turns, saidIn[c])
  BY <1>1, <1>2, EndsIsSuffix DEF TalkOK
<1>4. DOMAIN conversations[c].turns = 1..Len(conversations[c].turns)
  BY <1>2
<1> QED BY <1>1, <1>3, <1>4 DEF TalkOK, Replied

(***************************************************************************)
(* Communication: sessions over conversations.  Sessions are started under *)
(* the next number, so that nobody else has a conversation of that number; *)
(* the one a thread has opened is its own until it is recorded.            *)
(***************************************************************************)
UserRecords == [at : {"away", "starting", "opening", "resetting", "input", "speaking"},
                session : Nat \cup {NoSession}, then : {"done", "input"}]
Unrecorded == {user[t].session : t \in Entering}
InSession == {t \in Users : user[t].at \in {"resetting", "input", "speaking"}}

SessionTypes ==
  /\ DOMAIN sessions \subseteq Nat /\ user \in [Users -> UserRecords]
  /\ \A s \in DOMAIN sessions : sessions[s] \in [active : BOOLEAN, turns : Nat]
StartedInOrder ==
  /\ \E n \in 0..MaxSessions : Started = 1..n
  /\ DOMAIN conversations \subseteq OwnConversations \cup Started
OpenedAlone ==
  /\ \A s \in Unrecorded :
       /\ s \notin DOMAIN sessions /\ s \in DOMAIN conversations /\ UserTurns(s) = 0
       /\ conversations[s].active \/ s \in timedOut
  /\ \A t, u \in Entering : user[t].session = user[u].session => t = u
  /\ \A t \in InSession : user[t].session \in DOMAIN sessions
SessionOK(s) ==
  /\ s \in DOMAIN conversations
  /\ ~sessions[s].active => ~conversations[s].active
  /\ sessions[s].active => conversations[s].active \/ s \in timedOut
  /\ IF conversations[s].active THEN sessions[s].turns = UserTurns(s) + SpeakingIn(s)
     ELSE sessions[s].turns >= UserTurns(s) + SpeakingIn(s)
DefaultOK == defaultSession # NoSession => defaultSession \in DOMAIN sessions /\ sessions[defaultSession].active
SessionInv ==
  /\ SessionTypes /\ StartedInOrder /\ OpenedAlone
  /\ \A s \in DOMAIN sessions : SessionOK(s)
  /\ DefaultOK

LEMMA SessionsAgreeThen == SessionInv => SessionsAgree
BY DEF SessionInv, SessionOK, DefaultOK, SessionsAgree, ActiveSessions

\* Threads that speak in a session
SpeakersIn(u, c) == {t \in Users : u[t].at = "speaking" /\ u[t].session = c}

LEMMA SpeakingCounts ==
  /\ \A c : SpeakingIn(c) = Cardinality(SpeakersIn(user, c)) /\ SpeakingIn(c)' = Cardinality(SpeakersIn(user', c))
  /\ \A u, c : IsFiniteSet(SpeakersIn(u, c)) /\ Cardinality(SpeakersIn(u, c)) \in Nat
<1>1. \A c : SpeakingIn(c) = Cardinality(SpeakersIn(user, c))
  BY DEF SpeakingIn, SpeakersIn
<1>2. \A c : SpeakingIn(c)' = Cardinality(SpeakersIn(user', c))
  BY DEF SpeakingIn, SpeakersIn
<1>3. ASSUME NEW u, NEW c PROVE IsFiniteSet(SpeakersIn(u, c)) /\ Cardinality(SpeakersIn(u, c)) \in Nat
  <2>1. SpeakersIn(u, c) \subseteq Users
    BY DEF SpeakersIn
  <2>2. IsFiniteSet(SpeakersIn(u, c))
    BY <2>1, FS_Subset, InterfaceAssumption
  <2> QED BY <2>2, FS_CardinalityType
<1> QED BY <1>1, <1>2, <1>3

\* A thread takes up something else than speaking
LEMMA NobodySpeaks ==
  ASSUME user \in [Users -> UserRecords], NEW t \in Users, user[t].at # "speaking",
         NEW r \in UserRecords, r.at # "speaking", user' = [user EXCEPT ![t] = r], NEW c
  PROVE  SpeakingIn(c)' = SpeakingIn(c)
<1>1. user'[t] = r /\ \A u \in Users : u # t => user'[u] = user[u]
  OBVIOUS
<1>2. SpeakersIn(user', c) = SpeakersIn(user, c)
  BY <1>1 DEF SpeakersIn
<1> QED BY <1>2, SpeakingCounts

LEMMA OneSpeaks ==
  ASSUME user \in [Users -> UserRecords], NEW t \in Users, user[t].at # "speaking",
         NEW r \in UserRecords, r.at = "speaking", user' = [user EXCEPT ![t] = r], NEW c
  PROVE  SpeakingIn(c)' = IF c = r.session THEN SpeakingIn(c) + 1 ELSE SpeakingIn(c)
<1>1. user'[t] = r /\ \A u \in Users : u # t => user'[u] = user[u]
  OBVIOUS
<1>2. CASE c = r.session
  <2>1. SpeakersIn(user', c) = SpeakersIn(user, c) \cup {t} /\ t \notin SpeakersIn(user, c)
    BY <1>1, <1>2 DEF SpeakersIn
  <2>2. Cardinality(SpeakersIn(user, c) \cup {t}) = Cardinality(SpeakersIn(user, c)) + 1
    BY <2>1, SpeakingCounts, FS_AddElement
  <2> QED BY <1>2, <2>1, <2>2, SpeakingCounts
<1>3. CASE c # r.session
  <2>1. SpeakersIn(user', c) = SpeakersIn(user, c)
    BY <1>1, <1>3 DEF SpeakersIn
  <2> QED BY <1>3, <2>1, SpeakingCounts
<1> QED BY <1>2, <1>3

LEMMA OneHasSpoken ==
  ASSUME user \in [Users -> UserRecords], NEW t \in Users, user[t].at = "speaking",
         NEW r \in UserRecords, r.at # "speaking", user' = [user EXCEPT ![t] = r], NEW c
  PROVE  SpeakingIn(c) = IF c = user[t].session THEN SpeakingIn(c)' + 1 ELSE SpeakingIn(c)'
<1>1. user'[t] = r /\ \A u \in Users : u # t => user'[u] = user[u]
  OBVIOUS
<1>2. CASE c = user[t].session
  <2>1. SpeakersIn(user, c) = SpeakersIn(user', c) \cup {t} /\ t \notin SpeakersIn(user', c)
    BY <1>1, <1>2 DEF SpeakersIn
  <2>2. Cardinality(SpeakersIn(user', c) \cup {t}) = Cardinality(SpeakersIn(user', c)) + 1
    BY <2>1, SpeakingCounts, FS_AddElement
  <2> QED BY <1>2, <2>1, <2>2, SpeakingCounts
<1>3. CASE c # user[t].session
  <2>1. SpeakersIn(user', c) = SpeakersIn(user, c)
    BY <1>1, <1>3 DEF SpeakersIn
  <2> QED BY <1>3, <2>1, SpeakingCounts
<1> QED BY <1>2, <1>3

LEMMA CountsAreNat ==
  ASSUME DialogueInv, NEW s \in DOMAIN conversations
  PROVE  UserTurns(s) \in Nat /\ SpeakingIn(s) \in Nat
<1>1. saidIn[s] \in Seq(Turns)
  BY DEF DialogueInv, TalkOK
<1>2. Cardinality(SaidBy(saidIn[s])) \in Nat
  BY <1>1, SaidIsFinite
<1> QED BY <1>2, UserTurnsAre, SpeakingCounts

\* No session begins, and none that was opened is recorded
LEMMA SessionsStay ==
  ASSUME SessionInv, user' \in [Users -> UserRecords], Entering' = Entering,
         \A t \in Entering : user'[t] = user[t],
         \A t \in InSession' : user'[t].session \in DOMAIN sessions,
         DOMAIN sessions' = DOMAIN sessions,
         \A s \in DOMAIN sessions : sessions'[s] \in [active : BOOLEAN, turns : Nat] /\ SessionOK(s)',
         Spared(Unrecorded), DOMAIN conversations' \subseteq DOMAIN conversations \cup OwnConversations,
         DefaultOK'
  PROVE  SessionInv'
<1>1. SessionTypes'
  BY DEF SessionInv, SessionTypes
<1>2. Unrecorded' = Unrecorded /\ Started' = Started
  <2>1. Unrecorded' = Unrecorded
    BY DEF Unrecorded
  <2> QED BY <2>1 DEF Started, Unrecorded
<1>3. StartedInOrder'
  BY <1>2 DEF SessionInv, StartedInOrder
<1>4. OpenedAlone'
  <2>1. ASSUME NEW s \in Unrecorded
        PROVE  /\ s \notin DOMAIN sessions' /\ s \in DOMAIN conversations' /\ UserTurns(s)' = 0
               /\ conversations'[s].active \/ s \in timedOut'
    <3>1. /\ s \notin DOMAIN sessions /\ s \in DOMAIN conversations /\ UserTurns(s) = 0
          /\ conversations[s].active \/ s \in timedOut
      BY DEF SessionInv, OpenedAlone
    <3> QED BY <3>1 DEF Spared
  <2>2. \A t, u \in Entering' : user'[t].session = user'[u].session => t = u
    BY DEF SessionInv, OpenedAlone
  <2> QED BY <1>2, <2>1, <2>2 DEF OpenedAlone
<1> QED BY <1>1, <1>3, <1>4 DEF SessionInv

\* A thread that has opened nothing and speaks nowhere goes on to do something else
LEMMA QuietMove ==
  ASSUME SessionInv, NEW t \in Users, user[t].at \notin {"opening", "speaking"},
         NEW r \in UserRecords, r.at \notin {"opening", "speaking"},
         r.at \in {"resetting", "input"} => r.session \in DOMAIN sessions,
         user' = [user EXCEPT ![t] = r]
  PROVE  /\ user' \in [Users -> UserRecords] /\ Entering' = Entering
         /\ \A u \in Entering : user'[u] = user[u]
         /\ \A u \in InSession' : user'[u].session \in DOMAIN sessions
         /\ \A c : SpeakingIn(c)' = SpeakingIn(c)
<1>1. user \in [Users -> UserRecords]
  BY DEF SessionInv, SessionTypes
<1>2. user' \in [Users -> UserRecords] /\ user'[t] = r /\ \A u \in Users : u # t => user'[u] = user[u]
  BY <1>1
<1>3. Entering' = Entering /\ t \notin Entering
  BY <1>2 DEF Entering
<1>4. \A u \in Entering : user'[u] = user[u]
  BY <1>2, <1>3 DEF Entering
<1>5. \A u \in InSession' : user'[u].session \in DOMAIN sessions
  <2>1. \A u \in InSession : user[u].session \in DOMAIN sessions
    BY DEF SessionInv, OpenedAlone
  <2> SUFFICES ASSUME NEW u \in Users, user'[u].at \in {"resetting", "input", "speaking"}
               PROVE  user'[u].session \in DOMAIN sessions
    BY DEF InSession
  <2>2. CASE u = t
    BY <1>2, <2>2
  <2>3. CASE u # t
    BY <1>2, <2>1, <2>3 DEF InSession
  <2> QED BY <2>2, <2>3
<1>6. \A c : SpeakingIn(c)' = SpeakingIn(c)
  BY <1>1, NobodySpeaks
<1> QED BY <1>2, <1>3, <1>4, <1>5, <1>6

LEMMA DialogueSame ==
  ASSUME DialogueInv, UNCHANGED dialogueVars, NEW S
  PROVE  /\ DialogueInv' /\ Spared(S) /\ UNCHANGED <<conversations, saidIn, timedOut>>
         /\ \A c : UserTurns(c)' = UserTurns(c)
<1>1. UNCHANGED <<conversations, maxTurns, saidIn, timedOut, utterances>>
  BY DEF dialogueVars
<1>2. \A d \in DOMAIN conversations : TalkOK(d)'
  BY <1>1 DEF DialogueInv, TalkOK
<1>3. \A c : UserTurns(c)' = UserTurns(c)
  BY <1>1, UserTurnsAre
<1> QED BY <1>1, <1>2, <1>3 DEF DialogueInv, Spared

InterfaceInv == DialogueInv /\ SessionInv

\* A thread takes up something else, and neither sessions nor conversations change
LEMMA MoveKeeps ==
  ASSUME InterfaceInv, NEW t \in Users, user[t].at \notin {"opening", "speaking"},
         NEW r \in UserRecords, r.at \notin {"opening", "speaking"},
         r.at \in {"resetting", "input"} => r.session \in DOMAIN sessions,
         user' = [user EXCEPT ![t] = r], UNCHANGED <<dialogueVars, sessions, defaultSession>>
  PROVE  InterfaceInv'
<1>1. /\ DialogueInv' /\ Spared(Unrecorded) /\ UNCHANGED <<conversations, saidIn, timedOut>>
      /\ \A c : UserTurns(c)' = UserTurns(c)
  BY DialogueSame DEF InterfaceInv
<1>2. /\ user' \in [Users -> UserRecords] /\ Entering' = Entering
      /\ \A u \in Entering : user'[u] = user[u]
      /\ \A u \in InSession' : user'[u].session \in DOMAIN sessions
      /\ \A c : SpeakingIn(c)' = SpeakingIn(c)
  BY QuietMove DEF InterfaceInv
<1>3. \A s \in DOMAIN sessions : SessionOK(s)'
  BY <1>1, <1>2 DEF InterfaceInv, SessionInv, SessionOK
<1>4. DefaultOK'
  BY DEF InterfaceInv, SessionInv, DefaultOK
<1>5. \A s \in DOMAIN sessions : sessions'[s] \in [active : BOOLEAN, turns : Nat]
  BY DEF InterfaceInv, SessionInv, SessionTypes
<1>6. SessionInv'
  BY <1>1, <1>2, <1>3, <1>4, <1>5, SessionsStay DEF InterfaceInv
<1> QED BY <1>1, <1>6 DEF InterfaceInv

\* The manager's callers
LEMMA CallerKeeps == ASSUME InterfaceInv, CallerStep PROVE InterfaceInv'
<1>1. DialogueStep /\ UNCHANGED <<sessions, defaultSession, user>>
  BY DEF CallerStep
<1>2. Started \cap OwnConversations = {}
  BY InterfaceAssumption DEF InterfaceInv, SessionInv, StartedInOrder
<1>3. /\ DialogueInv' /\ Spared(Started)
      /\ DOMAIN conversations \subseteq DOMAIN conversations'
      /\ DOMAIN conversations' \subseteq DOMAIN conversations \cup OwnConversations
  BY <1>1, <1>2, DialogueKeeps DEF InterfaceInv
<1>4. Unrecorded \subseteq Started /\ DOMAIN sessions \subseteq Started
  BY DEF Unrecorded, Started
<1>5. Spared(Unrecorded)
  BY <1>3, <1>4 DEF Spared
<1>6. ASSUME NEW s \in DOMAIN sessions PROVE SessionOK(s)'
  <2>1. SessionOK(s)
    BY DEF InterfaceInv, SessionInv
  <2>2. /\ s \in DOMAIN conversations /\ s \in DOMAIN conversations' /\ UserTurns(s)' = UserTurns(s)
        /\ conversations'[s].active => conversations[s].active
        /\ conversations[s].active \/ s \in timedOut => conversations'[s].active \/ s \in timedOut'
    BY <1>3, <1>4, <2>1 DEF SessionOK, Spared
  <2>3. SpeakingIn(s)' = SpeakingIn(s)
    BY <1>1, SpeakingCounts
  <2>4. UserTurns(s) \in Nat /\ SpeakingIn(s) \in Nat
    BY <2>2, CountsAreNat DEF InterfaceInv
  <2>5. sessions'[s] = sessions[s]
    BY <1>1
  <2>6. IF conversations'[s].active THEN sessions'[s].turns = UserTurns(s)' + SpeakingIn(s)'
        ELSE sessions'[s].turns >= UserTurns(s)' + SpeakingIn(s)'
    <3>1. CASE conversations'[s].active
      BY <2>1, <2>2, <2>3, <2>5, <3>1 DEF SessionOK
    <3>2. CASE ~conversations'[s].active
      <4>1. sessions[s].turns >= UserTurns(s) + SpeakingIn(s)
        BY <2>1, <2>4 DEF SessionOK
      <4> QED BY <2>2, <2>3, <2>5, <3>2, <4>1
    <3> QED BY <3>1, <3>2
  <2> QED BY <2>1, <2>2, <2>5, <2>6 DEF SessionOK
<1>7. /\ user' \in [Users -> UserRecords] /\ Entering' = Entering
      /\ \A u \in Entering : user'[u] = user[u]
      /\ \A u \in InSession' : user'[u].session \in DOMAIN sessions
  <2>1. InSession' = InSession /\ Entering' = Entering
    BY <1>1 DEF InSession, Entering
  <2> QED BY <1>1, <2>1 DEF InterfaceInv, SessionInv, SessionTypes, OpenedAlone
<1>8. DefaultOK'
  BY <1>1 DEF InterfaceInv, SessionInv, DefaultOK
<1>9. \A s \in DOMAIN sessions : sessions'[s] \in [active : BOOLEAN, turns : Nat]
  BY <1>1 DEF InterfaceInv, SessionInv, SessionTypes
<1>10. SessionInv'
  BY <1>1, <1>3, <1>5, <1>6, <1>7, <1>8, <1>9, SessionsStay DEF InterfaceInv
<1> QED BY <1>3, <1>10 DEF InterfaceInv

\* Whoever ends a session, it and its conversation are over
LEMMA EndSessionKeeps ==
  ASSUME InterfaceInv, NEW s, EndSession(s),
         NEW t \in Users, user[t].at \notin {"opening", "speaking"},
         NEW r \in UserRecords, r.at \notin {"opening", "speaking"},
         r.at \in {"resetting", "input"} => r.session \in DOMAIN sessions,
         user' = [user EXCEPT ![t] = r]
  PROVE  InterfaceInv'
<1>1. /\ s \in DOMAIN sessions
      /\ IF sessions[s].active THEN EndConversation(s) ELSE UNCHANGED dialogueVars
      /\ sessions' = [sessions EXCEPT ![s].active = FALSE]
      /\ defaultSession' = IF defaultSession = s THEN NoSession ELSE defaultSession
  BY DEF EndSession
<1>2. /\ user' \in [Users -> UserRecords] /\ Entering' = Entering
      /\ \A u \in Entering : user'[u] = user[u]
      /\ \A u \in InSession' : user'[u].session \in DOMAIN sessions
      /\ \A c : SpeakingIn(c)' = SpeakingIn(c)
  BY QuietMove DEF InterfaceInv
<1>3. SessionOK(s) /\ s \in DOMAIN conversations
  BY <1>1 DEF InterfaceInv, SessionInv, SessionOK
<1>4. /\ DialogueInv' /\ Apart(s) /\ DOMAIN conversations' = DOMAIN conversations
      /\ saidIn' = saidIn /\ timedOut' = timedOut /\ ~conversations'[s].active
  <2>1. CASE sessions[s].active
    BY <1>1, <1>3, <2>1, EndKeeps DEF InterfaceInv
  <2>2. CASE ~sessions[s].active
    <3>1. DialogueInv' /\ UNCHANGED <<conversations, saidIn, timedOut>>
      BY <1>1, <2>2, DialogueSame DEF InterfaceInv
    <3> QED BY <1>3, <2>2, <3>1 DEF SessionOK, Apart
  <2> QED BY <2>1, <2>2
<1>5. Spared(Unrecorded)
  <2>1. s \notin Unrecorded
    BY <1>1 DEF InterfaceInv, SessionInv, OpenedAlone
  <2> QED BY <1>4, <2>1, ApartSpares
<1>6. /\ DOMAIN sessions' = DOMAIN sessions /\ sessions'[s] = [sessions[s] EXCEPT !.active = FALSE]
      /\ \A d \in DOMAIN sessions : d # s => sessions'[d] = sessions[d]
      /\ \A d \in DOMAIN sessions : sessions[d] \in [active : BOOLEAN, turns : Nat]
  BY <1>1 DEF InterfaceInv, SessionInv, SessionTypes
<1>7. /\ sessions'[s] \in [active : BOOLEAN, turns : Nat]
      /\ sessions'[s].active = FALSE /\ sessions'[s].turns = sessions[s].turns
  BY <1>1, <1>6
<1>8. ASSUME NEW d \in DOMAIN sessions PROVE SessionOK(d)'
  <2>1. SessionOK(d) /\ UserTurns(d)' = UserTurns(d) /\ SpeakingIn(d)' = SpeakingIn(d)
    BY <1>2, <1>4, UserTurnsAre DEF InterfaceInv, SessionInv
  <2>2. CASE d # s
    <3>1. conversations'[d] = conversations[d] /\ sessions'[d] = sessions[d] /\ d \in DOMAIN conversations
      BY <1>4, <1>6, <2>1, <2>2 DEF Apart, SessionOK
    <3> QED BY <1>4, <2>1, <3>1 DEF SessionOK
  <2>3. CASE d = s
    <3>1. sessions[s].turns >= UserTurns(s) + SpeakingIn(s)
      <4>1. UserTurns(s) \in Nat /\ SpeakingIn(s) \in Nat
        BY <1>3, CountsAreNat DEF InterfaceInv
      <4> QED BY <1>3, <4>1 DEF SessionOK
    <3>2. sessions'[s].turns >= UserTurns(s)' + SpeakingIn(s)'
      BY <1>7, <2>1, <2>3, <3>1
    <3> QED BY <1>3, <1>4, <1>7, <2>3, <3>2 DEF SessionOK
  <2> QED BY <2>2, <2>3
<1>9. DefaultOK'
  <2>1. DefaultOK
    BY DEF InterfaceInv, SessionInv
  <2> QED BY <1>1, <1>6, <2>1 DEF DefaultOK
<1>10. \A d \in DOMAIN sessions : sessions'[d] \in [active : BOOLEAN, turns : Nat]
  BY <1>6, <1>7
<1>11. SessionInv'
  BY <1>2, <1>4, <1>5, <1>6, <1>8, <1>9, <1>10, SessionsStay DEF InterfaceInv
<1> QED BY <1>4, <1>11 DEF InterfaceInv

\* A turn is counted before it is said
LEMMA CountKeeps ==
  ASSUME InterfaceInv, NEW t \in Users, CountTurn(t)
  PROVE  InterfaceInv'
<1>0. PICK s : s = user[t].session
  OBVIOUS
<1>1. user[t].at = "input" /\ UNCHANGED <<dialogueVars, defaultSession>>
  BY DEF CountTurn
<1>2. user \in [Users -> UserRecords] /\ user[t] \in UserRecords /\ s \in DOMAIN sessions /\ s \in Nat
  BY <1>0, <1>1 DEF InterfaceInv, SessionInv, SessionTypes, OpenedAlone, InSession
<1>3. CASE s \notin ActiveSessions
  <2>1. user' = [user EXCEPT ![t] = Away] /\ UNCHANGED sessions
    BY <1>0, <1>3 DEF CountTurn
  <2>2. Away \in UserRecords /\ Away.at = "away"
    BY DEF Away, UserRecords
  <2> QED BY <1>1, <2>1, <2>2, MoveKeeps
<1>4. CASE s \in ActiveSessions
  <2> DEFINE r == At("speaking", s, "done")
  <2>1. sessions' = [sessions EXCEPT ![s].turns = @ + 1] /\ user' = [user EXCEPT ![t] = r]
    BY <1>0, <1>4 DEF CountTurn
  <2>2. r \in UserRecords /\ r.at = "speaking" /\ r.session = s
    BY <1>2 DEF At, UserRecords
  <2> HIDE DEF r
  <2>3. user' \in [Users -> UserRecords] /\ user'[t] = r /\ \A u \in Users : u # t => user'[u] = user[u]
    BY <1>2, <2>1, <2>2
  <2>4. \A c : SpeakingIn(c)' = IF c = s THEN SpeakingIn(c) + 1 ELSE SpeakingIn(c)
    BY <1>1, <1>2, <2>1, <2>2, OneSpeaks
  <2>5. Entering' = Entering /\ \A u \in Entering : user'[u] = user[u]
    BY <1>1, <2>2, <2>3 DEF Entering
  <2>6. \A u \in InSession' : user'[u].session \in DOMAIN sessions
    BY <1>2, <2>2, <2>3 DEF InSession, InterfaceInv, SessionInv, OpenedAlone
  <2>7. /\ DialogueInv' /\ Spared(Unrecorded) /\ UNCHANGED <<conversations, saidIn, timedOut>>
        /\ \A c : UserTurns(c)' = UserTurns(c)
    BY <1>1, DialogueSame DEF InterfaceInv
  <2>8. /\ DOMAIN sessions' = DOMAIN sessions /\ sessions'[s] = [sessions[s] EXCEPT !.turns = sessions[s].turns + 1]
        /\ \A d \in DOMAIN sessions : d # s => sessions'[d] = sessions[d]
        /\ \A d \in DOMAIN sessions : sessions[d] \in [active : BOOLEAN, turns : Nat]
    BY <1>2, <2>1 DEF InterfaceInv, SessionInv, SessionTypes
  <2>9. /\ sessions'[s] \in [active : BOOLEAN, turns : Nat]
        /\ sessions'[s].active = sessions[s].active /\ sessions'[s].turns = sessions[s].turns + 1
    BY <1>2, <2>8
  <2>10. ASSUME NEW d \in DOMAIN sessions PROVE SessionOK(d)'
    <3>1. SessionOK(d) /\ d \in DOMAIN conversations
      BY DEF InterfaceInv, SessionInv, SessionOK
    <3>2. CASE d # s
      BY <2>4, <2>7, <2>8, <3>1, <3>2 DEF SessionOK
    <3>3. CASE d = s
      <4>1. UserTurns(s) \in Nat /\ SpeakingIn(s) \in Nat /\ sessions[s].turns \in Nat
        BY <2>8, <3>1, <3>3, CountsAreNat DEF InterfaceInv
      <4>2. SpeakingIn(s)' = SpeakingIn(s) + 1 /\ UserTurns(s)' = UserTurns(s)
        BY <2>4, <2>7
      <4>3. IF conversations'[s].active THEN sessions'[s].turns = UserTurns(s)' + SpeakingIn(s)'
            ELSE sessions'[s].turns >= UserTurns(s)' + SpeakingIn(s)'
        BY <2>7, <2>9, <3>1, <3>3, <4>1, <4>2 DEF SessionOK
      <4> QED BY <2>7, <2>9, <3>1, <3>3, <4>3 DEF SessionOK
    <3> QED BY <3>2, <3>3
  <2>11. DefaultOK'
    <3>1. DefaultOK
      BY DEF InterfaceInv, SessionInv
    <3> QED BY <1>1, <2>8, <2>9, <3>1 DEF DefaultOK
  <2>12. \A d \in DOMAIN sessions : sessions'[d] \in [active : BOOLEAN, turns : Nat]
    BY <2>8, <2>9
  <2>13. SessionInv'
    BY <2>3, <2>5, <2>6, <2>7, <2>8, <2>10, <2>11, <2>12, SessionsStay DEF InterfaceInv
  <2> QED BY <2>7, <2>13 DEF InterfaceInv
<1> QED BY <1>3, <1>4

\* A turn that was counted is said, or its conversation has ended by now
LEMMA SpeakKeeps ==
  ASSUME InterfaceInv, NEW t \in Users, SpeakTurn(t)
  PROVE  InterfaceInv'
<1>0. PICK s : s = user[t].session
  OBVIOUS
<1>1. /\ user[t].at = "speaking" /\ ProcessMessage(s) /\ user' = [user EXCEPT ![t] = Away]
      /\ UNCHANGED <<sessions, defaultSession>>
  BY <1>0 DEF SpeakTurn
<1>2. user \in [Users -> UserRecords] /\ s \in DOMAIN sessions
  BY <1>0, <1>1 DEF InterfaceInv, SessionInv, SessionTypes, OpenedAlone, InSession
<1>3. Away \in UserRecords /\ Away.at = "away"
  BY DEF Away, UserRecords
<1>4. SessionOK(s) /\ s \in DOMAIN conversations
  BY <1>2 DEF InterfaceInv, SessionInv, SessionOK
<1>5. \A c : SpeakingIn(c) = IF c = s THEN SpeakingIn(c)' + 1 ELSE SpeakingIn(c)'
  BY <1>0, <1>1, <1>2, <1>3, OneHasSpoken
<1>6. user' \in [Users -> UserRecords] /\ user'[t] = Away /\ \A u \in Users : u # t => user'[u] = user[u]
  BY <1>1, <1>2, <1>3
<1>7. Entering' = Entering /\ \A u \in Entering : user'[u] = user[u]
  BY <1>1, <1>3, <1>6 DEF Entering
<1>8. \A u \in InSession' : user'[u].session \in DOMAIN sessions
  BY <1>3, <1>6 DEF InSession, InterfaceInv, SessionInv, OpenedAlone
<1>9. /\ DialogueInv' /\ Apart(s) /\ DOMAIN conversations' = DOMAIN conversations
      /\ timedOut' = timedOut
      /\ conversations'[s].active = conversations[s].active
      /\ UserTurns(s)' = IF conversations[s].active THEN UserTurns(s) + 1 ELSE UserTurns(s)
  BY <1>1, <1>4, ProcessKeeps DEF InterfaceInv
<1>10. Spared(Unrecorded)
  <2>1. s \notin Unrecorded
    BY <1>2 DEF InterfaceInv, SessionInv, OpenedAlone
  <2> QED BY <1>9, <2>1, ApartSpares
<1>11. ASSUME NEW d \in DOMAIN sessions PROVE SessionOK(d)'
  <2>1. SessionOK(d) /\ d \in DOMAIN conversations
    BY DEF InterfaceInv, SessionInv, SessionOK
  <2>2. CASE d # s
    <3>1. conversations'[d] = conversations[d] /\ UserTurns(d)' = UserTurns(d) /\ SpeakingIn(d)' = SpeakingIn(d)
      BY <1>5, <1>9, <2>1, <2>2, UserTurnsAre DEF Apart
    <3> QED BY <1>1, <1>9, <2>1, <3>1 DEF SessionOK
  <2>3. CASE d = s
    <3>1. UserTurns(s) \in Nat /\ SpeakingIn(s)' \in Nat /\ SpeakingIn(s) = SpeakingIn(s)' + 1
          /\ sessions[s].turns \in Nat
      BY <1>2, <1>4, <1>5, CountsAreNat, SpeakingCounts DEF InterfaceInv, SessionInv, SessionTypes
    <3>2. CASE conversations[s].active
      <4>1. sessions[s].turns = UserTurns(s)' + SpeakingIn(s)'
        BY <1>4, <1>9, <3>1, <3>2 DEF SessionOK
      <4> QED BY <1>1, <1>4, <1>9, <2>3, <3>2, <4>1 DEF SessionOK
    <3>3. CASE ~conversations[s].active
      <4>1. sessions[s].turns >= UserTurns(s)' + SpeakingIn(s)'
        BY <1>4, <1>9, <3>1, <3>3 DEF SessionOK
      <4> QED BY <1>1, <1>4, <1>9, <2>3, <3>3, <4>1 DEF SessionOK
    <3> QED BY <3>2, <3>3
  <2> QED BY <2>2, <2>3
<1>12. DefaultOK'
  BY <1>1 DEF InterfaceInv, SessionInv, DefaultOK
<1>13. \A d \in DOMAIN sessions : sessions'[d] \in [active : BOOLEAN, turns : Nat]
  BY <1>1 DEF InterfaceInv, SessionInv, SessionTypes
<1>14. SessionInv'
  BY <1>1, <1>6, <1>7, <1>8, <1>9, <1>10, <1>11, <1>12, <1>13, SessionsStay DEF InterfaceInv
<1> QED BY <1>9, <1>14 DEF InterfaceInv

\* A conversation is started for a session under a number nobody has
LEMMA OpenKeeps ==
  ASSUME InterfaceInv, NEW t \in Users, OpenConversation(t)
  PROVE  InterfaceInv'
<1>a. PICK s : s = Cardinality(Started) + 1
  OBVIOUS
<1>b. PICK r : r = At("opening", s, user[t].then)
  OBVIOUS
<1>1. /\ user[t].at = "starting" /\ Cardinality(Started) < MaxSessions /\ StartConversation(s)
      /\ user' = [user EXCEPT ![t] = r] /\ UNCHANGED <<sessions, defaultSession>>
  BY <1>a, <1>b DEF OpenConversation
<1>2. /\ user \in [Users -> UserRecords] /\ user[t] \in UserRecords
      /\ \A d \in DOMAIN sessions : sessions[d] \in [active : BOOLEAN, turns : Nat]
      /\ DOMAIN conversations \subseteq OwnConversations \cup Started
  BY DEF InterfaceInv, SessionInv, SessionTypes, StartedInOrder
<1>3. PICK n \in 0..MaxSessions : Started = 1..n
  BY DEF InterfaceInv, SessionInv, StartedInOrder
<1>4. Cardinality(Started) = n
  BY <1>3, FS_Interval
<1>5. s = n + 1 /\ n \in Nat /\ n + 1 \in 1..MaxSessions /\ s \in Nat /\ s \notin Started /\ 1..(n + 1) = Started \cup {s}
  BY <1>a, <1>1, <1>3, <1>4, InterfaceAssumption
<1>6. r \in UserRecords /\ r.at = "opening" /\ r.session = s
  <2>1. user[t].then \in {"done", "input"}
    BY <1>2 DEF UserRecords
  <2> QED BY <1>b, <1>5, <2>1 DEF At, UserRecords
<1>7. s \notin DOMAIN conversations
  BY <1>2, <1>5, InterfaceAssumption
<1>8. /\ DialogueInv' /\ Apart(s) /\ DOMAIN conversations' = DOMAIN conversations \cup {s}
      /\ conversations'[s].active /\ UserTurns(s)' = 0
  BY <1>1, <1>7, StartKeeps DEF InterfaceInv
<1>9. user' \in [Users -> UserRecords] /\ user'[t] = r /\ \A u \in Users : u # t => user'[u] = user[u]
  BY <1>1, <1>2, <1>6
<1>10. Entering' = Entering \cup {t} /\ t \notin Entering /\ \A u \in Entering : user'[u] = user[u]
  BY <1>1, <1>6, <1>9 DEF Entering
<1>11. Unrecorded' = Unrecorded \cup {s} /\ Started' = Started \cup {s}
  <2>1. Unrecorded' = Unrecorded \cup {s}
    BY <1>6, <1>9, <1>10 DEF Unrecorded
  <2> QED BY <1>1, <2>1 DEF Started, Unrecorded
<1>12. SessionTypes'
  BY <1>1, <1>9 DEF InterfaceInv, SessionInv, SessionTypes
<1>13. StartedInOrder'
  <2>1. n + 1 \in 0..MaxSessions /\ Started' = 1..(n + 1)
    BY <1>5, <1>11
  <2>2. DOMAIN conversations' \subseteq OwnConversations \cup Started'
    BY <1>2, <1>8, <1>11
  <2> QED BY <2>1, <2>2 DEF StartedInOrder
<1>14. OpenedAlone'
  <2>1. ASSUME NEW d \in Unrecorded'
        PROVE  /\ d \notin DOMAIN sessions' /\ d \in DOMAIN conversations' /\ UserTurns(d)' = 0
               /\ conversations'[d].active \/ d \in timedOut'
    <3>1. CASE d = s
      <4>1. s \notin DOMAIN sessions'
        BY <1>1, <1>5 DEF Started
      <4> QED BY <1>8, <3>1, <4>1
    <3>2. CASE d \in Unrecorded /\ d # s
      <4>1. /\ d \notin DOMAIN sessions /\ d \in DOMAIN conversations /\ UserTurns(d) = 0
            /\ conversations[d].active \/ d \in timedOut
        BY <3>2 DEF InterfaceInv, SessionInv, OpenedAlone
      <4>2. /\ conversations'[d] = conversations[d] /\ saidIn'[d] = saidIn[d]
            /\ d \in timedOut' <=> d \in timedOut
        BY <1>8, <3>2, <4>1 DEF Apart
      <4>3. UserTurns(d)' = UserTurns(d)
        BY <4>2, UserTurnsAre
      <4> QED BY <1>1, <1>8, <4>1, <4>2, <4>3
    <3> QED BY <1>11, <3>1, <3>2
  <2>2. \A u, v \in Entering' : user'[u].session = user'[v].session => u = v
    <3>1. \A u, v \in Entering : user[u].session = user[v].session => u = v
      BY DEF InterfaceInv, SessionInv, OpenedAlone
    <3>2. \A u \in Entering : user[u].session # s
      BY <1>5 DEF Started
    <3> QED BY <1>6, <1>9, <1>10, <3>1, <3>2
  <2>3. \A u \in InSession' : user'[u].session \in DOMAIN sessions'
    <3>1. \A u \in InSession' : u \in InSession /\ user'[u] = user[u]
      BY <1>6, <1>9 DEF InSession
    <3> QED BY <1>1, <3>1 DEF InterfaceInv, SessionInv, OpenedAlone
  <2> QED BY <2>1, <2>2, <2>3 DEF OpenedAlone
<1>15. ASSUME NEW d \in DOMAIN sessions PROVE SessionOK(d)'
  <2>1. SessionOK(d) /\ d \in DOMAIN conversations /\ d # s
    BY <1>7 DEF InterfaceInv, SessionInv, SessionOK
  <2>2. /\ conversations'[d] = conversations[d] /\ saidIn'[d] = saidIn[d]
        /\ d \in timedOut' <=> d \in timedOut
    BY <1>8, <2>1 DEF Apart
  <2>3. UserTurns(d)' = UserTurns(d) /\ SpeakingIn(d)' = SpeakingIn(d)
    <3>1. SpeakingIn(d)' = SpeakingIn(d)
      BY <1>1, <1>2, <1>6, NobodySpeaks
    <3> QED BY <2>2, <3>1, UserTurnsAre
  <2> QED BY <1>1, <1>8, <2>1, <2>2, <2>3 DEF SessionOK
<1>16. DefaultOK'
  BY <1>1 DEF InterfaceInv, SessionInv, DefaultOK
<1>17. SessionInv'
  BY <1>1, <1>12, <1>13, <1>14, <1>15, <1>16 DEF SessionInv
<1> QED BY <1>8, <1>17 DEF InterfaceInv

\* The session a thread has opened is recorded
LEMMA RecordKeeps ==
  ASSUME InterfaceInv, NEW t \in Users, RecordSession(t)
  PROVE  InterfaceInv'
<1>a. PICK s : s = user[t].session
  OBVIOUS
<1>b. PICK r : r = IF user[t].then = "input" THEN At("input", s, "done") ELSE Away
  OBVIOUS
<1>1. /\ user[t].at = "opening" /\ sessions' = With(sessions, s, [active |-> TRUE, turns |-> 0])
      /\ defaultSession' = IF defaultSession = NoSession THEN s ELSE defaultSession
      /\ user' = [user EXCEPT ![t] = r] /\ UNCHANGED dialogueVars
  BY <1>a, <1>b DEF RecordSession
<1>2. /\ user \in [Users -> UserRecords] /\ DOMAIN sessions \subseteq Nat
      /\ \A d \in DOMAIN sessions : sessions[d] \in [active : BOOLEAN, turns : Nat]
      /\ \A u \in InSession : user[u].session \in DOMAIN sessions
      /\ \A u, v \in Entering : user[u].session = user[v].session => u = v
  BY DEF InterfaceInv, SessionInv, SessionTypes, OpenedAlone
<1>3. t \in Entering /\ s \in Unrecorded
  BY <1>a, <1>1 DEF Entering, Unrecorded
<1>4. /\ s \notin DOMAIN sessions /\ s \in DOMAIN conversations /\ UserTurns(s) = 0
      /\ conversations[s].active \/ s \in timedOut
  BY <1>3 DEF InterfaceInv, SessionInv, OpenedAlone
<1>5. s \in Nat /\ s # NoSession
  <2>1. s \in Started
    BY <1>3 DEF Started, Unrecorded
  <2> QED BY <2>1, InterfaceAssumption DEF InterfaceInv, SessionInv, StartedInOrder
<1>6. r \in UserRecords /\ r.at \in {"input", "away"} /\ (r.at = "input" => r.session = s)
  <2>1. At("input", s, "done") \in UserRecords /\ At("input", s, "done").at = "input"
        /\ At("input", s, "done").session = s
    BY <1>5 DEF At, UserRecords
  <2>2. Away \in UserRecords /\ Away.at = "away"
    BY DEF Away, UserRecords
  <2> QED BY <1>b, <2>1, <2>2
<1>7. user' \in [Users -> UserRecords] /\ user'[t] = r /\ \A u \in Users : u # t => user'[u] = user[u]
  BY <1>1, <1>2, <1>6
<1>8. Entering' = Entering \ {t} /\ \A u \in Entering' : user'[u] = user[u]
  BY <1>6, <1>7 DEF Entering
<1>9. /\ DOMAIN sessions' = DOMAIN sessions \cup {s} /\ sessions'[s] = [active |-> TRUE, turns |-> 0]
      /\ \A d \in DOMAIN sessions : sessions'[d] = sessions[d]
  BY <1>1, <1>4 DEF With
<1>10. Unrecorded' = Unrecorded \ {s} /\ Started' = Started
  <2>1. \A u \in Entering \ {t} : user[u].session # s
    BY <1>a, <1>2, <1>3
  <2>2. Unrecorded' = Unrecorded \ {s}
    BY <1>a, <1>8, <2>1 DEF Unrecorded
  <2>3. Unrecorded' \cup {s} = Unrecorded
    BY <1>3, <2>2
  <2>4. Started' = DOMAIN sessions' \cup Unrecorded' /\ Started = DOMAIN sessions \cup Unrecorded
    BY DEF Started, Unrecorded
  <2> QED BY <1>9, <2>2, <2>3, <2>4
<1>11. /\ DialogueInv' /\ UNCHANGED <<conversations, saidIn, timedOut>>
       /\ \A c : UserTurns(c)' = UserTurns(c)
  BY <1>1, DialogueSame DEF InterfaceInv
<1>12. \A c : SpeakingIn(c)' = SpeakingIn(c)
  BY <1>1, <1>2, <1>6, NobodySpeaks
<1>13. SessionTypes'
  <2>1. [active |-> TRUE, turns |-> 0] \in [active : BOOLEAN, turns : Nat]
    OBVIOUS
  <2> QED BY <1>2, <1>5, <1>7, <1>9, <2>1 DEF SessionTypes
<1>14. StartedInOrder'
  BY <1>10, <1>11 DEF InterfaceInv, SessionInv, StartedInOrder
<1>15. OpenedAlone'
  <2>1. ASSUME NEW d \in Unrecorded'
        PROVE  /\ d \notin DOMAIN sessions' /\ d \in DOMAIN conversations' /\ UserTurns(d)' = 0
               /\ conversations'[d].active \/ d \in timedOut'
    <3>1. d \in Unrecorded /\ d # s
      BY <1>10
    <3>2. /\ d \notin DOMAIN sessions /\ d \in DOMAIN conversations /\ UserTurns(d) = 0
          /\ conversations[d].active \/ d \in timedOut
      BY <3>1 DEF InterfaceInv, SessionInv, OpenedAlone
    <3> QED BY <1>9, <1>11, <3>1, <3>2
  <2>2. \A u, v \in Entering' : user'[u].session = user'[v].session => u = v
    BY <1>2, <1>8
  <2>3. \A u \in InSession' : user'[u].session \in DOMAIN sessions'
    BY <1>2, <1>6, <1>7, <1>9 DEF InSession
  <2> QED BY <2>1, <2>2, <2>3 DEF OpenedAlone
<1>16. ASSUME NEW d \in DOMAIN sessions PROVE SessionOK(d)'
  <2>1. SessionOK(d) /\ sessions'[d] = sessions[d]
    BY <1>9 DEF InterfaceInv, SessionInv
  <2> QED BY <1>11, <1>12, <2>1 DEF SessionOK
<1>17. SessionOK(s)'
  <2>1. SpeakersIn(user, s) = {}
    BY <1>2, <1>4 DEF SpeakersIn, InSession
  <2>2. SpeakingIn(s)' = 0
    BY <1>12, <2>1, SpeakingCounts, FS_EmptySet
  <2>3. UserTurns(s)' = 0
    BY <1>4, <1>11
  <2>4. sessions'[s].active /\ sessions'[s].turns = 0
    BY <1>9
  <2> QED BY <1>4, <1>11, <2>2, <2>3, <2>4 DEF SessionOK
<1>18. DefaultOK'
  <2>1. DefaultOK
    BY DEF InterfaceInv, SessionInv
  <2>2. CASE defaultSession = NoSession
    BY <1>1, <1>9, <2>2 DEF DefaultOK
  <2>3. CASE defaultSession # NoSession
    BY <1>1, <1>9, <2>1, <2>3 DEF DefaultOK
  <2> QED BY <2>2, <2>3
<1>19. SessionInv'
  BY <1>9, <1>13, <1>14, <1>15, <1>16, <1>17, <1>18 DEF SessionInv
<1> QED BY <1>11, <1>19 DEF InterfaceInv

LEMMA InterfaceStart == InterfaceInit => InterfaceInv
<1> SUFFICES ASSUME InterfaceInit PROVE InterfaceInv
  OBVIOUS
<1>1. /\ conversations = NoKeys /\ maxTurns = 200 /\ saidIn = NoKeys /\ timedOut = {} /\ utterances = 0
      /\ sessions = NoKeys /\ defaultSession = NoSession /\ user = [t \in Users |-> Away]
  BY DEF InterfaceInit, DialogueInit
<1>2. DOMAIN NoKeys = {}
  BY DEF NoKeys
<1>3. DialogueInv
  BY <1>1, <1>2 DEF DialogueInv
<1>4. Away \in UserRecords /\ Away.at = "away"
  BY DEF Away, UserRecords
<1>5. user \in [Users -> UserRecords] /\ \A t \in Users : user[t].at = "away"
  BY <1>1, <1>4
<1>6. SessionTypes
  BY <1>1, <1>2, <1>5 DEF SessionTypes
<1>7. Entering = {} /\ InSession = {} /\ Unrecorded = {} /\ Started = {}
  <2>1. Entering = {} /\ InSession = {}
    BY <1>5 DEF Entering, InSession
  <2> QED BY <1>1, <1>2, <2>1 DEF Unrecorded, Started
<1>8. StartedInOrder
  <2>1. 0 \in 0..MaxSessions /\ 1..0 = {}
    BY InterfaceAssumption
  <2> QED BY <1>1, <1>2, <1>7, <2>1 DEF StartedInOrder
<1>9. OpenedAlone
  BY <1>7 DEF OpenedAlone
<1> QED BY <1>1, <1>2, <1>3, <1>6, <1>8, <1>9 DEF InterfaceInv, SessionInv, DefaultOK

LEMMA InterfaceKeeps == ASSUME InterfaceInv, [InterfaceNext]_interfaceVars PROVE InterfaceInv'
<1>1. /\ user \in [Users -> UserRecords] /\ DOMAIN sessions \subseteq Nat
      /\ \A u \in InSession : user[u].session \in DOMAIN sessions
  BY DEF InterfaceInv, SessionInv, SessionTypes, OpenedAlone
<1>2. Away \in UserRecords /\ Away.at = "away"
  BY DEF Away, UserRecords
<1>3. /\ At("starting", NoSession, "done") \in UserRecords /\ At("starting", NoSession, "input") \in UserRecords
      /\ At("starting", NoSession, "done").at = "starting" /\ At("starting", NoSession, "input").at = "starting"
  BY DEF At, UserRecords
<1>4. \A s \in DOMAIN sessions :
        /\ At("input", s, "done") \in UserRecords /\ At("input", s, "done").at = "input"
        /\ At("input", s, "done").session = s
        /\ At("resetting", s, "done") \in UserRecords /\ At("resetting", s, "done").at = "resetting"
        /\ At("resetting", s, "done").session = s
  BY <1>1 DEF At, UserRecords
<1>5. DefaultOK
  BY DEF InterfaceInv, SessionInv
<1>6. ASSUME NEW t \in Users, StartSession(t) PROVE InterfaceInv'
  <2>1. /\ user[t].at = "away" /\ user' = [user EXCEPT ![t] = At("starting", NoSession, "done")]
        /\ UNCHANGED <<dialogueVars, sessions, defaultSession>>
    BY <1>6 DEF StartSession
  <2> QED BY <1>3, <2>1, MoveKeeps
<1>7. ASSUME NEW t \in Users, BeginReset(t) PROVE InterfaceInv'
  <2>1. PICK r : r = IF defaultSession = NoSession THEN At("starting", NoSession, "done")
                     ELSE At("resetting", defaultSession, "done")
    OBVIOUS
  <2>2. /\ user[t].at = "away" /\ user' = [user EXCEPT ![t] = r]
        /\ UNCHANGED <<dialogueVars, sessions, defaultSession>>
    BY <1>7, <2>1 DEF BeginReset
  <2>3. r \in UserRecords /\ r.at \in {"starting", "resetting"}
        /\ (r.at = "resetting" => r.session \in DOMAIN sessions)
    <3>1. CASE defaultSession = NoSession
      BY <1>3, <2>1, <3>1
    <3>2. CASE defaultSession # NoSession
      <4>1. defaultSession \in DOMAIN sessions
        BY <1>5, <3>2 DEF DefaultOK
      <4> QED BY <1>4, <2>1, <3>2, <4>1
    <3> QED BY <3>1, <3>2
  <2> QED BY <2>2, <2>3, MoveKeeps
<1>8. ASSUME NEW t \in Users, BeginHumanInput(t) PROVE InterfaceInv'
  <2>1. PICK r : r = IF defaultSession \in ActiveSessions THEN At("input", defaultSession, "done")
                     ELSE At("starting", NoSession, "input")
    OBVIOUS
  <2>2. /\ user[t].at = "away" /\ user' = [user EXCEPT ![t] = r]
        /\ UNCHANGED <<dialogueVars, sessions, defaultSession>>
    BY <1>8, <2>1 DEF BeginHumanInput
  <2>3. r \in UserRecords /\ r.at \in {"starting", "input"}
        /\ (r.at = "input" => r.session \in DOMAIN sessions)
    <3>1. CASE defaultSession \notin ActiveSessions
      BY <1>3, <2>1, <3>1
    <3>2. CASE defaultSession \in ActiveSessions
      <4>1. defaultSession \in DOMAIN sessions
        BY <3>2 DEF ActiveSessions
      <4> QED BY <1>4, <2>1, <3>2, <4>1
    <3> QED BY <3>1, <3>2
  <2> QED BY <2>2, <2>3, MoveKeeps
<1>9. ASSUME NEW t \in Users, NEW s \in DOMAIN sessions, CallProcessInput(t, s) PROVE InterfaceInv'
  <2>1. /\ user[t].at = "away" /\ user' = [user EXCEPT ![t] = At("input", s, "done")]
        /\ UNCHANGED <<dialogueVars, sessions, defaultSession>>
    BY <1>9 DEF CallProcessInput
  <2> QED BY <1>4, <2>1, MoveKeeps
<1>10. ASSUME NEW t \in Users, NEW s \in DOMAIN sessions, CallEndSession(t, s) PROVE InterfaceInv'
  <2>1. PICK r : r = user[t]
    OBVIOUS
  <2>2. user[t].at = "away" /\ EndSession(s) /\ user' = user
    BY <1>10 DEF CallEndSession
  <2>3. r \in UserRecords /\ r.at = "away" /\ user' = [user EXCEPT ![t] = r]
    BY <1>1, <2>1, <2>2
  <2> QED BY <2>2, <2>3, EndSessionKeeps
<1>11. ASSUME NEW t \in Users, EndOldSession(t) PROVE InterfaceInv'
  <2>1. PICK s : s = user[t].session
    OBVIOUS
  <2>2. /\ user[t].at = "resetting" /\ EndSession(s)
        /\ user' = [user EXCEPT ![t] = At("starting", NoSession, "done")]
    BY <1>11, <2>1 DEF EndOldSession
  <2> QED BY <1>3, <2>2, EndSessionKeeps
<1>12. CASE UNCHANGED interfaceVars
  <2>1. UNCHANGED <<dialogueVars, sessions, defaultSession, user>>
    BY <1>12 DEF interfaceVars
  <2>2. /\ DialogueInv' /\ Spared(Unrecorded) /\ UNCHANGED <<conversations, saidIn, timedOut>>
        /\ \A c : UserTurns(c)' = UserTurns(c)
    BY <2>1, DialogueSame DEF InterfaceInv
  <2>3. \A c : SpeakingIn(c)' = SpeakingIn(c)
    BY <2>1, SpeakingCounts
  <2>4. \A s \in DOMAIN sessions : SessionOK(s)'
    BY <2>1, <2>2, <2>3 DEF InterfaceInv, SessionInv, SessionOK
  <2>5. Entering' = Entering /\ InSession' = InSession
    BY <2>1 DEF Entering, InSession
  <2>6. DefaultOK'
    BY <1>5, <2>1 DEF DefaultOK
  <2>7. \A s \in DOMAIN sessions : sessions'[s] \in [active : BOOLEAN, turns : Nat]
    BY <2>1 DEF InterfaceInv, SessionInv, SessionTypes
  <2>8. SessionInv'
    BY <1>1, <2>1, <2>2, <2>4, <2>5, <2>6, <2>7, SessionsStay DEF InterfaceInv
  <2> QED BY <2>2, <2>8 DEF InterfaceInv
<1> QED BY <1>6, <1>7, <1>8, <1>9, <1>10, <1>11, <1>12, OpenKeeps, RecordKeeps, CountKeeps, SpeakKeeps,
           CallerKeeps DEF InterfaceNext, InterfaceStep

\* Of any number of agents and users, in threads that interleave wherever a lock is released:
\* no message between agents is lost, told twice or handled by two threads at once; the turns
\* of a conversation are the latest that were said, with their replies; and sessions, their
\* conversations and the turns counted agree, whoever starts, resets or ends them
\* (AgentComms.cpp, DialogueManager.cpp, HumanInterface.cpp).
THEOREM CommunicationStaysSound == CommunicationSpec => []CommunicationIsSound
<1> DEFINE Inv == InterfaceInv /\ CommsInv
<1>1. CommunicationInit => Inv
  BY InterfaceStart, CommsStart DEF CommunicationInit
<1>2. Inv /\ [CommunicationNext]_communicationVars => Inv'
  <2> SUFFICES ASSUME InterfaceInv, CommsInv, [CommunicationNext]_communicationVars
               PROVE  InterfaceInv' /\ CommsInv'
    OBVIOUS
  <2>1. [InterfaceNext]_interfaceVars /\ [CommsNext]_commsVars
    BY DEF CommunicationNext, communicationVars
  <2> QED BY <2>1, InterfaceKeeps, CommsStep
<1>3. Inv => CommunicationIsSound
  BY MessagesAreKeptThen, TurnsAreRecentThen, SessionsAgreeThen
     DEF InterfaceInv, CommunicationIsSound
<1> QED BY <1>1, <1>2, <1>3, PTL DEF CommunicationSpec
=============================================================================
