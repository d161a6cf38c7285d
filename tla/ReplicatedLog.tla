---------------------------- MODULE ReplicatedLog ----------------------------
(***************************************************************************)
(* What a Raft cluster is for, without terms, votes or messages: one log   *)
(* of chosen commands that only grows, of which every node's               *)
(* committedLog() is a prefix.                                             *)
(***************************************************************************)
EXTENDS Sequences, SequencesExt

CONSTANT Nodes
VARIABLES chosen, learned

Init == chosen = <<>> /\ learned = [n \in Nodes |-> <<>>]

\* A node that knows all of the log adds to it
Choose(n) ==
  /\ IsStrictPrefix(chosen, chosen')
  /\ learned' = [learned EXCEPT ![n] = chosen']

\* A node learns more of what is chosen
Learn(n) ==
  /\ UNCHANGED chosen
  /\ \E k \in Len(learned[n])..Len(chosen) :
       learned' = [learned EXCEPT ![n] = SubSeq(chosen, 1, k)]

\* A node is replaced by one that has to learn again
Forget(n) ==
  /\ UNCHANGED chosen
  /\ learned' = [learned EXCEPT ![n] = <<>>]

Next == \E n \in Nodes : Choose(n) \/ Learn(n) \/ Forget(n)

Spec == Init /\ [][Next]_<<chosen, learned>>
=============================================================================
