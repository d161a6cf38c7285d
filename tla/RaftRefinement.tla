--------------------------- MODULE RaftRefinement ---------------------------
(***************************************************************************)
(* RaftNode implements ReplicatedLog.  chosen is a history variable: the   *)
(* longest committedLog() any node has had so far, which a reload of that  *)
(* node, losing its commit index, must not undo.                           *)
(***************************************************************************)
EXTENDS RaftProperties

VARIABLE chosen

HInit == Init /\ chosen = <<>>
HNext ==
  /\ Next
  /\ chosen' = IF \E n \in Nodes : commitIndex'[n] > Len(chosen)
               THEN LET n == CHOOSE m \in Nodes : commitIndex'[m] > Len(chosen)
                    IN SubSeq(log'[n], 1, commitIndex'[n])
               ELSE chosen
HSpec == HInit /\ [][HNext]_<<vars, chosen>>

Abstract == INSTANCE ReplicatedLog
              WITH learned <- [n \in Nodes |-> Committed(n)]

\* The committed logs of all nodes are prefixes of one log that only grows:
\* every step of the threads, clients and owners is a Choose, a Learn or a
\* Forget, or changes nothing a client can see.
ImplementsReplicatedLog == Abstract!Spec
=============================================================================
