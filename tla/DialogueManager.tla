--------------------------- MODULE DialogueManager ---------------------------
(***************************************************************************)
(* DialogueManager (src/agentzero-communication/src/DialogueManager.cpp):  *)
(* conversations, each with its recent turns.  Every operation holds the   *)
(* lock.  Conversations are never erased.  Replies, topics, contexts,      *)
(* goals and participants are data; of the first three matters that they   *)
(* are activity.  Empty ids and messages are refused by every operation.   *)
(***************************************************************************)
EXTENDS Naturals, SequencesExt, StdContainers

CONSTANTS
  OwnConversations, \* ids that callers of the manager choose
  HistoryLimits,    \* values of _max_history, by setMaxHistory
  MaxUtterances     \* bound: messages ever spoken

ASSUME DialogueAssumption == HistoryLimits \subseteq Nat /\ MaxUtterances \in Nat

VARIABLES
  conversations,  \* _conversations: id -> [active, turns, idle]
  maxTurns,       \* _max_history
  saidIn,         \* history: id -> every turn since the conversation was started
  timedOut,       \* history: the conversations that cleanup closed
  utterances      \* history: how many messages were spoken

dialogueVars == <<conversations, maxTurns, saidIn, timedOut, utterances>>

Turn(by) == [by |-> by, message |-> utterances + 1]
NewConversation == [active |-> TRUE, turns |-> <<>>, idle |-> FALSE]
ActiveConversations == {c \in DOMAIN conversations : conversations[c].active}
-----------------------------------------------------------------------------
\* Puts a new conversation under an id, over an ended one
StartConversation(c) ==
  IF c \in ActiveConversations THEN UNCHANGED dialogueVars
  ELSE /\ conversations' = With(conversations, c, NewConversation)
       /\ saidIn' = With(saidIn, c, <<>>)
       /\ timedOut' = timedOut \ {c}
       /\ UNCHANGED <<maxTurns, utterances>>

EndConversation(c) ==
  /\ conversations' = IF c \in DOMAIN conversations THEN [conversations EXCEPT ![c].active = FALSE] ELSE conversations
  /\ UNCHANGED <<maxTurns, saidIn, timedOut, utterances>>

MutantReopen(c) ==
  IF c \in ActiveConversations THEN conversations ELSE With(conversations, c, NewConversation)
\* emplace puts nothing over a conversation that has ended
GetOrCreate(c) ==
  IF c \in DOMAIN conversations THEN conversations ELSE With(conversations, c, NewConversation)

MutantDropNewest(turns) == IF Len(turns) <= maxTurns THEN turns ELSE SubSeq(turns, 1, maxTurns)
TrimHistory(turns) ==
  IF Len(turns) <= maxTurns THEN turns ELSE SubSeq(turns, Len(turns) - maxTurns + 1, Len(turns))

\* Adds turns to an active conversation of the map
AddTurns(map, c, turns) ==
  /\ conversations' = [map EXCEPT ![c].turns = TrimHistory(@ \o turns), ![c].idle = FALSE]
  /\ saidIn' = With(saidIn, c, (IF c \in DOMAIN saidIn THEN saidIn[c] ELSE <<>>) \o turns)
  /\ utterances' = utterances + 1

\* The user's turn and the agent's reply; nothing at all in a conversation that has ended
ProcessMessage(c) ==
  /\ utterances < MaxUtterances
  /\ LET map == GetOrCreate(c)
     IN IF map[c].active THEN AddTurns(map, c, <<Turn("user"), Turn("agent")>>)
        ELSE UNCHANGED <<conversations, saidIn, utterances>>
  /\ UNCHANGED <<maxTurns, timedOut>>

\* sendMessage
SpeakFirst(c) ==
  /\ c \in ActiveConversations /\ utterances < MaxUtterances
  /\ AddTurns(conversations, c, <<Turn("agent")>>)
  /\ UNCHANGED <<maxTurns, timedOut>>

\* setConversationContext and setConversationTopic
TouchConversation(c) ==
  /\ c \in DOMAIN conversations
  /\ conversations' = [conversations EXCEPT ![c].idle = FALSE]
  /\ UNCHANGED <<maxTurns, saidIn, timedOut, utterances>>

\* The next turn added trims what is there
SetMaxHistory(n) ==
  /\ maxTurns' = Max({1, n})
  /\ UNCHANGED <<conversations, saidIn, timedOut, utterances>>

\* A conversation has been without activity for longer than _timeout
FallsIdle(c) ==
  /\ c \in DOMAIN conversations
  /\ conversations' = [conversations EXCEPT ![c].idle = TRUE]
  /\ UNCHANGED <<maxTurns, saidIn, timedOut, utterances>>

\* setTimeout to more than any has been idle
LengthenTimeout ==
  /\ conversations' = [c \in DOMAIN conversations |-> [conversations[c] EXCEPT !.idle = FALSE]]
  /\ UNCHANGED <<maxTurns, saidIn, timedOut, utterances>>

CleanupInactiveConversations ==
  LET late == {c \in ActiveConversations : conversations[c].idle}
  IN /\ conversations' = [c \in DOMAIN conversations |->
                            [conversations[c] EXCEPT !.active = @ /\ c \notin late]]
     /\ timedOut' = timedOut \cup late
     /\ UNCHANGED <<maxTurns, saidIn, utterances>>

DialogueInit ==
  /\ conversations = NoKeys /\ maxTurns = 200
  /\ saidIn = NoKeys /\ timedOut = {} /\ utterances = 0

\* What callers of the manager do with any conversation, and with their own
DialogueStep ==
  \/ \E c \in DOMAIN conversations : SpeakFirst(c) \/ TouchConversation(c) \/ FallsIdle(c)
  \/ \E n \in HistoryLimits : SetMaxHistory(n)
  \/ LengthenTimeout \/ CleanupInactiveConversations
  \/ \E c \in OwnConversations : StartConversation(c) \/ EndConversation(c) \/ ProcessMessage(c)
-----------------------------------------------------------------------------
\* The turns of a conversation are the latest of all that was said in it, in order, and
\* after a message of the user comes the reply to it.
TurnsAreRecent ==
  \A c \in DOMAIN conversations :
    LET turns == conversations[c].turns
    IN /\ IsSuffix(turns, saidIn[c])
       /\ saidIn[c] # <<>> => turns # <<>>
       /\ \A i \in DOMAIN turns : turns[i].by = "user" =>
            i < Len(turns) /\ turns[i + 1] = [turns[i] EXCEPT !.by = "agent"]
=============================================================================
