---------------------------- MODULE HumanInterface ----------------------------
(***************************************************************************)
(* HumanInterface (src/agentzero-communication/src/HumanInterface.cpp):    *)
(* sessions of users, each over a conversation of the DialogueManager it   *)
(* owns, and a default session.  endSession calls the manager under the    *)
(* interface's lock; starting a session and processing an input take the   *)
(* two locks one after the other, so that others come between.             *)
(*                                                                         *)
(* A session and its conversation have the same number.  Ids are drawn     *)
(* from the clock and a random number; two equal ones are left out.        *)
(***************************************************************************)
EXTENDS DialogueManager

CONSTANTS
  Users,         \* threads
  NoSession,     \* ""
  MaxSessions    \* bound: sessions ever started

ASSUME InterfaceAssumption ==
  /\ IsFiniteSet(Users) /\ NoSession \notin Nat /\ MaxSessions \in Nat
  /\ OwnConversations \cap 1..MaxSessions = {}

VARIABLES
  sessions,        \* _sessions: id -> [active, turns]
  defaultSession,  \* _default_session_id
  user             \* thread -> [at, session, then]: what it is doing, and after a start

interfaceVars == <<dialogueVars, sessions, defaultSession, user>>

Away == [at |-> "away", session |-> NoSession, then |-> "done"]
At(where, s, then) == [at |-> where, session |-> s, then |-> then]
Entering == {t \in Users : user[t].at = "opening"}
Started == DOMAIN sessions \cup {user[t].session : t \in Entering}
ActiveSessions == {s \in DOMAIN sessions : sessions[s].active}
-----------------------------------------------------------------------------
\* startSession; resetSession and processHumanInput come to where it begins
StartSession(t) ==
  /\ user[t].at = "away"
  /\ user' = [user EXCEPT ![t] = At("starting", NoSession, "done")]
  /\ UNCHANGED <<dialogueVars, sessions, defaultSession>>

\* The new session's conversation is started under the manager's lock...
OpenConversation(t) ==
  /\ user[t].at = "starting" /\ Cardinality(Started) < MaxSessions
  /\ LET s == Cardinality(Started) + 1
     IN /\ StartConversation(s)
        /\ user' = [user EXCEPT ![t] = At("opening", s, @.then)]
  /\ UNCHANGED <<sessions, defaultSession>>

\* ...and the session recorded under the interface's
RecordSession(t) ==
  LET s == user[t].session
  IN /\ user[t].at = "opening"
     /\ sessions' = With(sessions, s, [active |-> TRUE, turns |-> 0])
     /\ defaultSession' = IF defaultSession = NoSession THEN s ELSE defaultSession
     /\ user' = [user EXCEPT ![t] = IF @.then = "input" THEN At("input", s, "done") ELSE Away]
     /\ UNCHANGED dialogueVars

MutantKeepDefault(s) ==
  /\ s \in DOMAIN sessions
  /\ IF sessions[s].active THEN EndConversation(s) ELSE UNCHANGED dialogueVars
  /\ sessions' = [sessions EXCEPT ![s].active = FALSE]
  /\ UNCHANGED defaultSession
\* One critical section of the interface with one of the manager inside
EndSession(s) ==
  /\ s \in DOMAIN sessions
  /\ IF sessions[s].active THEN EndConversation(s) ELSE UNCHANGED dialogueVars
  /\ sessions' = [sessions EXCEPT ![s].active = FALSE]
  /\ defaultSession' = IF defaultSession = s THEN NoSession ELSE defaultSession

CallEndSession(t, s) ==
  /\ user[t].at = "away" /\ EndSession(s) /\ UNCHANGED user

\* resetSession reads the default, ends it if there is one, and starts another
BeginReset(t) ==
  /\ user[t].at = "away"
  /\ user' = [user EXCEPT ![t] = IF defaultSession = NoSession THEN At("starting", NoSession, "done")
                                 ELSE At("resetting", defaultSession, "done")]
  /\ UNCHANGED <<dialogueVars, sessions, defaultSession>>

EndOldSession(t) ==
  /\ user[t].at = "resetting" /\ EndSession(user[t].session)
  /\ user' = [user EXCEPT ![t] = At("starting", NoSession, "done")]

\* processHumanInput goes to the default session, or to a new one
BeginHumanInput(t) ==
  /\ user[t].at = "away"
  /\ user' = [user EXCEPT ![t] = IF defaultSession \in ActiveSessions THEN At("input", defaultSession, "done")
                                 ELSE At("starting", NoSession, "input")]
  /\ UNCHANGED <<dialogueVars, sessions, defaultSession>>

CallProcessInput(t, s) ==
  /\ user[t].at = "away"
  /\ user' = [user EXCEPT ![t] = At("input", s, "done")]
  /\ UNCHANGED <<dialogueVars, sessions, defaultSession>>

\* requireSession and the count; a session that is not active answers so
CountTurn(t) ==
  LET s == user[t].session
  IN /\ user[t].at = "input"
     /\ IF s \in ActiveSessions
        THEN /\ sessions[s].turns < MaxUtterances
             /\ sessions' = [sessions EXCEPT ![s].turns = @ + 1]
             /\ user' = [user EXCEPT ![t] = At("speaking", s, "done")]
        ELSE user' = [user EXCEPT ![t] = Away] /\ UNCHANGED sessions
     /\ UNCHANGED <<dialogueVars, defaultSession>>

\* The lock is released: the conversation may have ended by now
SpeakTurn(t) ==
  /\ user[t].at = "speaking" /\ ProcessMessage(user[t].session)
  /\ user' = [user EXCEPT ![t] = Away]
  /\ UNCHANGED <<sessions, defaultSession>>

InterfaceInit ==
  /\ DialogueInit
  /\ sessions = NoKeys /\ defaultSession = NoSession /\ user = [t \in Users |-> Away]

InterfaceStep ==
  \E t \in Users :
    \/ StartSession(t) \/ OpenConversation(t) \/ RecordSession(t)
    \/ BeginReset(t) \/ EndOldSession(t) \/ BeginHumanInput(t) \/ CountTurn(t) \/ SpeakTurn(t)
    \/ \E s \in DOMAIN sessions : CallEndSession(t, s) \/ CallProcessInput(t, s)

\* The manager is public
CallerStep == DialogueStep /\ UNCHANGED <<sessions, defaultSession, user>>

InterfaceNext == InterfaceStep \/ CallerStep
-----------------------------------------------------------------------------
UserTurns(c) == Cardinality({i \in DOMAIN saidIn[c] : saidIn[c][i].by = "user"})
SpeakingIn(c) == Cardinality({t \in Users : user[t].at = "speaking" /\ user[t].session = c})

\* Whoever ends a session while others start, reset and speak: its conversation is over for
\* good, the conversation of an active session is not unless it timed out, the default session
\* is an active one, and the turns counted are those said and those about to be, as long as
\* the conversation goes on.
SessionsAgree ==
  /\ \A s \in DOMAIN sessions :
       /\ s \in DOMAIN conversations
       /\ ~sessions[s].active => ~conversations[s].active
       /\ sessions[s].active => conversations[s].active \/ s \in timedOut
       /\ LET meant == UserTurns(s) + SpeakingIn(s)
          IN IF conversations[s].active THEN sessions[s].turns = meant ELSE sessions[s].turns >= meant
  /\ defaultSession # NoSession => defaultSession \in ActiveSessions
=============================================================================
