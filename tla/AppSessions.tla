----------------------------- MODULE AppSessions -----------------------------
(***************************************************************************)
(* The application browsers of apps/studio/src/mcp.rs: one session for     *)
(* each conversation, under one lock, the least recently used given up     *)
(* when there are too many, numbered requests to the session's process,    *)
(* and the record that chat.rs keeps of a call until its outcome is known. *)
(* The check of an application from the settings uses a session of its own *)
(* (PROBE_SCOPE) among those of the conversations.                         *)
(***************************************************************************)
EXTENDS Naturals, FiniteSets, SequencesExt

CONSTANTS
  Conversations,
  Probe,             \* PROBE_SCOPE
  MaxSessions,       \* MAX_MCP_SESSIONS
  MaxRequests,       \* bound on requests of a session
  MaxStarts,         \* bound on sessions started
  None

Scopes == Conversations \cup {Probe}

VARIABLES
  installed,    \* the adapter package is there
  holder,       \* the scope with the lock of sessions(), or None
  session,      \* scope -> number of the last request and messages to read, or None
  order,        \* last_used: scopes with a session, the oldest first
  starts,       \* sessions started
  pendingCall,  \* conversation -> a call is on record
  fallback,     \* desktop_fallbacks: conversations that go by the desktop
  sent,         \* ghost: scopes whose call went out and has no answer
  lost,         \* ghost: conversations whose session the probe gave up
  foreign       \* ghost: something else was taken for the answer

appVars == <<installed, holder, session, order, starts, pendingCall, fallback, sent,
             lost, foreign>>

AppInit ==
  /\ installed = FALSE /\ holder = None /\ order = <<>> /\ starts = 0
  /\ session = [s \in Scopes |-> None]
  /\ pendingCall = {} /\ fallback = {} /\ sent = {} /\ lost = {} /\ foreign = FALSE

-----------------------------------------------------------------------------
Live == {s \in Scopes : session[s] # None}
Touch(s) == order' = Append(SelectSeq(order, LAMBDA x : x # s), s)
Drop(s) == order' = SelectSeq(order, LAMBDA x : x # s)

(* mcp_setup: the package, once.                                           *)
Setup(s) ==
  /\ holder # s /\ s \notin pendingCall /\ ~installed /\ installed' = TRUE
  /\ UNCHANGED <<holder, session, order, starts, pendingCall, fallback, sent, lost, foreign>>

(* A tool of a conversation is on record before it waits for the lock.     *)
RecordCall(c) ==
  /\ c \notin pendingCall \cup fallback /\ pendingCall' = pendingCall \cup {c}
  /\ UNCHANGED <<installed, holder, session, order, starts, fallback, sent, lost, foreign>>

TakeLock(s) ==
  /\ holder = None /\ s \in pendingCall \cup {Probe} /\ s \notin sent /\ holder' = s
  /\ UNCHANGED <<installed, session, order, starts, pendingCall, fallback, sent, lost, foreign>>

(* Stopped while it waits: nothing was dispatched.                         *)
StoppedWaiting(c) ==
  /\ c \in pendingCall \ sent /\ holder # c /\ pendingCall' = pendingCall \ {c}
  /\ UNCHANGED <<installed, holder, session, order, starts, fallback, sent, lost, foreign>>

(* Past the cap the least recently used session goes.                      *)
Evict ==
  /\ holder # None /\ session[holder] = None /\ Cardinality(Live) >= MaxSessions
  /\ LET victim == Head(order)
     IN /\ session' = [session EXCEPT ![victim] = None] /\ Drop(victim)
        /\ lost' = IF holder = Probe THEN lost \cup ({victim} \ {Probe}) ELSE lost
  /\ UNCHANGED <<installed, holder, starts, pendingCall, fallback, sent, foreign>>

(* start: the process, and requests that it answers in time.               *)
StartSession ==
  /\ holder # None /\ session[holder] = None /\ Cardinality(Live) < MaxSessions
  /\ installed /\ starts < MaxStarts /\ starts' = starts + 1
  /\ session' = [session EXCEPT ![holder] = [id |-> 0, wire |-> <<>>]]
  /\ Touch(holder)
  /\ UNCHANGED <<installed, holder, pendingCall, fallback, sent, lost, foreign>>

(* may_switch: the route failed before anything was dispatched.            *)
Switch(s) == fallback' = fallback \cup ({s} \ {Probe})

(* It does not start, for want of the package or otherwise.                *)
RouteUnavailable ==
  /\ holder # None /\ session[holder] = None /\ Cardinality(Live) < MaxSessions
  /\ holder' = None /\ pendingCall' = pendingCall \ {holder}
  /\ (Switch(holder) \/ UNCHANGED fallback)
  /\ UNCHANGED <<installed, session, order, starts, sent, lost, foreign>>

(* mcp_tools, and calls that are refused: the session is used.             *)
ListTools ==
  /\ holder # None /\ session[holder] # None /\ holder \notin sent
  /\ Touch(holder) /\ holder' = None /\ pendingCall' = pendingCall \ {holder}
  /\ UNCHANGED <<installed, session, starts, fallback, sent, lost, foreign>>

-----------------------------------------------------------------------------
Hears(s, message) == session' = [session EXCEPT ![s].wire = Append(@, message)]

(* request: under the next number.                                         *)
SendRequest ==
  /\ holder # None /\ session[holder] # None /\ holder \notin sent
  /\ session[holder].id < MaxRequests
  /\ session' = [session EXCEPT ![holder].id = @ + 1]
  /\ Touch(holder) /\ sent' = sent \cup {holder}
  /\ UNCHANGED <<installed, holder, starts, pendingCall, fallback, lost, foreign>>

(* The server answers, or asks something under a number of its own.        *)
ServerAnswers(s) ==
  /\ s \in sent \cap Live /\ ~\E m \in Range(session[s].wire) : m.kind = "answer"
  /\ Hears(s, [kind |-> "answer", id |-> session[s].id])
  /\ UNCHANGED <<installed, holder, order, starts, pendingCall, fallback, sent, lost, foreign>>
ServerAsks(s, n) ==
  /\ s \in Live /\ session[s].wire = <<>> /\ Hears(s, [kind |-> "request", id |-> n])
  /\ UNCHANGED <<installed, holder, order, starts, pendingCall, fallback, sent, lost, foreign>>

Mine_ById(s, message) == message.id = session[s].id
(* The answer has the number of the request and is no request itself.      *)
Mine(s, message) == message.id = session[s].id /\ message.kind = "answer"

(* One message read by the caller; a server's request is turned down, and  *)
(* an answer that tells of an error leaves the outcome uncertain.          *)
ReceiveMessage ==
  /\ holder # None /\ holder \in sent /\ session[holder].wire # <<>>
  /\ LET message == Head(session[holder].wire)
     IN IF Mine(holder, message)
        THEN /\ foreign' = (foreign \/ message.kind # "answer")
             /\ holder' = None
             /\ \/ sent' = sent \ {holder} /\ pendingCall' = pendingCall \ {holder}
                \/ UNCHANGED <<sent, pendingCall>>
        ELSE UNCHANGED <<foreign, sent, holder, pendingCall>>
  /\ session' = [session EXCEPT ![holder].wire = Tail(@)]
  /\ UNCHANGED <<installed, order, starts, fallback, lost>>

(* The wait is stopped, times out, or the process is gone: the session is  *)
(* dropped, and a conversation keeps the record of its call.               *)
OutcomeUncertain ==
  /\ holder # None /\ holder \in sent
  /\ session' = [session EXCEPT ![holder] = None] /\ Drop(holder)
  /\ sent' = sent \ {Probe} /\ holder' = None
  /\ UNCHANGED <<installed, starts, pendingCall, fallback, lost, foreign>>

(* The user looks, and resolves the call on record.                        *)
ResolveCall(c) ==
  /\ holder # c /\ c \in sent /\ sent' = sent \ {c} /\ pendingCall' = pendingCall \ {c}
  /\ UNCHANGED <<installed, holder, session, order, starts, fallback, lost, foreign>>

AppNext ==
  \/ \E s \in Scopes : Setup(s) \/ TakeLock(s) \/ ServerAnswers(s)
                       \/ \E n \in 1..MaxRequests : ServerAsks(s, n)
  \/ \E c \in Conversations : RecordCall(c) \/ StoppedWaiting(c) \/ ResolveCall(c)
  \/ Evict \/ StartSession \/ RouteUnavailable \/ ListTools \/ SendRequest
  \/ ReceiveMessage \/ OutcomeUncertain

AppSpec == AppInit /\ [][AppNext]_appVars

-----------------------------------------------------------------------------
(* What a caller takes for the answer is the answer to its request, and a  *)
(* call that went out without one is on record and has no other route      *)
(* ("never replay an uncertain write through another route"), though       *)
(* sessions are given up, started again and shared out.                    *)
CallsAnswered == ~foreign /\ sent \ {Probe} \subseteq pendingCall \ fallback

(* The check of an application never touches the session of a conversation *)
(* ("it never touches a conversation session").                            *)
ProbeTouchesNone == lost = {}
=============================================================================
