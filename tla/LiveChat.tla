------------------------------ MODULE LiveChat ------------------------------
(***************************************************************************)
(* The conversational log of apps/studio/src/live_chat.rs: messages sent   *)
(* while a goal runs are answered, or wait as follow-ups that a tick of    *)
(* the scheduler starts.  Every change of a message is a compare-and-set   *)
(* on its state.  The tick holds the admission lock, and so keeps users    *)
(* from sending, but not from cancelling, stopping or deleting; between    *)
(* its steps the worker runs on and the process may die.                   *)
(***************************************************************************)
EXTENDS ChatService, Sequences

CONSTANTS
  Messages,        \* request ids
  Of,              \* the conversation each is for
  Scopes,          \* workspaces and accesses a user may choose
  MaxOutstanding,  \* 32 in the code
  MaxSends,        \* bound on what users send themselves
  MaxRestarts,
  Nobody

VARIABLES
  message,   \* the state of each message
  log,       \* the messages, in the order they were written
  askedIn,   \* workspace and access at submission
  scope,     \* workspace and access of each conversation
  thinking,  \* messages an answering thread works on
  todo,      \* what the tick still has to look at, with the state it saw
  found,     \* the status the tick has read for the first of these, or Nobody
  sent,      \* users' sends so far, then restarts
  sends,     \* ghost: how often each message was sent
  goalOf,    \* ghost: the message the current goal of a conversation is
  achieved   \* ghost: the messages whose goals were completed

talk  == <<message, log, askedIn, thinking>>
pass  == <<todo, found>>
traced == <<sends, goalOf, achieved>>
talkVars == <<chats, talk, scope, pass, sent, traced>>

Outstanding == {"responding", "queued", "dispatching", "running"}
Settled == {"answered", "failed", "cancelled", "interrupted", "completed", "needs_attention"}

TalkInit ==
  /\ status = [c \in Conversations |-> "completed"] /\ active = {} /\ stop = {}
  /\ message = [m \in Messages |-> "none"] /\ log = <<>>
  /\ \E x \in Scopes : scope = [c \in Conversations |-> x]
  /\ askedIn = [m \in Messages |-> Nobody]
  /\ thinking = {} /\ todo = <<>> /\ found = Nobody
  /\ sent = [users |-> 0, restarts |-> 0]
  /\ sends = [m \in Messages |-> 0]
  /\ goalOf = [c \in Conversations |-> Nobody] /\ achieved = {}

-----------------------------------------------------------------------------
In(states) == {m \in Messages : message[m] \in states}

(* update: the state changes only from the one expected.                   *)
Move(m, from, to) ==
  message' = IF message[m] = from THEN [message EXCEPT ![m] = to] ELSE message

(* submit.  A question on the status is answered at once, a follow-up      *)
(* waits, and anything else is answered by a thread, one at a time.  A     *)
(* message id that is known is not taken again.                            *)
Submit(m, to) ==
  /\ message[m] = "none" /\ status[Of[m]] \notin {"absent", "deleted"}
  /\ Cardinality(In(Outstanding)) < MaxOutstanding
  /\ to = "responding" => ~\E n \in In({"responding"}) : Of[n] = Of[m]
  /\ message' = [message EXCEPT ![m] = to] /\ log' = Append(log, m)
  /\ askedIn' = [askedIn EXCEPT ![m] = scope[Of[m]]]
  /\ thinking' = IF to = "responding" THEN thinking \cup {m} ELSE thinking
  /\ UNCHANGED <<chats, scope, pass, sent, traced>>

(* answer: a reply, a task to queue, a failure; or its save fails.         *)
Answer(m, to) ==
  /\ m \in thinking /\ thinking' = thinking \ {m}
  /\ Move(m, "responding", to)
  /\ UNCHANGED <<chats, log, askedIn, scope, pass, sent, traced>>

Cancel(m) ==
  /\ message[m] \in {"queued", "responding"} /\ status[Of[m]] # "deleted"
  /\ message' = [message EXCEPT ![m] = "cancelled"]
  /\ UNCHANGED <<chats, log, askedIn, thinking, scope, pass, sent, traced>>

-----------------------------------------------------------------------------
(* tick: the first waiting or running message of every conversation, in    *)
(* the order of the log, with the state it has now.                        *)
Live == SelectSeq(log, LAMBDA m : message[m] \in {"queued", "running"})

IsFirst(m) == ~\E n \in Messages, i, j \in DOMAIN Live :
                 i < j /\ Live[i] = n /\ Live[j] = m /\ Of[n] = Of[m]

Begin ==
  /\ todo = <<>> /\ Live # <<>>
  /\ LET rows == SelectSeq(Live, IsFirst)
     IN todo' = [i \in DOMAIN rows |-> [id |-> rows[i], state |-> message[rows[i]]]]
  /\ UNCHANGED <<chats, talk, scope, found, sent, traced>>

Row == Head(todo).id
Its == Of[Row]
Advance == todo' = Tail(todo) /\ found' = Nobody

(* Chats::get: the status on disk, and then whether there is a worker.     *)
Look ==
  /\ todo # <<>> /\ found = Nobody
  /\ IF status[Its] = "deleted" THEN Advance
     ELSE found' = status[Its] /\ UNCHANGED todo
  /\ UNCHANGED <<chats, talk, scope, sent, traced>>

Got == IF found = "working" /\ Its \notin active THEN "paused" ELSE found

(* A running follow-up ends as its conversation stands.                    *)
Settle ==
  /\ todo # <<>> /\ found \notin {Nobody, "claimed"} /\ Head(todo).state = "running"
  /\ CASE Got = "completed" -> Move(Row, "running", "completed")
       [] Got = "paused" -> Move(Row, "running", "needs_attention")
       [] OTHER -> UNCHANGED message
  /\ Advance
  /\ UNCHANGED <<chats, log, askedIn, thinking, scope, sent, traced>>

Waiting == todo # <<>> /\ found \notin {Nobody, "claimed"} /\ Head(todo).state = "queued"

Ready == Got = "completed" /\ Its \notin active /\ Cardinality(active) < MaxActive

(* The queue waits, as it does while an approval is pending or queued.     *)
Skip ==
  /\ Waiting /\ Advance
  /\ UNCHANGED <<chats, talk, scope, sent, traced>>

Outdated ==
  /\ Waiting /\ Ready /\ askedIn[Row] # scope[Its]
  /\ Move(Row, "queued", "needs_attention") /\ Advance
  /\ UNCHANGED <<chats, log, askedIn, thinking, scope, sent, traced>>

(* The claim is on disk before anything is sent.                           *)
Claim ==
  /\ Waiting /\ Ready /\ askedIn[Row] = scope[Its]
  /\ Move(Row, "queued", "dispatching")
  /\ IF message[Row] = "queued" THEN found' = "claimed" /\ UNCHANGED todo ELSE Advance
  /\ UNCHANGED <<chats, log, askedIn, thinking, scope, sent, traced>>

(* Chats::send, which looks at the conversation and the limit once more.   *)
Dispatch ==
  /\ todo # <<>> /\ found = "claimed"
  /\ FollowUp(Its)
  /\ sends' = [sends EXCEPT ![Row] = @ + 1] /\ goalOf' = [goalOf EXCEPT ![Its] = Row]
  /\ found' = "started"
  /\ UNCHANGED <<talk, scope, todo, sent, achieved>>

Started ==
  /\ todo # <<>> /\ found = "started"
  /\ Move(Row, "dispatching", "running") /\ Advance
  /\ UNCHANGED <<chats, log, askedIn, thinking, scope, sent, traced>>

Refused ==
  /\ todo # <<>> /\ found = "claimed"
  /\ Move(Row, "dispatching", "needs_attention") /\ Advance
  /\ UNCHANGED <<chats, log, askedIn, thinking, scope, sent, traced>>

(* A database error ends this tick, not the next.                          *)
Abort ==
  /\ todo # <<>> /\ todo' = <<>> /\ found' = Nobody
  /\ UNCHANGED <<chats, talk, scope, sent, traced>>

-----------------------------------------------------------------------------
(* The worker of a conversation, and what users do to it.                  *)
GoalEnds(c, outcome) ==
  /\ End(c, outcome)
  /\ achieved' = IF outcome = "completed" THEN achieved \cup {goalOf[c]} ELSE achieved
  /\ UNCHANGED <<talk, scope, pass, sent, sends, goalOf>>

UserSends(c, x) ==
  /\ todo = <<>> /\ sent.users < MaxSends /\ sent' = [sent EXCEPT !.users = @ + 1]
  /\ FollowUp(c)
  /\ scope' = [scope EXCEPT ![c] = x] /\ goalOf' = [goalOf EXCEPT ![c] = Nobody]
  /\ UNCHANGED <<talk, pass, sends, achieved>>

UserResumes(c) ==
  /\ todo = <<>> /\ sent.users < MaxSends /\ sent' = [sent EXCEPT !.users = @ + 1]
  /\ Resume(c)
  /\ UNCHANGED <<talk, scope, pass, traced>>

UserStops(c) == Stop(c) /\ UNCHANGED <<talk, scope, pass, sent, traced>>

(* manage, "delete": the folder is moved, and forget, which may fail,      *)
(* removes the messages.                                                   *)
UserDeletes(c) ==
  /\ Delete(c)
  /\ \/ UNCHANGED <<message, log>>
     \/ /\ message' = [m \in Messages |-> IF Of[m] = c THEN "none" ELSE message[m]]
        /\ log' = SelectSeq(log, LAMBDA m : Of[m] # c)
  /\ UNCHANGED <<askedIn, thinking, scope, pass, sent, traced>>

Restart_Requeues ==
  /\ sent.restarts < MaxRestarts /\ sent' = [sent EXCEPT !.restarts = @ + 1]
  /\ Recover
  /\ message' = [m \in Messages |->
       CASE message[m] = "dispatching" -> "queued"
         [] message[m] = "responding" -> "interrupted" [] OTHER -> message[m]]
  /\ thinking' = {} /\ todo' = <<>> /\ found' = Nobody
  /\ UNCHANGED <<log, askedIn, scope, traced>>
(* recover: what was being answered or sent is not taken up again.         *)
Restart ==
  /\ sent.restarts < MaxRestarts /\ sent' = [sent EXCEPT !.restarts = @ + 1]
  /\ Recover
  /\ message' = [m \in Messages |->
       IF message[m] \in {"responding", "dispatching"} THEN "interrupted" ELSE message[m]]
  /\ thinking' = {} /\ todo' = <<>> /\ found' = Nobody
  /\ UNCHANGED <<log, askedIn, scope, traced>>

TalkNext ==
  \/ \E m \in Messages :
       \/ \E to \in {"answered", "queued", "responding"} : Submit(m, to)
       \/ \E to \in {"answered", "queued", "failed", "responding"} : Answer(m, to)
       \/ Cancel(m)
  \/ Begin \/ Look \/ Settle \/ Skip \/ Outdated \/ Claim \/ Dispatch \/ Started
  \/ Refused \/ Abort \/ Restart
  \/ \E c \in Conversations :
       \/ \E outcome \in {"completed", "paused", "unsaved"} : GoalEnds(c, outcome)
       \/ \E x \in Scopes : UserSends(c, x)
       \/ UserResumes(c) \/ UserStops(c) \/ UserDeletes(c)

TalkSpec == TalkInit /\ [][TalkNext]_talkVars

-----------------------------------------------------------------------------
TalkOK ==
  /\ ChatsOK
  /\ message \in [Messages -> {"none"} \cup Outstanding \cup Settled]
  /\ log \in Seq(Messages) /\ thinking \subseteq Messages
  /\ askedIn \in [Messages -> Scopes \cup {Nobody}] /\ scope \in [Conversations -> Scopes]
  /\ found \in Statuses \cup {Nobody, "claimed", "started"}
  /\ todo \in Seq([id : Messages, state : {"queued", "running"}])
  /\ sends \in [Messages -> Nat] /\ goalOf \in [Conversations -> Messages \cup {Nobody}]
  /\ achieved \subseteq Messages \cup {Nobody}

(* Dispatch claims survive crashes without replay (live_chat.rs:2): a      *)
(* follow-up is sent at most once, and one that the log shows as waiting,  *)
(* answered or cancelled never was, whatever cancels, restarts, failed     *)
(* saves and deletions came between the claim, the send and the record.    *)
FollowUpSentOnce ==
  \A m \in Messages :
    /\ sends[m] <= 1
    /\ message[m] \in {"responding", "queued", "answered", "failed", "cancelled"} => sends[m] = 0

(* A follow-up starts only in the workspace and with the access it was     *)
(* asked for, after the goal before it was completed, and never while      *)
(* another runs in its conversation (tick).                                *)
StartsAsAsked ==
  [][\A m \in Messages : sends'[m] > sends[m] =>
       askedIn[m] = scope[Of[m]] /\ status[Of[m]] = "completed" /\ Of[m] \notin active]_talkVars

(* The log says "Queued task: Completed." (live_chat.rs:642) of a          *)
(* follow-up whose own goal was completed.                                 *)
CompletedIsItsGoal == \A m \in In({"completed"}) : m \in achieved
=============================================================================
