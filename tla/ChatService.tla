---------------------------- MODULE ChatService -----------------------------
(***************************************************************************)
(* Admission and recovery of Studio's conversations, Chats of              *)
(* apps/studio/src/chat.rs, as the goal board and the scheduler see it:    *)
(* which conversations have a worker, and the status each one has on disk. *)
(* What a worker does between its admission and its end is left out, and   *)
(* so are the pending actions that may keep a conversation from resuming.  *)
(***************************************************************************)
EXTENDS Naturals, FiniteSets

CONSTANTS Conversations

VARIABLES
  status,   \* of each conversation, in its database
  active,   \* conversations with a worker in this process
  stop      \* those whose stop flag is raised

chats == <<status, active, stop>>

MaxActive == 4

(* "working" stands for Planning, Working and Reviewing, "paused" for      *)
(* Stopped, Blocked, Needs input and Interrupted.                          *)
Statuses == {"absent", "working", "completed", "paused", "deleted"}

ChatsOK ==
  /\ status \in [Conversations -> Statuses]
  /\ active \subseteq Conversations /\ stop \subseteq active

ChatsInit ==
  /\ status = [c \in Conversations |-> "absent"]
  /\ active = {} /\ stop = {}

Launch(c) ==
  /\ c \notin active /\ Cardinality(active) < MaxActive
  /\ status' = [status EXCEPT ![c] = "working"]
  /\ active' = active \cup {c}
  /\ UNCHANGED stop

(* A new conversation; a saved one taken up again; a new turn in one.      *)
Send(c)     == status[c] = "absent" /\ Launch(c)
Resume(c)   == status[c] \in {"working", "paused"} /\ Launch(c)
FollowUp(c) == status[c] \in {"working", "paused", "completed"} /\ Launch(c)

(* The worker ends.  Its last save may fail, which the code ignores.       *)
End(c, outcome) ==
  /\ c \in active
  /\ status' = [status EXCEPT ![c] = IF outcome = "unsaved" THEN @ ELSE outcome]
  /\ active' = active \ {c} /\ stop' = stop \ {c}

Stop(c) ==
  /\ c \in active
  /\ stop' = stop \cup {c}
  /\ UNCHANGED <<status, active>>

Delete(c) ==
  /\ c \notin active /\ status[c] \notin {"absent", "deleted"}
  /\ status' = [status EXCEPT ![c] = "deleted"]
  /\ UNCHANGED <<active, stop>>

(* A restart: workers and stop flags are gone, and work found in progress  *)
(* is resumed, but for what a pending action or the limit holds back.      *)
Recover ==
  /\ \E found \in SUBSET {c \in Conversations : status[c] = "working"} :
       Cardinality(found) <= MaxActive /\ active' = found
  /\ stop' = {}
  /\ UNCHANGED status

(* get: a conversation in progress without a worker reads as interrupted.  *)
Reads(c) == IF status[c] = "working" /\ c \notin active THEN "paused" ELSE status[c]
=============================================================================
