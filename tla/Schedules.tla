------------------------------ MODULE Schedules -----------------------------
(***************************************************************************)
(* Studio's interval jobs, apps/studio/src/schedules.rs, over the          *)
(* conversations of ChatService.  As on the goal board the admission lock  *)
(* makes steps atomic to each other, but a dispatch is parted by its two   *)
(* saves, and a tick that looks at a running job's conversation reads its  *)
(* status first and asks whether it has a worker after (Chats::get).       *)
(***************************************************************************)
EXTENDS ChatService

CONSTANTS
  Jobs,            \* schedules that may be created
  Pool,            \* conversations their runs may become
  Manual,          \* what users do with those conversations
  MaxOccurrences,  \* bound on the intervals of each schedule that elapse
  MaxFaults,       \* bound on restarts and scheduler errors
  None

ASSUME ScheduleAssumption ==
  /\ IsFiniteSet(Conversations) /\ Pool \subseteq Conversations
  /\ None \notin Jobs \cup Conversations \cup Statuses
  /\ MaxOccurrences \in Nat /\ MaxFaults \in Nat

VARIABLES
  state,      \* state of each schedule
  enabled,    \* those enabled
  last,       \* last_chat
  due,        \* those whose next_run_ms has passed
  holder,     \* the schedule a tick works on under the admission lock, or None
  admitted,   \* the conversation admitted for it, or None
  seen,       \* the status a tick has read from the disk, or None
  ticking,    \* the scheduler thread lives
  faults,
  elapsed,    \* ghost: intervals that have elapsed
  madeFor,    \* ghost: the schedule each conversation was made for
  succeeded,  \* ghost: conversations that have ended completed
  revived,    \* ghost: conversations users have taken up again
  cleared     \* ghost: conversations older than the last enable

rows  == <<state, enabled, last, due>>
tick  == <<holder, admitted, seen>>
host  == <<ticking, faults>>
ghost == <<elapsed, madeFor, succeeded, revived, cleared>>
vars  == <<chats, rows, tick, host, ghost>>

Runs(s) == {c \in Pool : madeFor[c] = s}

TypeOK ==
  /\ ChatsOK
  /\ state \in [Jobs -> {"absent", "Waiting", "Dispatching", "Running", "Needs attention"}]
  /\ enabled \subseteq Jobs /\ due \subseteq Jobs
  /\ last \in [Jobs -> Pool \cup {None}]
  /\ \A s \in Jobs : state[s] = "Running" => last[s] # None
  /\ \A s \in Jobs : last[s] # None => madeFor[last[s]] = s
  /\ holder \in Jobs \cup {None} /\ admitted \in Pool \cup {None}
  /\ seen \in Statuses \cup {None}
  /\ ticking \in BOOLEAN /\ faults \in 0 .. MaxFaults
  /\ elapsed \in [Jobs -> 0 .. MaxOccurrences]
  /\ madeFor \in [Pool -> Jobs \cup {None}]
  /\ succeeded \subseteq Pool /\ revived \subseteq Pool /\ cleared \subseteq Pool

Init ==
  /\ ChatsInit
  /\ state = [s \in Jobs |-> "absent"] /\ enabled = {} /\ due = {}
  /\ last = [s \in Jobs |-> None]
  /\ holder = None /\ admitted = None /\ seen = None
  /\ ticking = TRUE /\ faults = 0
  /\ elapsed = [s \in Jobs |-> 0]
  /\ madeFor = [c \in Pool |-> None] /\ succeeded = {}
  /\ revived = {} /\ cleared = {}

-----------------------------------------------------------------------------
Open == holder = None

SetState(s, x) == state' = [state EXCEPT ![s] = x]

Create(s) ==
  /\ Open /\ state[s] = "absent" /\ elapsed[s] = 0
  /\ SetState(s, "Waiting") /\ enabled' = enabled \cup {s}
  /\ UNCHANGED <<chats, last, due, tick, host, ghost>>

(* Deleting a schedule keeps its conversations.                            *)
Remove(s) ==
  /\ Open /\ state[s] # "absent"
  /\ SetState(s, "absent") /\ enabled' = enabled \ {s} /\ due' = due \ {s}
  /\ last' = [last EXCEPT ![s] = None]
  /\ elapsed' = [elapsed EXCEPT ![s] = MaxOccurrences]
  /\ UNCHANGED <<chats, tick, host, madeFor, succeeded, revived, cleared>>

Pause(s) ==
  /\ Open /\ state[s] # "absent"
  /\ enabled' = enabled \ {s}
  /\ UNCHANGED <<chats, state, last, due, tick, host, ghost>>

Finished(c) == Reads(c) \in {"completed", "paused"}

Enable(s) ==
  /\ Open /\ state[s] # "absent"
  /\ last[s] # None => Finished(last[s])
  /\ SetState(s, "Waiting") /\ enabled' = enabled \cup {s}
  /\ last' = [last EXCEPT ![s] = None] /\ due' = due \ {s}
  /\ cleared' = cleared \cup Runs(s)
  /\ UNCHANGED <<chats, tick, host, elapsed, madeFor, succeeded, revived>>

Elapse(s) ==
  /\ state[s] = "Waiting" /\ s \notin due /\ elapsed[s] < MaxOccurrences
  /\ due' = due \cup {s} /\ elapsed' = [elapsed EXCEPT ![s] = @ + 1]
  /\ UNCHANGED <<chats, state, enabled, last, tick, host, madeFor, succeeded, revived, cleared>>

-----------------------------------------------------------------------------
(* tick, for a running schedule: the conversation is read from the disk ...*)
Look(s) ==
  /\ Open /\ ticking /\ s \in enabled /\ state[s] = "Running"
  /\ holder' = s /\ seen' = status[last[s]]
  /\ UNCHANGED <<chats, rows, admitted, host, ghost>>

(* ... and a status in progress counts only with a worker.                 *)
Settle_Lenient(s) ==
  /\ holder = s /\ seen # None
  /\ IF seen = "working" /\ last[s] \in active
     THEN UNCHANGED <<state, enabled, due>>
     ELSE IF seen \in {"completed", "working"}
     THEN SetState(s, "Waiting") /\ due' = due \ {s} /\ UNCHANGED enabled
     ELSE SetState(s, "Needs attention") /\ enabled' = enabled \ {s} /\ UNCHANGED due
  /\ holder' = None /\ seen' = None
  /\ UNCHANGED <<chats, last, admitted, host, ghost>>
Settle_Enabled(s) ==
  /\ holder = s /\ seen # None
  /\ IF seen = "working" /\ last[s] \in active
     THEN UNCHANGED <<state, due>>
     ELSE IF seen = "completed"
     THEN SetState(s, "Waiting") /\ due' = due \ {s}
     ELSE SetState(s, "Needs attention") /\ UNCHANGED due
  /\ holder' = None /\ seen' = None
  /\ UNCHANGED <<chats, enabled, last, admitted, host, ghost>>
Settle(s) ==
  /\ holder = s /\ seen # None
  /\ IF seen = "working" /\ last[s] \in active
     THEN UNCHANGED <<state, enabled, due>>
     ELSE IF seen = "completed"
     THEN SetState(s, "Waiting") /\ due' = due \ {s} /\ UNCHANGED enabled
     ELSE SetState(s, "Needs attention") /\ enabled' = enabled \ {s} /\ UNCHANGED due
  /\ holder' = None /\ seen' = None
  /\ UNCHANGED <<chats, last, admitted, host, ghost>>

(* tick, for a schedule that is due: the claim, the admission, the record. *)
Claim(s) ==
  /\ Open /\ ticking /\ s \in enabled /\ state[s] = "Waiting" /\ s \in due
  /\ Cardinality(active) < MaxActive
  /\ SetState(s, "Dispatching") /\ last' = [last EXCEPT ![s] = None]
  /\ holder' = s
  /\ UNCHANGED <<chats, enabled, due, admitted, seen, host, ghost>>

Dispatching(s) == holder = s /\ state[s] = "Dispatching"

Unused == {c \in Pool : status[c] = "absent"}

Admit(s) ==
  /\ Dispatching(s) /\ admitted = None /\ Unused # {}
  /\ LET c == CHOOSE c \in Unused : TRUE
     IN Send(c) /\ admitted' = c /\ madeFor' = [madeFor EXCEPT ![c] = s]
  /\ UNCHANGED <<rows, holder, seen, host, elapsed, succeeded, revived, cleared>>

Refused(s) ==
  /\ Dispatching(s) /\ admitted = None
  /\ SetState(s, "Needs attention") /\ enabled' = enabled \ {s}
  /\ holder' = None
  /\ UNCHANGED <<chats, last, due, admitted, seen, host, ghost>>

Bind(s) ==
  /\ Dispatching(s) /\ admitted # None
  /\ SetState(s, "Running") /\ last' = [last EXCEPT ![s] = admitted]
  /\ holder' = None /\ admitted' = None
  /\ UNCHANGED <<chats, enabled, due, seen, host, ghost>>

(* A database error ends the scheduler thread, and lets the lock go.       *)
TickError ==
  /\ ticking /\ faults < MaxFaults
  /\ ticking' = FALSE /\ faults' = faults + 1
  /\ holder' = None /\ admitted' = None /\ seen' = None
  /\ UNCHANGED <<chats, rows, ghost>>

-----------------------------------------------------------------------------
RunEnd(c, outcome) ==
  /\ End(c, outcome)
  /\ succeeded' = IF outcome = "completed" THEN succeeded \cup {c} ELSE succeeded
  /\ UNCHANGED <<rows, tick, host, elapsed, madeFor, revived, cleared>>

UserStop(c)   == "stop" \in Manual /\ Stop(c) /\ UNCHANGED <<rows, tick, host, ghost>>
UserDelete(c) == "delete" \in Manual /\ Delete(c) /\ UNCHANGED <<rows, tick, host, ghost>>

(* With the saved goal or with another instruction.                        *)
UserSend(c) ==
  /\ Open /\ "send" \in Manual
  /\ Resume(c) \/ FollowUp(c)
  /\ revived' = revived \cup {c}
  /\ UNCHANGED <<rows, tick, host, elapsed, madeFor, succeeded, cleared>>

(* The process ends at any moment and starts again.                        *)
Restart ==
  /\ faults < MaxFaults /\ faults' = faults + 1
  /\ Recover
  /\ LET torn == {s \in Jobs : state[s] = "Dispatching"}
     IN /\ state' = [s \in Jobs |-> IF s \in torn THEN "Needs attention" ELSE state[s]]
        /\ enabled' = enabled \ torn
  /\ holder' = None /\ admitted' = None /\ seen' = None /\ ticking' = TRUE
  /\ UNCHANGED <<last, due, ghost>>

Endings == {"completed", "paused", "unsaved"}

Next ==
  \/ TickError \/ Restart
  \/ \E s \in Jobs :
       \/ Create(s) \/ Remove(s) \/ Pause(s) \/ Enable(s) \/ Elapse(s)
       \/ Look(s) \/ Settle(s) \/ Claim(s) \/ Admit(s) \/ Refused(s) \/ Bind(s)
  \/ \E c \in Pool :
       \/ \E outcome \in Endings : RunEnd(c, outcome)
       \/ UserStop(c) \/ UserDelete(c) \/ UserSend(c)

Spec == Init /\ [][Next]_vars

(* The scheduler ticks every second, and a run's limits are finite.        *)
Fairness ==
  /\ \A s \in Jobs :
       /\ WF_vars(Look(s)) /\ WF_vars(Settle(s)) /\ WF_vars(Claim(s))
       /\ WF_vars(Admit(s) \/ Refused(s)) /\ WF_vars(Bind(s))
  /\ \A c \in Pool : WF_vars(\E outcome \in Endings : RunEnd(c, outcome))

LiveSpec == Spec /\ Fairness

-----------------------------------------------------------------------------
(* An occurrence is never replayed, whatever fails between its claim and   *)
(* its record: there are no more runs than intervals that have elapsed.    *)
NeverReplayed == \A s \in Jobs : Cardinality(Runs(s)) <= elapsed[s]

(* "Blocked, stopped, missing, approval-waiting and failed runs pause      *)
(* future runs" (docs/autonomy-controls.md:69): a schedule that waits for  *)
(* its next run has completed every run the user has not cleared by        *)
(* enabling it.                                                            *)
FailurePauses ==
  \A s \in enabled : state[s] = "Waiting" => Runs(s) \subseteq succeeded \cup cleared

(* "Active runs never overlap within a schedule"                           *)
(* (docs/autonomy-controls.md:67), but for those users take up again.      *)
NoOverlap == \A s \in Jobs : Cardinality((Runs(s) \cap active) \ revived) <= 1

(* They do not until the process has died or the scheduler has failed.     *)
NoOverlapBeforeFaults == faults = 0 => NoOverlap

RunsAccounted == NeverReplayed /\ FailurePauses /\ NoOverlapBeforeFaults

(* While the scheduler lives and users leave the conversations alone, no   *)
(* run stays unsettled, and no due interval without one.                   *)
RunsSettle ==
  <>[](ticking /\ active \cap revived = {}) =>
    \A s \in Jobs : (s \in enabled /\ (state[s] \in {"Dispatching", "Running"} \/ s \in due)) ~>
      (s \notin enabled \/ (state[s] = "Waiting" /\ s \notin due))
=============================================================================
