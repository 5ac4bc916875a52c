------------------------------ MODULE GoalBoard -----------------------------
(***************************************************************************)
(* Studio's durable goal board, apps/studio/src/coordinator.rs, over the   *)
(* conversations of ChatService.  The admission lock makes an operation on *)
(* the board, a new conversation and the parts of a tick atomic to each    *)
(* other, except that a dispatch saves its claim before the conversation   *)
(* is admitted and its result after: the two may be parted by a crash, by  *)
(* an error, or by what needs no admission.                                *)
(* An archived identifier that is submitted again counts as another goal.  *)
(***************************************************************************)
EXTENDS ChatService

CONSTANTS
  Goals,       \* identifiers of goals
  Pool,        \* conversations the board may create, the rest are of others
  DepChoices,  \* dependency functions a batch may be submitted with
  Exclusive,   \* goals with Desktop, Apps or an ordinary Terminal
  Verified,    \* goals with require_verified
  Shared,      \* pairs of goals of one worktree
  Manual,      \* what users do with the conversations of goals
  MaxFaults,   \* bound on restarts and scheduler errors
  None

Slots == 2

ASSUME BoardAssumption ==
  /\ Pool \subseteq Conversations /\ None \notin Goals \cup Conversations
  /\ DepChoices \subseteq [Goals -> SUBSET Goals]
  /\ Exclusive \subseteq Goals /\ Verified \subseteq Goals
  /\ Shared \subseteq Goals \X Goals
  /\ \A g, h \in Goals : <<g, h>> \in Shared => <<h, g>> \in Shared
  /\ Manual \subseteq {"recheck", "stop", "resume", "followup", "delete", "edits"}
  /\ MaxFaults \in Nat
ASSUME FinitelyMany == IsFiniteSet(Conversations)   \* one directory holds them

VARIABLES
  job,       \* state of each job
  deps,      \* its depends_on
  link,      \* the conversation recorded in it, or None
  claimed,   \* the job being dispatched under the admission lock, or None
  admitted,  \* the conversation admitted for it, or None
  own,       \* conversations whose turn works on the goal they were made for
  result,    \* acceptance recorded in each conversation
  holds,     \* conversations whose contract the files satisfy now
  ticking,   \* the scheduler thread lives
  quiesced,  \* an upgrade has closed admission
  faults,
  madeFor,   \* ghost: the goal each conversation was made for
  achieved   \* ghost: the best end of a turn on that goal

board == <<job, deps, link>>
lock  == <<claimed, admitted>>
turn  == <<own, result, holds, achieved>>
host  == <<ticking, quiesced, faults>>
vars  == <<chats, board, lock, turn, host, madeFor>>

Outcomes == {"none", "reviewed", "verified"}
Held     == {"running", "dispatching", "stopping"}
Settled  == {"completed", "cancelled", "needs_attention"}

TypeOK ==
  /\ ChatsOK
  /\ job \in [Goals -> Held \cup Settled \cup {"absent", "queued", "archived"}]
  /\ deps \in [Goals -> SUBSET Goals]
  /\ link \in [Goals -> Pool \cup {None}]
  /\ \A g \in Goals :
       /\ link[g] # None => madeFor[link[g]] = g
       /\ job[g] \in {"running", "stopping", "completed"} => link[g] # None
  /\ claimed \in Goals \cup {None} /\ admitted \in Pool \cup {None}
  /\ own \subseteq Pool /\ holds \subseteq Pool
  /\ result \in [Pool -> Outcomes] /\ achieved \in [Pool -> Outcomes]
  /\ ticking \in BOOLEAN /\ quiesced \in BOOLEAN
  /\ faults \in 0 .. MaxFaults
  /\ madeFor \in [Pool -> Goals \cup {None}]

Init ==
  /\ ChatsInit
  /\ job = [g \in Goals |-> "absent"] /\ deps = [g \in Goals |-> {}]
  /\ link = [g \in Goals |-> None]
  /\ claimed = None /\ admitted = None
  /\ own = {} /\ holds = {}
  /\ result = [c \in Pool |-> "none"] /\ achieved = [c \in Pool |-> "none"]
  /\ ticking = TRUE /\ quiesced = FALSE /\ faults = 0
  /\ madeFor = [c \in Pool |-> None]

-----------------------------------------------------------------------------
Open == claimed = None /\ ~quiesced   \* the admission lock may be taken

OnBoard == {g \in Goals : job[g] \notin {"absent", "archived"}}

(* validate_graph: the jobs can be visited dependencies first.             *)
ValidGraph(all, d) ==
  \A S \in (SUBSET all) \ {{}} : \E g \in S : d[g] \subseteq all \ S

SetJob(g, s) == job' = [job EXCEPT ![g] = s]

Submit ==
  /\ Open
  /\ \E batch \in SUBSET {g \in Goals : job[g] = "absent"}, d \in DepChoices :
       LET d2 == [g \in Goals |-> IF g \in batch THEN d[g] ELSE deps[g]]
       IN /\ batch # {} /\ ValidGraph(OnBoard \cup batch, d2)
          /\ job' = [g \in Goals |-> IF g \in batch THEN "queued" ELSE job[g]]
          /\ deps' = d2
  /\ UNCHANGED <<chats, link, lock, turn, host, madeFor>>

Recheck(g) ==
  /\ Open /\ "recheck" \in Manual
  /\ job[g] = "needs_attention" /\ link[g] # None
  /\ SetJob(g, "running")
  /\ UNCHANGED <<chats, deps, link, lock, turn, host, madeFor>>

Cancel(g) ==
  /\ Open
  /\ \/ /\ job[g] = "running" /\ SetJob(g, "stopping")
        /\ IF link[g] \in active THEN Stop(link[g]) ELSE UNCHANGED chats
     \/ job[g] = "queued" /\ SetJob(g, "cancelled") /\ UNCHANGED chats
  /\ UNCHANGED <<deps, link, lock, turn, host, madeFor>>

Archive(g) ==
  /\ Open /\ job[g] \in Settled
  /\ \A h \in OnBoard : g \notin deps[h]
  /\ SetJob(g, "archived")
  /\ UNCHANGED <<chats, deps, link, lock, turn, host, madeFor>>

-----------------------------------------------------------------------------
(* tick, for a job whose conversation has no worker any more.              *)
Accepted(g, c) ==
  /\ c \in own /\ Reads(c) = "completed"
  /\ g \in Verified => result[c] = "verified" /\ c \in holds

Reconcile_RunningOnly(g) ==
  /\ Open /\ ticking
  /\ job[g] = "running" /\ link[g] # None /\ link[g] \notin active
  /\ SetJob(g, CASE status[link[g]] = "deleted" -> "needs_attention"
                 [] job[g] = "stopping"   -> "cancelled"
                 [] Accepted(g, link[g])  -> "completed"
                 [] OTHER                 -> "needs_attention")
  /\ UNCHANGED <<chats, deps, link, lock, turn, host, madeFor>>
Reconcile(g) ==
  /\ Open /\ ticking
  /\ job[g] \in {"running", "stopping"} /\ link[g] # None /\ link[g] \notin active
  /\ SetJob(g, CASE status[link[g]] = "deleted" -> "needs_attention"
                 [] job[g] = "stopping"   -> "cancelled"
                 [] Accepted(g, link[g])  -> "completed"
                 [] OTHER                 -> "needs_attention")
  /\ UNCHANGED <<chats, deps, link, lock, turn, host, madeFor>>

(* tick, for a queued job: the dispatch claim is saved under the lock.     *)
Free_Shared(g) ==
  /\ Cardinality({h \in Goals : job[h] \in Held}) < Slots
  /\ Cardinality(active) < Slots
  /\ g \in Exclusive => active = {}
Free(g) ==
  /\ Cardinality({h \in Goals : job[h] \in Held}) < Slots
  /\ Cardinality(active) < Slots
  /\ g \in Exclusive => active = {}
  /\ \A h \in Goals : job[h] \in {"running", "stopping"} =>
       h \notin Exclusive /\ <<g, h>> \notin Shared

Claim_Early(g) ==
  /\ Open /\ ticking /\ job[g] = "queued"
  /\ \A d \in deps[g] : job[d] \in Settled
  /\ Free(g)
  /\ SetJob(g, "dispatching")
  /\ claimed' = g /\ admitted' = None
  /\ UNCHANGED <<chats, deps, link, turn, host, madeFor>>
Claim(g) ==
  /\ Open /\ ticking /\ job[g] = "queued"
  /\ \A d \in deps[g] : job[d] = "completed"
  /\ Free(g)
  /\ SetJob(g, "dispatching")
  /\ claimed' = g /\ admitted' = None
  /\ UNCHANGED <<chats, deps, link, turn, host, madeFor>>

Unused == {c \in Pool : status[c] = "absent"}

Admit(g) ==
  /\ claimed = g /\ admitted = None /\ Unused # {}
  /\ LET c == CHOOSE c \in Unused : TRUE
     IN /\ Send(c)
        /\ admitted' = c
        /\ own' = own \cup {c} /\ madeFor' = [madeFor EXCEPT ![c] = g]
  /\ UNCHANGED <<board, claimed, result, holds, achieved, host>>

Refused(g) ==
  /\ claimed = g /\ admitted = None
  /\ SetJob(g, "needs_attention")
  /\ claimed' = None
  /\ UNCHANGED <<chats, deps, link, admitted, turn, host, madeFor>>

Bind(g) ==
  /\ claimed = g /\ admitted # None
  /\ SetJob(g, "running") /\ link' = [link EXCEPT ![g] = admitted]
  /\ claimed' = None /\ admitted' = None
  /\ UNCHANGED <<chats, deps, turn, host, madeFor>>

(* A database error ends the scheduler thread, and lets the lock go.       *)
TickError ==
  /\ ticking /\ ~quiesced /\ faults < MaxFaults
  /\ ticking' = FALSE /\ faults' = faults + 1
  /\ claimed' = None /\ admitted' = None
  /\ UNCHANGED <<chats, board, turn, quiesced, madeFor>>

-----------------------------------------------------------------------------
(* What happens to conversations: a goal's turn ends ...                   *)
TurnEnd(c, outcome) ==
  /\ End(c, outcome)
  /\ IF outcome = "completed"
     THEN \E r \in {"reviewed", "verified"} :
            /\ result' = [result EXCEPT ![c] = r]
            /\ holds' = IF r = "verified" THEN holds \cup {c} ELSE holds \ {c}
            /\ achieved' = [achieved EXCEPT ![c] =
                              IF c \in own /\ @ # "verified" THEN r ELSE @]
     ELSE UNCHANGED <<result, holds, achieved>>
  /\ UNCHANGED <<board, lock, own, host, madeFor>>

(* ... users and schedules have conversations of their own, and users act  *)
(* on those of goals.  All that starts a worker takes the admission lock.  *)
OthersSend(c) ==
  /\ Open /\ Launch(c) /\ UNCHANGED <<board, lock, turn, host, madeFor>>

OthersEnd(c) ==
  /\ \E outcome \in {"completed", "paused"} : End(c, outcome)
  /\ UNCHANGED <<board, lock, turn, host, madeFor>>

UserStop(c) ==
  /\ "stop" \in Manual
  /\ Stop(c)
  /\ UNCHANGED <<board, lock, turn, host, madeFor>>

UserResume(c) ==
  /\ Open /\ "resume" \in Manual
  /\ Resume(c)
  /\ UNCHANGED <<board, lock, turn, host, madeFor>>

UserFollowUp(c) ==
  /\ Open /\ "followup" \in Manual
  /\ FollowUp(c)
  /\ own' = own \ {c} /\ result' = [result EXCEPT ![c] = "none"]
  /\ UNCHANGED <<board, lock, holds, achieved, host, madeFor>>

UserDelete(c) ==
  /\ "delete" \in Manual
  /\ Delete(c)
  /\ UNCHANGED <<board, lock, turn, host, madeFor>>

Spoil(c) ==
  /\ "edits" \in Manual
  /\ holds' = holds \ {c}
  /\ UNCHANGED <<chats, board, lock, own, result, achieved, host, madeFor>>

-----------------------------------------------------------------------------
(* An upgrade closes admission before the process ends.                    *)
Quiesce ==
  /\ claimed = None /\ faults < MaxFaults
  /\ quiesced' = TRUE
  /\ UNCHANGED <<chats, board, lock, turn, ticking, faults, madeFor>>

(* The process ends at any moment and starts again: conversations are      *)
(* recovered, then the board.                                              *)
Restart_Requeue ==
  /\ faults < MaxFaults /\ faults' = faults + 1
  /\ Recover
  /\ job' = [g \in Goals |-> IF job[g] = "dispatching" THEN "queued" ELSE job[g]]
  /\ claimed' = None /\ admitted' = None
  /\ ticking' = TRUE /\ quiesced' = FALSE
  /\ UNCHANGED <<deps, link, turn, madeFor>>
Restart ==
  /\ faults < MaxFaults /\ faults' = faults + 1
  /\ Recover
  /\ job' = [g \in Goals |-> IF job[g] = "dispatching" THEN "needs_attention" ELSE job[g]]
  /\ claimed' = None /\ admitted' = None
  /\ ticking' = TRUE /\ quiesced' = FALSE
  /\ UNCHANGED <<deps, link, turn, madeFor>>

Others == Conversations \ Pool
Endings == {"completed", "paused", "unsaved"}

Next ==
  \/ Submit \/ TickError \/ Quiesce \/ Restart
  \/ \E g \in Goals :
       \/ Recheck(g) \/ Cancel(g) \/ Archive(g)
       \/ Reconcile(g) \/ Claim(g) \/ Admit(g) \/ Refused(g) \/ Bind(g)
  \/ \E c \in Pool :
       \/ \E outcome \in Endings : TurnEnd(c, outcome)
       \/ UserStop(c) \/ UserResume(c) \/ UserFollowUp(c) \/ UserDelete(c) \/ Spoil(c)
  \/ \E c \in Others : OthersSend(c) \/ OthersEnd(c)

Spec == Init /\ [][Next]_vars

(* The scheduler ticks every second, and a worker's turn ends: its step,   *)
(* time, token and review limits are finite.                               *)
Fairness ==
  /\ \A g \in Goals :
       /\ WF_vars(Reconcile(g)) /\ WF_vars(Claim(g))
       /\ WF_vars(Admit(g) \/ Refused(g)) /\ WF_vars(Bind(g))
  /\ \A c \in Pool : WF_vars(\E outcome \in Endings : TurnEnd(c, outcome))

LiveSpec == Spec /\ Fairness

-----------------------------------------------------------------------------
(* A goal is never replayed: whatever crashes between the claim, the       *)
(* admission and the record of it, and whatever users do, at most one      *)
(* conversation is started for it (module comment of coordinator.rs).      *)
NeverReplayed ==
  \A c, d \in Pool : c # d /\ madeFor[c] # None => madeFor[c] # madeFor[d]

(* A started goal's dependencies were accepted and stay on the board as    *)
(* long as it does.                                                        *)
InOrder ==
  \A c \in Pool : madeFor[c] \in OnBoard =>
    \A d \in deps[madeFor[c]] : job[d] = "completed"

(* While a claim is held the admission lock keeps every other worker out,  *)
(* so the slot the dispatch counted is still free when it is used.         *)
SlotKept ==
  claimed # None /\ admitted = None =>
    /\ Cardinality(active) < Slots
    /\ claimed \in Exclusive => active = {}

(* A job is completed on a turn that worked on the goal itself, verified   *)
(* if the caller asked for it, although users may have followed up in the  *)
(* conversation, resumed it or changed its files before the tick read it.  *)
CompletedIsGoal ==
  \A g \in Goals : job[g] = "completed" =>
    achieved[link[g]] \in IF g \in Verified THEN {"verified"} ELSE {"reviewed", "verified"}

(* "Desktop, app API and ordinary Terminal jobs run alone among            *)
(* coordinated jobs" (docs/autonomous-workflows.md:7), and two jobs never  *)
(* work in one worktree.                                                   *)
ExclusiveAlone ==
  \A c, d \in active \cap Pool :
    c # d => /\ madeFor[c] \notin Exclusive
             /\ <<madeFor[c], madeFor[d]>> \notin Shared

(* A cancelled job's worker has been told to stop for as long as it runs.  *)
CancelStops ==
  \A g \in Goals : job[g] = "stopping" /\ link[g] \in active => link[g] \in stop

(* The slot that was counted is there, always.  Jobs stay apart and        *)
(* cancelled ones told for as long as only the board starts their workers: *)
(* a user who resumes one or follows up in it, and a restart, which        *)
(* resumes what was at work, look at none of this.                         *)
BoardOnly == Manual \cap {"resume", "followup"} = {} /\ faults = 0
JobsApart == SlotKept /\ (BoardOnly => ExclusiveAlone /\ CancelStops)

(* Unless others keep taking workers, the board comes to rest with every   *)
(* slot given back, and no goal still queued but behind one that was       *)
(* cancelled or needs attention: no dispatch is starved or forgotten.      *)
GoalsDrain ==
  \/ []<>(active \cap Others # {})
  \/ <>[](\A g \in Goals :
            /\ job[g] \notin Held
            /\ job[g] = "queued" => \E d \in deps[g] : job[d] # "completed")
=============================================================================
