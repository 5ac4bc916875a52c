---------------------------- MODULE AgentRuntime ----------------------------
(***************************************************************************)
(* The durable run of crates/harness-core/src/agent.rs: one run, one       *)
(* checkpoint, one process at a time.  A step of this module is one        *)
(* stretch of code between two points where a crash (or a failed write to  *)
(* the event store) leaves a different checkpoint or a different world.    *)
(* The process keeps a copy of the run (`mem`) while it drives; only       *)
(* Checkpoint makes it durable (`ckpt`).                                   *)
(***************************************************************************)
EXTENDS Integers, Sequences

CONSTANTS
  Writes,        \* whole-file writes; each stands for the content it writes
  Reads,         \* read, range, hash and search actions of the same file
  Shells,        \* shell commands: the only actions whose outcome may be uncertain
  Opaque,        \* patches and listings: reconciliation does not support them
  None,          \* no action, no content, no outcome
  Policies,      \* the sets of actions a process may be granted
  MaxSteps,      \* max_steps, the bound on cognitive steps
  InitialLimit,  \* max_tool_calls of a new run
  Limits,        \* the tool budgets an amendment may set
  Trips          \* max_consecutive_failures an amendment may set, 0 disables

Actions  == Writes \cup Reads \cup Shells \cup Opaque
Contents == Writes \cup {None}

ASSUME ActionsAssumption ==
  /\ None \notin Actions \cup {"verified", "plan_done", "failed"}
  /\ ({None} \cup Actions) \cap {"complete", "fail"} = {}
  /\ Writes \cap (Reads \cup Shells \cup Opaque) = {}
  /\ Reads \cap (Shells \cup Opaque) = {}
  /\ Reads # {}
  /\ Policies \subseteq SUBSET Actions
ASSUME BoundsAssumption ==
  /\ MaxSteps \in Nat
  /\ InitialLimit \in Nat
  /\ Limits \subseteq Nat
  /\ Trips \subseteq Nat

(* The observation the success criterion asks for: a read of its file.    *)
Evidence == CHOOSE r \in Reads : TRUE

Lifecycles == {"active", "paused", "cancelled", "completed"}
Outcomes   == {None, "verified", "plan_done", "failed"}

(* An observation.  `unsure` is the marker a killed or failing shell       *)
(* command leaves, `accepted` the host policy that tolerates this exit.    *)
Observations ==
  [ok : BOOLEAN, data : Contents, unsure : BOOLEAN, accepted : BOOLEAN]
Entries == [act : Actions, ok : BOOLEAN, data : Contents]
NoObs   == [ok |-> FALSE, data |-> None, unsure |-> FALSE, accepted |-> FALSE]

(* `capped`: a wall-clock, token or cost limit is set.                      *)
RunStates ==
  [history : Seq(Entries), steps : Nat, pending : Actions \cup {None},
   outcome : Outcomes, used : Nat, limit : Nat, trip : Nat, capped : BOOLEAN,
   lifecycle : Lifecycles, planDone : BOOLEAN, criterion : Contents]

NewRun(planDone, criterion) ==
  [history |-> << >>, steps |-> 0, pending |-> None, outcome |-> None,
   used |-> 0, limit |-> InitialLimit, trip |-> 3, capped |-> FALSE,
   lifecycle |-> "active", planDone |-> planDone, criterion |-> criterion]
Blank == NewRun(FALSE, None)

VARIABLES
  created,     \* the store holds a run
  ckpt,        \* the committed checkpoint
  file,        \* content of the run's workspace file
  pc,          \* where the process is
  granted,     \* the policy of this process
  mem,         \* the RunState a driving process holds
  decision,    \* what the model answered
  obs,         \* the observation of the action in flight
  result,      \* the outcome a drive is about to persist
  invoked,     \* ghost: history ids of effectful invocations, in order
  calls,       \* ghost: tool invocations of the run, reconciliation reads too
  asked,       \* ghost: model calls of the run
  peak,        \* ghost: the highest tool budget ever granted
  reservedAs   \* ghost: the action id under which `pending` was reserved

durable == <<created, ckpt>>
process == <<pc, granted, mem, decision, obs, result>>
ghosts  == <<invoked, calls, asked, peak, reservedAs>>
vars    == <<created, ckpt, file, pc, granted, mem, decision, obs, result,
             invoked, calls, asked, peak, reservedAs>>

Driving == {"loop", "decide", "decided", "reserved", "observed",
            "reread", "reobserved", "finish"}

NextActionId(s) == Len(s.history)

(* The trailing-failure count of drive_inner reaches the trip.             *)
Tripped(s) ==
  /\ s.trip > 0
  /\ Len(s.history) >= s.trip
  /\ \A i \in 1 .. Len(s.history) :
       i > Len(s.history) - s.trip => ~s.history[i].ok

Checkpoint(s) == ckpt' = s /\ mem' = s

(* Return to the caller: whatever was not checkpointed is forgotten.       *)
Forget == mem' = Blank /\ obs' = NoObs /\ decision' = None /\ result' = None
Return == pc' = "idle" /\ Forget

Entry(a, o) == [act |-> a, ok |-> o.ok, data |-> o.data]

(* Drive has an outcome in hand: the checkpoint that persists it is a      *)
(* later step.                                                             *)
Settling(r) == pc' = "finish" /\ result' = r

-----------------------------------------------------------------------------
(* The process and its surroundings                                        *)

Start ==
  /\ pc = "down"
  /\ \E p \in Policies : granted' = p
  /\ pc' = "idle"
  /\ UNCHANGED <<created, ckpt, file, mem, decision, obs, result, ghosts>>

(* A crash, or an error of the event store that a `?` hands to the caller. *)
Interrupt ==
  /\ pc # "down"
  /\ \/ pc' = "down" /\ granted' = {}
     \/ pc \in Driving /\ pc' = "idle" /\ UNCHANGED granted
  /\ Forget
  /\ UNCHANGED <<created, ckpt, file, ghosts>>

(* Someone else edits the workspace.                                       *)
EditFile ==
  /\ \E c \in Contents : file' = c
  /\ UNCHANGED <<created, ckpt, process, ghosts>>

-----------------------------------------------------------------------------
(* Calls on an idle runtime                                                *)

Begin ==
  /\ pc = "idle" /\ ~created
  /\ created' = TRUE
  /\ \E done \in BOOLEAN, c \in Contents :
       /\ ckpt' = NewRun(done, c)
       /\ \/ pc' = "idle" /\ UNCHANGED mem          \* create_run
          \/ pc' = "loop" /\ mem' = NewRun(done, c) \* run_with_plan
  /\ peak' = InitialLimit
  /\ UNCHANGED <<file, granted, decision, obs, result,
                 invoked, calls, asked, reservedAs>>

(* load_live: every administrative call refuses a terminal run.            *)
LoadLive == pc = "idle" /\ created /\ ckpt.outcome = None

Amend(s) ==
  /\ LoadLive
  /\ ckpt' = s
  /\ UNCHANGED <<created, file, process, invoked, calls, asked, reservedAs>>

RevisePlan ==
  /\ \E done \in BOOLEAN : Amend([ckpt EXCEPT !.planDone = done])
  /\ UNCHANGED peak
SetLifecycle ==
  /\ \E l \in Lifecycles : Amend([ckpt EXCEPT !.lifecycle = l])
  /\ UNCHANGED peak
SetSuccessCriterion ==
  /\ \E w \in Writes : Amend([ckpt EXCEPT !.criterion = w])
  /\ UNCHANGED peak
AmendResourceLimits ==
  /\ \E t \in Trips, c \in BOOLEAN :
       Amend([ckpt EXCEPT !.trip = t, !.capped = c])
  /\ UNCHANGED peak
AmendToolBudget ==
  \E n \in Limits :
    /\ Amend([ckpt EXCEPT !.limit = n])
    /\ peak' = IF n > peak THEN n ELSE peak
CompleteRun ==
  /\ ckpt.planDone
  /\ Amend([ckpt EXCEPT !.lifecycle = "completed", !.outcome = "plan_done"])
  /\ UNCHANGED peak
CancelRun ==
  /\ Amend([ckpt EXCEPT !.lifecycle = "cancelled", !.outcome = "failed"])
  /\ UNCHANGED peak

-----------------------------------------------------------------------------
(* Resume and reconciliation                                               *)

(* drive: what drive_inner does with the lifecycle before its loop.  A     *)
(* paused run errors out.                                                  *)
EnterDrive(s) ==
  /\ s.lifecycle # "paused"
  /\ mem' = s
  /\ IF s.lifecycle = "active" THEN pc' = "loop" /\ UNCHANGED result
                               ELSE Settling("failed")

Resume ==
  /\ LoadLive
  /\ ckpt.pending = None
  /\ EnterDrive(ckpt)
  /\ UNCHANGED <<created, ckpt, file, granted, decision, obs, ghosts>>

(* The read that can establish what an interrupted action did.             *)
RereadOf(a) == IF a \in Writes THEN Evidence ELSE a

ReserveCall_InMemory(s) ==
  /\ s.used < s.limit
  /\ mem' = [s EXCEPT !.used = @ + 1]
  /\ UNCHANGED ckpt

ReserveCall(s) ==
  /\ s.used < s.limit
  /\ Checkpoint([s EXCEPT !.used = @ + 1])

(* reconcile_pending up to the committed reservation of its read; every    *)
(* other way through it returns an error and changes nothing.              *)
Reconcile ==
  /\ LoadLive
  /\ ckpt.pending \in Writes \cup Reads
  /\ {ckpt.pending, RereadOf(ckpt.pending)} \subseteq granted
  /\ ReserveCall(ckpt)
  /\ pc' = "reread"
  /\ UNCHANGED <<created, file, granted, decision, obs, result, ghosts>>

ReadFile ==
  \/ file # None
     /\ obs' = [ok |-> TRUE, data |-> file, unsure |-> FALSE, accepted |-> FALSE]
  \/ obs' = NoObs

Reread ==
  /\ pc = "reread"
  /\ ReadFile
  /\ calls' = calls + 1
  /\ pc' = "reobserved"
  /\ UNCHANGED <<durable, file, granted, mem, decision, result,
                 invoked, asked, peak, reservedAs>>

Established(a, o) == o.ok /\ (a \in Writes => o.data = a)

ReconcileBlocked ==
  /\ pc = "reobserved"
  /\ ~Established(mem.pending, obs)
  /\ Return
  /\ UNCHANGED <<durable, file, granted, ghosts>>

ReconcileSettled ==
  /\ pc = "reobserved"
  /\ Established(mem.pending, obs)
  /\ LET s == [mem EXCEPT !.history = Append(@, Entry(mem.pending, obs)),
                          !.pending = None]
     IN  /\ ckpt' = s
         /\ \/ EnterDrive(s) /\ UNCHANGED decision /\ obs' = NoObs
            \/ s.lifecycle = "paused" /\ Return
  /\ UNCHANGED <<created, file, granted, ghosts>>

-----------------------------------------------------------------------------
(* The drive loop                                                          *)

(* Shutdown is asked for from another thread at any time.                  *)
ShutDown ==
  /\ pc = "loop" /\ mem.steps < MaxSteps
  /\ ckpt' = mem
  /\ Return
  /\ UNCHANGED <<created, file, granted, ghosts>>

GiveUp_OffByOne ==
  /\ pc = "loop"
  /\ mem.steps > MaxSteps \/ Tripped(mem) \/ mem.capped
  /\ Settling("failed")
  /\ UNCHANGED <<durable, file, granted, mem, decision, obs, ghosts>>

(* The runaway guard, the failure trip, and the wall-clock limit, which    *)
(* once set may expire at any turn of the loop.                            *)
GiveUp ==
  /\ pc = "loop"
  /\ mem.steps >= MaxSteps \/ Tripped(mem) \/ mem.capped
  /\ Settling("failed")
  /\ UNCHANGED <<durable, file, granted, mem, decision, obs, ghosts>>

CognitiveStep ==
  /\ pc = "loop" /\ mem.steps < MaxSteps /\ ~Tripped(mem)
  /\ Checkpoint([mem EXCEPT !.steps = @ + 1])
  /\ pc' = "decide"
  /\ UNCHANGED <<created, file, granted, decision, obs, result, ghosts>>

(* model.decide, then accrue_usage, which may find the spend over limit.   *)
Decide ==
  /\ pc = "decide"
  /\ asked' = asked + 1
  /\ \/ /\ \E d \in Actions \cup {"complete", "fail"} : decision' = d
        /\ pc' = "decided" /\ UNCHANGED result
     \/ mem.capped /\ Settling("failed") /\ UNCHANGED decision
  /\ UNCHANGED <<durable, file, granted, mem, obs,
                 invoked, calls, peak, reservedAs>>

(* The action the decision asks for; completion asks for the evidence.     *)
Requested == IF decision = "complete" THEN Evidence ELSE decision

(* The decision ends the run: the model failed it, completion has no       *)
(* criterion to check, or the policy denies the action or asks about it.   *)
Refuse ==
  /\ pc = "decided"
  /\ \/ decision = "fail"
     \/ decision = "complete" /\ mem.criterion = None
     \/ decision # "fail" /\ Requested \notin granted
  /\ Settling("failed")
  /\ UNCHANGED <<durable, file, granted, mem, decision, obs, ghosts>>

Admitted ==
  /\ pc = "decided"
  /\ decision # "fail"
  /\ decision = "complete" => mem.criterion # None
  /\ Requested \in granted

(* execute_action up to the checkpoint that commits intent and reservation. *)
Reserve ==
  /\ Admitted
  /\ ReserveCall([mem EXCEPT !.pending = Requested])
  /\ reservedAs' = NextActionId(mem)
  /\ pc' = "reserved"
  /\ UNCHANGED <<created, file, granted, decision, obs, result,
                 invoked, calls, asked, peak>>

BudgetExhausted ==
  /\ Admitted
  /\ mem.used >= mem.limit
  /\ Return
  /\ UNCHANGED <<durable, file, granted, ghosts>>

(* tools.execute: what each kind of action may do to the file and report.  *)
InvokeWrite ==
  \/ file' = mem.pending
     /\ obs' = [ok |-> TRUE, data |-> None, unsure |-> FALSE, accepted |-> FALSE]
  \/ UNCHANGED file /\ obs' = NoObs
InvokeShell ==
  \/ /\ \E c \in Contents : file' = c
     /\ \E good \in BOOLEAN, tolerated \in BOOLEAN :
          obs' = [ok |-> good, data |-> None,
                  unsure |-> ~good, accepted |-> ~good /\ tolerated]
  \/ UNCHANGED file /\ obs' = NoObs
InvokeOpaque ==
  \/ /\ \E c \in Contents : file' = c
     /\ obs' = [ok |-> TRUE, data |-> None, unsure |-> FALSE, accepted |-> FALSE]
  \/ UNCHANGED file /\ obs' = NoObs

Invoke ==
  /\ pc = "reserved"
  /\ \/ mem.pending \in Writes /\ InvokeWrite
     \/ mem.pending \in Reads  /\ ReadFile /\ UNCHANGED file
     \/ mem.pending \in Shells /\ InvokeShell
     \/ mem.pending \in Opaque /\ InvokeOpaque
  /\ invoked' = Append(invoked, NextActionId(mem))
  /\ calls' = calls + 1
  /\ pc' = "observed"
  /\ UNCHANGED <<durable, granted, mem, decision, result, asked, peak, reservedAs>>

Recorded == [mem EXCEPT !.history = Append(@, Entry(mem.pending, obs))]

(* An unaccepted uncertain outcome is recorded and stays pending.          *)
Uncertain ==
  /\ pc = "observed"
  /\ obs.unsure /\ ~obs.accepted
  /\ ckpt' = Recorded
  /\ Return
  /\ UNCHANGED <<created, file, granted, ghosts>>

Verified_Remembered ==
  \E i \in 1 .. Len(mem.history) :
    mem.history[i] = [act |-> Evidence, ok |-> TRUE, data |-> mem.criterion]

(* FileEvidenceVerifier on the observation just recorded.                  *)
Verified == obs.ok /\ obs.data = mem.criterion

Settle_Unsaved ==
  /\ pc = "observed"
  /\ ~obs.unsure \/ obs.accepted
  /\ mem' = [Recorded EXCEPT !.pending = None]
  /\ \/ decision # "complete" /\ pc' = "loop" /\ UNCHANGED result
     \/ decision = "complete" /\ Settling(IF Verified THEN "verified" ELSE "failed")
  /\ decision' = None /\ obs' = NoObs
  /\ UNCHANGED <<durable, file, granted, ghosts>>

Settle ==
  /\ pc = "observed"
  /\ ~obs.unsure \/ obs.accepted
  /\ Checkpoint([Recorded EXCEPT !.pending = None])
  /\ \/ decision # "complete" /\ pc' = "loop" /\ UNCHANGED result
     \/ decision = "complete" /\ Settling(IF Verified THEN "verified" ELSE "failed")
  /\ decision' = None /\ obs' = NoObs
  /\ UNCHANGED <<created, file, granted, ghosts>>

(* The end of drive: the outcome becomes durable.                          *)
Finish ==
  /\ pc = "finish"
  /\ ckpt' = [mem EXCEPT !.outcome = result,
                         !.lifecycle = IF result = "verified" THEN "completed" ELSE @]
  /\ Return
  /\ UNCHANGED <<created, file, granted, ghosts>>

-----------------------------------------------------------------------------
Init ==
  /\ created = FALSE /\ ckpt = Blank
  /\ file \in Contents
  /\ pc = "down" /\ granted = {}
  /\ mem = Blank /\ decision = None /\ obs = NoObs /\ result = None
  /\ invoked = << >> /\ calls = 0 /\ asked = 0 /\ peak = 0 /\ reservedAs = 0

Administer ==
  \/ RevisePlan \/ SetLifecycle \/ SetSuccessCriterion \/ AmendResourceLimits
  \/ AmendToolBudget \/ CompleteRun \/ CancelRun

Drive ==
  \/ ShutDown \/ GiveUp \/ CognitiveStep \/ Decide \/ Refuse \/ Reserve
  \/ BudgetExhausted \/ Invoke \/ Uncertain \/ Settle \/ Finish
  \/ Reread \/ ReconcileBlocked \/ ReconcileSettled

Next ==
  \/ Start \/ Interrupt \/ EditFile
  \/ Begin \/ Administer \/ Resume \/ Reconcile
  \/ Drive

Spec     == Init /\ [][Next]_vars
FairSpec == Spec /\ WF_vars(Drive)

-----------------------------------------------------------------------------
(* Properties *)

TypeOK ==
  /\ created \in BOOLEAN
  /\ ckpt \in RunStates /\ mem \in RunStates
  /\ file \in Contents
  /\ pc \in Driving \cup {"down", "idle"}
  /\ granted \subseteq Actions
  /\ decision \in Actions \cup {None, "complete", "fail"}
  /\ obs \in Observations
  /\ result \in Outcomes
  /\ invoked \in Seq(Nat)
  /\ calls \in Nat /\ asked \in Nat /\ peak \in Nat /\ reservedAs \in Nat

(* However often the process dies and resumes, no action id is invoked     *)
(* twice, and none is invoked after a later one (execute_action,           *)
(* reconcile_pending, resume_with_reconciliation).                         *)
InvokedOnce ==
  \A i, j \in 1 .. Len(invoked) : i < j => invoked[i] < invoked[j]

(* Every tool invocation, a failing reconciliation read included, was paid *)
(* for by a committed reservation, and what is reserved never exceeds the  *)
(* highest budget an operator granted (reserve_tool_call).                 *)
CallsReserved == calls <= ckpt.used /\ ckpt.used <= peak

(* A crash loop cannot think for free: each model call was preceded by a   *)
(* committed step, and the committed steps respect the runaway guard.      *)
StepsBounded == asked <= ckpt.steps /\ ckpt.steps <= MaxSteps

(* A drive reports completion only on evidence: the last thing the run did *)
(* was to read the file and find the content the criterion names, with     *)
(* nothing left in flight.                                                 *)
VerifiedMeansEvidence ==
  ckpt.outcome = "verified" =>
    /\ ckpt.pending = None
    /\ Len(ckpt.history) > 0
    /\ ckpt.history[Len(ckpt.history)] =
         [act |-> Evidence, ok |-> TRUE, data |-> ckpt.criterion]
    /\ ckpt.criterion # None

(* A run that has an outcome is over: its checkpoint does not change and   *)
(* no tool is invoked for it, whoever calls the runtime (load_live, the    *)
(* early return of resume_with_reconciliation).                            *)
TerminalIsFinal ==
  [][ckpt.outcome # None => ckpt' = ckpt /\ calls' = calls /\ asked' = asked]_vars

(* The intent of an interrupted action is never dropped: `pending` leaves  *)
(* the checkpoint only together with a new history entry for that action.  *)
IntentKept ==
  [][ckpt.pending # None /\ ckpt'.pending # ckpt.pending =>
       /\ ckpt'.pending = None
       /\ Len(ckpt'.history) = Len(ckpt.history) + 1
       /\ ckpt'.history[Len(ckpt'.history)].act = ckpt.pending]_vars

(* The run implements AtMostOnce: a slot is an action id.                  *)
Performed == Len(invoked) > 0 /\ invoked[Len(invoked)] = reservedAs
Stage ==
  IF ckpt.outcome # None THEN "closed"
  ELSE IF ckpt.pending = None THEN "free"
  ELSE IF NextActionId(ckpt) > reservedAs THEN "disputed"
  ELSE IF Performed THEN "performed"
  ELSE "reserved"
Once == INSTANCE AtMostOnce WITH stage <- Stage, slot <- NextActionId(ckpt)
(* Side effects happen at most once per action id, and never after one     *)
(* whose outcome nobody established (execute_action, resume_with_          *)
(* reconciliation, complete_run and cancel_run).                           *)
ImplementsAtMostOnce == Once!Spec

(* A drive always returns, or dies, whatever the model answers: the step   *)
(* budget runs out (drive_inner).                                          *)
DriveReturns == pc \in Driving ~> pc \notin Driving
=============================================================================
