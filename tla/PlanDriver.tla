----------------------------- MODULE PlanDriver -----------------------------
(***************************************************************************)
(* run_plan of crates/harness-benchmark/src/lib.rs: a driver that runs the *)
(* tasks of a durable plan (module Plan), each as a child run in a store   *)
(* of its own.  The driver keeps nothing between two steps but where it    *)
(* is: every step opens the plan's store anew, so other drivers, operators *)
(* and crashes come in between.                                            *)
(***************************************************************************)
EXTENDS Plan, Sequences, SequencesExt

CONSTANTS
  Drivers,     \* processes that call run_plan on this plan
  SpecLists,   \* the lists of task specs they call it with
  Top,         \* the goal of the plan
  Outside,     \* what others do meanwhile: "plan" revisions, file "edits"
  Leftover,    \* what an earlier plan in this workspace left of a task's child
  MaxCrashes   \* bound on crashes and errors of drivers

ASSUME DriverAssumption ==
  /\ Top \in Goals /\ 1 \in Priorities
  /\ SpecLists \subseteq Seq(Tasks) \ {<< >>}
  /\ \A s \in SpecLists : \A i, j \in 1 .. Len(s) : s[i] = s[j] => i = j
  /\ Outside \subseteq {"plan", "edits"}
  /\ Leftover \subseteq {"none", "open", "completed", "failed"}
  /\ MaxCrashes \in Nat

VARIABLES
  child,    \* the store of each task's child run
  good,     \* the oracle passes for the task: its crate builds and tests pass
  at,       \* where each driver is
  todo,     \* the task it works on
  specs,    \* the specs it was called with
  crashes   \* crashes so far

driver == <<at, todo, specs, crashes>>
vars   == <<plan, child, good, at, todo, specs, crashes>>

Places == {"idle", "seed", "adopt", "loop", "close", "check", "adopted",
           "begin", "run", "child", "report", "success", "failure"}

Terminated == {"completed", "failed"}

Known(d) == ToSet(specs[d])

(* adopt_task: a completed child whose work the oracle still confirms.     *)
Adoptable(t) == child[t] = "completed" /\ good[t]

Go(d, place) == at' = [at EXCEPT ![d] = place]
Return(d)    == Go(d, "idle") /\ todo' = [todo EXCEPT ![d] = None]

-----------------------------------------------------------------------------
RunPlan(d) ==
  /\ at[d] = "idle"
  /\ \E s \in SpecLists : specs' = [specs EXCEPT ![d] = s]
  /\ Go(d, IF seeded THEN "adopt" ELSE "seed")
  /\ UNCHANGED <<plan, child, good, todo, crashes>>

(* create_run: the specs in a chain; a store that got a run meanwhile is   *)
(* refused.                                                                *)
Seed(d) ==
  /\ at[d] = "seed"
  /\ \/ seeded /\ Return(d) /\ UNCHANGED plan
     \/ /\ ~seeded
        /\ LET s == specs[d]
               Place(t) == CHOOSE i \in 1 .. Len(s) : s[i] = t
           IN /\ status' = [t \in Tasks |-> IF t \in ToSet(s) THEN "pending" ELSE "absent"]
              /\ rank'   = [t \in Tasks |-> IF t \in ToSet(s) THEN Place(t) ELSE 0]
              /\ goal'   = [t \in Tasks |-> IF t \in ToSet(s) THEN Top ELSE None]
              /\ deps'   = [t \in Tasks |-> IF t \in ToSet(s) /\ Place(t) > 1
                                            THEN {s[Place(t) - 1]} ELSE {}]
        /\ seeded' = TRUE /\ priority' = [g \in {Top} |-> 1]
        /\ UNCHANGED <<supersedes, lifecycle, terminal, todo>>
        /\ Go(d, "adopt")
  /\ UNCHANGED <<child, good, specs, crashes>>

(* Every recorded success is confirmed again, or the call fails.           *)
AdoptRecorded(d) ==
  /\ at[d] = "adopt"
  /\ IF Live /\ \A t \in Tasks : status[t] = "succeeded" => t \in Known(d) /\ Adoptable(t)
     THEN Go(d, "loop") /\ UNCHANGED todo
     ELSE Return(d)
  /\ UNCHANGED <<plan, child, good, specs, crashes>>

(* The head of the loop: what to do next, from a snapshot of the plan.     *)
Probe(d) ==
  /\ at[d] = "loop"
  /\ IF ~Live \/ lifecycle # "active" THEN Return(d)
     ELSE IF ReadyTasks = {} THEN Go(d, "close") /\ UNCHANGED todo
     ELSE \E t \in Tasks : FirstReady(t) /\
            IF t \in Known(d) THEN Go(d, "check") /\ todo' = [todo EXCEPT ![d] = t]
            ELSE Return(d)
  /\ UNCHANGED <<plan, child, good, specs, crashes>>

(* complete_run, which may refuse.                                         *)
Close(d) ==
  /\ at[d] = "close"
  /\ IF Live /\ GoalsComplete THEN CompleteRun ELSE UNCHANGED plan
  /\ Return(d)
  /\ UNCHANGED <<child, good, specs, crashes>>

Check(d) ==
  /\ at[d] = "check"
  /\ Go(d, IF Adoptable(todo[d]) THEN "adopted" ELSE "begin")
  /\ UNCHANGED <<plan, child, good, todo, specs, crashes>>

(* One revise_plan of the driver; its error ends the call.                 *)
Record(d, Step, possible, next) ==
  /\ IF possible THEN Step /\ IF next = "idle" THEN Return(d) ELSE Go(d, next) /\ UNCHANGED todo
     ELSE UNCHANGED plan /\ Return(d)
  /\ UNCHANGED <<child, good, specs, crashes>>

CanMark(d, from) == Live /\ status[todo[d]] \in from

MarkAdopted(d) ==
  at[d] = "adopted" /\ Record(d, MarkSucceeded(todo[d]), CanMark(d, Open), "loop")

Begin_Unmarked(d) ==
  /\ at[d] = "begin"
  /\ Go(d, "run")
  /\ UNCHANGED <<plan, child, good, todo, specs, crashes>>
Begin(d) ==
  at[d] = "begin" /\ Record(d, MarkRunning(todo[d]), CanMark(d, {"pending"}), "run")

(* run_task: a new child, one that goes on, or the outcome of a finished   *)
(* one.                                                                    *)
RunTask(d) ==
  /\ at[d] = "run"
  /\ IF child[todo[d]] \in Terminated THEN Go(d, "report") /\ UNCHANGED child
     ELSE Go(d, "child") /\ child' = [child EXCEPT ![todo[d]] = "open"]
  /\ UNCHANGED <<plan, good, todo, specs, crashes>>

(* The child edits its files, for better or worse.                         *)
ChildEdit(d) ==
  /\ at[d] = "child"
  /\ \E b \in BOOLEAN : good' = [good EXCEPT ![todo[d]] = b]
  /\ UNCHANGED <<plan, child, driver>>

(* It completes on the evidence of the runtime, which is less than what    *)
(* the oracle asks, or it fails.                                           *)
ChildEnd(d) ==
  /\ at[d] = "child"
  /\ \E o \in Terminated : child' = [child EXCEPT ![todo[d]] = o]
  /\ Go(d, "report")
  /\ UNCHANGED <<plan, good, todo, specs, crashes>>

(* report_for: a completion counts if the oracle confirms it.              *)
Report(d) ==
  /\ at[d] = "report"
  /\ Go(d, IF Adoptable(todo[d]) THEN "success" ELSE "failure")
  /\ UNCHANGED <<plan, child, good, todo, specs, crashes>>

RecordSuccess_Unrecorded(d) ==
  at[d] = "success" /\ Record(d, UNCHANGED plan, CanMark(d, Open), "loop")
RecordSuccess(d) ==
  at[d] = "success" /\ Record(d, MarkSucceeded(todo[d]), CanMark(d, Open), "loop")

RecordFailure(d) ==
  at[d] = "failure" /\ Record(d, MarkFailed(todo[d]), CanMark(d, Open), "idle")

(* The driver is killed, or an error of a store or of the child's drive    *)
(* ends the call.                                                          *)
Crash(d) ==
  /\ at[d] # "idle" /\ crashes < MaxCrashes
  /\ crashes' = crashes + 1
  /\ Return(d)
  /\ UNCHANGED <<plan, child, good, specs>>

(* An operator revises the plan the ways the documentation names.          *)
Operator ==
  /\ "plan" \in Outside
  /\ \/ \E t \in Tasks : MarkFailed(t) \/ MarkBlocked(t) \/ \E new \in Tasks : Repair(t, new)
     \/ \E l \in Lifecycles : SetLifecycle(l)
     \/ CancelRun
  /\ UNCHANGED <<child, good, driver>>

(* Someone breaks the files of a task.                                     *)
Spoil(t) ==
  /\ "edits" \in Outside
  /\ good[t] /\ good' = [good EXCEPT ![t] = FALSE]
  /\ UNCHANGED <<plan, child, driver>>

Init ==
  /\ PlanInit
  /\ child \in [Tasks -> Leftover]
  /\ good = [t \in Tasks |-> child[t] = "completed"]
  /\ at = [d \in Drivers |-> "idle"] /\ todo = [d \in Drivers |-> None]
  /\ specs = [d \in Drivers |-> << >>]
  /\ crashes = 0

Step(d) ==
  \/ Seed(d) \/ AdoptRecorded(d) \/ Probe(d) \/ Close(d) \/ Check(d)
  \/ MarkAdopted(d) \/ Begin(d) \/ RunTask(d) \/ ChildEnd(d) \/ Report(d)
  \/ RecordSuccess(d) \/ RecordFailure(d)

Next ==
  \/ \E d \in Drivers : RunPlan(d) \/ Step(d) \/ ChildEdit(d) \/ Crash(d)
  \/ Operator
  \/ \E t \in Tasks : Spoil(t)

Spec == Init /\ [][Next]_vars

(* A driver that is not killed goes on, a child's drive ends (its steps    *)
(* are bounded), and run_plan is called again.                             *)
Fairness == \A d \in Drivers : WF_vars(Step(d)) /\ WF_vars(RunPlan(d))
LiveSpec == Spec /\ Fairness

-----------------------------------------------------------------------------
TypeOK ==
  /\ PlanTypeOK
  /\ child \in [Tasks -> {"none", "open"} \cup Terminated]
  /\ good \in [Tasks -> BOOLEAN]
  /\ at \in [Drivers -> Places]
  /\ todo \in [Drivers -> Tasks \cup {None}]
  /\ specs \in [Drivers -> SpecLists \cup {<< >>}]
  /\ crashes \in 0 .. MaxCrashes

Working == {"run", "child", "report", "success", "failure"}

(* However many drivers share a plan, one of them works on a task: the     *)
(* mark_running that follows the snapshot decides (run_plan).              *)
OneWorker ==
  \A d, e \in Drivers :
    d # e /\ at[d] \in Working /\ at[e] \in Working => todo[d] # todo[e]

(* A task is worked on only when the tasks it depends on have succeeded,   *)
(* and they stay so (ready_tasks, and the gap between snapshot and start). *)
InOrder ==
  \A d \in Drivers : at[d] \in Working =>
    \A p \in deps[todo[d]] : status[p] = "succeeded"

(* A recorded success is a child that completed, never one that failed or  *)
(* was interrupted (report_for, adopt_task).                               *)
SuccessVerified ==
  \A t \in Tasks : status[t] = "succeeded" => child[t] = "completed"

(* Nothing a child did is redone: a finished child never runs again, and   *)
(* nobody drives a task whose success is recorded (run_plan: "succeeded    *)
(* tasks are adopted, never re-executed").                                 *)
NeverRerun ==
  [][\A t \in Tasks :
       /\ child[t] \in Terminated => child'[t] = child[t]
       /\ status[t] = "succeeded" \/ child[t] \in Terminated =>
            ~\E d \in Drivers : todo[d] = t /\ at'[d] = "child"]_vars

(* Without crashes, other people's edits or operators, a plan that was     *)
(* started is closed as complete, or a task of it has failed.              *)
PlanSettles == seeded ~> terminal \/ \E t \in Tasks : status[t] = "failed"

(* lib.rs:609-611, "Kill window: the child run verified but the success    *)
(* was never recorded (killed between the two commits). Adopt the result   *)
(* instead of re-executing the task": called again, run_plan adopts it.    *)
KillWindowAdopted ==
  \A t \in Tasks : child[t] = "completed" /\ good[t] ~> status[t] = "succeeded"
=============================================================================
