-------------------------------- MODULE Plan --------------------------------
(***************************************************************************)
(* The durable plan of crates/harness-core/src/plan.rs: goals, a graph of  *)
(* tasks and their transitions.  Each operation below is one revise_plan   *)
(* of agent.rs: load, edit, checkpoint, so the plan is its checkpoint.  An *)
(* operation the code refuses changes nothing and has no step.             *)
(***************************************************************************)
EXTENDS Naturals, FiniteSets

CONSTANTS
  Tasks,       \* task ids
  Goals,       \* goal ids
  Priorities,  \* priorities a goal may have
  None         \* no goal, no task

ASSUME PlanAssumption ==
  /\ IsFiniteSet(Tasks)
  /\ None \notin Tasks \cup Goals
  /\ Priorities \subseteq Nat /\ Priorities # {}

VARIABLES
  seeded,      \* the store holds a run
  priority,    \* goals of the plan: their priority
  status,      \* status of each task, "absent" before it is registered
  deps,        \* dependencies of each task
  goal,        \* goal of each task
  supersedes,  \* the task each one replaces
  rank,        \* position of each task in the list, 1 is the first
  lifecycle,   \* plan.lifecycle
  terminal     \* the run has an outcome

graph == <<deps, goal, supersedes, rank>>
plan  == <<seeded, priority, status, deps, goal, supersedes, rank, lifecycle, terminal>>

Statuses   == {"absent", "pending", "running", "succeeded", "failed", "blocked", "abandoned"}
Open       == {"pending", "running"}
Lifecycles == {"active", "paused", "cancelled", "completed"}

Registered == {t \in Tasks : status[t] # "absent"}
Declared   == DOMAIN priority

(* load_live: only a run without an outcome accepts transitions.           *)
Live == seeded /\ ~terminal

(* A set of tasks each of which waits for another of the set.              *)
HasCycle(g) ==
  \E S \in (SUBSET Tasks) \ {{}} : \A t \in S : g[t] \cap S # {}

(* ready_tasks, in its order: goal priority, then registration.            *)
Ready(t) ==
  /\ status[t] = "pending"
  /\ \A d \in deps[t] : status[d] = "succeeded"
ReadyTasks == {t \in Tasks : Ready(t)}
Sooner(t, u) ==
  \/ priority[goal[t]] < priority[goal[u]]
  \/ priority[goal[t]] = priority[goal[u]] /\ rank[t] < rank[u]
FirstReady(t) == Ready(t) /\ \A u \in ReadyTasks \ {t} : Sooner(t, u)

GoalsComplete ==
  /\ Declared # {}
  /\ \A t \in Registered : status[t] \in {"succeeded", "abandoned"}

-----------------------------------------------------------------------------
AddGoal(g, p) ==
  /\ Live /\ g \notin Declared
  /\ priority' = [h \in Declared \cup {g} |-> IF h = g THEN p ELSE priority[h]]
  /\ UNCHANGED <<seeded, status, graph, lifecycle, terminal>>

(* add_task, also for a replacement: dependencies exist already, the task  *)
(* goes to the end of the list, and a cycle would undo it.                 *)
Register(t, g, ds, old) ==
  /\ status[t] = "absent"
  /\ g \in Declared
  /\ ds \subseteq Registered \ {t}
  /\ deps' = [deps EXCEPT ![t] = ds]
  /\ ~HasCycle(deps')
  /\ goal' = [goal EXCEPT ![t] = g]
  /\ supersedes' = [supersedes EXCEPT ![t] = old]
  /\ rank' = [rank EXCEPT ![t] = Cardinality(Registered) + 1]

AddTask(t, g, ds) ==
  /\ Live
  /\ Register(t, g, ds, None)
  /\ status' = [status EXCEPT ![t] = "pending"]
  /\ UNCHANGED <<seeded, priority, lifecycle, terminal>>

Mark(t, from, to) ==
  /\ Live
  /\ status[t] \in from
  /\ status' = [status EXCEPT ![t] = to]
  /\ UNCHANGED <<seeded, priority, graph, lifecycle, terminal>>

MarkRunning(t)   == Mark(t, {"pending"}, "running")
MarkSucceeded(t) == Mark(t, Open, "succeeded")
MarkFailed(t)    == Mark(t, Open, "failed")
MarkBlocked(t)   == Mark(t, Open, "blocked")

Repair_Forgetful(t, new) ==
  /\ Live
  /\ status[t] \in {"failed", "blocked"}
  /\ UNCHANGED graph
  /\ status' = [status EXCEPT ![t] = "abandoned"]
  /\ UNCHANGED <<seeded, priority, lifecycle, terminal>>
(* The failed attempt is abandoned; its replacement has the same goal and  *)
(* dependencies.  What depends on the failed task goes on depending on it. *)
Repair(t, new) ==
  /\ Live
  /\ status[t] \in {"failed", "blocked"}
  /\ Register(new, goal[t], deps[t], t)
  /\ status' = [status EXCEPT ![t] = "abandoned", ![new] = "pending"]
  /\ UNCHANGED <<seeded, priority, lifecycle, terminal>>

SetLifecycle(l) ==
  /\ Live
  /\ lifecycle' = l
  /\ UNCHANGED <<seeded, priority, status, graph, terminal>>

CompleteRun ==
  /\ Live /\ GoalsComplete
  /\ lifecycle' = "completed" /\ terminal' = TRUE
  /\ UNCHANGED <<seeded, priority, status, graph>>

CancelRun ==
  /\ Live
  /\ lifecycle' = "cancelled" /\ terminal' = TRUE
  /\ UNCHANGED <<seeded, priority, status, graph>>

(* create_run with an empty plan.                                          *)
CreateRun ==
  /\ ~seeded
  /\ seeded' = TRUE
  /\ UNCHANGED <<priority, status, graph, lifecycle, terminal>>

PlanInit ==
  /\ seeded = FALSE /\ lifecycle = "active" /\ terminal = FALSE
  /\ priority = [g \in {} |-> 0]
  /\ status = [t \in Tasks |-> "absent"] /\ deps = [t \in Tasks |-> {}]
  /\ goal = [t \in Tasks |-> None] /\ supersedes = [t \in Tasks |-> None]
  /\ rank = [t \in Tasks |-> 0]

Transition ==
  \/ \E g \in Goals, p \in Priorities : AddGoal(g, p)
  \/ \E t \in Tasks : \/ \E g \in Goals, ds \in SUBSET Tasks : AddTask(t, g, ds)
                      \/ \E new \in Tasks : Repair(t, new)
                      \/ MarkRunning(t) \/ MarkSucceeded(t)
                      \/ MarkFailed(t) \/ MarkBlocked(t)
  \/ \E l \in Lifecycles : SetLifecycle(l)
  \/ CompleteRun \/ CancelRun

PlanSpec == PlanInit /\ [][CreateRun \/ Transition]_plan

-----------------------------------------------------------------------------
PlanTypeOK ==
  /\ seeded \in BOOLEAN /\ terminal \in BOOLEAN
  /\ lifecycle \in Lifecycles
  /\ Declared \subseteq Goals /\ priority \in [Declared -> Priorities]
  /\ status \in [Tasks -> Statuses]
  /\ deps \in [Tasks -> SUBSET Tasks]
  /\ goal \in [Tasks -> Goals \cup {None}]
  /\ supersedes \in [Tasks -> Tasks \cup {None}]
  /\ rank \in [Tasks -> Nat]

(* No set of registered tasks waits for itself, replacements included      *)
(* (add_task, repair, has_cycle).                                          *)
NoDeadlock == ~HasCycle(deps)

(* An attempt is abandoned exactly when one later task replaces it, with   *)
(* the goal and the prerequisites of the attempt (repair): no attempt is   *)
(* dropped and none is retried twice at the same time.                     *)
AttemptsLinked ==
  \A t \in Tasks :
    /\ status[t] = "abandoned" => \E r \in Tasks : supersedes[r] = t
    /\ \A r \in Tasks : supersedes[r] = t =>
         /\ status[t] = "abandoned" /\ status[r] # "absent"
         /\ goal[r] = goal[t] /\ deps[r] = deps[t] /\ rank[t] < rank[r]
         /\ \A q \in Tasks : supersedes[q] = t => q = r

(* A run completed through its plan has, for every goal with tasks, a task *)
(* that succeeded after every abandoned attempt at it (complete_run): it   *)
(* cannot be closed by giving attempts up.                                 *)
CompleteMeansDone ==
  lifecycle = "completed" /\ terminal =>
    \A t \in Registered : status[t] # "succeeded" =>
      \E r \in Tasks : /\ status[r] = "succeeded" /\ goal[r] = goal[t]
                       /\ rank[t] < rank[r]

(* The plan forgets nothing: a registered task keeps its goal, place and   *)
(* prerequisites, and a success or an abandoned attempt is final           *)
(* (mark_succeeded, repair).                                               *)
RecordKept ==
  [][\A t \in Registered :
       /\ UNCHANGED <<deps[t], goal[t], supersedes[t], rank[t]>>
       /\ status'[t] # "absent"
       /\ status[t] \in {"succeeded", "abandoned"} => status'[t] = status[t]]_plan
=============================================================================
