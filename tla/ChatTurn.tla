------------------------------ MODULE ChatTurn ------------------------------
(***************************************************************************)
(* One conversation of apps/studio/src/chat.rs: its turns, the actions     *)
(* they dispatch, and the cards by which a user approves an action.        *)
(*                                                                         *)
(* A step is the code between two saves, so one copy of the conversation   *)
(* stands for the worker's and the database's.  The save that ends a turn  *)
(* is part of the step that ends it; it may fail, which the code ignores   *)
(* and Crash stands for.  Budgets, model calls and the checks of an answer *)
(* are choices: what they decide is kept, why is not.  "Paused" stands for *)
(* Stopped, Blocked and Interrupted, and a task is "Queued" again in every *)
(* status it may be taken up from.                                         *)
(***************************************************************************)
EXTENDS Integers, Sequences, FiniteSetsExt

CONSTANTS
  Deletes,      \* actions that always need a destructive grant
  Upgrades,     \* those of them that stage a new runtime
  Commands,     \* shell commands
  Risky,        \* those that are destructive
  Calls,        \* app calls, which find out themselves that they need a grant
  Reads,        \* actions that need none
  Plans,        \* task graphs a planner may return: the prerequisites of each
  Projects,     \* goals that name the directory they work in
  MaxGoals,
  MaxRounds,    \* max_review_rounds
  MaxEvents,    \* bound on approvals, repairs and faults together
  MaxQueue,     \* bound on cards that outlive the plan they were asked in
  None

Acts == Deletes \cup Commands \cup Calls \cup Reads

ASSUME TurnAssumption ==
  /\ Upgrades \subseteq Deletes /\ Risky \subseteq Commands
  /\ Deletes \cap Commands = {} /\ (Deletes \cup Commands) \cap Calls = {}
  /\ (Deletes \cup Commands \cup Calls) \cap Reads = {}
  /\ None \notin Acts
  /\ Projects \subseteq Nat
  /\ MaxGoals \in Nat /\ MaxRounds \in Nat /\ MaxEvents \in Nat /\ MaxQueue \in Nat
  /\ \A p \in Plans : p \in Seq(SUBSET Nat) /\ Len(p) > 0

VARIABLES
  goal,      \* number of the current goal: original_request
  policy,    \* command_policy, for all that shared_policy projects
  status,
  tasks,     \* the status of each task, <<>> without a plan
  plan,      \* the prerequisites of each task
  pending,   \* nothing, an approval card, or an effect being dispatched
  queue,     \* approval_queue: cards not yet shown
  grants,    \* of every kind, with the approval each one comes from
  leases,    \* approval_leases: how long a card's grant lasts
  stamp,     \* granted_at_ms, counted in approvals
  replay,    \* replay_action, or None
  rounds,    \* review_round
  seen,      \* the goal names no project, or has evidence of a success
  pc, cur, by, stop,   \* the worker, its task, for whom it acts, its stop flag
  up,        \* the program has started
  now,       \* the clock, in lifetimes of a card
  script,    \* the bytes of the programs commands run
  faults,    \* crashes, lapses of time and edits of scripts
  left,      \* ghost: approvals "once" of destructive actions, less their runs
  lasting,   \* ghost: categories approved for the conversation
  allowed,   \* ghost: approvals of commands, and where they were given
  unknown,   \* ghost: the action that may have had an effect nobody knows
  replayOf   \* ghost: the goal the replay was approved in

authority == <<grants, leases, stamp, replay>>
worker    == <<pc, cur, by, stop>>
world     == <<up, now, script, faults>>
approvals == <<left, lasting, allowed, replayOf>>
request   == <<goal, policy>>
work      == <<tasks, plan, rounds>>
vars == <<request, status, work, pending, queue, authority, seen, worker, world,
          approvals, unknown>>

Nothing == [kind |-> "nothing"]
Effect(a) == [kind |-> "effect", act |-> a]

Spare == stamp + rounds + faults < MaxEvents

Skipped  == {"Done", "Awaiting approval", "Declined"}
Ended    == {"Completed", "Needs input", "Paused"}
Resumed  == {"Planning", "Working", "Reviewing", "Upgrading"}

Init ==
  /\ goal = 0 /\ policy = "ask" /\ status = "Paused"
  /\ tasks = <<>> /\ plan = <<>> /\ rounds = 0
  /\ pending = Nothing /\ queue = <<>>
  /\ grants = {} /\ leases = {} /\ stamp = 0 /\ replay = None /\ seen = FALSE
  /\ pc = "none" /\ cur = 0 /\ by = "worker" /\ stop = "no"
  /\ up = TRUE /\ now = 0 /\ script = 0 /\ faults = 0
  /\ left = [a \in Acts |-> 0] /\ lasting = {} /\ allowed = {}
  /\ unknown = None /\ replayOf = 0

-----------------------------------------------------------------------------
(* What an action needs before it is dispatched.  A shell command under    *)
(* the Ask policy asks by its own card, whatever it does.                  *)
Destructive(a) == a \in Deletes \/ (a \in Risky /\ policy = "autonomous")

Need(a) ==
  CASE Destructive(a) -> "destructive"
    [] a \in Commands /\ policy = "ask" -> "shell"
    [] OTHER -> "none"

Category(a) == IF a \in Deletes THEN "files" ELSE "commands"

(* approval_context: the digest of goal, policy and script bytes.          *)
Context(need, g, p) == <<g, p, IF need = "shell" THEN script ELSE 0>>

Card(need, a) ==
  [kind |-> "card", need |-> need, act |-> a, task |-> 0,
   ctx |-> Context(need, goal, policy), era |-> now]

(* destructive::allowed and shell_allowed, delete_allowed: an exact        *)
(* binding, or for a destructive action a category.                        *)
ForCategory(gs, a) ==
  \E g \in gs : g.need = "destructive" /\ g.scope = "conversation"
             /\ Category(g.act) = Category(a)
Exact(gs, need, a) ==
  {g \in gs : g.need = need /\ g.act = a /\ (need = "destructive" => g.scope = "once")}
Granted(gs, need, a) ==
  \/ need = "none"
  \/ need = "destructive" /\ ForCategory(gs, a)
  \/ Exact(gs, need, a) # {}

Spend_Kept(gs, need, a) == gs
(* A destructive action uses up its first grant "once".                    *)
Spend(gs, need, a) ==
  IF need = "destructive" /\ ~ForCategory(gs, a)
  THEN gs \ {CHOOSE g \in Exact(gs, need, a) : \A h \in Exact(gs, need, a) : g.id <= h.id}
  ELSE gs

(* refresh_approval_leases, for goal g and policy p: a lease outlives its  *)
(* card only for the conversation, and never a change of context.          *)
LeaseHolds_Ageless(l, g, p) == l.ctx = Context(l.need, g, p)
LeaseHolds(l, g, p) ==
  /\ l.ctx = Context(l.need, g, p)
  /\ l.scope = "conversation" \/ l.era = now

Refreshed(ls, g, p) == {l \in ls : LeaseHolds(l, g, p)}

(* revoke_card_grant, for each of the leases given up.                     *)
Revoke(gs, dropped) == {g \in gs : \A l \in dropped : l.id # g.id}

Valid(card) == card.era = now /\ card.ctx = Context(card.need, goal, policy)

-----------------------------------------------------------------------------
(* The turn ends: a task that was being worked on may be taken up again.   *)
Finish(s, ts) ==
  /\ status' = s
  /\ tasks' = [t \in DOMAIN ts |-> IF ts[t] = "Working" THEN "Queued" ELSE ts[t]]
  /\ pc' = "none" /\ cur' = 0 /\ by' = "worker" /\ stop' = "no"

(* It ends with an error and p pending.  A budget may be the reason.       *)
Failed(p, ts) ==
  \E s \in {"Paused", "Needs input"} :
    /\ stop = "stall" => s = "Needs input"
    /\ stop = "user" \/ (stop = "no" /\ p.kind = "card") => s = "Paused"
    /\ Finish(s, ts)

Idle == up /\ pc = "none" /\ status # "Deleted"

-----------------------------------------------------------------------------
(* send: a new goal, or the saved one resumed, with the grants the user    *)
(* adds to the request.                                                    *)
Admit(g, p, users) ==
  LET over  == {l \in leases : l.need = "shell" /\ l.act \in users}
      base  == Revoke(grants, over)
      added == {[need |-> "shell", act |-> a, scope |-> "user", id |-> 0] :
                  a \in {b \in users : Exact(base, "shell", b) = {}}}
      kept  == Refreshed(leases \ over, g, p)
  IN /\ Idle /\ pending = Nothing
     /\ goal' = g /\ policy' = p
     /\ leases' = kept
     /\ grants' = Revoke(base \cup added, (leases \ over) \ kept)
     /\ allowed' = {x \in allowed : g = goal \/ x.scope = "user"} \cup
                   {[act |-> a, scope |-> "user", ctx |-> <<>>, era |-> 0] : a \in users}
     /\ status' = "Planning" /\ pc' = "drive"
     /\ UNCHANGED <<pending, stamp, replay, cur, by, stop, world, left, lasting,
                    unknown, replayOf>>

NewGoal(p, users) ==
  /\ goal < MaxGoals
  /\ Admit(goal + 1, p, users)
  /\ tasks' = <<>> /\ plan' = <<>> /\ queue' = <<>> /\ rounds' = 0 /\ seen' = (goal + 1 \notin Projects)

Resume(p, users) ==
  /\ goal > 0 /\ status # "Completed"
  /\ Admit(goal, p, users)
  /\ UNCHANGED <<work, queue, seen>>

(* stop, and the watchdog of a turn in which nothing progresses.           *)
Stop ==
  /\ pc # "none" /\ stop = "no"
  /\ stop' = "user"
  /\ UNCHANGED <<request, status, work, pending, queue, authority, seen, pc, cur, by,
                 world, approvals, unknown>>

Stall ==
  /\ pc # "none" /\ stop # "stall"
  /\ stop' = "stall"
  /\ UNCHANGED <<request, status, work, pending, queue, authority, seen, pc, cur, by,
                 world, approvals, unknown>>

(* manage, "delete".                                                       *)
Delete ==
  /\ Idle /\ goal > 0
  /\ status' = "Deleted"
  /\ UNCHANGED <<request, work, pending, queue, authority, seen, worker, world,
                 approvals, unknown>>

-----------------------------------------------------------------------------
(* resolve                                                                 *)
Answered(card, s) ==
  tasks' = [t \in DOMAIN tasks |-> IF t = card.task THEN s ELSE tasks[t]]

(* record_approval: the grant, and the lease that lets it lapse.  A        *)
(* destructive category of the conversation has no lease.  A destructive   *)
(* action is run by the host when work resumes.                            *)
LeaseOf(c, scope) ==
  IF c.need = "destructive" /\ scope = "conversation" THEN {}
  ELSE {[need |-> c.need, act |-> c.act, scope |-> scope, id |-> stamp + 1,
         ctx |-> c.ctx, era |-> c.era]}

GrantOf(c, scope, base) ==
  IF c.need # "destructive" /\ Exact(base, c.need, c.act) # {} THEN {}
  ELSE {[need |-> c.need, act |-> c.act, scope |-> scope, id |-> stamp + 1]}

Approve(scope) ==
  LET c     == pending
      kept  == Refreshed(leases, goal, policy)
      base  == Revoke(grants, leases \ kept)
      risky == c.need = "destructive"
  IN /\ Idle /\ c.kind = "card" /\ Spare /\ Valid(c)
     /\ leases' = kept \cup LeaseOf(c, scope)
     /\ grants' = base \cup GrantOf(c, scope, base)
     /\ stamp' = stamp + 1
     /\ replay' = IF risky THEN c.act ELSE replay
     /\ Answered(c, "Queued") /\ status' = "Paused" /\ pending' = Nothing /\ seen' = TRUE
     /\ left' = IF risky /\ scope = "once" THEN [left EXCEPT ![c.act] = @ + 1] ELSE left
     /\ lasting' = IF risky /\ scope = "conversation"
                   THEN lasting \cup {Category(c.act)} ELSE lasting
     /\ allowed' = allowed \cup (IF c.need # "shell" THEN {} ELSE
                     {[act |-> c.act, scope |-> scope, ctx |-> c.ctx, era |-> c.era]})
     /\ replayOf' = IF risky THEN goal ELSE replayOf
     /\ UNCHANGED <<request, plan, rounds, queue, worker, world, unknown>>

(* An approval that comes too late, or for what has changed, grants        *)
(* nothing: the task will propose again.                                   *)
Renew ==
  /\ Idle /\ pending.kind = "card" /\ ~Valid(pending)
  /\ Answered(pending, "Queued") /\ status' = "Paused" /\ pending' = Nothing
  /\ UNCHANGED <<request, plan, rounds, queue, authority, seen, worker, world, approvals,
                 unknown>>

Abandon ==
  /\ Idle /\ pending.kind = "card"
  /\ Answered(pending, "Declined") /\ status' = "Paused" /\ pending' = Nothing
  /\ UNCHANGED <<request, plan, rounds, queue, authority, seen, worker, world, approvals,
                 unknown>>

(* What became of an effect is for the user to say.                        *)
Reconcile(completed) ==
  /\ Idle /\ pending.kind = "effect"
  /\ pending' = Nothing /\ unknown' = None
  /\ status' = "Paused"
  /\ seen' = (seen \/ completed)
  /\ UNCHANGED <<request, work, queue, authority, worker, world, approvals>>

-----------------------------------------------------------------------------
(* The worker.                                                             *)
(* An error ends the turn wherever it is: no lease of the desktop, a       *)
(* raised stop flag, a budget, a model that fails, an action that is       *)
(* denied, a save.                                                         *)
Fail ==
  /\ pc \notin {"none", "effect", "asked"}
  /\ Failed(pending, tasks)
  /\ UNCHANGED <<request, plan, rounds, pending, queue, authority, seen, world, approvals,
                 unknown>>

Panic ==
  /\ pc # "none"
  /\ Finish("Paused", tasks)
  /\ UNCHANGED <<request, plan, rounds, pending, queue, authority, seen, world, approvals,
                 unknown>>

(* The turn ends as the code has it end, with this status.                 *)
EndTurn(s, ts) ==
  /\ Finish(s, ts)
  /\ UNCHANGED <<request, plan, rounds, pending, queue, authority, seen, world, approvals,
                 unknown>>

(* A spoken question or a greeting, answered without tasks.                *)
Converse == pc = "drive" /\ tasks = <<>> /\ queue = <<>> /\ EndTurn("Completed", tasks)

(* The start of an action: leases are refreshed, a grant is used up, and   *)
(* the pending record is saved before anything is sent.  A review may only *)
(* read, so it passes no gate.                                             *)
Dispatch(a, who) ==
  LET kept == Refreshed(leases, goal, policy)
      base == Revoke(grants, leases \ kept)
  IN /\ stop = "no" /\ Granted(base, Need(a), a)
     /\ leases' = kept /\ grants' = Spend(base, Need(a), a)
     /\ pending' = Effect(a) /\ unknown' = a
     /\ pc' = "effect" /\ by' = who
     /\ left' = IF Destructive(a) /\ Category(a) \notin lasting
                THEN [left EXCEPT ![a] = @ - 1] ELSE left
     /\ UNCHANGED <<request, status, work, queue, stamp, seen, cur, stop, world,
                    lasting, allowed>>

(* needs_approval: the card replaces whatever was pending, for nothing was *)
(* sent, and is saved.                                                     *)
Propose(need, a, who) ==
  LET kept == Refreshed(leases, goal, policy)
  IN /\ leases' = kept /\ grants' = Revoke(grants, leases \ kept)
     /\ pending' = Card(need, a) /\ unknown' = None
     /\ pc' = "asked" /\ by' = who
     /\ UNCHANGED <<request, status, work, queue, stamp, seen, cur, stop, world,
                    left, lasting, allowed>>

Ask(a, who) ==
  /\ stop = "no"
  /\ ~Granted(Revoke(grants, leases \ Refreshed(leases, goal, policy)), Need(a), a)
  /\ Propose(Need(a), a, who)

(* The project a goal names is looked at before the goal is planned, and   *)
(* again by a resumed turn as long as nothing succeeded.                   *)
Inspect ==
  /\ pc = "drive" /\ ~seen /\ Len(queue) <= MaxQueue
  /\ \E a \in Reads : Dispatch(a, "inspector")
  /\ UNCHANGED <<replay, replayOf>>

PlanWith(p) ==
  /\ plan' = p /\ tasks' = [t \in DOMAIN p |-> "Queued"]

(* The planner returns tasks, a question, or an answer to a greeting; the  *)
(* plan of a resumed goal is kept.                                         *)
Planned ==
  /\ \/ pc = "drive" /\ seen
     \/ pc = "plan"
  /\ IF tasks = <<>>
     THEN \E p \in Plans : PlanWith(p)
     ELSE UNCHANGED <<tasks, plan>>
  /\ pc' = "pick"
  /\ UNCHANGED <<request, status, rounds, pending, queue, authority, seen, cur, by, stop,
                 world, approvals, unknown>>

(* The worker decides, but for an approved action, which goes first.       *)
Deciding == pc = "decide" /\ replay = None

(* A question to the user: of the planner, the worker, the reviewer, or of *)
(* the host when an answer was refused three times or nothing moves.       *)
Question ==
  /\ \/ pc \in {"drive", "plan"} /\ tasks = <<>>
     \/ Deciding
     \/ pc = "review"
  /\ EndTurn("Needs input", tasks)

-----------------------------------------------------------------------------
(* execution_graph::next                                                   *)
Ready == {t \in DOMAIN tasks : tasks[t] \notin Skipped /\ \A d \in plan[t] : tasks[d] = "Done"}

AllDone(ts) == \A t \in DOMAIN ts : ts[t] = "Done"

Pick ==
  /\ pc = "pick" /\ stop = "no" /\ Ready # {}
  /\ cur' = Min(Ready)
  /\ tasks' = [tasks EXCEPT ![Min(Ready)] = "Working"]
  /\ status' = "Working" /\ pc' = "decide"
  /\ UNCHANGED <<request, plan, rounds, pending, queue, authority, seen, by, stop, world,
                 approvals, unknown>>

(* The first action of the task is the approved one, run by the host; with *)
(* the evidence setting off it is dropped.                                 *)
Replay ==
  /\ pc = "decide" /\ replay # None
  /\ replay' = None /\ replayOf' = 0
  /\ \/ Dispatch(replay, "replay")
     \/ Ask(replay, "replay")
     \/ UNCHANGED <<request, status, work, pending, queue, grants, leases, stamp, seen,
                    worker, world, left, lasting, allowed, unknown>>

Act ==
  /\ Deciding /\ UNCHANGED <<replay, replayOf>>
  /\ \E a \in Acts : Dispatch(a, "worker") \/ Ask(a, "worker")

(* The card of a worker waits in the queue, and its task for the card; the *)
(* card of a replay ends the turn.                                         *)
Enqueue ==
  /\ pc = "asked" /\ by = "worker"
  /\ queue' = Append(queue, [pending EXCEPT !.task = cur]) /\ pending' = Nothing
  /\ tasks' = [tasks EXCEPT ![cur] = "Awaiting approval"]
  /\ pc' = "pick"
  /\ UNCHANGED <<request, status, plan, rounds, authority, seen, cur, by, stop, world,
                 approvals, unknown>>

Present == pc = "asked" /\ by = "replay" /\ Failed(pending, tasks)
           /\ UNCHANGED <<request, plan, rounds, pending, queue, authority, seen, world,
                          approvals, unknown>>

(* The task is Done; an answer of the host may complete the goal with it.  *)
Complete ==
  /\ Deciding
  /\ LET ts == [tasks EXCEPT ![cur] = "Done"]
     IN \/ AllDone(ts) /\ EndTurn("Completed", ts)
        \/ /\ tasks' = ts /\ pc' = "pick"
           /\ UNCHANGED <<request, status, plan, rounds, pending, queue, authority, seen,
                          cur, by, stop, world, approvals, unknown>>

-----------------------------------------------------------------------------
(* After the action.  The pending record goes only when the outcome is     *)
(* known; an app call may turn out to need a grant.                        *)
After(who) ==
  CASE who = "inspector" -> "plan"
    [] who \in {"worker", "replay"} -> "decide"
    [] who = "reviewer" -> "review"

Lapsed(a) == a \in Calls /\ ~Granted(grants, "delete", a)

Observe ==
  /\ pc = "effect" /\ ~Lapsed(pending.act)
  /\ pending' = Nothing /\ unknown' = None
  /\ \E ok \in BOOLEAN : seen' = (seen \/ ok)
  /\ pc' = After(by) /\ by' = "worker"
  \* a plan made before the project was seen is dropped
  /\ IF by = "inspector" /\ \A t \in DOMAIN tasks : tasks[t] # "Done"
     THEN tasks' = <<>> /\ plan' = <<>>
     ELSE UNCHANGED <<tasks, plan>>
  /\ UNCHANGED <<request, status, rounds, queue, authority, cur, stop, world, approvals>>

NeedsGrant ==
  /\ pc = "effect" /\ Lapsed(pending.act)
  /\ Propose("delete", pending.act, by)
  /\ UNCHANGED <<replay, replayOf>>

Uncertain ==
  /\ pc = "effect" /\ by # "inspector"   \* a listing is never uncertain
  /\ Failed(pending, tasks)
  /\ UNCHANGED <<request, plan, rounds, pending, queue, authority, seen, world, approvals,
                 unknown>>

(* A connection that failed before anything was sent: the task goes on     *)
(* over the desktop, which is looked at first.                             *)
Reroute ==
  /\ pc = "effect" /\ by = "worker" /\ pending.act \in Calls
  /\ \E a \in Reads : pending' = Effect(a) /\ unknown' = a
  /\ UNCHANGED <<request, status, work, queue, authority, seen, worker, world, approvals>>

(* runtime_stage: the turn waits for the supervisor to start the runtime.  *)
Staged ==
  /\ pc = "effect" /\ pending.act \in Upgrades
  /\ pending' = Nothing /\ unknown' = None /\ seen' = TRUE
  /\ \E s \in {"Upgrading", "Needs input"} :
       (stop = "stall" => s = "Needs input") /\ Finish(s, tasks)
  /\ UNCHANGED <<request, plan, rounds, queue, authority, world, approvals>>

-----------------------------------------------------------------------------
(* No task can be taken: the next card is shown, or what is left needs the *)
(* user; otherwise the goal is complete, or reviewed.                      *)
NoneReady == pc = "pick" /\ Ready = {}

ShowCard ==
  /\ NoneReady /\ queue # <<>>
  /\ pending' = Head(queue) /\ queue' = Tail(queue)
  /\ Finish("Paused", tasks)
  /\ UNCHANGED <<request, plan, rounds, authority, seen, world, approvals, unknown>>

LeaveRest == NoneReady /\ queue = <<>> /\ ~AllDone(tasks) /\ EndTurn("Needs input", tasks)

Conclude ==
  /\ NoneReady /\ queue = <<>> /\ AllDone(tasks)
  /\ \/ EndTurn("Completed", tasks)
     \/ /\ status' = "Reviewing" /\ pc' = "review"
        /\ UNCHANGED <<request, work, pending, queue, authority, seen, cur, by, stop,
                       world, approvals, unknown>>

Read ==
  /\ pc = "review"
  /\ \E a \in Reads : Dispatch(a, "reviewer")
  /\ UNCHANGED <<replay, replayOf>>

Accept == pc = "review" /\ EndTurn("Completed", tasks)

(* A repair replaces the plan, as often as the review limit lets it.       *)
Repair ==
  /\ pc = "review" /\ rounds < MaxRounds /\ Spare
  /\ rounds' = rounds + 1 /\ pc' = "pick"
  /\ \E p \in Plans : PlanWith(p)
  /\ UNCHANGED <<request, status, pending, queue, authority, seen, cur, by, stop, world,
                 approvals, unknown>>

-----------------------------------------------------------------------------
Fault == Spare /\ faults' = faults + 1

(* The process dies, or the save that ends a turn fails.                   *)
Crash ==
  /\ Fault /\ up' = FALSE
  /\ pc' = "none" /\ cur' = 0 /\ by' = "worker" /\ stop' = "no"
  /\ UNCHANGED <<request, status, work, pending, queue, authority, seen, now, script,
                 approvals, unknown>>

(* recover, at the start: an effect whose result can be observed is        *)
(* settled, and work that nothing holds back is resumed.                   *)
Recover_Resumes ==
  /\ ~up /\ up' = TRUE
  /\ \/ UNCHANGED <<status, pc, leases, grants>>
     \/ /\ status \in Resumed /\ pending.kind # "card"
        /\ LET kept == Refreshed(leases, goal, policy)
           IN leases' = kept /\ grants' = Revoke(grants, leases \ kept)
        /\ status' = "Planning" /\ pc' = "drive"
  /\ UNCHANGED <<request, work, pending, queue, stamp, replay, seen, cur, by, stop, now, script,
                 faults, approvals, unknown>>
Recover ==
  /\ ~up /\ up' = TRUE
  /\ \/ UNCHANGED <<status, pending, seen, pc, leases, grants, unknown>>
     \/ /\ status \in Resumed /\ pending.kind # "card"
        /\ pending' = Nothing /\ unknown' = None /\ seen' = (seen \/ pending # Nothing)
        /\ LET kept == Refreshed(leases, goal, policy)
           IN leases' = kept /\ grants' = Revoke(grants, leases \ kept)
        /\ status' = "Planning" /\ pc' = "drive"
  /\ UNCHANGED <<request, work, queue, stamp, replay, cur, by, stop, now, script, faults,
                 approvals>>

(* Time passes the lifetime of the cards there are; a script is edited.    *)
Tick ==
  /\ Fault /\ now' = now + 1
  /\ UNCHANGED <<request, status, work, pending, queue, authority, seen, worker, up, script,
                 approvals, unknown>>

Edit ==
  /\ Fault /\ script' = script + 1
  /\ UNCHANGED <<request, status, work, pending, queue, authority, seen, worker, up, now,
                 approvals, unknown>>

User ==
  \/ \E p \in {"ask", "autonomous"}, users \in SUBSET Commands :
       NewGoal(p, users) \/ Resume(p, users)
  \/ Stop \/ Delete \/ Renew \/ Abandon
  \/ \E scope \in {"once", "conversation"} : Approve(scope)
  \/ \E completed \in BOOLEAN : Reconcile(completed)

Worker ==
  \/ Converse \/ Inspect \/ Planned \/ Question \/ Fail \/ Pick \/ Replay \/ Act
  \/ Enqueue \/ Present \/  Complete \/ Observe \/ NeedsGrant
  \/ Uncertain \/ Reroute \/ Staged \/ ShowCard \/ LeaveRest \/ Conclude \/ Read \/ Accept \/ Repair

Next == User \/ Worker \/ Stall \/ Panic \/ Crash \/ Recover \/ Tick \/ Edit

Spec == Init /\ [][Next]_vars

-----------------------------------------------------------------------------
Statuses == Resumed \cup Ended \cup {"Deleted"}
TaskStatuses == Skipped \cup {"Queued", "Working"}
Needs  == {"destructive", "shell", "delete"}
Scopes == {"once", "conversation", "user"}
Contexts == (0 .. MaxGoals) \X {"ask", "autonomous"} \X (0 .. MaxEvents)
Cards == [kind : {"card"}, need : Needs, act : Acts, task : Nat, ctx : Contexts,
          era : 0 .. MaxEvents]
Effects == [kind : {"effect"}, act : Acts]

TypeOK ==
  /\ goal \in 0 .. MaxGoals /\ policy \in {"ask", "autonomous"} /\ status \in Statuses
  /\ plan \in Seq(SUBSET Nat) /\ tasks \in Seq(TaskStatuses) /\ Len(tasks) = Len(plan)
  /\ rounds \in 0 .. MaxRounds
  /\ pending \in {Nothing} \cup Cards \cup Effects /\ queue \in Seq(Cards)
  /\ grants \subseteq [need : Needs, act : Acts, scope : Scopes, id : 0 .. MaxEvents]
  /\ leases \subseteq [need : Needs, act : Acts, scope : Scopes, id : 1 .. MaxEvents,
                       ctx : Contexts, era : 0 .. MaxEvents]
  /\ stamp \in 0 .. MaxEvents /\ replay \in Acts \cup {None} /\ seen \in BOOLEAN
  /\ pc \in {"none", "drive", "plan", "pick", "decide", "asked", "effect",
             "review"}
  /\ cur \in Nat /\ by \in {"worker", "replay", "inspector", "reviewer"}
  /\ stop \in {"no", "user", "stall"} /\ up \in BOOLEAN
  /\ now \in 0 .. MaxEvents /\ script \in 0 .. MaxEvents /\ faults \in 0 .. MaxEvents
  /\ left \in [Acts -> Int] /\ lasting \subseteq {"files", "commands"}
  /\ unknown \in Acts \cup {None} /\ replayOf \in 0 .. MaxGoals

(* A destructive action that was approved once runs at most once for each  *)
(* such approval, through replays, retries, crashes between the approval   *)
(* and the run, and new turns (destructive_gate, record_approval): unless  *)
(* its category was approved for the conversation.                         *)
OncePerApproval == \A a \in Acts : left[a] < 0 => Category(a) \in lasting

(* A command that has to ask runs only while an approval for it holds:     *)
(* given by the user outright, or by a card in the very context it runs in *)
(* (goal, access, policy, bytes of the script), and not a card's lifetime  *)
(* ago unless for the conversation (refresh_approval_leases).              *)
Approved(a) ==
  \E x \in allowed : /\ x.act = a
                     /\ \/ x.scope = "user"
                        \/ /\ x.ctx = Context("shell", goal, policy)
                           /\ x.scope = "conversation" \/ x.era = now
CommandsInContext ==
  [][pc' = "effect" /\ pc # "effect" /\ Need(pending'.act) = "shell"
     => Approved(pending'.act)]_vars

(* What may have been done and is not known to have been done stays on     *)
(* record until somebody who knows clears it: no stop, panic, crash or     *)
(* restart forgets it, and nothing else is dispatched meanwhile.           *)
UnknownIsPending == unknown # None => pending = Effect(unknown)

(* A goal reported as completed has nothing pending, and no task that was  *)
(* declined, waits for the user or was not done.                           *)
CompletedIsClean == status = "Completed" => pending = Nothing /\ AllDone(tasks)

(* A task that waits for an approval has its card, in the queue or before  *)
(* the user: no stop, crash or new plan leaves it waiting for nothing.     *)
AwaitingHasCard ==
  \A t \in DOMAIN tasks : tasks[t] = "Awaiting approval" =>
    \/ pending.kind = "card" /\ pending.task = t
    \/ \E i \in DOMAIN queue : queue[i].task = t

NothingForgotten == UnknownIsPending /\ CompletedIsClean /\ AwaitingHasCard

(* The host runs an approved action when that work is resumed, as          *)
(* chat.rs:98 has it, not in a later goal.                                 *)
ReplayInItsGoal ==
  [][replay # None /\ pc' = "effect" /\ by' = "replay" => goal = replayOf]_vars

(* A turn that asks the user to resume can be resumed (chat.rs:1010).      *)
PausedCanResume == status = "Needs input" /\ pc = "none" => pending = Nothing
=============================================================================
