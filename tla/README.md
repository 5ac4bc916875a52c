# Klyne in TLA+

Klyne is a local agent harness: a model proposes actions, a host written in Rust
decides, performs and records them. What makes it hard is durability and company. A
run, a message, a plan, a goal or a schedule outlives the process that works on it, and
the process may die between any two writes; conversations, users, the scheduler, the
supervisor and outside programs act on the same records at the same time. These
specifications model the parts of Klyne that make promises under such conditions; TLC
checks them on small instances and TLAPS proves the most important ones for every
instance.

Contents: [the system](#the-system), [modules](#modules), [runs](#runs),
[proofs](#proofs), [where code and documents disagree](#where-code-and-documents-disagree),
[other hazards](#other-hazards), [what is left out](#what-is-left-out), [plan](#plan),
[running it](#running-it).

## The system

The repository has two layers. `crates/` is the durable core, one library per concern;
`apps/studio` is a local web application with conversations, a goal board, schedules and
tools, and `apps/cli` a thin command line over the core. `scripts/klyne_recovery.py`
guards the application from outside.

| component | state it keeps | operations | how it interacts | what is hard | what makes it correct |
|---|---|---|---|---|---|
| Durable runtime `harness-core/agent.rs` | one checkpoint per run and an event log, in SQLite; a copy in the driving process | begin, drive, resume, reconcile, amend, cancel, complete | asks a model, runs tools under a policy | a crash between reservation, effect and checkpoint; effects whose outcome is unknown | an effect happens at most once and is never forgotten; budgets hold across crashes; a completion rests on evidence |
| Message journal `action_journal.rs` | state and pinned intent of each action id | prepare, deliver, transition | sends to and looks up at an outside system | lost, late, doubled, altered messages; retry after a crash | one id sends one message, the pinned one; verified means received |
| Delegation `delegation.rs`, `delegation_budget.rs` | a pool and a reservation per child, in SQLite | open, reserve, settle, spawn | starts child runs of the runtime | children in several processes, abandoned reservations | children together never exceed the pool |
| Durable plan `plan.rs` | tasks, goals, dependencies in a run's checkpoint | add, repair, mark, complete | edited through `revise_plan` by drivers and operators | long sequences of legal edits | no cycle, no lost attempt, no completion by giving up |
| Plan driver `harness-benchmark/lib.rs` | its place in the loop; children's stores | run_plan | one child run per task, the plan's store, an oracle over files | several drivers on stale snapshots; kill windows | one worker per task, dependencies first, nothing redone |
| Usage metering `agent.rs`, `openai.rs` | charged usage in the checkpoint, a cumulative meter in the provider | accrue, amend | every model call | two counters with different lifetimes | nobody is charged for what was not spent; overrun is bounded |
| Conversations `chat.rs` | a record per conversation on disk, workers and stop flags in memory | send, stop, manage, recover | started by users, the board, the scheduler and the follow-up queue | a worker's end races every reader; recovery after a restart | a limited number of workers, one per conversation |
| Goal board `coordinator.rs` | jobs with dependencies, in SQLite | submit, recheck, cancel, archive, tick, recover | starts conversations under the admission lock | a dispatch in three steps; users who take conversations over | a goal is dispatched once, in order, alone if exclusive; a completed job did its goal |
| Schedules `schedules.rs` | jobs with an interval, in SQLite | create, pause, enable, delete, tick, recover | starts conversations, as the board does | the same, and the next interval | no occurrence replayed, no overlap, failures pause |
| Turn engine `chat.rs` | plan, pending action, queue of cards, grants and leases in the conversation | plan, pick, decide, approve, dispatch, review, resume, recover | models, tools, the user's cards | order of approvals, replays, stops and crashes | one approval, one run; what may have been done is never forgotten |
| Loop guards `loop_guard.rs`, `progress.rs` | counters and histories of a goal, some durable | charge, warn, hand off, review a stall | every step of a worker | four counters that forget at different moments | every turn ends; nobody is stopped without a second chance |
| Models and transport `chat.rs`, `connections.rs` | steps and tokens of the goal; a child process, threads, a session | request, retry, fall back, stop | Codex, OpenCode, Ollama | retries by several paths; a child that keeps its pipes | every call is charged, comes back, and leaves nothing at work |
| Live chat and follow-ups `live_chat.rs` | messages in SQLite | submit, cancel, tick, recover | starts turns of its conversation | claims across restarts | a follow-up is sent once, in its turn and with its access |
| Runs and retirement `main.rs` | the table of runs, the admission lock, a flag | start, resume, end, quiesce, ready | the supervisor asks, users start | a check on one thread and its use on another | an update waits for the work that was admitted |
| Activation `activation.rs`, `klyne-supervisor.rs`, `klyne_recovery.py` | candidate, current and previous runtime, receipts, incidents on disk | test, stage, activate, roll back, restart, repair | replaces Studio's process | deaths between the switch and its record | what runs was tested; a fallback has proven itself; a dead runtime is noticed |
| Experiments `harness-experiment` | a worktree, a branch and a record per experiment | run, promote, roll back | git, test suites | failing commits, two conversations with one id | a promotion kept every test; record and repository agree |
| Conversation store `chat_store.rs`, `web/chat.js` | snapshot and events in SQLite; the page's copy | save, pulse, snapshot | the page polls | saves between two requests, dropped events | a page at rest is current |
| Memory `harness-memory`, beliefs `beliefs.rs` | rows in SQLite; a file of beliefs | write, merge, retain; extract, apply, fade | after runs and turns | a merge is several commits; answers arrive late | no observation is lost; a belief in use has support |
| Permissions `permissions.rs` | a policy per run | configure, narrow | every tool; spawn_child | grants over several levels | a child never may what its parent may not |
| Tool executors of the core `tools.rs`, `large_files.rs` | files of the workspace | write, copy, move, delete, patch, search | runs and editors side by side | a file changes while it is read | a patch changes what it was given; a search misses nothing |
| Tools of Studio: saved tools, browser, desktop, deliverables, applications, web | versions; sessions; a lease; intents; processes; evidence | one call each | programs outside | shared resources, late answers, programs that outlive a turn | the right answer, element, bytes and version; nothing made is forgotten |
| Front ends, diagnostics, advice to the planner, verification of effects, completion guards | caches, prompt text, predicates | rendering, text | | | |

`PROJECT.json` lists every component with its status, and under `hazards` the places
where this code can go wrong in a way that a test would hardly reach.

## Modules

Every module starts with a comment that says what it stands for. An action is one
operation of the code, cut where a crash or another actor can come in between: between
two commits, between a commit and an effect, or where a lock is not held. What happens
inside one SQLite transaction or under one lock is one action.

`X_Mutant` definitions beside some actions are plausible mistakes in that action: each
property was run against one to make sure that it can fail.

**AtMostOnce** is the abstract promise about side effects: effects happen in numbered
slots, each reserved, performed at most once, then settled or left in dispute. Two
modules implement it.

**AgentRuntime** (`agent.rs`, with `execution.rs`, `verification.rs`, `sqlite_store.rs`).
`ckpt` is the committed `RunState`, `mem` the copy of the driving process, `file` the
workspace file the actions write and read, `pc` the place in `drive_inner`, `execute` and
`reconcile`. Each `commit` of the code is `Checkpoint`; a failed write to the event store
and a crash are both `Crash`. Actions are split by what reconciliation can do with them:
whole-file writes (a read decides), reads (repeated), shell commands (outcome unknown when
killed) and opaque ones (patches, listings: unsupported). A second process cannot drive
at the same time, because a store lease admits one (modelled as one `pc`).
Ghosts count invocations, model calls and the highest budget ever granted.

**ActionJournal** (`action_journal.rs`). `state` and `intent` are the journal's columns;
`arrived` and `flying` are the outside system, which loses, delays, alters and doubles
messages.

**DelegationBudget** (`delegation_budget.rs`, `spawn_child_budgeted`). `row` and `amount`
are the reservations, `child` the child run's state, `used` what its checkpoint says and
`calls` what it really did (a failed reservation is charged without a call). Children run concurrently and may be abandoned at any step.

**Plan** (`plan.rs`) holds the plan's edits as actions of one revision each; **PlanDriver**
(`harness-benchmark/src/lib.rs`) extends it with several drivers in `run_plan`, the child
runs, operators who revise the plan meanwhile and files that get broken. The driver keeps
only its place and its task: every step opens the store anew, as the code does.
The child's run itself is reduced to "open until it completes or fails"; AgentRuntime says
why it does either only once.

**UsageMeter** (`accrue_usage`, `settle_limits`, and the session counter of `openai.rs`).
Tokens stand for cost too, which follows the same path.

**Permissions** (`permissions.rs`, `spawn_child`). One variable, the chain of policies of
runs under way. The host configures the root in any order before it delegates; a
child's policy is made in one piece from its parent's and a grant.

**MemoryStore** (`harness-memory/src/lib.rs`) has the rows of the table; each statement of a
consolidation is an action, because each commits by itself: what the keeper of a group takes over (`Absorb`), then each tombstone (`Bury`). **Beliefs** (`beliefs.rs`) lets
several turns read the same snapshot, and applies their answers in any order.

**ChatService** (`Chats` of `chat.rs`) has admission, the end of a worker, stop, delete,
`recover` and what `get` reports. **GoalBoard** and **Schedules** extend it. A claim, the
admission it leads to and the record of it are three actions, because they are three
writes; the admission lock that the code holds across them is a variable (`claimed`,
`holder`) other admissions wait for. Users act on conversations directly: they stop, resume,
follow up, delete, and change files. A restart recovers conversations first, then the
board, in the order of `Studio::new`, as one action: nothing else runs meanwhile.

**ChatTurn** (`chat.rs`, `destructive.rs`, `broker.rs`) is one conversation from inside: goals, a plan, the choice of a
task, proposals and cards, grants with their scope, context and age, the record of an
effect while it is out, reviews, repairs, the user's and the watchdog's stop, panics,
crashes and recovery. A step is the code between two saves. It refines in spirit what
ChatService leaves open ("a worker ends somehow"), but shares no variable with it: the board
needs many conversations and no cards, the turn needs one with all of them.

**WorkerLoop** (`loop_guard.rs`, `progress.rs`, the loops of `execute`, the final review) is the same turn seen from its
counters. Model and tools may answer anything; only the counters, caps and refusals end it. The final review has its own:
reads of a reviewer (12 of them, or two of the same thing), checks that were not met (3), completions a critic did not accept (2), and
the repairs it asks for. Two of these are settings, and both are off unless somebody sets them. Evidence-based completion (`quality.rs:119`) is
looked up at each use, so in the model it is on or off at each read of the reviewer; while it is off every read is made, and then only a limit of steps, time or
tokens ends the reading. The rounds of repair (`max_review_rounds`) are limited or, with the default 0, not; a message may change that. `TurnEnds` therefore
says: a turn ends, unless its reviewer goes on for ever in one of these two ways, reading while evidence is off or repairing while rounds are unlimited. Under the board and the schedules
neither can last: `coordinator.rs:186-197` and `schedules.rs:106-110` set steps, time, tokens and rounds that are not zero, and `guard` looks at them before each call.

**ModelCall** (`request`, `typed_decision`, `critique`) is the accounting around one call, with its retries, fallback and
incident; **ProviderCalls** (`connections.rs`, `network.rs`) is what happens below: a child with three pipe threads and
perhaps a descendant, a session on a server, a stream.

**LiveChat** (`live_chat.rs`) extends ChatService by messages. The tick's claim, send and record are actions, for
the process may die and users may cancel, stop and delete between them.

**StudioRuns** (`main.rs`) has the threads that serve requests, the admission lock, the table of runs with the threads
that drive them, and the supervisor's questions before an update.

**Activation** (`activation.rs`, `bin/klyne-supervisor.rs`, `klyne_recovery.py`): three programs that meet in files. Each file
written is a variable and each write a step, after which its writer may die. A binary
stands for its bytes and their digest. The model's patches, the check of protected files and the copy's tests are
one step of the guardian, since before their end an attempt can only be given up; users stage binaries they built
themselves, never the guardian's candidate. **RecoveryWatch** is the guardian's monitor with its probes, its
limit on starts, and the page, whose phase several threads write.

**Promotion** (`harness-experiment`): one experimenter per conversation, each command of git a
step that may fail.

**ChatStore** (`chat_store.rs`, `web/chat.js`): saves, the events derived from them, and the page's pulse and
snapshot as separate requests.

The tools: **Capabilities** (versions of a saved tool), **DevTools** (`cdp.rs`, `ws.rs`, `browser.rs`: one debugging
session), **BrowserTools** (listings and the clicks that name them), **DesktopControl** (lease, helper, record of an
input, the clipboard's among them), **Artifacts** (intent, staged file, publication), **AppSessions** (`mcp.rs`: sessions, numbered requests, the
record of a call), **WebReach** (what evidence blocks; `blocked_sources` walks the evidence once, the module says of
each entry whether it stands and blocks), **WorkspaceFiles** (names, bodies and who has a
body open; and `search_file`, buffer by buffer, against a definition over the whole text).

**Tools**, **Services** and **Records** put the components that share no state side by side, for one run and one module of
proofs each (modules whose names do not clash are extended, the others instantiated); **MCBackground** does so for what must come to an end, and extends Schedules.

Abstractions a reader should know of: the goal board's tick goes over jobs in an order
that is left open; "paused" stands for every state of a conversation that waits for
somebody; a runtime upgrade's "Upgrading" counts as working; an archived job identifier
that is submitted again counts as another goal; a schedule's interval is a flag that
becomes due.

## Runs

All runs are in `PROJECT.json`. Bounds are constants in the cfg files or in the `INSTANCE` of the module
they belong to, never hidden in a definition. Deadlock is checked in `agent`, which has no CHECK_DEADLOCK line; the
others may come to rest (a plan that is closed, a board that is empty, a budget that is spent, a bound reached).

| run | asks | instance |
|---|---|---|
| `agent` | does any sequence of crashes, resumes, reconciliations and amendments repeat or forget an effect, exceed the call budget, or complete without evidence? does every drive return? | one action of each class, two policies, two model calls, budgets 1 to 3, a failure trip of 1 |
| `driver` | do two drivers, an operator, broken files and a crash make a task run twice, or again after it succeeded? | three tasks, two drivers |
| `driver_window` | (violated) is a child that completed in the kill window adopted? | one driver, one crash |
| `goals` | is a goal replayed or started early? | two goals, three conversations, two faults, every kind of meddling |
| `schedules_crash` | (violated) do runs of one schedule never overlap? | one crash |
| `turn` | is an approval used once and only in its context, is any effect or card forgotten? | two goals of two tasks, a delete, a risky command, an application call and a read, both policies, two events (approvals, repairs and faults together) |
| `turn_replay` | (violated) is an approved action run only in the goal it was approved in? | as `turn` |
| `repair_refused` | (violated) is a tested repair accepted? | one repair |
| `tools` | nine tools, see below | two conversations, two or three of everything they can mix up |
| `services` | six services, see below | two of each actor, one or two faults |
| `records` | seven durable records, see below | two ids, three children, three tasks, three runs below one another |
| `background` | six loops that must end or be noticed (the worker's in two instances), see below | three goals, three occurrences, two drivers, every counter of the loop guard at 1 to 4 |

`tools`, `services`, `records` and `background` are sums: components that share no state, in one run.
A variable that never changes (`tool`, `service`, `record`, `task`) says whose behaviour it is, and the variables of
the others stay in one initial state. So the states of the run are those of the components side by side,
not their product, and each component has all the states it would have in a run of its own.
That every action and every disjunct fires was looked up in TLC's coverage, component by
component; faults of the board and crashes of the driver, which are switched off in `background`, fire in
`goals`, `driver` and `records`. What is asked of each:

| run | component | property |
|---|---|---|
| `tools` | Capabilities | `RunsAsTested`: success means that this very program, arguments and files passed a test |
| | DevTools | `OwnAnswers`: an answer belongs to its request, an event to its navigation |
| | BrowserTools | `ClicksListed`: a click that names a numbered listing touches the element it listed or none, unless the number recurred after a restart |
| | DesktopControl | `InputAccounted`: an input made is told, or still on record, but for a clipboard write that timed out |
| | Artifacts | `Published`: nobody's bytes are replaced, nothing published untold without its intent |
| | AppSessions | `CallsAnswered`: own answers only, no call without answer off the record or repeated elsewhere |
| | WebReach | `ContactsBounded`: a source that refused is not asked again |
| | WorkspaceFiles | `FilesExact`: the first matches with their lines; a patch changes the content it was given for |
| `services` | LiveChat | `FollowUpsInTurn`: sent once, with its access, after a completed goal |
| | Activation | `RuntimeSound`: only tested bytes run, fallbacks have proven themselves, an incident is repaired once |
| | Promotion | `PromotionSound`: only sound candidates are committed; record and repository agree |
| | ModelCall | `CallsInBudget`: every request and decision charged, every answer that reports its usage metered (the local helper's is dropped), calls within their budgets, a reviewer stays a reviewer |
| | StudioRuns | `StudioSound`: an update kills at most a run resumed by hand, the limit on started runs holds, a run that left the table has given back its store |
| | ChatStore | `SettledIsCurrent`: a page at rest shows what is stored |
| `records` | ActionJournal | `SentOnceAsPinned`, `VerifiedMeansReceived` |
| | DelegationBudget | `CallsWithinCapacity` |
| | Plan | `AttemptsLinked` |
| | UsageMeter | `NeverOvercharged` |
| | Permissions | `NeverGrows` |
| | MemoryStore, Beliefs | `KnowledgeSound`: merging loses no observation; a belief in use has more for it than against |
| `background` | GoalBoard | `JobsApart`, `GoalsDrain` |
| | Schedules | `RunsAccounted`, `RunsSettle` |
| | PlanDriver | `PlanSettles` |
| | WorkerLoop | `TurnEnds`: a turn ends, or its reviewer goes on for ever where no setting stops him |
| | ProviderCalls | `CallReturns` |
| | RecoveryWatch | `DownIsNoticed` |

Why the bounds suffice. Every hazard is about one action, message, task or job and its
neighbour: one effect and the reconciliation read after it, one message and its retry, a
task and the one that depends on it, a listing and the next, one version and its successor, a request and the
supervisor's question. The instances have one more than that where a third party can
come in between, and two faults where a recovery can itself be interrupted. Budgets,
windows and caps are such that each is reached, exactly and beyond it: the loop guard's caps of 4 and 1 stand for 75 and 20. The worker's loop has two instances in
`background`: `Loop` acts (two moves, a history of three calls, so that the soft and the hard trip for identical calls and the caps come about), and `Talk`
claims to be done and is refused (two refusals a turn, over a resume and over rounds, so that the soft and the hard trips of idle steps and of similar replies come about, and the second
time each counter of the final review ends it). Of numbers in the code that only count up (versions, ids,
events), as many are allowed as actors times the steps that can be stale.

A run that a property needs a deep fault for keeps that fault in the instance: `services` has crashes of the supervisor,
the guardian and Studio, `tools` deaths of the application with helpers that live on, `records` deaths between statements.

Each property also failed under a mutation of the code's definitions, listed under `mutants`: it can see the mistake it is there for.

Fairness. `agent`: a process that drives goes on (the loop is bounded by steps, tool
timeouts and the model's timeout), nothing is assumed of crashes, resumes or operators.
`background` assumes, of each task separately:

* the board and the schedules: the scheduler thread of `apps/studio/src/main.rs` ticks every second, so each part of
  a tick is weakly fair, and so is the end of a worker's turn (which `TurnEnds` shows but for the reviewer that goes on; their limits of steps and time end that one). Users, faults and other
  admissions are never fair.
* the driver: one that is not killed takes its next step, and `run_plan` is called again, which is how the
  documentation tells an operator to go on.
* the worker's loop: the thread runs on, and every model call and tool comes back (`CallReturns`, and the tools' own time limits). Which answer
  comes is never fair.
* a provider call: its deadline passes, and after it the loops that poll every 25 ms go on. Before the deadline nothing is fair, and of the provider nothing ever is.
* the monitor: its thread probes, ends its rounds, and time passes (a start is 20 seconds old some day). No runtime has to recover.

## Proofs

Every theorem holds for all values of the constants that satisfy the assumptions named in the module of its component. Where a
theorem states a property of a run, the run shows it on a small instance and `PROJECT.json` names both. Hardly any of the properties is inductive: each proof
has an invariant made of named parts, most of which TLC checked on the instance of a run before they were proved, a lemma that the initial states satisfy
it, one that every step keeps it (a step of the proof for each action, and a lemma for each part where there are many), and a
theorem that puts these together.

| module | theorems |
|---|---|
| `AgentRuntime_proofs` | `TypeCorrect`, `EffectsOnce`, `CallsPaidFor`, `ThinkingBounded`, `CompletionProven`, `Terminal`, `IntentIsKept`, `Refinement` |
| `PlanDriver_proofs` | of the plan `PlanTypeCorrect`, `NoWaitingCircle`, `AttemptsReplaced`, `NothingForgotten`, `CompletionDone`; of its drivers `TypeCorrect`, `WorksAlone`, `WorksInOrder`, `SuccessIsReal`, `NothingRedone` |
| `GoalBoard_proofs` | `TypeCorrect`, `StartedOnce`, `StartedInOrder`, `CompletionEarned`, `JobsStayApart` |
| `Schedules_proofs` | `TypeCorrect`, `RunsAreAccounted` |
| `ChatTurn_proofs` | `TypeCorrect`, `NothingIsForgotten`, `ApprovedOnce`, `CommandsAreApproved` |
| `Records_proofs` | `TypeCorrect`, `SendsOnce`, `VerifiedReceived`, `Refinement` (the journal), `ChargesAreReal`, `OneDecisionLate` (the meter), `AuthorityNeverGrows` (permissions), `CallsCovered` (delegation), `KnowledgeIsSound` (memories and beliefs) |
| `Services_proofs` | `UpdatesInterruptNoStart`, `TestedRuntimeRuns`, `OnlyKeptTestsPromoted`, `BudgetsKept`, `SettledPageIsCurrent`, `FollowUpsAreSentInTurn` |
| `Tools_proofs` | `RunsTheTested`, `EachItsOwnAnswer`, `ClicksHitTheirRef`, `InputsAreTold`, `PublishedInTheOpen`, `CallsAreAnswered`, `SourcesAreSpared`, `FilesAreExact` |

**The runtime** (`ActionsAssumption`, `BoundsAssumption`). `IInv == TypeOK /\ Control /\ Accounts /\ Ids /\ Proven`:

* `Control` says what each place of the process knows: that the copy in memory is the
  checkpoint while it drives, which places hold a pending action, and that an idle process
  holds nothing;
* `Accounts` relates the checkpoint's counters to what really happened: calls and model
  calls never exceed them, between a reservation and its invocation there is one to spare,
  and the budget never exceeds the highest ever granted;
* `Ids` orders the ids of invocations: they increase strictly, and stay below the next id but
  for the action that is pending, which has been invoked at most once under the id it was reserved with;
* `Proven` says that an outcome about to be recorded, or recorded, had the observation it needs.

`Terminal` and `IntentIsKept` are action properties: one lemma each shows that a step
from `IInv` satisfies them. `Refinement` maps a run to the stage of its current effect
and shows that every step is a step or a stutter of AtMostOnce.

**The plan and its drivers** (`PlanAssumption`, `DriverAssumption`). Of the edits: `PlanTypeOK /\ Listed /\ AttemptsLinked`, where
`Listed` says that an unregistered task replaces nothing and that ranks do not exceed the number of registered tasks, so a
replacement comes after what it replaces. `CompletionDone` needs more than an invariant: among the later tasks of a goal there is
a last one (`LastLater`, from the well-foundedness of the strict subsets of a finite set), and in a plan that may be closed
the last one cannot be abandoned. Of the drivers, the invariant adds `Control`, what a driver knows of the task it chose from a
snapshot that may since have changed: its prerequisites have succeeded and stay so, a task being worked on is no longer pending, and
its child is open or completed where the driver counts on it. `Kept` states what any
revision of the plan preserves of that, and `Bystander` that a driver therefore keeps what
it knows while another one moves.

**The board** (`BoardAssumption`, `FinitelyMany`). `Claims` says what a claim that is held means for the board, `Made` that a goal with a
conversation is never queued again, `Earned` that what a conversation records of its own goal was achieved. `JobsStayApart` rests on
a second invariant on top of these, `SlotKept /\ Apart`: the slot that a dispatch counted under the admission lock is still free when it is used, because others
that start a worker wait for the lock; and as long as only the board starts workers (`BoardOnly`: no fault, no
meddling user) exclusive jobs run alone, no two work in one worktree, and a cancelled one has been told to stop.

**The schedules** (`ScheduleAssumption`). `RunsAreAccounted` is about what a schedule starts, over any number of occurrences,
users and crashes: `Counted` compares the runs of a schedule with the intervals that have passed, one less while an interval
is still owed; `Cleared` says that only the last run may be neither accomplished nor cleared by a person; `Alone` that until the first fault no run
but the recorded one is at work; `Held` what a tick that has the lock goes by. The counts are cardinalities of sets of
conversations, so no fold has to be reasoned about.

**The turn** (`TurnAssumption`). `IInv` has eleven parts. Six give the variables their types and bounds; `Placed` says what is pending in each place of the worker;
`NothingForgotten` is inductive with them; `Dated` says that no card comes from a later goal or time. Approvals need three:

* `Paid`: every approval is good for one run. The unused grants "once" of an action are never more than the approvals it has left;
  every place that takes a grant takes one approval, and a category approved for the conversation is set apart;
* `Leased`: a shell grant is the user's own, or there is a lease that can end it. A lease says where and when it was approved, is given
  up together with its grant when the context has changed, and never outlives its goal;
* `Rights`: ids of grants and leases come from one counter, so what gives up a lease takes the right grant with it.

`ApprovedOnce` and `CommandsAreApproved` follow. The steps of a turn are sorted by what they change (`EveryStep`), because most of the
thirty actions differ only in where they leave the worker, and each part of the invariant is proved once for each kind.

**The records.** The journal (`JournalAssumption`): the invariant ties the journal's state to what has been sent and to where `deliver`
is. The meter (`UsageAssumption`): while a process decides, what it spent was within the limit when the decision was asked for.
Permissions (`DefaultAssumption`, `BoundAssumption`): a prefix that covers a longer one covers all that one covers (`CoversTransitive`), so a child
that `spawn_child` builds is within its parent (`ChildWithin`, one step per kind of authority), and within every run above it
(`WithinTransitive`); no policy changes while a child runs. Delegation (`PoolAssumption`): a row covers the calls of its
child, and a reservation looks at all rows, so rows and calls stay within the pool; sums over children are cardinalities
of sets of pairs.

Memories: `MemIInv == MemTypeOK /\ Counted /\ Merging`. `Counted` says that a content that nobody replaced or forgot was observed no more often than
its live rows count. That alone is not inductive, because a merge adds to the keeper in one statement and buries the others in
later ones, and the process may die between: `Merging` says that while rows are doomed, the keeper is a live row of their content that
already counts every observation by itself, so each burial may happen or not. A worth is a sum over rows, defined as a number of marks
(`Sum`, the cardinality of a set of pairs), with lemmas for a row added, changed and taken away.

Beliefs: `BeliefIInv` says that the store is a sequence of sound rows (`SoundRow`: one in use has more for it than against). Each operation of
an answer keeps that; that a whole answer does is an induction over its operations, made without an induction theorem: if some prefix of
the answer led to an unsound store there would be a shortest one (`NatLessThanWellFounded`), and the operation before it led from a sound
store to an unsound one (`AfterEachIsSound`).

**The services** (`ServicesAssumption`, `RuntimeAssumption`, `TrialAssumption`).

* Runs and retirement: who starts a run holds the admission lock from its look at the flag until the run is in the table
  (`Locked`), and the flag is raised under the same lock, so once it stands nobody starts. `Room`: the count a request acts
  on is still good when it acts, since only the holder of the lock adds started runs. The theorem assumes in its statement that the limit is a number and that nobody is not a request.
* Activation: `SupervisorInv` says that everything the supervisor may start was tested and everything it may fall back to was healthy, in
  each of its places and on disk; `GuardianInv` that an incident's repair is placed once and within the limit.
* Experiments: `Evidence` (what has been found out so far supports what will be decided), `Ownership` (between the worktree and
  the commit a branch belongs to one experimenter), `Recorded` (whoever wrote a record has left that experiment).
* Calls to models: `Charged` says that no request or decision was made that is not charged, that what was reported of an answer is metered (a critique made by the
  local helper reports nothing), and that the call under way goes where its role may go.
* The page: a snapshot is never older than the sequence the page takes it for.
* Follow-ups: `InHand` says that what the tick read and claimed is true until it acts, unless the conversation is deleted; `Counted` that a
  message whose state says that it was not sent was not, and that a removed message can be written again only where nothing can be sent.

**The tools** (an assumption for each, which says that "nothing" is no value of the kind that stands beside it).

* Saved tools: the digest of a version that is marked tested is one that a test ran (`TestedWereSound`), and what a program did while its files stayed as they were is
  what the digest says (`DidAsItWas`).
* Debugging session: an event on the wire was neither read nor kept before (`WireIsNew`), is kept once (`KeptOnce`), and is gone when a navigation has ended by it (`TakenIsGone`).
* Browser: while no number of a former process can recur, the numbers of listings rise, so a listing of this process is the last word on its number, tags of
  a page come from a listing, and a click that names a number finds the tag of that listing or none. Bare references and numbers that recur are outside the theorem, as they are of the property.
* Desktop: helpers, and those that outlived their turn, do only what is on record or was told (`HelpersOnRecord`, `OrphansOnRecord`); an input
  that goes unaccounted is a clipboard write of which nobody could tell.
* Publications: a publication under way has its intent on record (`IntentsStand`), so whoever dies in it leaves word of it.
* Applications: the conversation that holds the application has its call on record (`LockOnRecord`), a request that was sent has a session to answer it, and a call on record has no other route (`NoOtherRoute`).
* Files: a run that patches is `Honest`. What it staged keeps the second cell of the content it was asked for, if the body it opened still has
  that cell; if the last check reads the same bytes in the same body, it has, because an editor never writes bytes that were there before.
* Search (`BufferAssumption`: the buffer is not empty): `SearchInv == SearchTypeOK /\ CarriesOn /\ ReportsSoFar`. `CarriesOn` says that the carried bytes are
  the last of those consumed, one less than the needle has or all of them, and that the lines before their end are counted;
  `ReportsSoFar` that all that ends in what was consumed is reported, or exactly as much as was asked for and there is more. Three facts carry it: an occurrence that
  ends in the new bytes begins in the carried ones at the earliest, so none is missed and none is found twice (`FoundInPiece`); the first of a
  set that comes in pieces are the first of each piece that is still asked for (`FirstsOfPieces`); lines counted forwards from
  a buffer's start or back to it are the lines of the text (`LineIsCounted`). `FilesAreExact` is about the run's own `Spec`.
* Web: a failed contact since the last clean read is in the evidence, as an entry that stands (`Recorded`), and the first of
  the entries that block is the block (`BlockedByEntry`, from the well-foundedness of the numbers).

Stated and proved, but in no run's list, because they are steps on the way or hold in every instance by the proof: `TypeOK` of each module that has a proof, `StepsBounded`,
`TerminalIsFinal`, `IntentKept`, `NoDeadlock` of the plan, `RecordKept`, `CompleteMeansDone`, `SuccessVerified`, `OverrunBounded`, `CompletedIsGoal`.
`JobsApart` is checked by `background`, whose board is an instance of GoalBoard with three jobs and nobody who meddles, and proved of
GoalBoard (`JobsStayApart`) for any.

What is only model-checked:

* every liveness property (`DriveReturns`, `PlanSettles`, `GoalsDrain`, `RunsSettle`, `TurnEnds`, `CallReturns`, `DownIsNoticed`),
  because fairness and ENABLED are beyond the prover;
* what `SelectSeq` returns, a recursive function of which nothing can be proved for every input: the follow-up proof asks of the tick's list no more than its head, and so
  holds for any order of messages.

## Where code and documents disagree

Four disagreements are runs of their own, with the counterexample in the model's terms:

* `driver_window`. `run_plan` closes the kill window between a child's completion and
  its record only for tasks that are ready, and a task that was marked running is not
  ready: the plan stays open and every later call fails.
* `schedules_crash`. After a crash in the dispatch window a schedule has no record of the
  run that recovery takes up again, so it can be enabled and start another beside it.
* `turn_replay`. `send` clears the queue and the tasks of the old goal, but not the approved action that has not run
  yet: the host runs it at the start of the next goal.
* `repair_refused`. The guardian tests a repair and hands it over, but writes no receipt, and the supervisor refuses a candidate
  without one: no automatic repair is ever activated.

Others were seen while modelling. They are recorded here and are visible in the modules,
without a run of their own:

* `agent.rs:270`: a shell command whose outcome is uncertain is both recorded in the
  history and kept as pending, so its id and its place in the history differ, although the
  comment at `:109` calls an id stable across resume.
* `agent.rs:416`: the lifecycle can be set back from `completed` and `cancelled` as long as the run
  has no outcome, although the comment above it calls these two terminal.
* `delegation_budget.rs:88`: a child that dies keeps its whole reservation for ever, although
  the module says that reservations are reconciled.
* `plan.rs:261`: tasks that depend on a task that was repaired keep depending on the
  abandoned one and are never ready, although the module calls repair the way to go on.
* `agent.rs:171`: usage after a resume is compared with a provider that counts from zero,
  so the checkpoint keeps a maximum and not a sum, although `docs/reliability.md:9` calls
  usage cumulative. `UsageMeter` shows what does hold (`NeverOvercharged`, `OverrunBounded`).
* `coordinator.rs:451`: after a crash in the dispatch window an exclusive goal's
  conversation is taken up again unlinked, and the board no longer counts it, although
  `docs/autonomous-workflows.md:7` says exclusive jobs run alone.
* `chat.rs:673`: a stop is a flag in memory, so after a restart a conversation that was
  told to stop is taken up again.
* `chat.rs:481`: `get` reads the status and then whether there is a worker; a run that
  completes in between reads as interrupted, and its schedule is paused.
* `live_chat.rs:642`: a follow-up is reported as completed when its conversation is, which a user may have sent another
  goal meanwhile (`LiveChat!CompletedIsItsGoal`).
* `chat.rs:1010`: a turn that asks the user to resume is refused when an effect of unknown outcome is on record
  (`ChatTurn!PausedCanResume`).
* `harness-memory/src/lib.rs:390`: a row of high salience that was merged into one of low salience is forgotten with it
  (`MemoryStore!SalientKept`).
* `beliefs.rs:9`: beliefs are said never to be deleted; a read of the file that fails is taken for an empty file, and the next save writes that
  (`Beliefs!NeverDeleted`).
* `chat_store.rs:331`: a message that comes with no event leaves the pulse as it was, so a page may settle without it
  (`ChatStore!SettledShowsMessages`).
* `mcp.rs`: the check of an application takes a place among the sessions, and may push a conversation's out
  (`AppSessions!ProbeTouchesNone`).
* `web_reach.rs`: a read may be refused for a page that the browser no longer shows (`WebReach!RefusedAsShown`).
* `cdp.rs`: an answer to a call that was given up ends a navigation that waits for an event, instead of being put aside
  (`DevTools!OthersParked`).
* `capabilities.rs`: numbers start again once all versions are forgotten, so a test that ends later marks another program's version as tested;
  its digest differs, so a run is refused all the same
  (`Capabilities!TestedItself`).
* `desktop.rs`: a helper that outlives the application may still make an input while the next turn holds the lease
  (`DesktopControl!OneHand`).
* `browser_tools.rs:15`: "a ref from an older snapshot is refused". Not always: a bare reference (`L3`, `3`) is clicked without a look at its listing
  (`:411`, `:497`), and the numbers start again from the clock, modulo 900, when Studio starts (`:316`), so an old reference may name a new listing.
  `ClicksListed` is about the references that carry a number, as long as it has not recurred.
* `browser_tools.rs`: a fill, unlike a click, is not held to the listing its reference came from (`BrowserTools!FillsListed`).
* `chat.rs:4613`: "Never clear a potentially partial input action". A clipboard write that times out has an uncertain outcome (`desktop.cs:202`), but the helper has
  not noted that input began, so it is reported as not applied (`desktop.ps1:108`), and the record is cleared (`chat.rs:4564`). `InputAccounted` makes
  this one exception.
* `chat.rs:2849`: with `internal_jobs` on, the critique is made by the local helper, and its usage is dropped. It is counted by no budget, and a stop or a limit that falls within
  it is seen only afterwards. Neither are the helper's other answers metered (`quality.rs:213`), nor the call of auto-memory after a turn (`chat.rs:1112`), nor a live reply
  (`live_chat.rs:563`), which ModelCall leaves out.
* `loop_guard.rs:10`: "an absolute cap ends the turn". Of the worker's calls, not of the reviewer's: by default nothing limits how long a reviewer
  reads (`chat.rs:2673`), or how often it asks for a repair in which the worker uses no tool (`chat.rs:2639`).
* `progress.rs`: once the turn has a failure, a file operation whose result recurs is carried out again without a review
  (`WorkerLoop!RecurringReviewed`).
* `klyne_recovery.py:613`: a repair that the user stopped between its check and the hand-over is activated all the same
  (`RecoveryWatch!StopHolds`).
* `docs/harness-upgrade-2026-09-11.md:70`: "The supervisor waits for active work to finish". A resume through
  `/api/runs/ID/resume` holds no admission and looks at no flag, so a run may be taken up between the last look and the kill
  (`StudioRuns!UpdatesInterruptNothing`; `UpdatesWait` is what does hold). The same resume goes past the limit of four.
* `web/chat.js`: a snapshot that `select` asked for earlier may arrive after a newer one and replace it. This was seen
  while modelling and is not in `ChatStore`, whose page has one request under way.

## Other hazards

Beside those in `PROJECT.json`, these places deserve care and have no property:

* `chat.rs:336`: one conversation that cannot be taken up makes `recover` return early, and those after it are not.
* `chat.rs:586`: a category of destructive actions approved for the conversation has no lease, so no change of context revokes it.
* `chat.rs:1401`: the note that sends a paused worker on is taken when a prompt is put together, and is lost if that request fails.
* `chat.rs:4253`: a timeout that is not a number is an error only after the command was put on record, so one that never ran waits as one of unknown outcome.
* `agent.rs:416`: the lifecycle is set back and forth without a look at its value.
* `klyne-supervisor.rs:197`: crashes are counted against a minute measured from the launch; a crash loop slower than that never ends.
* `connections.rs:293`: a stream that ends early without an error is taken as a whole reply.
* `harness-experiment/src/lib.rs:647`: what is committed is the worktree as it is then, whatever wrote to it after the last check.
* `large_files.rs:290`: a file that was replaced by another of the same content between two looks is taken for the one that was read (the exception in
  `PatchIsExact`), and a write after the last look is lost.
* off Windows no job object ends a child's descendants (`Windows` in ProviderCalls).
* a panic while a thread holds the admission lock poisons it; every later admission then fails until the restart.

## What is left out

Parsing, formatting, prompts and rendering; the contents of files but for those cells that a property
tells apart; wall-clock time but for limits that may be exceeded at any point, ages in units of their
limit, and deadlines; authentication and origin checks. The model is a nondeterministic choice over the decisions the
host accepts. SQLite transactions are atomic and durable, as `synchronous=FULL` promises.

Not modelled: the verification of effects and the completion guards, which are predicates over prose, receipts and pages without a
state of their own (their verdicts are outcomes in GoalBoard, ChatTurn and WorkerLoop); the event store's reads; single calls of the remaining tools; advice to the planner, diagnostics
and front ends, on which no control of the system depends. Components that are partly modelled say in
`PROJECT.json` what they lack.

Two compositions were left out for their size. A turn of `ChatTurn` under the goal board would need the cards of every conversation: the board sees
of a turn only how it ended, so `ChatService` has the endings and ChatTurn shows what they rest on. And `Activation` under
`RecoveryWatch` would multiply two crash models: the watch takes a repair as under way or over, Activation takes
the monitor's restart as something that may happen.

## Plan

The runs, the properties and the proof modules have reached the number that can be rechecked in reasonable time, so what is next replaces or deepens rather than adds:

1. A refinement of ChatService's endings by ChatTurn for one conversation.
2. Theorems about WorkerLoop's counters (that each is within its cap in every place), as the safety part of `TurnEnds`.

## Running it

    tlasany AgentRuntime.tla
    tlc -workers 4 -config AgentRuntime.cfg AgentRuntime
    tlc -workers 4 -config Services.cfg Services
    tlapm AgentRuntime_proofs.tla

Modules called `MC...` give values that a cfg cannot write, or put components side by side; the others are
run under a cfg of their own. A run takes between a second and three minutes, a module of proofs up to ten minutes from nothing.
