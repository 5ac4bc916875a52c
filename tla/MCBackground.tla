---------------------------- MODULE MCBackground ----------------------------
(* What runs on without a person, and must come to an end or to a person's   *)
(* notice: the goal board, the schedules, the drivers of a plan, the loop of *)
(* a worker, a call to a provider and the watch over the runtime.  A         *)
(* behaviour is one of one of them; the others stay as they began.           *)
EXTENDS Schedules, Sequences, TLC

VARIABLES
    task,
    jobStatus, jobActive, jobStop, job, deps, link, claimed, jobAdmitted, own, result, holds,
    jobTicking, quiesced, jobFaults, jobOf, achieved,
    seeded, priority, taskStatus, taskDeps, goal, supersedes, rank, lifecycle, terminal,
    child, good, driver, todo, specs, crashes,
    at, turns, decision, calls, total, failed, idle, replies, warned, handoffs, recent,
    stallReviews, written, checks, refusals, reads, round, rounds, failure, looked,
    nudged, final,
    query, process, pipes, server, lines, stopped, late,
    runtime, watch, starts, phase, cancelled, repair, incidents, guardians

BoardVars == <<jobStatus, jobActive, jobStop, job, deps, link, claimed, jobAdmitted, own,
               result, holds, jobTicking, quiesced, jobFaults, jobOf, achieved>>
DriverVars == <<seeded, priority, taskStatus, taskDeps, goal, supersedes, rank, lifecycle,
                terminal, child, good, driver, todo, specs, crashes>>
LoopVars == <<at, turns, decision, calls, total, failed, idle, replies, warned, handoffs,
              recent, stallReviews, written, checks, refusals, reads, round, rounds,
              failure, looked, nudged, final>>
CallVars == <<query, process, pipes, server, lines, stopped, late>>
WatchVars == <<runtime, watch, starts, phase, cancelled, repair, incidents, guardians>>

Goals == {"g1", "g2", "g3"}
Owned == {"k1", "k2", "k3"}
After(dependents) == [g \in Goals |-> IF g \in DOMAIN dependents THEN {dependents[g]} ELSE {}]
\* One dependency, and a cycle, which is refused.
Batches == {After("g2" :> "g1"), After("g2" :> "g1" @@ "g1" :> "g2")}

Board == INSTANCE GoalBoard WITH
    Conversations <- Owned \cup {"c1"}, Pool <- Owned, DepChoices <- Batches,
    Exclusive <- {"g1"}, Verified <- {"g2"}, Shared <- {<<"g2", "g3">>, <<"g3", "g2">>},
    Manual <- {"stop"}, MaxFaults <- 0,
    status <- jobStatus, active <- jobActive, stop <- jobStop, admitted <- jobAdmitted,
    ticking <- jobTicking, faults <- jobFaults, madeFor <- jobOf
Drivers == {"d1", "d2"}
Driver == INSTANCE PlanDriver WITH
    Tasks <- {"t1", "t2", "t3"}, Goals <- {"g"}, Top <- "g", Priorities <- {1},
    SpecLists <- {<<"t1", "t2", "t3">>}, Outside <- {},
    Leftover <- {"none", "open", "completed"}, MaxCrashes <- 0,
    status <- taskStatus, deps <- taskDeps, at <- driver
\* A worker that acts, and one that claims to be done and is refused.
Loop == INSTANCE WorkerLoop WITH
    Moves <- {"write", "run"}, ToolOf <- ("write" :> "write" @@ "run" :> "run"),
    Tracked <- {"write"}, Writes <- {"write"}, Outcomes <- {"ok", "bad"},
    Failures <- {"bad"}, Replies <- {},
    Identical <- 1, Failing <- 2, NoAction <- 1, SimilarReplies <- 1,
    MaxTotal <- 4, MaxFailed <- 1, Window <- 3, ReplyWindow <- 1, RecentWindow <- 2,
    Recurring <- 2, MaxStallReviews <- 1, MaxChecks <- 1, MaxRefusals <- 1,
    MaxReviewReads <- 2, MaxRounds <- 2, Pages <- {"page"}, Repeated <- 2, MaxLooks <- 1,
    MaxUnmet <- 1, MaxUnaccepted <- 1, MaxTurns <- 2, seen <- looked
Talk == INSTANCE WorkerLoop WITH
    Moves <- {"run"}, ToolOf <- ("run" :> "run"),
    Tracked <- {}, Writes <- {}, Outcomes <- {"ok"},
    Failures <- {"bad"}, Replies <- {"reply"},
    Identical <- 1, Failing <- 2, NoAction <- 1, SimilarReplies <- 1,
    MaxTotal <- 2, MaxFailed <- 1, Window <- 1, ReplyWindow <- 3, RecentWindow <- 1,
    Recurring <- 2, MaxStallReviews <- 1, MaxChecks <- 1, MaxRefusals <- 2,
    MaxReviewReads <- 2, MaxRounds <- 2, Pages <- {"page"}, Repeated <- 1, MaxLooks <- 1,
    MaxUnmet <- 2, MaxUnaccepted <- 2, MaxTurns <- 2, seen <- looked
Call == INSTANCE ProviderCalls WITH
    Cap <- 2, MaxLines <- 3, Windows <- TRUE, call <- query, child <- process
Watch == INSTANCE RecoveryWatch WITH
    MaxProbes <- 2, MaxStarts <- 3, MaxIncidents <- 1, MaxGuardians <- 2, state <- phase

Boards == task = "board" /\ Board!Next
Occurs == task = "schedule" /\ Next
Drives == task = "driver" /\ Driver!Next
Works == task = "loop" /\ Loop!LoopNext
Talks == task = "talk" /\ Talk!LoopNext
Asks == task = "call" /\ Call!CallNext
Watches == task = "watch" /\ Watch!WatchNext

Others ==
    /\ UNCHANGED task
    /\ task # "board" => UNCHANGED BoardVars
    /\ task # "schedule" => UNCHANGED vars
    /\ task # "driver" => UNCHANGED DriverVars
    /\ task \notin {"loop", "talk"} => UNCHANGED LoopVars
    /\ task # "call" => UNCHANGED CallVars
    /\ task # "watch" => UNCHANGED WatchVars

BackgroundInit ==
    /\ task \in {"board", "schedule", "driver", "loop", "talk", "call", "watch"}
    /\ Board!Init /\ Init /\ Driver!Init /\ Loop!LoopInit /\ Call!CallInit
    /\ Watch!WatchInit
    \* one of the initial states of the tasks that stay in it
    /\ task # "driver" => \A t \in DOMAIN child : child[t] = "none"
    /\ task \notin {"loop", "talk"} => rounds = 0
    /\ task # "call" => query.kind = "codex"
    /\ task # "watch" => ~cancelled
BackgroundNext ==
    /\ \/ Boards \/ Occurs \/ Drives \/ Works \/ Talks \/ Asks \/ Watches
    /\ Others
all == <<task, BoardVars, vars, DriverVars, LoopVars, CallVars, WatchVars>>

\* The fairness of each task, as its module states and justifies it.
BoardFair ==
    /\ \A g \in Goals :
         /\ WF_BoardVars(task = "board" /\ Board!Reconcile(g))
         /\ WF_BoardVars(task = "board" /\ Board!Claim(g))
         /\ WF_BoardVars(task = "board" /\ (Board!Admit(g) \/ Board!Refused(g)))
         /\ WF_BoardVars(task = "board" /\ Board!Bind(g))
    /\ \A c \in Owned :
         WF_BoardVars(task = "board" /\ \E outcome \in Board!Endings : Board!TurnEnd(c, outcome))
ScheduleFair ==
    /\ WF_vars(task = "schedule" /\ Look("s1"))
    /\ WF_vars(task = "schedule" /\ Settle("s1"))
    /\ WF_vars(task = "schedule" /\ Claim("s1"))
    /\ WF_vars(task = "schedule" /\ (Admit("s1") \/ Refused("s1")))
    /\ WF_vars(task = "schedule" /\ Bind("s1"))
    /\ \A c \in Pool :
         WF_vars(task = "schedule"
                         /\ \E outcome \in Endings : RunEnd(c, outcome))
OtherFair ==
    /\ \A d \in Drivers : /\ WF_DriverVars(task = "driver" /\ Driver!Step(d))
                          /\ WF_DriverVars(task = "driver" /\ Driver!RunPlan(d))
    /\ WF_LoopVars(task = "loop" /\ Loop!Steps)
    /\ WF_LoopVars(task = "talk" /\ Talk!Steps)
    /\ WF_CallVars(task = "call" /\ late /\ Call!Caller)
    /\ WF_CallVars(task = "call" /\ Call!CallLate)
    /\ WF_WatchVars(task = "watch" /\ Watch!Probe)
    /\ WF_WatchVars(task = "watch" /\ Watch!Round)
    /\ WF_WatchVars(task = "watch" /\ Watch!Settles)
BackgroundSpec ==
    BackgroundInit /\ [][BackgroundNext]_all /\ BoardFair /\ ScheduleFair /\ OtherFair

-----------------------------------------------------------------------------
\* Exclusive jobs run alone, two jobs never in one worktree, a cancelled one has
\* been told to stop, and the board takes two workers at most.
JobsApart == Board!JobsApart
\* The board comes to rest with every slot given back.
GoalsDrain == Board!GoalsDrain
\* Drivers left alone close their plan, or record a failure.
PlanSettles == Driver!PlanSettles
\* A turn ends, whatever the model and the tools return, unless the reviewer goes
\* on for ever with what no limit of its own stops.
TurnEnds == (task \in {"loop", "talk"} /\ at \notin Loop!Ended ~> at \in Loop!Ended) \/ Loop!ReviewsOn
\* A call to a provider comes back, and leaves nothing at work.
CallReturns == Call!CallReturns
\* A runtime that is down is started, repaired or reported.
DownIsNoticed == Watch!DownIsNoticed
=============================================================================
