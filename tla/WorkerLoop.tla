------------------------------ MODULE WorkerLoop ------------------------------
(***************************************************************************)
(* What keeps a turn of apps/studio/src/chat.rs from going on for ever     *)
(* when the user limits neither steps nor time nor tokens: the loop guard  *)
(* (loop_guard.rs), the journal of file operations (progress.rs), the      *)
(* refusals of a completion, the review of a stalled task, the final       *)
(* review with its own counters, and the rounds of repair.  Model and      *)
(* tools may answer anything at any step.  One task is under way.  The     *)
(* rounds are limited or, by default, not; evidence-based completion is    *)
(* off by default, and either when the setting is read (quality.rs).       *)
(***************************************************************************)
EXTENDS Naturals, Sequences, FiniteSetsExt, Functions, SequencesExt

CONSTANTS
  Moves,          \* tool calls of a worker
  ToolOf,         \* the tool of each
  Tracked,        \* those the journal follows
  Writes,         \* those of them that write a file
  Outcomes,       \* what a call may return
  Failures,       \* those that are failures
  Replies,        \* replies that resemble none but themselves
  Identical, Failing, NoAction, SimilarReplies,  \* thresholds of the loop guard
  MaxTotal, MaxFailed,                           \* its caps, for a goal
  Window, ReplyWindow, RecentWindow,             \* lengths of the histories
  Recurring,      \* 3: results that recur
  MaxStallReviews, MaxChecks, MaxRefusals, MaxReviewReads, MaxRounds,
  Pages,          \* what a reviewer may read
  Repeated,       \* 2: reads of the same that are too many
  MaxLooks,       \* 12: reads of a reviewer that are
  MaxUnmet, MaxUnaccepted,                       \* 3, 2: failed checks
  MaxTurns,       \* bound on turns of a goal
  None

VARIABLES
  at,          \* where the turn is
  turns,
  decision,    \* what is to be done
  calls, total, failed, idle, replies, warned, handoffs,  \* LoopGuard
  recent, stallReviews,                                    \* Journal
  written,     \* the write of the newest receipt
  checks,      \* repeated writes found unchanged since
  refusals,    \* unsupported_completions
  reads,       \* what the reviewer has read for the task that stalled
  round,       \* review_round
  rounds,      \* max_review_rounds; 0: no limit
  failure,     \* execution.failure: "none", "check" (VerificationNeeded), "other"
  seen,        \* how often the reviewer has read what, for the goal
  nudged,      \* the reviewer was told to decide
  final        \* the counters of the final review

guard   == <<calls, total, failed, idle, replies, warned, handoffs>>
journal == <<recent, stallReviews, written, checks>>
review  == <<reads, round, seen, nudged, final>>
loopVars == <<at, turns, decision, guard, journal, refusals, review, failure, rounds>>

FreshGuard ==
  /\ calls' = <<>> /\ total' = 0 /\ failed' = 0 /\ idle' = 0
  /\ replies' = <<>> /\ warned' = {} /\ handoffs' = 0

FreshFinal == [unmet |-> 0, unaccepted |-> 0, critiqued |-> FALSE, checking |-> FALSE]

(* They are forgotten when it ends.                                        *)
Counting(f) == final' = IF at' \in {"review", "reading"} THEN f ELSE FreshFinal

LoopInit ==
  /\ at = "ask" /\ turns = 1 /\ decision = None
  /\ calls = <<>> /\ total = 0 /\ failed = 0 /\ idle = 0
  /\ replies = <<>> /\ warned = {} /\ handoffs = 0
  /\ recent = <<>> /\ stallReviews = 0 /\ written = None /\ checks = 0
  /\ refusals = 0 /\ reads = 0 /\ round = 0
  /\ seen = [r \in Pages |-> 0] /\ nudged = FALSE /\ final = FreshFinal
  /\ failure = "none" /\ rounds \in {0, MaxRounds}

-----------------------------------------------------------------------------
UpTo(n, max) == IF n > max THEN max ELSE n
Newest(s, n) == IF Len(s) > n THEN Tail(s) ELSE s

Goes(to) == at' = to
(* A turn that fails, with no effect pending: a need for verification      *)
(* stays.                                                                  *)
Over == at' = "over" /\ failure' = IF failure = "check" THEN "check" ELSE "other"
Ended == {"over", "looped", "done"}

(* identical_run, failures_of_last and similar_replies.                    *)
Run ==
  LET n == Len(calls)
  IN IF n = 0 THEN 0
     ELSE Max({k \in 1..n : \A i \in 0..(k - 1) : calls[n - i].move = calls[n].move})
FailuresOfLast ==
  IF calls = <<>> \/ ~Last(calls).failed THEN 0
  ELSE Cardinality({i \in DOMAIN calls : calls[i].failed
                                         /\ ToolOf[calls[i].move] = ToolOf[Last(calls).move]})
Similar ==
  IF replies = <<>> THEN 0
  ELSE Cardinality({i \in DOMAIN replies : replies[i] = Last(replies)})

Counts == [identical |-> Run, failing |-> FailuresOfLast, no_action |-> idle, replies |-> Similar]
Threshold ==
  [identical |-> Identical, failing |-> Failing, no_action |-> NoAction, replies |-> SimilarReplies]
Order == <<"identical", "failing", "no_action", "replies">>

(* trip: a kind that has reached its threshold warns once, and trips two   *)
(* later.                                                                  *)
Reached(k) == Counts[k] >= Threshold[k]
Soft(k) == Reached(k) /\ k \notin warned
Hard(k) == k \in warned /\ Counts[k] >= Threshold[k] + 2

Capped == total >= MaxTotal \/ failed >= MaxFailed

(* check: the cap, or the first kind that warns or trips.                  *)
Trip ==
  IF Capped THEN [verdict |-> "cap", kind |-> "none"]
  ELSE LET found == SelectSeq(Order, LAMBDA k : Soft(k) \/ Hard(k))
       IN IF found = <<>> THEN [verdict |-> "none", kind |-> "none"]
          ELSE [verdict |-> IF Soft(Head(found)) THEN "soft" ELSE "hard", kind |-> Head(found)]

(* A review of the stalled task, unless it has been found unchanged too    *)
(* often.  With evidence on, the checks of the host may already hold.      *)
Stalled ==
  IF checks > MaxChecks THEN Over /\ decision' = None
  ELSE /\ \/ Goes("act") /\ decision' = [do |-> "complete"]
          \/ Goes("stalled") /\ decision' = None
       /\ UNCHANGED failure

(* handed_off: the pattern is forgotten, the totals stay.                  *)
HandedOff ==
  /\ calls' = <<>> /\ replies' = <<>> /\ warned' = {} /\ idle' = 0 /\ handoffs' = handoffs + 1
  /\ UNCHANGED <<total, failed>>

(* loop_trip, after each step of the worker.                               *)
Check ==
  /\ at = "check"
  /\ LET trip == Trip
     IN \/ /\ trip.verdict = "none" /\ Goes("ask")
           /\ UNCHANGED <<decision, guard, failure>>
        \/ /\ trip.verdict = "soft" /\ warned' = warned \cup {trip.kind} /\ Goes("ask")
           /\ UNCHANGED <<decision, calls, total, failed, idle, replies, handoffs, failure>>
        \/ /\ trip.verdict = "hard" /\ handoffs = 0 /\ HandedOff
           /\ Stalled
        \/ /\ trip.verdict = "cap" \/ (trip.verdict = "hard" /\ handoffs > 0)
           /\ Goes("looped") /\ failure' = "other" /\ UNCHANGED <<decision, guard>>
  /\ UNCHANGED <<turns, journal, refusals, review>>

-----------------------------------------------------------------------------
(* The worker decides, or its request fails.                               *)
Decide(d) ==
  /\ at = "ask" /\ decision' = d /\ Goes("decided")
  /\ UNCHANGED <<turns, guard, journal, refusals, review, failure>>

Fails ==
  /\ at \in {"ask", "act", "stalled", "review", "reading"} /\ Over /\ decision' = None /\ reads' = 0 /\ Counting(final)
  /\ UNCHANGED <<turns, guard, journal, refusals, round, seen, nudged>>

(* Journal::stalled: the last result of the move recurs.                   *)
Recurs(m) ==
  /\ m \in Tracked
  /\ \E i \in DOMAIN recent :
       /\ recent[i].move = m
       /\ \A j \in DOMAIN recent : j > i => recent[j].move # m
       /\ Cardinality({j \in DOMAIN recent : recent[j] = recent[i]}) >= Recurring

IsMove == decision # None /\ decision.do = "move"

(* check_repeated_write and repeated_write: the newest receipt of the file *)
(* is for this very content, and the file still has it.                    *)
RepeatedWrite(unchanged) ==
  /\ IsMove /\ decision.move \in Writes
  /\ failure = "none" /\ written = decision.move /\ unchanged

(* A move that recurs is reviewed, twice; a repeated write is, too.        *)
Reviewed(unchanged) ==
  /\ at = "decided"
  /\ IF IsMove /\ failure = "none" /\ Recurs(decision.move)
     THEN /\ stallReviews' = UpTo(stallReviews + 1, MaxStallReviews + 1) /\ UNCHANGED checks
          /\ IF stallReviews' > MaxStallReviews THEN Over /\ decision' = None
             ELSE Stalled
     ELSE IF RepeatedWrite(unchanged)
     THEN /\ checks' = UpTo(checks + 1, MaxChecks + 1) /\ UNCHANGED stallReviews
          /\ IF checks' > MaxChecks THEN Over /\ decision' = None
             ELSE Stalled
     ELSE Goes("act") /\ UNCHANGED <<decision, checks, stallReviews, failure>>
  /\ UNCHANGED <<turns, guard, recent, written, refusals, review>>

(* A read of the reviewer, known by its tool and its target.               *)
Looks == FoldFunction(+, 0, seen)
Looked(read) == seen' = [seen EXCEPT ![read] = UpTo(@ + 1, MaxLooks)]

(* What the reviewer of a stalled task may do.  Reads that repeat may end  *)
(* it sooner, as Fails does.                                               *)
ReadStalled(read) ==
  /\ at = "stalled" /\ Looked(read)
  /\ IF reads + 1 >= MaxReviewReads THEN Over /\ reads' = 0
     ELSE reads' = reads + 1 /\ UNCHANGED <<at, failure>>
  /\ UNCHANGED <<turns, decision, guard, journal, refusals, round, nudged, final>>
RepairStalled ==
  /\ at = "stalled" /\ Goes("ask") /\ reads' = 0
  /\ UNCHANGED <<turns, decision, guard, journal, refusals, round, seen, nudged, final, failure>>
DecideStalled(d) ==
  /\ at = "stalled" /\ decision' = d /\ Goes("act") /\ reads' = 0
  /\ UNCHANGED <<turns, guard, journal, refusals, round, seen, nudged, final, failure>>

(* record_action of the loop guard.                                        *)
Recorded(m, bad) ==
  /\ calls' = Newest(Append(calls, [move |-> m, failed |-> bad]), Window)
  /\ total' = UpTo(total + 1, MaxTotal)
  /\ failed' = IF bad THEN UpTo(failed + 1, MaxFailed) ELSE failed
  /\ idle' = 0

(* Journal::record: a result it has not seen makes room for reviews again, *)
(* a call it does not follow makes it forget.                              *)
Journaled(m, out) ==
  IF m \in Tracked
  THEN LET new == [move |-> m, out |-> out]
       IN /\ recent' = Newest(Append(recent, new), RecentWindow)
          /\ stallReviews' = IF new \in Range(recent) THEN stallReviews ELSE 0
  ELSE recent' = <<>> /\ UNCHANGED stallReviews

Act(out) ==
  /\ at = "act" /\ IsMove /\ Goes("check") /\ decision' = None
  /\ LET m == decision.move
         bad == out \in Failures
     IN /\ Recorded(m, bad) /\ Journaled(m, out)
        /\ written' = IF m \in Writes THEN IF bad THEN None ELSE m ELSE written
        /\ checks' = IF m \in Writes /\ ~bad THEN 0 ELSE checks
  /\ UNCHANGED <<turns, replies, warned, handoffs, refusals, review, failure>>

(* A completion nothing supports is refused, and the third time ends the   *)
(* turn.                                                                   *)
Refuse(reply) ==
  /\ at = "act" /\ decision = [do |-> "complete"]
  /\ refusals' = refusals + 1 /\ decision' = None
  /\ idle' = UpTo(idle + 1, NoAction + 2)
  /\ replies' = Newest(Append(replies, reply), ReplyWindow)
  /\ Goes(IF refusals' < MaxRefusals THEN "check" ELSE "over")
  /\ UNCHANGED <<turns, calls, total, failed, warned, handoffs, journal, review, failure>>

(* direct_answer: a question answered without any tool needs no review.    *)
Direct ==
  /\ failure = "none" /\ total = 0 /\ Looks = 0
  /\ replies = <<>> /\ handoffs = 0

(* The last task is done: the final review follows, unless the host has    *)
(* verified the contract, or the answer is direct.                         *)
Finish(proof) ==
  /\ at = "act" /\ decision = [do |-> "complete"] /\ decision' = None /\ refusals' = 0
  /\ Goes(IF proof = "contract" /\ failure = "none" THEN "done"
          ELSE IF proof = "direct" /\ Direct THEN "done" ELSE "review")
  /\ Counting([FreshFinal EXCEPT !.checking = failure = "check"])
  /\ UNCHANGED <<turns, guard, journal, reads, round, seen, nudged, failure>>

AskUser ==
  /\ at = "act" /\ decision = [do |-> "question"] /\ Goes("over") /\ failure' = "other"
  /\ decision' = None
  /\ UNCHANGED <<turns, guard, journal, refusals, review>>

-----------------------------------------------------------------------------
(* The reviewer completes the goal, and the host's checks of the answer    *)
(* fail.                                                                   *)
Unmet ==
  /\ at = "review" /\ failure' = "check"
  /\ Goes(IF final.unmet + 1 < MaxUnmet THEN "review" ELSE "over")
  /\ Counting([final EXCEPT !.unmet = @ + 1])
  /\ UNCHANGED <<turns, decision, guard, journal, refusals, reads, round, seen, nudged>>

(* They hold, but a critic objects, once.                                  *)
Criticised ==
  /\ at = "review" /\ ~final.critiqued
  /\ final' = [final EXCEPT !.critiqued = TRUE]
  /\ UNCHANGED <<at, turns, decision, guard, journal, refusals, reads, round, seen, nudged, failure>>

(* The contract of the task is not fulfilled.                              *)
Unaccepted ==
  /\ at = "review"
  /\ IF final.unaccepted + 1 >= MaxUnaccepted THEN Over ELSE UNCHANGED <<at, failure>>
  /\ Counting([final EXCEPT !.critiqued = TRUE, !.unaccepted = @ + 1])
  /\ UNCHANGED <<turns, decision, guard, journal, refusals, reads, round, seen, nudged>>

(* Approved, without a failure that is left; the desktop's result may not  *)
(* be confirmed, which fails (as Fails does).                              *)
Done == at' = "done" /\ failure' = "none"
Approve ==
  /\ at = "review" /\ Done /\ Counting(final)
  /\ UNCHANGED <<turns, decision, guard, journal, refusals, reads, round, seen, nudged>>

(* The reviewer needs input.                                               *)
Asks ==
  /\ at = "review" /\ Goes("over") /\ failure' = "other" /\ Counting(final)
  /\ UNCHANGED <<turns, decision, guard, journal, refusals, reads, round, seen, nudged>>

(* reviewer_step: what a read of the reviewer leads to.                    *)
ReviewStep(read, found) ==
  CASE found = "proved" /\ (nudged \/ seen[read] > 0) -> "finish"
    [] found = "proved" /\ ~nudged /\ seen[read] = 0 -> "nudge"
    [] found # "proved" /\ seen[read] < Repeated /\ Looks < MaxLooks -> "run"
    [] OTHER -> IF found = "supported" THEN "finish" ELSE "stuck"

(* A listing, and no step that acted.                                      *)
ReadOnly(found) == found = "listed" /\ total = failed

(* With evidence on, by what the host finds in it: every effect proved, the *)
(* answer supported, or not even that.                                     *)
Look(read, found) ==
  /\ at = "review"
  /\ LET step == ReviewStep(read, found)
     IN \/ step = "run" /\ Looked(read) /\ UNCHANGED <<at, failure, nudged>>
        \/ step = "nudge" /\ nudged' = TRUE /\ UNCHANGED <<at, failure, seen>>
        \/ /\ step = "finish" \/ (step = "stuck" /\ ReadOnly(found))
           /\ Done /\ UNCHANGED <<seen, nudged>>
        \/ /\ step = "stuck" /\ ~ReadOnly(found)
           /\ Goes("over") /\ UNCHANGED <<failure, seen, nudged>>
  /\ UNCHANGED <<turns, decision, guard, journal, refusals, reads, round>>
  /\ Counting(final)

(* With evidence off, every read is made, and then the reviewer goes on.   *)
LookFreely(read) ==
  /\ at = "review" /\ Goes("reading") /\ Looked(read) /\ Counting(final)
  /\ UNCHANGED <<turns, decision, guard, journal, refusals, reads, round, nudged, failure>>
GoOn ==
  /\ at = "reading" /\ Goes("review") /\ Counting(final)
  /\ UNCHANGED <<turns, decision, guard, journal, refusals, reads, round, seen, nudged, failure>>

(* has_attempted_action: by the worker, or noted by the host.              *)
Attempted(noted) == total > 0 \/ nudged \/ noted

(* After a check that failed, what was attempted is not attempted again.   *)
Repairable(noted) == ~((final.checking \/ final.unmet > 0) /\ Attempted(noted))
Unrepaired(noted) ==
  /\ at = "review" /\ ~Repairable(noted)
  /\ Goes("over") /\ failure' = "check" /\ Counting(final)
  /\ UNCHANGED <<turns, decision, guard, journal, refusals, reads, round, seen, nudged>>

(* A repair starts a new plan, until the rounds are used up, if they are   *)
(* limited; the journal knows a task by its place in the plan, and may     *)
(* take the new one for the old.                                           *)
Repair_Again(same, noted) ==
  /\ at = "review" /\ Repairable(noted)
  /\ Goes("ask") /\ round' = UpTo(round + 1, MaxRounds - 1)
  /\ checks' = 0
  /\ UNCHANGED <<turns, decision, guard, refusals, recent, stallReviews, written, reads, seen, nudged, failure>>
  /\ Counting(final)
Repair(same, noted) ==
  /\ at = "review" /\ Repairable(noted)
  /\ IF rounds # 0 /\ round + 1 >= rounds
     THEN Over /\ UNCHANGED <<round, recent, stallReviews, checks>>
     ELSE /\ Goes("ask") /\ round' = UpTo(round + 1, MaxRounds - 1)
          /\ checks' = 0
          /\ recent' = IF same THEN recent ELSE <<>>
          /\ stallReviews' = IF same THEN stallReviews ELSE 0
          /\ UNCHANGED failure
  /\ UNCHANGED <<turns, decision, guard, refusals, written, reads, seen, nudged>>
  /\ Counting(final)

-----------------------------------------------------------------------------
(* The user stops the turn, or a crash does, and it is resumed.            *)
Stopped ==
  /\ at \notin Ended /\ Over /\ decision' = None /\ reads' = 0 /\ Counting(final)
  /\ UNCHANGED <<turns, guard, journal, refusals, round, seen, nudged, rounds>>

(* A message may bring other limits.                                       *)
Limited == rounds' \in {0, MaxRounds}

Resume ==
  /\ at \in {"over", "looped"} /\ turns < MaxTurns /\ turns' = turns + 1
  /\ Goes("ask") /\ refusals' = 0
  /\ failure' = IF failure = "check" THEN failure ELSE "none"
  /\ Limited /\ UNCHANGED <<decision, guard, journal, review>>

NewGoal ==
  /\ at \in Ended /\ turns' = 1
  /\ Goes("ask") /\ FreshGuard
  /\ recent' = <<>> /\ stallReviews' = 0 /\ written' = None /\ checks' = 0
  /\ refusals' = 0 /\ round' = 0 /\ UNCHANGED <<decision, reads>>
  /\ seen' = [r \in Pages |-> 0] /\ nudged' = FALSE /\ final' = FreshFinal
  /\ failure' = "none" /\ Limited

Decisions == [do : {"move"}, move : Moves] \cup [do : {"complete", "question"}]

Findings == {"proved", "supported", "listed", "nothing"}

(* A step of the worker or the reviewer.                                   *)
Steps ==
  /\ \/ Check
     \/ \E d \in Decisions : Decide(d) \/ (~(d.do = "move") /\ DecideStalled(d))
     \/ \E unchanged \in BOOLEAN : Reviewed(unchanged)
     \/ (\E read \in Pages : ReadStalled(read)) \/ RepairStalled
     \/ \E out \in Outcomes : Act(out)
     \/ \E reply \in Replies : Refuse(reply)
     \/ \E proof \in {"contract", "direct", "none"} : Finish(proof)
     \/ AskUser \/ Fails
     \/ Unmet \/ Criticised \/ Unaccepted \/ Approve \/ Asks
     \/ (\E read \in Pages, found \in Findings : Look(read, found))
     \/ (\E read \in Pages : LookFreely(read)) \/ GoOn
     \/ \E noted \in BOOLEAN :
          Unrepaired(noted) \/ \E same \in BOOLEAN : Repair(same, noted)
  /\ UNCHANGED rounds

LoopNext == Steps \/ Stopped \/ Resume \/ NewGoal

LoopSpec == LoopInit /\ [][LoopNext]_loopVars
(* The worker's thread runs on, and every model call and tool comes back,  *)
(* by its own time limit or that of the stall watchdog.                    *)
FairLoop == LoopSpec /\ WF_loopVars(Steps)

-----------------------------------------------------------------------------
(* The reviewer goes on where nothing but a limit of steps, time or tokens *)
(* would stop it: reading with evidence off, or repairing without a limit  *)
(* of rounds.                                                              *)
ReviewsOn ==
  \/ []<>(at = "reading")
  \/ []<><<rounds = 0 /\ at = "review" /\ at' = "ask">>_loopVars

(* Whatever model and tools return, a turn ends without a limit of steps,  *)
(* time or tokens ("an absolute cap ends the turn", loop_guard.rs), unless *)
(* the reviewer itself goes on for ever.                                   *)
TurnEnds == (at \notin Ended ~> at \in Ended) \/ ReviewsOn

(* A file operation whose result recurs is not carried out again without a *)
(* review, resumed or not (the journal is durable: "Resume alone cannot    *)
(* reset the limit").                                                      *)
RecurringReviewed ==
  [][at = "decided" /\ IsMove /\ Recurs(decision.move) /\ at' = "act"
       => decision' # decision]_loopVars
=============================================================================
