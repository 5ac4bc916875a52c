------------------------------ MODULE Promotion ------------------------------
(***************************************************************************)
(* Protected improvement experiments: run_experiment of                    *)
(* crates/harness-experiment/src/lib.rs with the frozen reference of       *)
(* protection.rs, as self_improve of apps/studio/src/improvement.rs calls  *)
(* it.  A candidate is measured against the baseline in a worktree on a    *)
(* branch of its own, and its branch is kept or removed.  Conversations    *)
(* run experiments side by side, an experiment may be stopped, any command *)
(* of git may fail, and the process may die.                               *)
(***************************************************************************)
EXTENDS Naturals

CONSTANTS
  Experimenters,  \* conversations
  Experiments,    \* ids
  NoOne           \* no experimenter, no experiment and no record

ASSUME TrialAssumption == NoOne \notin Experimenters /\ NoOne \notin Experiments

(* What a candidate does: it does good, or breaks what tests check, or     *)
(* changes frozen tests so that they pass, before or while they run, or    *)
(* takes tests away.                                                       *)
Kinds == {"good", "breaks", "weakens", "tampers", "drops"}

VARIABLES
  branch,   \* klyne/<id>: "none", "baseline" (with its worktree) or "committed"
  author,   \* ghost: who committed it
  verdict,  \* the record of an experiment, or NoOne
  step,     \* where each experimenter is
  trial,    \* what it has found out
  halted    \* those whose Stop flag is raised

git       == <<branch, author>>
trialVars == <<git, verdict, step, trial, halted>>

NoTrial == [id |-> NoOne, kind |-> "good", before |-> "none", base |-> "none",
            after |-> "none", suite |-> "none", intact |-> TRUE, promoted |-> FALSE, gain |-> FALSE]

TrialInit ==
  /\ branch = [e \in Experiments |-> "none"] /\ author = [e \in Experiments |-> NoOne]
  /\ verdict = [e \in Experiments |-> NoOne]
  /\ step = [w \in Experimenters |-> "idle"]
  /\ trial = [w \in Experimenters |-> NoTrial]
  /\ halted = {}

-----------------------------------------------------------------------------
Goes(w, to) == step' = [step EXCEPT ![w] = to]
Leaves(w) ==
  /\ Goes(w, "idle") /\ trial' = [trial EXCEPT ![w] = NoTrial] /\ halted' = halted \ {w}

Own(w) == trial[w].id
Learns(w, facts) == trial' = [trial EXCEPT ![w] = facts]

(* cleanup and git branch -D, whose failures are ignored: a branch that is *)
(* checked out stays.                                                      *)
Discard(e) ==
  \/ /\ branch' = [branch EXCEPT ![e] = "none"] /\ author' = [author EXCEPT ![e] = NoOne]
  \/ UNCHANGED git

(* execute: an id with a record is refused.                                *)
Propose(w, e, kind) ==
  /\ step[w] = "idle" /\ verdict[e] = NoOne
  /\ Goes(w, "proposed") /\ Learns(w, [NoTrial EXCEPT !.id = e, !.kind = kind])
  /\ UNCHANGED <<git, verdict, halted>>

(* git worktree add -b: a branch that exists is refused.                   *)
Isolate(w) ==
  /\ step[w] = "proposed"
  /\ IF branch[Own(w)] = "none" /\ w \notin halted
     THEN /\ branch' = [branch EXCEPT ![Own(w)] = "baseline"]
          /\ Goes(w, "isolated") /\ UNCHANGED <<author, trial, halted>>
     ELSE Leaves(w) /\ UNCHANGED git
  /\ UNCHANGED verdict

(* The suite runs on the repository, and on the worktree the acceptance    *)
(* test of the host, if there is one and the suite passes.                 *)
Measure(w, base, before) ==
  /\ step[w] = "isolated"
  /\ before # "none" => base = "pass"
  /\ Goes(w, "measured") /\ Learns(w, [trial[w] EXCEPT !.base = base, !.before = before])
  /\ UNCHANGED <<git, verdict, halted>>

(* The candidate is applied and its suite runs: what breaks fails, unless  *)
(* the tests were changed or are gone.  Without a baseline it is skipped,  *)
(* and so it is when the reference no longer holds.                        *)
Suite(w) == IF trial[w].kind = "breaks" THEN "fail" ELSE "pass"

Try(w) ==
  /\ step[w] = "measured" /\ Goes(w, "tried")
  /\ LET t == trial[w]
     IN Learns(w, IF t.base # "pass" \/ w \in halted THEN [t EXCEPT !.suite = "skipped"]
                  ELSE [t EXCEPT !.suite = IF t.kind = "weakens" THEN "skipped" ELSE Suite(w),
                                 !.intact = t.kind \notin {"weakens", "tampers"}])
  /\ UNCHANGED <<git, verdict, halted>>

(* A mutation that fails takes branch and worktree with it.                *)
MutationFails(w) ==
  /\ step[w] = "measured" /\ trial[w].base = "pass" /\ Discard(Own(w)) /\ Leaves(w)
  /\ UNCHANGED verdict

(* The acceptance test once more, on what has passed and left the          *)
(* reference alone.                                                        *)
Accept(w, after) ==
  /\ step[w] = "tried"
  /\ LET t == trial[w]
     IN /\ after # "none" <=> t.before # "none" /\ t.intact /\ t.suite = "pass"
        /\ Learns(w, [t EXCEPT !.after = after])
  /\ Goes(w, "accepted")
  /\ UNCHANGED <<git, verdict, halted>>

Accepted(t) ==
  \/ t.before = "none" /\ t.after = "none"
  \/ t.before \in {"fail", "pass"} /\ t.after = "pass"

(* Every test that passed by name must pass by that name.                  *)
Decide(w) ==
  /\ step[w] = "accepted" /\ Goes(w, "decided")
  /\ LET t == trial[w]
         retained == t.kind # "drops"
         promoted == /\ w \notin halted /\ t.base = "pass" /\ t.suite = "pass"
                     /\ t.intact /\ retained /\ Accepted(t)
     IN Learns(w, [t EXCEPT !.promoted = promoted, !.gain = promoted /\ t.before = "fail"])
  /\ UNCHANGED <<git, verdict, halted>>

(* The commit, which fails when there is nothing in it.                    *)
Commit(w) ==
  /\ step[w] = "decided" /\ trial[w].promoted
  /\ branch' = [branch EXCEPT ![Own(w)] = "committed"]
  /\ author' = [author EXCEPT ![Own(w)] = w]
  /\ Goes(w, "settled")
  /\ UNCHANGED <<verdict, trial, halted>>

CommitFails_Recorded(w) ==
  /\ step[w] = "decided" /\ trial[w].promoted /\ Discard(Own(w)) /\ Goes(w, "settled")
  /\ UNCHANGED <<verdict, trial, halted>>
CommitFails(w) ==
  /\ step[w] = "decided" /\ trial[w].promoted /\ Discard(Own(w)) /\ Leaves(w)
  /\ UNCHANGED verdict

RollBackTrial(w) ==
  /\ step[w] = "decided" /\ ~trial[w].promoted /\ Discard(Own(w)) /\ Goes(w, "settled")
  /\ UNCHANGED <<verdict, trial, halted>>

Note(w) == [by |-> w, promoted |-> trial[w].promoted, gain |-> trial[w].gain]

(* write_record creates the file, and fails if it is there.                *)
WriteRecord(w) ==
  /\ step[w] = "settled"
  /\ verdict' = IF verdict[Own(w)] = NoOne THEN [verdict EXCEPT ![Own(w)] = Note(w)] ELSE verdict
  /\ Leaves(w) /\ UNCHANGED git

(* A command fails where the code returns without cleaning up.             *)
Breaks(w) ==
  /\ step[w] \in {"isolated", "measured", "decided", "settled"} /\ Leaves(w)
  /\ UNCHANGED <<git, verdict>>

Halt(w) ==
  /\ step[w] # "idle" /\ halted' = halted \cup {w}
  /\ UNCHANGED <<git, verdict, step, trial>>

(* The user removes a branch or a worktree that is left.                   *)
Tidy(e) ==
  /\ \A w \in Experimenters : Own(w) # e
  /\ Discard(e) /\ verdict[e] = NoOne
  /\ UNCHANGED <<verdict, step, trial, halted>>

Death ==
  /\ step' = [w \in Experimenters |-> "idle"] /\ trial' = [w \in Experimenters |-> NoTrial]
  /\ halted' = {} /\ UNCHANGED <<git, verdict>>

TrialNext ==
  \/ \E w \in Experimenters :
       \/ \E e \in Experiments, kind \in Kinds : Propose(w, e, kind)
       \/ Isolate(w)
       \/ \E base \in {"pass", "fail"}, before \in {"none", "pass", "fail", "broken"} : Measure(w, base, before)
       \/ Try(w) \/ MutationFails(w)
       \/ \E after \in {"none", "pass", "fail"} : Accept(w, after)
       \/ Decide(w) \/ Commit(w) \/ CommitFails(w) \/ RollBackTrial(w) \/ WriteRecord(w)
       \/ Breaks(w) \/ Halt(w)
  \/ \E e \in Experiments : Tidy(e)
  \/ Death

TrialSpec == TrialInit /\ [][TrialNext]_trialVars

-----------------------------------------------------------------------------
(* A branch with a commit holds a candidate that neither breaks, weakens   *)
(* nor drops a test of the baseline ("preserve existing tests",            *)
(* improvement.rs), and a record speaks of a gain only if the host's own   *)
(* test went from failure to success.                                      *)
OnlySoundPromoted ==
  \A w \in Experimenters :
    step[w] = "settled" /\ trial[w].promoted =>
      /\ trial[w].kind = "good" /\ trial[w].base = "pass"
      /\ trial[w].gain => trial[w].before = "fail" /\ trial[w].after = "pass"

(* A record and the repository agree, whatever ran beside it, failed or    *)
(* died: promoted stands for a commit of the very experimenter who wrote   *)
(* it, rolled back for none of its own.  (A second experimenter may commit *)
(* under the id of one that has rolled back and not recorded it yet.)      *)
RecordAgrees ==
  \A e \in Experiments : verdict[e] # NoOne =>
    IF verdict[e].promoted THEN branch[e] = "committed" /\ author[e] = verdict[e].by
                           ELSE author[e] # verdict[e].by

(* What is committed, and what is said of it.                              *)
PromotionSound == OnlySoundPromoted /\ RecordAgrees
=============================================================================
