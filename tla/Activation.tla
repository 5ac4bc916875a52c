----------------------------- MODULE Activation -----------------------------
(***************************************************************************)
(* Replacement of the running Studio: staging and test receipts            *)
(* (apps/studio/src/activation.rs), the supervisor that activates a staged *)
(* runtime or returns to the previous one (bin/klyne-supervisor.rs), and   *)
(* the recovery guardian that repairs Studio and restarts its supervisor   *)
(* (scripts/klyne_recovery.py).  They meet in files of the workspace, and  *)
(* each of them may die between two steps.  A dying supervisor takes its   *)
(* child along, as its process job does on Windows.  A binary stands for   *)
(* its bytes and for their digest.                                         *)
(***************************************************************************)
EXTENDS Naturals, FiniteSets

CONSTANTS
  Binaries,
  Default,     \* the one the supervisor is started with
  Repairs,     \* those the guardian may build
  MaxIncidents, \* of one conversation
  RepairLimit, \* 2 in the code
  CrashLimit,  \* 3 in the code
  MaxRequests, \* bound on the runtimes users stage
  Absent

ASSUME RuntimeAssumption ==
  /\ Default \in Binaries /\ Default \notin Repairs /\ Repairs \subseteq Binaries
  /\ Absent \notin Binaries
  /\ MaxIncidents \in Nat /\ RepairLimit \in Nat /\ CrashLimit \in Nat /\ MaxRequests \in Nat

VARIABLES
  file,      \* runtime/versions: "none", "partial" or "whole"
  attested,  \* those with a receipt, runtime/attestation-<digest>.json, of this week
  pending,   \* runtime/pending.json
  current, previous,
  result,    \* runtime/last-result.json
  pc, binary, candidate, crashes, settled,       \* the supervisor
  child,     \* what runs, or Absent
  staging,   \* what is being staged, or Absent
  filed,     \* how many recovery/incidents there are, worked on in this order
  reports,   \* how many recovery/reports, which outlive the guardian
  job, phase, repair,                            \* the guardian
  blocked,   \* the incident the conversation stands at, or 0
  passed, proven,  \* ghosts: whose tests passed; who has answered a health check
  placed,          \* ghost: how often each incident's repair was handed over
  requests         \* the runtimes users staged

store   == <<file, attested>>
records == <<current, previous, result>>
superv  == <<pc, binary, candidate, crashes, settled>>
guard   == <<filed, reports, job, phase, repair, blocked, placed>>
ghosts  == <<passed, proven, requests>>
runtimeVars == <<store, pending, records, superv, child, staging, guard, ghosts>>

Nothing == [kind |-> "none", of |-> Absent]

RuntimeInit ==
  /\ file = [b \in Binaries |-> IF b = Default THEN "whole" ELSE "none"]
  /\ attested = {}
  /\ pending = Absent /\ current = Absent /\ previous = Absent /\ result = Nothing
  /\ pc = "down" /\ binary = Default /\ candidate = Absent /\ crashes = 0 /\ settled = FALSE
  /\ child = Absent /\ staging = Absent
  /\ filed = 0 /\ reports = 0 /\ job = 0 /\ phase = "idle" /\ repair = Absent
  /\ blocked = 0
  /\ passed = {} /\ proven = {} /\ placed = [i \in 1..MaxIncidents |-> 0]
  /\ requests = 0

-----------------------------------------------------------------------------
(* activation.rs.  run_tests takes an older receipt away first.            *)
RunTests(b, outcome) ==
  /\ attested' = IF outcome = "pass" THEN attested \cup {b} ELSE attested \ {b}
  /\ passed' = IF outcome = "pass" THEN passed \cup {b} ELSE passed
  /\ UNCHANGED <<file, pending, records, superv, child, staging, guard, proven, requests>>

Expire(b) ==
  /\ b \in attested /\ attested' = attested \ {b}
  /\ UNCHANGED <<file, pending, records, superv, child, staging, guard, ghosts>>

(* preflight: the bytes, a receipt of this week, and the protocol probe,   *)
(* which may fail.                                                         *)
Preflight(b) == file[b] = "whole" /\ b \in attested

(* stage looks for a pending request and copies the candidate if there is  *)
(* no file of its name; the copy may be cut short.                         *)
Stage(b, copied) ==
  /\ staging = Absent /\ pending = Absent /\ requests < MaxRequests
  /\ requests' = requests + 1
  /\ file' = IF file[b] = "none" THEN [file EXCEPT ![b] = copied] ELSE file
  /\ staging' = IF file[b] = "none" /\ copied = "partial" THEN Absent ELSE b
  /\ UNCHANGED <<attested, pending, records, superv, child, guard, passed, proven>>

Staged ==
  /\ staging # Absent /\ staging' = Absent
  /\ pending' = IF Preflight(staging) THEN staging ELSE pending
  /\ UNCHANGED <<store, records, superv, child, guard, ghosts>>

StageFails ==
  /\ staging # Absent /\ staging' = Absent
  /\ UNCHANGED <<store, pending, records, superv, child, guard, ghosts>>

-----------------------------------------------------------------------------
(* The supervisor.                                                         *)
Running == UNCHANGED <<binary, candidate, crashes, settled>>

(* What it remembers ends with the process.                                *)
Down ==
  /\ pc' = "down" /\ child' = Absent
  /\ binary' = Default /\ candidate' = Absent /\ crashes' = 0 /\ settled' = FALSE

Healthy(b) == proven' = proven \cup {b}

(* A start takes the recorded runtime, if its bytes are still those.       *)
Start ==
  /\ pc = "down" /\ pc' = "starting"
  /\ binary' = IF current # Absent /\ file[current] = "whole" THEN current ELSE Default
  /\ child' = binary'
  /\ UNCHANGED <<store, pending, records, candidate, crashes, settled, staging, guard, ghosts>>

Started ==
  /\ pc = "starting"
  /\ \/ child # Absent /\ pc' = "loop" /\ Healthy(child) /\ Running /\ UNCHANGED child
     \/ Down /\ UNCHANGED proven
  /\ UNCHANGED <<store, pending, records, staging, guard, passed, requests>>

(* Studio exits by itself; what it was staging is given up.                *)
Crash ==
  /\ child # Absent
  /\ child' = Absent
  /\ UNCHANGED <<store, pending, records, superv, staging, guard, ghosts>>

(* A minute since the last launch the supervisor took the time of.         *)
Minute ==
  /\ pc = "loop" /\ child # Absent /\ ~settled /\ settled' = TRUE
  /\ UNCHANGED <<store, pending, records, pc, binary, candidate, crashes, child, staging, guard, ghosts>>

(* A child that died is started again, three times in a row at most; one   *)
(* that does not get healthy is killed.                                    *)
Restart ==
  /\ pc = "loop" /\ child = Absent
  /\ LET count == (IF settled THEN 0 ELSE crashes) + 1 IN
     IF count > CrashLimit THEN Down /\ UNCHANGED proven
     ELSE /\ crashes' = count /\ settled' = FALSE /\ UNCHANGED <<pc, binary, candidate>>
          /\ \/ child' = binary /\ Healthy(binary)
             \/ child' = Absent /\ UNCHANGED proven
  /\ UNCHANGED <<store, pending, records, staging, guard, passed, requests>>

(* A request is taken when Studio has no work, and refused if preflight    *)
(* fails.                                                                  *)
Reject ==
  /\ pc = "loop" /\ child # Absent /\ pending # Absent
  /\ pc' = "clearing"
  /\ result' = [kind |-> IF file[pending] = "whole" /\ pending \notin attested
                         THEN "unattested" ELSE "rejected", of |-> pending]
  /\ UNCHANGED <<store, pending, current, previous, binary, candidate, crashes, settled, child, staging,
                 guard, ghosts>>

Take_Unattested ==
  /\ pc = "loop" /\ child # Absent /\ pending # Absent
  /\ file[pending] = "whole"
  /\ candidate' = pending /\ pc' = "draining"
  /\ UNCHANGED <<store, pending, records, binary, crashes, settled, child, staging, guard, ghosts>>
(* Otherwise Studio admits no more work, and what it has comes to an end.  *)
Take ==
  /\ pc = "loop" /\ child # Absent /\ pending # Absent
  /\ Preflight(pending)
  /\ candidate' = pending /\ pc' = "draining"
  /\ UNCHANGED <<store, pending, records, binary, crashes, settled, child, staging, guard, ghosts>>

(* The runtime to return to is written down before the old one is killed.  *)
Switch ==
  /\ pc = "draining" /\ child # Absent
  /\ previous' = binary /\ child' = candidate /\ pc' = "probing"
  /\ UNCHANGED <<store, pending, current, result, binary, candidate, crashes, settled, staging, guard, ghosts>>

(* It exits while it ends its work, or does not answer.                    *)
DrainFails ==
  /\ pc = "draining" /\ Down
  /\ UNCHANGED <<store, pending, records, staging, guard, ghosts>>

(* The candidate is healthy and becomes the recorded runtime.              *)
Record ==
  /\ pc = "probing" /\ child # Absent /\ Healthy(child)
  /\ binary' = candidate /\ current' = candidate /\ pc' = "recorded"
  /\ UNCHANGED <<store, pending, previous, result, candidate, crashes, settled, child, staging, guard, passed, requests>>

Report ==
  /\ pc = "recorded" /\ pc' = "clearing"
  /\ result' = [kind |-> "activated", of |-> candidate]
  /\ UNCHANGED <<store, pending, current, previous, binary, candidate, crashes, settled, child, staging,
                 guard, ghosts>>

(* It is not, and the previous runtime is started; if that one fails too,  *)
(* the supervisor ends.                                                    *)
RollBack ==
  /\ pc = "probing"
  /\ result' = [kind |-> "rollback", of |-> candidate]
  /\ \/ child' = previous /\ pc' = "clearing" /\ Healthy(previous) /\ Running
     \/ Down /\ UNCHANGED proven
  /\ UNCHANGED <<store, pending, current, previous, staging, guard, passed, requests>>

(* The request is renamed away, whichever it is by now.                    *)
Clear ==
  /\ pc = "clearing" /\ pc' = "loop" /\ pending' = Absent /\ candidate' = Absent
  /\ UNCHANGED <<store, records, binary, crashes, settled, child, staging, guard, ghosts>>

SupervisorDies ==
  /\ pc # "down"
  /\ Down
  /\ UNCHANGED <<store, pending, records, staging, guard, ghosts>>

-----------------------------------------------------------------------------
(* The conversation whose failures the guardian works on.  A failed model  *)
(* request blocks it and files an incident (recovery.rs, record).          *)
ModelFails ==
  /\ filed < MaxIncidents /\ blocked = 0 /\ child # Absent
  /\ filed' = filed + 1 /\ blocked' = filed'
  /\ UNCHANGED <<store, pending, records, superv, child, staging, reports, job, phase, repair, ghosts, placed>>

UserContinues ==
  /\ blocked # 0 /\ child # Absent
  /\ blocked' = 0
  /\ UNCHANGED <<store, pending, records, superv, child, staging, filed, reports, job, phase, repair, ghosts, placed>>

Worked == <<pending, records, superv, child, staging, filed, blocked, ghosts>>

(* process_incident.  A report stays, so that an incident is taken once;   *)
(* a conversation gets two repairs.                                        *)
TakeUp ==
  /\ phase = "idle" /\ reports < filed
  /\ reports' = reports + 1
  /\ IF reports' > RepairLimit THEN UNCHANGED <<job, phase>>
     ELSE job' = reports' /\ phase' = "repairing"
  /\ UNCHANGED <<store, repair, placed, Worked>>

(* agent: within eight requests the model's patches are applied all        *)
(* together to a copy of the source; they touch no protected file, and the *)
(* copy's tests pass.  Before that the attempt can only be given up.       *)
Patched ==
  /\ phase = "repairing" /\ phase' = "verified"
  /\ UNCHANGED <<store, reports, job, repair, placed, Worked>>

(* The candidate holds a conversation, and is copied to the versions.      *)
Smoked(b) ==
  /\ phase = "verified" /\ phase' = "built" /\ repair' = b
  /\ file' = [file EXCEPT ![b] = "whole"]
  /\ UNCHANGED <<attested, reports, job, placed, Worked>>

Unchanged == blocked = job

(* No update is pending and the conversation is as it failed.              *)
Checked ==
  /\ phase = "built" /\ pending = Absent /\ Unchanged /\ phase' = "checked"
  /\ UNCHANGED <<store, reports, job, repair, placed, Worked>>

Place ==
  /\ phase = "checked" /\ phase' = "waiting" /\ pending' = repair
  /\ placed' = [placed EXCEPT ![job] = @ + 1]
  /\ UNCHANGED <<store, records, superv, child, staging, filed, reports, job, repair, blocked, ghosts>>

(* The result names the repair: the conversation is resumed if unchanged.  *)
Activated ==
  /\ phase = "waiting" /\ result = [kind |-> "activated", of |-> repair]
  /\ child # Absent /\ Unchanged
  /\ blocked' = 0
  /\ phase' = "idle" /\ job' = 0 /\ repair' = Absent
  /\ UNCHANGED <<store, pending, records, superv, child, staging, filed, reports, ghosts, placed>>

(* Any check or step fails, two minutes pass, the user stops it.           *)
GiveUp ==
  /\ phase \notin {"idle", "gone"} /\ phase' = "idle" /\ job' = 0 /\ repair' = Absent
  /\ UNCHANGED <<store, reports, placed, Worked>>

(* A new guardian does not start beside a Studio that answers.             *)
GuardianDies ==
  /\ phase # "gone" /\ phase' = "gone" /\ job' = 0 /\ repair' = Absent
  /\ UNCHANGED <<store, reports, placed, Worked>>

GuardianStarts ==
  /\ phase = "gone" /\ child = Absent /\ phase' = "idle"
  /\ UNCHANGED <<store, reports, job, repair, placed, Worked>>

RuntimeNext ==
  \/ \E b \in Binaries \ {Default} :
       \/ \E outcome \in {"pass", "fail"} : RunTests(b, outcome)
       \/ Expire(b)
       \* users stage what they built, not the guardian's candidate
       \/ \E copied \in {"partial", "whole"} : b \notin Repairs /\ Stage(b, copied)
  \/ Staged \/ StageFails \/ Start \/ Started \/ Crash \/ Minute \/ Restart
  \/ Reject \/ Take \/ Switch \/ DrainFails \/ Record \/ Report \/ RollBack \/ Clear
  \/ SupervisorDies
  \/ ModelFails \/ TakeUp
  \/ Patched \/ \E b \in Repairs : Smoked(b)
  \/ UserContinues \/ Checked \/ Place \/ Activated \/ GiveUp
  \/ GuardianDies \/ GuardianStarts

RuntimeSpec == RuntimeInit /\ [][RuntimeNext]_runtimeVars

-----------------------------------------------------------------------------
(* Whatever runs, after a switch, a rollback, a crash or a new start from  *)
(* what the disk says, is the default or bytes whose tests passed.         *)
OnlyTestedRuns ==
  child # Absent => child = Default \/ (child \in passed /\ file[child] = "whole")

(* What a start or a rollback returns to has answered a health check       *)
(* before, wherever the supervisor died.                                   *)
FallbackProven ==
  /\ current # Absent => current \in proven
  /\ previous # Absent => previous \in proven
  /\ pc \in {"probing", "recorded"} => previous # Absent

(* An incident is repaired once, and two of a conversation at most,        *)
(* however often the guardian dies (recovery.md:88-91).                    *)
RepairedOnce ==
  /\ \A i \in 1..MaxIncidents : placed[i] <= 1
  /\ Cardinality({i \in 1..MaxIncidents : placed[i] > 0}) <= RepairLimit

(* What runs, what it falls back to and what is repaired, together.        *)
RuntimeSound == OnlyTestedRuns /\ FallbackProven /\ RepairedOnce

(* A repair the guardian has tested and handed over is not refused for     *)
(* want of tests.                                                          *)
RepairNotRefused == phase = "waiting" => result # [kind |-> "unattested", of |-> repair]
=============================================================================
