-------------------------- MODULE Services_proofs --------------------------
(* What the services around a turn keep for every value of their constants: *)
(* the runs of a Studio and its retirement, the replacement of its runtime, *)
(* the experiments, the calls to models and the page of a conversation.     *)
EXTENDS Services, FiniteSetTheorems, SequenceTheorems, TLAPS

-----------------------------------------------------------------------------
(* The runs: what an update may interrupt and how many there are.           *)
Admitted == {"admitted", "counted", "made"}
Retiring == {"draining", "drained chats", "switching"}
StartedRuns == {r \in table : how[r] = "started"}

StudioTypeOK ==
    /\ table \in SUBSET Runs /\ IsFiniteSet(table)
    /\ worker \in [Runs -> {"none", "driving", "over", "told", "closed"}]
    /\ how \in [Runs -> {"started", "resumed"}]
    /\ request \in [Requests -> [at : Admitted \cup {"idle", "resuming"},
                                 run : Runs \cup {Nobody}]]
    /\ \A h \in Requests : request[h].at \in {"made", "resuming"} => request[h].run \in Runs

(* Whoever starts a run holds the lock from the look at quiescing on, and    *)
(* the flag is raised under the same lock: once it is, nobody starts.        *)
Locked ==
    /\ \A h \in Requests : request[h].at \in Admitted => admission = h
    /\ quiescing => admission = Nobody
    /\ supervisor \in Retiring => quiescing
    /\ supervisor \in {"drained chats", "switching"} => talking = {}

(* The count a request acts on is still good when it acts.                   *)
Room == \A h \in Requests :
          request[h].at \in {"counted", "made"} => Cardinality(StartedRuns) < Limit

StudioInv == StudioTypeOK /\ Locked /\ Room /\ UpdatesWait /\ RunsBounded /\ StoreIsFree

(* A part of the table has no more runs than the whole.                      *)
LEMMA FewerRuns ==
  ASSUME NEW S, NEW T, IsFiniteSet(S), T \subseteq S
  PROVE  /\ IsFiniteSet(T) /\ Cardinality(T) <= Cardinality(S)
         /\ Cardinality(T) \in Nat /\ Cardinality(S) \in Nat
  BY FS_Subset, FS_CardinalityType

(* The invariant holds when Studio starts.                                   *)
LEMMA StudioInvInit ==
  ASSUME Limit \in Nat, StudioInit PROVE StudioInv
<1>1. StudioTypeOK
  BY FS_EmptySet DEF StudioInit, StudioTypeOK, Idle
<1>2. Locked /\ Room
  BY DEF StudioInit, Locked, Room, Idle, Admitted, Retiring
<1>3. UpdatesWait /\ StoreIsFree
  BY DEF StudioInit, UpdatesWait, StoreIsFree, Held
<1>4. {r \in table : how[r] = "started"} = {}
  BY DEF StudioInit
<1>5. RunsBounded
  BY <1>4, FS_EmptySet DEF RunsBounded
<1> QED
  BY <1>1, <1>2, <1>3, <1>5 DEF StudioInv

(* Entering a run in the table: a started one by whoever holds the lock and  *)
(* has counted, a resumed one by anybody.                                    *)
LEMMA Entering ==
  ASSUME Limit \in Nat, StudioTypeOK, NEW h \in Requests, NEW r \in Runs,
         NEW kind \in {"started", "resumed"}, Launched(h, r, kind)
  PROVE  /\ table' \in SUBSET Runs /\ IsFiniteSet(table')
         /\ worker' \in [Runs -> {"none", "driving", "over", "told", "closed"}]
         /\ how' \in [Runs -> {"started", "resumed"}]
         /\ StoreIsFree => StoreIsFree'
         /\ kind = "resumed" => StartedRuns' = StartedRuns
         /\ Cardinality(StartedRuns') <= Cardinality(StartedRuns) + 1
         /\ Cardinality(StartedRuns) \in Nat /\ Cardinality(StartedRuns') \in Nat
         /\ \A s \in table' \ table : how'[s] = kind
         /\ \A s \in table : how'[s] = how[s]
<1>1. IsFiniteSet(StartedRuns) /\ Cardinality(StartedRuns) \in Nat
  BY FewerRuns DEF StudioTypeOK, StartedRuns
<1>2. CASE r \in table \/ Held(r)
  <2>1. UNCHANGED <<table, worker, how>>
    BY <1>2 DEF Launched, work
  <2>2. StartedRuns' = StartedRuns /\ (StoreIsFree => StoreIsFree')
    BY <2>1 DEF StartedRuns, StoreIsFree, Held
  <2> QED
    BY <1>1, <2>1, <2>2 DEF StudioTypeOK
<1>3. CASE ~(r \in table \/ Held(r))
  <2>1. /\ table' = table \cup {r}
        /\ worker' = [worker EXCEPT ![r] = "driving"]
        /\ how' = [how EXCEPT ![r] = kind]
    BY <1>3 DEF Launched
  <2>2. IsFiniteSet(table')
    BY <2>1, FS_AddElement DEF StudioTypeOK
  <2>3. \A s \in table : s # r /\ how'[s] = how[s]
    BY <1>3, <2>1 DEF StudioTypeOK
  <2>4. how'[r] = kind
    BY <2>1 DEF StudioTypeOK
  <2>5. StoreIsFree => StoreIsFree'
    BY <2>1 DEF StudioTypeOK, StoreIsFree, Held
  <2>6. StartedRuns' = IF kind = "started" THEN StartedRuns \cup {r} ELSE StartedRuns
    BY <2>1, <2>3, <2>4 DEF StartedRuns
  <2>7. IsFiniteSet(StartedRuns \cup {r})
        /\ Cardinality(StartedRuns \cup {r}) <= Cardinality(StartedRuns) + 1
        /\ Cardinality(StartedRuns \cup {r}) \in Nat
    BY <1>1, FS_AddElement, FS_CardinalityType
  <2>8. Cardinality(StartedRuns') <= Cardinality(StartedRuns) + 1
        /\ Cardinality(StartedRuns') \in Nat
    BY <1>1, <2>6, <2>7
  <2> QED
    BY <1>1, <2>1, <2>2, <2>3, <2>4, <2>5, <2>6, <2>8 DEF StudioTypeOK
<1> QED
  BY <1>2, <1>3

(* Every step of a request, a run or the supervisor preserves it.            *)
LEMMA StudioInvNext ==
  ASSUME Limit \in Nat, Nobody \notin Requests, StudioInv, [StudioNext]_runsVars
  PROVE  StudioInv'
<1> USE DEF StudioInv
<1>0. IsFiniteSet(StartedRuns) /\ Cardinality(StartedRuns) \in Nat
      /\ Cardinality(table) \in Nat /\ Cardinality(StartedRuns) <= Cardinality(table)
  BY FewerRuns DEF StudioTypeOK, StartedRuns
<1>1. ASSUME NEW h \in Requests, Enter(h) PROVE StudioInv'
  BY <1>1 DEF Enter, work, StudioTypeOK, Locked, Room, UpdatesWait, RunsBounded, StoreIsFree,
     Held, StartedRuns, Admitted, Retiring, Idle
<1>2. ASSUME NEW h \in Requests, Count(h) PROVE StudioInv'
  <2>1. UNCHANGED <<table, worker, how, talking, quiescing, supervisor>>
    BY <1>2 DEF Count, work
  <2>2. UpdatesWait' /\ RunsBounded' /\ StoreIsFree' /\ StartedRuns' = StartedRuns
    BY <2>1 DEF UpdatesWait, RunsBounded, StoreIsFree, Held, StartedRuns
  <2>3. CASE Cardinality(table) >= Limit
    <3>1. request' = [request EXCEPT ![h] = Idle] /\ admission' = Nobody /\ admission = h
      BY <1>2, <2>3 DEF Count, Locked, Admitted
    <3>2. StudioTypeOK' /\ Locked' /\ Room'
      BY <2>1, <2>2, <3>1 DEF StudioTypeOK, Locked, Room, Admitted, Idle
    <3> QED
      BY <2>2, <3>2
  <2>4. CASE ~(Cardinality(table) >= Limit)
    <3>1. request' = [request EXCEPT ![h].at = "counted"] /\ admission' = admission
      BY <1>2, <2>4 DEF Count
    <3>2. Cardinality(StartedRuns) < Limit
      BY <1>0, <2>4
    <3>3. admission = h
      BY <1>2 DEF Count, Locked, Admitted
    <3>4. StudioTypeOK'
      BY <2>1, <3>1 DEF StudioTypeOK, Admitted
    <3>5. Locked'
      BY <2>1, <3>1, <3>3 DEF StudioTypeOK, Locked, Admitted
    <3>6. Room'
      BY <2>2, <3>1, <3>2 DEF StudioTypeOK, Room
    <3> QED
      BY <2>2, <3>4, <3>5, <3>6
  <2> QED
    BY <2>3, <2>4
<1>3. ASSUME NEW h \in Requests, Launch(h) PROVE StudioInv'
  <2> DEFINE r == request[h].run
  <2>1. r \in Runs /\ Launched(h, r, "started") /\ admission = h /\ admission' = Nobody
        /\ UNCHANGED <<talking, quiescing, supervisor>>
        /\ request' = [request EXCEPT ![h] = Idle]
    BY <1>3 DEF Launch, Launched, StudioTypeOK, Locked, Admitted
  <2> HIDE DEF r
  <2>2. Cardinality(StartedRuns) < Limit
    BY <1>3 DEF Launch, Room
  <2>3. /\ table' \in SUBSET Runs /\ IsFiniteSet(table')
        /\ worker' \in [Runs -> {"none", "driving", "over", "told", "closed"}]
        /\ how' \in [Runs -> {"started", "resumed"}]
        /\ StoreIsFree'
        /\ Cardinality(StartedRuns') <= Cardinality(StartedRuns) + 1
        /\ Cardinality(StartedRuns') \in Nat
    BY <2>1, Entering
  <2>4. StudioTypeOK'
    BY <2>1, <2>3 DEF StudioTypeOK, Idle
  <2>5. \A k \in Requests : request'[k].at \notin Admitted
    BY <2>1 DEF StudioTypeOK, Locked, Admitted, Idle
  <2>6. Locked' /\ Room'
    BY <2>1, <2>5 DEF Locked, Room, Admitted
  <2>7. supervisor' # "switching"
    BY <2>1 DEF Locked, Retiring
  <2>8. UpdatesWait'
    BY <2>7 DEF UpdatesWait
  <2>9. RunsBounded'
    BY <1>0, <2>2, <2>3 DEF RunsBounded, StartedRuns
  <2> QED
    BY <2>3, <2>4, <2>6, <2>8, <2>9
<1>4. ASSUME NEW h \in Requests, LaunchFails(h) PROVE StudioInv'
  BY <1>4 DEF LaunchFails, work, StudioTypeOK, Locked, Room, UpdatesWait, RunsBounded,
     StoreIsFree, Held, StartedRuns, Admitted, Retiring, Idle
<1>5. ASSUME NEW h \in Requests, Resume(h) PROVE StudioInv'
  <2> DEFINE r == request[h].run
  <2>1. r \in Runs /\ Launched(h, r, "resumed")
        /\ UNCHANGED <<talking, admission, quiescing, supervisor>>
        /\ request' = [request EXCEPT ![h] = Idle]
    BY <1>5 DEF Resume, Launched, StudioTypeOK
  <2> HIDE DEF r
  <2>2. /\ table' \in SUBSET Runs /\ IsFiniteSet(table')
        /\ worker' \in [Runs -> {"none", "driving", "over", "told", "closed"}]
        /\ how' \in [Runs -> {"started", "resumed"}]
        /\ StoreIsFree'
        /\ StartedRuns' = StartedRuns
        /\ \A s \in table' \ table : how'[s] = "resumed"
        /\ \A s \in table : how'[s] = how[s]
    BY <2>1, Entering
  <2>3. StudioTypeOK'
    BY <2>1, <2>2 DEF StudioTypeOK, Idle
  <2>4. Locked' /\ Room'
    BY <2>1, <2>2 DEF StudioTypeOK, Locked, Room, Admitted, Idle
  <2>5. UpdatesWait'
    BY <2>1, <2>2 DEF UpdatesWait
  <2>6. RunsBounded'
    BY <2>2 DEF RunsBounded, StartedRuns
  <2> QED
    BY <2>2, <2>3, <2>4, <2>5, <2>6
<1>6. ASSUME NEW h \in Requests, NEW r \in Runs, MakeDirectory(h, r) PROVE StudioInv'
  BY <1>6 DEF MakeDirectory, StudioTypeOK, Locked, Room, UpdatesWait, RunsBounded, StoreIsFree,
     Held, StartedRuns, Admitted, Retiring, Idle
<1>7. ASSUME NEW h \in Requests, NEW r \in Runs, ReadToResume(h, r) PROVE StudioInv'
  BY <1>7 DEF ReadToResume, work, StudioTypeOK, Locked, Room, UpdatesWait, RunsBounded,
     StoreIsFree, Held, StartedRuns, Admitted, Retiring, Idle
<1>8. ASSUME NEW r \in Runs, WriteError(r) \/ DropRuntime(r)
                              \/ \E outcome \in {"open", "done", "uncertain"} : RunEnds(r, outcome)
      PROVE  StudioInv'
  <2>1. PICK end \in {"over", "told", "closed"} :
          /\ worker' = [worker EXCEPT ![r] = end] /\ Held(r)
          /\ UNCHANGED <<table, how, talking, request, admission, quiescing, supervisor>>
    BY <1>8 DEF WriteError, DropRuntime, After, RunEnds, Held
  <2>2. StudioTypeOK' /\ Locked' /\ Room'
    BY <2>1 DEF StudioTypeOK, Locked, Room, StartedRuns
  <2>3. UpdatesWait' /\ RunsBounded'
    BY <2>1 DEF UpdatesWait, RunsBounded
  <2>4. StoreIsFree'
    BY <2>1 DEF StudioTypeOK, StoreIsFree, Held
  <2> QED
    BY <2>2, <2>3, <2>4
<1>9. ASSUME NEW r \in Runs, Leave(r) PROVE StudioInv'
  <2>1. /\ table' = table \ {r} /\ worker[r] = "closed"
        /\ UNCHANGED <<worker, saved, how, talking, request, admission, quiescing, supervisor>>
    BY <1>9 DEF Leave
  <2>2. IsFiniteSet(table') /\ StartedRuns' \subseteq StartedRuns
    BY <2>1, FewerRuns DEF StudioTypeOK, StartedRuns
  <2>3. Cardinality(StartedRuns') <= Cardinality(StartedRuns) /\ Cardinality(StartedRuns') \in Nat
    BY <1>0, <2>2, FewerRuns
  <2>4. StudioTypeOK' /\ Locked' /\ UpdatesWait' /\ StoreIsFree'
    BY <2>1, <2>2 DEF StudioTypeOK, Locked, UpdatesWait, StoreIsFree, Held
  <2>5. Room' /\ RunsBounded'
    BY <1>0, <2>1, <2>3 DEF Room, RunsBounded, StartedRuns
  <2> QED
    BY <2>4, <2>5
<1>10. ASSUME NEW c \in Chats, Talk(c) \/ Silent(c) PROVE StudioInv'
  <2>1. UNCHANGED <<table, worker, how, request, admission, quiescing, supervisor>>
    BY <1>10 DEF Talk, Silent, work
  <2>2. supervisor \in {"drained chats", "switching"} => talking' = {}
    BY <1>10 DEF Talk, Silent, Locked, Retiring
  <2>3. StudioTypeOK' /\ Locked' /\ Room'
    BY <2>1, <2>2 DEF StudioTypeOK, Locked, Room, StartedRuns
  <2>4. UpdatesWait' /\ RunsBounded' /\ StoreIsFree'
    BY <2>1, <2>2 DEF UpdatesWait, RunsBounded, StoreIsFree, Held
  <2> QED
    BY <2>3, <2>4
<1>11. CASE SeeReady \/ Quiesce \/ Drain
  <2>1. UNCHANGED <<table, worker, how, talking, request, admission>>
    BY <1>11 DEF SeeReady, Quiesce, Drain, Moves, work
  <2>2. StudioTypeOK' /\ Room' /\ RunsBounded' /\ StoreIsFree'
    BY <2>1 DEF StudioTypeOK, Room, RunsBounded, StoreIsFree, Held, StartedRuns
  <2>3. CASE SeeReady
    <3>1. supervisor' \in {"watching", "no chats", "asking"} /\ quiescing' = quiescing
      BY <2>3 DEF SeeReady, Moves
    <3>2. Locked' /\ UpdatesWait'
      BY <2>1, <3>1 DEF Locked, UpdatesWait, Retiring
    <3> QED
      BY <2>2, <3>2
  <2>4. CASE Quiesce
    BY <2>1, <2>2, <2>4 DEF Quiesce, Moves, Locked, UpdatesWait, Retiring
  <2>5. CASE Drain
    <3>1. quiescing' = quiescing /\ supervisor \in Retiring
      BY <2>5 DEF Drain, Moves, Retiring
    <3>2. supervisor' \in {"drained chats", "switching"} => talking = {}
      BY <2>5 DEF Drain, Moves, Locked
    <3>3. supervisor' = "switching" => table = {}
      BY <2>5 DEF Drain, Moves
    <3>4. Locked' /\ UpdatesWait'
      BY <2>1, <3>1, <3>2, <3>3 DEF Locked, UpdatesWait
    <3> QED
      BY <2>2, <3>4
  <2> QED
    BY <1>11, <2>3, <2>4, <2>5
<1>12. CASE Replace
  <2>1. /\ table' = {} /\ talking' = {} /\ supervisor' = "watching" /\ quiescing' = FALSE
        /\ worker' = [r \in Runs |-> "none"] /\ request' = [h \in Requests |-> Idle]
        /\ how' = how
    BY <1>12 DEF Replace
  <2>2. StartedRuns' = {} /\ Cardinality({}) = 0
    BY <2>1, FS_EmptySet DEF StartedRuns
  <2>3. StudioTypeOK' /\ Locked' /\ Room'
    BY <2>1, FS_EmptySet DEF StudioTypeOK, Locked, Room, Idle, Admitted, Retiring
  <2>4. UpdatesWait' /\ RunsBounded' /\ StoreIsFree'
    BY <2>1, <2>2 DEF UpdatesWait, RunsBounded, StoreIsFree, Held, StartedRuns
  <2> QED
    BY <2>3, <2>4
<1>13. CASE UNCHANGED runsVars
  BY <1>13 DEF runsVars, work, StudioTypeOK, Locked, Room, UpdatesWait, RunsBounded, StoreIsFree,
     Held, StartedRuns
<1> QED
  BY <1>1, <1>2, <1>3, <1>4, <1>5, <1>6, <1>7, <1>8, <1>9, <1>10, <1>11, <1>12, <1>13
     DEF StudioNext

(* An update of Studio interrupts at most a run that was resumed by hand,    *)
(* starting keeps within the limit, and a run that left the table can be     *)
(* resumed, for any number of threads, runs and conversations.               *)
THEOREM UpdatesInterruptNoStart ==
  ASSUME Limit \in Nat, Nobody \notin Requests
  PROVE  StudioSpec => []StudioSound
<1>1. StudioInit => StudioInv
  BY StudioInvInit
<1>2. StudioInv /\ [StudioNext]_runsVars => StudioInv'
  BY StudioInvNext
<1>3. StudioInv => StudioSound
  BY DEF StudioInv, StudioSound
<1> QED
  BY <1>1, <1>2, <1>3, PTL DEF StudioSpec

-----------------------------------------------------------------------------
(* The runtime: what runs and what it falls back to.                        *)
Absentee == Binaries \cup {Absent}

RuntimeTypeOK ==
    /\ file \in [Binaries -> {"none", "partial", "whole"}]
    /\ pending \in Absentee /\ current \in Absentee /\ previous \in Absentee
    /\ binary \in Binaries /\ candidate \in Absentee /\ child \in Absentee
    /\ staging \in Absentee /\ repair \in Absentee
    /\ phase \in {"repairing", "verified", "waiting", "idle", "gone"} \/ repair \in Binaries
    /\ passed \in SUBSET Binaries /\ attested \subseteq passed

(* The default, or bytes that are all there and whose tests passed.          *)
Tested(b) == b = Default \/ (b \in passed /\ file[b] = "whole")

(* Every place a child is started from names tested bytes, and every place   *)
(* it is returned to has answered a health check; what is probed is the      *)
(* candidate, what is starting is the recorded runtime.                      *)
SupervisorInv ==
    /\ \A b \in {child, current, previous, candidate} : b # Absent => Tested(b)
    /\ Tested(binary)
    /\ current # Absent => current \in proven
    /\ previous # Absent => previous \in proven
    /\ pc \in {"down", "starting", "loop", "draining", "probing", "recorded", "clearing"}
    /\ pc \notin {"down", "starting"} => binary \in proven
    /\ pc = "starting" /\ child # Absent => child = binary
    /\ pc \in {"draining", "probing", "recorded"} => candidate # Absent
    /\ pc = "probing" /\ child # Absent => child = candidate
    /\ pc \in {"probing", "recorded"} => previous # Absent

(* Reports are written in the order of the incidents, one before each repair:*)
(* the repair at work is the one of the last report and was not handed over. *)
GuardianInv ==
    /\ filed \in 0..MaxIncidents /\ reports \in 0..filed
    /\ placed \in [1..MaxIncidents -> Nat]
    /\ \A i \in 1..MaxIncidents :
         placed[i] <= 1 /\ (placed[i] > 0 => i <= reports /\ i <= RepairLimit)
    /\ phase \in {"repairing", "verified", "built", "checked"} =>
         job = reports /\ job \in 1..MaxIncidents /\ job <= RepairLimit /\ placed[job] = 0

RuntimeInv == RuntimeTypeOK /\ SupervisorInv /\ GuardianInv

(* What is tested stays so while files only become whole and tests only pass.*)
LEMMA TestedStays ==
  ASSUME NEW b \in Binaries, RuntimeTypeOK, passed \subseteq passed',
         \A d \in Binaries : file[d] = "whole" => file'[d] = "whole",
         Tested(b)
  PROVE  Tested(b)'
  BY DEF Tested

(* The invariant holds of a workspace nothing was staged in.                 *)
LEMMA RuntimeInvInit == RuntimeInit => RuntimeInv
<1> SUFFICES ASSUME RuntimeInit PROVE RuntimeInv
  OBVIOUS
<1>1. RuntimeTypeOK
  BY RuntimeAssumption DEF RuntimeInit, RuntimeTypeOK, Absentee
<1>2. SupervisorInv
  BY RuntimeAssumption DEF RuntimeInit, SupervisorInv, Tested
<1>3. GuardianInv
  BY RuntimeAssumption DEF RuntimeInit, GuardianInv
<1> QED
  BY <1>1, <1>2, <1>3 DEF RuntimeInv

(* The supervisor's steps, which leave the guardian's incidents alone.       *)
SupervisorStep ==
    \/ Start \/ Started \/ Crash \/ Minute \/ Restart \/ Reject \/ Take \/ Switch
    \/ DrainFails \/ Record \/ Report \/ RollBack \/ Clear \/ SupervisorDies

LEMMA SupervisorKeeps ==
  ASSUME RuntimeInv, SupervisorStep
  PROVE  RuntimeInv'
<1> USE DEF RuntimeInv
<1>0. /\ UNCHANGED <<store, staging, filed, reports, job, phase, repair, placed, passed>>
      /\ proven \subseteq proven'
  BY DEF SupervisorStep, Start, Started, Crash, Minute, Restart, Reject, Take, Switch, DrainFails,
     Record, Report, RollBack, Clear, SupervisorDies, Healthy, Down, guard, ghosts, store
<1>1. GuardianInv'
  BY <1>0 DEF GuardianInv
<1>2. \A b \in Binaries : Tested(b)' <=> Tested(b)
  BY <1>0 DEF Tested, store
<1>3. Tested(Default) /\ Default \in Binaries
  BY RuntimeAssumption DEF Tested
<1>4. file' = file /\ attested' = attested /\ passed' = passed /\ staging' = staging
      /\ repair' = repair /\ phase' = phase
  BY <1>0 DEF store
<1> USE DEF RuntimeTypeOK, Absentee, records, superv, Healthy, Running, Down
<1>5. CASE Start
  <2>1. RuntimeTypeOK'
    BY <1>4, <1>3, <1>5 DEF Start
  <2>2. SupervisorInv'
    BY <1>2, <1>3, <1>4, <1>5, <2>1 DEF Start, SupervisorInv, ghosts
  <2> QED
    BY <1>1, <2>1, <2>2
<1>6. CASE Started
  <2>1. RuntimeTypeOK'
    BY <1>4, <1>3, <1>6 DEF Started
  <2>2. SupervisorInv'
    BY <1>2, <1>3, <1>4, <1>6, <2>1 DEF Started, SupervisorInv
  <2> QED
    BY <1>1, <2>1, <2>2
<1>7. CASE Crash \/ Minute \/ Reject \/ Clear \/ Report
  <2>1. RuntimeTypeOK'
    BY <1>4, <1>3, <1>7, RuntimeAssumption DEF Crash, Minute, Reject, Clear, Report
  <2>2. SupervisorInv'
    BY <1>2, <1>3, <1>4, <1>7, <2>1 DEF Crash, Minute, Reject, Clear, Report, SupervisorInv, ghosts
  <2> QED
    BY <1>1, <2>1, <2>2
<1>8. CASE Restart
  <2>1. RuntimeTypeOK'
    BY <1>4, <1>3, <1>8 DEF Restart
  <2>2. SupervisorInv'
    BY <1>2, <1>3, <1>4, <1>8, <2>1, <1>0 DEF Restart, SupervisorInv
  <2> QED
    BY <1>1, <2>1, <2>2
<1>9. CASE Take
  <2>1. RuntimeTypeOK'
    BY <1>4, <1>9 DEF Take
  <2>2. Tested(pending) /\ pending \in Binaries
    BY <1>9 DEF Take, Preflight, Tested
  <2>3. SupervisorInv'
    BY <1>2, <1>4, <1>9, <2>1, <2>2 DEF Take, SupervisorInv, ghosts
  <2> QED
    BY <1>1, <2>1, <2>3
<1>10. CASE Switch
  <2>1. RuntimeTypeOK'
    BY <1>4, <1>10 DEF Switch
  <2>2. SupervisorInv'
    BY <1>2, <1>4, <1>10, <2>1, RuntimeAssumption DEF Switch, SupervisorInv, ghosts
  <2> QED
    BY <1>1, <2>1, <2>2
<1>11. CASE Record
  <2>1. RuntimeTypeOK'
    BY <1>4, <1>11 DEF Record, SupervisorInv
  <2>2. SupervisorInv'
    BY <1>2, <1>4, <1>11, <2>1 DEF Record, SupervisorInv
  <2> QED
    BY <1>1, <2>1, <2>2
<1>12. CASE RollBack
  <2>1. RuntimeTypeOK'
    BY <1>4, <1>3, <1>12 DEF RollBack
  <2>2. SupervisorInv'
    BY <1>2, <1>3, <1>4, <1>12, <2>1, <1>0 DEF RollBack, SupervisorInv
  <2> QED
    BY <1>1, <2>1, <2>2
<1>13. CASE DrainFails \/ SupervisorDies
  <2>1. RuntimeTypeOK'
    BY <1>4, <1>3, <1>13 DEF DrainFails, SupervisorDies
  <2>2. SupervisorInv'
    BY <1>2, <1>3, <1>4, <1>13, <2>1 DEF DrainFails, SupervisorDies, SupervisorInv, ghosts
  <2> QED
    BY <1>1, <2>1, <2>2
<1> QED
  BY <1>5, <1>6, <1>7, <1>8, <1>9, <1>10, <1>11, <1>12, <1>13 DEF SupervisorStep

(* The steps of tests, of users who stage a runtime, and of the guardian     *)
(* leave the supervisor where it is.                                         *)
LEMMA SupervisorUndisturbed ==
  ASSUME RuntimeInv, RuntimeTypeOK', UNCHANGED <<current, previous, superv, child, proven>>,
         passed \subseteq passed', \A d \in Binaries : file[d] = "whole" => file'[d] = "whole"
  PROVE  SupervisorInv'
<1>1. \A b \in Binaries : Tested(b) => Tested(b)'
  BY TestedStays DEF RuntimeInv
<1> QED
  BY <1>1 DEF RuntimeInv, RuntimeTypeOK, SupervisorInv, superv, Absentee

LEMMA StagingKeeps ==
  ASSUME RuntimeInv,
         \/ \E b \in Binaries \ {Default} :
              \/ \E outcome \in {"pass", "fail"} : RunTests(b, outcome)
              \/ Expire(b)
              \/ \E copied \in {"partial", "whole"} : b \notin Repairs /\ Stage(b, copied)
         \/ Staged \/ StageFails
  PROVE  RuntimeInv'
<1> USE DEF RuntimeInv, store, records, superv, guard, ghosts
<1>1. UNCHANGED <<current, previous, superv, child, proven, guard>> /\ passed \subseteq passed'
  BY DEF RunTests, Expire, Stage, Staged, StageFails
<1>2. RuntimeTypeOK'
  BY DEF RunTests, Expire, Stage, Staged, StageFails, RuntimeTypeOK, Absentee
<1>3. \A d \in Binaries : file[d] = "whole" => file'[d] = "whole"
  BY DEF RunTests, Expire, Stage, Staged, StageFails, RuntimeTypeOK
<1>4. SupervisorInv'
  BY <1>1, <1>2, <1>3, SupervisorUndisturbed
<1>5. GuardianInv'
  BY <1>1 DEF GuardianInv
<1> QED
  BY <1>2, <1>4, <1>5

LEMMA GuardianKeeps ==
  ASSUME RuntimeInv,
         \/ ModelFails \/ TakeUp
         \/ Patched \/ \E b \in Repairs : Smoked(b)
         \/ UserContinues \/ Checked \/ Place \/ Activated \/ GiveUp
         \/ GuardianDies \/ GuardianStarts
  PROVE  RuntimeInv'
<1> USE DEF RuntimeInv, store, records, superv, ghosts, Worked
<1>1. UNCHANGED <<current, previous, superv, child, proven>> /\ passed' = passed
  BY DEF ModelFails, TakeUp, Patched, Smoked, UserContinues, Checked, Place, Activated, GiveUp,
     GuardianDies, GuardianStarts
<1>2. RuntimeTypeOK'
  BY RuntimeAssumption
     DEF ModelFails, TakeUp, Patched, Smoked, UserContinues, Checked, Place, Activated, GiveUp,
     GuardianDies, GuardianStarts, RuntimeTypeOK, Absentee
<1>3. \A d \in Binaries : file[d] = "whole" => file'[d] = "whole"
  BY DEF ModelFails, TakeUp, Patched, Smoked, UserContinues, Checked, Place, Activated, GiveUp,
     GuardianDies, GuardianStarts, RuntimeTypeOK
<1>4. SupervisorInv'
  BY <1>1, <1>2, <1>3, SupervisorUndisturbed
<1>5. GuardianInv'
  <2>1. CASE ModelFails
    BY <2>1, RuntimeAssumption DEF ModelFails, GuardianInv
  <2>2. CASE TakeUp
    BY <2>2, RuntimeAssumption DEF TakeUp, GuardianInv
  <2>3. CASE Patched \/ (\E b \in Repairs : Smoked(b)) \/ Checked
    BY <2>3 DEF Patched, Smoked, Checked, GuardianInv
  <2>4. CASE Place
    BY <2>4, RuntimeAssumption DEF Place, GuardianInv
  <2>5. CASE UserContinues \/ Activated \/ GiveUp \/ GuardianDies \/ GuardianStarts
    BY <2>5 DEF UserContinues, Activated, GiveUp, GuardianDies, GuardianStarts, GuardianInv
  <2> QED
    BY <2>1, <2>2, <2>3, <2>4, <2>5
<1> QED
  BY <1>2, <1>4, <1>5

LEMMA RuntimeInvNext == RuntimeInv /\ [RuntimeNext]_runtimeVars => RuntimeInv'
<1> SUFFICES ASSUME RuntimeInv, [RuntimeNext]_runtimeVars PROVE RuntimeInv'
  OBVIOUS
<1>1. CASE UNCHANGED runtimeVars
  BY <1>1 DEF runtimeVars, store, records, superv, guard, ghosts, RuntimeInv, RuntimeTypeOK,
     Absentee, SupervisorInv, GuardianInv, Tested
<1>2. CASE RuntimeNext
  BY <1>2, StagingKeeps, SupervisorKeeps, GuardianKeeps DEF RuntimeNext, SupervisorStep
<1> QED
  BY <1>1, <1>2

(* Incidents repaired lie within the limit, so there are no more of them.    *)
LEMMA RepairsBounded == RuntimeInv => RepairedOnce
<1> SUFFICES ASSUME RuntimeInv PROVE RepairedOnce
  OBVIOUS
<1> DEFINE repaired == {i \in 1..MaxIncidents : placed[i] > 0}
<1>1. \A i \in 1..MaxIncidents : placed[i] <= 1
  BY DEF RuntimeInv, GuardianInv
<1>2. repaired \subseteq 1..RepairLimit
  BY RuntimeAssumption DEF RuntimeInv, GuardianInv
<1>3. 1 \in Int /\ RepairLimit \in Int /\ RepairLimit \in Nat
  BY RuntimeAssumption
<1>4. IsFiniteSet(1..RepairLimit)
      /\ Cardinality(1..RepairLimit) = IF 1 > RepairLimit THEN 0 ELSE RepairLimit - 1 + 1
  BY <1>3, FS_Interval
<1>5. Cardinality(repaired) <= Cardinality(1..RepairLimit)
  BY <1>2, <1>4, FewerRuns
<1>6. Cardinality(1..RepairLimit) = RepairLimit
  BY <1>3, <1>4
<1>7. Cardinality(repaired) <= RepairLimit
  BY <1>5, <1>6
<1> QED
  BY <1>1, <1>7 DEF RepairedOnce

(* What runs is the default or bytes whose tests passed, what a start or a   *)
(* rollback returns to has answered a health check, and an incident is       *)
(* repaired at most once, wherever Studio, the supervisor or the guardian    *)
(* dies and however many runtimes and incidents there are.                   *)
THEOREM TestedRuntimeRuns == RuntimeSpec => []RuntimeSound
<1>1. RuntimeInv => RuntimeSound
  <2> SUFFICES ASSUME RuntimeInv PROVE RuntimeSound
    OBVIOUS
  <2>1. OnlyTestedRuns
    BY DEF RuntimeInv, SupervisorInv, Tested, OnlyTestedRuns
  <2>2. FallbackProven
    BY DEF RuntimeInv, SupervisorInv, FallbackProven
  <2> QED
    BY <2>1, <2>2, RepairsBounded DEF RuntimeSound
<1> QED
  BY <1>1, RuntimeInvInit, RuntimeInvNext, PTL DEF RuntimeSpec

-----------------------------------------------------------------------------
(* The experiments: what is committed and what is said of it.               *)
Facts ==
    [id : Experiments \cup {NoOne}, kind : Kinds, before : {"none", "pass", "fail", "broken"},
     base : {"none", "pass", "fail"}, after : {"none", "pass", "fail"},
     suite : {"none", "skipped", "pass", "fail"}, intact : BOOLEAN, promoted : BOOLEAN,
     gain : BOOLEAN]

Isolated == {"isolated", "measured", "tried", "accepted", "decided"}

TrialTypeOK ==
    /\ branch \in [Experiments -> {"none", "baseline", "committed"}]
    /\ author \in [Experiments -> Experimenters \cup {NoOne}]
    /\ DOMAIN verdict = Experiments
    /\ step \in [Experimenters -> Isolated \cup {"idle", "proposed", "settled"}]
    /\ trial \in [Experimenters -> Facts]
    /\ \A w \in Experimenters : step[w] # "idle" => trial[w].id \in Experiments

(* What an experimenter has found out so far supports what it will decide.   *)
Evidence ==
    \A w \in Experimenters :
      /\ step[w] \in {"tried", "accepted"} =>
           (trial[w].suite = "pass" => trial[w].base = "pass")
           /\ (trial[w].suite = "pass" /\ trial[w].intact => trial[w].kind \in {"good", "drops"})
      /\ step[w] \in {"decided", "settled"} /\ trial[w].promoted =>
           /\ trial[w].kind = "good" /\ trial[w].base = "pass"
           /\ trial[w].gain => trial[w].before = "fail" /\ trial[w].after = "pass"

(* Between the worktree and the commit a branch belongs to one experimenter; *)
(* what it committed stays its own until the record says so.                 *)
Ownership ==
    \A w \in Experimenters :
      /\ step[w] \in Isolated =>
           /\ branch[trial[w].id] = "baseline" /\ author[trial[w].id] = NoOne
           /\ \A v \in Experimenters :
                step[v] \in Isolated /\ trial[v].id = trial[w].id => v = w
      /\ step[w] = "settled" =>
           IF trial[w].promoted
           THEN branch[trial[w].id] = "committed" /\ author[trial[w].id] = w
           ELSE author[trial[w].id] # w

(* A branch without a commit has no author.                                  *)
Authored == \A e \in Experiments : author[e] # NoOne => branch[e] = "committed"

(* Whoever wrote a record is not at that experiment any more.                *)
Recorded ==
    \A e \in Experiments : verdict[e] # NoOne =>
      /\ verdict[e].by \in Experimenters
      /\ trial[verdict[e].by].id # e
      /\ IF verdict[e].promoted THEN branch[e] = "committed" /\ author[e] = verdict[e].by
                                ELSE author[e] # verdict[e].by

TrialInv == TrialTypeOK /\ Evidence /\ Ownership /\ Authored /\ Recorded

(* Nothing is isolated or recorded when the first experiment is proposed.    *)
LEMMA TrialInvInit == TrialInit => TrialInv
<1> SUFFICES ASSUME TrialInit PROVE TrialInv
  OBVIOUS
<1>1. NoTrial \in Facts
  BY DEF NoTrial, Facts, Kinds
<1>2. TrialTypeOK
  BY <1>1 DEF TrialInit, TrialTypeOK
<1>3. Evidence /\ Ownership /\ Authored /\ Recorded
  BY DEF TrialInit, Evidence, Ownership, Authored, Recorded, Isolated
<1> QED
  BY <1>2, <1>3 DEF TrialInv

(* An experimenter that finds something out, at the experiment it is at.     *)
LEMMA Learning ==
  ASSUME TrialInv, NEW w \in Experimenters, NEW to \in Isolated,
         step[w] \in Isolated, Goes(w, to), UNCHANGED <<git, verdict>>,
         NEW t \in Facts, Learns(w, t), t.id = trial[w].id,
         to \in {"tried", "accepted"} =>
           (t.suite = "pass" => t.base = "pass")
           /\ (t.suite = "pass" /\ t.intact => t.kind \in {"good", "drops"}),
         to = "decided" /\ t.promoted =>
           /\ t.kind = "good" /\ t.base = "pass"
           /\ t.gain => t.before = "fail" /\ t.after = "pass"
  PROVE  TrialInv'
<1> USE DEF TrialInv, Goes, Learns, git
<1>1. TrialTypeOK'
  BY DEF TrialTypeOK, Isolated
<1>2. \A v \in Experimenters :
        /\ v # w => step'[v] = step[v] /\ trial'[v] = trial[v]
        /\ trial'[v].id = trial[v].id
        /\ step'[v] \in Isolated <=> step[v] \in Isolated
        /\ step'[v] = "settled" <=> (step[v] = "settled" /\ v # w)
  BY DEF TrialTypeOK, Isolated
<1>3. step'[w] = to /\ trial'[w] = t
  BY DEF TrialTypeOK
<1>4. Evidence'
  <2> SUFFICES ASSUME NEW v \in Experimenters
               PROVE  /\ step'[v] \in {"tried", "accepted"} =>
                           (trial'[v].suite = "pass" => trial'[v].base = "pass")
                           /\ (trial'[v].suite = "pass" /\ trial'[v].intact
                                => trial'[v].kind \in {"good", "drops"})
                      /\ step'[v] \in {"decided", "settled"} /\ trial'[v].promoted =>
                           /\ trial'[v].kind = "good" /\ trial'[v].base = "pass"
                           /\ trial'[v].gain => trial'[v].before = "fail" /\ trial'[v].after = "pass"
    BY DEF Evidence
  <2>1. CASE v = w
    BY <1>3, <2>1 DEF Isolated
  <2>2. CASE v # w
    BY <1>2, <2>2 DEF Evidence
  <2> QED
    BY <2>1, <2>2
<1>5. Ownership'
  BY <1>2 DEF Ownership, TrialTypeOK
<1>6. Authored' /\ Recorded'
  BY <1>2 DEF Authored, Recorded
<1> QED
  BY <1>1, <1>4, <1>5, <1>6

(* An experimenter that ends its experiment, leaving or discarding a branch  *)
(* it had to itself.                                                         *)
LEMMA Leaving ==
  ASSUME TrialInv, NEW w \in Experimenters, step[w] # "idle", Leaves(w), UNCHANGED verdict,
         UNCHANGED git \/ (step[w] \in Isolated /\ Discard(Own(w)))
  PROVE  TrialInv'
<1> USE DEF TrialInv, Leaves, Goes, Own, Discard, git
<1>1. NoTrial \in Facts /\ NoTrial.id = NoOne
  BY DEF NoTrial, Facts, Kinds
<1>2. TrialTypeOK'
  BY <1>1 DEF TrialTypeOK
<1>3. /\ step'[w] = "idle" /\ trial'[w].id = NoOne
      /\ \A v \in Experimenters : v # w => step'[v] = step[v] /\ trial'[v] = trial[v]
  BY <1>1 DEF TrialTypeOK
<1>4. Evidence'
  BY <1>3 DEF Evidence
<1>5. \A e \in Experiments : (branch'[e] = branch[e] /\ author'[e] = author[e])
        \/ (step[w] \in Isolated /\ e = trial[w].id /\ branch'[e] = "none" /\ author'[e] = NoOne)
  BY DEF TrialTypeOK
<1>6. Ownership'
  <2> SUFFICES ASSUME NEW v \in Experimenters, v # w
               PROVE  /\ step[v] \in Isolated =>
                           /\ branch'[trial[v].id] = "baseline" /\ author'[trial[v].id] = NoOne
                           /\ \A u \in Experimenters :
                                step'[u] \in Isolated /\ trial'[u].id = trial[v].id => u = v
                      /\ step[v] = "settled" =>
                           IF trial[v].promoted
                           THEN branch'[trial[v].id] = "committed" /\ author'[trial[v].id] = v
                           ELSE author'[trial[v].id] # v
    BY <1>3 DEF Ownership, Isolated
  <2>1. step[v] # "idle" => trial[v].id \in Experiments
    BY DEF TrialTypeOK
  <2>2. ASSUME step[v] \in Isolated, step[w] \in Isolated PROVE trial[v].id # trial[w].id
    BY <2>2 DEF Ownership
  <2>3. CASE step[v] \in Isolated
    BY <1>3, <1>5, <2>1, <2>2, <2>3 DEF Ownership, Isolated
  <2>4. CASE step[v] = "settled"
    BY <1>5, <2>1, <2>4, TrialAssumption DEF Ownership, Isolated
  <2> QED
    BY <2>3, <2>4
<1>7. Authored'
  BY <1>5 DEF Authored
<1>8. Recorded'
  <2> SUFFICES ASSUME NEW e \in Experiments, verdict[e] # NoOne
               PROVE  /\ verdict[e].by \in Experimenters
                      /\ trial'[verdict[e].by].id # e
                      /\ IF verdict[e].promoted
                         THEN branch'[e] = "committed" /\ author'[e] = verdict[e].by
                         ELSE author'[e] # verdict[e].by
    BY DEF Recorded
  <2>1. verdict[e].by \in Experimenters /\ trial'[verdict[e].by].id # e
    BY <1>3, TrialAssumption DEF Recorded
  <2>2. CASE branch'[e] = branch[e] /\ author'[e] = author[e]
    BY <2>1, <2>2 DEF Recorded
  <2>3. CASE step[w] \in Isolated /\ e = trial[w].id /\ branch'[e] = "none" /\ author'[e] = NoOne
    <3>1. branch[e] = "baseline"
      BY <2>3 DEF Ownership
    <3>2. ~verdict[e].promoted
      BY <3>1 DEF Recorded
    <3> QED
      BY <2>1, <2>3, <3>2, TrialAssumption
  <2> QED
    BY <1>5, <2>2, <2>3
<1> QED
  BY <1>2, <1>4, <1>6, <1>7, <1>8

(* Taking a branch for a worktree of one's own.                              *)
LEMMA Isolating ==
  ASSUME TrialInv, NEW w \in Experimenters, Isolate(w)
  PROVE  TrialInv'
<1>1. CASE branch[Own(w)] = "none" /\ w \notin halted
  <2> USE DEF TrialInv, Own, Goes
  <2>0. /\ step[w] = "proposed" /\ branch' = [branch EXCEPT ![trial[w].id] = "baseline"]
        /\ step' = [step EXCEPT ![w] = "isolated"] /\ UNCHANGED <<author, trial, verdict>>
        /\ branch[trial[w].id] = "none" /\ trial[w].id \in Experiments
    BY <1>1 DEF Isolate, TrialTypeOK
  <2>1. TrialTypeOK'
    BY <2>0 DEF TrialTypeOK, Isolated
  <2>2. Evidence'
    BY <2>0 DEF Evidence, TrialTypeOK
  <2>3. author[trial[w].id] = NoOne
    BY <2>0 DEF Authored
  <2>4. \A v \in Experimenters : step[v] \in Isolated => trial[v].id # trial[w].id
    BY <2>0 DEF Ownership
  <2>5. \A v \in Experimenters : step[v] = "settled" /\ trial[v].promoted => trial[v].id # trial[w].id
    BY <2>0 DEF Ownership
  <2>6. Ownership'
    BY <2>0, <2>3, <2>4, <2>5, TrialAssumption DEF Ownership, TrialTypeOK, Isolated
  <2>7. Authored'
    BY <2>0, <2>3 DEF Authored, TrialTypeOK
  <2>8. Recorded'
    BY <2>0 DEF Recorded, TrialTypeOK
  <2> QED
    BY <2>1, <2>2, <2>6, <2>7, <2>8
<1>2. CASE ~(branch[Own(w)] = "none" /\ w \notin halted)
  <2>1. step[w] # "idle" /\ Leaves(w) /\ UNCHANGED git /\ UNCHANGED verdict
    BY <1>2 DEF Isolate
  <2> QED
    BY <2>1, Leaving
<1> QED
  BY <1>1, <1>2

(* A commit, or the end of one that failed or was refused.                   *)
LEMMA Settling ==
  ASSUME TrialInv, NEW w \in Experimenters, Commit(w) \/ RollBackTrial(w)
  PROVE  TrialInv'
<1> USE DEF TrialInv, Own, Goes, git
<1> DEFINE e == trial[w].id
<1>1. /\ step[w] = "decided" /\ step' = [step EXCEPT ![w] = "settled"]
      /\ UNCHANGED <<verdict, trial>> /\ e \in Experiments
      /\ branch[e] = "baseline" /\ author[e] = NoOne
  BY DEF Commit, RollBackTrial, TrialTypeOK, Ownership, Isolated
<1>2. /\ branch' \in [Experiments -> {"none", "baseline", "committed"}]
      /\ author' \in [Experiments -> Experimenters \cup {NoOne}]
      /\ \A d \in Experiments : d # e => branch'[d] = branch[d] /\ author'[d] = author[d]
      /\ IF trial[w].promoted THEN branch'[e] = "committed" /\ author'[e] = w
                              ELSE author'[e] = NoOne
  BY <1>1 DEF Commit, RollBackTrial, Discard, TrialTypeOK
<1> HIDE DEF e
<1>3. TrialTypeOK'
  BY <1>1, <1>2 DEF TrialTypeOK
<1>4. Evidence'
  BY <1>1 DEF Evidence, TrialTypeOK
<1>5. \A v \in Experimenters : step[v] \in Isolated /\ v # w => trial[v].id # e
  BY <1>1 DEF Ownership, e, Isolated
<1>6. \A v \in Experimenters : step[v] = "settled" /\ trial[v].promoted => trial[v].id # e
  BY <1>1 DEF Ownership
<1>7. Ownership'
  <2> SUFFICES ASSUME NEW v \in Experimenters
               PROVE  /\ step'[v] \in Isolated =>
                           /\ branch'[trial[v].id] = "baseline" /\ author'[trial[v].id] = NoOne
                           /\ \A u \in Experimenters :
                                step'[u] \in Isolated /\ trial[u].id = trial[v].id => u = v
                      /\ step'[v] = "settled" =>
                           IF trial[v].promoted
                           THEN branch'[trial[v].id] = "committed" /\ author'[trial[v].id] = v
                           ELSE author'[trial[v].id] # v
    BY <1>1 DEF Ownership
  <2>1. step[v] # "idle" => trial[v].id \in Experiments
    BY DEF TrialTypeOK
  <2>2. step'[w] = "settled" /\ \A u \in Experimenters : u # w => step'[u] = step[u]
    BY <1>1 DEF TrialTypeOK
  <2>3. CASE v = w
    BY <1>2, <2>2, <2>3, TrialAssumption DEF e, Isolated
  <2>4. CASE v # w /\ step[v] \in Isolated
    BY <1>2, <1>5, <2>1, <2>2, <2>4 DEF Ownership, Isolated
  <2>5. CASE v # w /\ step[v] = "settled"
    <3>1. step'[v] \notin Isolated
      BY <2>2, <2>5 DEF Isolated
    <3>2. CASE trial[v].id = e
      BY <1>2, <1>6, <2>5, <3>1, <3>2, TrialAssumption
    <3>3. CASE trial[v].id # e
      BY <1>2, <2>1, <2>5, <3>1, <3>3 DEF Ownership
    <3> QED
      BY <3>2, <3>3
  <2> QED
    BY <2>2, <2>3, <2>4, <2>5
<1>8. Authored'
  BY <1>2 DEF Authored
<1>9. Recorded'
  <2> SUFFICES ASSUME NEW d \in Experiments, verdict[d] # NoOne
               PROVE  /\ verdict[d].by \in Experimenters /\ trial[verdict[d].by].id # d
                      /\ IF verdict[d].promoted
                         THEN branch'[d] = "committed" /\ author'[d] = verdict[d].by
                         ELSE author'[d] # verdict[d].by
    BY <1>1 DEF Recorded
  <2>1. /\ verdict[d].by \in Experimenters /\ trial[verdict[d].by].id # d
        /\ IF verdict[d].promoted
           THEN branch[d] = "committed" /\ author[d] = verdict[d].by
           ELSE author[d] # verdict[d].by
    BY DEF Recorded
  <2>2. CASE d # e
    BY <1>2, <2>1, <2>2
  <2>3. CASE d = e
    BY <1>1, <1>2, <2>1, <2>3, TrialAssumption DEF e
  <2> QED
    BY <2>2, <2>3
<1> QED
  BY <1>3, <1>4, <1>7, <1>8, <1>9

(* A record: its author is at no experiment any more.                        *)
LEMMA Recording ==
  ASSUME TrialInv, NEW w \in Experimenters, WriteRecord(w)
  PROVE  TrialInv'
<1> USE DEF TrialInv, Own, git
<1> DEFINE e == trial[w].id
<1>1. CASE verdict' = verdict
  BY <1>1, Leaving DEF WriteRecord
<1>2. CASE verdict' # verdict
  <2>1. /\ step[w] = "settled" /\ verdict' = [verdict EXCEPT ![e] = Note(w)]
        /\ step' = [step EXCEPT ![w] = "idle"] /\ trial' = [trial EXCEPT ![w] = NoTrial]
        /\ UNCHANGED <<branch, author>> /\ e \in Experiments
    BY <1>2 DEF WriteRecord, Leaves, Goes, TrialTypeOK
  <2>2. NoTrial \in Facts /\ NoTrial.id = NoOne
    BY DEF NoTrial, Facts, Kinds
  <2>3. TrialTypeOK'
    BY <2>1, <2>2 DEF TrialTypeOK
  <2>4. /\ step'[w] = "idle" /\ trial'[w].id = NoOne
        /\ \A v \in Experimenters : v # w => step'[v] = step[v] /\ trial'[v] = trial[v]
    BY <2>1, <2>2 DEF TrialTypeOK
  <2>5. Evidence' /\ Ownership' /\ Authored'
    BY <2>1, <2>4 DEF Evidence, Ownership, Authored, Isolated
  <2>6. verdict'[e] = [by |-> w, promoted |-> trial[w].promoted, gain |-> trial[w].gain]
        /\ \A d \in Experiments : d # e => verdict'[d] = verdict[d]
    BY <2>1 DEF TrialTypeOK, Note
  <2>7. IF trial[w].promoted THEN branch[e] = "committed" /\ author[e] = w
                             ELSE author[e] # w
    BY <2>1 DEF Ownership
  <2>8. Recorded'
    <3> SUFFICES ASSUME NEW d \in Experiments, verdict'[d] # NoOne
                 PROVE  /\ verdict'[d].by \in Experimenters /\ trial'[verdict'[d].by].id # d
                        /\ IF verdict'[d].promoted
                           THEN branch[d] = "committed" /\ author[d] = verdict'[d].by
                           ELSE author[d] # verdict'[d].by
      BY <2>1 DEF Recorded
    <3>1. CASE d = e
      BY <2>4, <2>6, <2>7, <3>1, TrialAssumption
    <3>2. CASE d # e
      BY <2>4, <2>6, <3>2, TrialAssumption DEF Recorded
    <3> QED
      BY <3>1, <3>2
  <2> QED
    BY <2>3, <2>5, <2>8
<1> QED
  BY <1>1, <1>2

(* A step of one experimenter.                                               *)
LEMMA ExperimenterKeeps ==
  ASSUME TrialInv, NEW w \in Experimenters,
         \/ \E e \in Experiments, kind \in Kinds : Propose(w, e, kind)
         \/ Isolate(w)
         \/ \E base \in {"pass", "fail"}, before \in {"none", "pass", "fail", "broken"} :
              Measure(w, base, before)
         \/ Try(w) \/ MutationFails(w)
         \/ \E after \in {"none", "pass", "fail"} : Accept(w, after)
         \/ Decide(w) \/ Commit(w) \/ CommitFails(w) \/ RollBackTrial(w) \/ WriteRecord(w)
         \/ Breaks(w) \/ Halt(w)
  PROVE  TrialInv'
<1>0. trial[w] \in Facts
  BY DEF TrialInv, TrialTypeOK
<1>1. ASSUME NEW e \in Experiments, NEW kind \in Kinds, Propose(w, e, kind) PROVE TrialInv'
  <2> USE DEF TrialInv, Own, git
  <2> DEFINE t == [NoTrial EXCEPT !.id = e, !.kind = kind]
  <2>1. t \in Facts /\ t.id = e
    BY DEF NoTrial, Facts, Kinds
  <2> HIDE DEF t
  <2>2. /\ step[w] = "idle" /\ verdict[e] = NoOne /\ UNCHANGED <<branch, author, verdict>>
        /\ step' = [step EXCEPT ![w] = "proposed"] /\ trial' = [trial EXCEPT ![w] = t]
    BY <1>1 DEF Propose, Goes, Learns, t
  <2>3. TrialTypeOK'
    BY <2>1, <2>2 DEF TrialTypeOK
  <2>4. /\ step'[w] = "proposed" /\ trial'[w].id = e
        /\ \A v \in Experimenters : v # w => step'[v] = step[v] /\ trial'[v] = trial[v]
    BY <2>1, <2>2 DEF TrialTypeOK
  <2>5. Evidence' /\ Ownership' /\ Authored'
    BY <2>2, <2>4 DEF Evidence, Ownership, Authored, Isolated
  <2>6. Recorded'
    BY <2>2, <2>4 DEF Recorded
  <2> QED
    BY <2>3, <2>5, <2>6
<1>2. CASE Isolate(w)
  BY <1>2, Isolating
<1>3. ASSUME NEW base \in {"pass", "fail"}, NEW before \in {"none", "pass", "fail", "broken"},
             Measure(w, base, before)
      PROVE  TrialInv'
  <2> DEFINE t == [trial[w] EXCEPT !.base = base, !.before = before]
  <2>1. t \in Facts /\ t.id = trial[w].id
    BY <1>0 DEF Facts
  <2>2. step[w] \in Isolated /\ Goes(w, "measured") /\ UNCHANGED <<git, verdict>> /\ Learns(w, t)
    BY <1>3 DEF Measure, Isolated
  <2> HIDE DEF t
  <2> QED
    BY <2>1, <2>2, Learning DEF Isolated
<1>4. CASE Try(w)
  <2> DEFINE u == trial[w]
             t == IF u.base # "pass" \/ w \in halted THEN [u EXCEPT !.suite = "skipped"]
                  ELSE [u EXCEPT !.suite = IF u.kind = "weakens" THEN "skipped" ELSE Suite(w),
                                 !.intact = u.kind \notin {"weakens", "tampers"}]
  <2>1. t \in Facts /\ t.id = trial[w].id
    BY <1>0 DEF Facts, Suite
  <2>2. (t.suite = "pass" => t.base = "pass")
        /\ (t.suite = "pass" /\ t.intact => t.kind \in {"good", "drops"})
    BY <1>0 DEF Facts, Suite, Kinds
  <2>3. step[w] \in Isolated /\ Goes(w, "tried") /\ UNCHANGED <<git, verdict>> /\ Learns(w, t)
    BY <1>4 DEF Try, Isolated
  <2> HIDE DEF t
  <2> QED
    BY <2>1, <2>2, <2>3, Learning DEF Isolated
<1>5. ASSUME NEW after \in {"none", "pass", "fail"}, Accept(w, after) PROVE TrialInv'
  <2> DEFINE t == [trial[w] EXCEPT !.after = after]
  <2>1. t \in Facts /\ t.id = trial[w].id
    BY <1>0 DEF Facts
  <2>2. /\ t.suite = trial[w].suite /\ t.base = trial[w].base /\ t.intact = trial[w].intact
        /\ t.kind = trial[w].kind
    BY <1>0 DEF Facts
  <2>3. /\ step[w] = "tried" /\ Goes(w, "accepted") /\ UNCHANGED <<git, verdict>> /\ Learns(w, t)
    BY <1>5 DEF Accept
  <2>4. (t.suite = "pass" => t.base = "pass")
        /\ (t.suite = "pass" /\ t.intact => t.kind \in {"good", "drops"})
    BY <2>2, <2>3 DEF TrialInv, Evidence
  <2> HIDE DEF t
  <2> QED
    BY <2>1, <2>3, <2>4, Learning DEF Isolated
<1>6. CASE Decide(w)
  <2> DEFINE u == trial[w]
             promoted == /\ w \notin halted /\ u.base = "pass" /\ u.suite = "pass"
                         /\ u.intact /\ u.kind # "drops" /\ Accepted(u)
             t == [u EXCEPT !.promoted = promoted, !.gain = promoted /\ u.before = "fail"]
  <2>1. t \in Facts /\ t.id = trial[w].id /\ t.kind = u.kind /\ t.base = u.base
        /\ t.before = u.before /\ t.after = u.after /\ t.promoted = promoted
        /\ t.gain = (promoted /\ u.before = "fail")
    BY <1>0 DEF Facts, Accepted
  <2>2. /\ step[w] = "accepted" /\ Goes(w, "decided") /\ UNCHANGED <<git, verdict>> /\ Learns(w, t)
    BY <1>6 DEF Decide
  <2>3. promoted => u.kind = "good" /\ u.base = "pass"
    BY <2>2 DEF TrialInv, Evidence
  <2>4. promoted /\ u.before = "fail" => u.after = "pass"
    BY DEF Accepted
  <2>5. t.promoted => /\ t.kind = "good" /\ t.base = "pass"
                      /\ t.gain => t.before = "fail" /\ t.after = "pass"
    BY <2>1, <2>3, <2>4
  <2> HIDE DEF t
  <2> QED
    BY <2>1, <2>2, <2>5, Learning DEF Isolated
<1>7. CASE Commit(w) \/ RollBackTrial(w)
  BY <1>7, Settling
<1>8. CASE MutationFails(w) \/ CommitFails(w) \/ Breaks(w)
  BY <1>8, Leaving DEF MutationFails, CommitFails, Breaks, Isolated
<1>9. CASE WriteRecord(w)
  BY <1>9, Recording
<1>10. CASE Halt(w)
  BY <1>10 DEF Halt, git, TrialInv, TrialTypeOK, Evidence, Ownership, Authored, Recorded
<1> QED
  BY <1>1, <1>2, <1>3, <1>4, <1>5, <1>6, <1>7, <1>8, <1>9, <1>10

LEMMA TrialInvNext == TrialInv /\ [TrialNext]_trialVars => TrialInv'
<1> SUFFICES ASSUME TrialInv, [TrialNext]_trialVars PROVE TrialInv'
  OBVIOUS
<1> USE DEF TrialInv
<1>1. ASSUME NEW e \in Experiments, Tidy(e) PROVE TrialInv'
  <2> USE DEF Own, Discard, git
  <2>1. /\ verdict[e] = NoOne /\ UNCHANGED <<verdict, step, trial>>
        /\ \A w \in Experimenters : trial[w].id # e
        /\ \A d \in Experiments : d # e => branch'[d] = branch[d] /\ author'[d] = author[d]
        /\ (branch'[e] = branch[e] /\ author'[e] = author[e])
           \/ author'[e] = NoOne
    BY <1>1 DEF Tidy, TrialTypeOK
  <2>2. TrialTypeOK'
    BY <1>1 DEF Tidy, TrialTypeOK
  <2>3. Evidence' /\ Authored' /\ Recorded'
    BY <2>1 DEF Evidence, Authored, Recorded
  <2>4. Ownership'
    BY <2>1 DEF Ownership, TrialTypeOK, Isolated
  <2> QED
    BY <2>2, <2>3, <2>4
<1>2. CASE Death
  <2>1. NoTrial \in Facts /\ NoTrial.id = NoOne
    BY DEF NoTrial, Facts, Kinds
  <2>2. TrialTypeOK'
    BY <1>2, <2>1 DEF Death, TrialTypeOK, git
  <2>3. Evidence' /\ Ownership' /\ Authored'
    BY <1>2 DEF Death, git, Evidence, Ownership, Authored, Isolated
  <2>4. Recorded'
    BY <1>2, <2>1, TrialAssumption DEF Death, git, Recorded
  <2> QED
    BY <2>2, <2>3, <2>4
<1>3. CASE UNCHANGED trialVars
  BY <1>3 DEF trialVars, git, TrialTypeOK, Evidence, Ownership, Authored, Recorded
<1>4. ASSUME NEW w \in Experimenters,
             \/ \E e \in Experiments, kind \in Kinds : Propose(w, e, kind)
             \/ Isolate(w)
             \/ \E base \in {"pass", "fail"}, before \in {"none", "pass", "fail", "broken"} :
                  Measure(w, base, before)
             \/ Try(w) \/ MutationFails(w)
             \/ \E after \in {"none", "pass", "fail"} : Accept(w, after)
             \/ Decide(w) \/ Commit(w) \/ CommitFails(w) \/ RollBackTrial(w) \/ WriteRecord(w)
             \/ Breaks(w) \/ Halt(w)
      PROVE  TrialInv'
  BY <1>4, ExperimenterKeeps
<1> QED
  BY <1>1, <1>2, <1>3, <1>4 DEF TrialNext

(* A branch with a commit holds a candidate that keeps every test, a gain is *)
(* a failure that became a success, and record and repository agree, for any *)
(* experimenters and experiments, whatever fails, is stopped or dies.        *)
THEOREM OnlyKeptTestsPromoted == TrialSpec => []PromotionSound
<1>1. TrialInv => PromotionSound
  BY DEF TrialInv, TrialTypeOK, Evidence, Recorded, OnlySoundPromoted, RecordAgrees,
     PromotionSound
<1> QED
  BY <1>1, TrialInvInit, TrialInvNext, PTL DEF TrialSpec

-----------------------------------------------------------------------------
(* The calls to models: what is charged and to whom.                        *)
Calls == [kind : {"request", "decision", "critique"}, role : Model!Roles \cup {"critic"},
          to : Model!Models, attempt : Nat, answer : Model!Kinds \cup {"awaited"}, twice : BOOLEAN]

(* No request was made that is not charged, no usage reported that is not    *)
(* metered, and the call under way goes where its role may go.               *)
Charged ==
    /\ limit \in Nat /\ budget \in Nat /\ used \in Nat /\ spent \in Nat
    /\ attempts \in Nat /\ asked \in Nat /\ billed \in Nat
    /\ dedicated \in BOOLEAN /\ helper \in BOOLEAN
    /\ asked <= used /\ billed <= spent
    /\ call # None => call \in Calls /\ Model!ReviewerStaysItself

LEMMA ChargedInit == Model!CallInit => Charged
  BY ServicesAssumption DEF Model!CallInit, Charged

LEMMA ChargedNext == Charged /\ [Model!CallNext]_(Model!callVars) => Charged'
<1> SUFFICES ASSUME Charged, [Model!CallNext]_(Model!callVars) PROVE Charged'
  OBVIOUS
<1> USE DEF Charged, Calls, Model!Roles, Model!Models, Model!ReviewerStaysItself,
        Model!settings, Model!metered, Model!counted, Model!Sends, Model!Ends, Model!Heard,
        Model!Returns, Model!Kinds, Model!Reports
<1>1. ASSUME NEW role \in Model!Roles, Model!Request(role) PROVE Charged'
  BY <1>1 DEF Model!Request, Model!Own
<1>2. CASE Model!Route
  BY <1>2 DEF Model!Route
<1>9. ASSUME NEW local \in BOOLEAN, Model!Critique(local) PROVE Charged'
  BY <1>9 DEF Model!Critique, Model!Own
<1>3. ASSUME NEW kind \in Model!Kinds, NEW price \in Prices,
             Model!Answered(kind, price)
      PROVE  Charged'
  <2>1. price \in Nat /\ call \in Calls
    BY <1>3, ServicesAssumption DEF Model!Answered
  <2>2. spent' \in Nat /\ billed' \in Nat /\ billed' <= spent'
        /\ UNCHANGED <<limit, budget, used, attempts, asked, dedicated, helper>>
    BY <1>3, <2>1 DEF Model!Answered
  <2>3. call' = None \/ call' = [call EXCEPT !.answer = kind]
    BY <1>3 DEF Model!Answered
  <2>4. call # None
    BY <1>3 DEF Model!Answered
  <2>5. call' # None => call' \in Calls /\ call'.role = call.role /\ call'.to = call.to
    BY <2>1, <2>3
  <2> QED
    BY <2>2, <2>4, <2>5
<1>4. CASE Model!Refuse \/ Model!Take \/ Model!Advised \/ Model!Unsupported \/ Model!Uncorrected
           \/ Model!GiveUp \/ Model!Stop \/ Model!Crash
  BY <1>4 DEF Model!Refuse, Model!Take, Model!Advised, Model!Unsupported, Model!Uncorrected,
     Model!GiveUp, Model!Stop, Model!Crash
<1>5. ASSUME NEW once \in BOOLEAN, Model!Again(once) PROVE Charged'
  <2>1. /\ call \in Calls /\ used' = used + 1 /\ asked' \in {asked, asked + 1}
        /\ attempts' \in {attempts, attempts + 1}
        /\ UNCHANGED <<limit, budget, dedicated, helper, spent, billed>>
    BY <1>5 DEF Model!Again
  <2> DEFINE twice == call.twice \/ once
  <2>2. call' = None \/ call' = [call EXCEPT !.answer = "awaited", !.attempt = call.attempt + 1,
                                             !.twice = twice]
    BY <1>5 DEF Model!Again
  <2>3. call # None
    BY <1>5 DEF Model!Again
  <2>5. twice \in BOOLEAN
    BY Zenon
  <2> HIDE DEF twice
  <2>6. ASSUME NEW b \in BOOLEAN, NEW n \in Nat
        PROVE  [call EXCEPT !.answer = "awaited", !.attempt = n, !.twice = b] \in Calls
    BY <2>1
  <2>7. call.attempt + 1 \in Nat
    BY <2>1
  <2>8. call' # None => call' \in Calls
    <3> HIDE DEF Calls
    <3> QED
      BY <2>2, <2>5, <2>6, <2>7
  <2>4. call' # None => call' \in Calls /\ call'.role = call.role /\ call'.to = call.to
    BY <2>1, <2>2, <2>8
  <2> QED
    BY <2>1, <2>3, <2>4
<1>6. CASE Model!Correct
  <2>1. /\ call # None /\ used' = used + 1 /\ asked' = asked + 1
        /\ attempts' = attempts + 1
        /\ UNCHANGED <<limit, budget, dedicated, helper, spent, billed>>
    BY <1>6 DEF Model!Correct, Model!Repeats
  <2>2. call' = [call EXCEPT !.answer = "awaited", !.attempt = 1, !.to = Model!Fallback]
    BY <1>6 DEF Model!Correct
  <2>3. Model!Fallback \in Model!Models
        /\ (call.role = "reviewer" /\ dedicated => Model!Fallback = "reviewer")
    BY <2>1 DEF Model!Fallback
  <2>4. call' \in Calls /\ call'.role = call.role /\ call'.to = Model!Fallback
    BY <2>1, <2>2, <2>3
  <2> QED
    BY <2>1, <2>3, <2>4
<1>7. ASSUME NEW l \in StepLimits, NEW b \in Budgets, Model!Continue(l, b) \/ Model!NewGoal(l, b)
      PROVE  Charged'
  BY <1>7, ServicesAssumption DEF Model!Continue, Model!NewGoal
<1>8. CASE UNCHANGED Model!callVars
  BY <1>8 DEF Model!callVars
<1> QED
  BY <1>1, <1>2, <1>3, <1>4, <1>5, <1>6, <1>7, <1>8, <1>9 DEF Model!CallNext

(* A call is made only while steps and tokens are left.                      *)
LEMMA CallsGuarded ==
  ASSUME Charged, Charged', Model!CallNext, attempts' > attempts
  PROVE  /\ budget > 0 => spent < budget
         /\ limit > 0 => used < limit
         /\ ~stopped
         /\ asked' <= used' /\ billed <= spent
<1> USE DEF Charged, Model!Sends, Model!Guard, Model!counted, Model!settings, Model!metered,
        Model!Ends, Model!Returns
<1>1. asked' <= used' /\ billed <= spent
  OBVIOUS
<1>2. attempts' # attempts
  OBVIOUS
<1>3. CASE \/ \E role \in Model!Roles : Model!Request(role)
           \/ Model!Route \/ \E local \in BOOLEAN : Model!Critique(local)
  BY <1>1, <1>3 DEF Model!Request, Model!Route, Model!Critique
<1>4. ASSUME NEW once \in BOOLEAN, Model!Again(once)
      PROVE  Model!Guard(used + 1)
  BY <1>2, <1>4 DEF Model!Again
<1>5. CASE Model!Correct
  BY <1>1, <1>5 DEF Model!Correct
<1>6. CASE \E once \in BOOLEAN : Model!Again(once)
  BY <1>1, <1>4, <1>6
<1>7. \/ \E role \in Model!Roles : Model!Request(role)
      \/ Model!Route \/ \E local \in BOOLEAN : Model!Critique(local)
      \/ Model!Correct \/ \E once \in BOOLEAN : Model!Again(once)
  <2>1. \A kind \in Model!Kinds, price \in Prices :
          Model!Answered(kind, price) => attempts' = attempts
    BY DEF Model!Answered
  <2>2. Model!Refuse \/ Model!Take \/ Model!Advised \/ Model!Unsupported \/ Model!Uncorrected
        \/ Model!GiveUp \/ Model!Stop \/ Model!Crash => attempts' = attempts
    BY DEF Model!Refuse, Model!Take, Model!Advised, Model!Unsupported, Model!Uncorrected,
       Model!GiveUp, Model!Stop, Model!Crash
  <2>3. \A l \in StepLimits, b \in Budgets : Model!Continue(l, b) => attempts' = attempts
    BY DEF Model!Continue
  <2>4. \A l \in StepLimits, b \in Budgets : Model!NewGoal(l, b) => attempts' = 0
    BY DEF Model!NewGoal
  <2>5. attempts' # 0
    OBVIOUS
  <2> QED
    BY <1>2, <2>1, <2>2, <2>3, <2>4, <2>5 DEF Model!CallNext
<1> QED
  BY <1>3, <1>5, <1>6, <1>7

(* A model is called only while steps and tokens are left, every call but a  *)
(* critique was charged a step, and the tokens of every answer are metered   *)
(* but those of a critique by the local helper, whatever is repeated, put    *)
(* again, stopped or cut off; and a dedicated reviewer is never asked as     *)
(* the worker: for any limits, budgets and prices.                           *)
THEOREM BudgetsKept == Model!CallSpec => CallsInBudget
<1>1. Charged /\ Charged' /\ [Model!CallNext]_(Model!callVars) =>
        [attempts' > attempts => /\ budget > 0 => spent < budget
                                 /\ limit > 0 => used < limit
                                 /\ ~stopped
                                 /\ asked' <= used' /\ billed <= spent]_(Model!callVars)
  BY CallsGuarded
<1>2. Charged => Model!ReviewerStaysItself
  BY DEF Charged, Model!ReviewerStaysItself
<1>3. Model!CallSpec => []Charged
  BY ChargedInit, ChargedNext, PTL DEF Model!CallSpec
<1>4. Model!CallSpec => Model!CallsInBudget
  BY <1>1, <1>3, PTL DEF Model!CallsInBudget, Model!CallSpec
<1> QED
  BY <1>2, <1>3, <1>4, PTL DEF CallsInBudget

-----------------------------------------------------------------------------
(* The page: what it shows once it has stopped fetching.                    *)
Copies == [status : Store!Statuses, pending : [call : Nat, proposal : BOOLEAN],
           activity : {Store!Nothing, "model"}, evidence : Nat, messages : Nat]

Pages == [open : BOOLEAN, asked : BOOLEAN, at : Nat, snapshot : Copies, seq : Nat]

StoreTypeOK ==
    chat \in Copies /\ stored \in Copies /\ page \in Pages /\ events \in Seq(Nat)

(* A snapshot is never older than the sequence the page takes it for: a      *)
(* snapshot that is behind has a sequence that is behind.                    *)
PageInv ==
    /\ StoreTypeOK
    /\ stored.evidence <= chat.evidence
    /\ page.at <= Store!LastSeq /\ page.seq <= Store!LastSeq
    /\ page.open /\ page.seq = Store!LastSeq =>
         /\ page.snapshot.evidence = stored.evidence
         /\ Store!Underway(page.snapshot) = Store!Underway(stored)

EventTypes == {"tool:start", "tool:result", "workflow:stage_changed", "klyne:activity",
               "observation:new"}

(* A sequence of one element is one, and is not empty.                       *)
LEMMA OneEvent ==
  ASSUME NEW S, NEW t \in S
  PROVE  <<t>> \in Seq(S) /\ <<t>> # <<>> /\ <<>> \in Seq(S)
<1>1. <<>> \in Seq(S) /\ Len(<<>>) = 0
  BY EmptySeq
<1>2. <<t>> \in Seq(S) /\ Len(<<t>>) = 1
  OBVIOUS
<1> QED
  BY <1>1, <1>2

(* Nothing is emitted only when none of the conditions holds.                *)
LEMMA NothingEmitted ==
  /\ Store!Emitted \in Seq(EventTypes)
  /\ Store!Emitted = <<>> =>
       /\ ~(Store!Started /\ ~chat.pending.proposal)
       /\ ~(Store!Resolved /\ ~stored.pending.proposal)
       /\ ~(chat.evidence > stored.evidence)
<1>1. \A t \in EventTypes :
        <<t>> \in Seq(EventTypes) /\ <<t>> # <<>> /\ <<>> \in Seq(EventTypes)
  BY OneEvent
<1>2. ASSUME NEW q \in Seq(EventTypes), NEW r \in Seq(EventTypes)
      PROVE  q \o r \in Seq(EventTypes) /\ (q \o r = <<>> => q = <<>> /\ r = <<>>)
  BY ConcatProperties, ConcatEqualIffEmpty
<1> DEFINE p1 == Store!When(Store!Started /\ ~chat.pending.proposal, "tool:start")
           p2 == Store!When(Store!Resolved /\ ~stored.pending.proposal, "tool:result")
           p3 == Store!When(chat.status # stored.status, "workflow:stage_changed")
           p4 == Store!When(chat.activity # stored.activity /\ chat.status \in Store!Running,
                            "klyne:activity")
           p5 == Store!When(chat.evidence > stored.evidence, "observation:new")
<1>3. Store!Emitted = (((p1 \o p2) \o p3) \o p4) \o p5
  BY DEF Store!Emitted
<1>9. /\ p1 \in Seq(EventTypes)
      /\ p1 = <<>> => ~(Store!Started /\ ~chat.pending.proposal)
  BY <1>1, Zenon DEF Store!When, EventTypes
<1>10. /\ p2 \in Seq(EventTypes)
       /\ p2 = <<>> => ~(Store!Resolved /\ ~stored.pending.proposal)
  BY <1>1, Zenon DEF Store!When, EventTypes
<1>11. p3 \in Seq(EventTypes) /\ p4 \in Seq(EventTypes)
  BY <1>1, Zenon DEF Store!When, EventTypes
<1>12. /\ p5 \in Seq(EventTypes)
       /\ p5 = <<>> => ~(chat.evidence > stored.evidence)
  BY <1>1, Zenon DEF Store!When, EventTypes
<1> HIDE DEF p1, p2, p3, p4, p5
<1>6. p1 \o p2 \in Seq(EventTypes) /\ (p1 \o p2) \o p3 \in Seq(EventTypes)
      /\ ((p1 \o p2) \o p3) \o p4 \in Seq(EventTypes)
  BY <1>2, <1>9, <1>10, <1>11
<1>7. Store!Emitted \in Seq(EventTypes)
  BY <1>2, <1>3, <1>6, <1>12
<1>8. Store!Emitted = <<>> => p1 = <<>> /\ p2 = <<>> /\ p5 = <<>>
  <2>1. Store!Emitted = <<>> => ((p1 \o p2) \o p3) \o p4 = <<>> /\ p5 = <<>>
    BY <1>2, <1>3, <1>6, <1>12
  <2>2. ((p1 \o p2) \o p3) \o p4 = <<>> => (p1 \o p2) \o p3 = <<>>
    BY <1>2, <1>6, <1>11
  <2>3. (p1 \o p2) \o p3 = <<>> => p1 \o p2 = <<>>
    BY <1>2, <1>6, <1>11
  <2>4. p1 \o p2 = <<>> => p1 = <<>> /\ p2 = <<>>
    BY <1>2, <1>9, <1>10
  <2> QED
    BY <2>1, <2>2, <2>3, <2>4
<1> QED
  BY <1>7, <1>8, <1>9, <1>10, <1>12

(* The sequence of the last event grows with every event, also when old      *)
(* events are dropped.                                                       *)
LEMMA SequenceGrows ==
  ASSUME events \in Seq(Nat),
         events' = Store!Last(MaxEvents,
                     events \o [i \in 1..Len(Store!Emitted) |-> Store!LastSeq + i])
  PROVE  /\ events' \in Seq(Nat)
         /\ Store!LastSeq \in Nat
         /\ Store!LastSeq' = Store!LastSeq + Len(Store!Emitted)
         /\ Len(Store!Emitted) \in Nat
<1> DEFINE n == Len(Store!Emitted)
           new == [i \in 1..n |-> Store!LastSeq + i]
           all == events \o new
           from == IF Len(all) > MaxEvents THEN Len(all) - MaxEvents + 1 ELSE 1
<1>1. n \in Nat
  BY NothingEmitted, LenProperties
<1>2. Store!LastSeq \in Nat /\ Len(events) \in Nat
      /\ (events # <<>> => Len(events) > 0 /\ Store!LastSeq = events[Len(events)])
      /\ (events = <<>> => Store!LastSeq = 0 /\ Len(events) = 0)
  BY EmptySeq, LenProperties, ElementOfSeq DEF Store!LastSeq
<1> HIDE DEF n
<1>3. new \in Seq(Nat) /\ Len(new) = n /\ \A i \in 1..n : new[i] = Store!LastSeq + i
  BY <1>1, <1>2
<1> HIDE DEF new
<1>4. /\ all \in Seq(Nat) /\ Len(all) = Len(events) + n
      /\ \A i \in 1..Len(events) + n :
           all[i] = IF i <= Len(events) THEN events[i] ELSE new[i - Len(events)]
  BY <1>3, ConcatProperties
<1>5. Len(all) \in Nat
  BY <1>1, <1>2, <1>4
<1>6. Len(all) > 0 => all[Len(all)] = Store!LastSeq + n
  <2>1. CASE n = 0
    <3>1. Len(all) > 0 => events # <<>> /\ all[Len(all)] = events[Len(events)]
      BY <1>1, <1>2, <1>4, <2>1
    <3> QED
      BY <1>2, <2>1, <3>1
  <2>2. CASE n > 0
    <3> DEFINE last == Len(events) + n
    <3>1. last \in 1..Len(events) + n /\ ~(last <= Len(events)) /\ last - Len(events) = n
          /\ n \in 1..n /\ last = Len(all)
      BY <1>1, <1>2, <1>4, <2>2
    <3> HIDE DEF last
    <3>2. all[last] = new[last - Len(events)]
      BY <1>4, <3>1
    <3> QED
      BY <1>3, <3>1, <3>2
  <2> QED
    BY <1>1, <2>1, <2>2
<1> HIDE DEF all
<1>7. from \in Nat /\ from >= 1 /\ (Len(all) > 0 => from <= Len(all))
      /\ (Len(all) = 0 => from = 1)
  BY <1>5, ServicesAssumption
<1>8. events' = SubSeq(all, from, Len(all))
  BY DEF Store!Last, all, new, n
<1> HIDE DEF from
<1>9. \A i \in from..Len(all) : all[i] \in Nat
  BY <1>4, <1>5, <1>7, ElementOfSeq
<1>10. /\ events' \in Seq(Nat)
       /\ Len(events') = IF from <= Len(all) THEN Len(all) - from + 1 ELSE 0
       /\ \A i \in 1..Len(all) - from + 1 : events'[i] = all[from + i - 1]
  <2>1. from \in Int /\ Len(all) \in Int
    BY <1>5, <1>7
  <2>2. /\ SubSeq(all, from, Len(all)) \in Seq(Nat)
        /\ Len(SubSeq(all, from, Len(all))) = IF from <= Len(all) THEN Len(all) - from + 1 ELSE 0
        /\ \A i \in 1..Len(all) - from + 1 : SubSeq(all, from, Len(all))[i] = all[from + i - 1]
    BY <1>9, <2>1, SubSeqProperties
  <2> QED
    BY <1>8, <2>2
<1>11. CASE Len(all) = 0
  <2>3. n = 0 /\ Len(events) = 0
    BY <1>1, <1>2, <1>4, <1>11
  <2>4. Len(events') = 0 /\ events' \in Seq(Nat)
    BY <1>7, <1>10, <1>11
  <2>1. events' = <<>> /\ n = 0 /\ Len(events) = 0
    BY <2>3, <2>4, EmptySeq
  <2>2. events = <<>>
    BY <1>2, <2>1
  <2> QED
    BY <1>1, <1>2, <1>10, <2>1, <2>2 DEF Store!LastSeq, n
<1>12. CASE Len(all) > 0
  <2>1. /\ Len(events') = Len(all) - from + 1 /\ Len(events') > 0
        /\ Len(events') \in 1..Len(all) - from + 1
    <3>1. Len(events') = Len(all) - from + 1
      BY <1>7, <1>10, <1>12
    <3> QED
      BY <1>5, <1>7, <1>12, <3>1
  <2>2. events'[Len(events')] = all[Len(all)]
    <3>1. from + Len(events') - 1 = Len(all)
      BY <1>5, <1>7, <2>1
    <3> QED
      BY <1>10, <2>1, <3>1
  <2>3. events' # <<>>
    BY <2>1, EmptySeq
  <2>4. Store!LastSeq' = Store!LastSeq + n
    BY <1>6, <1>12, <2>2, <2>3 DEF Store!LastSeq
  <2> QED
    BY <1>1, <1>2, <1>10, <2>4 DEF n
<1> QED
  BY <1>5, <1>11, <1>12

(* What shows a call or an observation is emitted with the change of it.     *)
LEMMA ChangesAreEmitted ==
  ASSUME StoreTypeOK, stored.evidence <= chat.evidence, Store!Emitted = <<>>,
         ~(/\ stored.pending # Store!NoCall /\ chat.pending # Store!NoCall
           /\ chat.pending # stored.pending)
  PROVE  chat.evidence = stored.evidence /\ Store!Underway(chat) = Store!Underway(stored)
<1>1. /\ ~(Store!Started /\ ~chat.pending.proposal)
      /\ ~(Store!Resolved /\ ~stored.pending.proposal)
      /\ ~(chat.evidence > stored.evidence)
  BY NothingEmitted
<1>2. chat.evidence = stored.evidence
  BY <1>1 DEF StoreTypeOK, Copies
<1>3. Store!NoCall.call = 0 /\ Store!NoCall.proposal = FALSE
  BY DEF Store!NoCall
<1>4. Store!Underway(chat) = Store!Underway(stored)
  <2>1. CASE chat.pending = stored.pending
    BY <2>1 DEF Store!Underway
  <2>2. CASE Store!Started
    BY <1>1, <1>3, <2>2 DEF Store!Started, Store!Underway
  <2>3. CASE Store!Resolved
    BY <1>1, <1>3, <2>3 DEF Store!Resolved, Store!Underway
  <2> QED
    BY <2>1, <2>2, <2>3 DEF Store!Started, Store!Resolved
<1> QED
  BY <1>2, <1>4

LEMMA PageInvInit == Store!StoreInit => PageInv
<1> SUFFICES ASSUME Store!StoreInit PROVE PageInv
  OBVIOUS
<1>1. Store!NewChat \in Copies
  BY DEF Store!NewChat, Copies, Store!Statuses, Store!Running, Store!NoCall
<1>2. StoreTypeOK
  BY <1>1, EmptySeq DEF Store!StoreInit, StoreTypeOK, Pages
<1>3. Store!LastSeq = 0
  BY DEF Store!StoreInit, Store!LastSeq
<1> QED
  BY <1>1, <1>2, <1>3 DEF Store!StoreInit, PageInv, Copies

LEMMA PageInvNext == PageInv /\ [Store!StoreNext]_(Store!storeVars) => PageInv'
<1> SUFFICES ASSUME PageInv, [Store!StoreNext]_(Store!storeVars) PROVE PageInv'
  OBVIOUS
<1>0. Store!LastSeq \in Nat
  BY EmptySeq, LenProperties, ElementOfSeq DEF Store!LastSeq, PageInv, StoreTypeOK
<1>1. CASE UNCHANGED <<stored, events, page>> /\ chat' \in Copies /\ stored.evidence <= chat'.evidence
  BY <1>1 DEF PageInv, StoreTypeOK, Store!LastSeq, Store!Underway
<1>2. CASE Store!Dispatch
  <2>1. PICK proposal \in BOOLEAN :
          chat' = [chat EXCEPT !.pending = [call |-> chat.evidence + 1, proposal |-> proposal]]
    BY <1>2 DEF Store!Dispatch
  <2>2. chat' \in Copies /\ chat'.evidence = chat.evidence
    BY <2>1 DEF PageInv, StoreTypeOK, Copies
  <2> QED
    BY <1>1, <1>2, <2>2 DEF Store!Dispatch, PageInv
<1>3. CASE Store!Observe
  <2>1. chat' \in Copies /\ stored.evidence <= chat'.evidence
    <3>1. Store!NoCall \in [call : Nat, proposal : BOOLEAN]
      BY DEF Store!NoCall
    <3>2. chat' = [chat EXCEPT !.pending = Store!NoCall, !.evidence = chat.evidence + 1]
      BY <1>3 DEF Store!Observe
    <3>3. chat \in Copies /\ stored.evidence \in Nat /\ stored.evidence <= chat.evidence
      BY DEF PageInv, StoreTypeOK, Copies
    <3>6. ASSUME NEW p \in [call : Nat, proposal : BOOLEAN], NEW n \in Nat
          PROVE  [chat EXCEPT !.pending = p, !.evidence = n] \in Copies
      BY <3>3 DEF Copies
    <3>7. chat.evidence \in Nat /\ chat.evidence + 1 \in Nat
      BY <3>3 DEF Copies
    <3>4. chat' \in Copies
      BY <3>1, <3>2, <3>6, <3>7
    <3>5. chat'.evidence = chat.evidence + 1
      BY <3>2, <3>3 DEF Copies
    <3> QED
      BY <3>3, <3>4, <3>5, <3>7
  <2> QED
    BY <1>1, <1>3, <2>1 DEF Store!Observe
<1>4. CASE \/ Store!Say \/ \E next \in Store!Statuses : Store!SetStatus(next)
           \/ \E activity \in {Store!Nothing, "model"} : Store!SetActivity(activity)
  <2>1. chat' \in Copies /\ chat'.evidence = chat.evidence
    BY <1>4 DEF Store!Say, Store!SetStatus, Store!SetActivity, PageInv, StoreTypeOK, Copies
  <2> QED
    BY <1>1, <1>4, <2>1 DEF Store!Say, Store!SetStatus, Store!SetActivity, PageInv
<1>5. CASE Store!Restart
  <2>1. chat' \in Copies /\ stored.evidence <= chat'.evidence
    BY <1>5 DEF Store!Restart, PageInv, StoreTypeOK, Copies
  <2> QED
    BY <1>1, <1>5, <2>1 DEF Store!Restart
<1>6. CASE Store!Save
  <2>1. /\ stored' = chat /\ chat' = chat /\ page' = page
        /\ ~(/\ stored.pending # Store!NoCall /\ chat.pending # Store!NoCall
             /\ chat.pending # stored.pending)
        /\ events' = Store!Last(MaxEvents,
                       events \o [i \in 1..Len(Store!Emitted) |-> Store!LastSeq + i])
    BY <1>6 DEF Store!Save
  <2>2. /\ events' \in Seq(Nat)
        /\ Store!LastSeq' = Store!LastSeq + Len(Store!Emitted) /\ Len(Store!Emitted) \in Nat
    BY <2>1, SequenceGrows DEF PageInv, StoreTypeOK
  <2>3. StoreTypeOK'
    BY <2>1, <2>2 DEF PageInv, StoreTypeOK
  <2>4. Store!LastSeq' >= Store!LastSeq
    BY <1>0, <2>2
  <2>5. page'.at <= Store!LastSeq' /\ page'.seq <= Store!LastSeq'
    BY <1>0, <2>1, <2>2, <2>4 DEF PageInv, StoreTypeOK, Pages
  <2>6. stored'.evidence <= chat'.evidence
    BY <2>1 DEF PageInv, StoreTypeOK, Copies
  <2>7. ASSUME page'.open, page'.seq = Store!LastSeq'
        PROVE  /\ page'.snapshot.evidence = stored'.evidence
               /\ Store!Underway(page'.snapshot) = Store!Underway(stored')
    <3>1. Store!LastSeq' = Store!LastSeq /\ Len(Store!Emitted) = 0
      BY <1>0, <2>1, <2>2, <2>7 DEF PageInv, StoreTypeOK, Pages
    <3>2. Store!Emitted = <<>>
      BY <3>1, NothingEmitted, EmptySeq
    <3>3. chat.evidence = stored.evidence /\ Store!Underway(chat) = Store!Underway(stored)
      BY <2>1, <3>2, ChangesAreEmitted DEF PageInv
    <3> QED
      BY <2>1, <2>7, <3>1, <3>3 DEF PageInv
  <2>8. Store!Underway(page.snapshot)' = Store!Underway(page'.snapshot)
        /\ Store!Underway(stored)' = Store!Underway(stored')
    BY DEF Store!Underway
  <2> QED
    BY <2>3, <2>5, <2>6, <2>7, <2>8 DEF PageInv
<1>7. CASE Store!Pulse
  <2>1. /\ UNCHANGED <<chat, stored, events>>
        /\ page' = [page EXCEPT !.asked = TRUE, !.at = Store!LastSeq] \/ page' = page
    BY <1>7 DEF Store!Pulse
  <2>3. page \in Pages /\ page.at <= Store!LastSeq
    BY DEF PageInv, StoreTypeOK
  <2>2. /\ page' \in Pages /\ page'.seq = page.seq /\ page'.snapshot = page.snapshot
        /\ page'.at <= Store!LastSeq
    <3>1. CASE page' = page
      BY <2>3, <3>1 DEF Pages
    <3>2. CASE page' = [page EXCEPT !.asked = TRUE, !.at = Store!LastSeq]
      <4>1. ASSUME NEW n \in Nat
            PROVE  [page EXCEPT !.asked = TRUE, !.at = n] \in Pages
        BY <2>3 DEF Pages
      <4>2. page' \in Pages
        BY <1>0, <3>2, <4>1
      <4>3. page'.at = Store!LastSeq /\ page'.seq = page.seq /\ page'.snapshot = page.snapshot
        BY <2>3, <3>2 DEF Pages
      <4> QED
        BY <1>0, <4>2, <4>3
    <3> QED
      BY <2>1, <3>1, <3>2
  <2>4. page'.open <=> page.open
    BY <2>1, <2>3 DEF Pages
  <2> QED
    BY <2>1, <2>2, <2>4 DEF PageInv, StoreTypeOK, Store!LastSeq, Store!Underway
<1>8. CASE Store!Snapshot
  <2>1. /\ UNCHANGED <<chat, stored, events>>
        /\ page' = [page EXCEPT !.asked = FALSE, !.open = TRUE, !.snapshot = stored,
                                !.seq = page.at]
    BY <1>8 DEF Store!Snapshot
  <2>3. page \in Pages /\ stored \in Copies /\ page.at \in Nat
    BY DEF PageInv, StoreTypeOK, Pages
  <2>4. page' \in Pages
    BY <2>1, <2>3 DEF Pages
  <2>2. /\ page' \in Pages /\ page'.seq = page.at /\ page'.at = page.at
        /\ page'.snapshot = stored
    BY <2>1, <2>3, <2>4 DEF Pages
  <2> QED
    BY <2>1, <2>2 DEF PageInv, StoreTypeOK, Store!LastSeq, Store!Underway
<1>9. CASE UNCHANGED Store!storeVars
  BY <1>9 DEF Store!storeVars, PageInv, StoreTypeOK, Store!LastSeq, Store!Underway
<1> QED
  BY <1>2, <1>3, <1>4, <1>5, <1>6, <1>7, <1>8, <1>9 DEF Store!StoreNext

(* A page that stopped fetching shows the stored observations and the call   *)
(* under way, however many events are kept and whatever was saved between    *)
(* its pulse and its snapshot.                                               *)
THEOREM SettledPageIsCurrent == Store!StoreSpec => []SettledIsCurrent
<1>1. PageInv => SettledIsCurrent
  BY DEF PageInv, SettledIsCurrent, Store!SettledIsCurrent, Store!Settled
<1> QED
  BY <1>1, PageInvInit, PageInvNext, PTL DEF Store!StoreSpec

-----------------------------------------------------------------------------
(* The live chat: when a follow-up is sent.                                 *)
Unsent == {"responding", "queued", "answered", "failed", "cancelled"}

LogTypeOK ==
    /\ status \in [Conversations -> Live!Statuses]
    /\ message \in [Messages -> {"none"} \cup Live!Outstanding \cup Live!Settled]
    /\ sends \in [Messages -> Nat]
    /\ DOMAIN scope = Conversations /\ DOMAIN askedIn = Messages

(* The first message of the tick's list is m.                               *)
AtHead(m) == todo # <<>> /\ Head(todo).id = m

(* A message is removed, and may be written again, only with the whole      *)
(* conversation.                                                            *)
Counted ==
    /\ Live!FollowUpSentOnce
    /\ \A m \in Messages : message[m] = "none" => sends[m] = 0 \/ status[Of[m]] = "deleted"

(* What the tick knows of the conversation it read, and of the message it   *)
(* claimed, is true until it acts, unless the conversation is deleted.      *)
InHand ==
    /\ todo = <<>> => found = Nobody
    /\ \A c \in Conversations : c \in active => status[c] = "working"
    /\ \A m \in Messages : AtHead(m) =>
         /\ found \in {"completed", "claimed"} => status[Of[m]] \in {"completed", "deleted"}
         /\ found = "claimed" /\ status[Of[m]] # "deleted" =>
              message[m] = "dispatching" /\ sends[m] = 0 /\ askedIn[m] = scope[Of[m]]

TalkInv == LogTypeOK /\ Counted /\ InHand

LEMMA TalkInvInit == Live!TalkInit => TalkInv
  BY ServicesAssumption
  DEF Live!TalkInit, TalkInv, LogTypeOK, Live!Statuses, Counted,
      Live!FollowUpSentOnce, InHand, AtHead

(* The states a message can have.                                           *)
MessageStates == {"none"} \cup Live!Outstanding \cup Live!Settled

(* A step of the log: the message m goes from one state to another, and the *)
(* tick, if it moves on, lets go of what it read.  No conversation changes. *)
LEMMA Moving ==
  ASSUME TalkInv, NEW m \in Messages, NEW to \in MessageStates \ {"none"},
         UNCHANGED <<status, active, stop, scope, sends>>,
         DOMAIN askedIn' = Messages,
         \A n \in Messages : n # m => askedIn'[n] = askedIn[n],
         message' = [message EXCEPT ![m] = to],
         message[m] # "dispatching" \/ ~(AtHead(m) /\ found = "claimed") \/ found' = Nobody,
         to \in Unsent => sends[m] = 0,
         message[m] = "none" => status[Of[m]] # "deleted",
         askedIn'[m] = askedIn[m] \/ message[m] = "none",
         UNCHANGED <<todo, found>> \/ found' = Nobody
  PROVE  TalkInv'
<1> USE ServicesAssumption DEF TalkInv
<1>1. LogTypeOK'
  BY DEF LogTypeOK, MessageStates
<1>2. \A n \in Messages : message'[n] = IF n = m THEN to ELSE message[n]
  BY DEF LogTypeOK
<1>3. Counted'
  BY <1>2 DEF Counted, Live!FollowUpSentOnce, Unsent, MessageStates
<1>4. ASSUME UNCHANGED <<todo, found>> PROVE InHand'
  <2>1. ASSUME NEW n \in Messages, AtHead(n)', found' = "claimed", status'[Of[n]] # "deleted"
        PROVE  /\ message'[n] = "dispatching" /\ sends'[n] = 0
               /\ askedIn'[n] = scope'[Of[n]]
    <3>1. AtHead(n) /\ found = "claimed" /\ status[Of[n]] # "deleted"
      BY <1>4, <2>1 DEF AtHead
    <3>2. message[n] = "dispatching" /\ sends[n] = 0 /\ askedIn[n] = scope[Of[n]]
      BY <3>1 DEF InHand
    <3>3. n # m
      BY <1>4, <3>1, <3>2, ServicesAssumption
    <3> QED
      BY <1>2, <3>2, <3>3
  <2> QED
    BY <1>4, <2>1 DEF InHand, AtHead
<1>5. ASSUME found' = Nobody PROVE InHand'
  BY <1>5 DEF InHand
<1> QED
  BY <1>1, <1>3, <1>4, <1>5

(* A step of the tick that writes nothing and at most moves on.             *)
LEMMA Passing ==
  ASSUME TalkInv, UNCHANGED <<status, active, stop, scope, sends, message, askedIn>>,
         UNCHANGED <<todo, found>> \/ found' = Nobody
  PROVE  TalkInv'
<1> USE ServicesAssumption DEF TalkInv
<1>1. LogTypeOK'
  BY DEF LogTypeOK
<1>2. Counted'
  BY DEF Counted, Live!FollowUpSentOnce
<1>3. CASE UNCHANGED <<todo, found>>
  BY <1>1, <1>2, <1>3 DEF InHand, AtHead
<1>4. CASE found' = Nobody
  BY <1>1, <1>2, <1>4 DEF InHand
<1> QED
  BY <1>3, <1>4

(* What the tick does with the first message of its list.                   *)
Keeps == UNCHANGED <<status, active, stop, scope, sends, askedIn>> /\ found' = Nobody

LEMMA MovesOn ==
  ASSUME TalkInv, Keeps, NEW from \in {"queued", "running", "dispatching"},
         NEW to \in MessageStates \ ({"none"} \cup Unsent),
         Live!Move(Live!Row, from, to)
  PROVE  TalkInv'
<1>1. CASE Live!Row \in Messages /\ message[Live!Row] = from
  <2>1. message' = [message EXCEPT ![Live!Row] = to]
    BY <1>1 DEF Live!Move
  <2>2. DOMAIN askedIn' = Messages /\ askedIn' = askedIn
    BY DEF TalkInv, LogTypeOK, Keeps
  <2>3. message[Live!Row] # "none"
    BY <1>1
  <2> QED
    BY <1>1, <2>1, <2>2, <2>3, Moving DEF Keeps
<1>2. CASE ~(Live!Row \in Messages /\ message[Live!Row] = from)
  <2>1. message' = message
    BY <1>2 DEF Live!Move, TalkInv, LogTypeOK
  <2> QED
    BY <2>1, Passing DEF Keeps
<1> QED
  BY <1>1, <1>2

LEMMA TickKeeps ==
  ASSUME TalkInv,
         \/ Live!Begin \/ Live!Look \/ Live!Settle \/ Live!Skip \/ Live!Outdated
         \/ Live!Claim \/ Live!Dispatch \/ Live!Started \/ Live!Refused \/ Live!Abort
  PROVE  TalkInv'
<1> USE DEF Live!chats, Live!talk, Live!pass, Live!traced
<1>1. CASE Live!Begin
  <2>1. UNCHANGED <<status, active, stop, scope, sends, message, askedIn, found>> /\ todo = <<>>
    BY <1>1 DEF Live!Begin
  <2> QED
    BY <2>1, Passing DEF TalkInv, InHand
<1>2. CASE Live!Look
  <2>1. /\ UNCHANGED <<status, active, stop, scope, sends, message, askedIn>>
        /\ todo # <<>> /\ found = Nobody
        /\ found' = Nobody \/ (UNCHANGED todo /\ found' = status[Of[Head(todo).id]])
    BY <1>2 DEF Live!Look, Live!Advance, Live!Its, Live!Row
  <2>2. CASE found' = Nobody
    BY <2>1, <2>2, Passing
  <2>3. CASE UNCHANGED todo /\ found' = status[Of[Head(todo).id]]
    <3>1. LogTypeOK' /\ Counted'
      BY <2>1 DEF TalkInv, LogTypeOK, Counted, Live!FollowUpSentOnce
    <3>2. ASSUME NEW m \in Messages, AtHead(m)'
          PROVE  Of[m] \in Conversations /\ found' = status'[Of[m]] /\ found' # "claimed"
      <4>1. Head(todo).id = m /\ Of[m] \in Conversations
        BY <2>3, <3>2, ServicesAssumption DEF AtHead
      <4>2. status[Of[m]] \in Live!Statuses
        BY <4>1 DEF TalkInv, LogTypeOK
      <4> QED
        BY <2>1, <2>3, <4>1, <4>2 DEF Live!Statuses
    <3>3. todo' # <<>> /\ \A c \in Conversations : c \in active' => status'[c] = "working"
      BY <2>1, <2>3 DEF TalkInv, InHand
    <3> QED
      BY <3>1, <3>2, <3>3 DEF TalkInv, InHand
  <2> QED
    BY <2>1, <2>2, <2>3
<1>3. CASE Live!Settle
  <2>1. Keeps
    BY <1>3 DEF Live!Settle, Live!Advance, Keeps
  <2>2. \/ Live!Move(Live!Row, "running", "completed")
        \/ Live!Move(Live!Row, "running", "needs_attention")
        \/ UNCHANGED message
    BY <1>3 DEF Live!Settle
  <2>3. CASE UNCHANGED message
    BY <2>1, <2>3, Passing DEF Keeps
  <2> QED
    BY <2>1, <2>2, <2>3, MovesOn DEF MessageStates, Live!Settled, Unsent
<1>4. CASE Live!Skip
  BY <1>4, Passing DEF Live!Skip, Live!Advance
<1>5. CASE Live!Outdated
  <2>1. Keeps /\ Live!Move(Live!Row, "queued", "needs_attention")
    BY <1>5 DEF Live!Outdated, Live!Advance, Keeps
  <2> QED
    BY <2>1, MovesOn DEF MessageStates, Live!Settled, Unsent
<1>6. CASE Live!Claim
  <2>1. /\ UNCHANGED <<status, active, stop, scope, sends, askedIn>>
        /\ todo # <<>> /\ found \notin {Nobody, "claimed"}
        /\ Live!Got = "completed" /\ askedIn[Live!Row] = scope[Of[Live!Row]]
        /\ Live!Move(Live!Row, "queued", "dispatching")
        /\ IF message[Live!Row] = "queued" THEN found' = "claimed" /\ UNCHANGED todo
           ELSE found' = Nobody
    BY <1>6 DEF Live!Claim, Live!Waiting, Live!Ready, Live!Advance, Live!Its
  <2>2. found = "completed"
    BY <2>1 DEF Live!Got
  <2>3. CASE message[Live!Row] # "queued"
    <3>1. message' = message /\ found' = Nobody
      BY <2>1, <2>3 DEF Live!Move
    <3> QED
      BY <2>1, <3>1, Passing
  <2>4. CASE message[Live!Row] = "queued"
    <3>1. message' = [message EXCEPT ![Live!Row] = "dispatching"]
          /\ found' = "claimed" /\ UNCHANGED todo
      BY <2>1, <2>4 DEF Live!Move
    <3>2. LogTypeOK'
      BY <2>1, <3>1 DEF TalkInv, LogTypeOK, Live!Outstanding
    <3>3. \A m \in Messages : message'[m] = IF m = Live!Row THEN "dispatching" ELSE message[m]
      BY <3>1 DEF TalkInv, LogTypeOK
    <3>4. Counted'
      BY <2>1, <3>3 DEF TalkInv, Counted, Live!FollowUpSentOnce
    <3>5. ASSUME NEW m \in Messages, AtHead(m)'
          PROVE  /\ status'[Of[m]] \in {"completed", "deleted"}
                 /\ message'[m] = "dispatching" /\ sends'[m] = 0
                 /\ askedIn'[m] = scope'[Of[m]]
      <4>1. AtHead(m) /\ m = Live!Row
        BY <3>1, <3>5 DEF AtHead, Live!Row
      <4>2. status[Of[m]] \in {"completed", "deleted"}
        BY <2>2, <4>1 DEF TalkInv, InHand
      <4>3. sends[m] = 0
        BY <2>4, <4>1 DEF TalkInv, Counted, Live!FollowUpSentOnce
      <4> QED
        BY <2>1, <3>3, <4>1, <4>2, <4>3
    <3>6. todo' # <<>> /\ \A c \in Conversations : c \in active' => status'[c] = "working"
      BY <2>1, <3>1 DEF TalkInv, InHand
    <3> QED
      BY <3>2, <3>4, <3>5, <3>6 DEF TalkInv, InHand
  <2> QED
    BY <2>3, <2>4
<1>7. CASE Live!Dispatch
  <2>1. /\ todo # <<>> /\ found = "claimed" /\ found' = "started"
        /\ UNCHANGED <<scope, message, askedIn, todo, stop>>
        /\ sends' = [sends EXCEPT ![Live!Row] = @ + 1]
        /\ status[Of[Live!Row]] # "deleted"
        /\ status' = [status EXCEPT ![Of[Live!Row]] = "working"]
        /\ active' = active \cup {Of[Live!Row]}
    BY <1>7 DEF Live!Dispatch, Live!FollowUp, Live!Launch, Live!Its
  <2>2. \A c \in Conversations :
          status'[c] = IF c = Of[Live!Row] THEN "working" ELSE status[c]
    BY <2>1 DEF TalkInv, LogTypeOK
  <2>3. \A m \in Messages : sends'[m] = IF m = Live!Row THEN sends[m] + 1 ELSE sends[m]
    BY <2>1 DEF TalkInv, LogTypeOK
  <2>4. LogTypeOK'
    <3>1. status' \in [Conversations -> Live!Statuses]
      <4>1. \A c \in Conversations : status'[c] \in Live!Statuses
        BY <2>2 DEF TalkInv, LogTypeOK, Live!Statuses
      <4>2. status' = [c \in Conversations |-> status'[c]]
        BY <2>1 DEF TalkInv, LogTypeOK
      <4> QED
        BY <4>1, <4>2
    <3>2. sends' \in [Messages -> Nat]
      <4>1. \A m \in Messages : sends'[m] \in Nat
        BY <2>3 DEF TalkInv, LogTypeOK
      <4>2. sends' = [m \in Messages |-> sends'[m]]
        BY <2>1 DEF TalkInv, LogTypeOK
      <4> QED
        BY <4>1, <4>2
    <3> QED
      BY <2>1, <3>1, <3>2 DEF TalkInv, LogTypeOK
  <2>5. ASSUME NEW m \in Messages, m = Live!Row
        PROVE  message[m] = "dispatching" /\ sends[m] = 0
    BY <2>1, <2>5 DEF TalkInv, InHand, AtHead, Live!Row
  <2>6. ASSUME NEW m \in Messages
        PROVE  /\ sends'[m] <= 1
               /\ message'[m] \in Unsent => sends'[m] = 0
               /\ message'[m] = "none" => sends'[m] = 0 \/ status'[Of[m]] = "deleted"
    <3>1. CASE m = Live!Row
      BY <2>1, <2>3, <2>5, <3>1 DEF Unsent
    <3>2. CASE m # Live!Row
      <4>1. /\ sends[m] \in Nat /\ sends[m] <= 1 /\ Of[m] \in Conversations
            /\ message[m] \in Unsent => sends[m] = 0
            /\ message[m] = "none" => sends[m] = 0 \/ status[Of[m]] = "deleted"
        BY ServicesAssumption DEF TalkInv, LogTypeOK, Counted, Live!FollowUpSentOnce, Unsent
      <4>2. status[Of[m]] = "deleted" => status'[Of[m]] = "deleted"
        BY <2>1, <2>2, <4>1
      <4> QED
        BY <2>1, <2>3, <3>2, <4>1, <4>2
    <3> QED
      BY <3>1, <3>2
  <2>7. Counted'
    BY <2>6 DEF Counted, Live!FollowUpSentOnce, Unsent
  <2>8. \A c \in Conversations : c \in active' => status'[c] = "working"
    BY <2>1, <2>2 DEF TalkInv, InHand
  <2>9. InHand'
    BY <2>1, <2>8 DEF InHand
  <2> QED
    BY <2>4, <2>7, <2>9 DEF TalkInv
<1>8. CASE Live!Started
  <2>1. Keeps /\ Live!Move(Live!Row, "dispatching", "running")
    BY <1>8 DEF Live!Started, Live!Advance, Keeps
  <2> QED
    BY <2>1, MovesOn DEF MessageStates, Live!Outstanding, Unsent
<1>9. CASE Live!Refused
  <2>1. Keeps /\ Live!Move(Live!Row, "dispatching", "needs_attention")
    BY <1>9 DEF Live!Refused, Live!Advance, Keeps
  <2> QED
    BY <2>1, MovesOn DEF MessageStates, Live!Settled, Unsent
<1>10. CASE Live!Abort
  BY <1>10, Passing DEF Live!Abort
<1> QED
  BY <1>1, <1>2, <1>3, <1>4, <1>5, <1>6, <1>7, <1>8, <1>9, <1>10

(* What users and the worker of a conversation do.                          *)
LEMMA UsersKeep ==
  ASSUME TalkInv, NEW c \in Conversations,
         \/ \E outcome \in {"completed", "paused", "unsaved"} : Live!GoalEnds(c, outcome)
         \/ \E x \in Scopes : Live!UserSends(c, x)
         \/ Live!UserResumes(c) \/ Live!UserStops(c) \/ Live!UserDeletes(c)
  PROVE  TalkInv'
<1> USE DEF Live!chats, Live!talk, Live!pass, Live!traced
<1>1. CASE \E outcome \in {"completed", "paused", "unsaved"} : Live!GoalEnds(c, outcome)
  <2>1. PICK s \in {"completed", "paused", "working"} :
          /\ c \in active /\ status[c] = "working" /\ status' = [status EXCEPT ![c] = s]
          /\ active' = active \ {c}
          /\ UNCHANGED <<message, askedIn, scope, todo, found, sends>>
    BY <1>1 DEF Live!GoalEnds, Live!End, TalkInv, LogTypeOK, InHand
  <2>2. \A d \in Conversations : status'[d] = IF d = c THEN s ELSE status[d]
    BY <2>1 DEF TalkInv, LogTypeOK
  <2>3. LogTypeOK'
    BY <2>1 DEF TalkInv, LogTypeOK, Live!Statuses
  <2>4. \A m \in Messages : Of[m] \in Conversations
    BY ServicesAssumption
  <2>5. \A m \in Messages : (status[Of[m]] = "deleted") => (status'[Of[m]] = "deleted")
    BY <2>1, <2>2, <2>4
  <2>6. Counted'
    BY <2>1, <2>5 DEF TalkInv, Counted, Live!FollowUpSentOnce
  <2>7. ASSUME NEW m \in Messages, AtHead(m)', found' \in {"completed", "claimed"}
        PROVE  Of[m] # c
    BY <2>1, <2>7 DEF TalkInv, InHand, AtHead
  <2>8. ASSUME NEW m \in Messages, AtHead(m)', found' \in {"completed", "claimed"}
        PROVE  status'[Of[m]] = status[Of[m]] /\ AtHead(m)
    BY <2>1, <2>2, <2>4, <2>7, <2>8 DEF AtHead
  <2>9. InHand'
    BY <2>1, <2>2, <2>8 DEF TalkInv, InHand
  <2> QED
    BY <2>3, <2>6, <2>9 DEF TalkInv
<1>2. CASE \/ \E x \in Scopes : Live!UserSends(c, x)
           \/ Live!UserResumes(c)
  <2>1. /\ todo = <<>> /\ found = Nobody /\ status[c] # "deleted"
        /\ status' = [status EXCEPT ![c] = "working"] /\ active' = active \cup {c}
        /\ UNCHANGED <<message, askedIn, todo, found, sends>>
        /\ DOMAIN scope' = Conversations
    BY <1>2 DEF Live!UserSends, Live!UserResumes, Live!FollowUp, Live!Resume, Live!Launch,
                TalkInv, LogTypeOK, InHand
  <2>2. \A d \in Conversations : status'[d] = IF d = c THEN "working" ELSE status[d]
    BY <2>1 DEF TalkInv, LogTypeOK
  <2>3. LogTypeOK'
    BY <2>1 DEF TalkInv, LogTypeOK, Live!Statuses
  <2>4. \A m \in Messages : (status[Of[m]] = "deleted") => (status'[Of[m]] = "deleted")
    BY <2>1, <2>2, ServicesAssumption
  <2>5. Counted'
    BY <2>1, <2>4 DEF TalkInv, Counted, Live!FollowUpSentOnce
  <2>6. InHand'
    BY <2>1, <2>2 DEF TalkInv, InHand, AtHead
  <2> QED
    BY <2>3, <2>5, <2>6 DEF TalkInv
<1>3. CASE Live!UserStops(c)
  <2>1. UNCHANGED <<status, active, message, askedIn, scope, todo, found, sends>>
    BY <1>3 DEF Live!UserStops, Live!Stop
  <2> QED
    BY <2>1 DEF TalkInv, LogTypeOK, Counted, Live!FollowUpSentOnce, InHand, AtHead
<1>4. CASE Live!UserDeletes(c)
  <2>1. /\ c \notin active /\ status' = [status EXCEPT ![c] = "deleted"]
        /\ UNCHANGED <<active, askedIn, scope, todo, found, sends>>
        /\ \/ message' = message
           \/ message' = [m \in Messages |-> IF Of[m] = c THEN "none" ELSE message[m]]
    BY <1>4 DEF Live!UserDeletes, Live!Delete
  <2>2. \A d \in Conversations : status'[d] = IF d = c THEN "deleted" ELSE status[d]
    BY <2>1 DEF TalkInv, LogTypeOK
  <2>3. LogTypeOK'
    BY <2>1 DEF TalkInv, LogTypeOK, Live!Statuses
  <2>4. ASSUME NEW m \in Messages
        PROVE  /\ Of[m] \in Conversations
               /\ message'[m] = message[m] \/ (Of[m] = c /\ message'[m] = "none")
               /\ status'[Of[m]] = IF Of[m] = c THEN "deleted" ELSE status[Of[m]]
    BY <2>1, <2>2, ServicesAssumption
  <2>5. Counted'
    BY <2>1, <2>4 DEF TalkInv, Counted, Live!FollowUpSentOnce
  <2>6. ASSUME NEW m \in Messages, AtHead(m)'
        PROVE  /\ found' \in {"completed", "claimed"} => status'[Of[m]] \in {"completed", "deleted"}
               /\ found' = "claimed" /\ status'[Of[m]] # "deleted" =>
                    /\ message'[m] = "dispatching" /\ sends'[m] = 0
                    /\ askedIn'[m] = scope'[Of[m]]
    <3>1. AtHead(m)
      BY <2>1, <2>6 DEF AtHead
    <3> QED
      BY <2>1, <2>4, <3>1 DEF TalkInv, InHand
  <2>7. InHand'
    BY <2>1, <2>2, <2>6 DEF TalkInv, InHand
  <2> QED
    BY <2>3, <2>5, <2>7 DEF TalkInv
<1> QED
  BY <1>1, <1>2, <1>3, <1>4

LEMMA TalkInvNext == TalkInv /\ [Live!TalkNext]_(Live!talkVars) => TalkInv'
<1> SUFFICES ASSUME TalkInv, [Live!TalkNext]_(Live!talkVars) PROVE TalkInv'
  OBVIOUS
<1> USE DEF Live!chats, Live!talk, Live!pass, Live!traced
<1>1. ASSUME NEW m \in Messages, NEW to \in {"answered", "queued", "responding"},
             Live!Submit(m, to)
      PROVE  TalkInv'
  <2>1. /\ message[m] = "none" /\ status[Of[m]] # "deleted"
        /\ message' = [message EXCEPT ![m] = to]
        /\ askedIn' = [askedIn EXCEPT ![m] = scope[Of[m]]]
        /\ UNCHANGED <<status, active, stop, scope, sends, todo, found>>
    BY <1>1 DEF Live!Submit
  <2>2. sends[m] = 0
    BY <2>1 DEF TalkInv, Counted
  <2>3. DOMAIN askedIn' = Messages /\ \A n \in Messages : n # m => askedIn'[n] = askedIn[n]
    BY <2>1 DEF TalkInv, LogTypeOK
  <2>4. to \in MessageStates \ {"none"}
    BY DEF MessageStates, Live!Outstanding, Live!Settled
  <2> QED
    BY <2>1, <2>2, <2>3, <2>4, Moving
<1>2. ASSUME NEW m \in Messages, NEW to \in {"answered", "queued", "failed", "responding"},
             Live!Answer(m, to)
      PROVE  TalkInv'
  <2>1. /\ UNCHANGED <<status, active, stop, scope, sends, todo, found, askedIn>>
        /\ Live!Move(m, "responding", to)
    BY <1>2 DEF Live!Answer
  <2>2. CASE message[m] = "responding"
    <3>1. message' = [message EXCEPT ![m] = to] /\ sends[m] = 0
      BY <2>1, <2>2 DEF Live!Move, TalkInv, Counted, Live!FollowUpSentOnce
    <3>2. to \in MessageStates \ {"none"}
      BY DEF MessageStates, Live!Outstanding, Live!Settled
    <3>3. DOMAIN askedIn' = Messages /\ askedIn' = askedIn
      BY <2>1 DEF TalkInv, LogTypeOK
    <3> QED
      BY <2>1, <2>2, <3>1, <3>2, <3>3, Moving
  <2>3. CASE message[m] # "responding"
    BY <2>1, <2>3, Passing DEF Live!Move
  <2> QED
    BY <2>2, <2>3
<1>3. ASSUME NEW m \in Messages, Live!Cancel(m) PROVE TalkInv'
  <2>1. /\ UNCHANGED <<status, active, stop, scope, sends, todo, found, askedIn>>
        /\ message[m] \in {"queued", "responding"}
        /\ message' = [message EXCEPT ![m] = "cancelled"]
    BY <1>3 DEF Live!Cancel
  <2>2. sends[m] = 0
    BY <2>1 DEF TalkInv, Counted, Live!FollowUpSentOnce
  <2>3. "cancelled" \in MessageStates \ {"none"}
    BY DEF MessageStates, Live!Settled
  <2>4. DOMAIN askedIn' = Messages /\ askedIn' = askedIn
    BY <2>1 DEF TalkInv, LogTypeOK
  <2> QED
    BY <2>1, <2>2, <2>3, <2>4, Moving
<1>4. CASE Live!Restart
  <2>1. /\ UNCHANGED <<status, scope, sends, askedIn>> /\ found' = Nobody
        /\ \A c \in Conversations : c \in active' => status[c] = "working"
        /\ message' = [m \in Messages |->
             IF message[m] \in {"responding", "dispatching"} THEN "interrupted" ELSE message[m]]
    BY <1>4 DEF Live!Restart, Live!Recover
  <2>2. LogTypeOK'
    BY <2>1 DEF TalkInv, LogTypeOK, Live!Settled
  <2>3. Counted'
    BY <2>1 DEF TalkInv, Counted, Live!FollowUpSentOnce
  <2>4. InHand'
    BY <2>1, ServicesAssumption DEF InHand
  <2> QED
    BY <2>2, <2>3, <2>4 DEF TalkInv
<1>5. CASE UNCHANGED Live!talkVars
  BY <1>5, Passing DEF Live!talkVars
<1> QED
  BY <1>1, <1>2, <1>3, <1>4, <1>5, TickKeeps, UsersKeep DEF Live!TalkNext

(* A follow-up is sent at most once, never when the log shows it as unsent,  *)
(* and only in the workspace and with the access it was asked for, after a   *)
(* completed goal, whoever cancels, stops or deletes meanwhile and wherever  *)
(* the process dies.                                                         *)
THEOREM FollowUpsAreSentInTurn == Live!TalkSpec => FollowUpsInTurn
<1>1. TalkInv => (service = "live" => Live!FollowUpSentOnce)
  BY DEF TalkInv, Counted
<1>2. TalkInv /\ [Live!TalkNext]_(Live!talkVars) =>
        [\A m \in Messages : sends'[m] > sends[m] =>
           askedIn[m] = scope[Of[m]] /\ status[Of[m]] = "completed" /\ Of[m] \notin active
        ]_(Live!talkVars)
  <2> SUFFICES ASSUME TalkInv, Live!TalkNext, NEW m \in Messages, sends'[m] > sends[m]
               PROVE  /\ askedIn[m] = scope[Of[m]] /\ status[Of[m]] = "completed"
                      /\ Of[m] \notin active
    OBVIOUS
  <2> USE DEF Live!traced
  <2>1. sends[m] \in Nat /\ sends'[m] # sends[m]
    BY DEF TalkInv, LogTypeOK
  <2>2. CASE \/ Live!Begin \/ Live!Look \/ Live!Settle \/ Live!Skip \/ Live!Outdated \/ Live!Claim
             \/ Live!Started \/ Live!Refused \/ Live!Abort \/ Live!Restart
    BY <2>1, <2>2
    DEF Live!Begin, Live!Look, Live!Settle, Live!Skip, Live!Outdated, Live!Claim, Live!Started,
        Live!Refused, Live!Abort, Live!Restart
  <2>3. CASE \E n \in Messages :
               \/ \E to \in {"answered", "queued", "responding"} : Live!Submit(n, to)
               \/ \E to \in {"answered", "queued", "failed", "responding"} : Live!Answer(n, to)
               \/ Live!Cancel(n)
    BY <2>1, <2>3 DEF Live!Submit, Live!Answer, Live!Cancel
  <2>4. CASE \E c \in Conversations :
               \/ \E outcome \in {"completed", "paused", "unsaved"} : Live!GoalEnds(c, outcome)
               \/ \E x \in Scopes : Live!UserSends(c, x)
               \/ Live!UserResumes(c) \/ Live!UserStops(c) \/ Live!UserDeletes(c)
    BY <2>1, <2>4
    DEF Live!GoalEnds, Live!UserSends, Live!UserResumes, Live!UserStops, Live!UserDeletes
  <2>5. CASE Live!Dispatch
    <3>1. /\ todo # <<>> /\ found = "claimed" /\ sends' = [sends EXCEPT ![Live!Row] = @ + 1]
          /\ status[Of[Live!Row]] # "deleted" /\ Of[Live!Row] \notin active
      BY <2>5 DEF Live!Dispatch, Live!FollowUp, Live!Launch, Live!Its
    <3>2. m = Live!Row
      BY <2>1, <3>1 DEF TalkInv, LogTypeOK
    <3> QED
      BY <3>1, <3>2 DEF TalkInv, InHand, AtHead, Live!Row
  <2> QED
    BY <2>2, <2>3, <2>4, <2>5 DEF Live!TalkNext
<1> QED
  BY <1>1, <1>2, TalkInvInit, TalkInvNext, PTL
  DEF Live!TalkSpec, FollowUpsInTurn, Live!StartsAsAsked
=============================================================================
