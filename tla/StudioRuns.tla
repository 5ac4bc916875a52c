----------------------------- MODULE StudioRuns -----------------------------
(* The runs of a Studio and its retirement (apps/studio/src/main.rs): every  *)
(* request has a thread; those that start work hold the admission lock, as   *)
(* the ticks of the scheduler do.  A run has a worker, and stands in the     *)
(* table of active runs until that worker is done.  Before an update the     *)
(* supervisor (bin/klyne-supervisor.rs) tells Studio to admit no more work,  *)
(* asks until it is ready, and kills it.                                     *)
EXTENDS Naturals, FiniteSets

CONSTANTS
    Requests,  \* threads that serve a request
    Runs, Chats,
    Limit,     \* active runs, 4 in the code
    Nobody

VARIABLES
    table,     \* runs in the table
    worker,     \* of each run: how far its thread is
    saved,      \* of each run: what its checkpoint says
    talking,    \* conversations with a worker
    request,    \* of each thread: how far it is, and with which run
    admission,  \* who holds the admission lock
    quiescing,
    supervisor,
    how         \* ghost: whether a run was started or resumed

work == <<table, worker, saved, how>>
runsVars == <<work, talking, request, admission, quiescing, supervisor>>

Idle == [at |-> "idle", run |-> Nobody]

StudioInit ==
    /\ table = {} /\ talking = {}
    /\ worker = [r \in Runs |-> "none"]
    /\ saved = [r \in Runs |-> "absent"]
    /\ how = [r \in Runs |-> "started"]
    /\ request = [h \in Requests |-> Idle]
    /\ admission = Nobody /\ quiescing = FALSE /\ supervisor = "watching"

-----------------------------------------------------------------------------
(* A request that starts work is refused once Studio is to retire.         *)
Enter(h) ==
    /\ request[h] = Idle /\ admission = Nobody /\ ~quiescing
    /\ admission' = h /\ request' = [request EXCEPT ![h].at = "admitted"]
    /\ UNCHANGED <<work, talking, quiescing, supervisor>>

(* The table is counted, and left again before the run has a directory.    *)
Count(h) ==
    /\ request[h].at = "admitted"
    /\ IF Cardinality(table) >= Limit
       THEN request' = [request EXCEPT ![h] = Idle] /\ admission' = Nobody
       ELSE request' = [request EXCEPT ![h].at = "counted"] /\ UNCHANGED admission
    /\ UNCHANGED <<work, talking, quiescing, supervisor>>
MakeDirectory(h, r) ==
    /\ request[h].at = "counted" /\ saved[r] = "absent"
    /\ saved' = [saved EXCEPT ![r] = "made"]
    /\ request' = [request EXCEPT ![h] = [at |-> "made", run |-> r]]
    /\ UNCHANGED <<table, worker, how, talking, admission, quiescing, supervisor>>

(* launch, under the lock of the table: the store is opened, which takes   *)
(* its lease, before the run is entered.                                   *)
Held(r) == worker[r] \in {"driving", "over", "told"}
Launched(h, r, kind) ==
    /\ request' = [request EXCEPT ![h] = Idle]
    /\ IF r \in table \/ Held(r) THEN UNCHANGED work
       ELSE /\ table' = table \cup {r}
            /\ worker' = [worker EXCEPT ![r] = "driving"]
            /\ how' = [how EXCEPT ![r] = kind]
            /\ saved' = [saved EXCEPT ![r] = IF @ = "made" THEN "open" ELSE @]
Launch(h) ==
    /\ request[h].at = "made" /\ Launched(h, request[h].run, "started")
    /\ admission' = Nobody
    /\ UNCHANGED <<talking, quiescing, supervisor>>
LaunchFails(h) ==
    /\ request[h].at \in {"counted", "made", "resuming"}
    /\ request' = [request EXCEPT ![h] = Idle]
    /\ admission' = IF admission = h THEN Nobody ELSE admission
    /\ UNCHANGED <<work, talking, quiescing, supervisor>>

(* A resume holds no admission and looks at no limit; it goes by what a    *)
(* snapshot said before.                                                   *)
ReadToResume(h, r) ==
    /\ request[h] = Idle /\ saved[r] = "open"
    /\ request' = [request EXCEPT ![h] = [at |-> "resuming", run |-> r]]
    /\ UNCHANGED <<work, talking, admission, quiescing, supervisor>>
Resume(h) ==
    /\ request[h].at = "resuming" /\ Launched(h, request[h].run, "resumed")
    /\ UNCHANGED <<talking, admission, quiescing, supervisor>>

-----------------------------------------------------------------------------
(* A worker's thread.  A run with an outcome or an action of unknown       *)
(* effect is not driven on; a worker that panics leaves such an action.    *)
(* One that the user stops ends like one that fails, open.                 *)
RunEnds(r, outcome) ==
    /\ worker[r] = "driving" /\ worker' = [worker EXCEPT ![r] = "over"]
    /\ saved' = [saved EXCEPT ![r] = IF @ = "open" THEN outcome ELSE @]
    /\ UNCHANGED <<table, how, talking, request, admission, quiescing, supervisor>>
After(r, from, to) ==
    /\ worker[r] = from /\ worker' = [worker EXCEPT ![r] = to]
    /\ UNCHANGED <<table, saved, how, talking, request, admission, quiescing, supervisor>>
WriteError(r) == After(r, "over", "told")
DropRuntime(r) == After(r, "told", "closed")
Leave(r) ==
    /\ worker[r] = "closed" /\ r \in table
    /\ table' = table \ {r}
    /\ UNCHANGED <<worker, saved, how, talking, request, admission, quiescing, supervisor>>

(* Conversations start under the admission lock, from a request or a tick, *)
(* and end by themselves.                                                  *)
Talk(c) ==
    /\ admission = Nobody /\ ~quiescing /\ c \notin talking
    /\ talking' = talking \cup {c}
    /\ UNCHANGED <<work, request, admission, quiescing, supervisor>>
Silent(c) ==
    /\ c \in talking /\ talking' = talking \ {c}
    /\ UNCHANGED <<work, request, admission, quiescing, supervisor>>

-----------------------------------------------------------------------------
(* The supervisor.  Readiness is read in two parts, the conversations      *)
(* first, and each part under a lock of its own.                           *)
Moves(from, to) ==
    /\ supervisor = from /\ supervisor' = to
    /\ UNCHANGED <<work, talking, request, admission>>
SeeReady ==
    /\ UNCHANGED quiescing
    /\ \/ talking = {} /\ Moves("watching", "no chats")
       \/ table # {} /\ Moves("no chats", "watching")
       \/ table = {} /\ Moves("no chats", "asking")
Quiesce_Unlocked ==
    Moves("asking", "draining") /\ quiescing' = TRUE
Quiesce ==
    /\ admission = Nobody
    /\ Moves("asking", "draining") /\ quiescing' = TRUE
Drain ==
    /\ UNCHANGED quiescing
    /\ \/ talking = {} /\ Moves("draining", "drained chats")
       \/ table # {} /\ Moves("drained chats", "draining")
       \/ table = {} /\ Moves("drained chats", "switching")

(* Studio is killed and started anew; its workers are gone.                *)
Replace ==
    /\ supervisor = "switching" /\ supervisor' = "watching"
    /\ table' = {} /\ talking' = {}
    /\ worker' = [r \in Runs |-> "none"]
    /\ request' = [h \in Requests |-> Idle]
    /\ admission' = Nobody /\ quiescing' = FALSE
    /\ \E lost \in SUBSET {r \in Runs : worker[r] = "driving" /\ saved[r] = "open"} :
         saved' = [r \in Runs |-> IF r \in lost THEN "uncertain" ELSE saved[r]]
    /\ UNCHANGED how

StudioNext ==
    \/ \E h \in Requests :
         \/ Enter(h) \/ Count(h) \/ Launch(h) \/ LaunchFails(h) \/ Resume(h)
         \/ \E r \in Runs : MakeDirectory(h, r) \/ ReadToResume(h, r)
    \/ \E r \in Runs :
         \/ WriteError(r) \/ DropRuntime(r) \/ Leave(r)
         \/ \E outcome \in {"open", "done", "uncertain"} : RunEnds(r, outcome)
    \/ \E c \in Chats : Talk(c) \/ Silent(c)
    \/ SeeReady \/ Quiesce \/ Drain \/ Replace

StudioSpec == StudioInit /\ [][StudioNext]_runsVars

-----------------------------------------------------------------------------
(* "The supervisor waits for active work to finish, quiesces new           *)
(* admissions" (docs/harness-upgrade-2026-09-11.md:70): what an update     *)
(* kills is at most a run that a user resumed by hand, which no admission  *)
(* holds back.                                                             *)
UpdatesWait ==
    supervisor = "switching" => talking = {} /\ \A r \in table : how[r] = "resumed"

(* However requests and endings mix, starting adds no run beyond the       *)
(* limit.                                                                  *)
RunsBounded == Cardinality({r \in table : how[r] = "started"}) <= Limit

(* A run that is no longer in the table has told its error and given back  *)
(* its store, so that a resume right after does not fail.                  *)
StoreIsFree == \A r \in Runs \ table : ~Held(r)

StudioSound == UpdatesWait /\ RunsBounded /\ StoreIsFree

(* Without the exception that UpdatesWait makes; a resume between the last *)
(* look and the kill refutes it.                                           *)
UpdatesInterruptNothing == supervisor = "switching" => table = {}
=============================================================================
