---------------------------- MODULE RecoveryWatch ----------------------------
(* The guardian of scripts/klyne_recovery.py: a thread that watches the      *)
(* runtime and starts it again, one that repairs the incidents it left, and  *)
(* the page on which the user stops the repairs.  Activation has what a      *)
(* repair does to the runtime; here it is only under way or over.            *)
EXTENDS Naturals

CONSTANTS
    MaxProbes,     \* failed probes until a runtime counts as hung, 5
    MaxStarts,     \* starts within the window of restart_times, 3
    MaxIncidents,  \* bound: incidents the runtime leaves
    MaxGuardians   \* bound: times the guardian is started

VARIABLES
    runtime,       \* the child: none, starting, up, hung, dead
    watch,         \* the monitor: whether it runs, its last probe, probes failed in a row,
                   \* and whether the last start is 20 seconds old
    starts,        \* starts within the last 15 minutes, kept on disk
    state,         \* the phase the page shows
    cancelled,     \* the user stopped the repairs, kept on disk
    repair,        \* the repair thread: none, working, checked, activated
    incidents,     \* incidents without a report
    guardians      \* guardians started so far

watchVars == <<runtime, watch, starts, state, cancelled, repair, incidents, guardians>>

Answers == runtime = "up"
NewWatch == [runs |-> TRUE, probe |-> "none", failed |-> 0, settled |-> FALSE]

----------------------------------------------------------------------------
\* start_runtime(): the third start within the window is the last.
StartRuntime(phase) ==
    IF starts < MaxStarts
    THEN runtime' = "starting" /\ starts' = starts + 1 /\ state' = phase
    ELSE runtime' = "none" /\ UNCHANGED starts /\ state' = "Needs attention"

\* The monitor's round: a probe, then what it makes of it and of the child.
Probe ==
    /\ watch.runs /\ watch.probe = "none"
    /\ watch' = [watch EXCEPT !.probe = IF Answers THEN "ok" ELSE "failed",
                              !.failed = IF Answers THEN 0
                                         ELSE IF @ < MaxProbes THEN @ + 1 ELSE @]
    /\ UNCHANGED <<runtime, starts, state, cancelled, repair, incidents, guardians>>
Lost_Exited == runtime = "dead"
Lost == runtime # "none" /\ (runtime = "dead" \/ (watch.failed >= MaxProbes /\ watch.settled))
Responding == IF cancelled THEN "Stopped" ELSE "Watching"
Round ==
    /\ watch.runs /\ watch.probe # "none"
    /\ IF Lost
       THEN /\ StartRuntime(IF watch.probe = "ok" THEN Responding ELSE "Restarting")
            /\ watch' = [NewWatch EXCEPT !.settled = runtime' = "none"]
       ELSE /\ state' = IF watch.probe = "ok" /\ state \in {"Starting", "Restarting"}
                        THEN Responding ELSE state
            /\ watch' = [watch EXCEPT !.probe = "none"]
            /\ UNCHANGED <<runtime, starts>>
    /\ IF repair = "none" /\ ~cancelled /\ incidents > 0
       THEN repair' = "working" /\ incidents' = incidents - 1
       ELSE UNCHANGED <<repair, incidents>>
    /\ UNCHANGED <<cancelled, guardians>>
\* A child that cannot be ended, or a start that fails, is the monitor's end.
MonitorFails ==
    /\ watch.runs /\ watch.probe # "none" /\ Lost
    /\ watch' = [watch EXCEPT !.runs = FALSE]
    /\ state' = "Needs attention"
    /\ \/ UNCHANGED <<runtime, starts>>
       \/ starts < MaxStarts /\ starts' = starts + 1 /\ runtime' = "none"
    /\ UNCHANGED <<cancelled, repair, incidents, guardians>>
Settles ==
    /\ runtime \in {"starting", "up", "hung"} /\ ~watch.settled
    /\ watch' = [watch EXCEPT !.settled = TRUE]
    /\ UNCHANGED <<runtime, starts, state, cancelled, repair, incidents, guardians>>

----------------------------------------------------------------------------
\* process_incident(): looks at the stop between its steps, last before the activation.
RepairAdvances ==
    /\ repair = "working" /\ ~cancelled
    /\ repair' = "checked" /\ state' = "Repairing"
    /\ UNCHANGED <<runtime, watch, starts, cancelled, incidents, guardians>>
Activate ==
    /\ repair = "checked" /\ Answers
    /\ repair' = "activated" /\ state' = "Activating"
    /\ UNCHANGED <<runtime, watch, starts, cancelled, incidents, guardians>>
RepairEnds ==
    /\ repair # "none" /\ repair' = "none"
    /\ state' = IF repair = "activated" /\ Answers THEN "Resumed" ELSE "Needs attention"
    /\ UNCHANGED <<runtime, watch, starts, cancelled, incidents, guardians>>

\* The page's /stop.
StopRepairs ==
    /\ ~cancelled /\ cancelled' = TRUE
    /\ state' = "Stopped"
    /\ UNCHANGED <<runtime, watch, starts, repair, incidents, guardians>>

----------------------------------------------------------------------------
\* The supervised runtime, and time.
RuntimeChanges ==
    /\ \/ runtime = "starting" /\ runtime' \in {"up", "hung", "dead"}
       \/ runtime = "up" /\ runtime' \in {"hung", "dead"}
       \/ runtime = "hung" /\ runtime' \in {"up", "dead"}
    /\ UNCHANGED <<watch, starts, state, cancelled, repair, incidents, guardians>>
LeavesIncident ==
    /\ Answers /\ incidents < MaxIncidents
    /\ incidents' = incidents + 1
    /\ UNCHANGED <<runtime, watch, starts, state, cancelled, repair, guardians>>
WindowPasses ==
    /\ starts > 0 /\ starts' = 0
    /\ UNCHANGED <<runtime, watch, state, cancelled, repair, incidents, guardians>>
\* The guardian ends, its child with it, and is started again.
GuardianRestarts ==
    /\ guardians < MaxGuardians /\ guardians' = guardians + 1
    /\ watch' = NewWatch /\ repair' = "none"
    /\ StartRuntime("Starting")
    /\ UNCHANGED <<cancelled, incidents>>

WatchInit ==
    /\ runtime = "starting" /\ starts = 1 /\ guardians = 1
    /\ watch = NewWatch /\ state = "Starting"
    /\ cancelled \in BOOLEAN /\ repair = "none" /\ incidents = 0

WatchNext ==
    \/ Probe \/ Round \/ MonitorFails \/ Settles
    \/ RepairAdvances \/ Activate \/ RepairEnds \/ StopRepairs
    \/ RuntimeChanges \/ LeavesIncident \/ WindowPasses \/ GuardianRestarts

WatchSpec == WatchInit /\ [][WatchNext]_watchVars
\* The monitor's loop has a clock of its own; nothing promises that a runtime recovers.
FairWatch == WatchSpec /\ WF_watchVars(Probe) /\ WF_watchVars(Round) /\ WF_watchVars(Settles)

----------------------------------------------------------------------------
(* A runtime that exited or hangs does not stay unnoticed: it is started     *)
(* again, it answers by itself, or the page asks for attention, unless the   *)
(* monitor came to its end.  It does not matter when it went down, nor what  *)
(* the repairs and the user's stop write over the phase meanwhile.           *)
DownIsNoticed ==
    runtime \in {"dead", "hung"}
        ~> (Answers \/ runtime = "starting" \/ state = "Needs attention" \/ ~watch.runs)

(* "Automatic repairs stopped." (klyne_recovery.py:613): once the user       *)
(* stopped the repairs, none is activated.                                   *)
StopHolds == [][cancelled /\ repair # "activated" => repair' # "activated"]_watchVars
=============================================================================
