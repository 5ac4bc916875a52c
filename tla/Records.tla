------------------------------ MODULE Records -------------------------------
(* The durable records of runs, each with its writers and its crashes: the   *)
(* outbound journal, the token meter, the authority of child runs, the plan, *)
(* the pool of delegated calls, the memories and the beliefs.  They are      *)
(* databases of their own, so a behaviour is one of one record; the others   *)
(* stay as they began.                                                       *)
EXTENDS ActionJournal, UsageMeter, Permissions, Plan, DelegationBudget, MemoryStore, Beliefs, TLC

VARIABLE record

JournalVars == vars

Delivers == record = "journal" /\ Next
Meters == record = "meter" /\ MeterNext
Authorizes == record = "authority" /\ PermNext
Plans == record = "plan" /\ (CreateRun \/ Transition)
Delegates == record = "pool" /\ PoolNext
Remembers == record = "memory" /\ MemNext
Believes == record = "beliefs" /\ BeliefNext

Others ==
    /\ UNCHANGED record
    /\ record # "journal" => UNCHANGED JournalVars
    /\ record # "meter" => UNCHANGED meterVars
    /\ record # "authority" => UNCHANGED policies
    /\ record # "plan" => UNCHANGED plan
    /\ record # "pool" => UNCHANGED poolVars
    /\ record # "memory" => UNCHANGED memVars
    /\ record # "beliefs" => UNCHANGED beliefVars

RecordsInit ==
    /\ record \in {"journal", "meter", "authority", "plan", "pool", "memory", "beliefs"}
    /\ Init /\ MeterInit /\ PermInit /\ PlanInit /\ PoolInit
    /\ MemInit /\ BeliefInit
    \* one of the initial states of the records that stay in it
    /\ record # "meter" => limit = 3
    /\ record # "pool" => child = [c \in DOMAIN child |-> "none"]
RecordsNext ==
    /\ \/ Delivers \/ Meters \/ Authorizes \/ Plans \/ Delegates \/ Remembers \/ Believes
    /\ Others
recordVars == <<record, JournalVars, meterVars, policies, plan, poolVars, memVars, beliefVars>>
RecordsSpec == RecordsInit /\ [][RecordsNext]_recordVars

-----------------------------------------------------------------------------
\* Merging loses no observation, though the process dies within it, and a belief in
\* use has more support than contradiction.
KnowledgeSound ==
    /\ record = "memory" => EveryObservationCounts
    /\ record = "beliefs" => MoreFor
=============================================================================
