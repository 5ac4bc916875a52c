------------------------ MODULE AgentRuntime_proofs ------------------------
(* Theorems about AgentRuntime, for every set of actions and every bound.  *)
EXTENDS AgentRuntime, TLAPS

LEMMA NewRunType ==
  ASSUME NEW done \in BOOLEAN, NEW c \in Contents
  PROVE  NewRun(done, c) \in RunStates
  BY BoundsAssumption DEF NewRun, RunStates, Outcomes, Lifecycles

LEMMA BlankType == Blank \in RunStates
  BY NewRunType DEF Blank, Contents

LEMMA EvidenceType == Evidence \in Reads
  BY ActionsAssumption DEF Evidence

LEMMA AmendType ==
  ASSUME NEW s \in RunStates
  PROVE  /\ \A b \in BOOLEAN : [s EXCEPT !.planDone = b] \in RunStates
         /\ \A l \in Lifecycles : [s EXCEPT !.lifecycle = l] \in RunStates
         /\ \A c \in Contents : [s EXCEPT !.criterion = c] \in RunStates
         /\ \A t \in Nat, b \in BOOLEAN :
              [s EXCEPT !.trip = t, !.capped = b] \in RunStates
         /\ \A n \in Nat : [s EXCEPT !.limit = n] \in RunStates
         /\ \A l \in Lifecycles, o \in Outcomes :
              [s EXCEPT !.lifecycle = l, !.outcome = o] \in RunStates
         /\ \A l \in Lifecycles, o \in Outcomes :
              [s EXCEPT !.outcome = o, !.lifecycle = l] \in RunStates
  BY DEF RunStates

LEMMA CountType ==
  ASSUME NEW s \in RunStates
  PROVE  /\ [s EXCEPT !.steps = @ + 1] \in RunStates
         /\ [s EXCEPT !.used = @ + 1] \in RunStates
         /\ [s EXCEPT !.pending = None] \in RunStates
         /\ \A a \in Actions : [s EXCEPT !.pending = a] \in RunStates
<1>1. [s EXCEPT !.steps = @ + 1] \in RunStates
  BY DEF RunStates
<1>2. [s EXCEPT !.used = @ + 1] \in RunStates
  BY DEF RunStates
<1>3. [s EXCEPT !.pending = None] \in RunStates
  BY DEF RunStates
<1>4. \A a \in Actions : [s EXCEPT !.pending = a] \in RunStates
  BY DEF RunStates
<1> QED
  BY <1>1, <1>2, <1>3, <1>4

LEMMA StepType ==
  ASSUME NEW s \in RunStates, NEW e \in Entries
  PROVE  /\ [s EXCEPT !.history = Append(@, e)] \in RunStates
         /\ [s EXCEPT !.history = Append(@, e), !.pending = None] \in RunStates
<1>1. s.history \in Seq(Entries)
  BY DEF RunStates
<1>2. Append(s.history, e) \in Seq(Entries)
  BY <1>1
<1> QED
  BY <1>1, <1>2 DEF RunStates

LEMMA TypeAdminister == TypeOK /\ Administer => TypeOK'
<1> SUFFICES ASSUME TypeOK, Administer PROVE TypeOK'
  OBVIOUS
<1>1. ckpt \in RunStates
  BY DEF TypeOK
<1>2. ckpt' \in RunStates /\ peak' \in Nat
  <2>1. CASE RevisePlan
    BY <1>1, <2>1, AmendType DEF TypeOK, RevisePlan, Amend
  <2>2. CASE SetLifecycle
    BY <1>1, <2>2, AmendType DEF TypeOK, SetLifecycle, Amend
  <2>3. CASE SetSuccessCriterion
    BY <1>1, <2>3, AmendType DEF TypeOK, SetSuccessCriterion, Amend, Contents
  <2>4. CASE AmendResourceLimits
    <3>1. PICK t \in Trips, c \in BOOLEAN :
            Amend([ckpt EXCEPT !.trip = t, !.capped = c])
      BY <2>4 DEF AmendResourceLimits
    <3>2. ckpt' = [ckpt EXCEPT !.trip = t, !.capped = c] /\ UNCHANGED peak
      BY <2>4, <3>1 DEF Amend, AmendResourceLimits
    <3> QED
      BY <1>1, <3>2, AmendType, BoundsAssumption DEF TypeOK
  <2>5. CASE AmendToolBudget
    BY <1>1, <2>5, AmendType, BoundsAssumption DEF TypeOK, AmendToolBudget, Amend
  <2>6. CASE CompleteRun
    BY <1>1, <2>6, AmendType DEF TypeOK, CompleteRun, Amend, Outcomes, Lifecycles
  <2>7. CASE CancelRun
    BY <1>1, <2>7, AmendType DEF TypeOK, CancelRun, Amend, Outcomes, Lifecycles
  <2> QED
    BY <2>1, <2>2, <2>3, <2>4, <2>5, <2>6, <2>7 DEF Administer
<1>3. UNCHANGED <<created, file, process, invoked, calls, asked, reservedAs>>
  BY DEF Administer, Amend, RevisePlan, SetLifecycle, SetSuccessCriterion,
     AmendResourceLimits, AmendToolBudget, CompleteRun, CancelRun
<1> QED
  BY <1>2, <1>3 DEF TypeOK, process

LEMMA ObservationType ==
  /\ NoObs \in Observations
  /\ \A good \in BOOLEAN, c \in Contents, u \in BOOLEAN, t \in BOOLEAN :
       [ok |-> good, data |-> c, unsure |-> u, accepted |-> t] \in Observations
  BY DEF NoObs, Observations, Contents

LEMMA RecordedType ==
  ASSUME TypeOK, mem.pending # None
  PROVE  /\ Entry(mem.pending, obs) \in Entries
         /\ Recorded \in RunStates
         /\ [Recorded EXCEPT !.pending = None] \in RunStates
         /\ mem.pending \in Actions
<1>1. mem \in RunStates /\ obs \in Observations
  BY DEF TypeOK
<1>2. mem.pending \in Actions
  BY <1>1 DEF RunStates
<1>3. Entry(mem.pending, obs) \in Entries
  BY <1>1, <1>2 DEF Entry, Entries, Observations
<1>4. Recorded \in RunStates
  BY <1>1, <1>2, <1>3, StepType DEF Recorded
<1> QED
  BY <1>2, <1>3, <1>4, CountType

(* While a process drives, its copy of the run is the checkpoint, the run  *)
(* is live, and the program counter says whether an action is in flight.   *)
Control ==
  /\ ~created => ckpt = Blank
  /\ pc \in Driving => created /\ mem = ckpt /\ ckpt.outcome = None
  /\ pc \in {"loop", "decide", "decided", "finish"} => ckpt.pending = None
  /\ pc \in {"reserved", "observed"} => ckpt.pending # None
  /\ pc \in {"reread", "reobserved"} => ckpt.pending \in Writes \cup Reads
  /\ pc = "decided" => decision # None
  /\ pc = "finish" => result \in {"verified", "failed"}

LEMMA TypeNext == TypeOK /\ Control /\ [Next]_vars => TypeOK'
<1> SUFFICES ASSUME TypeOK, Control, [Next]_vars PROVE TypeOK'
  OBVIOUS
<1>0. ckpt \in RunStates /\ mem \in RunStates /\ None \in Contents
  BY DEF TypeOK, Contents
<1>1. CASE Start
  BY <1>1, ActionsAssumption DEF Start, TypeOK, ghosts
<1>2. CASE Interrupt
  BY <1>2, BlankType
  DEF Interrupt, Forget, NoObs, Observations, Contents, Outcomes, TypeOK, ghosts
<1>3. CASE EditFile
  BY <1>3 DEF EditFile, TypeOK, process, ghosts
<1>4. CASE Begin
  <2>1. PICK done \in BOOLEAN, c \in Contents :
          /\ ckpt' = NewRun(done, c)
          /\ \/ pc' = "idle" /\ UNCHANGED mem
             \/ pc' = "loop" /\ mem' = NewRun(done, c)
    BY <1>4 DEF Begin
  <2> QED
    BY <1>4, <2>1, NewRunType, BoundsAssumption DEF Begin, Driving, TypeOK
<1>5. CASE Administer
  BY <1>5, TypeAdminister
<1>6. CASE Resume
  BY <1>6 DEF Resume, EnterDrive, Settling, LoadLive, Outcomes, Driving, TypeOK, ghosts
<1>7. CASE Reconcile
  BY <1>0, <1>7, CountType DEF Reconcile, ReserveCall, Checkpoint, Driving, TypeOK, ghosts
<1>8. CASE ShutDown
  BY <1>8, BlankType DEF ShutDown, Return, Forget, NoObs, Observations, Contents, Outcomes, TypeOK, ghosts
<1>9. CASE GiveUp
  BY <1>9 DEF GiveUp, Settling, Outcomes, Driving, TypeOK, durable, ghosts
<1>10. CASE CognitiveStep
  BY <1>0, <1>10, CountType DEF CognitiveStep, Checkpoint, Driving, TypeOK, ghosts
<1>11. CASE Decide
  BY <1>11 DEF Decide, Settling, Outcomes, Driving, TypeOK, durable
<1>12. CASE Refuse
  BY <1>12 DEF Refuse, Settling, Outcomes, Driving, TypeOK, durable, ghosts
<1>13. CASE Reserve
  <2>1. Requested \in Actions
    BY <1>13, EvidenceType DEF Reserve, Admitted, Requested, TypeOK, Control, Actions
  <2>2. [mem EXCEPT !.pending = Requested] \in RunStates
    BY <1>0, <2>1, CountType
  <2>3. ckpt' \in RunStates /\ mem' = ckpt'
    BY <1>13, <2>2, CountType DEF Reserve, ReserveCall, Checkpoint
  <2>4. NextActionId(mem) \in Nat
    BY <1>0 DEF NextActionId, RunStates
  <2> QED
    BY <1>13, <2>3, <2>4 DEF Reserve, Driving, TypeOK
<1>14. CASE BudgetExhausted
  BY <1>14, BlankType
  DEF BudgetExhausted, Return, Forget, NoObs, Observations, Contents, Outcomes, TypeOK, durable, ghosts
<1>15. CASE Invoke
  <2>1. mem.pending \in Actions \cup {None} /\ NextActionId(mem) \in Nat
    BY <1>0 DEF NextActionId, RunStates
  <2>2. file' \in Contents /\ obs' \in Observations
    <3>1. CASE mem.pending \in Writes /\ InvokeWrite
      BY <1>0, ObservationType, <3>1 DEF InvokeWrite, Contents, TypeOK
    <3>2. CASE ReadFile /\ UNCHANGED file
      BY <1>0, ObservationType, <3>2 DEF ReadFile, TypeOK
    <3>3. CASE InvokeShell
      BY <1>0, ObservationType, <3>3 DEF InvokeShell, TypeOK
    <3>4. CASE InvokeOpaque
      BY <1>0, ObservationType, <3>4 DEF InvokeOpaque, TypeOK
    <3> QED
      BY <1>15, <3>1, <3>2, <3>3, <3>4 DEF Invoke
  <2> QED
    BY <1>15, <2>1, <2>2 DEF Invoke, Driving, TypeOK, durable
<1>16. CASE Uncertain
  <2>1. Recorded \in RunStates
    BY <1>16, RecordedType, ActionsAssumption DEF Uncertain, Control, Driving
  <2> QED
    BY <1>16, <2>1, BlankType
    DEF Uncertain, Return, Forget, NoObs, Observations, Contents, Outcomes, TypeOK, ghosts
<1>17. CASE Settle
  <2>1. [Recorded EXCEPT !.pending = None] \in RunStates
    BY <1>17, RecordedType DEF Settle, Control, Driving
  <2> QED
    BY <1>0, <1>17, <2>1
    DEF Settle, Checkpoint, Settling, NoObs, Observations, Outcomes, Driving, TypeOK, ghosts
<1>18. CASE Finish
  <2>1. result \in Outcomes /\ mem.lifecycle \in Lifecycles
    BY <1>0 DEF TypeOK, RunStates
  <2>2. ckpt' \in RunStates
    BY <1>0, <1>18, <2>1, AmendType DEF Finish, Lifecycles
  <2> QED
    BY <1>18, <2>2, BlankType
    DEF Finish, Return, Forget, NoObs, Observations, Contents, Outcomes, TypeOK, ghosts
<1>19. CASE Reread
  <2>1. obs' \in Observations
    BY <1>0, ObservationType, <1>19 DEF Reread, ReadFile, TypeOK
  <2> QED
    BY <1>19, <2>1 DEF Reread, Driving, TypeOK, durable
<1>20. CASE ReconcileBlocked
  BY <1>20, BlankType
  DEF ReconcileBlocked, Return, Forget, NoObs, Observations, Contents, Outcomes, TypeOK, durable, ghosts
<1>21. CASE ReconcileSettled
  <2> DEFINE t == [mem EXCEPT !.history = Append(@, Entry(mem.pending, obs)), !.pending = None]
  <2>1. mem.pending # None
    BY <1>21, ActionsAssumption DEF ReconcileSettled, Control, Driving, Actions
  <2>2. t \in RunStates
    BY <1>0, <2>1, RecordedType, StepType
  <2>3. ckpt' = t /\ (\/ EnterDrive(t) /\ UNCHANGED decision /\ obs' = NoObs
                     \/ Return)
    BY <1>21 DEF ReconcileSettled
  <2>4. UNCHANGED <<created, file, granted, ghosts>>
    BY <1>21 DEF ReconcileSettled
  <2> HIDE DEF t
  <2>5. CASE EnterDrive(t) /\ UNCHANGED decision /\ obs' = NoObs
    BY <1>0, <2>2, <2>3, <2>4, <2>5
    DEF EnterDrive, Settling, NoObs, Observations, Outcomes, Driving, TypeOK, ghosts
  <2>6. CASE Return
    BY <1>0, <2>2, <2>3, <2>4, <2>6, BlankType
    DEF Return, Forget, NoObs, Observations, Outcomes, TypeOK, ghosts
  <2> QED
    BY <2>3, <2>5, <2>6
<1>22. CASE UNCHANGED vars
  BY <1>22 DEF vars, TypeOK
<1> QED
  BY <1>1, <1>2, <1>3, <1>4, <1>5, <1>6, <1>7, <1>8, <1>9, <1>10, <1>11, <1>12, <1>13,
     <1>14, <1>15, <1>16, <1>17, <1>18, <1>19, <1>20, <1>21, <1>22 DEF Next, Drive

LEMMA ControlNext == TypeOK /\ Control /\ [Next]_vars => Control'
<1> SUFFICES ASSUME TypeOK, Control, [Next]_vars PROVE Control'
  OBVIOUS
<1>0. ckpt \in RunStates /\ mem \in RunStates
  BY DEF TypeOK
<1>1. CASE Start
  BY <1>1 DEF Start, Control, Driving
<1>2. CASE Interrupt
  BY <1>2 DEF Interrupt, Control, Driving
<1>3. CASE EditFile
  BY <1>3 DEF EditFile, Control, process
<1>4. CASE Begin
  BY <1>4 DEF Begin, NewRun, Control, Driving
<1>5. CASE Administer
  BY <1>5 DEF Administer, RevisePlan, SetLifecycle, SetSuccessCriterion, AmendResourceLimits,
     AmendToolBudget, CompleteRun, CancelRun, Amend, LoadLive, Control, Driving, process
<1>6. CASE Resume
  BY <1>6 DEF Resume, EnterDrive, Settling, LoadLive, Control, Driving
<1>7. CASE Reconcile
  BY <1>0, <1>7 DEF Reconcile, ReserveCall, Checkpoint, LoadLive, RunStates, Control, Driving
<1>8. CASE ShutDown
  BY <1>8 DEF ShutDown, Return, Control, Driving
<1>9. CASE GiveUp
  BY <1>9 DEF GiveUp, Settling, Control, Driving, durable
<1>10. CASE CognitiveStep
  BY <1>0, <1>10 DEF CognitiveStep, Checkpoint, RunStates, Control, Driving
<1>11. CASE Decide
  BY <1>11, ActionsAssumption DEF Decide, Settling, Control, Driving, durable
<1>12. CASE Refuse
  BY <1>12 DEF Refuse, Settling, Control, Driving, durable
<1>13. CASE Reserve
  <2>1. Requested # None
    BY <1>13, EvidenceType, ActionsAssumption DEF Reserve, Admitted, Requested, Control, Actions
  <2> QED
    BY <1>0, <1>13, <2>1
    DEF Reserve, Admitted, ReserveCall, Checkpoint, RunStates, Control, Driving
<1>14. CASE BudgetExhausted
  BY <1>14 DEF BudgetExhausted, Return, Control, Driving, durable
<1>15. CASE Invoke
  BY <1>15 DEF Invoke, Control, Driving, durable
<1>16. CASE Uncertain
  BY <1>16 DEF Uncertain, Return, Control, Driving
<1>17. CASE Settle
  <2>1. Recorded.outcome = None /\ [Recorded EXCEPT !.pending = None].pending = None
        /\ [Recorded EXCEPT !.pending = None].outcome = None
    BY <1>0, <1>17 DEF Settle, Recorded, RunStates, Control, Driving
  <2> QED
    BY <1>17, <2>1 DEF Settle, Checkpoint, Settling, Control, Driving
<1>18. CASE Finish
  BY <1>18 DEF Finish, Return, Control, Driving
<1>19. CASE Reread
  BY <1>19 DEF Reread, Control, Driving, durable
<1>20. CASE ReconcileBlocked
  BY <1>20 DEF ReconcileBlocked, Return, Control, Driving, durable
<1>21. CASE ReconcileSettled
  BY <1>0, <1>21
  DEF ReconcileSettled, EnterDrive, Settling, Return, RunStates, Control, Driving
<1>22. CASE UNCHANGED vars
  BY <1>22 DEF vars, Control
<1> QED
  BY <1>1, <1>2, <1>3, <1>4, <1>5, <1>6, <1>7, <1>8, <1>9, <1>10, <1>11, <1>12, <1>13,
     <1>14, <1>15, <1>16, <1>17, <1>18, <1>19, <1>20, <1>21, <1>22 DEF Next, Drive

-----------------------------------------------------------------------------
(* Budgets: what is spent was reserved first.                              *)
Accounts ==
  /\ calls <= ckpt.used
  /\ pc \in {"reserved", "reread"} => calls < ckpt.used
  /\ ckpt.used <= peak
  /\ created => ckpt.limit <= peak
  /\ asked <= ckpt.steps
  /\ pc = "decide" => asked < ckpt.steps
  /\ ckpt.steps <= MaxSteps

(* Action ids: an id is invoked while it is the next one, and the history  *)
(* passes it before another can be.                                        *)
Ids ==
  /\ InvokedOnce
  /\ \A i \in 1 .. Len(invoked) : invoked[i] <= Len(ckpt.history)
  /\ ckpt.pending = None \/ pc = "reserved" =>
       \A i \in 1 .. Len(invoked) : invoked[i] < Len(ckpt.history)
  /\ pc \in {"reserved", "observed"} => reservedAs = Len(ckpt.history)
  /\ pc = "observed" => Performed
  /\ pc = "observed" /\ obs.unsure => ckpt.pending \in Shells
  /\ ckpt.pending # None => reservedAs <= Len(ckpt.history)
  /\ ckpt.pending # None /\ reservedAs < Len(ckpt.history) => ckpt.pending \in Shells

(* Completion: the evidence is in the history before the outcome is.       *)
Shown(s) ==
  /\ s.pending = None
  /\ Len(s.history) > 0
  /\ s.history[Len(s.history)] = [act |-> Evidence, ok |-> TRUE, data |-> s.criterion]
  /\ s.criterion # None

Proven ==
  /\ pc \in {"reserved", "observed"} /\ decision = "complete" =>
       ckpt.pending = Evidence /\ ckpt.criterion # None
  /\ pc = "finish" /\ result = "verified" => Shown(ckpt)
  /\ ckpt.outcome = "verified" => Shown(ckpt)

IInv == TypeOK /\ Control /\ Accounts /\ Ids /\ Proven

LEMMA AccountsNext == TypeOK /\ Control /\ Accounts /\ [Next]_vars => Accounts'
<1> SUFFICES ASSUME TypeOK, Control, Accounts, [Next]_vars PROVE Accounts'
  OBVIOUS
<1>0. /\ ckpt \in RunStates /\ mem \in RunStates /\ created \in BOOLEAN
      /\ calls \in Nat /\ asked \in Nat /\ peak \in Nat
      /\ ckpt.used \in Nat /\ ckpt.limit \in Nat /\ ckpt.steps \in Nat
  BY DEF TypeOK, RunStates
<1>a. pc \in Driving => mem = ckpt /\ created
  BY DEF Control
<1> USE DEF Driving
<1>1. CASE Start
  BY <1>0, <1>a, <1>1 DEF Start, ghosts, Accounts
<1>2. CASE Interrupt
  BY <1>0, <1>a, <1>2 DEF Interrupt, Driving, ghosts, Accounts
<1>3. CASE EditFile
  BY <1>0, <1>a, <1>3 DEF EditFile, process, ghosts, Accounts
<1>4. CASE Begin
  <2>1. /\ ckpt'.used = 0 /\ ckpt'.limit = InitialLimit /\ ckpt'.steps = 0
        /\ peak' = InitialLimit /\ UNCHANGED <<calls, asked>> /\ pc' \in {"idle", "loop"}
    BY <1>4 DEF Begin, NewRun
  <2>2. calls = 0 /\ asked = 0
    BY <1>0, <1>4 DEF Begin, Accounts, Control, Blank, NewRun
  <2> QED
    BY <2>1, <2>2, BoundsAssumption DEF Accounts
<1>5. CASE Administer
  <2>1. /\ ckpt'.used = ckpt.used /\ ckpt'.steps = ckpt.steps
        /\ \/ ckpt'.limit = ckpt.limit /\ peak' = peak
           \/ AmendToolBudget
    <3>1. CASE RevisePlan \/ SetLifecycle \/ SetSuccessCriterion
      BY <1>0, <3>1 DEF RevisePlan, SetLifecycle, SetSuccessCriterion, Amend, RunStates
    <3>2. CASE AmendResourceLimits
      BY <1>0, <3>2 DEF AmendResourceLimits, Amend, RunStates
    <3>3. CASE AmendToolBudget
      BY <1>0, <3>3 DEF AmendToolBudget, Amend, RunStates
    <3>4. CASE CompleteRun \/ CancelRun
      BY <1>0, <3>4 DEF CompleteRun, CancelRun, Amend, RunStates
    <3> QED
      BY <1>5, <3>1, <3>2, <3>3, <3>4 DEF Administer
  <2>2. AmendToolBudget => ckpt'.limit <= peak' /\ peak <= peak'
    BY <1>0, BoundsAssumption DEF AmendToolBudget, Amend, RunStates
  <2>3. UNCHANGED <<created, process, calls, asked>> /\ peak' \in Nat
    BY <1>0, <1>5, BoundsAssumption DEF Administer, RevisePlan, SetLifecycle, SetSuccessCriterion,
       AmendResourceLimits, AmendToolBudget, CompleteRun, CancelRun, Amend
  <2> QED
    BY <1>0, <2>1, <2>2, <2>3 DEF Accounts, process
<1>6. CASE Resume
  BY <1>0, <1>a, <1>6 DEF Resume, EnterDrive, Settling, ghosts, Accounts
<1>7. CASE Reconcile
  BY <1>0, <1>a, <1>7 DEF Reconcile, ReserveCall, Checkpoint, LoadLive, RunStates, ghosts, Accounts
<1>8. CASE ShutDown
  BY <1>0, <1>a, <1>8 DEF ShutDown, Return, ghosts, Accounts
<1>9. CASE GiveUp
  BY <1>0, <1>a, <1>9 DEF GiveUp, Settling, durable, ghosts, Accounts
<1>10. CASE CognitiveStep
  BY <1>0, <1>a, <1>10, BoundsAssumption
  DEF CognitiveStep, Checkpoint, RunStates, ghosts, Accounts
<1>11. CASE Decide
  BY <1>0, <1>a, <1>11 DEF Decide, Settling, durable, Accounts
<1>12. CASE Refuse
  BY <1>0, <1>a, <1>12 DEF Refuse, Settling, durable, ghosts, Accounts
<1>13. CASE Reserve
  <2>1. mem = ckpt /\ created
    BY <1>a, <1>13 DEF Reserve, Admitted
  <2>2. /\ ckpt.used < ckpt.limit /\ ckpt'.used = ckpt.used + 1
        /\ ckpt'.limit = ckpt.limit /\ ckpt'.steps = ckpt.steps
    BY <1>0, <1>13, <2>1 DEF Reserve, ReserveCall, Checkpoint, RunStates
  <2> QED
    BY <1>0, <1>13, <2>1, <2>2 DEF Reserve, Accounts
<1>14. CASE BudgetExhausted
  BY <1>0, <1>a, <1>14 DEF BudgetExhausted, Return, durable, ghosts, Accounts
<1>15. CASE Invoke
  BY <1>0, <1>a, <1>15 DEF Invoke, durable, Accounts
<1>16. CASE Uncertain
  BY <1>0, <1>a, <1>16 DEF Uncertain, Return, Recorded, RunStates, ghosts, Accounts
<1>17. CASE Settle
  BY <1>0, <1>a, <1>17 DEF Settle, Checkpoint, Settling, Recorded, RunStates, ghosts, Accounts
<1>18. CASE Finish
  BY <1>0, <1>a, <1>18 DEF Finish, Return, RunStates, ghosts, Accounts
<1>19. CASE Reread
  BY <1>0, <1>a, <1>19 DEF Reread, durable, Accounts
<1>20. CASE ReconcileBlocked
  BY <1>0, <1>a, <1>20 DEF ReconcileBlocked, Return, durable, ghosts, Accounts
<1>21. CASE ReconcileSettled
  BY <1>0, <1>a, <1>21 DEF ReconcileSettled, EnterDrive, Settling, Return, RunStates, ghosts, Accounts
<1>22. CASE UNCHANGED vars
  BY <1>0, <1>a, <1>22 DEF vars, Accounts
<1> QED
  BY <1>1, <1>2, <1>3, <1>4, <1>5, <1>6, <1>7, <1>8, <1>9, <1>10, <1>11, <1>12, <1>13,
     <1>14, <1>15, <1>16, <1>17, <1>18, <1>19, <1>20, <1>21, <1>22 DEF Next, Drive


(* The record of an action makes every id that has been invoked an old one.*)
LEMMA Advanced ==
  ASSUME Ids, Len(ckpt.history) \in Nat, invoked \in Seq(Nat), reservedAs \in Nat,
         ckpt.pending # None, UNCHANGED <<invoked, reservedAs>>,
         pc' \notin {"reserved", "observed"},
         Len(ckpt'.history) = Len(ckpt.history) + 1,
         ckpt'.pending # None => ckpt'.pending \in Shells
  PROVE  Ids'
<1>1. \A i \in 1 .. Len(invoked) : invoked[i] \in Nat /\ invoked[i] <= Len(ckpt.history)
  BY DEF Ids
<1>2. reservedAs <= Len(ckpt.history)
  BY DEF Ids
<1>3. \A i \in 1 .. Len(invoked) : invoked[i] < Len(ckpt.history) + 1
  BY <1>1
<1>4. InvokedOnce'
  BY DEF Ids, InvokedOnce
<1> QED
  BY <1>2, <1>3, <1>4 DEF Ids

LEMMA IdsNext == TypeOK /\ Control /\ Ids /\ [Next]_vars => Ids'
<1> SUFFICES ASSUME TypeOK, Control, Ids, [Next]_vars PROVE Ids'
  OBVIOUS
<1>0. /\ ckpt \in RunStates /\ mem \in RunStates /\ Len(ckpt.history) \in Nat
      /\ invoked \in Seq(Nat) /\ Len(invoked) \in Nat /\ reservedAs \in Nat
  BY DEF TypeOK, RunStates
<1>a. pc \in Driving => mem = ckpt
  BY DEF Control
<1>b. \A i \in 1 .. Len(invoked) : invoked[i] \in Nat
  BY <1>0
<1> USE DEF Driving
<1>1. CASE Start
  BY <1>0, <1>a, <1>1 DEF Start, Performed, ghosts, InvokedOnce, Ids
<1>2. CASE Interrupt
  BY <1>0, <1>a, <1>2 DEF Interrupt, Driving, Performed, ghosts, InvokedOnce, Ids
<1>3. CASE EditFile
  BY <1>0, <1>a, <1>3 DEF EditFile, Performed, process, ghosts, InvokedOnce, Ids
<1>4. CASE Begin
  <2>1. ckpt = Blank
    BY <1>4 DEF Begin, Control
  <2>2. ckpt.history = << >> /\ ckpt'.history = << >> /\ ckpt'.pending = None /\ ckpt.pending = None
    BY <1>4, <2>1 DEF Begin, Blank, NewRun
  <2> QED
    BY <1>0, <1>4, <2>2 DEF Begin, InvokedOnce, Ids
<1>5. CASE Administer
  <2>1. ckpt'.history = ckpt.history /\ ckpt'.pending = ckpt.pending
    BY <1>0, <1>5 DEF Administer, RevisePlan, SetLifecycle, SetSuccessCriterion,
       AmendResourceLimits, AmendToolBudget, CompleteRun, CancelRun, Amend, RunStates
  <2>2. UNCHANGED <<process, invoked, reservedAs>>
    BY <1>5 DEF Administer, RevisePlan, SetLifecycle, SetSuccessCriterion,
       AmendResourceLimits, AmendToolBudget, CompleteRun, CancelRun, Amend
  <2> QED
    BY <2>1, <2>2 DEF InvokedOnce, Ids, Performed, process
<1>6. CASE Resume
  BY <1>0, <1>a, <1>6 DEF Resume, EnterDrive, Settling, Performed, ghosts, InvokedOnce, Ids
<1>7. CASE Reconcile
  <2>1. ckpt'.history = ckpt.history /\ ckpt'.pending = ckpt.pending
    BY <1>0, <1>7 DEF Reconcile, ReserveCall, Checkpoint, RunStates
  <2> QED
    BY <1>7, <2>1 DEF Reconcile, LoadLive, InvokedOnce, Ids, Performed, ghosts
<1>8. CASE ShutDown
  BY <1>0, <1>a, <1>8 DEF ShutDown, Return, Performed, ghosts, InvokedOnce, Ids
<1>9. CASE GiveUp
  BY <1>0, <1>a, <1>9 DEF GiveUp, Settling, Performed, durable, ghosts, InvokedOnce, Ids
<1>10. CASE CognitiveStep
  <2>1. ckpt'.history = ckpt.history /\ ckpt'.pending = ckpt.pending
    BY <1>0, <1>a, <1>10 DEF CognitiveStep, Checkpoint, RunStates
  <2> QED
    BY <1>10, <2>1 DEF CognitiveStep, InvokedOnce, Ids, Performed, ghosts
<1>11. CASE Decide
  BY <1>0, <1>a, <1>11 DEF Decide, Settling, Performed, durable, InvokedOnce, Ids
<1>12. CASE Refuse
  BY <1>0, <1>a, <1>12 DEF Refuse, Settling, Performed, durable, ghosts, InvokedOnce, Ids
<1>13. CASE Reserve
  <2>1. ckpt'.history = ckpt.history /\ pc = "decided" /\ mem = ckpt
    BY <1>0, <1>a, <1>13 DEF Reserve, Admitted, ReserveCall, Checkpoint, RunStates
  <2>2. ckpt.pending = None
    BY <2>1 DEF Control
  <2>3. reservedAs' = Len(ckpt.history) /\ UNCHANGED invoked /\ pc' = "reserved"
    BY <1>13, <2>1 DEF Reserve, NextActionId
  <2> QED
    BY <1>0, <1>b, <2>1, <2>2, <2>3 DEF InvokedOnce, Ids
<1>14. CASE BudgetExhausted
  BY <1>0, <1>a, <1>14 DEF BudgetExhausted, Return, Performed, durable, ghosts, InvokedOnce, Ids
<1>15. CASE Invoke
  <2> DEFINE n == Len(ckpt.history)
  <2>1. /\ pc = "reserved" /\ mem = ckpt /\ pc' = "observed"
        /\ invoked' = Append(invoked, n) /\ UNCHANGED <<ckpt, reservedAs>>
    BY <1>a, <1>15 DEF Invoke, NextActionId, durable
  <2>2. \A i \in 1 .. Len(invoked) : invoked[i] < n
    BY <2>1 DEF Ids
  <2>3. reservedAs = n
    BY <2>1 DEF Ids
  <2>4. /\ Len(invoked') = Len(invoked) + 1
        /\ invoked'[Len(invoked) + 1] = n
        /\ \A i \in 1 .. Len(invoked) : invoked'[i] = invoked[i]
    BY <1>0, <2>1
  <2>5. InvokedOnce'
    <3> SUFFICES ASSUME NEW i \in 1 .. Len(invoked) + 1, NEW j \in 1 .. Len(invoked) + 1, i < j
                 PROVE  invoked'[i] < invoked'[j]
      BY <2>4 DEF InvokedOnce
    <3>1. i \in 1 .. Len(invoked)
      BY <1>0
    <3>2. CASE j = Len(invoked) + 1
      BY <2>2, <2>4, <3>1, <3>2
    <3>3. CASE j \in 1 .. Len(invoked)
      BY <2>4, <3>1, <3>3 DEF InvokedOnce, Ids
    <3> QED
      BY <1>0, <3>2, <3>3
  <2>6. \A i \in 1 .. Len(invoked') : invoked'[i] <= n
    BY <1>0, <1>b, <2>2, <2>4
  <2>7. obs'.unsure => ckpt.pending \in Shells
    <3>1. CASE mem.pending \in Writes /\ InvokeWrite
      BY <3>1 DEF InvokeWrite, NoObs
    <3>2. CASE ReadFile
      BY <3>2 DEF ReadFile, NoObs
    <3>3. CASE mem.pending \in Shells
      BY <2>1, <3>3
    <3>4. CASE InvokeOpaque
      BY <3>4 DEF InvokeOpaque, NoObs
    <3> QED
      BY <1>15, <3>1, <3>2, <3>3, <3>4 DEF Invoke
  <2>8. ckpt.pending # None
    BY <2>1 DEF Control
  <2>9. Performed'
    BY <1>0, <2>1, <2>3, <2>4 DEF Performed
  <2> QED
    BY <1>0, <2>1, <2>3, <2>5, <2>6, <2>7, <2>8, <2>9 DEF Ids
<1>16. CASE Uncertain
  <2>1. /\ mem = ckpt /\ ckpt.pending # None /\ UNCHANGED <<invoked, reservedAs>>
        /\ pc' \notin {"reserved", "observed"}
    BY <1>a, <1>16, ActionsAssumption DEF Uncertain, Control, Settling, EnterDrive, Return, Actions, ghosts
  <2>2. Len(ckpt'.history) = Len(ckpt.history) + 1
    BY <1>0, <1>16, <2>1 DEF Uncertain, Checkpoint, Recorded, RunStates
  <2>3. ckpt'.pending = ckpt.pending /\ ckpt.pending \in Shells
    BY <1>0, <1>16, <2>1 DEF Uncertain, Recorded, RunStates, Ids
  <2> QED
    BY <1>0, <2>1, <2>2, <2>3, Advanced
<1>17. CASE Settle
  <2>1. /\ mem = ckpt /\ ckpt.pending # None /\ UNCHANGED <<invoked, reservedAs>>
        /\ pc' \notin {"reserved", "observed"}
    BY <1>a, <1>17, ActionsAssumption DEF Settle, Control, Settling, EnterDrive, Return, Actions, ghosts
  <2>2. Len(ckpt'.history) = Len(ckpt.history) + 1
    BY <1>0, <1>17, <2>1 DEF Settle, Checkpoint, Recorded, RunStates
  <2>3. ckpt'.pending = None
    BY <1>0, <1>17, <2>1 DEF Settle, Checkpoint, Recorded, RunStates
  <2> QED
    BY <1>0, <2>1, <2>2, <2>3, Advanced
<1>18. CASE Finish
  <2>1. ckpt'.history = ckpt.history /\ ckpt'.pending = ckpt.pending
    BY <1>0, <1>a, <1>18 DEF Finish, RunStates
  <2> QED
    BY <1>18, <2>1 DEF Finish, Return, InvokedOnce, Ids, Performed, ghosts
<1>19. CASE Reread
  BY <1>0, <1>a, <1>19 DEF Reread, Performed, durable, InvokedOnce, Ids
<1>20. CASE ReconcileBlocked
  BY <1>0, <1>a, <1>20 DEF ReconcileBlocked, Return, Performed, durable, ghosts, InvokedOnce, Ids
<1>21. CASE ReconcileSettled
  <2>1. /\ mem = ckpt /\ ckpt.pending # None /\ UNCHANGED <<invoked, reservedAs>>
        /\ pc' \notin {"reserved", "observed"}
    BY <1>a, <1>21, ActionsAssumption DEF ReconcileSettled, Control, Settling, EnterDrive, Return, Actions, ghosts
  <2>2. Len(ckpt'.history) = Len(ckpt.history) + 1
    BY <1>0, <1>21, <2>1 DEF ReconcileSettled, Checkpoint, Recorded, RunStates
  <2>3. ckpt'.pending = None
    BY <1>0, <1>21, <2>1 DEF ReconcileSettled, Checkpoint, Recorded, RunStates
  <2> QED
    BY <1>0, <2>1, <2>2, <2>3, Advanced
<1>22. CASE UNCHANGED vars
  BY <1>0, <1>a, <1>22 DEF vars, Performed, InvokedOnce, Ids
<1> QED
  BY <1>1, <1>2, <1>3, <1>4, <1>5, <1>6, <1>7, <1>8, <1>9, <1>10, <1>11, <1>12, <1>13,
     <1>14, <1>15, <1>16, <1>17, <1>18, <1>19, <1>20, <1>21, <1>22 DEF Next, Drive


LEMMA ProvenNext == TypeOK /\ Control /\ Proven /\ [Next]_vars => Proven'
<1> SUFFICES ASSUME TypeOK, Control, Proven, [Next]_vars PROVE Proven'
  OBVIOUS
<1>0. /\ ckpt \in RunStates /\ mem \in RunStates /\ obs \in Observations
      /\ ckpt.history \in Seq(Entries) /\ Len(ckpt.history) \in Nat
      /\ ckpt.pending \in Actions \cup {None}
  BY DEF TypeOK, RunStates
<1>a. pc \in Driving => mem = ckpt /\ ckpt.outcome = None
  BY DEF Control
<1>b. None \notin {"verified", "failed", "plan_done", "complete", "fail"}
  BY ActionsAssumption
<1> USE DEF Driving
<1>1. CASE Start
  BY <1>a, <1>1 DEF Start, ghosts, Proven, Shown
<1>2. CASE Interrupt
  BY <1>a, <1>2 DEF Interrupt, Driving, Proven, Shown
<1>3. CASE EditFile
  BY <1>a, <1>3 DEF EditFile, process, ghosts, Proven, Shown
<1>4. CASE Begin
  BY <1>0, <1>b, <1>4 DEF Begin, NewRun, Proven, Shown
<1>5. CASE Administer
  <2>1. ckpt'.outcome \in {None, "plan_done", "failed"} /\ UNCHANGED process
    BY <1>0, <1>5 DEF Administer, RevisePlan, SetLifecycle, SetSuccessCriterion, LoadLive,
       AmendResourceLimits, AmendToolBudget, CompleteRun, CancelRun, Amend, RunStates
  <2>2. pc = "idle"
    BY <1>5 DEF Administer, RevisePlan, SetLifecycle, SetSuccessCriterion, LoadLive,
       AmendResourceLimits, AmendToolBudget, CompleteRun, CancelRun, Amend
  <2> QED
    BY <1>b, <2>1, <2>2 DEF Proven, process
<1>6. CASE Resume
  BY <1>0, <1>b, <1>6 DEF Resume, EnterDrive, Settling, LoadLive, Proven, Shown
<1>7. CASE Reconcile
  <2>1. /\ ckpt'.history = ckpt.history /\ ckpt'.pending = ckpt.pending
        /\ ckpt'.criterion = ckpt.criterion /\ ckpt'.outcome = ckpt.outcome
    BY <1>0, <1>a, <1>7 DEF Reconcile, Checkpoint, ReserveCall, RunStates
  <2> QED
    BY <1>a, <1>b, <1>7, <2>1 DEF Reconcile, LoadLive, Proven, Shown
<1>8. CASE ShutDown
  BY <1>a, <1>8 DEF ShutDown, Return, Proven, Shown
<1>9. CASE GiveUp
  BY <1>a, <1>9 DEF GiveUp, Settling, durable, Proven, Shown
<1>10. CASE CognitiveStep
  <2>1. /\ ckpt'.history = ckpt.history /\ ckpt'.pending = ckpt.pending
        /\ ckpt'.criterion = ckpt.criterion /\ ckpt'.outcome = ckpt.outcome
    BY <1>0, <1>a, <1>10 DEF CognitiveStep, Checkpoint, ReserveCall, RunStates
  <2> QED
    BY <1>a, <1>b, <1>10, <2>1 DEF CognitiveStep, LoadLive, Proven, Shown
<1>11. CASE Decide
  BY <1>a, <1>11 DEF Decide, Settling, durable, Proven, Shown
<1>12. CASE Refuse
  BY <1>a, <1>12 DEF Refuse, Settling, durable, Proven, Shown
<1>13. CASE Reserve
  <2>1. /\ ckpt'.pending = Requested /\ ckpt'.outcome = ckpt.outcome
        /\ ckpt'.criterion = ckpt.criterion /\ mem = ckpt
    BY <1>0, <1>a, <1>13 DEF Reserve, Admitted, ReserveCall, Checkpoint, RunStates
  <2>2. ckpt.outcome = None
    BY <1>a, <1>13 DEF Reserve, Admitted
  <2> QED
    BY <1>b, <1>13, <2>1, <2>2 DEF Reserve, Admitted, Requested, Proven
<1>14. CASE BudgetExhausted
  BY <1>a, <1>14 DEF BudgetExhausted, Return, durable, Proven, Shown
<1>15. CASE Invoke
  BY <1>a, <1>15 DEF Invoke, durable, Proven, Shown
<1>16. CASE Uncertain
  <2>1. ckpt'.outcome = None
    BY <1>0, <1>a, <1>16 DEF Uncertain, Recorded, RunStates
  <2> QED
    BY <1>b, <1>16, <2>1 DEF Uncertain, Return, Proven
<1>17. CASE Settle
  <2>1. /\ mem = ckpt /\ pc = "observed" /\ ckpt'.outcome = None /\ ckpt'.pending = None
        /\ ckpt'.criterion = ckpt.criterion
        /\ ckpt'.history = Append(ckpt.history, Entry(ckpt.pending, obs))
    BY <1>0, <1>a, <1>17 DEF Settle, Checkpoint, Recorded, RunStates
  <2>2. /\ Len(ckpt'.history) = Len(ckpt.history) + 1
        /\ ckpt'.history[Len(ckpt'.history)] = Entry(ckpt.pending, obs)
    BY <1>0, <2>1 DEF Entry
  <2>3. CASE decision = "complete" /\ Verified
    <3>1. ckpt.pending = Evidence /\ ckpt.criterion # None
      BY <2>1, <2>3 DEF Proven
    <3>2. Entry(ckpt.pending, obs) = [act |-> Evidence, ok |-> TRUE, data |-> ckpt'.criterion]
      BY <1>0, <2>1, <2>3, <3>1 DEF Entry, Verified, Observations
    <3>3. Shown(ckpt)'
      BY <1>0, <2>1, <2>2, <3>1, <3>2 DEF Shown
    <3> QED
      BY <1>b, <1>17, <2>1, <3>3 DEF Settle, Settling, Proven
  <2>4. CASE ~(decision = "complete" /\ Verified)
    BY <1>b, <1>17, <2>1, <2>4 DEF Settle, Settling, Proven
  <2> QED
    BY <2>3, <2>4
<1>18. CASE Finish
  <2>1. /\ ckpt'.history = ckpt.history /\ ckpt'.pending = ckpt.pending
        /\ ckpt'.criterion = ckpt.criterion /\ ckpt'.outcome = result
    BY <1>0, <1>a, <1>18 DEF Finish, RunStates
  <2> QED
    BY <1>b, <1>18, <2>1 DEF Finish, Return, Proven, Shown
<1>19. CASE Reread
  BY <1>a, <1>19 DEF Reread, durable, Proven, Shown
<1>20. CASE ReconcileBlocked
  BY <1>a, <1>20 DEF ReconcileBlocked, Return, durable, Proven, Shown
<1>21. CASE ReconcileSettled
  <2>1. ckpt'.outcome = None
    BY <1>0, <1>a, <1>21 DEF ReconcileSettled, RunStates
  <2> QED
    BY <1>b, <1>21, <2>1 DEF ReconcileSettled, EnterDrive, Settling, Return, Proven
<1>22. CASE UNCHANGED vars
  BY <1>a, <1>22 DEF vars, Proven, Shown
<1> QED
  BY <1>1, <1>2, <1>3, <1>4, <1>5, <1>6, <1>7, <1>8, <1>9, <1>10, <1>11, <1>12, <1>13,
     <1>14, <1>15, <1>16, <1>17, <1>18, <1>19, <1>20, <1>21, <1>22 DEF Next, Drive

LEMMA IInvInit == Init => IInv
<1> SUFFICES ASSUME Init PROVE IInv
  OBVIOUS
<1>1. TypeOK
  <2>1. /\ created \in BOOLEAN /\ ckpt \in RunStates /\ mem \in RunStates
        /\ file \in Contents /\ obs \in Observations
    BY BlankType, ObservationType DEF Init
  <2>2. pc \in Driving \cup {"down", "idle"} /\ granted \subseteq Actions
    BY DEF Init
  <2>3. decision \in Actions \cup {None, "complete", "fail"} /\ result \in Outcomes
    BY DEF Init, Outcomes
  <2>4. invoked \in Seq(Nat) /\ calls \in Nat /\ asked \in Nat /\ peak \in Nat /\ reservedAs \in Nat
    BY DEF Init
  <2> QED
    BY <2>1, <2>2, <2>3, <2>4 DEF TypeOK
<1>2. /\ Blank.history = << >> /\ Blank.pending = None /\ Blank.outcome = None
      /\ Blank.used = 0 /\ Blank.steps = 0
  BY DEF Blank, NewRun
<1>3. Control /\ Accounts
  BY <1>2, BoundsAssumption DEF Init, Control, Accounts, Driving
<1>4. Ids /\ Proven
  BY <1>2, ActionsAssumption DEF Init, Ids, InvokedOnce, Proven
<1> QED
  BY <1>1, <1>3, <1>4 DEF IInv

LEMMA IInvNext == IInv /\ [Next]_vars => IInv'
  BY TypeNext, ControlNext, AccountsNext, IdsNext, ProvenNext DEF IInv

LEMMA Invariance == Spec => []IInv
  BY IInvInit, IInvNext, PTL DEF Spec

(* Every reachable state is well typed.                                    *)
THEOREM TypeCorrect == Spec => []TypeOK
  BY Invariance, PTL DEF IInv

(* No action id is ever invoked twice, across any sequence of crashes,     *)
(* resumes and reconciliations.                                            *)
THEOREM EffectsOnce == Spec => []InvokedOnce
<1>1. IInv => InvokedOnce
  BY DEF IInv, Ids
<1> QED
  BY <1>1, Invariance, PTL

(* No tool is invoked without a committed reservation, and reservations    *)
(* stay within what an operator granted.                                   *)
THEOREM CallsPaidFor == Spec => []CallsReserved
<1>1. IInv => CallsReserved
  BY DEF IInv, Accounts, CallsReserved
<1> QED
  BY <1>1, Invariance, PTL

(* Model calls are bounded by the committed steps, and those by max_steps. *)
THEOREM ThinkingBounded == Spec => []StepsBounded
<1>1. IInv => StepsBounded
  BY DEF IInv, Accounts, StepsBounded
<1> QED
  BY <1>1, Invariance, PTL

(* A verified outcome rests on the evidence that ends the history.         *)
THEOREM CompletionProven == Spec => []VerifiedMeansEvidence
<1>1. IInv => VerifiedMeansEvidence
  BY DEF IInv, Proven, Shown, VerifiedMeansEvidence
<1> QED
  BY <1>1, Invariance, PTL


-----------------------------------------------------------------------------
(* Only a process that drives, and an administrative call on a live run,   *)
(* touch the run at all.                                                   *)
LEMMA TerminalStep ==
  IInv /\ [Next]_vars =>
    (ckpt.outcome # None => ckpt' = ckpt /\ calls' = calls /\ asked' = asked)
<1> SUFFICES ASSUME IInv, [Next]_vars, ckpt.outcome # None
             PROVE  ckpt' = ckpt /\ calls' = calls /\ asked' = asked
  OBVIOUS
<1>1. pc \notin Driving
  BY DEF IInv, Control
<1>2. created
  BY DEF IInv, Control, Blank, NewRun
<1>3. ~Drive
  BY <1>1 DEF Drive, Driving, ShutDown, GiveUp, CognitiveStep, Decide, Refuse, Reserve,
     BudgetExhausted, Admitted, Invoke, Uncertain, Settle, Finish, Reread,
     ReconcileBlocked, ReconcileSettled
<1>4. ~Administer /\ ~Resume /\ ~Reconcile /\ ~Begin
  BY <1>2 DEF Administer, RevisePlan, SetLifecycle, SetSuccessCriterion, AmendResourceLimits,
     AmendToolBudget, CompleteRun, CancelRun, Amend, LoadLive, Resume, Reconcile, Begin
<1> QED
  BY <1>3, <1>4 DEF Next, Start, Interrupt, EditFile, vars, ghosts

(* A run that has an outcome never changes again and invokes nothing.      *)
THEOREM Terminal == Spec => TerminalIsFinal
  BY Invariance, TerminalStep, PTL DEF Spec, TerminalIsFinal


(* What each step does to the durable pending action and to the history.   *)
Kept == ckpt'.pending = ckpt.pending /\ Len(ckpt'.history) = Len(ckpt.history)
Grown ==
  /\ mem = ckpt
  /\ ckpt.pending # None
  /\ ckpt'.history = Append(ckpt.history, Entry(ckpt.pending, obs))
  /\ Len(ckpt'.history) = Len(ckpt.history) + 1
  /\ ckpt'.history[Len(ckpt'.history)].act = ckpt.pending

LEMMA PendingStep ==
  IInv /\ [Next]_vars =>
    \/ Kept
    \/ Reserve /\ ckpt.pending = None /\ ckpt'.pending # None /\ ckpt'.history = ckpt.history
    \/ Uncertain /\ Grown /\ ckpt'.pending = ckpt.pending
    \/ (Settle \/ ReconcileSettled) /\ Grown /\ ckpt'.pending = None
<1> SUFFICES ASSUME IInv, [Next]_vars
             PROVE  \/ Kept
                    \/ Reserve /\ ckpt.pending = None /\ ckpt'.pending # None /\ ckpt'.history = ckpt.history
                    \/ Uncertain /\ Grown /\ ckpt'.pending = ckpt.pending
                    \/ (Settle \/ ReconcileSettled) /\ Grown /\ ckpt'.pending = None
  OBVIOUS
<1>0. /\ ckpt \in RunStates /\ mem \in RunStates /\ ckpt.history \in Seq(Entries)
      /\ pc \in Driving => mem = ckpt
  BY DEF IInv, TypeOK, Control, RunStates
<1>1. CASE Start
  BY <1>1 DEF Start, ghosts, Kept
<1>2. CASE Interrupt
  BY <1>2 DEF Interrupt, ghosts, Kept
<1>3. CASE EditFile
  BY <1>3 DEF EditFile, ghosts, Kept
<1>4. CASE Begin
  <2>1. ckpt = Blank
    BY <1>4 DEF Begin, IInv, Control
  <2> QED
    BY <1>4, <2>1 DEF Begin, Blank, NewRun, Kept
<1>5. CASE Administer
  BY <1>0, <1>5 DEF Administer, RevisePlan, SetLifecycle, SetSuccessCriterion,
     AmendResourceLimits, AmendToolBudget, CompleteRun, CancelRun, Amend, RunStates, Kept
<1>6. CASE Resume
  BY <1>6 DEF Resume, ghosts, Kept
<1>7. CASE Reconcile
  BY <1>0, <1>7 DEF Reconcile, ReserveCall, Checkpoint, RunStates, Driving, Kept
<1>8. CASE ShutDown
  BY <1>0, <1>8 DEF ShutDown, ReserveCall, Checkpoint, RunStates, Driving, Kept
<1>9. CASE GiveUp
  BY <1>9 DEF GiveUp, durable, Kept
<1>10. CASE CognitiveStep
  BY <1>0, <1>10 DEF CognitiveStep, ReserveCall, Checkpoint, RunStates, Driving, Kept
<1>11. CASE Decide
  BY <1>11 DEF Decide, durable, Kept
<1>12. CASE Refuse
  BY <1>12 DEF Refuse, durable, Kept
<1>13. CASE Reserve
  <2>1. ckpt'.history = ckpt.history /\ ckpt'.pending = Requested
    BY <1>0, <1>13 DEF Reserve, Admitted, ReserveCall, Checkpoint, RunStates, Driving
  <2>2. ckpt.pending = None
    BY <1>13 DEF Reserve, Admitted, IInv, Control
  <2>3. Requested # None
    BY <1>13, EvidenceType, ActionsAssumption
    DEF Reserve, Admitted, Requested, IInv, Control, Actions
  <2> QED
    BY <1>13, <2>1, <2>2, <2>3
<1>14. CASE BudgetExhausted
  BY <1>14 DEF BudgetExhausted, durable, Kept
<1>15. CASE Invoke
  BY <1>15 DEF Invoke, durable, Kept
<1>16. CASE Uncertain
  <2>1. mem = ckpt /\ ckpt.pending # None
    BY <1>0, <1>16, ActionsAssumption DEF Uncertain, IInv, Control, Driving, Actions
  <2>2. ckpt'.history = Append(ckpt.history, Entry(ckpt.pending, obs)) /\ ckpt'.pending = ckpt.pending
    BY <1>0, <1>16, <2>1 DEF Uncertain, Checkpoint, Recorded, RunStates
  <2>3. /\ Len(ckpt'.history) = Len(ckpt.history) + 1
        /\ ckpt'.history[Len(ckpt'.history)] = Entry(ckpt.pending, obs)
    BY <1>0, <2>2 DEF Entry
  <2>4. Entry(ckpt.pending, obs).act = ckpt.pending
    BY DEF Entry
  <2> QED
    BY <1>16, <2>1, <2>2, <2>3, <2>4 DEF Grown
<1>17. CASE Settle
  <2>1. mem = ckpt /\ ckpt.pending # None
    BY <1>0, <1>17, ActionsAssumption DEF Settle, IInv, Control, Driving, Actions
  <2>2. ckpt'.history = Append(ckpt.history, Entry(ckpt.pending, obs)) /\ ckpt'.pending = None
    BY <1>0, <1>17, <2>1 DEF Settle, Checkpoint, Recorded, RunStates
  <2>3. /\ Len(ckpt'.history) = Len(ckpt.history) + 1
        /\ ckpt'.history[Len(ckpt'.history)] = Entry(ckpt.pending, obs)
    BY <1>0, <2>2 DEF Entry
  <2>4. Entry(ckpt.pending, obs).act = ckpt.pending
    BY DEF Entry
  <2> QED
    BY <1>17, <2>1, <2>2, <2>3, <2>4 DEF Grown
<1>18. CASE Finish
  BY <1>0, <1>18 DEF Finish, ReserveCall, Checkpoint, RunStates, Driving, Kept
<1>19. CASE Reread
  BY <1>19 DEF Reread, durable, Kept
<1>20. CASE ReconcileBlocked
  BY <1>20 DEF ReconcileBlocked, durable, Kept
<1>21. CASE ReconcileSettled
  <2>1. mem = ckpt /\ ckpt.pending # None
    BY <1>0, <1>21, ActionsAssumption DEF ReconcileSettled, IInv, Control, Driving, Actions
  <2>2. ckpt'.history = Append(ckpt.history, Entry(ckpt.pending, obs)) /\ ckpt'.pending = None
    BY <1>0, <1>21, <2>1 DEF ReconcileSettled, Checkpoint, Recorded, RunStates
  <2>3. /\ Len(ckpt'.history) = Len(ckpt.history) + 1
        /\ ckpt'.history[Len(ckpt'.history)] = Entry(ckpt.pending, obs)
    BY <1>0, <2>2 DEF Entry
  <2>4. Entry(ckpt.pending, obs).act = ckpt.pending
    BY DEF Entry
  <2> QED
    BY <1>21, <2>1, <2>2, <2>3, <2>4 DEF Grown
<1>22. CASE UNCHANGED vars
  BY <1>22 DEF vars, Kept
<1> QED
  BY <1>1, <1>2, <1>3, <1>4, <1>5, <1>6, <1>7, <1>8, <1>9, <1>10, <1>11, <1>12, <1>13,
     <1>14, <1>15, <1>16, <1>17, <1>18, <1>19, <1>20, <1>21, <1>22 DEF Next, Drive

(* An interrupted action is never forgotten without an observation of it.  *)
THEOREM IntentIsKept == Spec => IntentKept
<1>1. IInv /\ [Next]_vars =>
        (ckpt.pending # None /\ ckpt'.pending # ckpt.pending =>
           /\ ckpt'.pending = None
           /\ Len(ckpt'.history) = Len(ckpt.history) + 1
           /\ ckpt'.history[Len(ckpt'.history)].act = ckpt.pending)
  BY PendingStep DEF Kept, Grown
<1> QED
  BY <1>1, Invariance, PTL DEF Spec, IntentKept


-----------------------------------------------------------------------------
(* AgentRuntime implements AtMostOnce.                                     *)
LEMMA GhostStep ==
  [Next]_vars => UNCHANGED <<invoked, reservedAs>> \/ Invoke \/ Reserve
  BY DEF Next, Start, Interrupt, EditFile, Begin, Administer, RevisePlan, SetLifecycle,
     SetSuccessCriterion, AmendResourceLimits, AmendToolBudget, CompleteRun, CancelRun, Amend,
     Resume, Reconcile, Drive, ShutDown, GiveUp, CognitiveStep, Decide, Refuse,
     BudgetExhausted, Uncertain, Settle, Finish, Reread, ReconcileBlocked, ReconcileSettled,
     ghosts, vars

LEMMA OutcomeStep ==
  IInv /\ (Reserve \/ Uncertain \/ Settle \/ ReconcileSettled \/ Invoke) =>
    ckpt.outcome = None /\ ckpt'.outcome = None
<1> SUFFICES ASSUME IInv, Reserve \/ Uncertain \/ Settle \/ ReconcileSettled \/ Invoke
             PROVE  ckpt.outcome = None /\ ckpt'.outcome = None
  OBVIOUS
<1>1. pc \in Driving /\ ckpt \in RunStates
  BY DEF Reserve, Admitted, Uncertain, Settle, ReconcileSettled, Invoke, Driving, IInv, TypeOK
<1>2. mem = ckpt /\ ckpt.outcome = None
  BY <1>1 DEF IInv, Control
<1> QED
  BY <1>1, <1>2 DEF Reserve, ReserveCall, Uncertain, Settle, ReconcileSettled, Invoke, durable,
     Checkpoint, Recorded, RunStates

LEMMA StageInit == Init => Once!Init
  BY ActionsAssumption
  DEF Init, Once!Init, Stage, NextActionId, Blank, NewRun

LEMMA StageNext == IInv /\ [Next]_vars => [Once!Next]_<<Stage, NextActionId(ckpt)>>
<1> SUFFICES ASSUME IInv, [Next]_vars
             PROVE  [Once!Next]_<<Stage, NextActionId(ckpt)>>
  OBVIOUS
<1> USE DEF NextActionId
<1>0. /\ Len(ckpt.history) \in Nat /\ reservedAs \in Nat
      /\ invoked \in Seq(Nat) /\ Len(invoked) \in Nat
  BY DEF IInv, TypeOK, RunStates
<1>1. CASE ckpt.outcome # None
  <2>1. ckpt' = ckpt
    BY <1>1, TerminalStep
  <2> QED
    BY <1>1, <2>1 DEF Stage
<1>2. CASE ckpt.outcome = None /\ ckpt'.outcome # None
  <2>1. Kept
    BY <1>2, PendingStep, OutcomeStep
  <2> QED
    BY <1>2, <2>1 DEF Stage, Kept, Once!Next, Once!Close
<1>3. CASE ckpt.outcome = None /\ ckpt'.outcome = None
  <2>1. CASE Kept /\ Invoke
    <3>1. /\ pc = "reserved" /\ mem = ckpt /\ ckpt.pending # None
          /\ reservedAs = Len(ckpt.history)
          /\ \A i \in 1 .. Len(invoked) : invoked[i] < Len(ckpt.history)
      BY <2>1 DEF Invoke, IInv, Control, Ids, Driving
    <3>2. ~Performed
      BY <1>0, <3>1 DEF Performed
    <3>3. /\ invoked' = Append(invoked, Len(ckpt.history)) /\ UNCHANGED <<ckpt, reservedAs>>
      BY <2>1, <3>1 DEF Invoke, durable
    <3>4. Performed'
      BY <1>0, <3>1, <3>3 DEF Performed
    <3> QED
      BY <1>0, <1>3, <3>1, <3>2, <3>3, <3>4 DEF Stage, Once!Next, Once!Perform
  <2>2. CASE Kept /\ UNCHANGED <<invoked, reservedAs>>
    BY <1>3, <2>2 DEF Stage, Kept, Performed
  <2>3. CASE Reserve /\ ckpt.pending = None /\ ckpt'.pending # None /\ ckpt'.history = ckpt.history
    <3>1. reservedAs' = Len(ckpt.history) /\ UNCHANGED invoked
      BY <2>3 DEF Reserve, Admitted, IInv, Control, Driving
    <3>2. \A i \in 1 .. Len(invoked) : invoked[i] < Len(ckpt.history)
      BY <2>3 DEF IInv, Ids
    <3>3. ~Performed'
      BY <1>0, <3>1, <3>2 DEF Performed
    <3> QED
      BY <1>0, <1>3, <2>3, <3>1, <3>3 DEF Stage, Once!Next, Once!Reserve
  <2>4. CASE Uncertain /\ Grown /\ ckpt'.pending = ckpt.pending
    <3>1. reservedAs = Len(ckpt.history) /\ Performed /\ UNCHANGED <<invoked, reservedAs>>
      BY <2>4 DEF Uncertain, IInv, Ids, ghosts
    <3> QED
      BY <1>0, <1>3, <2>4, <3>1 DEF Grown, Stage, Once!Next, Once!Dispute
  <2>5. CASE Settle /\ Grown /\ ckpt'.pending = None
    <3>1. reservedAs = Len(ckpt.history) /\ Performed
      BY <2>5 DEF Settle, IInv, Ids
    <3> QED
      BY <1>0, <1>3, <2>5, <3>1 DEF Grown, Stage, Once!Next, Once!Settle
  <2>6. CASE ReconcileSettled /\ Grown /\ ckpt'.pending = None
    <3>1. ckpt.pending \in Writes \cup Reads
      BY <2>6 DEF ReconcileSettled, IInv, Control
    <3>2. ~(reservedAs < Len(ckpt.history))
      BY <2>6, <3>1, ActionsAssumption DEF IInv, Ids, Grown
    <3> QED
      BY <1>0, <1>3, <2>6, <3>2 DEF Grown, Stage, Once!Next, Once!Settle
  <2>7. Kept => Kept /\ (Invoke \/ UNCHANGED <<invoked, reservedAs>>)
    <3>1. Reserve => ~Kept
      BY EvidenceType, ActionsAssumption
      DEF Reserve, Admitted, Requested, ReserveCall, Checkpoint, Kept, IInv, Control, Driving,
          TypeOK, RunStates, Actions
    <3> QED
      BY <3>1, GhostStep
  <2> QED
    BY <2>1, <2>2, <2>3, <2>4, <2>5, <2>6, <2>7, PendingStep
<1> QED
  BY <1>1, <1>2, <1>3

(* Every behaviour of the runtime is one the promise AtMostOnce allows.    *)
THEOREM Refinement == Spec => ImplementsAtMostOnce
<1>1. Init => Once!Init
  BY StageInit
<1>2. IInv /\ [Next]_vars => [Once!Next]_<<Stage, NextActionId(ckpt)>>
  BY StageNext
<1> QED
  BY <1>1, <1>2, Invariance, PTL DEF Spec, ImplementsAtMostOnce, Once!Spec

=============================================================================
