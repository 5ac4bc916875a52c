------------------------- MODULE PlanDriver_proofs -------------------------
(* Theorems about Plan, for any tasks, goals and priorities, and about       *)
(* PlanDriver, for any drivers, tasks, specs and crashes.                    *)
EXTENDS PlanDriver, FiniteSetTheorems, TLAPS

-----------------------------------------------------------------------------
(* Plan: any sequence of edits.                                            *)
PlanNext == CreateRun \/ Transition

LEMMA RegisterType ==
  ASSUME PlanTypeOK, NEW t \in Tasks, NEW g \in Goals, NEW ds,
         NEW old \in Tasks \cup {None}, Register(t, g, ds, old)
  PROVE  /\ deps' \in [Tasks -> SUBSET Tasks]
         /\ goal' \in [Tasks -> Goals \cup {None}]
         /\ supersedes' \in [Tasks -> Tasks \cup {None}]
         /\ rank' \in [Tasks -> Nat]
<1>1. Registered \in SUBSET Tasks
  BY DEF Registered
<1>2. Cardinality(Registered) \in Nat
  BY <1>1, PlanAssumption, FS_Subset, FS_CardinalityType
<1>3. ds \in SUBSET Tasks
  BY <1>1 DEF Register
<1> QED
  BY <1>2, <1>3 DEF Register, PlanTypeOK

LEMMA PlanTypeStep == PlanTypeOK /\ [PlanNext]_plan => PlanTypeOK'
<1> SUFFICES ASSUME PlanTypeOK, [PlanNext]_plan PROVE PlanTypeOK'
  OBVIOUS
<1>1. CASE CreateRun
  BY <1>1 DEF CreateRun, PlanTypeOK, graph, Declared
<1>2. ASSUME NEW g \in Goals, NEW p \in Priorities, AddGoal(g, p) PROVE PlanTypeOK'
  <2>1. priority' = [h \in Declared \cup {g} |-> IF h = g THEN p ELSE priority[h]]
    BY <1>2 DEF AddGoal
  <2>2. Declared' = Declared \cup {g}
    BY <2>1 DEF Declared
  <2>3. priority' \in [Declared' -> Priorities] /\ Declared' \subseteq Goals
    BY <2>1, <2>2 DEF PlanTypeOK
  <2> QED
    BY <1>2, <2>3 DEF AddGoal, PlanTypeOK, graph
<1>3. ASSUME NEW t \in Tasks, NEW g \in Goals, NEW ds \in SUBSET Tasks, AddTask(t, g, ds)
      PROVE  PlanTypeOK'
  <2>1. /\ deps' \in [Tasks -> SUBSET Tasks] /\ goal' \in [Tasks -> Goals \cup {None}]
        /\ supersedes' \in [Tasks -> Tasks \cup {None}] /\ rank' \in [Tasks -> Nat]
    BY <1>3, RegisterType DEF AddTask
  <2>2. status' \in [Tasks -> Statuses]
    BY <1>3 DEF AddTask, PlanTypeOK, Statuses
  <2> QED
    BY <1>3, <2>1, <2>2 DEF AddTask, PlanTypeOK, Declared
<1>4. ASSUME NEW t \in Tasks, NEW new \in Tasks, Repair(t, new) PROVE PlanTypeOK'
  <2>1. goal[t] \in Declared /\ Declared \subseteq Goals
    BY <1>4 DEF Repair, Register, PlanTypeOK
  <2>2. /\ deps' \in [Tasks -> SUBSET Tasks] /\ goal' \in [Tasks -> Goals \cup {None}]
        /\ supersedes' \in [Tasks -> Tasks \cup {None}] /\ rank' \in [Tasks -> Nat]
    BY <1>4, <2>1, RegisterType DEF Repair
  <2>3. status' \in [Tasks -> Statuses]
    BY <1>4 DEF Repair, PlanTypeOK, Statuses
  <2> QED
    BY <1>4, <2>2, <2>3 DEF Repair, PlanTypeOK, Declared
<1>5. ASSUME NEW t \in Tasks, MarkRunning(t) \/ MarkSucceeded(t) \/ MarkFailed(t) \/ MarkBlocked(t)
      PROVE  PlanTypeOK'
  BY <1>5 DEF MarkRunning, MarkSucceeded, MarkFailed, MarkBlocked, Mark, PlanTypeOK, Statuses,
     graph, Declared
<1>6. ASSUME NEW l \in Lifecycles, SetLifecycle(l) PROVE PlanTypeOK'
  BY <1>6 DEF SetLifecycle, PlanTypeOK, graph, Declared
<1>7. CASE CompleteRun \/ CancelRun
  BY <1>7 DEF CompleteRun, CancelRun, PlanTypeOK, Lifecycles, graph, Declared
<1>8. CASE UNCHANGED plan
  BY <1>8 DEF plan, PlanTypeOK, Declared
<1> QED
  BY <1>1, <1>2, <1>3, <1>4, <1>5, <1>6, <1>7, <1>8 DEF PlanNext, Transition


LEMMA PlanTypeInit == PlanInit => PlanTypeOK
<1> SUFFICES ASSUME PlanInit PROVE PlanTypeOK
  OBVIOUS
<1>1. Declared = {} /\ priority \in [Declared -> Priorities]
  BY DEF PlanInit, Declared
<1>2. "active" \in Lifecycles /\ "absent" \in Statuses
  BY DEF Lifecycles, Statuses
<1> QED
  BY <1>1, <1>2 DEF PlanInit, PlanTypeOK

(* The plan is well typed in every reachable state.                        *)
THEOREM PlanTypeCorrect == PlanSpec => []PlanTypeOK
  BY PlanTypeInit, PlanTypeStep, PTL DEF PlanSpec, PlanNext

-----------------------------------------------------------------------------
(* A step that registers nothing and neither abandons nor revives a task.  *)
Marked ==
  /\ UNCHANGED graph
  /\ \A t \in Tasks : /\ status'[t] = "absent" <=> status[t] = "absent"
                      /\ status'[t] = "abandoned" <=> status[t] = "abandoned"

(* Two edits register a task; any other step marks.                        *)
LEMMA Edits ==
  ASSUME PlanTypeOK, [PlanNext]_plan
  PROVE  \/ Marked
         \/ \E t \in Tasks, g \in Goals, ds \in SUBSET Tasks : AddTask(t, g, ds)
         \/ \E t, new \in Tasks : Repair(t, new)
<1>1. ASSUME NEW t \in Tasks, NEW from, NEW to, Mark(t, from, to),
             "absent" \notin from, "abandoned" \notin from,
             to # "absent", to # "abandoned"
      PROVE  Marked
  BY <1>1 DEF Mark, Marked, PlanTypeOK
<1>2. ASSUME NEW t \in Tasks, MarkRunning(t) \/ MarkSucceeded(t) \/ MarkFailed(t) \/ MarkBlocked(t)
      PROVE  Marked
  BY <1>1, <1>2 DEF MarkRunning, MarkSucceeded, MarkFailed, MarkBlocked, Open
<1>3. CASE UNCHANGED <<status, graph>>
  BY <1>3 DEF Marked
<1>4. CASE UNCHANGED plan
  BY <1>3, <1>4 DEF plan, graph
<1>5. CASE CreateRun
  BY <1>3, <1>5 DEF CreateRun
<1>6. CASE Transition
  BY <1>2, <1>3, <1>6 DEF Transition, AddGoal, SetLifecycle, CompleteRun, CancelRun
<1> QED
  BY <1>4, <1>5, <1>6 DEF PlanNext

(* No edit lets tasks wait for each other, for the two that register a     *)
(* task look (has_cycle).                                                  *)
THEOREM NoWaitingCircle == PlanSpec => []NoDeadlock
<1>1. PlanInit => NoDeadlock
  BY DEF PlanInit, NoDeadlock, HasCycle
<1>2. PlanTypeOK /\ NoDeadlock /\ [PlanNext]_plan => NoDeadlock'
  <2> SUFFICES ASSUME PlanTypeOK, NoDeadlock, [PlanNext]_plan PROVE NoDeadlock'
    OBVIOUS
  <2>1. CASE Marked
    BY <2>1 DEF Marked, graph, NoDeadlock, HasCycle
  <2>2. ASSUME NEW t \in Tasks, NEW g, NEW ds, NEW old, Register(t, g, ds, old) PROVE NoDeadlock'
    BY <2>2 DEF Register, NoDeadlock, HasCycle
  <2> QED
    BY <2>1, <2>2, Edits DEF AddTask, Repair
<1> QED
  BY <1>1, <1>2, PlanTypeCorrect, PTL DEF PlanSpec, PlanNext

-----------------------------------------------------------------------------
(* A task that is not registered replaces nothing, and the ranks are those *)
(* of a list.                                                              *)
Listed ==
  /\ \A t \in Tasks : supersedes[t] # None => status[t] # "absent"
  /\ \A t \in Registered : rank[t] <= Cardinality(Registered)

PlanInv == PlanTypeOK /\ Listed /\ AttemptsLinked

(* What an edit leaves alone.                                              *)
Same(t) == /\ deps'[t] = deps[t] /\ goal'[t] = goal[t]
           /\ supersedes'[t] = supersedes[t] /\ rank'[t] = rank[t]

LEMMA RegisteredFinite == /\ IsFiniteSet(Registered)
                          /\ Cardinality(Registered) \in Nat
<1>1. Registered \in SUBSET Tasks
  BY DEF Registered
<1> QED
  BY <1>1, PlanAssumption, FS_Subset, FS_CardinalityType

LEMMA RegisterStep ==
  ASSUME PlanTypeOK, NEW t \in Tasks, NEW g \in Goals, NEW ds, NEW old \in Tasks \cup {None},
         Register(t, g, ds, old),
         status'[t] # "absent", \A u \in Tasks \ {t} : status'[u] = "absent" <=> status[u] = "absent"
  PROVE  /\ \A u \in Tasks \ {t} : Same(u)
         /\ deps'[t] = ds /\ goal'[t] = g /\ supersedes'[t] = old
         /\ rank'[t] = Cardinality(Registered) + 1
         /\ Registered' = Registered \cup {t}
         /\ Cardinality(Registered)' = Cardinality(Registered) + 1
<1>1. /\ \A u \in Tasks \ {t} : Same(u)
      /\ deps'[t] = ds /\ goal'[t] = g /\ supersedes'[t] = old
      /\ rank'[t] = Cardinality(Registered) + 1
  BY DEF Register, PlanTypeOK, Same
<1>2. Registered' = Registered \cup {t} /\ t \notin Registered
  BY DEF Registered, Register
<1>3. Cardinality(Registered') = Cardinality(Registered) + 1
  BY <1>2, RegisteredFinite, FS_AddElement
<1> QED
  BY <1>1, <1>2, <1>3

LEMMA MarkedStep == PlanInv /\ Marked => Listed' /\ AttemptsLinked'
<1> SUFFICES ASSUME PlanInv, Marked PROVE Listed' /\ AttemptsLinked'
  OBVIOUS
<1>1. Registered' = Registered
  BY DEF Marked, Registered
<1>2. Cardinality(Registered)' = Cardinality(Registered)
  BY <1>1
<1>3. Listed'
  BY <1>1, <1>2 DEF PlanInv, Listed, Marked, graph
<1>4. AttemptsLinked'
  BY DEF PlanInv, AttemptsLinked, Marked, graph
<1> QED
  BY <1>3, <1>4

LEMMA AddTaskStep ==
  ASSUME PlanInv, NEW t \in Tasks, NEW g \in Goals, NEW ds \in SUBSET Tasks, AddTask(t, g, ds)
  PROVE  Listed' /\ AttemptsLinked'
<1>1. status' = [status EXCEPT ![t] = "pending"] /\ status[t] = "absent" /\ Register(t, g, ds, None)
  BY DEF AddTask, Register
<1>2. /\ status'[t] = "pending" /\ \A u \in Tasks \ {t} : status'[u] = status[u]
  BY <1>1 DEF PlanInv, PlanTypeOK
<1>3. /\ \A u \in Tasks \ {t} : Same(u)
      /\ supersedes'[t] = None
      /\ rank'[t] = Cardinality(Registered) + 1
      /\ Registered' = Registered \cup {t}
      /\ Cardinality(Registered)' = Cardinality(Registered) + 1
  BY <1>1, <1>2, RegisterStep DEF PlanInv
<1>4. Listed'
  <2>1. \A u \in Registered : rank[u] <= Cardinality(Registered) /\ rank[u] \in Nat
    BY DEF PlanInv, PlanTypeOK, Listed, Registered
  <2>2. \A u \in Registered' : rank'[u] <= Cardinality(Registered)'
    BY <1>3, <2>1, RegisteredFinite DEF Same, Registered
  <2>3. \A u \in Tasks : supersedes'[u] # None => status'[u] # "absent"
    BY <1>2, <1>3 DEF Same, PlanInv, Listed
  <2> QED
    BY <2>2, <2>3 DEF Listed
<1>5. AttemptsLinked'
  <2>1. \A r \in Tasks : supersedes[r] # t
    BY <1>1 DEF PlanInv, AttemptsLinked
  <2>2. \A r \in Tasks, u \in Tasks : supersedes'[r] = u => r # t /\ u # t /\ supersedes[r] = u
    BY <1>3, <2>1, PlanAssumption DEF Same
  <2>3. \A u \in Tasks : status'[u] = "abandoned" => \E r \in Tasks : supersedes'[r] = u
    <3> SUFFICES ASSUME NEW u \in Tasks, status'[u] = "abandoned"
                 PROVE  \E r \in Tasks : supersedes'[r] = u
      OBVIOUS
    <3>1. status[u] = "abandoned"
      BY <1>2
    <3>2. PICK r \in Tasks : supersedes[r] = u
      BY <3>1 DEF PlanInv, AttemptsLinked
    <3>3. r # t
      BY <1>1, <3>2, PlanAssumption DEF PlanInv, Listed
    <3> QED
      BY <1>3, <3>2, <3>3 DEF Same
  <2>4. \A u, r \in Tasks : supersedes'[r] = u =>
          /\ status'[u] = "abandoned" /\ status'[r] # "absent"
          /\ goal'[r] = goal'[u] /\ deps'[r] = deps'[u] /\ rank'[u] < rank'[r]
          /\ \A q \in Tasks : supersedes'[q] = u => q = r
    BY <1>2, <1>3, <2>2 DEF Same, PlanInv, AttemptsLinked
  <2> QED
    BY <2>3, <2>4 DEF AttemptsLinked
<1> QED
  BY <1>4, <1>5

LEMMA RepairStep ==
  ASSUME PlanInv, NEW t \in Tasks, NEW new \in Tasks, Repair(t, new)
  PROVE  Listed' /\ AttemptsLinked'
<1>1. /\ status' = [status EXCEPT ![t] = "abandoned", ![new] = "pending"]
      /\ status[new] = "absent" /\ status[t] \in {"failed", "blocked"}
      /\ Register(new, goal[t], deps[t], t) /\ goal[t] \in Goals
  BY DEF Repair, Register, PlanInv, PlanTypeOK
<1>2. /\ new # t /\ status'[t] = "abandoned" /\ status'[new] = "pending"
      /\ \A u \in Tasks \ {t, new} : status'[u] = status[u]
  BY <1>1 DEF PlanInv, PlanTypeOK
<1>3. /\ \A u \in Tasks \ {new} : Same(u)
      /\ deps'[new] = deps[t] /\ goal'[new] = goal[t] /\ supersedes'[new] = t
      /\ rank'[new] = Cardinality(Registered) + 1
      /\ Registered' = Registered \cup {new}
      /\ Cardinality(Registered)' = Cardinality(Registered) + 1
  <2>1. status'[new] # "absent" /\ \A u \in Tasks \ {new} : status'[u] = "absent" <=> status[u] = "absent"
    BY <1>1, <1>2
  <2> QED
    BY <1>1, <2>1, RegisterStep DEF PlanInv
<1>a. \A u \in Registered : rank[u] <= Cardinality(Registered) /\ rank[u] \in Nat
  BY DEF PlanInv, PlanTypeOK, Listed, Registered
<1>4. Listed'
  <2>2. \A u \in Registered' : rank'[u] <= Cardinality(Registered)'
    BY <1>3, <1>a, RegisteredFinite DEF Same, Registered
  <2>3. ASSUME NEW u \in Tasks, supersedes'[u] # None PROVE status'[u] # "absent"
    <3>1. CASE u \in {t, new}
      BY <1>2, <3>1
    <3>2. CASE u \notin {t, new}
      <4>1. supersedes[u] # None
        BY <1>3, <2>3, <3>2 DEF Same
      <4>2. status[u] # "absent"
        BY <4>1 DEF PlanInv, Listed
      <4> QED
        BY <1>2, <3>2, <4>2
    <3> QED
      BY <3>1, <3>2
  <2> QED
    BY <2>2, <2>3 DEF Listed
<1>5. AttemptsLinked'
  <2>1. \A r \in Tasks : supersedes[r] # new /\ supersedes[r] # t
    BY <1>1 DEF PlanInv, AttemptsLinked
  <2>2. \A r \in Tasks \ {new}, u \in Tasks :
          supersedes'[r] = u => u # t /\ u # new /\ supersedes[r] = u
    BY <1>3, <2>1 DEF Same
  <2>3. \A u \in Tasks : status'[u] = "abandoned" => \E r \in Tasks : supersedes'[r] = u
    <3> SUFFICES ASSUME NEW u \in Tasks, status'[u] = "abandoned", u # t
                 PROVE  \E r \in Tasks : supersedes'[r] = u
      BY <1>3
    <3>1. status[u] = "abandoned"
      BY <1>2
    <3>2. PICK r \in Tasks : supersedes[r] = u
      BY <3>1 DEF PlanInv, AttemptsLinked
    <3>3. r # new
      BY <1>1, <3>2, PlanAssumption DEF PlanInv, Listed
    <3> QED
      BY <1>3, <3>2, <3>3 DEF Same
  <2>4. ASSUME NEW u \in Tasks, NEW r \in Tasks, supersedes'[r] = u
        PROVE  /\ status'[u] = "abandoned" /\ status'[r] # "absent"
               /\ goal'[r] = goal'[u] /\ deps'[r] = deps'[u] /\ rank'[u] < rank'[r]
               /\ \A q \in Tasks : supersedes'[q] = u => q = r
    <3>1. CASE r = new
      <4>1. u = t
        BY <1>3, <2>4, <3>1
      <4>2. rank'[t] < rank'[new]
        BY <1>1, <1>2, <1>3, <1>a, RegisteredFinite DEF Same, Registered
      <4>3. \A q \in Tasks : supersedes'[q] = t => q = new
        BY <2>2
      <4>4. /\ status'[t] = "abandoned" /\ status'[new] # "absent"
            /\ goal'[new] = goal'[t] /\ deps'[new] = deps'[t]
        BY <1>2, <1>3 DEF Same
      <4> QED
        BY <3>1, <4>1, <4>2, <4>3, <4>4
    <3>2. CASE r # new
      <4>1. u # t /\ u # new /\ supersedes[r] = u
        BY <2>2, <2>4, <3>2
      <4>2. /\ status[u] = "abandoned" /\ status[r] # "absent"
            /\ goal[r] = goal[u] /\ deps[r] = deps[u] /\ rank[u] < rank[r]
            /\ \A q \in Tasks : supersedes[q] = u => q = r
        BY <4>1 DEF PlanInv, AttemptsLinked
      <4>3. \A q \in Tasks : supersedes'[q] = u => q = r
        BY <1>3, <2>2, <4>1, <4>2
      <4>4. status'[u] = "abandoned" /\ status'[r] # "absent"
        BY <1>2, <3>2, <4>1, <4>2
      <4> QED
        BY <1>3, <3>2, <4>1, <4>2, <4>3, <4>4 DEF Same
    <3> QED
      BY <3>1, <3>2
  <2> QED
    BY <2>3, <2>4 DEF AttemptsLinked
<1> QED
  BY <1>4, <1>5

LEMMA PlanInvInit == PlanInit => PlanInv
<1> SUFFICES ASSUME PlanInit PROVE PlanInv
  OBVIOUS
<1>1. Listed
  BY DEF PlanInit, Listed, Registered
<1>2. AttemptsLinked
  BY PlanAssumption DEF PlanInit, AttemptsLinked
<1> QED
  BY <1>1, <1>2, PlanTypeInit DEF PlanInv

LEMMA PlanInvStep == PlanInv /\ [PlanNext]_plan => PlanInv'
<1> SUFFICES ASSUME PlanInv, [PlanNext]_plan PROVE PlanInv'
  OBVIOUS
<1>1. PlanTypeOK'
  BY PlanTypeStep DEF PlanInv
<1>2. Listed' /\ AttemptsLinked'
  BY Edits, MarkedStep, AddTaskStep, RepairStep DEF PlanInv
<1> QED
  BY <1>1, <1>2 DEF PlanInv

LEMMA PlanInvariance == PlanSpec => []PlanInv
  BY PlanInvInit, PlanInvStep, PTL DEF PlanSpec, PlanNext

(* Every abandoned attempt has exactly one replacement, later and with its *)
(* goal and prerequisites (repair).                                        *)
THEOREM AttemptsReplaced == PlanSpec => []AttemptsLinked
<1>1. PlanInv => AttemptsLinked
  BY DEF PlanInv
<1> QED
  BY <1>1, PlanInvariance, PTL

-----------------------------------------------------------------------------
(* A registered task keeps its place, and what is settled stays so         *)
(* (mark_succeeded, repair).                                               *)
KeptStep ==
  \A t \in Registered :
    /\ UNCHANGED <<deps[t], goal[t], supersedes[t], rank[t]>>
    /\ status'[t] # "absent"
    /\ status[t] \in {"succeeded", "abandoned"} => status'[t] = status[t]

LEMMA SettledKept ==
  ASSUME PlanTypeOK, [PlanNext]_plan, NEW t \in Tasks, status[t] \in {"succeeded", "abandoned"}
  PROVE  status'[t] = status[t]
<1>1. ASSUME NEW u \in Tasks, NEW from \in SUBSET {"pending", "running"}, NEW to, Mark(u, from, to)
      PROVE  status'[t] = status[t]
  BY <1>1 DEF Mark, PlanTypeOK
<1>2. ASSUME NEW u \in Tasks, MarkRunning(u) \/ MarkSucceeded(u) \/ MarkFailed(u) \/ MarkBlocked(u)
      PROVE  status'[t] = status[t]
  BY <1>1, <1>2 DEF MarkRunning, MarkSucceeded, MarkFailed, MarkBlocked, Open
<1>3. ASSUME NEW u \in Tasks, NEW g, NEW ds, AddTask(u, g, ds) PROVE status'[t] = status[t]
  BY <1>3 DEF AddTask, Register, PlanTypeOK
<1>4. ASSUME NEW u \in Tasks, NEW new \in Tasks, Repair(u, new) PROVE status'[t] = status[t]
  BY <1>4 DEF Repair, Register, PlanTypeOK
<1>5. CASE UNCHANGED plan
  BY <1>5 DEF plan
<1>6. CASE CreateRun
  BY <1>6 DEF CreateRun
<1>7. CASE Transition
  BY <1>2, <1>3, <1>4, <1>7 DEF Transition, AddGoal, SetLifecycle, CompleteRun, CancelRun
<1> QED
  BY <1>5, <1>6, <1>7 DEF PlanNext

LEMMA KeptByStep == PlanTypeOK /\ [PlanNext]_plan => KeptStep
<1> SUFFICES ASSUME PlanTypeOK, [PlanNext]_plan, NEW t \in Registered
             PROVE  Same(t) /\ status'[t] # "absent"
  BY SettledKept DEF KeptStep, Same, Registered
<1>1. CASE Marked
  BY <1>1 DEF Marked, graph, Same, Registered
<1>2. ASSUME NEW u \in Tasks, NEW g, NEW ds, NEW old, Register(u, g, ds, old) PROVE Same(t)
  BY <1>2 DEF Register, Same, Registered, PlanTypeOK
<1>3. ASSUME NEW u \in Tasks, NEW g, NEW ds, AddTask(u, g, ds) PROVE status'[t] # "absent"
  BY <1>3 DEF AddTask, Registered, PlanTypeOK
<1>4. ASSUME NEW u \in Tasks, NEW new \in Tasks, Repair(u, new) PROVE status'[t] # "absent"
  BY <1>4 DEF Repair, Registered, PlanTypeOK
<1> QED
  BY <1>1, <1>2, <1>3, <1>4, Edits DEF AddTask, Repair

(* The plan forgets nothing: what is registered keeps its goal, place and  *)
(* prerequisites, and a success or an abandoned attempt is final.          *)
THEOREM NothingForgotten == PlanSpec => RecordKept
<1>1. PlanTypeOK /\ [PlanNext]_plan => [KeptStep]_plan
  BY KeptByStep
<1> QED
  BY <1>1, PlanTypeCorrect, PTL DEF PlanSpec, PlanNext, RecordKept, KeptStep

-----------------------------------------------------------------------------
(* Among the tasks of a goal registered after t there is a last one.       *)
Later(t) == {r \in Registered : goal[r] = goal[t] /\ rank[t] < rank[r]}

LEMMA LastLater ==
  ASSUME PlanInv, NEW t \in Tasks, Later(t) # {}
  PROVE  \E r \in Later(t) : \A q \in Later(t) : ~(rank[r] < rank[q])
<1> DEFINE Above(u) == {q \in Later(t) : rank[u] < rank[q]}
           Aboves == {Above(u) : u \in Later(t)}
<1>1. IsFiniteSet(Later(t))
  BY RegisteredFinite, FS_Subset DEF Later
<1>2. Aboves \subseteq FiniteSubsetsOf(Later(t)) /\ Aboves # {}
  <2>1. \A u \in Later(t) : Above(u) \in SUBSET Later(t) /\ IsFiniteSet(Above(u))
    BY <1>1, FS_Subset
  <2> QED
    BY <2>1 DEF FiniteSubsetsOf
<1>3. PICK X \in Aboves : \A Y \in Aboves : <<Y, X>> \notin StrictSubsetOrdering(Later(t))
  BY <1>2, FS_StrictSubsetOrderingWellFounded, WFMin
<1>4. PICK r \in Later(t) : X = Above(r)
  OBVIOUS
<1> SUFFICES ASSUME NEW q \in Later(t), rank[r] < rank[q] PROVE FALSE
  BY <1>4
<1>5. rank[r] \in Nat /\ rank[q] \in Nat /\ \A u \in Later(t) : rank[u] \in Nat
  BY DEF PlanInv, PlanTypeOK, Later, Registered
<1>6. Above(q) \subseteq Above(r) /\ q \in Above(r) /\ q \notin Above(q)
  BY <1>5
<1>7. <<Above(q), Above(r)>> \in StrictSubsetOrdering(Later(t))
  BY <1>6 DEF StrictSubsetOrdering
<1> QED
  BY <1>3, <1>4, <1>7

LEMMA LastSucceeded ==
  ASSUME PlanInv, GoalsComplete, NEW t \in Registered, status[t] # "succeeded"
  PROVE  \E r \in Tasks : /\ status[r] = "succeeded" /\ goal[r] = goal[t] /\ rank[t] < rank[r]
<1>1. ASSUME NEW u \in Registered, status[u] # "succeeded"
      PROVE  \E q \in Registered : goal[q] = goal[u] /\ rank[u] < rank[q]
  <2>1. status[u] = "abandoned" /\ u \in Tasks
    BY <1>1 DEF GoalsComplete, Registered
  <2> QED
    BY <2>1 DEF PlanInv, AttemptsLinked, Registered
<1>2. Later(t) # {}
  BY <1>1 DEF Later
<1>3. PICK r \in Later(t) : \A q \in Later(t) : ~(rank[r] < rank[q])
  BY <1>2, LastLater DEF Registered
<1>4. status[r] = "succeeded"
  <2> SUFFICES ASSUME status[r] # "succeeded" PROVE FALSE
    OBVIOUS
  <2>1. PICK q \in Registered : goal[q] = goal[r] /\ rank[r] < rank[q]
    BY <1>1 DEF Later
  <2>2. rank[t] \in Nat /\ rank[r] \in Nat /\ rank[q] \in Nat
    BY DEF PlanInv, PlanTypeOK, Later, Registered
  <2>3. q \in Later(t)
    BY <2>1, <2>2 DEF Later
  <2> QED
    BY <1>3, <2>1, <2>3
<1> QED
  BY <1>4 DEF Later, Registered

(* A run closed through its plan has a success after every attempt that    *)
(* was given up (complete_run).                                            *)
THEOREM CompletionDone == PlanSpec => []CompleteMeansDone
<1>1. PlanInit => CompleteMeansDone
  BY DEF PlanInit, CompleteMeansDone
<1>2. PlanInv /\ CompleteMeansDone /\ [PlanNext]_plan => CompleteMeansDone'
  <2> SUFFICES ASSUME PlanInv, CompleteMeansDone, [PlanNext]_plan, (lifecycle = "completed" /\ terminal)'
               PROVE  CompleteMeansDone'
    BY DEF CompleteMeansDone
  <2>1. CASE CompleteRun
    <3>1. GoalsComplete /\ UNCHANGED <<status, goal, rank>>
      BY <2>1 DEF CompleteRun, graph
    <3> QED
      BY <3>1, LastSucceeded DEF CompleteMeansDone, Registered
  <2>2. CASE UNCHANGED <<status, graph, lifecycle, terminal>>
    BY <2>2 DEF CompleteMeansDone, Registered, graph
  <2>3. CASE ~terminal' \/ lifecycle' = "cancelled"
    BY <2>3
  <2>4. ASSUME NEW t \in Tasks, MarkRunning(t) \/ MarkSucceeded(t) \/ MarkFailed(t) \/ MarkBlocked(t)
        PROVE  ~terminal'
    BY <2>4 DEF MarkRunning, MarkSucceeded, MarkFailed, MarkBlocked, Mark, Live
  <2>5. CASE Transition
    BY <2>1, <2>3, <2>4, <2>5
    DEF Transition, AddGoal, AddTask, Repair, SetLifecycle, CancelRun, Live
  <2> QED
    BY <2>2, <2>5 DEF PlanNext, CreateRun, plan, graph
<1> QED
  BY <1>1, <1>2, PlanInvariance, PTL DEF PlanSpec, PlanNext

-----------------------------------------------------------------------------
(* PlanDriver: the drivers of one plan.                                    *)

(* Places between the choice of a task and the record of its result.       *)
Chosen == {"check", "adopted", "begin"} \cup Working

(* What a driver knows of the task it has chosen.                          *)
Control(d) ==
  /\ at[d] \notin {"idle", "seed"} => seeded
  /\ at[d] \in Chosen => /\ todo[d] \in Registered
                         /\ \A p \in deps[todo[d]] : status[p] = "succeeded"
  /\ at[d] \in Working => status[todo[d]] # "pending"
  /\ at[d] = "child" => child[todo[d]] = "open"
  /\ at[d] \in {"adopted", "success"} => child[todo[d]] = "completed"

Unseeded == ~seeded => Registered = {}

IInv == /\ TypeOK /\ Unseeded /\ OneWorker /\ SuccessVerified
        /\ \A d \in Drivers : Control(d)

LEMMA IInvInit == Init => IInv
<1> SUFFICES ASSUME Init PROVE IInv
  OBVIOUS
<1>1. TypeOK
  <2>1. PlanTypeOK
    BY PlanTypeInit DEF Init
  <2>2. child \in [Tasks -> {"none", "open"} \cup Terminated]
    BY DriverAssumption DEF Init, Terminated
  <2>3. crashes \in 0 .. MaxCrashes
    BY DriverAssumption DEF Init
  <2> QED
    BY <2>1, <2>2, <2>3 DEF Init, TypeOK, Places
<1>2. Registered = {} /\ \A t \in Tasks : status[t] # "succeeded"
  BY DEF Init, PlanInit, Registered
<1>3. \A d \in Drivers : at[d] = "idle"
  BY DEF Init
<1>4. OneWorker /\ \A d \in Drivers : Control(d)
  BY <1>3 DEF OneWorker, Control, Chosen, Working
<1> QED
  BY <1>1, <1>2, <1>4 DEF IInv, Unseeded, SuccessVerified

-----------------------------------------------------------------------------
(* What a revision of the plan keeps, whoever makes it.                    *)
LEMMA Kept ==
  ASSUME PlanTypeOK, Unseeded, [Transition]_plan
  PROVE  /\ PlanTypeOK' /\ Unseeded' /\ (seeded => seeded')
         /\ \A t \in Registered :
              /\ t \in Registered' /\ deps'[t] = deps[t]
              /\ status[t] = "succeeded" => status'[t] = "succeeded"
              /\ status[t] # "pending" => status'[t] # "pending"
<1>1. [PlanNext]_plan
  BY DEF PlanNext
<1>2. PlanTypeOK' /\ KeptStep
  BY <1>1, PlanTypeStep, KeptByStep
<1>3. CASE UNCHANGED plan
  BY <1>2, <1>3 DEF plan, Unseeded, Registered
<1>4. CASE Transition
  <2>1. seeded /\ seeded'
    <3>1. ASSUME NEW u \in Tasks, NEW from, NEW to, Mark(u, from, to) PROVE seeded /\ seeded'
      BY <3>1 DEF Mark, Live
    <3>2. ASSUME NEW u, NEW g, NEW ds, AddTask(u, g, ds) PROVE seeded /\ seeded'
      BY <3>2 DEF AddTask, Live
    <3>3. ASSUME NEW u, NEW new, Repair(u, new) PROVE seeded /\ seeded'
      BY <3>3 DEF Repair, Live
    <3>4. ASSUME NEW g, NEW p, AddGoal(g, p) PROVE seeded /\ seeded'
      BY <3>4 DEF AddGoal, Live
    <3>5. ASSUME NEW l, SetLifecycle(l) PROVE seeded /\ seeded'
      BY <3>5 DEF SetLifecycle, Live
    <3>6. CASE CompleteRun \/ CancelRun
      BY <3>6 DEF CompleteRun, CancelRun, Live
    <3> QED
      BY <1>4, <3>1, <3>2, <3>3, <3>4, <3>5, <3>6
      DEF Transition, MarkRunning, MarkSucceeded, MarkFailed, MarkBlocked
  <2>2. ASSUME NEW t \in Registered, status[t] # "pending" PROVE status'[t] # "pending"
    <3>1. ASSUME NEW u \in Tasks, NEW from, NEW to, Mark(u, from, to), to # "pending"
          PROVE  status'[t] # "pending"
      BY <2>2, <3>1 DEF Mark, PlanTypeOK, Registered
    <3>2. ASSUME NEW u \in Tasks, MarkRunning(u) \/ MarkSucceeded(u) \/ MarkFailed(u) \/ MarkBlocked(u)
          PROVE  status'[t] # "pending"
      BY <3>1, <3>2 DEF MarkRunning, MarkSucceeded, MarkFailed, MarkBlocked
    <3>3. ASSUME NEW u \in Tasks, NEW g, NEW ds, AddTask(u, g, ds) PROVE status'[t] # "pending"
      BY <2>2, <3>3 DEF AddTask, Register, PlanTypeOK, Registered
    <3>4. ASSUME NEW u \in Tasks, NEW new \in Tasks, Repair(u, new) PROVE status'[t] # "pending"
      BY <2>2, <3>4 DEF Repair, Register, PlanTypeOK, Registered
    <3> QED
      BY <1>4, <2>2, <3>2, <3>3, <3>4
      DEF Transition, AddGoal, SetLifecycle, CompleteRun, CancelRun
  <2> QED
    BY <1>2, <2>1, <2>2 DEF KeptStep, Unseeded, Registered
<1> QED
  BY <1>3, <1>4

(* A driver that stays where it is keeps what it knows, if the child it    *)
(* relies on is left alone.                                                *)
LEMMA Bystander ==
  ASSUME IInv, [Transition]_plan, NEW e \in Drivers,
         at'[e] = at[e], todo'[e] = todo[e],
         at[e] \in {"child", "adopted", "success"} => child'[todo[e]] = child[todo[e]]
  PROVE  Control(e)'
<1>1. Control(e) /\ PlanTypeOK /\ Unseeded
  BY DEF IInv, TypeOK
<1>2. at[e] \notin {"idle", "seed"} => seeded'
  BY <1>1, Kept DEF Control
<1>3. ASSUME at[e] \in Chosen
      PROVE  /\ todo[e] \in Registered' /\ deps'[todo[e]] = deps[todo[e]]
             /\ \A p \in deps[todo[e]] : status'[p] = "succeeded"
  <2>1. todo[e] \in Registered /\ \A p \in deps[todo[e]] : status[p] = "succeeded"
    BY <1>1, <1>3 DEF Control
  <2>2. deps[todo[e]] \subseteq Tasks
    BY <1>1, <2>1 DEF PlanTypeOK, Registered
  <2>3. deps[todo[e]] \subseteq Registered
    BY <2>1, <2>2 DEF Registered
  <2> QED
    BY <1>1, <2>1, <2>3, Kept
<1>4. at[e] \in Working => status'[todo[e]] # "pending"
  <2>1. at[e] \in Working => todo[e] \in Registered /\ status[todo[e]] # "pending"
    BY <1>1 DEF Control, Chosen
  <2> QED
    BY <1>1, <2>1, Kept
<1>5. /\ at[e] = "child" => child'[todo[e]] = "open"
      /\ at[e] \in {"adopted", "success"} => child'[todo[e]] = "completed"
  BY <1>1 DEF Control
<1> QED
  BY <1>2, <1>3, <1>4, <1>5 DEF Control

(* Driver d alone moves.                                                   *)
Moves(d, place, task) ==
  /\ at' = [at EXCEPT ![d] = place]
  /\ todo' = [todo EXCEPT ![d] = task]

LEMMA Alone ==
  ASSUME TypeOK, NEW d \in Drivers, NEW place \in Places, NEW task \in Tasks \cup {None},
         Moves(d, place, task)
  PROVE  /\ at'[d] = place /\ todo'[d] = task
         /\ \A e \in Drivers \ {d} : at'[e] = at[e] /\ todo'[e] = todo[e]
         /\ at' \in [Drivers -> Places] /\ todo' \in [Drivers -> Tasks \cup {None}]
  BY DEF TypeOK, Moves

(* A driver that returns or goes on without a task knows nothing.          *)
LEMMA Free ==
  ASSUME IInv, [Transition]_plan, NEW d \in Drivers, NEW place \in {"idle", "seed", "adopt", "loop", "close"},
         NEW task \in Tasks \cup {None}, Moves(d, place, task), UNCHANGED child,
         place \in {"idle", "seed"} \/ seeded
  PROVE  OneWorker' /\ \A e \in Drivers : Control(e)'
<1>1. place \in Places
  BY DEF Places
<1>2. /\ at'[d] = place /\ \A e \in Drivers \ {d} : at'[e] = at[e] /\ todo'[e] = todo[e]
  BY <1>1, Alone DEF IInv
<1>3. Control(d)'
  BY <1>2, Kept DEF Control, Chosen, Working, IInv, TypeOK
<1>4. \A e \in Drivers \ {d} : Control(e)'
  BY <1>2, Bystander
<1>5. OneWorker'
  BY <1>2 DEF OneWorker, Working, IInv
<1> QED
  BY <1>3, <1>4, <1>5

(* A driver that goes on with the task it has chosen.                      *)
LEMMA GoesOn ==
  ASSUME IInv, [Transition]_plan, NEW d \in Drivers, NEW place \in Chosen,
         Moves(d, place, todo[d]), at[d] \in Chosen,
         place \in Working => \/ at[d] \in Working
                              \/ status[todo[d]] = "pending" /\ status'[todo[d]] # "pending",
         place = "child" => child'[todo[d]] = "open",
         place \in {"adopted", "success"} => child'[todo[d]] = "completed",
         \A e \in Drivers \ {d} : at[e] \in {"child", "adopted", "success"} =>
           child'[todo[e]] = child[todo[e]]
  PROVE  OneWorker' /\ \A e \in Drivers : Control(e)'
<1>1. /\ at'[d] = place /\ todo'[d] = todo[d]
      /\ \A e \in Drivers \ {d} : at'[e] = at[e] /\ todo'[e] = todo[e]
  <2>1. place \in Places /\ todo[d] \in Tasks \cup {None}
    BY DEF Chosen, Working, Places, IInv, TypeOK
  <2> QED
    BY <2>1, Alone DEF IInv
<1>2. \A e \in Drivers \ {d} : Control(e)'
  BY <1>1, Bystander
<1>3. /\ todo[d] \in Registered' /\ deps'[todo[d]] = deps[todo[d]]
      /\ \A p \in deps[todo[d]] : status'[p] = "succeeded"
      /\ seeded' /\ (status[todo[d]] # "pending" => status'[todo[d]] # "pending")
  <2>1. /\ seeded /\ todo[d] \in Registered /\ todo[d] \in Tasks
        /\ \A p \in deps[todo[d]] : status[p] = "succeeded"
    BY DEF IInv, Control, Chosen, Working, Registered
  <2>2. deps[todo[d]] \subseteq Registered
    BY <2>1 DEF IInv, TypeOK, PlanTypeOK, Registered
  <2> QED
    BY <2>1, <2>2, Kept DEF IInv, TypeOK
<1>4. Control(d)'
  <2>1. place \in Working => status'[todo[d]] # "pending"
    BY <1>3 DEF IInv, Control
  <2> QED
    BY <1>1, <1>3, <2>1 DEF Control
<1>5. OneWorker'
  <2> SUFFICES ASSUME NEW e \in Drivers \ {d}, place \in Working, at[e] \in Working
               PROVE  todo[e] # todo[d]
    BY <1>1 DEF OneWorker, IInv
  <2>1. CASE at[d] \in Working
    BY <2>1 DEF OneWorker, IInv
  <2>2. CASE status[todo[d]] = "pending"
    BY <2>2 DEF Control, IInv
  <2> QED
    BY <2>1, <2>2
<1> QED
  BY <1>2, <1>4, <1>5

-----------------------------------------------------------------------------
(* Successes come from mark_succeeded alone.                               *)
LEMMA NewSuccess ==
  ASSUME PlanTypeOK, [Transition]_plan, NEW t \in Tasks,
         status'[t] = "succeeded", status[t] # "succeeded"
  PROVE  \E u \in Tasks : MarkSucceeded(u)
<1>1. ASSUME NEW u \in Tasks, NEW from, NEW to, Mark(u, from, to) PROVE to = "succeeded"
  BY <1>1 DEF Mark, PlanTypeOK
<1>2. ASSUME NEW u \in Tasks, MarkRunning(u) \/ MarkFailed(u) \/ MarkBlocked(u) PROVE FALSE
  BY <1>1, <1>2 DEF MarkRunning, MarkFailed, MarkBlocked
<1>3. ASSUME NEW u \in Tasks, NEW g, NEW ds, AddTask(u, g, ds) PROVE FALSE
  BY <1>3 DEF AddTask, PlanTypeOK
<1>4. ASSUME NEW u \in Tasks, NEW new \in Tasks, Repair(u, new) PROVE FALSE
  BY <1>4 DEF Repair, PlanTypeOK
<1>5. CASE UNCHANGED plan
  BY <1>5 DEF plan
<1>6. CASE Transition
  BY <1>2, <1>3, <1>4, <1>6 DEF Transition, AddGoal, SetLifecycle, CompleteRun, CancelRun
<1> QED
  BY <1>5, <1>6

(* Every step but the creation of the plan revises it or leaves it.        *)
LEMMA TypeStep ==
  ASSUME IInv, [Transition]_plan,
         child' \in [Tasks -> {"none", "open"} \cup Terminated],
         good' \in [Tasks -> BOOLEAN],
         specs' \in [Drivers -> SpecLists \cup {<< >>}],
         crashes' \in 0 .. MaxCrashes,
         NEW d \in Drivers, NEW place \in Places, NEW task \in Tasks \cup {None}, Moves(d, place, task)
  PROVE  TypeOK' /\ Unseeded'
<1>1. PlanTypeOK' /\ Unseeded'
  BY Kept DEF IInv, TypeOK
<1> QED
  BY <1>1, Alone DEF IInv, TypeOK

(* The plan and the child are left alone, the driver is free afterwards.   *)
LEMMA FreeStep ==
  ASSUME IInv, UNCHANGED <<plan, child, good>>, crashes' \in 0 .. MaxCrashes,
         specs' \in [Drivers -> SpecLists \cup {<< >>}],
         NEW d \in Drivers, NEW place \in {"idle", "seed", "adopt", "loop", "close"},
         NEW task \in Tasks \cup {None}, Moves(d, place, task),
         place \in {"idle", "seed"} \/ seeded
  PROVE  IInv'
<1>1. [Transition]_plan /\ UNCHANGED child
  OBVIOUS
<1>2. place \in Places
  BY DEF Places
<1>3. TypeOK' /\ Unseeded'
  <2>1. child' \in [Tasks -> {"none", "open"} \cup Terminated] /\ good' \in [Tasks -> BOOLEAN]
    BY DEF IInv, TypeOK
  <2> QED
    BY <1>1, <1>2, <2>1, TypeStep
<1>4. OneWorker' /\ \A e \in Drivers : Control(e)'
  BY <1>1, Free
<1>5. SuccessVerified'
  BY DEF IInv, SuccessVerified, plan
<1> QED
  BY <1>3, <1>4, <1>5 DEF IInv

LEMMA RunPlanStep == ASSUME IInv, NEW d \in Drivers, RunPlan(d) PROVE IInv'
<1>1. PICK s \in SpecLists : specs' = [specs EXCEPT ![d] = s]
  BY DEF RunPlan
<1>2. specs' \in [Drivers -> SpecLists \cup {<< >>}]
  BY <1>1 DEF IInv, TypeOK
<1>3. todo[d] \in Tasks \cup {None} /\ todo' = [todo EXCEPT ![d] = todo[d]]
  BY DEF RunPlan, IInv, TypeOK
<1>4. Moves(d, IF seeded THEN "adopt" ELSE "seed", todo[d])
  BY <1>3 DEF RunPlan, Go, Moves
<1>5. UNCHANGED <<plan, child, good>> /\ crashes' \in 0 .. MaxCrashes
  BY DEF RunPlan, IInv, TypeOK
<1>6. CASE seeded
  BY <1>2, <1>3, <1>4, <1>5, <1>6, FreeStep
<1>7. CASE ~seeded
  BY <1>2, <1>3, <1>4, <1>5, <1>7, FreeStep
<1> QED
  BY <1>6, <1>7

(* A call that returns, or goes to a place where it needs no task.         *)
LEMMA QuietStep ==
  ASSUME IInv, UNCHANGED <<plan, child, good, specs>>, NEW d \in Drivers,
         crashes' \in 0 .. MaxCrashes,
         \/ Return(d)
         \/ seeded /\ UNCHANGED todo /\ \E place \in {"loop", "close"} : Go(d, place)
  PROVE  IInv'
<1> DEFINE Freed == \E place \in {"idle", "loop", "close"}, task \in Tasks \cup {None} :
                      Moves(d, place, task) /\ (place = "idle" \/ seeded)
<1>1. Freed
  <2>1. CASE Return(d)
    BY <2>1 DEF Return, Go, Moves
  <2>2. CASE seeded /\ UNCHANGED todo /\ \E place \in {"loop", "close"} : Go(d, place)
    <3>1. todo[d] \in Tasks \cup {None} /\ todo' = [todo EXCEPT ![d] = todo[d]]
      BY <2>2 DEF IInv, TypeOK
    <3> QED
      BY <2>2, <3>1 DEF Go, Moves
  <2> QED
    BY <2>1, <2>2
<1>2. PICK place \in {"idle", "loop", "close"}, task \in Tasks \cup {None} :
        Moves(d, place, task) /\ (place = "idle" \/ seeded)
  BY <1>1
<1>3. specs' \in [Drivers -> SpecLists \cup {<< >>}]
  BY DEF IInv, TypeOK
<1> QED
  BY <1>2, <1>3, FreeStep

LEMMA Quiet ==
  ASSUME IInv, NEW d \in Drivers, AdoptRecorded(d) \/ Crash(d) PROVE IInv'
<1>1. CASE AdoptRecorded(d)
  <2>1. seeded \/ ~Live
    BY DEF Live
  <2>2. crashes' \in 0 .. MaxCrashes /\ UNCHANGED <<plan, child, good, specs>>
    BY <1>1 DEF AdoptRecorded, IInv, TypeOK
  <2>3. \/ Return(d)
        \/ seeded /\ UNCHANGED todo /\ \E place \in {"loop", "close"} : Go(d, place)
    BY <1>1, <2>1 DEF AdoptRecorded
  <2> QED
    BY <2>2, <2>3, QuietStep
<1>2. CASE Crash(d)
  <2>1. crashes' \in 0 .. MaxCrashes
    BY <1>2, DriverAssumption DEF Crash, IInv, TypeOK
  <2> QED
    BY <1>2, <2>1, QuietStep DEF Crash
<1> QED
  BY <1>1, <1>2

LEMMA ProbeStep == ASSUME IInv, NEW d \in Drivers, Probe(d) PROVE IInv'
<1>1. UNCHANGED <<plan, child, good, specs, crashes>> /\ crashes' \in 0 .. MaxCrashes /\ at[d] = "loop"
  BY DEF Probe, IInv, TypeOK
<1>2. seeded
  BY <1>1 DEF IInv, Control
<1>3. CASE Return(d) \/ (Go(d, "close") /\ UNCHANGED todo)
  BY <1>1, <1>2, <1>3, QuietStep
<1>4. ASSUME NEW t \in Tasks, Ready(t), Go(d, "check"), todo' = [todo EXCEPT ![d] = t]
      PROVE  IInv'
  <2>1. Moves(d, "check", t) /\ "check" \in Places
    BY <1>4 DEF Moves, Go, Places
  <2>2. TypeOK' /\ Unseeded'
    <3>1. /\ child' \in [Tasks -> {"none", "open"} \cup Terminated] /\ good' \in [Tasks -> BOOLEAN]
          /\ specs' \in [Drivers -> SpecLists \cup {<< >>}]
      BY <1>1 DEF IInv, TypeOK
    <3> QED
      BY <1>1, <2>1, <3>1, TypeStep
  <2>3. /\ at'[d] = "check" /\ todo'[d] = t
        /\ \A e \in Drivers \ {d} : at'[e] = at[e] /\ todo'[e] = todo[e]
    BY <2>1, Alone DEF IInv
  <2>4. Control(d)'
    BY <1>1, <1>2, <1>4, <2>3 DEF Control, Working, plan, Ready, Registered
  <2>5. \A e \in Drivers \ {d} : Control(e)'
    BY <1>1, <2>3, Bystander
  <2>6. OneWorker' /\ SuccessVerified'
    BY <1>1, <2>3 DEF OneWorker, SuccessVerified, Working, plan, IInv
  <2> QED
    BY <2>2, <2>4, <2>5, <2>6 DEF IInv
<1> QED
  BY <1>3, <1>4 DEF Probe, FirstReady

(* The driver leaves the plan alone and goes on with its task.             *)
LEMMA SamePlan ==
  ASSUME IInv, UNCHANGED <<plan, specs, crashes>>, NEW d \in Drivers, at[d] \in Chosen,
         NEW place \in Chosen, Go(d, place), UNCHANGED todo,
         child' \in [Tasks -> {"none", "open"} \cup Terminated],
         good' \in [Tasks -> BOOLEAN],
         place \in Working => at[d] \in Working,
         place = "child" => child'[todo[d]] = "open",
         place \in {"adopted", "success"} => child'[todo[d]] = "completed",
         \A e \in Drivers \ {d} : at[e] \in {"child", "adopted", "success"} =>
           child'[todo[e]] = child[todo[e]],
         \A t \in Tasks : child[t] = "completed" => child'[t] = "completed"
  PROVE  IInv'
<1>1. todo[d] \in Tasks \cup {None} /\ todo' = [todo EXCEPT ![d] = todo[d]]
  BY DEF IInv, TypeOK
<1>2. Moves(d, place, todo[d]) /\ place \in Places
  BY <1>1 DEF Moves, Go, Chosen, Working, Places
<1>3. TypeOK' /\ Unseeded'
  <2>1. specs' \in [Drivers -> SpecLists \cup {<< >>}] /\ crashes' \in 0 .. MaxCrashes
    BY DEF IInv, TypeOK
  <2> QED
    BY <1>1, <1>2, <2>1, TypeStep
<1>4. OneWorker' /\ \A e \in Drivers : Control(e)'
  BY <1>2, GoesOn
<1>5. SuccessVerified'
  BY DEF SuccessVerified, IInv, plan
<1> QED
  BY <1>3, <1>4, <1>5 DEF IInv

LEMMA ChildSteps ==
  ASSUME IInv, NEW d \in Drivers,
         Check(d) \/ RunTask(d) \/ ChildEnd(d) \/ Report(d)
  PROVE  IInv'
<1>1. child \in [Tasks -> {"none", "open"} \cup Terminated] /\ good \in [Tasks -> BOOLEAN]
  BY DEF IInv, TypeOK
<1>2. {"check", "adopted", "begin", "run", "child", "report", "success", "failure"} = Chosen
  BY DEF Chosen, Working
<1>3. at[d] \in Chosen => todo[d] \in Tasks
  BY DEF IInv, Control, Registered
<1>4. CASE Check(d)
  <2>1. PICK place \in {"adopted", "begin"} :
          Go(d, place) /\ (place = "adopted" => child[todo[d]] = "completed")
    BY <1>4 DEF Check, Adoptable
  <2> QED
    BY <1>1, <1>2, <1>4, <2>1, SamePlan DEF Check, Working
<1>5. CASE Report(d)
  <2>1. PICK place \in {"success", "failure"} :
          Go(d, place) /\ (place = "success" => child[todo[d]] = "completed")
    BY <1>5 DEF Report, Adoptable
  <2> QED
    BY <1>1, <1>2, <1>5, <2>1, SamePlan DEF Report, Working
<1>6. CASE RunTask(d)
  <2>1. CASE child[todo[d]] \in Terminated
    BY <1>1, <1>2, <1>6, <2>1, SamePlan DEF RunTask, Working
  <2>2. CASE child[todo[d]] \notin Terminated
    <3>1. /\ Go(d, "child") /\ child' = [child EXCEPT ![todo[d]] = "open"]
          /\ UNCHANGED <<plan, good, todo, specs, crashes>> /\ at[d] = "run"
      BY <1>6, <2>2 DEF RunTask
    <3>2. /\ child'[todo[d]] = "open" /\ todo[d] \in Tasks
          /\ \A t \in Tasks : child[t] \in {"completed", "open"} => child'[t] = child[t]
      BY <1>1, <1>2, <1>3, <2>2, <3>1 DEF Terminated
    <3>3. \A e \in Drivers : at[e] \in {"child", "adopted", "success"} =>
            todo[e] \in Tasks /\ child[todo[e]] \in {"completed", "open"}
      BY <1>2 DEF IInv, Control, Registered
    <3>4. child' \in [Tasks -> {"none", "open"} \cup Terminated] /\ good' \in [Tasks -> BOOLEAN]
      BY <1>1, <3>1
    <3> QED
      BY <1>2, <3>1, <3>2, <3>3, <3>4, SamePlan DEF Working
  <2> QED
    BY <2>1, <2>2
<1>7. CASE ChildEnd(d)
  <2>1. PICK o \in Terminated : child' = [child EXCEPT ![todo[d]] = o]
    BY <1>7 DEF ChildEnd
  <2>2. at[d] = "child" /\ child[todo[d]] = "open" /\ todo[d] \in Tasks
    BY <1>2, <1>3, <1>7 DEF ChildEnd, IInv, Control
  <2>3. \A t \in Tasks : t # todo[d] => child'[t] = child[t]
    BY <1>1, <2>1
  <2>4. ASSUME NEW e \in Drivers \ {d}, at[e] \in {"child", "adopted", "success"}
        PROVE  child'[todo[e]] = child[todo[e]]
    <3>1. todo[e] \in Tasks
      BY <1>2, <2>4 DEF IInv, Control, Registered
    <3>2. todo[e] # todo[d]
      BY <2>2, <2>4 DEF IInv, OneWorker, Working, Control
    <3> QED
      BY <2>3, <3>1, <3>2
  <2>5. child' \in [Tasks -> {"none", "open"} \cup Terminated] /\ good' \in [Tasks -> BOOLEAN]
    BY <1>1, <1>7, <2>1 DEF ChildEnd
  <2>6. \A t \in Tasks : child[t] = "completed" => child'[t] = "completed"
    BY <2>2, <2>3
  <2> QED
    BY <1>2, <1>7, <2>2, <2>4, <2>5, <2>6, SamePlan DEF ChildEnd, Working
<1> QED
  BY <1>4, <1>5, <1>6, <1>7

(* A revision of the plan by a driver, or the error that ends its call.    *)
LEMMA RecordStep ==
  ASSUME IInv, [Transition]_plan, UNCHANGED <<child, good, specs, crashes>>, NEW d \in Drivers,
         \/ Return(d)
         \/ seeded /\ UNCHANGED todo /\ Go(d, "loop")
         \/ /\ at[d] = "begin" /\ UNCHANGED todo /\ Go(d, "run")
            /\ status[todo[d]] = "pending" /\ status'[todo[d]] # "pending",
         \A t \in Tasks : status'[t] = "succeeded" /\ status[t] # "succeeded" => child[t] = "completed"
  PROVE  IInv'
<1>1. \E place \in {"idle", "loop", "run"} : Moves(d, place, IF place = "idle" THEN None ELSE todo[d])
  <2>1. UNCHANGED todo => todo' = [todo EXCEPT ![d] = todo[d]]
    BY DEF IInv, TypeOK
  <2> QED
    BY <2>1 DEF Return, Go, Moves
<1>2. PICK place \in {"idle", "loop", "run"} : Moves(d, place, IF place = "idle" THEN None ELSE todo[d])
  BY <1>1
<1>3. place \in Places /\ todo[d] \in Tasks \cup {None}
  BY DEF Places, IInv, TypeOK
<1>4. TypeOK' /\ Unseeded'
  <2>1. /\ child' \in [Tasks -> {"none", "open"} \cup Terminated] /\ good' \in [Tasks -> BOOLEAN]
        /\ specs' \in [Drivers -> SpecLists \cup {<< >>}] /\ crashes' \in 0 .. MaxCrashes
    BY DEF IInv, TypeOK
  <2> QED
    BY <1>2, <1>3, <2>1, TypeStep
<1>5. SuccessVerified'
  BY DEF IInv, SuccessVerified
<1>6. at'[d] = place
  BY <1>2, <1>3, Alone DEF IInv
<1>7. place = "loop" => seeded
  BY <1>6 DEF Return, Go, IInv, TypeOK
<1>8. CASE place \in {"idle", "loop"}
  BY <1>2, <1>3, <1>4, <1>5, <1>7, <1>8, Free DEF IInv
<1>9. CASE place = "run"
  <2>1. at[d] = "begin" /\ status[todo[d]] = "pending" /\ status'[todo[d]] # "pending"
    BY <1>6, <1>9 DEF Return, Go, IInv, TypeOK
  <2>2. OneWorker' /\ \A e \in Drivers : Control(e)'
    <3>1. place \in Chosen /\ place # "child" /\ place \notin {"adopted", "success"} /\ at[d] \in Chosen
      BY <1>9, <2>1 DEF Chosen, Working
    <3>2. Moves(d, place, todo[d])
      BY <1>2, <1>9
    <3> QED
      BY <2>1, <3>1, <3>2, GoesOn
  <2> QED
    BY <1>4, <1>5, <2>2 DEF IInv
<1> QED
  BY <1>8, <1>9

LEMMA CloseStep == ASSUME IInv, NEW d \in Drivers, Close(d) PROVE IInv'
<1>1. [Transition]_plan
  BY DEF Close, Transition
<1>2. \A t \in Tasks : status'[t] = status[t]
  BY DEF Close, CompleteRun, plan
<1> QED
  BY <1>1, <1>2, RecordStep DEF Close

LEMMA RecordSteps ==
  ASSUME IInv, NEW d \in Drivers,
         MarkAdopted(d) \/ Begin(d) \/ RecordSuccess(d) \/ RecordFailure(d)
  PROVE  IInv'
<1>0. at[d] \in Chosen /\ seeded /\ todo[d] \in Tasks
  <2>1. at[d] \in {"adopted", "begin", "success", "failure"}
    BY DEF MarkAdopted, Begin, RecordSuccess, RecordFailure
  <2> QED
    BY <2>1 DEF Chosen, Working, IInv, Control, Registered
<1>1. UNCHANGED <<child, good, specs, crashes>>
  BY DEF MarkAdopted, Begin, RecordSuccess, RecordFailure, Record
<1>2. CASE UNCHANGED plan /\ Return(d)
  BY <1>1, <1>2, RecordStep DEF plan
<1>3. CASE /\ MarkSucceeded(todo[d]) /\ Go(d, "loop") /\ UNCHANGED todo
           /\ at[d] \in {"adopted", "success"}
  <2>1. child[todo[d]] = "completed"
    BY <1>3 DEF IInv, Control
  <2>2. \A t \in Tasks : status'[t] # status[t] => t = todo[d]
    BY <1>0, <1>3 DEF MarkSucceeded, Mark, IInv, TypeOK, PlanTypeOK
  <2>3. [Transition]_plan
    BY <1>0, <1>3 DEF Transition
  <2> QED
    BY <1>0, <1>1, <1>3, <2>1, <2>2, <2>3, RecordStep
<1>4. CASE MarkFailed(todo[d]) /\ Return(d)
  <2>1. \A t \in Tasks : status'[t] = "succeeded" => status[t] = "succeeded"
    BY <1>0, <1>4 DEF MarkFailed, Mark, IInv, TypeOK, PlanTypeOK
  <2>2. [Transition]_plan
    BY <1>0, <1>4 DEF Transition
  <2> QED
    BY <1>1, <1>4, <2>1, <2>2, RecordStep
<1>5. CASE MarkRunning(todo[d]) /\ Go(d, "run") /\ UNCHANGED todo /\ at[d] = "begin"
  <2>1. /\ \A t \in Tasks : status'[t] = "succeeded" => status[t] = "succeeded"
        /\ status[todo[d]] = "pending" /\ status'[todo[d]] # "pending"
    BY <1>0, <1>5 DEF MarkRunning, Mark, IInv, TypeOK, PlanTypeOK
  <2>2. [Transition]_plan
    BY <1>0, <1>5 DEF Transition
  <2> QED
    BY <1>1, <1>5, <2>1, <2>2, RecordStep
<1> QED
  BY <1>2, <1>3, <1>4, <1>5 DEF MarkAdopted, Begin, RecordSuccess, RecordFailure, Record

(* What happens beside the drivers, and the edits of a child.              *)
LEMMA OutsideStep ==
  ASSUME IInv, Operator \/ (\E t \in Tasks : Spoil(t)) \/ (\E d \in Drivers : ChildEdit(d))
  PROVE  IInv'
<1>1. [Transition]_plan /\ UNCHANGED <<child, at, todo, specs, crashes>>
  BY DEF Operator, Spoil, ChildEdit, Transition, driver
<1>2. good' \in [Tasks -> BOOLEAN]
  BY DEF Operator, Spoil, ChildEdit, IInv, TypeOK
<1>3. \A t \in Tasks : status'[t] = "succeeded" => status[t] = "succeeded"
  <2>1. CASE UNCHANGED plan
    BY <2>1 DEF plan
  <2>2. CASE Operator
    <3>1. ASSUME NEW u \in Tasks, NEW from, NEW to, Mark(u, from, to), to # "succeeded"
          PROVE  \A t \in Tasks : status'[t] = "succeeded" => status[t] = "succeeded"
      BY <3>1 DEF Mark, IInv, TypeOK, PlanTypeOK
    <3>2. ASSUME NEW u \in Tasks, NEW new \in Tasks, Repair(u, new)
          PROVE  \A t \in Tasks : status'[t] = "succeeded" => status[t] = "succeeded"
      BY <3>2 DEF Repair, IInv, TypeOK, PlanTypeOK
    <3> QED
      BY <2>2, <3>1, <3>2 DEF Operator, MarkFailed, MarkBlocked, SetLifecycle, CancelRun
  <2> QED
    BY <2>1, <2>2 DEF Spoil, ChildEdit
<1>4. TypeOK' /\ Unseeded'
  BY <1>1, <1>2, Kept DEF IInv, TypeOK
<1>5. \A d \in Drivers : Control(d)'
  BY <1>1, Bystander
<1> QED
  BY <1>1, <1>3, <1>4, <1>5 DEF IInv, OneWorker, SuccessVerified

(* The plan is created when no driver can rely on another.                 *)
LEMMA SeedStep == ASSUME IInv, NEW d \in Drivers, Seed(d) PROVE IInv'
<1>1. CASE Return(d) /\ UNCHANGED plan
  <2>1. UNCHANGED <<child, good, specs, crashes>> /\ [Transition]_plan
    BY <1>1 DEF Seed
  <2> QED
    BY <1>1, <2>1, RecordStep DEF plan
<1>2. CASE ~seeded /\ ~(Return(d) /\ UNCHANGED plan)
  <2> DEFINE s == specs[d]
             Place(t) == CHOOSE i \in 1 .. Len(s) : s[i] = t
  <2>1. /\ status' = [t \in Tasks |-> IF t \in ToSet(s) THEN "pending" ELSE "absent"]
        /\ rank'   = [t \in Tasks |-> IF t \in ToSet(s) THEN Place(t) ELSE 0]
        /\ goal'   = [t \in Tasks |-> IF t \in ToSet(s) THEN Top ELSE None]
        /\ deps'   = [t \in Tasks |-> IF t \in ToSet(s) /\ Place(t) > 1
                                      THEN {s[Place(t) - 1]} ELSE {}]
        /\ seeded' = TRUE /\ priority' = [g \in {Top} |-> 1]
        /\ UNCHANGED <<supersedes, lifecycle, terminal, todo>>
        /\ at' = [at EXCEPT ![d] = "adopt"]
        /\ UNCHANGED <<child, good, specs, crashes>>
    BY <1>2 DEF Seed, Go
  <2>2. s \in Seq(Tasks)
    <3>1. specs[d] \in SpecLists \cup {<< >>}
      BY DEF IInv, TypeOK
    <3>2. SpecLists \subseteq Seq(Tasks)
      BY DriverAssumption
    <3>3. << >> \in Seq(Tasks)
      OBVIOUS
    <3> QED
      BY <3>1, <3>2, <3>3
  <2>3. ASSUME NEW t \in ToSet(s)
        PROVE  Place(t) \in 1 .. Len(s) /\ s[Place(t)] = t
    <3>1. \E i \in 1 .. Len(s) : s[i] = t
      BY <2>2 DEF ToSet
    <3> QED
      BY <3>1
  <2>4. PlanTypeOK'
    <3>1. rank' \in [Tasks -> Nat]
      <4>1. \A t \in ToSet(s) : Place(t) \in Nat
        BY <2>2, <2>3
      <4> HIDE DEF Place, s
      <4> QED
        BY <2>1, <4>1
    <3>2. deps' \in [Tasks -> SUBSET Tasks]
      <4>1. ASSUME NEW t \in ToSet(s), Place(t) > 1 PROVE s[Place(t) - 1] \in Tasks
        <5>1. Place(t) \in 1 .. Len(s) /\ Len(s) \in Nat
          BY <2>2, <2>3
        <5> HIDE DEF Place, s
        <5>2. Place(t) - 1 \in 1 .. Len(s)
          BY <4>1, <5>1
        <5> QED
          BY <2>2, <5>2
      <4> HIDE DEF Place, s
      <4>2. ASSUME NEW t \in Tasks
            PROVE  (IF t \in ToSet(s) /\ Place(t) > 1 THEN {s[Place(t) - 1]} ELSE {}) \in SUBSET Tasks
        BY <4>1
      <4> QED
        BY <2>1, <4>2
    <3>3. status' \in [Tasks -> Statuses] /\ goal' \in [Tasks -> Goals \cup {None}]
      BY <2>1, DriverAssumption DEF Statuses
    <3>4. Declared' \subseteq Goals /\ priority' \in [Declared' -> Priorities]
      BY <2>1, DriverAssumption DEF Declared
    <3> QED
      BY <2>1, <3>1, <3>2, <3>3, <3>4 DEF PlanTypeOK, IInv, TypeOK
  <2>5. TypeOK' /\ Unseeded'
    BY <2>1, <2>4 DEF TypeOK, Unseeded, IInv, Places
  <2>6. \A e \in Drivers : at[e] \in {"idle", "seed"}
    BY <1>2 DEF IInv, Control
  <2>7. \A e \in Drivers : at'[e] \in {"idle", "seed", "adopt"} /\ seeded'
    BY <2>1, <2>6 DEF IInv, TypeOK
  <2>8. OneWorker' /\ \A e \in Drivers : Control(e)'
    BY <2>7 DEF OneWorker, Control, Chosen, Working
  <2>9. SuccessVerified'
    BY <2>1 DEF SuccessVerified
  <2> QED
    BY <2>5, <2>8, <2>9 DEF IInv
<1> QED
  BY <1>1, <1>2 DEF Seed

LEMMA IInvNext == IInv /\ [Next]_vars => IInv'
<1> SUFFICES ASSUME IInv, [Next]_vars PROVE IInv'
  OBVIOUS
<1>1. ASSUME NEW d \in Drivers, RunPlan(d) \/ Step(d) \/ Crash(d) PROVE IInv'
  BY <1>1, RunPlanStep, SeedStep, Quiet, ProbeStep, CloseStep, ChildSteps, RecordSteps DEF Step
<1>2. CASE UNCHANGED vars
  BY <1>2 DEF vars, plan, IInv, TypeOK, Unseeded, OneWorker, SuccessVerified, Control,
     PlanTypeOK, Declared, Registered
<1> QED
  BY <1>1, <1>2, OutsideStep DEF Next

LEMMA Invariance == Spec => []IInv
  BY IInvInit, IInvNext, PTL DEF Spec

-----------------------------------------------------------------------------
(* The driver's state is well typed in every reachable state.              *)
THEOREM TypeCorrect == Spec => []TypeOK
<1>1. IInv => TypeOK
  BY DEF IInv
<1> QED
  BY <1>1, Invariance, PTL

(* Whatever the drivers, operators and crashes, no two drivers work on one *)
(* task (run_plan's mark_running decides).                                 *)
THEOREM WorksAlone == Spec => []OneWorker
<1>1. IInv => OneWorker
  BY DEF IInv
<1> QED
  BY <1>1, Invariance, PTL

(* A task is worked on only after what it depends on has succeeded.        *)
THEOREM WorksInOrder == Spec => []InOrder
<1>1. IInv => InOrder
  BY DEF IInv, InOrder, Control, Chosen
<1> QED
  BY <1>1, Invariance, PTL

(* Every recorded success is a completed child.                            *)
THEOREM SuccessIsReal == Spec => []SuccessVerified
<1>1. IInv => SuccessVerified
  BY DEF IInv
<1> QED
  BY <1>1, Invariance, PTL

(* A child that ended stays ended, and no driver drives the child of a     *)
(* task that is done.                                                      *)
NotRedone ==
  \A t \in Tasks :
    /\ child[t] \in Terminated => child'[t] = child[t]
    /\ status[t] = "succeeded" \/ child[t] \in Terminated =>
         ~\E d \in Drivers : todo[d] = t /\ at'[d] = "child"

LEMMA NotRedoneStep == IInv /\ [Next]_vars => NotRedone \/ UNCHANGED vars
<1> SUFFICES ASSUME IInv, Next PROVE NotRedone
  BY DEF Next
<1>1. \A d \in Drivers : at[d] = "child" => child[todo[d]] = "open"
  BY DEF IInv, Control
<1>2. ASSUME NEW t \in Tasks, child[t] \in Terminated PROVE child'[t] = child[t]
  <2>1. ASSUME NEW d \in Drivers, RunTask(d) PROVE child'[t] = child[t]
    BY <1>2, <2>1 DEF RunTask, IInv, TypeOK
  <2>2. ASSUME NEW d \in Drivers, ChildEnd(d) PROVE child'[t] = child[t]
    BY <1>1, <1>2, <2>2 DEF ChildEnd, IInv, TypeOK, Terminated
  <2> QED
    BY <2>1, <2>2 DEF Next, Step, RunPlan, Seed, AdoptRecorded, Probe, Close, Check, MarkAdopted,
       Begin, Report, RecordSuccess, RecordFailure, Record, ChildEdit, Crash, Operator, Spoil
<1>3. ASSUME NEW d \in Drivers, at'[d] = "child"
      PROVE  child[todo[d]] \notin Terminated
  <2> DEFINE Fresh == at[d] = "child" \/ RunTask(d)
  <2>1. ASSUME NEW e \in Drivers, NEW place, Go(e, place), place # "child" PROVE at[d] = "child"
    BY <1>3, <2>1 DEF Go, IInv, TypeOK
  <2>2. ASSUME NEW e \in Drivers, Return(e) PROVE at[d] = "child"
    BY <2>1, <2>2 DEF Return
  <2>3. ASSUME NEW e \in Drivers, RunTask(e) PROVE Fresh
    BY <1>3, <2>1, <2>3 DEF RunTask, Go, IInv, TypeOK
  <2>4. ASSUME NEW e \in Drivers, MarkAdopted(e) \/ Begin(e) \/ RecordSuccess(e) \/ RecordFailure(e)
        PROVE  at[d] = "child"
    BY <2>1, <2>2, <2>4 DEF MarkAdopted, Begin, RecordSuccess, RecordFailure, Record
  <2>5. ASSUME NEW e \in Drivers, RunPlan(e) \/ Check(e) \/ Report(e) \/ ChildEnd(e)
        PROVE  at[d] = "child"
    BY <2>1, <2>5 DEF RunPlan, Check, Report, ChildEnd
  <2>6. ASSUME NEW e \in Drivers, Seed(e) \/ AdoptRecorded(e) \/ Probe(e) \/ Close(e) \/ Crash(e)
        PROVE  at[d] = "child"
    BY <2>1, <2>2, <2>6 DEF Seed, AdoptRecorded, Probe, Close, Crash
  <2>7. CASE Operator \/ (\E t \in Tasks : Spoil(t)) \/ (\E e \in Drivers : ChildEdit(e))
    BY <1>1, <1>3, <2>7 DEF Operator, Spoil, ChildEdit, driver, Terminated
  <2>8. Fresh \/ child[todo[d]] \notin Terminated
    BY <2>3, <2>4, <2>5, <2>6, <2>7 DEF Next, Step
  <2>9. RunTask(d) => child[todo[d]] \notin Terminated
    BY <1>3 DEF RunTask, Go, IInv, TypeOK
  <2> QED
    BY <1>1, <2>8, <2>9 DEF Terminated
<1> QED
  BY <1>2, <1>3 DEF NotRedone, IInv, SuccessVerified, Terminated

(* Nothing a child did is redone, however often run_plan is called and     *)
(* killed.                                                                 *)
THEOREM NothingRedone == Spec => NeverRerun
<1>1. IInv /\ [Next]_vars => [NotRedone]_vars
  BY NotRedoneStep
<1> QED
  BY <1>1, Invariance, PTL DEF Spec, NeverRerun, NotRedone
=============================================================================
