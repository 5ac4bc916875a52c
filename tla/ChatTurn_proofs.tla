--------------------------- MODULE ChatTurn_proofs ---------------------------
(* Theorems about ChatTurn, for any actions, plans, goals and faults.      *)
EXTENDS ChatTurn, FiniteSetTheorems, WellFoundedInduction, TLAPS

(* The parts of TypeOK: numbers, the plan, the worker, and what it may do. *)
Counters ==
  /\ goal \in Nat /\ goal <= MaxGoals /\ policy \in {"ask", "autonomous"}
  /\ rounds \in Nat /\ rounds <= MaxRounds
  /\ stamp \in Nat /\ faults \in Nat /\ stamp + rounds + faults <= MaxEvents
  /\ now \in Nat /\ script \in Nat /\ now + script <= faults
  /\ replayOf \in Nat /\ replayOf <= MaxGoals

Planning ==
  /\ plan \in Seq(SUBSET Nat) /\ tasks \in Seq(TaskStatuses) /\ Len(tasks) = Len(plan)
  /\ cur \in Nat

Control ==
  /\ status \in Statuses /\ replay \in Acts \cup {None} /\ unknown \in Acts \cup {None}
  /\ pc \in {"none", "drive", "plan", "pick", "decide", "asked", "effect", "review"}
  /\ by \in {"worker", "replay", "inspector", "reviewer"}
  /\ stop \in {"no", "user", "stall"}

Switches == seen \in BOOLEAN /\ up \in BOOLEAN

Asking == pending \in {Nothing} \cup Cards \cup Effects /\ queue \in Seq(Cards)

GrantSet == [need : Needs, act : Acts, scope : Scopes, id : Nat]
LeaseSet == [need : Needs, act : Acts, scope : Scopes, id : Nat \ {0}, ctx : Contexts,
   era : Nat]
Rights ==
  /\ grants \subseteq GrantSet
  /\ \A g \in grants : g.id <= stamp
  /\ leases \subseteq LeaseSet
  /\ \A l \in leases : l.id <= stamp /\ l.era <= now
  /\ left \in [Acts -> Int] /\ lasting \subseteq {"files", "commands"}

(* What is pending goes with where the worker is.                          *)
Placed ==
  /\ pc \in {"drive", "plan", "pick", "decide", "review"} => pending = Nothing
  /\ pc = "asked" => pending \in Cards /\ pending.task = 0
  /\ pc = "effect" => /\ pending \in Effects
                      /\ by \in {"inspector", "reviewer"} => pending.act \in Reads
                      /\ by = "reviewer" => AllDone(tasks)
  /\ pc = "review" => AllDone(tasks)
  /\ pc # "none" => status # "Completed"

(* Grants "once" of an action, each of which an approval has paid for.     *)
Once(a) == {g \in grants : g.need = "destructive" /\ g.scope = "once" /\ g.act = a}
Paid ==
  /\ \A g \in grants : g.need = "destructive" /\ g.scope # "once" => Category(g.act) \in lasting
  /\ \A a \in Acts : /\ IsFiniteSet(Once(a))
                     /\ Category(a) \notin lasting => Cardinality(Once(a)) <= left[a]

(* A shell grant is the user's own, or there is a lease that can end it,   *)
(* and a lease says where and when it was approved.                        *)
Backed(l) ==
  \E x \in allowed : x.act = l.act /\ x.scope = l.scope /\ x.ctx = l.ctx /\ x.era = l.era
Leased ==
  /\ \A g \in grants : g.need = "shell" =>
       \/ \E x \in allowed : x.act = g.act /\ x.scope = "user"
       \/ \E l \in leases : l.id = g.id /\ l.need = "shell" /\ l.act = g.act
  /\ \A l \in leases : l.need = "shell" =>
       Backed(l) /\ l.scope \in {"once", "conversation"} /\ l.ctx[1] <= goal

(* No card was made for a later goal.                                      *)
Dated ==
  /\ pending.kind = "card" => pending.ctx[1] \in 0 .. goal /\ pending.era \in 0 .. now
  /\ \A i \in DOMAIN queue : queue[i].ctx[1] \in 0 .. goal /\ queue[i].era \in 0 .. now

IInv == /\ Counters /\ Planning /\ Control /\ Switches /\ Asking /\ Rights
        /\ Placed /\ NothingForgotten /\ Dated /\ Paid /\ Leased

-----------------------------------------------------------------------------
(* What the provers are told of sets, numbers and sequences.               *)
LEMMA LeastNumber ==
  ASSUME NEW S, S \subseteq Nat, S # {}
  PROVE  \E x \in S : \A y \in S : x <= y
<1> DEFINE R == {ss \in Nat \X Nat : ss[1] < ss[2]}
<1>1. IsWellFoundedOn(R, Nat)
  BY NatLessThanWellFounded DEF OpToRel
<1>2. PICK x \in S : \A y \in S : ~ (<<y, x>> \in R)
  <2> HIDE DEF R
  <2> QED
    BY <1>1, WFMin
<1>3. ASSUME NEW y \in S PROVE x <= y
  <2>1. x \in Nat /\ y \in Nat /\ <<y, x>> \in Nat \X Nat
    OBVIOUS
  <2>2. ~(y < x)
    BY <1>2, <2>1
  <2> QED
    BY <2>1, <2>2
<1> QED
  BY <1>3

LEMMA SeqIsFunction ==
  ASSUME NEW S, NEW s \in Seq(S)
  PROVE  Len(s) \in Nat /\ DOMAIN s = 1 .. Len(s) /\ s \in [1 .. Len(s) -> S]
OBVIOUS

LEMMA FunctionIsSeq ==
  ASSUME NEW S, NEW n \in Nat, NEW f \in [1 .. n -> S]
  PROVE  f \in Seq(S) /\ Len(f) = n /\ DOMAIN f = 1 .. n
OBVIOUS

(* Leases and grants are only ever given up.                               *)
LEMMA Shrinks ==
  /\ \A ls, g, p : Refreshed(ls, g, p) \subseteq ls
  /\ \A gs, dropped : Revoke(gs, dropped) \subseteq gs
  /\ \A gs, need, a : Spend(gs, need, a) \subseteq gs
BY DEF Refreshed, Revoke, Spend

(* The grant that is used up is there.                                     *)
LEMMA SpendsOne ==
  ASSUME NEW gs, gs \subseteq GrantSet, NEW a \in Acts, ~ForCategory(gs, a),
         Granted(gs, "destructive", a)
  PROVE  \E g \in Exact(gs, "destructive", a) : Spend(gs, "destructive", a) = gs \ {g}
<1> DEFINE E == Exact(gs, "destructive", a)
           Ids == {g.id : g \in E}
           First(g) == g \in E /\ \A h \in E : g.id <= h.id
<1>1. E # {} /\ E \subseteq gs
  BY DEF Granted, Exact
<1>2. Ids \subseteq Nat /\ Ids # {}
  BY <1>1 DEF GrantSet
<1>3. PICK x \in Ids : \A y \in Ids : x <= y
  <2> HIDE DEF Ids
  <2> QED
    BY <1>2, LeastNumber
<1>4. \E g \in E : \A h \in E : g.id <= h.id
  BY <1>3
<1>5. Spend(gs, "destructive", a) = gs \ {CHOOSE g \in E : \A h \in E : g.id <= h.id}
  BY DEF Spend
<1> HIDE DEF E
<1>6. (CHOOSE g \in E : \A h \in E : g.id <= h.id) \in E
  BY <1>4
<1> QED
  BY <1>5, <1>6 DEF E

-----------------------------------------------------------------------------
(* The kinds of steps: a turn that ends, an action that is dispatched or   *)
(* asked for, and the steps that are like no other.                        *)
Ends ==
  \E s \in Ended, ts \in {tasks, [tasks EXCEPT ![cur] = "Done"]} :
    /\ pc # "none" /\ Finish(s, ts)
    /\ ts # tasks => pc = "decide"
    /\ s = "Completed" => AllDone(ts) /\ pc \in {"drive", "decide", "pick", "review"}
    /\ UNCHANGED <<request, plan, rounds, pending, queue, authority, seen, world, approvals,
                   unknown>>

ReplayMoves == \/ UNCHANGED <<replay, replayOf>>
               \/ replay' = None /\ replayOf' = 0

Actors == {"worker", "replay", "inspector", "reviewer"}

Dispatches(a, who) ==
  /\ Dispatch(a, who) /\ ReplayMoves
  /\ pc \in {"drive", "decide", "review"}
  /\ who \in {"inspector", "reviewer"} => a \in Reads
  /\ who = "reviewer" => pc = "review"

Proposes(need, a, who) ==
  Propose(need, a, who) /\ ReplayMoves /\ pc \in {"decide", "effect"}

Drops ==
  /\ pc = "decide" /\ replay' = None /\ replayOf' = 0
  /\ UNCHANGED <<request, status, work, pending, queue, grants, leases, stamp, seen,
                 worker, world, left, lasting, allowed, unknown>>

Goes ==
  /\ pc = "decide" /\ tasks' = [tasks EXCEPT ![cur] = "Done"] /\ pc' = "pick"
  /\ UNCHANGED <<request, status, plan, rounds, pending, queue, authority, seen,
                 cur, by, stop, world, approvals, unknown>>

Reviews ==
  /\ pc = "pick" /\ AllDone(tasks) /\ status' = "Reviewing" /\ pc' = "review"
  /\ UNCHANGED <<request, work, pending, queue, authority, seen, cur, by, stop,
                 world, approvals, unknown>>

Kinds ==
  \/ Ends
  \/ \E a \in Acts, who \in Actors : Dispatches(a, who)
  \/ \E need \in Needs, a \in Acts, who \in Actors : Proposes(need, a, who)
  \/ \E p \in {"ask", "autonomous"}, users \in SUBSET Commands : NewGoal(p, users)
  \/ \E p \in {"ask", "autonomous"}, users \in SUBSET Commands : Resume(p, users)
  \/ \E scope \in {"once", "conversation"} : Approve(scope)
  \/ \E completed \in BOOLEAN : Reconcile(completed)
  \/ Stop \/ Stall \/ Delete \/ Renew \/ Abandon \/ Planned \/ Pick \/ Drops \/ Enqueue
  \/ Goes \/ Observe \/ Reroute \/ Staged \/ ShowCard \/ Reviews \/ Repair
  \/ Crash \/ Recover \/ Tick \/ Edit \/ UNCHANGED vars

LEMMA AskProposes ==
  ASSUME NEW a \in Acts, NEW who \in Actors, Ask(a, who)
  PROVE  Need(a) \in Needs /\ Propose(Need(a), a, who)
<1>1. Need(a) # "none"
  BY DEF Ask, Granted
<1>2. Need(a) \in {"destructive", "shell", "none"}
  BY DEF Need
<1> QED
  BY <1>1, <1>2 DEF Ask, Needs

LEMMA EveryStep == IInv /\ [Next]_vars => Kinds
<1> SUFFICES ASSUME IInv, [Next]_vars PROVE Kinds
  OBVIOUS
<1>1. ASSUME NEW s \in {"Paused", "Needs input"}, pc # "none", Finish(s, tasks),
             UNCHANGED <<request, plan, rounds, pending, queue, authority, seen, world,
                         approvals, unknown>>
      PROVE  Kinds
  BY <1>1 DEF Ends, Ended, Kinds
<1>2. CASE Converse
  <2>1. AllDone(tasks)
    BY <1>2 DEF Converse, AllDone
  <2> QED
    BY <1>2, <2>1 DEF Converse, EndTurn, Ends, Ended, Kinds
<1>3. CASE Inspect
  BY <1>3 DEF Inspect, Dispatches, ReplayMoves, Acts, Actors, Kinds
<1>4. CASE Question
  BY <1>1, <1>4 DEF Question, EndTurn, Deciding
<1>5. CASE Fail
  BY <1>1, <1>5 DEF Fail, Failed
<1>6. CASE Replay
  <2>1. pc = "decide" /\ replay \in Acts /\ replay' = None /\ replayOf' = 0
    BY <1>6 DEF Replay, IInv, Control
  <2>2. CASE Dispatch(replay, "replay")
    BY <2>1, <2>2 DEF Dispatches, ReplayMoves, Actors, Kinds
  <2>3. CASE Ask(replay, "replay")
    <3>1. Need(replay) \in Needs /\ Propose(Need(replay), replay, "replay")
      BY <2>1, <2>3, AskProposes DEF Actors
    <3> QED
      BY <2>1, <3>1 DEF Proposes, ReplayMoves, Actors, Kinds
  <2>4. CASE UNCHANGED <<request, status, work, pending, queue, grants, leases, stamp, seen,
                         worker, world, left, lasting, allowed, unknown>>
    BY <2>1, <2>4 DEF Drops, Kinds
  <2> QED
    BY <1>6, <2>2, <2>3, <2>4 DEF Replay
<1>7. CASE Act
  <2>1. PICK a \in Acts : Dispatch(a, "worker") \/ Ask(a, "worker")
    BY <1>7 DEF Act
  <2>2. pc = "decide" /\ UNCHANGED <<replay, replayOf>>
    BY <1>7 DEF Act, Deciding
  <2>3. CASE Dispatch(a, "worker")
    BY <2>2, <2>3 DEF Dispatches, ReplayMoves, Actors, Kinds
  <2>4. CASE Ask(a, "worker")
    <3>1. Need(a) \in Needs /\ Propose(Need(a), a, "worker")
      BY <2>4, AskProposes DEF Actors
    <3> QED
      BY <2>2, <3>1 DEF Proposes, ReplayMoves, Actors, Kinds
  <2> QED
    BY <2>1, <2>3, <2>4
<1>8. CASE Present
  BY <1>1, <1>8 DEF Present, Failed
<1>9. CASE Complete
  <2>1. CASE EndTurn("Completed", [tasks EXCEPT ![cur] = "Done"])
             /\ AllDone([tasks EXCEPT ![cur] = "Done"])
    BY <1>9, <2>1 DEF Complete, Deciding, EndTurn, Ends, Ended, Kinds
  <2>2. CASE Goes
    BY <2>2 DEF Kinds
  <2> QED
    BY <1>9, <2>1, <2>2 DEF Complete, Deciding, Goes
<1>10. CASE NeedsGrant
  <2>1. pending.act \in Acts /\ by \in Actors
    BY <1>10 DEF NeedsGrant, IInv, Placed, Effects, Control, Actors
  <2> QED
    BY <1>10, <2>1 DEF NeedsGrant, Proposes, ReplayMoves, Needs, Kinds
<1>11. CASE Uncertain
  BY <1>1, <1>11 DEF Uncertain, Failed
<1>12. CASE LeaveRest
  BY <1>1, <1>12 DEF LeaveRest, NoneReady, EndTurn
<1>13. CASE Conclude
  <2>1. CASE EndTurn("Completed", tasks) /\ AllDone(tasks)
    BY <1>13, <2>1 DEF Conclude, NoneReady, EndTurn, Ends, Ended, Kinds
  <2>2. CASE Reviews
    BY <2>2 DEF Kinds
  <2> QED
    BY <1>13, <2>1, <2>2 DEF Conclude, NoneReady, Reviews
<1>14. CASE Read
  BY <1>14 DEF Read, Dispatches, ReplayMoves, Acts, Actors, Kinds
<1>15. CASE Accept
  BY <1>15 DEF Accept, EndTurn, IInv, Placed, Ends, Ended, Kinds
<1>16. CASE Panic
  BY <1>1, <1>16 DEF Panic
<1>17. CASE User
  BY <1>17 DEF User, Kinds
<1>18. CASE Planned \/ Pick \/ Enqueue \/ Observe \/ Reroute \/ Staged \/ ShowCard \/ Repair
  BY <1>18 DEF Kinds
<1>19. CASE Stall \/ Crash \/ Recover \/ Tick \/ Edit \/ UNCHANGED vars
  BY <1>19 DEF Kinds
<1> QED
  BY <1>2, <1>3, <1>4, <1>5, <1>6, <1>7, <1>8, <1>9, <1>10, <1>11, <1>12, <1>13, <1>14,
     <1>15, <1>16, <1>17, <1>18, <1>19 DEF Next, Worker

(* Each event takes one of those there may be.                             *)
LEMMA CountersStep == IInv /\ Kinds => Counters'
<1> SUFFICES ASSUME IInv, Kinds PROVE Counters'
  OBVIOUS
<1>0. Counters
  BY DEF IInv
<1> USE TurnAssumption, <1>0
<1>1. CASE Ends
  BY <1>1 DEF Ends, Finish, request, authority, worker, world, approvals, Counters
<1>2. ASSUME NEW a \in Acts, NEW who \in Actors, Dispatches(a, who)
      PROVE  Counters'
  BY <1>2 DEF Dispatches, Dispatch, request, work, world, ReplayMoves, Counters
<1>3. ASSUME NEW need \in Needs, NEW a \in Acts, NEW who \in Actors, Proposes(need, a, who)
      PROVE  Counters'
  BY <1>3 DEF Proposes, Propose, request, work, world, ReplayMoves, Counters
<1>4. ASSUME NEW p \in {"ask", "autonomous"}, NEW users \in SUBSET Commands, NewGoal(p, users)
      PROVE  Counters'
  BY <1>4 DEF NewGoal, Admit, world, Counters
<1>5. ASSUME NEW p \in {"ask", "autonomous"}, NEW users \in SUBSET Commands, Resume(p, users)
      PROVE  Counters'
  BY <1>5 DEF Resume, Admit, work, world, Counters
<1>6. ASSUME NEW scope \in {"once", "conversation"}, Approve(scope)
      PROVE  Counters'
  BY <1>6 DEF Approve, request, worker, world, Spare, Counters
<1>7. ASSUME NEW completed \in BOOLEAN, Reconcile(completed)
      PROVE  Counters'
  BY <1>7 DEF Reconcile, request, work, authority, worker, world, approvals, Counters
<1>8. CASE Stop
  BY <1>8 DEF Stop, request, work, authority, world, approvals, Counters
<1>9. CASE Stall
  BY <1>9 DEF Stall, request, work, authority, world, approvals, Counters
<1>10. CASE Delete
  BY <1>10 DEF Delete, request, work, authority, worker, world, approvals, Counters
<1>11. CASE Renew
  BY <1>11 DEF Renew, Answered, request, authority, worker, world, approvals, Counters
<1>12. CASE Abandon
  BY <1>12 DEF Abandon, Answered, request, authority, worker, world, approvals, Counters
<1>13. CASE Planned
  BY <1>13 DEF Planned, PlanWith, request, authority, world, approvals, Counters
<1>14. CASE Pick
  BY <1>14 DEF Pick, request, authority, world, approvals, Counters
<1>15. CASE Drops
  BY <1>15 DEF Drops, request, work, worker, world, Counters
<1>16. CASE Enqueue
  BY <1>16 DEF Enqueue, request, authority, worker, world, approvals, Counters
<1>17. CASE Goes
  BY <1>17 DEF Goes, request, authority, world, approvals, Counters
<1>18. CASE Observe
  BY <1>18 DEF Observe, request, authority, worker, world, approvals, Counters
<1>19. CASE Reroute
  BY <1>19 DEF Reroute, request, work, authority, worker, world, approvals, Counters
<1>20. CASE Staged
  BY <1>20 DEF Staged, Finish, request, authority, worker, world, approvals, Counters
<1>21. CASE ShowCard
  BY <1>21 DEF ShowCard, Finish, NoneReady, request, authority, worker, world, approvals,
     Counters
<1>22. CASE Reviews
  BY <1>22 DEF Reviews, request, work, authority, world, approvals, Counters
<1>23. CASE Repair
  BY <1>23 DEF Repair, Fault, Spare, PlanWith, request, authority, world, approvals, Counters
<1>24. CASE Crash
  BY <1>24 DEF Crash, Fault, request, work, authority, worker, approvals, Spare, Counters
<1>25. CASE Recover
  BY <1>25 DEF Recover, request, work, approvals, Counters
<1>26. CASE Tick
  BY <1>26 DEF Tick, Fault, request, work, authority, worker, approvals, Spare, Counters
<1>27. CASE Edit
  BY <1>27 DEF Edit, Fault, request, work, authority, worker, approvals, Spare, Counters
<1>28. CASE UNCHANGED vars
  BY <1>28 DEF vars, request, work, authority, worker, world, approvals, Counters
<1> QED
  BY <1>1, <1>2, <1>3, <1>4, <1>5, <1>6, <1>7, <1>8, <1>9, <1>10, <1>11, <1>12, <1>13,
     <1>14, <1>15, <1>16, <1>17, <1>18, <1>19, <1>20, <1>21, <1>22, <1>23, <1>24, <1>25,
     <1>26, <1>27, <1>28 DEF Kinds

LEMMA SwitchesStep == IInv /\ Kinds => Switches'
<1> SUFFICES ASSUME IInv, Kinds PROVE Switches'
  OBVIOUS
<1>0. Switches
  BY DEF IInv
<1> USE TurnAssumption, <1>0
<1>1. CASE Ends
  BY <1>1 DEF Ends, Finish, request, authority, worker, world, approvals, Switches
<1>2. ASSUME NEW a \in Acts, NEW who \in Actors, Dispatches(a, who)
      PROVE  Switches'
  BY <1>2 DEF Dispatches, Dispatch, request, work, world, Switches
<1>3. ASSUME NEW need \in Needs, NEW a \in Acts, NEW who \in Actors, Proposes(need, a, who)
      PROVE  Switches'
  BY <1>3 DEF Proposes, Propose, request, work, world, Switches
<1>4. ASSUME NEW p \in {"ask", "autonomous"}, NEW users \in SUBSET Commands, NewGoal(p, users)
      PROVE  Switches'
  BY <1>4 DEF NewGoal, Admit, world, Switches
<1>5. ASSUME NEW p \in {"ask", "autonomous"}, NEW users \in SUBSET Commands, Resume(p, users)
      PROVE  Switches'
  BY <1>5 DEF Resume, Admit, work, world, Switches
<1>6. ASSUME NEW scope \in {"once", "conversation"}, Approve(scope)
      PROVE  Switches'
  BY <1>6 DEF Approve, request, worker, world, Switches
<1>7. ASSUME NEW completed \in BOOLEAN, Reconcile(completed)
      PROVE  Switches'
  BY <1>7 DEF Reconcile, request, work, authority, worker, world, approvals, Switches
<1>8. CASE Stop
  BY <1>8 DEF Stop, request, work, authority, world, approvals, Switches
<1>9. CASE Stall
  BY <1>9 DEF Stall, request, work, authority, world, approvals, Switches
<1>10. CASE Delete
  BY <1>10 DEF Delete, request, work, authority, worker, world, approvals, Switches
<1>11. CASE Renew
  BY <1>11 DEF Renew, Answered, request, authority, worker, world, approvals, Switches
<1>12. CASE Abandon
  BY <1>12 DEF Abandon, Answered, request, authority, worker, world, approvals, Switches
<1>13. CASE Planned
  BY <1>13 DEF Planned, PlanWith, request, authority, world, approvals, Switches
<1>14. CASE Pick
  BY <1>14 DEF Pick, request, authority, world, approvals, Switches
<1>15. CASE Drops
  BY <1>15 DEF Drops, request, work, worker, world, Switches
<1>16. CASE Enqueue
  BY <1>16 DEF Enqueue, request, authority, worker, world, approvals, Switches
<1>17. CASE Goes
  BY <1>17 DEF Goes, request, authority, world, approvals, Switches
<1>18. CASE Observe
  BY <1>18 DEF Observe, request, authority, worker, world, approvals, Switches
<1>19. CASE Reroute
  BY <1>19 DEF Reroute, request, work, authority, worker, world, approvals, Switches
<1>20. CASE Staged
  BY <1>20 DEF Staged, Finish, request, authority, worker, world, approvals, Switches
<1>21. CASE ShowCard
  BY <1>21 DEF ShowCard, Finish, NoneReady, request, authority, worker, world, approvals,
     Switches
<1>22. CASE Reviews
  BY <1>22 DEF Reviews, request, work, authority, world, approvals, Switches
<1>23. CASE Repair
  BY <1>23 DEF Repair, Fault, Spare, PlanWith, request, authority, world, approvals, Switches
<1>24. CASE Crash
  BY <1>24 DEF Crash, Fault, request, work, authority, worker, approvals, Switches
<1>25. CASE Recover
  BY <1>25 DEF Recover, request, work, approvals, Switches
<1>26. CASE Tick
  BY <1>26 DEF Tick, Fault, request, work, authority, worker, approvals, Switches
<1>27. CASE Edit
  BY <1>27 DEF Edit, Fault, request, work, authority, worker, approvals, Switches
<1>28. CASE UNCHANGED vars
  BY <1>28 DEF vars, request, work, authority, worker, world, approvals, Switches
<1> QED
  BY <1>1, <1>2, <1>3, <1>4, <1>5, <1>6, <1>7, <1>8, <1>9, <1>10, <1>11, <1>12, <1>13,
     <1>14, <1>15, <1>16, <1>17, <1>18, <1>19, <1>20, <1>21, <1>22, <1>23, <1>24, <1>25,
     <1>26, <1>27, <1>28 DEF Kinds

(* The worker is somewhere.                                                *)
LEMMA ControlStep == IInv /\ Kinds => Control'
<1> SUFFICES ASSUME IInv, Kinds PROVE Control'
  OBVIOUS
<1>0. Control /\ Asking
  BY DEF IInv
<1> USE TurnAssumption, <1>0
<1>1. CASE Ends
  BY <1>1 DEF Ends, Finish, request, authority, worker, world, approvals, Control, Statuses,
     Resumed, Ended
<1>2. ASSUME NEW a \in Acts, NEW who \in Actors, Dispatches(a, who)
      PROVE  Control'
  BY <1>2 DEF Dispatches, Dispatch, request, work, world, ReplayMoves, Actors, Control
<1>3. ASSUME NEW need \in Needs, NEW a \in Acts, NEW who \in Actors, Proposes(need, a, who)
      PROVE  Control'
  BY <1>3 DEF Proposes, Propose, request, work, world, ReplayMoves, Actors, Control
<1>4. ASSUME NEW p \in {"ask", "autonomous"}, NEW users \in SUBSET Commands, NewGoal(p, users)
      PROVE  Control'
  BY <1>4 DEF NewGoal, Admit, world, Control, Statuses, Resumed, Ended
<1>5. ASSUME NEW p \in {"ask", "autonomous"}, NEW users \in SUBSET Commands, Resume(p, users)
      PROVE  Control'
  BY <1>5 DEF Resume, Admit, work, world, Control, Statuses, Resumed, Ended
<1>6. ASSUME NEW scope \in {"once", "conversation"}, Approve(scope)
      PROVE  Control'
  <2>1. pending.act \in Acts
    BY <1>6 DEF Approve, Idle, Asking, Nothing, Cards, Effects
  <2> QED
    BY <1>6, <2>1 DEF Approve, request, worker, world, Control, Statuses, Resumed, Ended
<1>7. ASSUME NEW completed \in BOOLEAN, Reconcile(completed)
      PROVE  Control'
  BY <1>7 DEF Reconcile, request, work, authority, worker, world, approvals, Control,
     Statuses, Resumed, Ended
<1>8. CASE Stop
  BY <1>8 DEF Stop, request, work, authority, world, approvals, Control, Statuses, Resumed,
     Ended
<1>9. CASE Stall
  BY <1>9 DEF Stall, request, work, authority, world, approvals, Control, Statuses, Resumed,
     Ended
<1>10. CASE Delete
  BY <1>10 DEF Delete, request, work, authority, worker, world, approvals, Control,
     Statuses, Resumed, Ended
<1>11. CASE Renew
  BY <1>11 DEF Renew, Answered, request, authority, worker, world, approvals, Control,
     Statuses, Resumed, Ended
<1>12. CASE Abandon
  BY <1>12 DEF Abandon, Answered, request, authority, worker, world, approvals, Control,
     Statuses, Resumed, Ended
<1>13. CASE Planned
  BY <1>13 DEF Planned, PlanWith, request, authority, world, approvals, Control, Statuses,
     Resumed, Ended
<1>14. CASE Pick
  BY <1>14 DEF Pick, request, authority, world, approvals, Control, Statuses, Resumed, Ended
<1>15. CASE Drops
  BY <1>15 DEF Drops, request, work, worker, world, Control, Statuses, Resumed, Ended
<1>16. CASE Enqueue
  BY <1>16 DEF Enqueue, request, authority, worker, world, approvals, Control, Statuses,
     Resumed, Ended
<1>17. CASE Goes
  BY <1>17 DEF Goes, request, authority, world, approvals, Control, Statuses, Resumed, Ended
<1>18. CASE Observe
  BY <1>18 DEF Observe, After, request, authority, world, approvals, Control, Statuses,
     Resumed, Ended
<1>19. CASE Reroute
  BY <1>19 DEF Reroute, request, work, authority, worker, world, approvals, Acts, Control,
     Statuses, Resumed, Ended
<1>20. CASE Staged
  BY <1>20 DEF Staged, Finish, request, authority, worker, world, approvals, Control,
     Statuses, Resumed, Ended
<1>21. CASE ShowCard
  BY <1>21 DEF ShowCard, Finish, NoneReady, request, authority, worker, world, approvals,
     Control, Statuses, Resumed, Ended
<1>22. CASE Reviews
  BY <1>22 DEF Reviews, request, work, authority, world, approvals, Control, Statuses,
     Resumed, Ended
<1>23. CASE Repair
  BY <1>23 DEF Repair, Fault, Spare, PlanWith, request, authority, world, approvals,
     Control, Statuses, Resumed, Ended
<1>24. CASE Crash
  BY <1>24 DEF Crash, Fault, request, work, authority, worker, approvals, Control, Statuses,
     Resumed, Ended
<1>25. CASE Recover
  BY <1>25 DEF Recover, request, work, approvals, Control, Statuses, Resumed, Ended
<1>26. CASE Tick
  BY <1>26 DEF Tick, Fault, request, work, authority, worker, approvals, Control, Statuses,
     Resumed, Ended
<1>27. CASE Edit
  BY <1>27 DEF Edit, Fault, request, work, authority, worker, approvals, Control, Statuses,
     Resumed, Ended
<1>28. CASE UNCHANGED vars
  BY <1>28 DEF vars, request, work, authority, worker, world, approvals, Control, Statuses,
     Resumed, Ended
<1> QED
  BY <1>1, <1>2, <1>3, <1>4, <1>5, <1>6, <1>7, <1>8, <1>9, <1>10, <1>11, <1>12, <1>13,
     <1>14, <1>15, <1>16, <1>17, <1>18, <1>19, <1>20, <1>21, <1>22, <1>23, <1>24, <1>25,
     <1>26, <1>27, <1>28 DEF Kinds

-----------------------------------------------------------------------------
(* What becomes of the tasks.                                              *)
LEMMA SetTask ==
  ASSUME NEW ts \in Seq(TaskStatuses), NEW t, NEW s \in TaskStatuses
  PROVE  LET us == [ts EXCEPT ![t] = s]
         IN /\ us \in Seq(TaskStatuses) /\ Len(us) = Len(ts) /\ DOMAIN us = DOMAIN ts
            /\ \A u \in DOMAIN ts : us[u] = IF u = t THEN s ELSE ts[u]
<1> DEFINE us == [ts EXCEPT ![t] = s]
<1>1. Len(ts) \in Nat /\ DOMAIN ts = 1 .. Len(ts) /\ ts \in [1 .. Len(ts) -> TaskStatuses]
  BY SeqIsFunction
<1>2. us \in [1 .. Len(ts) -> TaskStatuses]
  BY <1>1
<1>3. us \in Seq(TaskStatuses) /\ Len(us) = Len(ts) /\ DOMAIN us = DOMAIN ts
  BY <1>1, <1>2, FunctionIsSeq
<1> QED
  BY <1>1, <1>3

LEMMA FinishTasks ==
  ASSUME NEW ts \in Seq(TaskStatuses), NEW s, Finish(s, ts)
  PROVE  /\ tasks' \in Seq(TaskStatuses) /\ Len(tasks') = Len(ts) /\ DOMAIN tasks' = DOMAIN ts
         /\ \A t \in DOMAIN ts : tasks'[t] = IF ts[t] = "Working" THEN "Queued" ELSE ts[t]
         /\ AllDone(ts) => AllDone(tasks')
<1>1. Len(ts) \in Nat /\ DOMAIN ts = 1 .. Len(ts) /\ ts \in [1 .. Len(ts) -> TaskStatuses]
  BY SeqIsFunction
<1>2. tasks' = [t \in DOMAIN ts |-> IF ts[t] = "Working" THEN "Queued" ELSE ts[t]]
  BY DEF Finish
<1>3. tasks' \in [1 .. Len(ts) -> TaskStatuses]
  BY <1>1, <1>2 DEF TaskStatuses
<1>4. tasks' \in Seq(TaskStatuses) /\ Len(tasks') = Len(ts) /\ DOMAIN tasks' = DOMAIN ts
  BY <1>1, <1>3, FunctionIsSeq
<1> QED
  BY <1>2, <1>4 DEF AllDone

LEMMA AnsweredTasks ==
  ASSUME tasks \in Seq(TaskStatuses), NEW card, NEW s \in TaskStatuses, Answered(card, s)
  PROVE  /\ tasks' \in Seq(TaskStatuses) /\ Len(tasks') = Len(tasks)
         /\ DOMAIN tasks' = DOMAIN tasks
         /\ \A t \in DOMAIN tasks : tasks'[t] = IF t = card.task THEN s ELSE tasks[t]
<1>1. Len(tasks) \in Nat /\ DOMAIN tasks = 1 .. Len(tasks)
      /\ tasks \in [1 .. Len(tasks) -> TaskStatuses]
  BY SeqIsFunction
<1>2. tasks' = [t \in DOMAIN tasks |-> IF t = card.task THEN s ELSE tasks[t]]
  BY DEF Answered
<1>3. tasks' \in [1 .. Len(tasks) -> TaskStatuses]
  BY <1>1, <1>2
<1>4. tasks' \in Seq(TaskStatuses) /\ Len(tasks') = Len(tasks) /\ DOMAIN tasks' = DOMAIN tasks
  BY <1>1, <1>3, FunctionIsSeq
<1> QED
  BY <1>2, <1>4

LEMMA PlanTasks ==
  ASSUME NEW p \in Plans, PlanWith(p)
  PROVE  /\ plan' \in Seq(SUBSET Nat) /\ tasks' \in Seq(TaskStatuses)
         /\ Len(tasks') = Len(plan') /\ \A t \in DOMAIN tasks' : tasks'[t] = "Queued"
<1>1. p \in Seq(SUBSET Nat)
  BY TurnAssumption
<1>2. Len(p) \in Nat /\ DOMAIN p = 1 .. Len(p)
  BY <1>1
<1>3. plan' = p /\ tasks' = [t \in DOMAIN p |-> "Queued"]
  BY DEF PlanWith
<1>4. tasks' \in [1 .. Len(p) -> TaskStatuses]
  BY <1>2, <1>3 DEF TaskStatuses
<1>5. tasks' \in Seq(TaskStatuses) /\ Len(tasks') = Len(p) /\ DOMAIN tasks' = DOMAIN p
  BY <1>2, <1>4, FunctionIsSeq
<1> QED
  BY <1>1, <1>3, <1>5

LEMMA FirstReady ==
  ASSUME tasks \in Seq(TaskStatuses), Ready # {}
  PROVE  Min(Ready) \in Ready /\ Min(Ready) \in Nat
<1>1. Ready \subseteq Nat
  BY DEF Ready
<1>2. \E x \in Ready : \A y \in Ready : x <= y
  BY <1>1, LeastNumber
<1>3. (CHOOSE x \in Ready : \A y \in Ready : x <= y) \in Ready
  BY <1>2
<1> QED
  BY <1>1, <1>3 DEF Min

(* There is a status for each task of the plan.                            *)
LEMMA PlanningStep == IInv /\ Kinds => Planning'
<1> SUFFICES ASSUME IInv, Kinds PROVE Planning'
  OBVIOUS
<1>0. Planning
  BY DEF IInv
<1> USE TurnAssumption, <1>0
<1>1. CASE Ends
  <2>1. PICK s \in Ended, ts \in {tasks, [tasks EXCEPT ![cur] = "Done"]} :
               /\ pc # "none" /\ Finish(s, ts) /\ (ts # tasks => pc = "decide")
               /\ s = "Completed" => AllDone(ts) /\ pc \in {"drive", "decide", "pick",
                  "review"}
               /\ UNCHANGED <<request, plan, rounds, pending, queue, authority, seen, world,
                             approvals, unknown>>
    BY <1>1 DEF Ends
  <2>2. /\ ts \in Seq(TaskStatuses) /\ Len(ts) = Len(tasks) /\ DOMAIN ts = DOMAIN tasks
        /\ \A t \in DOMAIN ts : ts[t] = tasks[t] \/ ts[t] = "Done"
    <3>1. CASE ts = tasks
      BY <3>1 DEF Planning
    <3>2. CASE ts = [tasks EXCEPT ![cur] = "Done"]
      <4>1. "Done" \in TaskStatuses /\ tasks \in Seq(TaskStatuses)
        BY DEF Planning, TaskStatuses, Skipped
      <4> QED
        BY <3>2, <4>1, SetTask
    <3> QED
      BY <2>1, <3>1, <3>2
  <2>3. /\ tasks' \in Seq(TaskStatuses) /\ Len(tasks') = Len(ts) /\ DOMAIN tasks' = DOMAIN ts
        /\ \A t \in DOMAIN ts : tasks'[t] = IF ts[t] = "Working" THEN "Queued" ELSE ts[t]
        /\ AllDone(ts) => AllDone(tasks')
    BY <2>1, <2>2, FinishTasks
  <2> QED
    BY <2>1, <2>2, <2>3 DEF Finish, Planning
<1>2. ASSUME NEW a \in Acts, NEW who \in Actors, Dispatches(a, who)
      PROVE  Planning'
  BY <1>2 DEF Dispatches, Dispatch, request, work, world, Planning
<1>3. ASSUME NEW need \in Needs, NEW a \in Acts, NEW who \in Actors, Proposes(need, a, who)
      PROVE  Planning'
  BY <1>3 DEF Proposes, Propose, request, work, world, Planning
<1>4. ASSUME NEW p \in {"ask", "autonomous"}, NEW users \in SUBSET Commands, NewGoal(p, users)
      PROVE  Planning'
  BY <1>4 DEF NewGoal, Admit, Planning, TaskStatuses
<1>5. ASSUME NEW p \in {"ask", "autonomous"}, NEW users \in SUBSET Commands, Resume(p, users)
      PROVE  Planning'
  BY <1>5 DEF Resume, Admit, work, world, Planning
<1>6. ASSUME NEW scope \in {"once", "conversation"}, Approve(scope)
      PROVE  Planning'
  <2>1. Answered(pending, "Queued") /\ UNCHANGED <<plan, cur>>
    BY <1>6 DEF Approve, worker
  <2> QED
    BY <2>1, AnsweredTasks DEF Planning, TaskStatuses
<1>7. ASSUME NEW completed \in BOOLEAN, Reconcile(completed)
      PROVE  Planning'
  BY <1>7 DEF Reconcile, request, work, authority, worker, world, approvals, Planning
<1>8. CASE Stop
  BY <1>8 DEF Stop, request, work, authority, world, approvals, Planning
<1>9. CASE Stall
  BY <1>9 DEF Stall, request, work, authority, world, approvals, Planning
<1>10. CASE Delete
  BY <1>10 DEF Delete, request, work, authority, worker, world, approvals, Planning
<1>11. CASE Renew
  <2>1. Answered(pending, "Queued") /\ UNCHANGED <<plan, cur>>
    BY <1>11 DEF Renew, worker
  <2> QED
    BY <2>1, AnsweredTasks DEF Planning, TaskStatuses
<1>12. CASE Abandon
  <2>1. Answered(pending, "Declined") /\ UNCHANGED <<plan, cur>>
    BY <1>12 DEF Abandon, worker
  <2> QED
    BY <2>1, AnsweredTasks DEF Planning, TaskStatuses, Skipped
<1>13. CASE Planned
  <2>1. UNCHANGED cur /\ ((\E p \in Plans : PlanWith(p)) \/ UNCHANGED <<tasks, plan>>)
    BY <1>13 DEF Planned
  <2> QED
    BY <2>1, PlanTasks DEF Planning
<1>14. CASE Pick
  <2>1. Min(Ready) \in Nat
    BY <1>14, FirstReady DEF Pick, Planning
  <2>2. /\ cur' = Min(Ready) /\ tasks' = [tasks EXCEPT ![Min(Ready)] = "Working"]
        /\ UNCHANGED plan
    BY <1>14 DEF Pick
  <2>3. tasks' \in Seq(TaskStatuses) /\ Len(tasks') = Len(tasks)
    BY <2>2, SetTask DEF Planning, TaskStatuses
  <2> QED
    BY <2>1, <2>2, <2>3 DEF Planning
<1>15. CASE Drops
  BY <1>15 DEF Drops, request, work, worker, world, Planning
<1>16. CASE Enqueue
  <2>1. tasks' = [tasks EXCEPT ![cur] = "Awaiting approval"] /\ UNCHANGED <<plan, cur>>
    BY <1>16 DEF Enqueue
  <2>2. tasks' \in Seq(TaskStatuses) /\ Len(tasks') = Len(tasks)
    BY <2>1, SetTask DEF Planning, TaskStatuses, Skipped
  <2> QED
    BY <2>1, <2>2 DEF Planning
<1>17. CASE Goes
  <2>1. tasks' = [tasks EXCEPT ![cur] = "Done"] /\ UNCHANGED <<plan, cur>>
    BY <1>17 DEF Goes
  <2>2. tasks' \in Seq(TaskStatuses) /\ Len(tasks') = Len(tasks)
    BY <2>1, SetTask DEF Planning, TaskStatuses, Skipped
  <2> QED
    BY <2>1, <2>2 DEF Planning
<1>18. CASE Observe
  <2>1. UNCHANGED cur /\ ((tasks' = <<>> /\ plan' = <<>>) \/ UNCHANGED <<tasks, plan>>)
    BY <1>18 DEF Observe
  <2>2. CASE tasks' = <<>> /\ plan' = <<>>
    BY <2>1, <2>2 DEF Planning
  <2> QED
    BY <2>1, <2>2 DEF Planning
<1>19. CASE Reroute
  BY <1>19 DEF Reroute, request, work, authority, worker, world, approvals, Planning
<1>20. CASE Staged
  <2>1. cur' = 0 /\ UNCHANGED plan /\ \E s \in {"Upgrading", "Needs input"} : Finish(s, tasks)
    BY <1>20 DEF Staged, Finish
  <2> QED
    BY <2>1, FinishTasks DEF Planning
<1>21. CASE ShowCard
  <2>1. cur' = 0 /\ UNCHANGED plan /\ Finish("Paused", tasks)
    BY <1>21 DEF ShowCard, Finish
  <2> QED
    BY <2>1, FinishTasks DEF Planning
<1>22. CASE Reviews
  BY <1>22 DEF Reviews, request, work, authority, world, approvals, Planning
<1>23. CASE Repair
  <2>1. UNCHANGED cur /\ \E p \in Plans : PlanWith(p)
    BY <1>23 DEF Repair
  <2> QED
    BY <2>1, PlanTasks DEF Planning
<1>24. CASE Crash
  BY <1>24 DEF Crash, Fault, request, work, authority, worker, approvals, Planning
<1>25. CASE Recover
  BY <1>25 DEF Recover, request, work, approvals, Planning
<1>26. CASE Tick
  BY <1>26 DEF Tick, Fault, request, work, authority, worker, approvals, Planning
<1>27. CASE Edit
  BY <1>27 DEF Edit, Fault, request, work, authority, worker, approvals, Planning
<1>28. CASE UNCHANGED vars
  BY <1>28 DEF vars, request, work, authority, worker, world, approvals, Planning
<1> QED
  BY <1>1, <1>2, <1>3, <1>4, <1>5, <1>6, <1>7, <1>8, <1>9, <1>10, <1>11, <1>12, <1>13,
     <1>14, <1>15, <1>16, <1>17, <1>18, <1>19, <1>20, <1>21, <1>22, <1>23, <1>24, <1>25,
     <1>26, <1>27, <1>28 DEF Kinds

-----------------------------------------------------------------------------
LEMMA TaskNumber == ASSUME Planning, NEW t \in DOMAIN tasks PROVE t # 0
<1>1. tasks \in Seq(TaskStatuses)
  BY DEF Planning
<1>2. DOMAIN tasks = 1 .. Len(tasks)
  BY <1>1
<1> QED
  BY <1>2

LEMMA DatedKept ==
  ASSUME Dated, goal \in Nat, now \in Nat, goal' \in Nat, now' \in Nat,
         goal' >= goal, now' >= now, UNCHANGED <<pending, queue>>
  PROVE  Dated'
<1>1. 0 .. goal \subseteq 0 .. goal' /\ 0 .. now \subseteq 0 .. now'
  OBVIOUS
<1> QED
  BY <1>1 DEF Dated

LEMMA CardIsCard ==
  ASSUME Counters, NEW need \in Needs, NEW a \in Acts
  PROVE  /\ Card(need, a) \in Cards /\ Card(need, a).kind = "card"
         /\ Card(need, a).task = 0
         /\ Card(need, a).ctx[1] = goal /\ Card(need, a).era = now
<1>1. /\ goal \in 0 .. MaxGoals /\ now \in 0 .. MaxEvents /\ script \in 0 .. MaxEvents
      /\ 0 \in 0 .. MaxEvents
  BY TurnAssumption DEF Counters
<1>2. Context(need, goal, policy) \in Contexts /\ Context(need, goal, policy)[1] = goal
  BY <1>1 DEF Context, Contexts, Counters
<1> QED
  BY <1>1, <1>2 DEF Card, Cards

LEMMA QueueCard ==
  ASSUME NEW c \in Cards, NEW t \in Nat
  PROVE  LET d == [c EXCEPT !.task = t]
         IN d \in Cards /\ d.task = t /\ d.ctx = c.ctx /\ d.era = c.era /\ d.kind = "card"
BY DEF Cards

LEMMA QueueParts ==
  ASSUME NEW q \in Seq(Cards), NEW c \in Cards
  PROVE  /\ \A i \in DOMAIN q : q[i] \in Cards
         /\ Append(q, c) \in Seq(Cards)
         /\ DOMAIN Append(q, c) = DOMAIN q \cup {Len(q) + 1} /\ Append(q, c)[Len(q) + 1] = c
         /\ \A i \in DOMAIN q : Append(q, c)[i] = q[i]
OBVIOUS

LEMMA QueueHead ==
  ASSUME NEW q \in Seq(Cards), q # <<>>
  PROVE  /\ 1 \in DOMAIN q /\ Head(q) = q[1] /\ Head(q) \in Cards /\ Tail(q) \in Seq(Cards)
         /\ \A i \in DOMAIN q : i # 1 => i - 1 \in DOMAIN Tail(q) /\ Tail(q)[i - 1] = q[i]
         /\ \A i \in DOMAIN Tail(q) : i + 1 \in DOMAIN q /\ Tail(q)[i] = q[i + 1]
OBVIOUS

(* What is pending or waits is a card, or an effect.                       *)
LEMMA AskingStep == IInv /\ Kinds => Asking'
<1> SUFFICES ASSUME IInv, Kinds PROVE Asking'
  OBVIOUS
<1>0. Asking /\ Counters /\ Placed /\ Planning
  BY DEF IInv
<1> USE TurnAssumption, <1>0
<1>1. CASE Ends
  BY <1>1 DEF Ends, Finish, request, authority, worker, world, approvals, Asking
<1>2. ASSUME NEW a \in Acts, NEW who \in Actors, Dispatches(a, who)
      PROVE  Asking'
  BY <1>2 DEF Dispatches, Dispatch, Asking, Effect, Effects
<1>3. ASSUME NEW need \in Needs, NEW a \in Acts, NEW who \in Actors, Proposes(need, a, who)
      PROVE  Asking'
  <2>1. pending' = Card(need, a) /\ UNCHANGED queue
    BY <1>3 DEF Proposes, Propose
  <2> QED
    BY <2>1, CardIsCard DEF Asking
<1>4. ASSUME NEW p \in {"ask", "autonomous"}, NEW users \in SUBSET Commands, NewGoal(p, users)
      PROVE  Asking'
  BY <1>4 DEF NewGoal, Admit, Asking
<1>5. ASSUME NEW p \in {"ask", "autonomous"}, NEW users \in SUBSET Commands, Resume(p, users)
      PROVE  Asking'
  BY <1>5 DEF Resume, Admit, Asking
<1>6. ASSUME NEW scope \in {"once", "conversation"}, Approve(scope)
      PROVE  Asking'
  BY <1>6 DEF Approve, Asking
<1>7. ASSUME NEW completed \in BOOLEAN, Reconcile(completed)
      PROVE  Asking'
  BY <1>7 DEF Reconcile, Asking
<1>8. CASE Stop
  BY <1>8 DEF Stop, request, work, authority, world, approvals, Asking
<1>9. CASE Stall
  BY <1>9 DEF Stall, request, work, authority, world, approvals, Asking
<1>10. CASE Delete
  BY <1>10 DEF Delete, request, work, authority, worker, world, approvals, Asking
<1>11. CASE Renew
  BY <1>11 DEF Renew, Answered, Asking
<1>12. CASE Abandon
  BY <1>12 DEF Abandon, Answered, Asking
<1>13. CASE Planned
  BY <1>13 DEF Planned, PlanWith, request, authority, world, approvals, Asking
<1>14. CASE Pick
  BY <1>14 DEF Pick, request, authority, world, approvals, Asking
<1>15. CASE Drops
  BY <1>15 DEF Drops, request, work, worker, world, Asking
<1>16. CASE Enqueue
  <2>1. /\ pc = "asked" /\ pending' = Nothing
        /\ queue' = Append(queue, [pending EXCEPT !.task = cur])
    BY <1>16 DEF Enqueue
  <2>2. [pending EXCEPT !.task = cur] \in Cards
    BY <2>1, QueueCard DEF Placed, Planning
  <2> QED
    BY <2>1, <2>2, QueueParts DEF Asking
<1>17. CASE Goes
  BY <1>17 DEF Goes, request, authority, world, approvals, Asking
<1>18. CASE Observe
  BY <1>18 DEF Observe, Asking
<1>19. CASE Reroute
  BY <1>19 DEF Reroute, Acts, Asking, Effect, Effects
<1>20. CASE Staged
  BY <1>20 DEF Staged, Finish, Asking
<1>21. CASE ShowCard
  <2>1. queue # <<>> /\ pending' = Head(queue) /\ queue' = Tail(queue)
    BY <1>21 DEF ShowCard
  <2> QED
    BY <2>1, QueueHead DEF Asking
<1>22. CASE Reviews
  BY <1>22 DEF Reviews, request, work, authority, world, approvals, Asking
<1>23. CASE Repair
  BY <1>23 DEF Repair, Fault, Spare, PlanWith, request, authority, world, approvals, Asking
<1>24. CASE Crash
  BY <1>24 DEF Crash, Fault, request, work, authority, worker, approvals, Asking
<1>25. CASE Recover
  BY <1>25 DEF Recover, Asking
<1>26. CASE Tick
  BY <1>26 DEF Tick, Fault, request, work, authority, worker, approvals, Asking
<1>27. CASE Edit
  BY <1>27 DEF Edit, Fault, request, work, authority, worker, approvals, Asking
<1>28. CASE UNCHANGED vars
  BY <1>28 DEF vars, request, work, authority, worker, world, approvals, Asking
<1> QED
  BY <1>1, <1>2, <1>3, <1>4, <1>5, <1>6, <1>7, <1>8, <1>9, <1>10, <1>11, <1>12, <1>13,
     <1>14, <1>15, <1>16, <1>17, <1>18, <1>19, <1>20, <1>21, <1>22, <1>23, <1>24, <1>25,
     <1>26, <1>27, <1>28 DEF Kinds

(* What is pending goes with where the worker is.                          *)
LEMMA PlacedStep == IInv /\ Kinds => Placed'
<1> SUFFICES ASSUME IInv, Kinds PROVE Placed'
  OBVIOUS
<1>0. Placed /\ Counters /\ Asking /\ Control /\ CompletedIsClean
  BY DEF IInv, NothingForgotten
<1> USE TurnAssumption, <1>0
<1>1. CASE Ends
  BY <1>1 DEF Ends, Finish, Placed, Ended
<1>2. ASSUME NEW a \in Acts, NEW who \in Actors, Dispatches(a, who)
      PROVE  Placed'
  BY <1>2 DEF Dispatches, Dispatch, work, Effect, Effects, Placed, AllDone
<1>3. ASSUME NEW need \in Needs, NEW a \in Acts, NEW who \in Actors, Proposes(need, a, who)
      PROVE  Placed'
  <2>1. pending' = Card(need, a) /\ pc' = "asked" /\ pc # "none" /\ UNCHANGED status
    BY <1>3 DEF Proposes, Propose
  <2> QED
    BY <2>1, CardIsCard DEF Placed
<1>4. ASSUME NEW p \in {"ask", "autonomous"}, NEW users \in SUBSET Commands, NewGoal(p, users)
      PROVE  Placed'
  BY <1>4 DEF NewGoal, Admit, Idle, Placed
<1>5. ASSUME NEW p \in {"ask", "autonomous"}, NEW users \in SUBSET Commands, Resume(p, users)
      PROVE  Placed'
  BY <1>5 DEF Resume, Admit, Idle, Placed
<1>6. ASSUME NEW scope \in {"once", "conversation"}, Approve(scope)
      PROVE  Placed'
  BY <1>6 DEF Approve, worker, Idle, Placed
<1>7. ASSUME NEW completed \in BOOLEAN, Reconcile(completed)
      PROVE  Placed'
  BY <1>7 DEF Reconcile, request, work, authority, worker, world, approvals, Placed, Idle,
     AllDone, Deciding
<1>8. CASE Stop
  BY <1>8 DEF Stop, work, Placed, AllDone
<1>9. CASE Stall
  BY <1>9 DEF Stall, work, Placed, AllDone
<1>10. CASE Delete
  BY <1>10 DEF Delete, request, work, authority, worker, world, approvals, Placed, Idle,
     AllDone, Deciding
<1>11. CASE Renew
  BY <1>11 DEF Renew, worker, Idle, Placed
<1>12. CASE Abandon
  BY <1>12 DEF Abandon, worker, Idle, Placed
<1>13. CASE Planned
  BY <1>13 DEF Planned, PlanWith, request, authority, world, approvals, Placed, Idle,
     AllDone, Deciding
<1>14. CASE Pick
  BY <1>14 DEF Pick, request, authority, world, approvals, Placed, Idle, AllDone, Deciding
<1>15. CASE Drops
  BY <1>15 DEF Drops, request, work, worker, world, Placed, Idle, AllDone, Deciding
<1>16. CASE Enqueue
  BY <1>16 DEF Enqueue, Placed
<1>17. CASE Goes
  BY <1>17 DEF Goes, request, authority, world, approvals, Placed, Idle, AllDone, Deciding
<1>18. CASE Observe
  BY <1>18 DEF Observe, After, Placed, Control, AllDone
<1>19. CASE Reroute
  BY <1>19 DEF Reroute, Acts, Effect, Effects, Placed, worker, work
<1>20. CASE Staged
  BY <1>20 DEF Staged, Finish, request, authority, worker, world, approvals, Placed, Idle,
     AllDone, Deciding
<1>21. CASE ShowCard
  BY <1>21 DEF ShowCard, Finish, NoneReady, request, authority, worker, world, approvals,
     Placed, Idle, AllDone, Deciding
<1>22. CASE Reviews
  BY <1>22 DEF Reviews, work, Placed, AllDone
<1>23. CASE Repair
  BY <1>23 DEF Repair, Fault, Spare, PlanWith, request, authority, world, approvals, Placed,
     Idle, AllDone, Deciding
<1>24. CASE Crash
  BY <1>24 DEF Crash, Fault, request, work, authority, worker, approvals, Placed, Idle,
     AllDone, Deciding
<1>25. CASE Recover
  BY <1>25 DEF Recover, request, work, approvals, Placed, Idle, AllDone, Deciding
<1>26. CASE Tick
  BY <1>26 DEF Tick, Fault, request, work, authority, worker, approvals, Placed, Idle,
     AllDone, Deciding
<1>27. CASE Edit
  BY <1>27 DEF Edit, Fault, request, work, authority, worker, approvals, Placed, Idle,
     AllDone, Deciding
<1>28. CASE UNCHANGED vars
  BY <1>28 DEF vars, request, work, authority, worker, world, approvals, Placed, Idle,
     AllDone, Deciding
<1> QED
  BY <1>1, <1>2, <1>3, <1>4, <1>5, <1>6, <1>7, <1>8, <1>9, <1>10, <1>11, <1>12, <1>13,
     <1>14, <1>15, <1>16, <1>17, <1>18, <1>19, <1>20, <1>21, <1>22, <1>23, <1>24, <1>25,
     <1>26, <1>27, <1>28 DEF Kinds

(* What may have had an effect stays on record.                            *)
LEMMA UnknownIsPendingStep == IInv /\ Kinds => UnknownIsPending'
<1> SUFFICES ASSUME IInv, Kinds PROVE UnknownIsPending'
  OBVIOUS
<1>0. UnknownIsPending /\ Placed
  BY DEF IInv, NothingForgotten
<1> USE TurnAssumption, <1>0
<1>1. CASE Ends
  BY <1>1 DEF Ends, UnknownIsPending
<1>2. ASSUME NEW a \in Acts, NEW who \in Actors, Dispatches(a, who)
      PROVE  UnknownIsPending'
  BY <1>2 DEF Dispatches, Dispatch, request, work, world, UnknownIsPending
<1>3. ASSUME NEW need \in Needs, NEW a \in Acts, NEW who \in Actors, Proposes(need, a, who)
      PROVE  UnknownIsPending'
  BY <1>3 DEF Proposes, Propose, UnknownIsPending
<1>4. ASSUME NEW p \in {"ask", "autonomous"}, NEW users \in SUBSET Commands, NewGoal(p, users)
      PROVE  UnknownIsPending'
  BY <1>4 DEF NewGoal, Admit, Nothing, Effect, UnknownIsPending
<1>5. ASSUME NEW p \in {"ask", "autonomous"}, NEW users \in SUBSET Commands, Resume(p, users)
      PROVE  UnknownIsPending'
  BY <1>5 DEF Resume, Admit, Nothing, Effect, UnknownIsPending
<1>6. ASSUME NEW scope \in {"once", "conversation"}, Approve(scope)
      PROVE  UnknownIsPending'
  BY <1>6 DEF Approve, UnknownIsPending, Effect
<1>7. ASSUME NEW completed \in BOOLEAN, Reconcile(completed)
      PROVE  UnknownIsPending'
  BY <1>7 DEF Reconcile, request, work, authority, worker, world, approvals, UnknownIsPending
<1>8. CASE Stop
  BY <1>8 DEF Stop, request, work, authority, world, approvals, UnknownIsPending
<1>9. CASE Stall
  BY <1>9 DEF Stall, request, work, authority, world, approvals, UnknownIsPending
<1>10. CASE Delete
  BY <1>10 DEF Delete, request, work, authority, worker, world, approvals, UnknownIsPending
<1>11. CASE Renew
  BY <1>11 DEF Renew, Effect, UnknownIsPending
<1>12. CASE Abandon
  BY <1>12 DEF Abandon, Effect, UnknownIsPending
<1>13. CASE Planned
  BY <1>13 DEF Planned, PlanWith, request, authority, world, approvals, UnknownIsPending
<1>14. CASE Pick
  BY <1>14 DEF Pick, request, authority, world, approvals, UnknownIsPending
<1>15. CASE Drops
  BY <1>15 DEF Drops, request, work, worker, world, UnknownIsPending
<1>16. CASE Enqueue
  <2>1. pending.kind = "card" /\ unknown' = unknown
    BY <1>16 DEF Enqueue, Placed, Cards
  <2>2. unknown = None
    BY <2>1 DEF Effect, UnknownIsPending
  <2> QED
    BY <2>1, <2>2 DEF UnknownIsPending
<1>17. CASE Goes
  BY <1>17 DEF Goes, request, authority, world, approvals, UnknownIsPending
<1>18. CASE Observe
  BY <1>18 DEF Observe, request, authority, worker, world, approvals, UnknownIsPending
<1>19. CASE Reroute
  BY <1>19 DEF Reroute, request, work, authority, worker, world, approvals, UnknownIsPending
<1>20. CASE Staged
  BY <1>20 DEF Staged, Finish, request, authority, worker, world, approvals, UnknownIsPending
<1>21. CASE ShowCard
  BY <1>21 DEF ShowCard, NoneReady, Placed, Nothing, Effect, UnknownIsPending
<1>22. CASE Reviews
  BY <1>22 DEF Reviews, request, work, authority, world, approvals, UnknownIsPending
<1>23. CASE Repair
  BY <1>23 DEF Repair, Fault, Spare, PlanWith, request, authority, world, approvals,
     UnknownIsPending
<1>24. CASE Crash
  BY <1>24 DEF Crash, Fault, request, work, authority, worker, approvals, UnknownIsPending
<1>25. CASE Recover
  BY <1>25 DEF Recover, request, work, approvals, UnknownIsPending
<1>26. CASE Tick
  BY <1>26 DEF Tick, Fault, request, work, authority, worker, approvals, UnknownIsPending
<1>27. CASE Edit
  BY <1>27 DEF Edit, Fault, request, work, authority, worker, approvals, UnknownIsPending
<1>28. CASE UNCHANGED vars
  BY <1>28 DEF vars, request, work, authority, worker, world, approvals, UnknownIsPending
<1> QED
  BY <1>1, <1>2, <1>3, <1>4, <1>5, <1>6, <1>7, <1>8, <1>9, <1>10, <1>11, <1>12, <1>13,
     <1>14, <1>15, <1>16, <1>17, <1>18, <1>19, <1>20, <1>21, <1>22, <1>23, <1>24, <1>25,
     <1>26, <1>27, <1>28 DEF Kinds

(* A goal is completed when nothing is left of it.                         *)
LEMMA CompletedIsCleanStep == IInv /\ Kinds => CompletedIsClean'
<1> SUFFICES ASSUME IInv, Kinds PROVE CompletedIsClean'
  OBVIOUS
<1>0. CompletedIsClean /\ Placed /\ Planning
  BY DEF IInv, NothingForgotten
<1> USE TurnAssumption, <1>0
<1>1. CASE Ends
  <2>1. PICK s \in Ended, ts \in {tasks, [tasks EXCEPT ![cur] = "Done"]} :
               /\ pc # "none" /\ Finish(s, ts) /\ (ts # tasks => pc = "decide")
               /\ s = "Completed" => AllDone(ts) /\ pc \in {"drive", "decide", "pick",
                  "review"}
               /\ UNCHANGED <<request, plan, rounds, pending, queue, authority, seen, world,
                             approvals, unknown>>
    BY <1>1 DEF Ends
  <2>2. /\ ts \in Seq(TaskStatuses) /\ Len(ts) = Len(tasks) /\ DOMAIN ts = DOMAIN tasks
        /\ \A t \in DOMAIN ts : ts[t] = tasks[t] \/ ts[t] = "Done"
    <3>1. CASE ts = tasks
      BY <3>1 DEF Planning
    <3>2. CASE ts = [tasks EXCEPT ![cur] = "Done"]
      <4>1. "Done" \in TaskStatuses /\ tasks \in Seq(TaskStatuses)
        BY DEF Planning, TaskStatuses, Skipped
      <4> QED
        BY <3>2, <4>1, SetTask
    <3> QED
      BY <2>1, <3>1, <3>2
  <2>3. /\ tasks' \in Seq(TaskStatuses) /\ Len(tasks') = Len(ts) /\ DOMAIN tasks' = DOMAIN ts
        /\ \A t \in DOMAIN ts : tasks'[t] = IF ts[t] = "Working" THEN "Queued" ELSE ts[t]
        /\ AllDone(ts) => AllDone(tasks')
    BY <2>1, <2>2, FinishTasks
  <2> QED
    BY <2>1, <2>2, <2>3 DEF Finish, Ended, Placed, CompletedIsClean
<1>2. ASSUME NEW a \in Acts, NEW who \in Actors, Dispatches(a, who)
      PROVE  CompletedIsClean'
  BY <1>2 DEF Dispatches, Dispatch, Placed, CompletedIsClean
<1>3. ASSUME NEW need \in Needs, NEW a \in Acts, NEW who \in Actors, Proposes(need, a, who)
      PROVE  CompletedIsClean'
  BY <1>3 DEF Proposes, Propose, Placed, CompletedIsClean
<1>4. ASSUME NEW p \in {"ask", "autonomous"}, NEW users \in SUBSET Commands, NewGoal(p, users)
      PROVE  CompletedIsClean'
  BY <1>4 DEF NewGoal, Admit, CompletedIsClean
<1>5. ASSUME NEW p \in {"ask", "autonomous"}, NEW users \in SUBSET Commands, Resume(p, users)
      PROVE  CompletedIsClean'
  BY <1>5 DEF Resume, Admit, CompletedIsClean
<1>6. ASSUME NEW scope \in {"once", "conversation"}, Approve(scope)
      PROVE  CompletedIsClean'
  BY <1>6 DEF Approve, CompletedIsClean
<1>7. ASSUME NEW completed \in BOOLEAN, Reconcile(completed)
      PROVE  CompletedIsClean'
  BY <1>7 DEF Reconcile, request, work, authority, worker, world, approvals,
     CompletedIsClean, AllDone
<1>8. CASE Stop
  BY <1>8 DEF Stop, request, work, authority, world, approvals, CompletedIsClean, AllDone
<1>9. CASE Stall
  BY <1>9 DEF Stall, request, work, authority, world, approvals, CompletedIsClean, AllDone
<1>10. CASE Delete
  BY <1>10 DEF Delete, request, work, authority, worker, world, approvals, CompletedIsClean,
     AllDone
<1>11. CASE Renew
  BY <1>11 DEF Renew, CompletedIsClean
<1>12. CASE Abandon
  BY <1>12 DEF Abandon, CompletedIsClean
<1>13. CASE Planned
  BY <1>13 DEF Planned, Placed, CompletedIsClean
<1>14. CASE Pick
  BY <1>14 DEF Pick, CompletedIsClean
<1>15. CASE Drops
  BY <1>15 DEF Drops, Placed, CompletedIsClean
<1>16. CASE Enqueue
  BY <1>16 DEF Enqueue, Placed, CompletedIsClean
<1>17. CASE Goes
  BY <1>17 DEF Goes, Placed, CompletedIsClean
<1>18. CASE Observe
  BY <1>18 DEF Observe, Placed, CompletedIsClean
<1>19. CASE Reroute
  BY <1>19 DEF Reroute, Placed, CompletedIsClean
<1>20. CASE Staged
  BY <1>20 DEF Staged, Finish, CompletedIsClean
<1>21. CASE ShowCard
  BY <1>21 DEF ShowCard, Finish, CompletedIsClean
<1>22. CASE Reviews
  BY <1>22 DEF Reviews, request, work, authority, world, approvals, CompletedIsClean, AllDone
<1>23. CASE Repair
  BY <1>23 DEF Repair, Placed, CompletedIsClean
<1>24. CASE Crash
  BY <1>24 DEF Crash, Fault, request, work, authority, worker, approvals, CompletedIsClean,
     AllDone
<1>25. CASE Recover
  BY <1>25 DEF Recover, request, work, approvals, CompletedIsClean, AllDone
<1>26. CASE Tick
  BY <1>26 DEF Tick, Fault, request, work, authority, worker, approvals, CompletedIsClean,
     AllDone
<1>27. CASE Edit
  BY <1>27 DEF Edit, Fault, request, work, authority, worker, approvals, CompletedIsClean,
     AllDone
<1>28. CASE UNCHANGED vars
  BY <1>28 DEF vars, request, work, authority, worker, world, approvals, CompletedIsClean,
     AllDone
<1> QED
  BY <1>1, <1>2, <1>3, <1>4, <1>5, <1>6, <1>7, <1>8, <1>9, <1>10, <1>11, <1>12, <1>13,
     <1>14, <1>15, <1>16, <1>17, <1>18, <1>19, <1>20, <1>21, <1>22, <1>23, <1>24, <1>25,
     <1>26, <1>27, <1>28 DEF Kinds

(* A task that waits has its card.                                         *)
LEMMA AwaitingHasCardStep == IInv /\ Kinds => AwaitingHasCard'
<1> SUFFICES ASSUME IInv, Kinds PROVE AwaitingHasCard'
  OBVIOUS
<1>0. AwaitingHasCard /\ Planning /\ Asking /\ Placed
  BY DEF IInv, NothingForgotten
<1> USE TurnAssumption, <1>0
<1>1. CASE Ends
  <2>1. PICK s \in Ended, ts \in {tasks, [tasks EXCEPT ![cur] = "Done"]} :
               /\ pc # "none" /\ Finish(s, ts) /\ (ts # tasks => pc = "decide")
               /\ s = "Completed" => AllDone(ts) /\ pc \in {"drive", "decide", "pick",
                  "review"}
               /\ UNCHANGED <<request, plan, rounds, pending, queue, authority, seen, world,
                             approvals, unknown>>
    BY <1>1 DEF Ends
  <2>2. /\ ts \in Seq(TaskStatuses) /\ Len(ts) = Len(tasks) /\ DOMAIN ts = DOMAIN tasks
        /\ \A t \in DOMAIN ts : ts[t] = tasks[t] \/ ts[t] = "Done"
    <3>1. CASE ts = tasks
      BY <3>1 DEF Planning
    <3>2. CASE ts = [tasks EXCEPT ![cur] = "Done"]
      <4>1. "Done" \in TaskStatuses /\ tasks \in Seq(TaskStatuses)
        BY DEF Planning, TaskStatuses, Skipped
      <4> QED
        BY <3>2, <4>1, SetTask
    <3> QED
      BY <2>1, <3>1, <3>2
  <2>3. /\ tasks' \in Seq(TaskStatuses) /\ Len(tasks') = Len(ts) /\ DOMAIN tasks' = DOMAIN ts
        /\ \A t \in DOMAIN ts : tasks'[t] = IF ts[t] = "Working" THEN "Queued" ELSE ts[t]
        /\ AllDone(ts) => AllDone(tasks')
    BY <2>1, <2>2, FinishTasks
  <2>4. UNCHANGED <<pending, queue>>
    BY <2>1
  <2>5. \A t \in DOMAIN tasks' : tasks'[t] = "Awaiting approval" => tasks[t] = "Awaiting approval"
    BY <2>2, <2>3
  <2> QED
    BY <2>2, <2>3, <2>4, <2>5 DEF AwaitingHasCard
<1>2. ASSUME NEW a \in Acts, NEW who \in Actors, Dispatches(a, who)
      PROVE  AwaitingHasCard'
  <2>1. pending.kind # "card" /\ UNCHANGED <<tasks, queue>>
    BY <1>2 DEF Dispatches, Dispatch, work, Placed, Nothing
  <2> QED
    BY <2>1 DEF AwaitingHasCard
<1>3. ASSUME NEW need \in Needs, NEW a \in Acts, NEW who \in Actors, Proposes(need, a, who)
      PROVE  AwaitingHasCard'
  <2>1. pending.kind # "card" /\ UNCHANGED <<tasks, queue>>
    BY <1>3 DEF Proposes, Propose, work, Placed, Nothing, Effects
  <2> QED
    BY <2>1 DEF AwaitingHasCard
<1>4. ASSUME NEW p \in {"ask", "autonomous"}, NEW users \in SUBSET Commands, NewGoal(p, users)
      PROVE  AwaitingHasCard'
  <2>1. DOMAIN tasks' = {}
    BY <1>4 DEF NewGoal
  <2> QED
    BY <2>1 DEF AwaitingHasCard
<1>5. ASSUME NEW p \in {"ask", "autonomous"}, NEW users \in SUBSET Commands, Resume(p, users)
      PROVE  AwaitingHasCard'
  <2>1. UNCHANGED <<tasks, queue, pending>>
    BY <1>5 DEF Resume, Admit, work
  <2> QED
    BY <2>1 DEF AwaitingHasCard
<1>6. ASSUME NEW scope \in {"once", "conversation"}, Approve(scope)
      PROVE  AwaitingHasCard'
  <2>1. Answered(pending, "Queued") /\ UNCHANGED queue
    BY <1>6 DEF Approve
  <2>2. /\ DOMAIN tasks' = DOMAIN tasks
        /\ \A t \in DOMAIN tasks : tasks'[t] = IF t = pending.task THEN "Queued" ELSE tasks[t]
    BY <2>1, AnsweredTasks DEF Planning, TaskStatuses, Skipped
  <2>3. \A t \in DOMAIN tasks : tasks'[t] = "Awaiting approval" =>
          tasks[t] = "Awaiting approval" /\ t # pending.task
    BY <2>2
  <2> QED
    BY <2>1, <2>2, <2>3 DEF AwaitingHasCard
<1>7. ASSUME NEW completed \in BOOLEAN, Reconcile(completed)
      PROVE  AwaitingHasCard'
  <2>1. pending.kind # "card" /\ UNCHANGED <<tasks, queue>>
    BY <1>7 DEF Reconcile, work
  <2> QED
    BY <2>1 DEF AwaitingHasCard
<1>8. CASE Stop
  <2>1. UNCHANGED <<tasks, queue, pending>>
    BY <1>8 DEF Stop, request, work, authority, world, approvals
  <2> QED
    BY <2>1 DEF AwaitingHasCard
<1>9. CASE Stall
  <2>1. UNCHANGED <<tasks, queue, pending>>
    BY <1>9 DEF Stall, request, work, authority, world, approvals
  <2> QED
    BY <2>1 DEF AwaitingHasCard
<1>10. CASE Delete
  <2>1. UNCHANGED <<tasks, queue, pending>>
    BY <1>10 DEF Delete, request, work, authority, worker, world, approvals
  <2> QED
    BY <2>1 DEF AwaitingHasCard
<1>11. CASE Renew
  <2>1. Answered(pending, "Queued") /\ UNCHANGED queue
    BY <1>11 DEF Renew
  <2>2. /\ DOMAIN tasks' = DOMAIN tasks
        /\ \A t \in DOMAIN tasks : tasks'[t] = IF t = pending.task THEN "Queued" ELSE tasks[t]
    BY <2>1, AnsweredTasks DEF Planning, TaskStatuses, Skipped
  <2>3. \A t \in DOMAIN tasks : tasks'[t] = "Awaiting approval" =>
          tasks[t] = "Awaiting approval" /\ t # pending.task
    BY <2>2
  <2> QED
    BY <2>1, <2>2, <2>3 DEF AwaitingHasCard
<1>12. CASE Abandon
  <2>1. Answered(pending, "Declined") /\ UNCHANGED queue
    BY <1>12 DEF Abandon
  <2>2. /\ DOMAIN tasks' = DOMAIN tasks
        /\ \A t \in DOMAIN tasks : tasks'[t] = IF t = pending.task THEN "Declined" ELSE tasks[t]
    BY <2>1, AnsweredTasks DEF Planning, TaskStatuses, Skipped
  <2>3. \A t \in DOMAIN tasks : tasks'[t] = "Awaiting approval" =>
          tasks[t] = "Awaiting approval" /\ t # pending.task
    BY <2>2
  <2> QED
    BY <2>1, <2>2, <2>3 DEF AwaitingHasCard
<1>13. CASE Planned
  <2>1. \A t \in DOMAIN tasks' : tasks'[t] = "Awaiting approval" =>
          t \in DOMAIN tasks /\ tasks[t] = "Awaiting approval"
    BY <1>13, PlanTasks DEF Planned
  <2>2. UNCHANGED <<pending, queue>>
    BY <1>13 DEF Planned
  <2> QED
    BY <2>1, <2>2 DEF AwaitingHasCard
<1>14. CASE Pick
  <2>1. tasks' = [tasks EXCEPT ![Min(Ready)] = "Working"] /\ UNCHANGED <<pending, queue>>
    BY <1>14 DEF Pick
  <2>2. \A t \in DOMAIN tasks' : tasks'[t] = "Awaiting approval" =>
          t \in DOMAIN tasks /\ tasks[t] = "Awaiting approval"
    BY <2>1, SetTask DEF Planning, TaskStatuses
  <2> QED
    BY <2>1, <2>2 DEF AwaitingHasCard
<1>15. CASE Drops
  <2>1. UNCHANGED <<tasks, queue, pending>>
    BY <1>15 DEF Drops, request, work, worker, world
  <2> QED
    BY <2>1 DEF AwaitingHasCard
<1>16. CASE Enqueue
  <2> DEFINE c == [pending EXCEPT !.task = cur]
  <2>1. /\ pc = "asked" /\ queue' = Append(queue, c) /\ pending' = Nothing
        /\ tasks' = [tasks EXCEPT ![cur] = "Awaiting approval"]
    BY <1>16 DEF Enqueue
  <2>2. c \in Cards /\ c.task = cur
    BY <2>1, QueueCard DEF Placed, Planning
  <2> HIDE DEF c
  <2>3. /\ DOMAIN queue' = DOMAIN queue \cup {Len(queue) + 1} /\ queue'[Len(queue) + 1] = c
        /\ \A i \in DOMAIN queue : queue'[i] = queue[i]
    <3>1. queue \in Seq(Cards) /\ queue' = Append(queue, c)
      BY <2>1 DEF Asking
    <3> QED
      BY <2>2, <3>1, QueueParts
  <2>4. /\ DOMAIN tasks' = DOMAIN tasks
        /\ \A t \in DOMAIN tasks : t # cur => tasks'[t] = tasks[t]
    BY <2>1, SetTask DEF Planning, TaskStatuses, Skipped
  <2> SUFFICES ASSUME NEW t \in DOMAIN tasks, tasks'[t] = "Awaiting approval"
               PROVE  \E i \in DOMAIN queue' : queue'[i].task = t
    BY <2>4 DEF AwaitingHasCard
  <2>6. CASE t = cur
    BY <2>2, <2>3, <2>6
  <2>7. CASE t # cur
    <3>1. t # 0 /\ tasks[t] = "Awaiting approval"
      BY <2>4, <2>7, TaskNumber
    <3>2. pending.task # t
      BY <2>1, <3>1 DEF Placed
    <3>3. PICK i \in DOMAIN queue : queue[i].task = t
      BY <3>1, <3>2 DEF AwaitingHasCard
    <3> QED
      BY <2>3, <3>3
  <2> QED
    BY <2>6, <2>7
<1>17. CASE Goes
  <2>1. tasks' = [tasks EXCEPT ![cur] = "Done"] /\ UNCHANGED <<pending, queue>>
    BY <1>17 DEF Goes
  <2>2. \A t \in DOMAIN tasks' : tasks'[t] = "Awaiting approval" =>
          t \in DOMAIN tasks /\ tasks[t] = "Awaiting approval"
    BY <2>1, SetTask DEF Planning, TaskStatuses, Skipped
  <2> QED
    BY <2>1, <2>2 DEF AwaitingHasCard
<1>18. CASE Observe
  <2>1. (\A t \in DOMAIN tasks' : t \in DOMAIN tasks /\ tasks'[t] = tasks[t]) /\ UNCHANGED queue
    BY <1>18 DEF Observe
  <2>2. pending.kind # "card"
    BY <1>18 DEF Observe, Placed, Effects
  <2> QED
    BY <2>1, <2>2 DEF AwaitingHasCard
<1>19. CASE Reroute
  <2>1. pending.kind # "card" /\ UNCHANGED <<tasks, queue>>
    BY <1>19 DEF Reroute, work, Placed, Effects
  <2> QED
    BY <2>1 DEF AwaitingHasCard
<1>20. CASE Staged
  <2>1. UNCHANGED queue /\ pending.kind # "card" /\ \E s \in {"Upgrading",
     "Needs input"} : Finish(s, tasks)
    BY <1>20 DEF Staged, Placed, Effects
  <2>2. /\ DOMAIN tasks' = DOMAIN tasks
        /\ \A t \in DOMAIN tasks : tasks'[t] = IF tasks[t] = "Working" THEN "Queued" ELSE tasks[t]
    BY <2>1, FinishTasks DEF Planning
  <2>3. \A t \in DOMAIN tasks : tasks'[t] = "Awaiting approval" => tasks[t] = "Awaiting approval"
    BY <2>2
  <2> QED
    BY <2>1, <2>2, <2>3 DEF AwaitingHasCard
<1>21. CASE ShowCard
  <2>1. /\ queue # <<>> /\ pending' = Head(queue) /\ queue' = Tail(queue)
        /\ pending.kind # "card" /\ Finish("Paused", tasks)
    BY <1>21 DEF ShowCard, NoneReady, Placed, Nothing
  <2>2. /\ DOMAIN tasks' = DOMAIN tasks
        /\ \A t \in DOMAIN tasks : tasks'[t] = IF tasks[t] = "Working" THEN "Queued" ELSE tasks[t]
    BY <2>1, FinishTasks DEF Planning
  <2> SUFFICES ASSUME NEW t \in DOMAIN tasks, tasks[t] = "Awaiting approval"
               PROVE  \/ pending'.kind = "card" /\ pending'.task = t
                      \/ \E i \in DOMAIN queue' : queue'[i].task = t
    BY <2>2 DEF AwaitingHasCard
  <2>3. PICK i \in DOMAIN queue : queue[i].task = t
    BY <2>1 DEF AwaitingHasCard
  <2>4. CASE i = 1
    <3>1. pending' = queue[1] /\ pending' \in Cards
      BY <2>1, QueueHead DEF Asking
    <3> QED
      BY <2>3, <2>4, <3>1 DEF Cards
  <2>5. CASE i # 1
    <3>1. i - 1 \in DOMAIN queue' /\ queue'[i - 1] = queue[i]
      BY <2>1, <2>5, QueueHead DEF Asking
    <3> QED
      BY <2>3, <3>1
  <2> QED
    BY <2>4, <2>5
<1>22. CASE Reviews
  <2>1. UNCHANGED <<tasks, queue, pending>>
    BY <1>22 DEF Reviews, request, work, authority, world, approvals
  <2> QED
    BY <2>1 DEF AwaitingHasCard
<1>23. CASE Repair
  <2>1. \A t \in DOMAIN tasks' : tasks'[t] # "Awaiting approval"
    BY <1>23, PlanTasks DEF Repair
  <2> QED
    BY <2>1 DEF AwaitingHasCard
<1>24. CASE Crash
  <2>1. UNCHANGED <<tasks, queue, pending>>
    BY <1>24 DEF Crash, Fault, request, work, authority, worker, approvals
  <2> QED
    BY <2>1 DEF AwaitingHasCard
<1>25. CASE Recover
  <2>1. UNCHANGED <<tasks, queue>> /\ (pending' = pending \/ pending.kind # "card")
    BY <1>25 DEF Recover, work
  <2> QED
    BY <2>1 DEF AwaitingHasCard
<1>26. CASE Tick
  <2>1. UNCHANGED <<tasks, queue, pending>>
    BY <1>26 DEF Tick, Fault, request, work, authority, worker, approvals
  <2> QED
    BY <2>1 DEF AwaitingHasCard
<1>27. CASE Edit
  <2>1. UNCHANGED <<tasks, queue, pending>>
    BY <1>27 DEF Edit, Fault, request, work, authority, worker, approvals
  <2> QED
    BY <2>1 DEF AwaitingHasCard
<1>28. CASE UNCHANGED vars
  <2>1. UNCHANGED <<tasks, queue, pending>>
    BY <1>28 DEF vars, request, work, authority, worker, world, approvals
  <2> QED
    BY <2>1 DEF AwaitingHasCard
<1> QED
  BY <1>1, <1>2, <1>3, <1>4, <1>5, <1>6, <1>7, <1>8, <1>9, <1>10, <1>11, <1>12, <1>13,
     <1>14, <1>15, <1>16, <1>17, <1>18, <1>19, <1>20, <1>21, <1>22, <1>23, <1>24, <1>25,
     <1>26, <1>27, <1>28 DEF Kinds

(* No card was made for a later goal.                                      *)
LEMMA DatedStep == IInv /\ Kinds => Dated'
<1> SUFFICES ASSUME IInv, Kinds PROVE Dated'
  OBVIOUS
<1>0. Dated /\ Planning /\ Asking /\ Placed /\ Counters
  BY DEF IInv
<1> USE TurnAssumption, <1>0
<1>1. CASE Ends
  <2>1. UNCHANGED <<pending, queue, goal>> /\ now' \in Nat /\ now' >= now
    BY <1>1 DEF Ends, Finish, request, authority, worker, world, approvals, Counters
  <2> QED
    BY <2>1, DatedKept DEF Counters
<1>2. ASSUME NEW a \in Acts, NEW who \in Actors, Dispatches(a, who)
      PROVE  Dated'
  <2>1. (pending' = pending \/ pending'.kind # "card") /\ UNCHANGED <<queue, goal, now>>
    BY <1>2 DEF Dispatches, Dispatch, request, work, world, Nothing, Effect
  <2> QED
    BY <2>1 DEF Dated
<1>3. ASSUME NEW need \in Needs, NEW a \in Acts, NEW who \in Actors, Proposes(need, a, who)
      PROVE  Dated'
  <2>1. pending' = Card(need, a) /\ UNCHANGED <<queue, goal, now>>
    BY <1>3 DEF Proposes, Propose, request, world
  <2> QED
    BY <2>1, CardIsCard DEF Dated, Counters
<1>4. ASSUME NEW p \in {"ask", "autonomous"}, NEW users \in SUBSET Commands, NewGoal(p, users)
      PROVE  Dated'
  <2>1. UNCHANGED <<pending, now>> /\ queue' = <<>> /\ pending.kind # "card"
    BY <1>4 DEF NewGoal, Admit, Nothing, world
  <2> QED
    BY <2>1 DEF Dated
<1>5. ASSUME NEW p \in {"ask", "autonomous"}, NEW users \in SUBSET Commands, Resume(p, users)
      PROVE  Dated'
  <2>1. UNCHANGED <<pending, queue, goal>> /\ now' \in Nat /\ now' >= now
    BY <1>5 DEF Resume, Admit, work, world, Counters
  <2> QED
    BY <2>1, DatedKept DEF Counters
<1>6. ASSUME NEW scope \in {"once", "conversation"}, Approve(scope)
      PROVE  Dated'
  <2>1. (pending' = pending \/ pending'.kind # "card") /\ UNCHANGED <<queue, goal, now>>
    BY <1>6 DEF Approve, request, worker, world, Nothing, Effect
  <2> QED
    BY <2>1 DEF Dated
<1>7. ASSUME NEW completed \in BOOLEAN, Reconcile(completed)
      PROVE  Dated'
  <2>1. (pending' = pending \/ pending'.kind # "card") /\ UNCHANGED <<queue, goal, now>>
    BY <1>7 DEF Reconcile, request, work, authority, worker, world, approvals, Nothing, Effect
  <2> QED
    BY <2>1 DEF Dated
<1>8. CASE Stop
  <2>1. UNCHANGED <<pending, queue, goal>> /\ now' \in Nat /\ now' >= now
    BY <1>8 DEF Stop, request, work, authority, world, approvals, Counters
  <2> QED
    BY <2>1, DatedKept DEF Counters
<1>9. CASE Stall
  <2>1. UNCHANGED <<pending, queue, goal>> /\ now' \in Nat /\ now' >= now
    BY <1>9 DEF Stall, request, work, authority, world, approvals, Counters
  <2> QED
    BY <2>1, DatedKept DEF Counters
<1>10. CASE Delete
  <2>1. UNCHANGED <<pending, queue, goal>> /\ now' \in Nat /\ now' >= now
    BY <1>10 DEF Delete, request, work, authority, worker, world, approvals, Counters
  <2> QED
    BY <2>1, DatedKept DEF Counters
<1>11. CASE Renew
  <2>1. (pending' = pending \/ pending'.kind # "card") /\ UNCHANGED <<queue, goal, now>>
    BY <1>11 DEF Renew, Answered, request, authority, worker, world, approvals, Nothing, Effect
  <2> QED
    BY <2>1 DEF Dated
<1>12. CASE Abandon
  <2>1. (pending' = pending \/ pending'.kind # "card") /\ UNCHANGED <<queue, goal, now>>
    BY <1>12 DEF Abandon, Answered, request, authority, worker, world, approvals, Nothing,
       Effect
  <2> QED
    BY <2>1 DEF Dated
<1>13. CASE Planned
  <2>1. UNCHANGED <<pending, queue, goal>> /\ now' \in Nat /\ now' >= now
    BY <1>13 DEF Planned, PlanWith, request, authority, world, approvals, Counters
  <2> QED
    BY <2>1, DatedKept DEF Counters
<1>14. CASE Pick
  <2>1. UNCHANGED <<pending, queue, goal>> /\ now' \in Nat /\ now' >= now
    BY <1>14 DEF Pick, request, authority, world, approvals, Counters
  <2> QED
    BY <2>1, DatedKept DEF Counters
<1>15. CASE Drops
  <2>1. UNCHANGED <<pending, queue, goal>> /\ now' \in Nat /\ now' >= now
    BY <1>15 DEF Drops, request, work, worker, world, Counters
  <2> QED
    BY <2>1, DatedKept DEF Counters
<1>16. CASE Enqueue
  <2> DEFINE c == [pending EXCEPT !.task = cur]
  <2>1. /\ pc = "asked" /\ queue' = Append(queue, c) /\ pending' = Nothing
        /\ UNCHANGED <<goal, now>>
    BY <1>16 DEF Enqueue, request, world
  <2>2. c \in Cards /\ c.ctx = pending.ctx /\ c.era = pending.era /\ pending.kind = "card"
    BY <2>1, QueueCard DEF Placed, Planning, Cards
  <2> HIDE DEF c
  <2>3. /\ DOMAIN queue' = DOMAIN queue \cup {Len(queue) + 1} /\ queue'[Len(queue) + 1] = c
        /\ \A i \in DOMAIN queue : queue'[i] = queue[i]
    <3>1. queue \in Seq(Cards) /\ queue' = Append(queue, c)
      BY <2>1 DEF Asking
    <3> QED
      BY <2>2, <3>1, QueueParts
  <2> QED
    BY <2>1, <2>2, <2>3 DEF Dated, Nothing
<1>17. CASE Goes
  <2>1. UNCHANGED <<pending, queue, goal>> /\ now' \in Nat /\ now' >= now
    BY <1>17 DEF Goes, request, authority, world, approvals, Counters
  <2> QED
    BY <2>1, DatedKept DEF Counters
<1>18. CASE Observe
  <2>1. (pending' = pending \/ pending'.kind # "card") /\ UNCHANGED <<queue, goal, now>>
    BY <1>18 DEF Observe, request, authority, worker, world, approvals, Nothing, Effect
  <2> QED
    BY <2>1 DEF Dated
<1>19. CASE Reroute
  <2>1. (pending' = pending \/ pending'.kind # "card") /\ UNCHANGED <<queue, goal, now>>
    BY <1>19 DEF Reroute, request, work, authority, worker, world, approvals, Nothing, Effect
  <2> QED
    BY <2>1 DEF Dated
<1>20. CASE Staged
  <2>1. (pending' = pending \/ pending'.kind # "card") /\ UNCHANGED <<queue, goal, now>>
    BY <1>20 DEF Staged, Finish, request, authority, worker, world, approvals, Nothing, Effect
  <2> QED
    BY <2>1 DEF Dated
<1>21. CASE ShowCard
  <2>1. /\ queue # <<>> /\ pending' = Head(queue) /\ queue' = Tail(queue)
        /\ UNCHANGED <<goal, now>>
    BY <1>21 DEF ShowCard, request, world
  <2>2. pending' = queue[1] /\ 1 \in DOMAIN queue
    BY <2>1, QueueHead DEF Asking
  <2>3. \A i \in DOMAIN queue' : i + 1 \in DOMAIN queue /\ queue'[i] = queue[i + 1]
    BY <2>1, QueueHead DEF Asking
  <2> QED
    BY <2>1, <2>2, <2>3 DEF Dated
<1>22. CASE Reviews
  <2>1. UNCHANGED <<pending, queue, goal>> /\ now' \in Nat /\ now' >= now
    BY <1>22 DEF Reviews, request, work, authority, world, approvals, Counters
  <2> QED
    BY <2>1, DatedKept DEF Counters
<1>23. CASE Repair
  <2>1. UNCHANGED <<pending, queue, goal>> /\ now' \in Nat /\ now' >= now
    BY <1>23 DEF Repair, Fault, Spare, PlanWith, request, authority, world, approvals, Counters
  <2> QED
    BY <2>1, DatedKept DEF Counters
<1>24. CASE Crash
  <2>1. UNCHANGED <<pending, queue, goal>> /\ now' \in Nat /\ now' >= now
    BY <1>24 DEF Crash, Fault, request, work, authority, worker, approvals, Counters
  <2> QED
    BY <2>1, DatedKept DEF Counters
<1>25. CASE Recover
  <2>1. (pending' = pending \/ pending'.kind # "card") /\ UNCHANGED <<queue, goal, now>>
    BY <1>25 DEF Recover, request, work, approvals, Nothing, Effect
  <2> QED
    BY <2>1 DEF Dated
<1>26. CASE Tick
  <2>1. UNCHANGED <<pending, queue, goal>> /\ now' \in Nat /\ now' >= now
    BY <1>26 DEF Tick, Fault, request, work, authority, worker, approvals, Counters
  <2> QED
    BY <2>1, DatedKept DEF Counters
<1>27. CASE Edit
  <2>1. UNCHANGED <<pending, queue, goal>> /\ now' \in Nat /\ now' >= now
    BY <1>27 DEF Edit, Fault, request, work, authority, worker, approvals, Counters
  <2> QED
    BY <2>1, DatedKept DEF Counters
<1>28. CASE UNCHANGED vars
  <2>1. UNCHANGED <<pending, queue, goal>> /\ now' \in Nat /\ now' >= now
    BY <1>28 DEF vars, request, work, authority, worker, world, approvals, Counters
  <2> QED
    BY <2>1, DatedKept DEF Counters
<1> QED
  BY <1>1, <1>2, <1>3, <1>4, <1>5, <1>6, <1>7, <1>8, <1>9, <1>10, <1>11, <1>12, <1>13,
     <1>14, <1>15, <1>16, <1>17, <1>18, <1>19, <1>20, <1>21, <1>22, <1>23, <1>24, <1>25,
     <1>26, <1>27, <1>28 DEF Kinds

-----------------------------------------------------------------------------
(* What is granted changes in few ways: it lapses, or it is added to.      *)
LEMMA RightsKept ==
  ASSUME Rights, Counters, grants' \subseteq grants, leases' \subseteq leases,
         stamp' = stamp, now' \in Nat, now' >= now, left' \in [Acts -> Int],
         lasting' = lasting
  PROVE  Rights'
<1>1. now \in Nat /\ \A l \in leases : l.era \in Nat
  BY DEF Rights, Counters, LeaseSet
<1> QED
  BY <1>1 DEF Rights

(* A dispatch uses up what it needs.                                       *)
LEMMA DispatchEffect ==
  ASSUME NEW a, NEW who, Dispatch(a, who)
  PROVE  /\ leases' = Refreshed(leases, goal, policy)
         /\ Granted(Revoke(grants, leases \ leases'), Need(a), a)
         /\ grants' = Spend(Revoke(grants, leases \ leases'), Need(a), a)
         /\ Destructive(a) /\ Category(a) \notin lasting => left' = [left EXCEPT ![a] = @ - 1]
         /\ ~(Destructive(a) /\ Category(a) \notin lasting) => left' = left
BY DEF Dispatch

(* send: what it adds is the user's own.                                   *)
UserGrant(a) == [need |-> "shell", act |-> a, scope |-> "user", id |-> 0]
NewGrant(scope) == [need |-> pending.need, act |-> pending.act, scope |-> scope,
   id |-> stamp + 1]
NewLease(scope) ==
  [need |-> pending.need, act |-> pending.act, scope |-> scope, id |-> stamp + 1,
   ctx |-> pending.ctx, era |-> pending.era]

LEMMA AdmitEffect ==
  ASSUME NEW g, NEW p, NEW users \in SUBSET Commands, Admit(g, p, users)
  PROVE  /\ leases' \subseteq leases /\ UNCHANGED <<stamp, now, left, lasting>>
         /\ grants' \subseteq grants \cup {UserGrant(a) : a \in users}
<1> DEFINE over  == {l \in leases : l.need = "shell" /\ l.act \in users}
           base  == Revoke(grants, over)
           added == {UserGrant(a) : a \in {b \in users : Exact(base, "shell", b) = {}}}
           kept  == Refreshed(leases \ over, g, p)
<1>1. /\ leases' = kept /\ grants' = Revoke(base \cup added, (leases \ over) \ kept)
      /\ UNCHANGED <<stamp, now, left, lasting>>
  BY DEF Admit, UserGrant, world
<1>2. kept \subseteq leases /\ base \subseteq grants /\ grants' \subseteq base \cup added
  BY <1>1, Shrinks
<1>3. added \subseteq {UserGrant(a) : a \in users}
  OBVIOUS
<1> HIDE DEF kept, base, added
<1> QED
  BY <1>1, <1>2, <1>3

(* resolve: what it adds is what the card asks for.                        *)
LEMMA ApproveEffect ==
  ASSUME NEW scope \in {"once", "conversation"}, Approve(scope)
  PROVE  /\ leases' \subseteq leases \cup {NewLease(scope)}
         /\ grants' \subseteq grants \cup {NewGrant(scope)}
         /\ stamp' = stamp + 1 /\ UNCHANGED now
         /\ pending.need = "destructive" /\ scope = "once" =>
             left' = [left EXCEPT ![pending.act] = @ + 1]
         /\ ~(pending.need = "destructive" /\ scope = "once") => left' = left
         /\ pending.need = "destructive" /\ scope = "conversation" =>
             lasting' = lasting \cup {Category(pending.act)}
         /\ ~(pending.need = "destructive" /\ scope = "conversation") => lasting' = lasting
<1> DEFINE kept  == Refreshed(leases, goal, policy)
           base  == Revoke(grants, leases \ kept)
<1>1. /\ leases' = kept \cup LeaseOf(pending, scope)
      /\ grants' = base \cup GrantOf(pending, scope, base)
      /\ stamp' = stamp + 1 /\ UNCHANGED now
      /\ pending.need = "destructive" /\ scope = "once" =>
          left' = [left EXCEPT ![pending.act] = @ + 1]
      /\ ~(pending.need = "destructive" /\ scope = "once") => left' = left
      /\ pending.need = "destructive" /\ scope = "conversation" =>
             lasting' = lasting \cup {Category(pending.act)}
      /\ ~(pending.need = "destructive" /\ scope = "conversation") => lasting' = lasting
  BY DEF Approve, world
<1>2. /\ LeaseOf(pending, scope) \subseteq {NewLease(scope)}
      /\ GrantOf(pending, scope, base) \subseteq {NewGrant(scope)}
  BY DEF LeaseOf, GrantOf, NewLease, NewGrant
<1>3. kept \subseteq leases /\ base \subseteq grants
  BY Shrinks
<1> QED
  BY <1>1, <1>2, <1>3

(* The card of an approval.                                                *)
LEMMA ApprovedCard ==
  ASSUME Asking, Dated, Counters, NEW scope, Approve(scope)
  PROVE  /\ pending \in Cards /\ pending.kind = "card" /\ pending.act \in Acts
         /\ pending.need \in Needs /\ pending.ctx \in Contexts /\ pending.era \in Nat
         /\ pending.era <= now /\ pending.ctx[1] \in 0 .. goal
<1>1. pending.kind = "card"
  BY DEF Approve
<1>2. pending \in Cards
  BY <1>1 DEF Asking, Nothing, Effects
<1> QED
  BY <1>1, <1>2 DEF Cards, Dated, Counters

(* Grants and leases bear the numbers of approvals.                        *)
LEMMA RightsStep == IInv /\ Kinds => Rights'
<1> SUFFICES ASSUME IInv, Kinds PROVE Rights'
  OBVIOUS
<1>0. Rights /\ Counters /\ Dated /\ Asking
  BY DEF IInv
<1> USE <1>0
<1>1. CASE Ends
  <2>1. UNCHANGED <<grants, leases, stamp, left, lasting>> /\ now' \in Nat /\ now' >= now
    BY <1>1 DEF Ends, Finish, request, authority, worker, world, approvals, Counters
  <2> QED
    BY <2>1, RightsKept DEF Rights
<1>2. ASSUME NEW a \in Acts, NEW who \in Actors, Dispatches(a, who)
      PROVE  Rights'
  <2>1. /\ leases' \subseteq leases /\ grants' \subseteq grants
        /\ UNCHANGED <<stamp, now, lasting>>
    BY <1>2, Shrinks DEF Dispatches, Dispatch, world
  <2>2. left' = left \/ left' = [left EXCEPT ![a] = @ - 1]
    BY <1>2, DispatchEffect DEF Dispatches
  <2>3. left' \in [Acts -> Int]
    BY <2>2 DEF Rights
  <2> QED
    BY <2>1, <2>3, RightsKept DEF Counters
<1>3. ASSUME NEW need \in Needs, NEW a \in Acts, NEW who \in Actors, Proposes(need, a, who)
      PROVE  Rights'
  <2>1. /\ leases' \subseteq leases /\ grants' \subseteq grants
        /\ UNCHANGED <<stamp, now, left, lasting>>
    BY <1>3, Shrinks DEF Proposes, Propose, world
  <2> QED
    BY <2>1, RightsKept DEF Counters, Rights
<1>4. ASSUME NEW p \in {"ask", "autonomous"}, NEW users \in SUBSET Commands, NewGoal(p, users)
      PROVE  Rights'
  <2>1. Admit(goal + 1, p, users)
    BY <1>4 DEF NewGoal
  <2>2. /\ leases' \subseteq leases /\ UNCHANGED <<stamp, now, left, lasting>>
        /\ grants' \subseteq grants \cup {UserGrant(a) : a \in users}
    BY <2>1, AdmitEffect
  <2>4. \A a \in users : UserGrant(a) \in GrantSet /\ UserGrant(a).id = 0
    BY DEF UserGrant, GrantSet, Acts, Needs, Scopes
  <2>3. 0 <= stamp
    BY DEF Counters
  <2> QED
    BY <2>2, <2>3, <2>4 DEF Rights
<1>5. ASSUME NEW p \in {"ask", "autonomous"}, NEW users \in SUBSET Commands, Resume(p, users)
      PROVE  Rights'
  <2>1. Admit(goal, p, users)
    BY <1>5 DEF Resume
  <2>2. /\ leases' \subseteq leases /\ UNCHANGED <<stamp, now, left, lasting>>
        /\ grants' \subseteq grants \cup {UserGrant(a) : a \in users}
    BY <2>1, AdmitEffect
  <2>4. \A a \in users : UserGrant(a) \in GrantSet /\ UserGrant(a).id = 0
    BY DEF UserGrant, GrantSet, Acts, Needs, Scopes
  <2>3. 0 <= stamp
    BY DEF Counters
  <2> QED
    BY <2>2, <2>3, <2>4 DEF Rights
<1>6. ASSUME NEW scope \in {"once", "conversation"}, Approve(scope)
      PROVE  Rights'
  <2>1. /\ leases' \subseteq leases \cup {NewLease(scope)} /\ grants' \subseteq grants \cup {NewGrant(scope)}
        /\ stamp' = stamp + 1 /\ UNCHANGED now
    BY <1>6, ApproveEffect
  <2>10. /\ pending.need = "destructive" /\ scope = "once" =>
             left' = [left EXCEPT ![pending.act] = @ + 1]
         /\ ~(pending.need = "destructive" /\ scope = "once") => left' = left
    BY <1>6, ApproveEffect
  <2>11. /\ pending.need = "destructive" /\ scope = "conversation" =>
             lasting' = lasting \cup {Category(pending.act)}
         /\ ~(pending.need = "destructive" /\ scope = "conversation") => lasting' = lasting
    BY <1>6, ApproveEffect
  <2>2. /\ pending.act \in Acts /\ pending.need \in Needs /\ pending.ctx \in Contexts
        /\ pending.era \in Nat /\ pending.era <= now
    BY <1>6, ApprovedCard
  <2>3. stamp \in Nat /\ now \in Nat
    BY DEF Counters
  <2>4. NewGrant(scope) \in GrantSet /\ NewGrant(scope).id = stamp + 1
    BY <2>2, <2>3 DEF NewGrant, GrantSet, Scopes
  <2>5. NewLease(scope) \in LeaseSet /\ NewLease(scope).id = stamp + 1 /\ NewLease(scope).era <= now
    BY <2>2, <2>3 DEF NewLease, LeaseSet, Scopes
  <2>6. grants' \subseteq GrantSet /\ \A g \in grants' : g.id <= stamp'
    <3>1. \A g \in grants : g \in GrantSet /\ g.id \in Nat /\ g.id <= stamp
      BY DEF Rights, GrantSet
    <3> QED
      BY <2>1, <2>3, <2>4, <3>1
  <2>7. leases' \subseteq LeaseSet /\ \A l \in leases' : l.id <= stamp' /\ l.era <= now'
    <3>1. \A l \in leases : l \in LeaseSet /\ l.id \in Nat /\ l.id <= stamp /\ l.era <= now
      BY DEF Rights, LeaseSet
    <3> QED
      BY <2>1, <2>3, <2>5, <3>1
  <2>8. left' \in [Acts -> Int]
    <3>1. left \in [Acts -> Int]
      BY DEF Rights
    <3>2. left' = left \/ left' = [left EXCEPT ![pending.act] = @ + 1]
      BY <2>10
    <3> QED
      BY <2>2, <3>1, <3>2
  <2>9. lasting' \subseteq {"files", "commands"}
    BY <2>11 DEF Rights, Category
  <2> QED
    BY <2>6, <2>7, <2>8, <2>9 DEF Rights
<1>7. ASSUME NEW completed \in BOOLEAN, Reconcile(completed)
      PROVE  Rights'
  <2>1. UNCHANGED <<grants, leases, stamp, left, lasting>> /\ now' \in Nat /\ now' >= now
    BY <1>7 DEF Reconcile, request, work, authority, worker, world, approvals, Counters
  <2> QED
    BY <2>1, RightsKept DEF Rights
<1>8. CASE Stop
  <2>1. UNCHANGED <<grants, leases, stamp, left, lasting>> /\ now' \in Nat /\ now' >= now
    BY <1>8 DEF Stop, request, work, authority, world, approvals, Counters
  <2> QED
    BY <2>1, RightsKept DEF Rights
<1>9. CASE Stall
  <2>1. UNCHANGED <<grants, leases, stamp, left, lasting>> /\ now' \in Nat /\ now' >= now
    BY <1>9 DEF Stall, request, work, authority, world, approvals, Counters
  <2> QED
    BY <2>1, RightsKept DEF Rights
<1>10. CASE Delete
  <2>1. UNCHANGED <<grants, leases, stamp, left, lasting>> /\ now' \in Nat /\ now' >= now
    BY <1>10 DEF Delete, request, work, authority, worker, world, approvals, Counters
  <2> QED
    BY <2>1, RightsKept DEF Rights
<1>11. CASE Renew
  <2>1. UNCHANGED <<grants, leases, stamp, left, lasting>> /\ now' \in Nat /\ now' >= now
    BY <1>11 DEF Renew, Answered, request, authority, worker, world, approvals, Counters
  <2> QED
    BY <2>1, RightsKept DEF Rights
<1>12. CASE Abandon
  <2>1. UNCHANGED <<grants, leases, stamp, left, lasting>> /\ now' \in Nat /\ now' >= now
    BY <1>12 DEF Abandon, Answered, request, authority, worker, world, approvals, Counters
  <2> QED
    BY <2>1, RightsKept DEF Rights
<1>13. CASE Planned
  <2>1. UNCHANGED <<grants, leases, stamp, left, lasting>> /\ now' \in Nat /\ now' >= now
    BY <1>13 DEF Planned, PlanWith, request, authority, world, approvals, Counters
  <2> QED
    BY <2>1, RightsKept DEF Rights
<1>14. CASE Pick
  <2>1. UNCHANGED <<grants, leases, stamp, left, lasting>> /\ now' \in Nat /\ now' >= now
    BY <1>14 DEF Pick, request, authority, world, approvals, Counters
  <2> QED
    BY <2>1, RightsKept DEF Rights
<1>15. CASE Drops
  <2>1. UNCHANGED <<grants, leases, stamp, left, lasting>> /\ now' \in Nat /\ now' >= now
    BY <1>15 DEF Drops, request, work, worker, world, Counters
  <2> QED
    BY <2>1, RightsKept DEF Rights
<1>16. CASE Enqueue
  <2>1. UNCHANGED <<authority, world, approvals>>
    BY <1>16 DEF Enqueue
  <2>2. UNCHANGED <<grants, leases, stamp, left, lasting>> /\ now' \in Nat /\ now' >= now
    BY <2>1 DEF authority, world, approvals, Counters
  <2> QED
    BY <2>2, RightsKept DEF Rights
<1>17. CASE Goes
  <2>1. UNCHANGED <<grants, leases, stamp, left, lasting>> /\ now' \in Nat /\ now' >= now
    BY <1>17 DEF Goes, request, authority, world, approvals, Counters
  <2> QED
    BY <2>1, RightsKept DEF Rights
<1>18. CASE Observe
  <2>1. UNCHANGED <<grants, leases, stamp, left, lasting>> /\ now' \in Nat /\ now' >= now
    BY <1>18 DEF Observe, request, authority, worker, world, approvals, Counters
  <2> QED
    BY <2>1, RightsKept DEF Rights
<1>19. CASE Reroute
  <2>1. UNCHANGED <<grants, leases, stamp, left, lasting>> /\ now' \in Nat /\ now' >= now
    BY <1>19 DEF Reroute, request, work, authority, worker, world, approvals, Counters
  <2> QED
    BY <2>1, RightsKept DEF Rights
<1>20. CASE Staged
  <2>1. UNCHANGED <<authority, world, approvals>>
    BY <1>20 DEF Staged
  <2>2. UNCHANGED <<grants, leases, stamp, left, lasting>> /\ now' \in Nat /\ now' >= now
    BY <2>1 DEF authority, world, approvals, Counters
  <2> QED
    BY <2>2, RightsKept DEF Rights
<1>21. CASE ShowCard
  <2>1. UNCHANGED <<grants, leases, stamp, left, lasting>> /\ now' \in Nat /\ now' >= now
    BY <1>21 DEF ShowCard, Finish, NoneReady, request, authority, worker, world, approvals,
       Counters
  <2> QED
    BY <2>1, RightsKept DEF Rights
<1>22. CASE Reviews
  <2>1. UNCHANGED <<grants, leases, stamp, left, lasting>> /\ now' \in Nat /\ now' >= now
    BY <1>22 DEF Reviews, request, work, authority, world, approvals, Counters
  <2> QED
    BY <2>1, RightsKept DEF Rights
<1>23. CASE Repair
  <2>1. UNCHANGED <<grants, leases, stamp, left, lasting>> /\ now' \in Nat /\ now' >= now
    BY <1>23 DEF Repair, Fault, Spare, PlanWith, request, authority, world, approvals, Counters
  <2> QED
    BY <2>1, RightsKept DEF Rights
<1>24. CASE Crash
  <2>1. UNCHANGED <<grants, leases, stamp, left, lasting>> /\ now' \in Nat /\ now' >= now
    BY <1>24 DEF Crash, Fault, request, work, authority, worker, approvals, Counters
  <2> QED
    BY <2>1, RightsKept DEF Rights
<1>25. CASE Recover
  <2>1. /\ leases' \subseteq leases /\ grants' \subseteq grants
        /\ UNCHANGED <<stamp, now, left, lasting>>
    BY <1>25, Shrinks DEF Recover, approvals
  <2> QED
    BY <2>1, RightsKept DEF Counters, Rights
<1>26. CASE Tick
  <2>1. UNCHANGED <<grants, leases, stamp, left, lasting>> /\ now' \in Nat /\ now' >= now
    BY <1>26 DEF Tick, Fault, request, work, authority, worker, approvals, Counters
  <2> QED
    BY <2>1, RightsKept DEF Rights
<1>27. CASE Edit
  <2>1. UNCHANGED <<grants, leases, stamp, left, lasting>> /\ now' \in Nat /\ now' >= now
    BY <1>27 DEF Edit, Fault, request, work, authority, worker, approvals, Counters
  <2> QED
    BY <2>1, RightsKept DEF Rights
<1>28. CASE UNCHANGED vars
  <2>1. UNCHANGED <<grants, leases, stamp, left, lasting>> /\ now' \in Nat /\ now' >= now
    BY <1>28 DEF vars, request, work, authority, worker, world, approvals, Counters
  <2> QED
    BY <2>1, RightsKept DEF Rights
<1> QED
  BY <1>1, <1>2, <1>3, <1>4, <1>5, <1>6, <1>7, <1>8, <1>9, <1>10, <1>11, <1>12, <1>13,
     <1>14, <1>15, <1>16, <1>17, <1>18, <1>19, <1>20, <1>21, <1>22, <1>23, <1>24, <1>25,
     <1>26, <1>27, <1>28 DEF Kinds

-----------------------------------------------------------------------------
(* Who asks for a destructive grant.                                       *)
LEMMA NeedsOfActions ==
  ASSUME NEW a
  PROVE  /\ Destructive(a) => Need(a) = "destructive"
         /\ ~Destructive(a) => Need(a) # "destructive"
<1> DEFINE D == a \in Deletes \/ (a \in Risky /\ policy = "autonomous")
           S == a \in Commands /\ policy = "ask"
<1>1. D => ~S
  BY TurnAssumption
<1>2. Need(a) = CASE D -> "destructive" [] S -> "shell" [] OTHER -> "none"
  BY DEF Need, Destructive
<1> HIDE DEF D, S
<1>3. D => Need(a) = "destructive"
  BY <1>1, <1>2
<1>4. ~D => Need(a) # "destructive"
  BY <1>2
<1> QED
  BY <1>3, <1>4 DEF D, Destructive

(* Approvals and runs are counted by the grants there are.                 *)
LEMMA PaidKept ==
  ASSUME Paid, Rights, \A g \in grants' : g.need = "destructive" => g \in grants,
         UNCHANGED <<left, lasting>>
  PROVE  Paid'
<1>1. \A g \in grants' : g.need = "destructive" /\ g.scope # "once" => Category(g.act) \in lasting'
  BY DEF Paid, Category
<1>2. ASSUME NEW a \in Acts
      PROVE  /\ IsFiniteSet(Once(a)')
             /\ Category(a) \notin lasting => Cardinality(Once(a)') <= left[a]
  <2>1. IsFiniteSet(Once(a)) /\ (Category(a) \notin lasting => Cardinality(Once(a)) <= left[a])
    BY DEF Paid
  <2>2. Once(a)' \subseteq Once(a)
    BY DEF Once
  <2>3. IsFiniteSet(Once(a)') /\ Cardinality(Once(a)') <= Cardinality(Once(a))
    BY <2>1, <2>2, FS_Subset
  <2>4. Cardinality(Once(a)') \in Nat /\ Cardinality(Once(a)) \in Nat /\ left[a] \in Int
    BY <2>1, <2>3, FS_CardinalityType DEF Rights
  <2> QED
    BY <2>1, <2>3, <2>4
<1>3. \A a \in Acts : Category(a)' = Category(a)
  BY DEF Category
<1> QED
  BY <1>1, <1>2, <1>3 DEF Paid

(* An action that was approved once uses up a grant, and its count.        *)
LEMMA PaidBySpending ==
  ASSUME Paid, Rights, NEW a \in Acts, NEW g \in Once(a), grants' \subseteq grants \ {g},
         left' = [left EXCEPT ![a] = @ - 1], UNCHANGED lasting
  PROVE  Paid'
<1>1. \A h \in grants' : h.need = "destructive" /\ h.scope # "once" => Category(h.act) \in lasting'
  BY DEF Paid, Category
<1>2. ASSUME NEW b \in Acts
      PROVE  /\ IsFiniteSet(Once(b)')
             /\ Category(b) \notin lasting => Cardinality(Once(b)') <= left'[b]
  <2>1. IsFiniteSet(Once(b)) /\ (Category(b) \notin lasting => Cardinality(Once(b)) <= left[b])
    BY DEF Paid
  <2>2. left[b] \in Int /\ left'[b] = IF b = a THEN left[b] - 1 ELSE left[b]
    BY DEF Rights
  <2>3. Once(b)' \subseteq Once(b)
    BY DEF Once
  <2>4. IsFiniteSet(Once(b)') /\ Cardinality(Once(b)') <= Cardinality(Once(b))
    BY <2>1, <2>3, FS_Subset
  <2>5. Cardinality(Once(b)') \in Nat /\ Cardinality(Once(b)) \in Nat
    BY <2>1, <2>4, FS_CardinalityType
  <2>6. CASE b = a
    <3>1. Once(b)' \subseteq Once(b) \ {g} /\ g \in Once(b)
      BY <2>6 DEF Once
    <3>2. IsFiniteSet(Once(b) \ {g}) /\ Cardinality(Once(b) \ {g}) = Cardinality(Once(b)) - 1
      BY <2>1, <3>1, FS_RemoveElement
    <3>3. Cardinality(Once(b)') <= Cardinality(Once(b) \ {g})
      BY <3>1, <3>2, FS_Subset
    <3> QED
      BY <2>1, <2>2, <2>4, <2>5, <2>6, <3>2, <3>3
  <2>7. CASE b # a
    BY <2>1, <2>2, <2>4, <2>5, <2>7
  <2> QED
    BY <2>6, <2>7
<1>3. \A b \in Acts : Category(b)' = Category(b)
  BY DEF Category
<1> QED
  BY <1>1, <1>2, <1>3 DEF Paid

(* An approval adds a grant for the next run, or for the conversation.     *)
LEMMA PaidByApproval ==
  ASSUME Paid, Rights, NEW a \in Acts, NEW g, grants' \subseteq grants \cup {g}, g.act = a,
         \/ /\ g.scope = "once"
            /\ left' = [left EXCEPT ![a] = @ + 1] /\ UNCHANGED lasting
         \/ /\ g.scope = "conversation"
            /\ lasting' = lasting \cup {Category(a)} /\ UNCHANGED left
  PROVE  Paid'
<1>1. \A h \in grants' : h.need = "destructive" /\ h.scope # "once" => Category(h.act) \in lasting'
  BY DEF Paid, Category
<1>2. ASSUME NEW b \in Acts
      PROVE  /\ IsFiniteSet(Once(b)')
             /\ Category(b) \notin lasting' => Cardinality(Once(b)') <= left'[b]
  <2>1. IsFiniteSet(Once(b)) /\ (Category(b) \notin lasting => Cardinality(Once(b)) <= left[b])
    BY DEF Paid
  <2>2. left[b] \in Int /\ Cardinality(Once(b)) \in Nat
    BY <2>1, FS_CardinalityType DEF Rights
  <2>3. CASE g.scope = "once" /\ b = a
    <3>1. Once(b)' \subseteq Once(b) \cup {g} /\ left'[b] = left[b] + 1 /\ lasting' = lasting
      BY <2>3 DEF Once, Rights
    <3>2. /\ IsFiniteSet(Once(b) \cup {g})
          /\ Cardinality(Once(b) \cup {g}) \in {Cardinality(Once(b)), Cardinality(Once(b)) + 1}
      BY <2>1, FS_AddElement
    <3>3. IsFiniteSet(Once(b)') /\ Cardinality(Once(b)') <= Cardinality(Once(b) \cup {g})
      BY <3>1, <3>2, FS_Subset
    <3>4. Cardinality(Once(b)') \in Nat
      BY <3>3, FS_CardinalityType
    <3> QED
      BY <2>1, <2>2, <3>1, <3>2, <3>3, <3>4
  <2>4. CASE g.scope # "once" \/ b # a
    <3>1. Once(b)' \subseteq Once(b) /\ lasting \subseteq lasting' /\ left'[b] = left[b]
      BY <2>4 DEF Once, Rights
    <3>2. IsFiniteSet(Once(b)') /\ Cardinality(Once(b)') <= Cardinality(Once(b))
      BY <2>1, <3>1, FS_Subset
    <3>3. Cardinality(Once(b)') \in Nat
      BY <3>2, FS_CardinalityType
    <3> QED
      BY <2>1, <2>2, <3>1, <3>2, <3>3
  <2> QED
    BY <2>3, <2>4
<1>3. \A b \in Acts : Category(b)' = Category(b)
  BY DEF Category
<1> QED
  BY <1>1, <1>2, <1>3 DEF Paid

(* A grant once is an approval that has not been used.                     *)
LEMMA PaidStep == IInv /\ Kinds => Paid'
<1> SUFFICES ASSUME IInv, Kinds PROVE Paid'
  OBVIOUS
<1>0. Paid /\ Rights /\ Counters /\ Dated /\ Asking
  BY DEF IInv
<1> USE <1>0
<1>1. CASE Ends
  <2>1. UNCHANGED <<grants, left, lasting>>
    BY <1>1 DEF Ends, Finish, request, authority, worker, world, approvals
  <2> QED
    BY <2>1, PaidKept
<1>2. ASSUME NEW a \in Acts, NEW who \in Actors, Dispatches(a, who)
      PROVE  Paid'
  <2> DEFINE base == Revoke(grants, leases \ leases')
  <2>1. /\ Granted(base, Need(a), a) /\ grants' = Spend(base, Need(a), a)
        /\ base \subseteq grants /\ grants' \subseteq base
    <3>1. Granted(base, Need(a), a) /\ grants' = Spend(base, Need(a), a)
      BY <1>2, DispatchEffect DEF Dispatches
    <3>2. base \subseteq grants
      BY Shrinks
    <3>3. Spend(base, Need(a), a) \subseteq base
      BY Shrinks
    <3> QED
      BY <3>1, <3>2, <3>3
  <2>2. /\ Destructive(a) /\ Category(a) \notin lasting => left' = [left EXCEPT ![a] = @ - 1]
        /\ ~(Destructive(a) /\ Category(a) \notin lasting) => left' = left
    BY <1>2, DispatchEffect DEF Dispatches
  <2>3. UNCHANGED lasting
    BY <1>2 DEF Dispatches, Dispatch
  <2> HIDE DEF base
  <2>4. CASE ~(Destructive(a) /\ Category(a) \notin lasting)
    BY <2>1, <2>2, <2>3, <2>4, PaidKept
  <2>5. CASE Destructive(a) /\ Category(a) \notin lasting
    <3>1. Need(a) = "destructive"
      BY <2>5, NeedsOfActions
    <3>2. ~ForCategory(base, a)
      BY <2>1, <2>5 DEF ForCategory, Paid
    <3>3. PICK g \in Exact(base, "destructive", a) : grants' = base \ {g}
      BY <2>1, <3>1, <3>2, SpendsOne DEF Rights
    <3>4. g \in Once(a) /\ grants' \subseteq grants \ {g}
      BY <2>1, <3>3 DEF Exact, Once
    <3> QED
      BY <2>2, <2>3, <2>5, <3>4, PaidBySpending
  <2> QED
    BY <2>4, <2>5
<1>3. ASSUME NEW need \in Needs, NEW a \in Acts, NEW who \in Actors, Proposes(need, a, who)
      PROVE  Paid'
  <2>1. grants' \subseteq grants /\ UNCHANGED <<left, lasting>>
    BY <1>3, Shrinks DEF Proposes, Propose
  <2> QED
    BY <2>1, PaidKept
<1>4. ASSUME NEW p \in {"ask", "autonomous"}, NEW users \in SUBSET Commands, NewGoal(p, users)
      PROVE  Paid'
  <2>1. Admit(goal + 1, p, users)
    BY <1>4 DEF NewGoal
  <2>2. /\ UNCHANGED <<left, lasting>>
        /\ grants' \subseteq grants \cup {UserGrant(a) : a \in users}
    BY <2>1, AdmitEffect
  <2>3. \A a \in users : UserGrant(a).need # "destructive"
    BY DEF UserGrant
  <2> QED
    BY <2>2, <2>3, PaidKept
<1>5. ASSUME NEW p \in {"ask", "autonomous"}, NEW users \in SUBSET Commands, Resume(p, users)
      PROVE  Paid'
  <2>1. Admit(goal, p, users)
    BY <1>5 DEF Resume
  <2>2. /\ UNCHANGED <<left, lasting>>
        /\ grants' \subseteq grants \cup {UserGrant(a) : a \in users}
    BY <2>1, AdmitEffect
  <2>3. \A a \in users : UserGrant(a).need # "destructive"
    BY DEF UserGrant
  <2> QED
    BY <2>2, <2>3, PaidKept
<1>6. ASSUME NEW scope \in {"once", "conversation"}, Approve(scope)
      PROVE  Paid'
  <2>1. grants' \subseteq grants \cup {NewGrant(scope)}
    BY <1>6, ApproveEffect
  <2>2. /\ pending.need = "destructive" /\ scope = "once" =>
             left' = [left EXCEPT ![pending.act] = @ + 1]
        /\ ~(pending.need = "destructive" /\ scope = "once") => left' = left
    BY <1>6, ApproveEffect
  <2>3. /\ pending.need = "destructive" /\ scope = "conversation" =>
             lasting' = lasting \cup {Category(pending.act)}
        /\ ~(pending.need = "destructive" /\ scope = "conversation") => lasting' = lasting
    BY <1>6, ApproveEffect
  <2>4. pending.act \in Acts
    BY <1>6, ApprovedCard
  <2>5. /\ NewGrant(scope).act = pending.act /\ NewGrant(scope).scope = scope
        /\ NewGrant(scope).need = pending.need
    BY DEF NewGrant
  <2>6. CASE pending.need # "destructive"
    BY <2>1, <2>2, <2>3, <2>5, <2>6, PaidKept
  <2>7. CASE pending.need = "destructive" /\ scope = "once"
    BY <2>1, <2>2, <2>3, <2>4, <2>5, <2>7, PaidByApproval
  <2>8. CASE pending.need = "destructive" /\ scope = "conversation"
    BY <2>1, <2>2, <2>3, <2>4, <2>5, <2>8, PaidByApproval
  <2> QED
    BY <2>6, <2>7, <2>8
<1>7. ASSUME NEW completed \in BOOLEAN, Reconcile(completed)
      PROVE  Paid'
  <2>1. UNCHANGED <<grants, left, lasting>>
    BY <1>7 DEF Reconcile, request, work, authority, worker, world, approvals
  <2> QED
    BY <2>1, PaidKept
<1>8. CASE Stop
  <2>1. UNCHANGED <<grants, left, lasting>>
    BY <1>8 DEF Stop, request, work, authority, world, approvals
  <2> QED
    BY <2>1, PaidKept
<1>9. CASE Stall
  <2>1. UNCHANGED <<grants, left, lasting>>
    BY <1>9 DEF Stall, request, work, authority, world, approvals
  <2> QED
    BY <2>1, PaidKept
<1>10. CASE Delete
  <2>1. UNCHANGED <<grants, left, lasting>>
    BY <1>10 DEF Delete, request, work, authority, worker, world, approvals
  <2> QED
    BY <2>1, PaidKept
<1>11. CASE Renew
  <2>1. UNCHANGED <<grants, left, lasting>>
    BY <1>11 DEF Renew, Answered, request, authority, worker, world, approvals
  <2> QED
    BY <2>1, PaidKept
<1>12. CASE Abandon
  <2>1. UNCHANGED <<grants, left, lasting>>
    BY <1>12 DEF Abandon, Answered, request, authority, worker, world, approvals
  <2> QED
    BY <2>1, PaidKept
<1>13. CASE Planned
  <2>1. UNCHANGED <<grants, left, lasting>>
    BY <1>13 DEF Planned, PlanWith, request, authority, world, approvals
  <2> QED
    BY <2>1, PaidKept
<1>14. CASE Pick
  <2>1. UNCHANGED <<grants, left, lasting>>
    BY <1>14 DEF Pick, request, authority, world, approvals
  <2> QED
    BY <2>1, PaidKept
<1>15. CASE Drops
  <2>1. UNCHANGED <<grants, left, lasting>>
    BY <1>15 DEF Drops, request, work, worker, world
  <2> QED
    BY <2>1, PaidKept
<1>16. CASE Enqueue
  <2>1. UNCHANGED <<authority, approvals>>
    BY <1>16 DEF Enqueue
  <2> QED
    BY <2>1, PaidKept DEF authority, approvals
<1>17. CASE Goes
  <2>1. UNCHANGED <<grants, left, lasting>>
    BY <1>17 DEF Goes, request, authority, world, approvals
  <2> QED
    BY <2>1, PaidKept
<1>18. CASE Observe
  <2>1. UNCHANGED <<grants, left, lasting>>
    BY <1>18 DEF Observe, request, authority, worker, world, approvals
  <2> QED
    BY <2>1, PaidKept
<1>19. CASE Reroute
  <2>1. UNCHANGED <<grants, left, lasting>>
    BY <1>19 DEF Reroute, request, work, authority, worker, world, approvals
  <2> QED
    BY <2>1, PaidKept
<1>20. CASE Staged
  <2>1. UNCHANGED <<authority, approvals>>
    BY <1>20 DEF Staged
  <2> QED
    BY <2>1, PaidKept DEF authority, approvals
<1>21. CASE ShowCard
  <2>1. UNCHANGED <<grants, left, lasting>>
    BY <1>21 DEF ShowCard, Finish, NoneReady, request, authority, worker, world, approvals
  <2> QED
    BY <2>1, PaidKept
<1>22. CASE Reviews
  <2>1. UNCHANGED <<grants, left, lasting>>
    BY <1>22 DEF Reviews, request, work, authority, world, approvals
  <2> QED
    BY <2>1, PaidKept
<1>23. CASE Repair
  <2>1. UNCHANGED <<grants, left, lasting>>
    BY <1>23 DEF Repair, Fault, Spare, PlanWith, request, authority, world, approvals
  <2> QED
    BY <2>1, PaidKept
<1>24. CASE Crash
  <2>1. UNCHANGED <<grants, left, lasting>>
    BY <1>24 DEF Crash, Fault, request, work, authority, worker, approvals
  <2> QED
    BY <2>1, PaidKept
<1>25. CASE Recover
  <2>1. grants' \subseteq grants /\ UNCHANGED <<left, lasting>>
    BY <1>25, Shrinks DEF Recover, approvals
  <2> QED
    BY <2>1, PaidKept
<1>26. CASE Tick
  <2>1. UNCHANGED <<grants, left, lasting>>
    BY <1>26 DEF Tick, Fault, request, work, authority, worker, approvals
  <2> QED
    BY <2>1, PaidKept
<1>27. CASE Edit
  <2>1. UNCHANGED <<grants, left, lasting>>
    BY <1>27 DEF Edit, Fault, request, work, authority, worker, approvals
  <2> QED
    BY <2>1, PaidKept
<1>28. CASE UNCHANGED vars
  <2>1. UNCHANGED <<grants, left, lasting>>
    BY <1>28 DEF vars, request, work, authority, worker, world, approvals
  <2> QED
    BY <2>1, PaidKept
<1> QED
  BY <1>1, <1>2, <1>3, <1>4, <1>5, <1>6, <1>7, <1>8, <1>9, <1>10, <1>11, <1>12, <1>13,
     <1>14, <1>15, <1>16, <1>17, <1>18, <1>19, <1>20, <1>21, <1>22, <1>23, <1>24, <1>25,
     <1>26, <1>27, <1>28 DEF Kinds

-----------------------------------------------------------------------------
(* A lease that is given up takes its grant with it.                       *)
LEMMA LapsedGrants ==
  ASSUME Leased, NEW kept \in SUBSET leases, NEW g \in Revoke(grants, leases \ kept),
         g.need = "shell"
  PROVE  \/ \E x \in allowed : x.act = g.act /\ x.scope = "user"
         \/ \E l \in kept : l.id = g.id /\ l.need = "shell" /\ l.act = g.act
BY DEF Leased, Revoke

LEMMA LeasedKept ==
  ASSUME Leased, leases' \subseteq leases, grants' \subseteq Revoke(grants, leases \ leases'),
         UNCHANGED <<allowed, goal>>
  PROVE  Leased'
<1>1. ASSUME NEW g \in grants', g.need = "shell"
      PROVE  \/ \E x \in allowed' : x.act = g.act /\ x.scope = "user"
             \/ \E l \in leases' : l.id = g.id /\ l.need = "shell" /\ l.act = g.act
  BY <1>1, LapsedGrants
<1>2. ASSUME NEW l \in leases', l.need = "shell"
      PROVE  Backed(l)' /\ l.scope \in {"once", "conversation"} /\ l.ctx[1] <= goal'
  BY <1>2 DEF Leased, Backed
<1> QED
  BY <1>1, <1>2 DEF Leased

LEMMA LeasedSame ==
  ASSUME Leased, UNCHANGED <<grants, leases, allowed, goal>>
  PROVE  Leased'
BY DEF Leased, Backed

(* A lease of an earlier goal does not hold in a later one.                *)
LEMMA LeasedAdmitted ==
  ASSUME Leased, Counters, NEW g \in {goal, goal + 1}, NEW p, NEW users \in SUBSET Commands,
         Admit(g, p, users)
  PROVE  Leased'
<1> DEFINE over  == {l \in leases : l.need = "shell" /\ l.act \in users}
           base  == Revoke(grants, over)
           added == {UserGrant(a) : a \in {b \in users : Exact(base, "shell", b) = {}}}
           kept  == Refreshed(leases \ over, g, p)
           asked == {[act |-> a, scope |-> "user", ctx |-> <<>>, era |-> 0] : a \in users}
<1>1. leases' = kept /\ grants' = Revoke(base \cup added, (leases \ over) \ kept) /\ goal' = g
  BY DEF Admit, UserGrant
<1>2. allowed' = {x \in allowed : g = goal \/ x.scope = "user"} \cup asked
  BY DEF Admit
<1>3. ASSUME NEW d \in grants', d.need = "shell"
      PROVE  \/ \E x \in allowed' : x.act = d.act /\ x.scope = "user"
             \/ \E l \in leases' : l.id = d.id /\ l.need = "shell" /\ l.act = d.act
  <2>1. CASE d \in added
    <3>1. PICK a \in users : d = UserGrant(a)
      BY <2>1
    <3>2. [act |-> a, scope |-> "user", ctx |-> <<>>, era |-> 0] \in asked
      OBVIOUS
    <3> QED
      BY <1>2, <3>1, <3>2 DEF UserGrant
  <2>2. CASE d \notin added
    <3>1. /\ d \in grants /\ \A l \in over : l.id # d.id
          /\ \A l \in (leases \ over) \ kept : l.id # d.id
      BY <1>1, <1>3, <2>2 DEF Revoke
    <3>2. CASE \E x \in allowed : x.act = d.act /\ x.scope = "user"
      BY <1>2, <3>2
    <3>3. CASE \E l \in leases : l.id = d.id /\ l.need = "shell" /\ l.act = d.act
      <4> HIDE DEF over, kept
      <4> QED
        BY <1>1, <3>1, <3>3
    <3> QED
      BY <1>3, <3>1, <3>2, <3>3 DEF Leased
  <2> QED
    BY <2>1, <2>2
<1>4. ASSUME NEW l \in leases', l.need = "shell"
      PROVE  Backed(l)' /\ l.scope \in {"once", "conversation"} /\ l.ctx[1] <= goal'
  <2>1. /\ l \in leases /\ l.ctx = Context(l.need, g, p)
    BY <1>1 DEF Refreshed, LeaseHolds
  <2>2. Backed(l) /\ l.scope \in {"once", "conversation"} /\ l.ctx[1] <= goal
    BY <1>4, <2>1 DEF Leased
  <2>3. l.ctx[1] = g
    BY <2>1 DEF Context
  <2>4. g = goal /\ goal \in Nat
    BY <2>2, <2>3 DEF Counters
  <2>5. allowed \subseteq allowed'
    BY <1>2, <2>4
  <2> QED
    BY <1>1, <2>2, <2>4, <2>5 DEF Backed
<1> QED
  BY <1>3, <1>4 DEF Leased

(* A card for a command is a lease, which remembers the context.           *)
LEMMA LeasedApproved ==
  ASSUME Leased, Asking, Dated, Counters, NEW scope \in {"once", "conversation"},
         Approve(scope)
  PROVE  Leased'
<1> DEFINE kept == Refreshed(leases, goal, policy)
           base == Revoke(grants, leases \ kept)
           asked == IF pending.need # "shell" THEN {} ELSE
                     {[act |-> pending.act, scope |-> scope, ctx |-> pending.ctx,
                       era |-> pending.era]}
<1>1. /\ leases' = kept \cup LeaseOf(pending, scope)
      /\ grants' = base \cup GrantOf(pending, scope, base)
      /\ allowed' = allowed \cup asked /\ goal' = goal
  BY DEF Approve, request
<1>2. /\ LeaseOf(pending, scope) \subseteq {NewLease(scope)}
      /\ pending.need = "shell" => LeaseOf(pending, scope) = {NewLease(scope)}
      /\ GrantOf(pending, scope, base) \subseteq {NewGrant(scope)}
  BY DEF LeaseOf, GrantOf, NewLease, NewGrant
<1>3. kept \subseteq leases
  BY Shrinks
<1>4. pending.ctx[1] <= goal
  <2>1. pending.ctx[1] \in 0 .. goal
    BY ApprovedCard
  <2> QED
    BY <2>1 DEF Counters
<1>5. /\ NewLease(scope).id = NewGrant(scope).id
      /\ NewLease(scope).need = pending.need /\ NewGrant(scope).need = pending.need
      /\ NewLease(scope).act = pending.act /\ NewGrant(scope).act = pending.act
      /\ NewLease(scope).scope = scope /\ NewLease(scope).ctx = pending.ctx
      /\ NewLease(scope).era = pending.era
  BY DEF NewLease, NewGrant
<1>6. ASSUME NEW g \in grants', g.need = "shell"
      PROVE  \/ \E x \in allowed' : x.act = g.act /\ x.scope = "user"
             \/ \E l \in leases' : l.id = g.id /\ l.need = "shell" /\ l.act = g.act
  <2>1. CASE g \in base
    <3>1. \/ \E x \in allowed : x.act = g.act /\ x.scope = "user"
          \/ \E l \in kept : l.id = g.id /\ l.need = "shell" /\ l.act = g.act
      BY <1>3, <1>6, <2>1, LapsedGrants
    <3> HIDE DEF kept, asked
    <3> QED
      BY <1>1, <3>1
  <2>2. CASE g = NewGrant(scope)
    BY <1>1, <1>2, <1>5, <1>6, <2>2
  <2> QED
    BY <1>1, <1>2, <2>1, <2>2
<1>7. ASSUME NEW l \in leases', l.need = "shell"
      PROVE  Backed(l)' /\ l.scope \in {"once", "conversation"} /\ l.ctx[1] <= goal'
  <2>1. CASE l \in leases
    <3>1. Backed(l) /\ l.scope \in {"once", "conversation"} /\ l.ctx[1] <= goal
      BY <1>7, <2>1 DEF Leased
    <3> HIDE DEF asked
    <3> QED
      BY <1>1, <3>1 DEF Backed
  <2>2. CASE l = NewLease(scope)
    <3>1. [act |-> pending.act, scope |-> scope, ctx |-> pending.ctx,
       era |-> pending.era] \in allowed'
      BY <1>1, <1>5, <1>7, <2>2
    <3>2. Backed(l)'
      BY <1>5, <2>2, <3>1 DEF Backed
    <3> QED
      BY <1>1, <1>4, <1>5, <2>2, <3>2
  <2> QED
    BY <1>1, <1>2, <1>3, <2>1, <2>2
<1> QED
  BY <1>6, <1>7 DEF Leased

(* A command has its lease, and a lease its approval.                      *)
LEMMA LeasedStep == IInv /\ Kinds => Leased'
<1> SUFFICES ASSUME IInv, Kinds PROVE Leased'
  OBVIOUS
<1>0. Leased /\ Counters /\ Dated /\ Asking
  BY DEF IInv
<1> USE <1>0
<1>1. CASE Ends
  <2>1. UNCHANGED <<grants, leases, allowed, goal>>
    BY <1>1 DEF Ends, Finish, request, authority, worker, world, approvals
  <2> QED
    BY <2>1, LeasedSame
<1>2. ASSUME NEW a \in Acts, NEW who \in Actors, Dispatches(a, who)
      PROVE  Leased'
  <2>1. /\ leases' = Refreshed(leases, goal, policy)
        /\ grants' = Spend(Revoke(grants, leases \ leases'), Need(a), a)
    BY <1>2, DispatchEffect DEF Dispatches
  <2>2. UNCHANGED <<allowed, goal>>
    BY <1>2 DEF Dispatches, Dispatch, request
  <2>3. leases' \subseteq leases /\ grants' \subseteq Revoke(grants, leases \ leases')
    BY <2>1, Shrinks
  <2> QED
    BY <2>2, <2>3, LeasedKept
<1>3. ASSUME NEW need \in Needs, NEW a \in Acts, NEW who \in Actors, Proposes(need, a, who)
      PROVE  Leased'
  <2>1. /\ leases' = Refreshed(leases, goal, policy)
        /\ grants' = Revoke(grants, leases \ leases') /\ UNCHANGED <<allowed, goal>>
    BY <1>3 DEF Proposes, Propose, request
  <2>2. leases' \subseteq leases
    BY <2>1, Shrinks
  <2> QED
    BY <2>1, <2>2, LeasedKept
<1>4. ASSUME NEW p \in {"ask", "autonomous"}, NEW users \in SUBSET Commands, NewGoal(p, users)
      PROVE  Leased'
  <2>1. Admit(goal + 1, p, users)
    BY <1>4 DEF NewGoal
  <2> QED
    BY <2>1, LeasedAdmitted
<1>5. ASSUME NEW p \in {"ask", "autonomous"}, NEW users \in SUBSET Commands, Resume(p, users)
      PROVE  Leased'
  <2>1. Admit(goal, p, users)
    BY <1>5 DEF Resume
  <2> QED
    BY <2>1, LeasedAdmitted
<1>6. ASSUME NEW scope \in {"once", "conversation"}, Approve(scope)
      PROVE  Leased'
  BY <1>6, LeasedApproved
<1>7. ASSUME NEW completed \in BOOLEAN, Reconcile(completed)
      PROVE  Leased'
  <2>1. UNCHANGED <<grants, leases, allowed, goal>>
    BY <1>7 DEF Reconcile, request, work, authority, worker, world, approvals
  <2> QED
    BY <2>1, LeasedSame
<1>8. CASE Stop
  <2>1. UNCHANGED <<grants, leases, allowed, goal>>
    BY <1>8 DEF Stop, request, work, authority, world, approvals
  <2> QED
    BY <2>1, LeasedSame
<1>9. CASE Stall
  <2>1. UNCHANGED <<grants, leases, allowed, goal>>
    BY <1>9 DEF Stall, request, work, authority, world, approvals
  <2> QED
    BY <2>1, LeasedSame
<1>10. CASE Delete
  <2>1. UNCHANGED <<grants, leases, allowed, goal>>
    BY <1>10 DEF Delete, request, work, authority, worker, world, approvals
  <2> QED
    BY <2>1, LeasedSame
<1>11. CASE Renew
  <2>1. UNCHANGED <<grants, leases, allowed, goal>>
    BY <1>11 DEF Renew, Answered, request, authority, worker, world, approvals
  <2> QED
    BY <2>1, LeasedSame
<1>12. CASE Abandon
  <2>1. UNCHANGED <<grants, leases, allowed, goal>>
    BY <1>12 DEF Abandon, Answered, request, authority, worker, world, approvals
  <2> QED
    BY <2>1, LeasedSame
<1>13. CASE Planned
  <2>1. UNCHANGED <<grants, leases, allowed, goal>>
    BY <1>13 DEF Planned, PlanWith, request, authority, world, approvals
  <2> QED
    BY <2>1, LeasedSame
<1>14. CASE Pick
  <2>1. UNCHANGED <<grants, leases, allowed, goal>>
    BY <1>14 DEF Pick, request, authority, world, approvals
  <2> QED
    BY <2>1, LeasedSame
<1>15. CASE Drops
  <2>1. UNCHANGED <<grants, leases, allowed, goal>>
    BY <1>15 DEF Drops, request, work, worker, world
  <2> QED
    BY <2>1, LeasedSame
<1>16. CASE Enqueue
  <2>1. UNCHANGED <<authority, approvals, request>>
    BY <1>16 DEF Enqueue
  <2> QED
    BY <2>1, LeasedSame DEF authority, approvals, request
<1>17. CASE Goes
  <2>1. UNCHANGED <<grants, leases, allowed, goal>>
    BY <1>17 DEF Goes, request, authority, world, approvals
  <2> QED
    BY <2>1, LeasedSame
<1>18. CASE Observe
  <2>1. UNCHANGED <<grants, leases, allowed, goal>>
    BY <1>18 DEF Observe, request, authority, worker, world, approvals
  <2> QED
    BY <2>1, LeasedSame
<1>19. CASE Reroute
  <2>1. UNCHANGED <<grants, leases, allowed, goal>>
    BY <1>19 DEF Reroute, request, work, authority, worker, world, approvals
  <2> QED
    BY <2>1, LeasedSame
<1>20. CASE Staged
  <2>1. UNCHANGED <<authority, approvals, request>>
    BY <1>20 DEF Staged
  <2> QED
    BY <2>1, LeasedSame DEF authority, approvals, request
<1>21. CASE ShowCard
  <2>1. UNCHANGED <<grants, leases, allowed, goal>>
    BY <1>21 DEF ShowCard, Finish, NoneReady, request, authority, worker, world, approvals
  <2> QED
    BY <2>1, LeasedSame
<1>22. CASE Reviews
  <2>1. UNCHANGED <<grants, leases, allowed, goal>>
    BY <1>22 DEF Reviews, request, work, authority, world, approvals
  <2> QED
    BY <2>1, LeasedSame
<1>23. CASE Repair
  <2>1. UNCHANGED <<grants, leases, allowed, goal>>
    BY <1>23 DEF Repair, Fault, Spare, PlanWith, request, authority, world, approvals
  <2> QED
    BY <2>1, LeasedSame
<1>24. CASE Crash
  <2>1. UNCHANGED <<grants, leases, allowed, goal>>
    BY <1>24 DEF Crash, Fault, request, work, authority, worker, approvals
  <2> QED
    BY <2>1, LeasedSame
<1>25. CASE Recover
  <2>1. UNCHANGED <<allowed, goal>>
    BY <1>25 DEF Recover, approvals, request
  <2>2. CASE UNCHANGED <<leases, grants>>
    BY <2>1, <2>2, LeasedSame
  <2>3. CASE /\ leases' = Refreshed(leases, goal, policy)
             /\ grants' = Revoke(grants, leases \ leases')
    <3>1. leases' \subseteq leases
      BY <2>3, Shrinks
    <3> QED
      BY <2>1, <2>3, <3>1, LeasedKept
  <2> QED
    BY <1>25, <2>2, <2>3 DEF Recover
<1>26. CASE Tick
  <2>1. UNCHANGED <<grants, leases, allowed, goal>>
    BY <1>26 DEF Tick, Fault, request, work, authority, worker, approvals
  <2> QED
    BY <2>1, LeasedSame
<1>27. CASE Edit
  <2>1. UNCHANGED <<grants, leases, allowed, goal>>
    BY <1>27 DEF Edit, Fault, request, work, authority, worker, approvals
  <2> QED
    BY <2>1, LeasedSame
<1>28. CASE UNCHANGED vars
  <2>1. UNCHANGED <<grants, leases, allowed, goal>>
    BY <1>28 DEF vars, request, work, authority, worker, world, approvals
  <2> QED
    BY <2>1, LeasedSame
<1> QED
  BY <1>1, <1>2, <1>3, <1>4, <1>5, <1>6, <1>7, <1>8, <1>9, <1>10, <1>11, <1>12, <1>13,
     <1>14, <1>15, <1>16, <1>17, <1>18, <1>19, <1>20, <1>21, <1>22, <1>23, <1>24, <1>25,
     <1>26, <1>27, <1>28 DEF Kinds

-----------------------------------------------------------------------------
LEMMA IInvInit == Init => IInv
<1> SUFFICES ASSUME Init PROVE IInv
  OBVIOUS
<1>1. Counters
  BY TurnAssumption DEF Init, Counters
<1>2. Planning
  BY DEF Init, Planning
<1>3. Control /\ Switches
  BY DEF Init, Control, Switches, Statuses, Ended
<1>4. Asking /\ Placed /\ Dated
  BY DEF Init, Asking, Placed, Dated, Nothing
<1>5. Rights
  <2>1. left \in [Acts -> Int]
    BY DEF Init
  <2> QED
    BY <2>1 DEF Init, Rights
<1>6. NothingForgotten
  <2>1. DOMAIN tasks = {}
    BY DEF Init
  <2> QED
    BY <2>1 DEF Init, NothingForgotten, UnknownIsPending, CompletedIsClean, AwaitingHasCard
<1>7. Paid
  <2>1. \A a \in Acts : Once(a) = {} /\ left[a] = 0
    BY DEF Init, Once
  <2>2. IsFiniteSet({}) /\ Cardinality({}) = 0
    BY FS_EmptySet
  <2>3. grants = {}
    BY DEF Init
  <2> QED
    BY <2>1, <2>2, <2>3 DEF Paid
<1>8. Leased
  BY DEF Init, Leased
<1> QED
  BY <1>1, <1>2, <1>3, <1>4, <1>5, <1>6, <1>7, <1>8 DEF IInv

LEMMA IInvStep == IInv /\ [Next]_vars => IInv'
<1> SUFFICES ASSUME IInv, [Next]_vars PROVE IInv'
  OBVIOUS
<1>1. Kinds
  BY EveryStep
<1>2. Counters' /\ Planning' /\ Control' /\ Switches'
  BY <1>1, CountersStep, PlanningStep, ControlStep, SwitchesStep
<1>3. Asking' /\ Rights' /\ Placed' /\ Dated' /\ Paid' /\ Leased'
  BY <1>1, AskingStep, RightsStep, PlacedStep, DatedStep, PaidStep, LeasedStep
<1>4. NothingForgotten'
  BY <1>1, UnknownIsPendingStep, CompletedIsCleanStep, AwaitingHasCardStep DEF NothingForgotten
<1> QED
  BY <1>2, <1>3, <1>4 DEF IInv

LEMMA Always == Spec => []IInv
BY IInvInit, IInvStep, PTL DEF Spec

-----------------------------------------------------------------------------
(* A task that waits for an approval has its card, a completed goal leaves *)
(* nothing behind, and an effect nobody knows of is on record until        *)
(* somebody does, whatever the plans, the actions and the faults           *)
(* (chat.rs: resolve, run_worker, recover).                                *)
THEOREM NothingIsForgotten == Spec => []NothingForgotten
<1>1. IInv => NothingForgotten
  BY DEF IInv
<1> QED
  BY <1>1, Always, PTL

(* An action approved once runs once at most, however many there are, and  *)
(* however turns are stopped, resumed, crashed and repaired                *)
(* (destructive_gate, record_approval, refresh_approval_leases).           *)
THEOREM ApprovedOnce == Spec => []OncePerApproval
<1>1. IInv => OncePerApproval
  <2> SUFFICES ASSUME IInv, NEW a \in Acts, left[a] < 0, Category(a) \notin lasting
               PROVE  FALSE
    BY DEF OncePerApproval
  <2>1. IsFiniteSet(Once(a)) /\ Cardinality(Once(a)) <= left[a]
    BY DEF IInv, Paid
  <2>2. Cardinality(Once(a)) \in Nat /\ left[a] \in Int
    BY <2>1, FS_CardinalityType DEF IInv, Rights
  <2> QED
    BY <2>1, <2>2
<1> QED
  BY <1>1, Always, PTL

(* A command that has to ask runs in the context it was approved in, or by *)
(* the word of the user, whatever is edited, stopped or resumed between    *)
(* the approval and the run (approval_context, shell_allowed).             *)
THEOREM CommandsAreApproved == Spec => CommandsInContext
<1>1. IInv /\ [Next]_vars =>
        [pc' = "effect" /\ pc # "effect" /\ Need(pending'.act) = "shell"
         => Approved(pending'.act)]_vars
  <2> SUFFICES ASSUME IInv, [Next]_vars, pc' = "effect", pc # "effect",
                      Need(pending'.act) = "shell"
               PROVE  Approved(pending'.act)
    OBVIOUS
  <2>1. Kinds
    BY EveryStep
  <2>2. PICK a \in Acts, who \in Actors : Dispatches(a, who)
    <3>1. ~ (\E scope \in {"once", "conversation"} : Approve(scope))
      BY DEF Approve, worker
    <3>2. ~ (\E completed \in BOOLEAN : Reconcile(completed))
      BY DEF Reconcile, worker
    <3>3. /\ ~ \E p \in {"ask", "autonomous"}, users \in SUBSET Commands : NewGoal(p, users)
          /\ ~ \E p \in {"ask", "autonomous"}, users \in SUBSET Commands : Resume(p, users)
      BY DEF NewGoal, Resume, Admit
    <3>4. ~ (\E need \in Needs, b \in Acts, who \in Actors : Proposes(need, b, who))
      BY DEF Proposes, Propose
    <3>5. ~Ends /\ ~Staged /\ ~ShowCard /\ ~Crash
      BY DEF Ends, Staged, ShowCard, Crash, Finish
    <3>6. ~Stop /\ ~Stall /\ ~Delete /\ ~Renew /\ ~Abandon /\ ~Drops
      BY DEF Stop, Stall, Delete, Renew, Abandon, Drops, worker
    <3>7. ~Planned /\ ~Pick /\ ~Enqueue /\ ~Goes /\ ~Reviews /\ ~Repair
      BY DEF Planned, Pick, Enqueue, Goes, Reviews, Repair
    <3>8. ~Observe /\ ~Reroute
      BY DEF Observe, Reroute, worker
    <3>9. ~Recover /\ ~Tick /\ ~Edit /\ ~UNCHANGED vars
      BY DEF Recover, Tick, Edit, vars, worker
    <3> QED
      BY <2>1, <3>1, <3>2, <3>3, <3>4, <3>5, <3>6, <3>7, <3>8, <3>9 DEF Kinds
  <2>3. pending'.act = a
    BY <2>2 DEF Dispatches, Dispatch, Effect
  <2>4. /\ leases' = Refreshed(leases, goal, policy)
        /\ Granted(Revoke(grants, leases \ leases'), "shell", a)
    BY <2>2, <2>3, DispatchEffect DEF Dispatches
  <2>5. PICK g \in Revoke(grants, leases \ leases') : g.need = "shell" /\ g.act = a
    BY <2>4 DEF Granted, Exact
  <2>6. leases' \subseteq leases
    BY <2>4, Shrinks
  <2>7. CASE \E x \in allowed : x.act = a /\ x.scope = "user"
    BY <2>3, <2>7 DEF Approved
  <2>8. ASSUME NEW l \in leases', l.need = "shell", l.act = a
        PROVE  Approved(pending'.act)
    <3>1. l.ctx = Context("shell", goal, policy) /\ (l.scope = "conversation" \/ l.era = now)
      BY <2>4, <2>8 DEF Refreshed, LeaseHolds
    <3>2. PICK x \in allowed : x.act = a /\ x.scope = l.scope /\ x.ctx = l.ctx /\ x.era = l.era
      BY <2>6, <2>8 DEF IInv, Leased, Backed
    <3> QED
      BY <2>3, <3>1, <3>2 DEF Approved
  <2> QED
    BY <2>5, <2>6, <2>7, <2>8, LapsedGrants DEF IInv
<1> QED
  BY <1>1, Always, PTL DEF Spec, CommandsInContext

(* Every part of a conversation keeps its type, within the bounds that the *)
(* checked instances set.                                                  *)
THEOREM TypeCorrect == Spec => []TypeOK
<1>1. IInv => TypeOK
  <2> SUFFICES ASSUME IInv PROVE TypeOK
    OBVIOUS
  <2>1. goal \in 0 .. MaxGoals /\ rounds \in 0 .. MaxRounds /\ replayOf \in 0 .. MaxGoals
    BY TurnAssumption DEF IInv, Counters
  <2>2. /\ stamp \in 0 .. MaxEvents /\ now \in 0 .. MaxEvents /\ script \in 0 .. MaxEvents
        /\ faults \in 0 .. MaxEvents
    BY TurnAssumption DEF IInv, Counters
  <2>3. policy \in {"ask", "autonomous"} /\ Switches /\ Control /\ Planning /\ Asking
    BY DEF IInv, Counters
  <2>4. grants \subseteq [need : Needs, act : Acts, scope : Scopes, id : 0 .. MaxEvents]
    <3> SUFFICES ASSUME NEW g \in grants
                 PROVE  g \in [need : Needs, act : Acts, scope : Scopes, id : 0 .. MaxEvents]
      OBVIOUS
    <3>1. g \in GrantSet /\ g.id <= stamp
      BY DEF IInv, Rights
    <3>2. g.id \in 0 .. MaxEvents
      BY <2>2, <3>1, TurnAssumption DEF GrantSet
    <3> QED
      BY <3>1, <3>2 DEF GrantSet
  <2>5. leases \subseteq [need : Needs, act : Acts, scope : Scopes, id : 1 .. MaxEvents,
                          ctx : Contexts, era : 0 .. MaxEvents]
    <3> SUFFICES ASSUME NEW l \in leases
                 PROVE  l \in [need : Needs, act : Acts, scope : Scopes, id : 1 .. MaxEvents,
                               ctx : Contexts, era : 0 .. MaxEvents]
      OBVIOUS
    <3>1. l \in LeaseSet /\ l.id <= stamp /\ l.era <= now
      BY DEF IInv, Rights
    <3>2. l.id \in 1 .. MaxEvents /\ l.era \in 0 .. MaxEvents
      BY <2>2, <3>1, TurnAssumption DEF LeaseSet
    <3> QED
      BY <3>1, <3>2 DEF LeaseSet
  <2>6. left \in [Acts -> Int] /\ lasting \subseteq {"files", "commands"}
    BY DEF IInv, Rights
  <2> QED
    BY <2>1, <2>2, <2>3, <2>4, <2>5, <2>6 DEF TypeOK, Switches, Control, Planning, Asking
<1> QED
  BY <1>1, Always, PTL
=============================================================================
