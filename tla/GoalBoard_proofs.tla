-------------------------- MODULE GoalBoard_proofs --------------------------
(* Theorems about GoalBoard, for any goals, conversations and restarts.    *)
EXTENDS GoalBoard, FiniteSetTheorems, TLAPS

(* What a claim that is held says of the board.                            *)
Claims ==
  /\ claimed = None => admitted = None
  /\ claimed # None =>
       /\ job[claimed] = "dispatching"
       /\ \A d \in deps[claimed] : job[d] = "completed"
       /\ admitted = None => \A c \in Pool : madeFor[c] # claimed
       /\ admitted # None => madeFor[admitted] = claimed

(* A conversation of the board was admitted for a goal that was dispatched.*)
Made ==
  \A c \in Pool : madeFor[c] # None =>
    status[c] # "absent" /\ job[madeFor[c]] \notin {"absent", "queued"}

(* What a conversation records of its own goal has been achieved.          *)
Earned ==
  \A c \in Pool :
    /\ c \in active => status[c] # "absent"
    /\ status[c] = "absent" => result[c] = "none"
    /\ c \in own => /\ status[c] = "completed" => achieved[c] \in {"reviewed", "verified"}
                    /\ result[c] = "verified" => achieved[c] = "verified"

IInv == /\ TypeOK /\ Claims /\ Made /\ Earned
        /\ NeverReplayed /\ InOrder /\ CompletedIsGoal

LEMMA IInvInit == Init => IInv
<1> SUFFICES ASSUME Init PROVE IInv
  OBVIOUS
<1>1. TypeOK
  <2>1. ChatsOK
    BY DEF Init, ChatsInit, ChatsOK, Statuses
  <2>2. faults \in 0 .. MaxFaults
    BY BoardAssumption DEF Init
  <2> QED
    BY <2>1, <2>2 DEF Init, TypeOK, Outcomes
<1>2. Claims /\ Made /\ Earned
  BY BoardAssumption DEF Init, ChatsInit, Claims, Made, Earned
<1>3. NeverReplayed /\ InOrder /\ CompletedIsGoal
  BY BoardAssumption DEF Init, NeverReplayed, InOrder, OnBoard, CompletedIsGoal
<1> QED
  BY <1>1, <1>2, <1>3 DEF IInv

-----------------------------------------------------------------------------
(* Links lead to the conversation made for the goal.                       *)
LEMMA TypeOKStep == IInv /\ [Next]_vars => TypeOK'
<1> SUFFICES ASSUME IInv, [Next]_vars PROVE TypeOK'
  OBVIOUS
<1> USE BoardAssumption DEF IInv
<1>1. CASE Submit
  BY <1>1 DEF Submit, chats, lock, turn, host, TypeOK, ChatsOK
<1>2. CASE TickError
  <2>1. faults' \in 0 .. MaxFaults
    BY <1>2 DEF TickError, TypeOK
  <2> QED
    BY <1>2, <2>1 DEF TickError, chats, board, turn, TypeOK, ChatsOK
<1>3. CASE Quiesce
  BY <1>3 DEF Quiesce, chats, board, lock, turn, TypeOK, ChatsOK
<1>4. CASE Restart
  <2>1. faults' \in 0 .. MaxFaults
    BY <1>4 DEF Restart, TypeOK
  <2>2. active' \subseteq Conversations /\ stop' = {} /\ UNCHANGED status
    BY <1>4 DEF Restart, Recover
  <2>3. ChatsOK'
    BY <2>2 DEF TypeOK, ChatsOK
  <2>4. /\ job' \in [Goals -> Held \cup Settled \cup {"absent", "queued", "archived"}]
        /\ \A g \in Goals : job'[g] \in {"running", "stopping", "completed"} => job'[g] = job[g]
    BY <1>4 DEF Restart, TypeOK, Settled
  <2> QED
    BY <1>4, <2>1, <2>3, <2>4 DEF Restart, turn, TypeOK
<1>5. ASSUME NEW g \in Goals, Recheck(g) PROVE TypeOK'
  BY <1>5 DEF Recheck, SetJob, chats, lock, turn, host, TypeOK, ChatsOK, Held
<1>6. ASSUME NEW g \in Goals, Cancel(g) PROVE TypeOK'
  BY <1>6 DEF Cancel, SetJob, chats, lock, turn, host, Stop, TypeOK, ChatsOK, Held, Settled
<1>7. ASSUME NEW g \in Goals, Archive(g) PROVE TypeOK'
  BY <1>7 DEF Archive, SetJob, chats, lock, turn, host, TypeOK, ChatsOK
<1>8. ASSUME NEW g \in Goals, Reconcile(g) PROVE TypeOK'
  BY <1>8 DEF Reconcile, SetJob, chats, lock, turn, host, TypeOK, ChatsOK, Settled
<1>9. ASSUME NEW g \in Goals, Claim(g) PROVE TypeOK'
  BY <1>9 DEF Claim, SetJob, chats, turn, host, TypeOK, ChatsOK, Held
<1>10. ASSUME NEW g \in Goals, Admit(g) PROVE TypeOK'
  BY <1>10 DEF Admit, board, host, Send, Unused, Launch, TypeOK, ChatsOK, Made, Statuses
<1>11. ASSUME NEW g \in Goals, Refused(g) PROVE TypeOK'
  BY <1>11 DEF Refused, SetJob, chats, turn, host, TypeOK, ChatsOK, Settled
<1>12. ASSUME NEW g \in Goals, Bind(g) PROVE TypeOK'
  BY <1>12 DEF Bind, SetJob, chats, turn, host, TypeOK, ChatsOK, Claims, Held
<1>13. ASSUME NEW c \in Pool, NEW outcome \in Endings, TurnEnd(c, outcome) PROVE TypeOK'
  BY <1>13 DEF TurnEnd, board, lock, host, End, Endings, TypeOK, ChatsOK, Statuses, Outcomes
<1>14. ASSUME NEW c \in Pool, UserStop(c) PROVE TypeOK'
  BY <1>14 DEF UserStop, board, lock, turn, host, Stop, TypeOK, ChatsOK
<1>15. ASSUME NEW c \in Pool, UserResume(c) PROVE TypeOK'
  BY <1>15 DEF UserResume, board, lock, turn, host, Resume, Launch, TypeOK, ChatsOK, Statuses
<1>16. ASSUME NEW c \in Pool, UserFollowUp(c) PROVE TypeOK'
  BY <1>16 DEF UserFollowUp, board, lock, host, FollowUp, Launch, TypeOK, ChatsOK, Statuses,
     Outcomes
<1>17. ASSUME NEW c \in Pool, UserDelete(c) PROVE TypeOK'
  BY <1>17 DEF UserDelete, board, lock, turn, host, Delete, TypeOK, ChatsOK, Statuses
<1>18. ASSUME NEW c \in Pool, Spoil(c) PROVE TypeOK'
  BY <1>18 DEF Spoil, chats, board, lock, host, TypeOK, ChatsOK
<1>19. ASSUME NEW c \in Others, OthersSend(c) PROVE TypeOK'
  BY <1>19 DEF OthersSend, board, lock, turn, host, Launch, Others, TypeOK, ChatsOK, Statuses
<1>20. ASSUME NEW c \in Others, OthersEnd(c) PROVE TypeOK'
  BY <1>20 DEF OthersEnd, board, lock, turn, host, End, TypeOK, ChatsOK, Statuses
<1>21. CASE UNCHANGED vars
  BY <1>21 DEF vars, chats, board, lock, turn, host, TypeOK, ChatsOK
<1> QED
  BY <1>1, <1>2, <1>3, <1>4, <1>5, <1>6, <1>7, <1>8, <1>9, <1>10,
     <1>11, <1>12, <1>13, <1>14, <1>15, <1>16, <1>17, <1>18, <1>19, <1>20, <1>21 DEF Next

(* Nobody else moves the job that is claimed, or what it waits for.        *)
LEMMA ClaimsStep == IInv /\ [Next]_vars => Claims'
<1> SUFFICES ASSUME IInv, [Next]_vars PROVE Claims'
  OBVIOUS
<1> USE BoardAssumption DEF IInv
<1>1. CASE Submit
  BY <1>1 DEF Submit, lock, TypeOK, Claims
<1>2. CASE TickError
  BY <1>2 DEF TickError, Claims
<1>3. CASE Quiesce
  BY <1>3 DEF Quiesce, lock, Claims
<1>4. CASE Restart
  BY <1>4 DEF Restart, Claims
<1>5. ASSUME NEW g \in Goals, Recheck(g) PROVE Claims'
  BY <1>5 DEF Recheck, SetJob, lock, Claims
<1>6. ASSUME NEW g \in Goals, Cancel(g) PROVE Claims'
  BY <1>6 DEF Cancel, SetJob, lock, TypeOK, Claims
<1>7. ASSUME NEW g \in Goals, Archive(g) PROVE Claims'
  BY <1>7 DEF Archive, Open, lock, Claims
<1>8. ASSUME NEW g \in Goals, Reconcile(g) PROVE Claims'
  BY <1>8 DEF Reconcile, SetJob, lock, Claims
<1>9. ASSUME NEW g \in Goals, Claim(g) PROVE Claims'
  BY <1>9 DEF Claim, SetJob, TypeOK, Claims, Made
<1>10. ASSUME NEW g \in Goals, Admit(g) PROVE Claims'
  BY <1>10 DEF Admit, board, Unused, TypeOK, Claims
<1>11. ASSUME NEW g \in Goals, Refused(g) PROVE Claims'
  BY <1>11 DEF Refused, Claims
<1>12. ASSUME NEW g \in Goals, Bind(g) PROVE Claims'
  BY <1>12 DEF Bind, Claims
<1>13. ASSUME NEW c \in Pool, NEW outcome \in Endings, TurnEnd(c, outcome) PROVE Claims'
  BY <1>13 DEF TurnEnd, board, lock, Claims
<1>14. ASSUME NEW c \in Pool, UserStop(c) PROVE Claims'
  BY <1>14 DEF UserStop, board, lock, Claims
<1>15. ASSUME NEW c \in Pool, UserResume(c) PROVE Claims'
  BY <1>15 DEF UserResume, board, lock, Claims
<1>16. ASSUME NEW c \in Pool, UserFollowUp(c) PROVE Claims'
  BY <1>16 DEF UserFollowUp, board, lock, Claims
<1>17. ASSUME NEW c \in Pool, UserDelete(c) PROVE Claims'
  BY <1>17 DEF UserDelete, board, lock, Claims
<1>18. ASSUME NEW c \in Pool, Spoil(c) PROVE Claims'
  BY <1>18 DEF Spoil, board, lock, Claims
<1>19. ASSUME NEW c \in Others, OthersSend(c) PROVE Claims'
  BY <1>19 DEF OthersSend, board, lock, Claims
<1>20. ASSUME NEW c \in Others, OthersEnd(c) PROVE Claims'
  BY <1>20 DEF OthersEnd, board, lock, Claims
<1>21. CASE UNCHANGED vars
  BY <1>21 DEF vars, board, lock, Claims
<1> QED
  BY <1>1, <1>2, <1>3, <1>4, <1>5, <1>6, <1>7, <1>8, <1>9, <1>10,
     <1>11, <1>12, <1>13, <1>14, <1>15, <1>16, <1>17, <1>18, <1>19, <1>20, <1>21 DEF Next

(* A conversation is made only under a claim.                              *)
LEMMA MadeStep == IInv /\ [Next]_vars => Made'
<1> SUFFICES ASSUME IInv, [Next]_vars PROVE Made'
  OBVIOUS
<1> USE BoardAssumption DEF IInv
<1>1. CASE Submit
  BY <1>1 DEF Submit, chats, TypeOK, Made
<1>2. CASE TickError
  BY <1>2 DEF TickError, chats, board, Made
<1>3. CASE Quiesce
  BY <1>3 DEF Quiesce, chats, board, Made
<1>4. CASE Restart
  BY <1>4 DEF Restart, Recover, TypeOK, Made
<1>5. ASSUME NEW g \in Goals, Recheck(g) PROVE Made'
  BY <1>5 DEF Recheck, SetJob, chats, Made
<1>6. ASSUME NEW g \in Goals, Cancel(g) PROVE Made'
  BY <1>6 DEF Cancel, SetJob, chats, Stop, TypeOK, Made
<1>7. ASSUME NEW g \in Goals, Archive(g) PROVE Made'
  BY <1>7 DEF Archive, SetJob, chats, Made
<1>8. ASSUME NEW g \in Goals, Reconcile(g) PROVE Made'
  BY <1>8 DEF Reconcile, SetJob, chats, Made
<1>9. ASSUME NEW g \in Goals, Claim(g) PROVE Made'
  BY <1>9 DEF Claim, SetJob, chats, Made
<1>10. ASSUME NEW g \in Goals, Admit(g) PROVE Made'
  <2>1. PICK c \in Unused : admitted' = c /\ Send(c) /\ madeFor' = [madeFor EXCEPT ![c] = g]
    BY <1>10 DEF Admit
  <2>2. /\ status' = [status EXCEPT ![c] = "working"] /\ UNCHANGED job
        /\ job[g] = "dispatching" /\ c \in Pool
    BY <1>10, <2>1 DEF Admit, Send, Launch, Unused, board, Claims
  <2> QED
    BY <2>1, <2>2 DEF Made, TypeOK, ChatsOK
<1>11. ASSUME NEW g \in Goals, Refused(g) PROVE Made'
  BY <1>11 DEF Refused, SetJob, chats, Made
<1>12. ASSUME NEW g \in Goals, Bind(g) PROVE Made'
  BY <1>12 DEF Bind, SetJob, chats, Made
<1>13. ASSUME NEW c \in Pool, NEW outcome \in Endings, TurnEnd(c, outcome) PROVE Made'
  BY <1>13 DEF TurnEnd, board, End, Endings, Made
<1>14. ASSUME NEW c \in Pool, UserStop(c) PROVE Made'
  BY <1>14 DEF UserStop, board, Stop, Made
<1>15. ASSUME NEW c \in Pool, UserResume(c) PROVE Made'
  BY <1>15 DEF UserResume, board, Resume, Launch, Made
<1>16. ASSUME NEW c \in Pool, UserFollowUp(c) PROVE Made'
  BY <1>16 DEF UserFollowUp, board, FollowUp, Launch, Made
<1>17. ASSUME NEW c \in Pool, UserDelete(c) PROVE Made'
  BY <1>17 DEF UserDelete, board, Delete, Made
<1>18. ASSUME NEW c \in Pool, Spoil(c) PROVE Made'
  BY <1>18 DEF Spoil, chats, board, Made
<1>19. ASSUME NEW c \in Others, OthersSend(c) PROVE Made'
  BY <1>19 DEF OthersSend, board, Launch, Made
<1>20. ASSUME NEW c \in Others, OthersEnd(c) PROVE Made'
  BY <1>20 DEF OthersEnd, board, End, Made
<1>21. CASE UNCHANGED vars
  BY <1>21 DEF vars, chats, board, Made
<1> QED
  BY <1>1, <1>2, <1>3, <1>4, <1>5, <1>6, <1>7, <1>8, <1>9, <1>10,
     <1>11, <1>12, <1>13, <1>14, <1>15, <1>16, <1>17, <1>18, <1>19, <1>20, <1>21 DEF Next

(* Only the end of a turn records a result.                                *)
LEMMA EarnedStep == IInv /\ [Next]_vars => Earned'
<1> SUFFICES ASSUME IInv, [Next]_vars PROVE Earned'
  OBVIOUS
<1> USE BoardAssumption DEF IInv
<1>1. CASE Submit
  BY <1>1 DEF Submit, chats, turn, Earned
<1>2. CASE TickError
  BY <1>2 DEF TickError, chats, turn, Earned
<1>3. CASE Quiesce
  BY <1>3 DEF Quiesce, chats, turn, Earned
<1>4. CASE Restart
  BY <1>4 DEF Restart, turn, Recover, Earned
<1>5. ASSUME NEW g \in Goals, Recheck(g) PROVE Earned'
  BY <1>5 DEF Recheck, chats, turn, Earned
<1>6. ASSUME NEW g \in Goals, Cancel(g) PROVE Earned'
  BY <1>6 DEF Cancel, chats, turn, Stop, Earned
<1>7. ASSUME NEW g \in Goals, Archive(g) PROVE Earned'
  BY <1>7 DEF Archive, chats, turn, Earned
<1>8. ASSUME NEW g \in Goals, Reconcile(g) PROVE Earned'
  BY <1>8 DEF Reconcile, chats, turn, Earned
<1>9. ASSUME NEW g \in Goals, Claim(g) PROVE Earned'
  BY <1>9 DEF Claim, chats, turn, Earned
<1>10. ASSUME NEW g \in Goals, Admit(g) PROVE Earned'
  BY <1>10 DEF Admit, Send, Launch, TypeOK, ChatsOK, Earned
<1>11. ASSUME NEW g \in Goals, Refused(g) PROVE Earned'
  BY <1>11 DEF Refused, chats, turn, Earned
<1>12. ASSUME NEW g \in Goals, Bind(g) PROVE Earned'
  BY <1>12 DEF Bind, chats, turn, Earned
<1>13. ASSUME NEW c \in Pool, NEW outcome \in Endings, TurnEnd(c, outcome) PROVE Earned'
  BY <1>13 DEF TurnEnd, End, Endings, TypeOK, Earned
<1>14. ASSUME NEW c \in Pool, UserStop(c) PROVE Earned'
  BY <1>14 DEF UserStop, turn, Stop, Earned
<1>15. ASSUME NEW c \in Pool, UserResume(c) PROVE Earned'
  BY <1>15 DEF UserResume, turn, Resume, Launch, Earned
<1>16. ASSUME NEW c \in Pool, UserFollowUp(c) PROVE Earned'
  BY <1>16 DEF UserFollowUp, FollowUp, Launch, Earned
<1>17. ASSUME NEW c \in Pool, UserDelete(c) PROVE Earned'
  BY <1>17 DEF UserDelete, turn, Delete, Earned
<1>18. ASSUME NEW c \in Pool, Spoil(c) PROVE Earned'
  BY <1>18 DEF Spoil, chats, Earned
<1>19. ASSUME NEW c \in Others, OthersSend(c) PROVE Earned'
  BY <1>19 DEF OthersSend, turn, Launch, Others, Earned
<1>20. ASSUME NEW c \in Others, OthersEnd(c) PROVE Earned'
  BY <1>20 DEF OthersEnd, turn, End, Others, Earned
<1>21. CASE UNCHANGED vars
  BY <1>21 DEF vars, chats, turn, Earned
<1> QED
  BY <1>1, <1>2, <1>3, <1>4, <1>5, <1>6, <1>7, <1>8, <1>9, <1>10,
     <1>11, <1>12, <1>13, <1>14, <1>15, <1>16, <1>17, <1>18, <1>19, <1>20, <1>21 DEF Next

(* A second conversation would need a second claim.                        *)
LEMMA NeverReplayedStep == IInv /\ [Next]_vars => NeverReplayed'
<1> SUFFICES ASSUME IInv, [Next]_vars PROVE NeverReplayed'
  OBVIOUS
<1> USE BoardAssumption DEF IInv
<1>1. CASE Submit
  BY <1>1 DEF Submit, NeverReplayed
<1>2. CASE TickError
  BY <1>2 DEF TickError, NeverReplayed
<1>3. CASE Quiesce
  BY <1>3 DEF Quiesce, NeverReplayed
<1>4. CASE Restart
  BY <1>4 DEF Restart, NeverReplayed
<1>5. ASSUME NEW g \in Goals, Recheck(g) PROVE NeverReplayed'
  BY <1>5 DEF Recheck, NeverReplayed
<1>6. ASSUME NEW g \in Goals, Cancel(g) PROVE NeverReplayed'
  BY <1>6 DEF Cancel, NeverReplayed
<1>7. ASSUME NEW g \in Goals, Archive(g) PROVE NeverReplayed'
  BY <1>7 DEF Archive, NeverReplayed
<1>8. ASSUME NEW g \in Goals, Reconcile(g) PROVE NeverReplayed'
  BY <1>8 DEF Reconcile, NeverReplayed
<1>9. ASSUME NEW g \in Goals, Claim(g) PROVE NeverReplayed'
  BY <1>9 DEF Claim, NeverReplayed
<1>10. ASSUME NEW g \in Goals, Admit(g) PROVE NeverReplayed'
  <2>1. PICK c \in Unused : admitted' = c /\ Send(c) /\ madeFor' = [madeFor EXCEPT ![c] = g]
    BY <1>10 DEF Admit
  <2>2. c \in Pool /\ \A d \in Pool : madeFor[d] # g
    BY <1>10, <2>1 DEF Admit, Unused, Claims
  <2> QED
    BY <2>1, <2>2 DEF NeverReplayed, TypeOK
<1>11. ASSUME NEW g \in Goals, Refused(g) PROVE NeverReplayed'
  BY <1>11 DEF Refused, NeverReplayed
<1>12. ASSUME NEW g \in Goals, Bind(g) PROVE NeverReplayed'
  BY <1>12 DEF Bind, NeverReplayed
<1>13. ASSUME NEW c \in Pool, NEW outcome \in Endings, TurnEnd(c, outcome) PROVE NeverReplayed'
  BY <1>13 DEF TurnEnd, NeverReplayed
<1>14. ASSUME NEW c \in Pool, UserStop(c) PROVE NeverReplayed'
  BY <1>14 DEF UserStop, NeverReplayed
<1>15. ASSUME NEW c \in Pool, UserResume(c) PROVE NeverReplayed'
  BY <1>15 DEF UserResume, NeverReplayed
<1>16. ASSUME NEW c \in Pool, UserFollowUp(c) PROVE NeverReplayed'
  BY <1>16 DEF UserFollowUp, NeverReplayed
<1>17. ASSUME NEW c \in Pool, UserDelete(c) PROVE NeverReplayed'
  BY <1>17 DEF UserDelete, NeverReplayed
<1>18. ASSUME NEW c \in Pool, Spoil(c) PROVE NeverReplayed'
  BY <1>18 DEF Spoil, NeverReplayed
<1>19. ASSUME NEW c \in Others, OthersSend(c) PROVE NeverReplayed'
  BY <1>19 DEF OthersSend, NeverReplayed
<1>20. ASSUME NEW c \in Others, OthersEnd(c) PROVE NeverReplayed'
  BY <1>20 DEF OthersEnd, NeverReplayed
<1>21. CASE UNCHANGED vars
  BY <1>21 DEF vars, NeverReplayed
<1> QED
  BY <1>1, <1>2, <1>3, <1>4, <1>5, <1>6, <1>7, <1>8, <1>9, <1>10,
     <1>11, <1>12, <1>13, <1>14, <1>15, <1>16, <1>17, <1>18, <1>19, <1>20, <1>21 DEF Next

(* What a started goal waited for stays completed or leaves after it.      *)
LEMMA InOrderStep == IInv /\ [Next]_vars => InOrder'
<1> SUFFICES ASSUME IInv, [Next]_vars PROVE InOrder'
  OBVIOUS
<1> USE BoardAssumption DEF IInv
<1>1. CASE Submit
  BY <1>1 DEF Submit, OnBoard, TypeOK, Made, InOrder
<1>2. CASE TickError
  BY <1>2 DEF TickError, board, InOrder, OnBoard
<1>3. CASE Quiesce
  BY <1>3 DEF Quiesce, board, InOrder, OnBoard
<1>4. CASE Restart
  BY <1>4 DEF Restart, TypeOK, InOrder, OnBoard
<1>5. ASSUME NEW g \in Goals, Recheck(g) PROVE InOrder'
  BY <1>5 DEF Recheck, SetJob, InOrder, OnBoard
<1>6. ASSUME NEW g \in Goals, Cancel(g) PROVE InOrder'
  BY <1>6 DEF Cancel, SetJob, TypeOK, InOrder, OnBoard
<1>7. ASSUME NEW g \in Goals, Archive(g) PROVE InOrder'
  BY <1>7 DEF Archive, SetJob, OnBoard, InOrder
<1>8. ASSUME NEW g \in Goals, Reconcile(g) PROVE InOrder'
  BY <1>8 DEF Reconcile, SetJob, InOrder, OnBoard
<1>9. ASSUME NEW g \in Goals, Claim(g) PROVE InOrder'
  BY <1>9 DEF Claim, SetJob, InOrder, OnBoard
<1>10. ASSUME NEW g \in Goals, Admit(g) PROVE InOrder'
  BY <1>10 DEF Admit, board, Claims, InOrder, OnBoard
<1>11. ASSUME NEW g \in Goals, Refused(g) PROVE InOrder'
  BY <1>11 DEF Refused, SetJob, Claims, InOrder, OnBoard
<1>12. ASSUME NEW g \in Goals, Bind(g) PROVE InOrder'
  BY <1>12 DEF Bind, SetJob, Claims, InOrder, OnBoard
<1>13. ASSUME NEW c \in Pool, NEW outcome \in Endings, TurnEnd(c, outcome) PROVE InOrder'
  BY <1>13 DEF TurnEnd, board, InOrder, OnBoard
<1>14. ASSUME NEW c \in Pool, UserStop(c) PROVE InOrder'
  BY <1>14 DEF UserStop, board, InOrder, OnBoard
<1>15. ASSUME NEW c \in Pool, UserResume(c) PROVE InOrder'
  BY <1>15 DEF UserResume, board, InOrder, OnBoard
<1>16. ASSUME NEW c \in Pool, UserFollowUp(c) PROVE InOrder'
  BY <1>16 DEF UserFollowUp, board, InOrder, OnBoard
<1>17. ASSUME NEW c \in Pool, UserDelete(c) PROVE InOrder'
  BY <1>17 DEF UserDelete, board, InOrder, OnBoard
<1>18. ASSUME NEW c \in Pool, Spoil(c) PROVE InOrder'
  BY <1>18 DEF Spoil, board, InOrder, OnBoard
<1>19. ASSUME NEW c \in Others, OthersSend(c) PROVE InOrder'
  BY <1>19 DEF OthersSend, board, InOrder, OnBoard
<1>20. ASSUME NEW c \in Others, OthersEnd(c) PROVE InOrder'
  BY <1>20 DEF OthersEnd, board, InOrder, OnBoard
<1>21. CASE UNCHANGED vars
  BY <1>21 DEF vars, board, InOrder, OnBoard
<1> QED
  BY <1>1, <1>2, <1>3, <1>4, <1>5, <1>6, <1>7, <1>8, <1>9, <1>10,
     <1>11, <1>12, <1>13, <1>14, <1>15, <1>16, <1>17, <1>18, <1>19, <1>20, <1>21 DEF Next

(* The tick accepts what the goal's own turn achieved.                     *)
LEMMA CompletedIsGoalStep == IInv /\ [Next]_vars => CompletedIsGoal'
<1> SUFFICES ASSUME IInv, [Next]_vars PROVE CompletedIsGoal'
  OBVIOUS
<1> USE BoardAssumption DEF IInv
<1>1. CASE Submit
  BY <1>1 DEF Submit, turn, CompletedIsGoal
<1>2. CASE TickError
  BY <1>2 DEF TickError, board, turn, CompletedIsGoal
<1>3. CASE Quiesce
  BY <1>3 DEF Quiesce, board, turn, CompletedIsGoal
<1>4. CASE Restart
  BY <1>4 DEF Restart, turn, CompletedIsGoal
<1>5. ASSUME NEW g \in Goals, Recheck(g) PROVE CompletedIsGoal'
  BY <1>5 DEF Recheck, SetJob, turn, CompletedIsGoal
<1>6. ASSUME NEW g \in Goals, Cancel(g) PROVE CompletedIsGoal'
  BY <1>6 DEF Cancel, SetJob, turn, TypeOK, CompletedIsGoal
<1>7. ASSUME NEW g \in Goals, Archive(g) PROVE CompletedIsGoal'
  BY <1>7 DEF Archive, SetJob, turn, CompletedIsGoal
<1>8. ASSUME NEW g \in Goals, Reconcile(g) PROVE CompletedIsGoal'
  BY <1>8 DEF Reconcile, SetJob, turn, Accepted, Reads, TypeOK, Earned, CompletedIsGoal
<1>9. ASSUME NEW g \in Goals, Claim(g) PROVE CompletedIsGoal'
  BY <1>9 DEF Claim, SetJob, turn, CompletedIsGoal
<1>10. ASSUME NEW g \in Goals, Admit(g) PROVE CompletedIsGoal'
  BY <1>10 DEF Admit, board, CompletedIsGoal
<1>11. ASSUME NEW g \in Goals, Refused(g) PROVE CompletedIsGoal'
  BY <1>11 DEF Refused, SetJob, turn, CompletedIsGoal
<1>12. ASSUME NEW g \in Goals, Bind(g) PROVE CompletedIsGoal'
  BY <1>12 DEF Bind, SetJob, turn, TypeOK, CompletedIsGoal
<1>13. ASSUME NEW c \in Pool, NEW outcome \in Endings, TurnEnd(c, outcome) PROVE CompletedIsGoal'
  BY <1>13 DEF TurnEnd, board, TypeOK, CompletedIsGoal
<1>14. ASSUME NEW c \in Pool, UserStop(c) PROVE CompletedIsGoal'
  BY <1>14 DEF UserStop, board, turn, CompletedIsGoal
<1>15. ASSUME NEW c \in Pool, UserResume(c) PROVE CompletedIsGoal'
  BY <1>15 DEF UserResume, board, turn, CompletedIsGoal
<1>16. ASSUME NEW c \in Pool, UserFollowUp(c) PROVE CompletedIsGoal'
  BY <1>16 DEF UserFollowUp, board, CompletedIsGoal
<1>17. ASSUME NEW c \in Pool, UserDelete(c) PROVE CompletedIsGoal'
  BY <1>17 DEF UserDelete, board, turn, CompletedIsGoal
<1>18. ASSUME NEW c \in Pool, Spoil(c) PROVE CompletedIsGoal'
  BY <1>18 DEF Spoil, board, CompletedIsGoal
<1>19. ASSUME NEW c \in Others, OthersSend(c) PROVE CompletedIsGoal'
  BY <1>19 DEF OthersSend, board, turn, CompletedIsGoal
<1>20. ASSUME NEW c \in Others, OthersEnd(c) PROVE CompletedIsGoal'
  BY <1>20 DEF OthersEnd, board, turn, CompletedIsGoal
<1>21. CASE UNCHANGED vars
  BY <1>21 DEF vars, board, turn, CompletedIsGoal
<1> QED
  BY <1>1, <1>2, <1>3, <1>4, <1>5, <1>6, <1>7, <1>8, <1>9, <1>10,
     <1>11, <1>12, <1>13, <1>14, <1>15, <1>16, <1>17, <1>18, <1>19, <1>20, <1>21 DEF Next

-----------------------------------------------------------------------------
(* While a claim is held nobody else starts a worker.                        *)
LEMMA SlotKeptStep == IInv /\ SlotKept /\ [Next]_vars => SlotKept'
<1> SUFFICES ASSUME IInv, SlotKept, [Next]_vars PROVE SlotKept'
  OBVIOUS
<1> USE BoardAssumption DEF IInv
<1>0. ASSUME active' \subseteq active PROVE Cardinality(active') <= Cardinality(active)
      /\ Cardinality(active) \in Nat /\ Cardinality(active') \in Nat
  <2>1. IsFiniteSet(active)
    BY FinitelyMany, FS_Subset DEF TypeOK, ChatsOK
  <2> QED
    BY <1>0, <2>1, FS_Subset, FS_CardinalityType
<1>1. CASE Submit
  BY <1>1 DEF Submit, lock, host, chats, TypeOK, SlotKept
<1>2. CASE TickError
  BY <1>2 DEF TickError, SlotKept
<1>3. CASE Quiesce
  BY <1>3 DEF Quiesce, lock, chats, board, turn, SlotKept
<1>4. CASE Restart
  BY <1>4 DEF Restart, SlotKept
<1>5. ASSUME NEW g \in Goals, Recheck(g) PROVE SlotKept'
  BY <1>5 DEF Recheck, SetJob, Open, chats, lock, turn, host, TypeOK, SlotKept
<1>6. ASSUME NEW g \in Goals, Cancel(g) PROVE SlotKept'
  BY <1>6 DEF Cancel, SetJob, Open, Stop, chats, lock, turn, host, TypeOK, ChatsOK, SlotKept
<1>7. ASSUME NEW g \in Goals, Archive(g) PROVE SlotKept'
  BY <1>7 DEF Archive, SetJob, Open, Settled, chats, lock, turn, host, TypeOK, SlotKept
<1>8. ASSUME NEW g \in Goals, Reconcile(g) PROVE SlotKept'
  BY <1>8 DEF Reconcile, SetJob, Open, chats, lock, turn, host, TypeOK, SlotKept
<1>9. ASSUME NEW g \in Goals, Claim(g) PROVE SlotKept'
  BY <1>9 DEF Claim, Free, SetJob, Open, chats, turn, host, TypeOK, SlotKept
<1>10. ASSUME NEW g \in Goals, Admit(g) PROVE SlotKept'
  BY <1>10 DEF Admit, board, host, Send, Unused, Launch, TypeOK, SlotKept
<1>11. ASSUME NEW g \in Goals, Refused(g) PROVE SlotKept'
  BY <1>11 DEF Refused, SetJob, chats, turn, host, TypeOK, SlotKept
<1>12. ASSUME NEW g \in Goals, Bind(g) PROVE SlotKept'
  BY <1>12 DEF Bind, SetJob, chats, turn, host, TypeOK, SlotKept
<1>13. ASSUME NEW c \in Pool, NEW outcome \in Endings, TurnEnd(c, outcome) PROVE SlotKept'
  BY <1>0, <1>13 DEF TurnEnd, End, board, lock, host, Slots, SlotKept
<1>14. ASSUME NEW c \in Pool, UserStop(c) PROVE SlotKept'
  BY <1>14 DEF UserStop, Stop, board, lock, turn, host, TypeOK, SlotKept
<1>15. ASSUME NEW c \in Pool, UserResume(c) PROVE SlotKept'
  BY <1>15 DEF UserResume, Open, board, lock, turn, host, SlotKept
<1>16. ASSUME NEW c \in Pool, UserFollowUp(c) PROVE SlotKept'
  BY <1>16 DEF UserFollowUp, Open, board, lock, host, SlotKept
<1>17. ASSUME NEW c \in Pool, UserDelete(c) PROVE SlotKept'
  BY <1>17 DEF UserDelete, Delete, board, lock, turn, host, TypeOK, SlotKept
<1>18. ASSUME NEW c \in Pool, Spoil(c) PROVE SlotKept'
  BY <1>18 DEF Spoil, chats, board, lock, host, SlotKept
<1>19. ASSUME NEW c \in Others, OthersSend(c) PROVE SlotKept'
  BY <1>19 DEF OthersSend, Launch, Others, Open, board, lock, turn, host, TypeOK, SlotKept
<1>20. ASSUME NEW c \in Others, OthersEnd(c) PROVE SlotKept'
  BY <1>0, <1>20 DEF OthersEnd, End, board, lock, turn, host, Slots, SlotKept
<1>21. CASE UNCHANGED vars
  BY <1>21 DEF vars, chats, board, lock, turn, host, SlotKept
<1> QED
  BY <1>1, <1>2, <1>3, <1>4, <1>5, <1>6, <1>7, <1>8, <1>9, <1>10,
     <1>11, <1>12, <1>13, <1>14, <1>15, <1>16, <1>17, <1>18, <1>19, <1>20, <1>21 DEF Next

(* Each worker that the board started is linked to its job, or about to be,  *)
(* and a job that is claimed may run beside all that run.                    *)
Worker(c) ==
  /\ madeFor[c] # None
  /\ \/ job[madeFor[c]] \in {"running", "stopping"} /\ link[madeFor[c]] = c
     \/ claimed = madeFor[c] /\ admitted = c
Apart ==
  BoardOnly =>
    /\ \A c \in active \cap Pool : Worker(c)
    /\ claimed # None => \A h \in Goals : job[h] \in {"running", "stopping"} =>
         h \notin Exclusive /\ <<claimed, h>> \notin Shared
    /\ ExclusiveAlone /\ CancelStops

LEMMA ApartStep == IInv /\ SlotKept /\ Apart /\ [Next]_vars => Apart'
<1> SUFFICES ASSUME IInv, SlotKept, Apart, [Next]_vars PROVE Apart'
  OBVIOUS
<1> USE BoardAssumption DEF IInv, BoardOnly, Worker, ExclusiveAlone, CancelStops
<1>1. CASE Submit
  BY <1>1 DEF Submit, lock, host, chats, TypeOK, Apart
<1>2. CASE TickError
  BY <1>2 DEF TickError, TypeOK, Apart
<1>3. CASE Quiesce
  BY <1>3 DEF Quiesce, lock, chats, board, turn, Apart
<1>4. CASE Restart
  BY <1>4 DEF Restart, TypeOK, Apart
<1>5. ASSUME NEW g \in Goals, Recheck(g) PROVE Apart'
  BY <1>5 DEF Recheck, SetJob, Open, chats, lock, turn, host, TypeOK, Apart
<1>6. ASSUME NEW g \in Goals, Cancel(g) PROVE Apart'
  BY <1>6 DEF Cancel, SetJob, Open, Stop, chats, lock, turn, host, TypeOK, ChatsOK, Apart
<1>7. ASSUME NEW g \in Goals, Archive(g) PROVE Apart'
  BY <1>7 DEF Archive, SetJob, Open, Settled, chats, lock, turn, host, TypeOK, Apart
<1>8. ASSUME NEW g \in Goals, Reconcile(g) PROVE Apart'
  BY <1>8 DEF Reconcile, SetJob, Open, chats, lock, turn, host, TypeOK, Apart
<1>9. ASSUME NEW g \in Goals, Claim(g) PROVE Apart'
  BY <1>9 DEF Claim, Free, SetJob, Open, chats, turn, host, TypeOK, Apart
<1>10. ASSUME NEW g \in Goals, Admit(g) PROVE Apart'
  <2> SUFFICES ASSUME BoardOnly PROVE /\ \A c \in active' \cap Pool : Worker(c)'
                                      /\ ExclusiveAlone' /\ CancelStops'
    BY <1>10 DEF Admit, board, host, Apart
  <2> DEFINE k == CHOOSE c \in Unused : TRUE
  <2>1. /\ k \in Pool /\ status[k] = "absent" /\ claimed = g /\ admitted = None
        /\ active' = active \cup {k} /\ admitted' = k /\ claimed' = g
        /\ madeFor' = [madeFor EXCEPT ![k] = g] /\ UNCHANGED <<job, link, stop>>
    BY <1>10 DEF Admit, Send, Launch, Unused, board
  <2> HIDE DEF k
  <2>2. /\ madeFor'[k] = g /\ \A c \in Pool : c # k => madeFor'[c] = madeFor[c]
        /\ k \notin active /\ madeFor[k] = None /\ g # None
    BY <2>1 DEF TypeOK, Made, Earned
  <2>3. ASSUME NEW c \in active \cap Pool
        PROVE  /\ c # k /\ madeFor[c] \in Goals /\ link[madeFor[c]] = c
               /\ job[madeFor[c]] \in {"running", "stopping"}
               /\ madeFor[c] \notin Exclusive /\ g \notin Exclusive
               /\ <<g, madeFor[c]>> \notin Shared /\ <<madeFor[c], g>> \notin Shared
    <3>1. Worker(c) /\ c # k /\ c # None
      BY <2>1, <2>2 DEF Apart
    <3>2. /\ madeFor[c] \in Goals /\ link[madeFor[c]] = c
          /\ job[madeFor[c]] \in {"running", "stopping"}
      BY <2>1, <3>1 DEF TypeOK
    <3>3. madeFor[c] \notin Exclusive /\ <<g, madeFor[c]>> \notin Shared
      BY <2>1, <2>2, <3>2 DEF Apart
    <3>4. g \notin Exclusive
      BY <2>1, <2>2 DEF SlotKept
    <3> QED
      BY <3>1, <3>2, <3>3, <3>4
  <2>4. ASSUME NEW c \in active' \cap Pool PROVE Worker(c)'
    <3>1. CASE c = k
      BY <2>1, <2>2, <3>1
    <3>2. CASE c # k
      <4>1. c \in active \cap Pool /\ madeFor'[c] = madeFor[c]
        BY <2>1, <2>2, <3>2
      <4>2. /\ madeFor[c] \in Goals /\ link[madeFor[c]] = c
            /\ job[madeFor[c]] \in {"running", "stopping"}
        BY <2>3, <4>1
      <4> QED
        BY <2>1, <4>1, <4>2
    <3> QED
      BY <3>1, <3>2
  <2>5. ExclusiveAlone'
    <3> SUFFICES ASSUME NEW c \in active' \cap Pool, NEW d \in active' \cap Pool, c # d
                 PROVE  /\ madeFor'[c] \notin Exclusive
                        /\ <<madeFor'[c], madeFor'[d]>> \notin Shared
      OBVIOUS
    <3>1. CASE c = k
      BY <2>1, <2>2, <2>3, <3>1
    <3>2. CASE d = k
      BY <2>1, <2>2, <2>3, <3>2
    <3>3. CASE c # k /\ d # k
      BY <2>1, <2>2, <3>3 DEF Apart
    <3> QED
      BY <3>1, <3>2, <3>3
  <2>6. CancelStops'
    <3> SUFFICES ASSUME NEW h \in Goals, job[h] = "stopping", link[h] \in active'
                 PROVE  link[h] \in stop
      BY <2>1
    <3>1. link[h] # None /\ madeFor[link[h]] = h
      BY DEF TypeOK
    <3>2. link[h] # k
      BY <2>2, <3>1
    <3> QED
      BY <2>1, <3>2 DEF Apart
  <2> QED
    BY <2>4, <2>5, <2>6
<1>11. ASSUME NEW g \in Goals, Refused(g) PROVE Apart'
  <2> SUFFICES ASSUME BoardOnly PROVE /\ \A c \in active \cap Pool : Worker(c)'
                                      /\ ExclusiveAlone' /\ CancelStops'
    BY <1>11 DEF Refused, chats, turn, host, Apart
  <2>1. /\ claimed = g /\ admitted = None /\ job[g] = "dispatching"
        /\ job' = [job EXCEPT ![g] = "needs_attention"]
        /\ UNCHANGED <<active, stop, link, madeFor>>
    BY <1>11 DEF Refused, SetJob, chats, Claims
  <2>2. \A h \in Goals : job'[h] \in {"running", "stopping"} <=> job[h] \in {"running", "stopping"}
    BY <2>1 DEF TypeOK
  <2>3. \A h \in Goals : job'[h] = "stopping" => job[h] = "stopping"
    BY <2>1 DEF TypeOK
  <2>4. ASSUME NEW c \in active \cap Pool PROVE Worker(c)'
    <3>1. Worker(c) /\ c # None
      BY DEF Apart
    <3>2. madeFor[c] \in Goals /\ link[madeFor[c]] = c /\ job[madeFor[c]] \in {"running", "stopping"}
      BY <2>1, <3>1 DEF TypeOK
    <3> QED
      BY <2>1, <2>2, <3>1, <3>2
  <2> QED
    BY <2>1, <2>3, <2>4 DEF Apart
<1>12. ASSUME NEW g \in Goals, Bind(g) PROVE Apart'
  <2> SUFFICES ASSUME BoardOnly PROVE /\ \A c \in active \cap Pool : Worker(c)'
                                      /\ ExclusiveAlone' /\ CancelStops'
    BY <1>12 DEF Bind, chats, turn, host, Apart
  <2>1. /\ claimed = g /\ admitted # None /\ job[g] = "dispatching" /\ madeFor[admitted] = g
        /\ job' = [job EXCEPT ![g] = "running"] /\ link' = [link EXCEPT ![g] = admitted]
        /\ admitted \in Pool /\ g # None
        /\ UNCHANGED <<active, stop, madeFor>>
    BY <1>12 DEF Bind, SetJob, chats, turn, Claims, TypeOK
  <2>2. /\ job'[g] = "running" /\ link'[g] = admitted
        /\ \A h \in Goals : h # g => job'[h] = job[h] /\ link'[h] = link[h]
    BY <2>1 DEF TypeOK
  <2>3. ASSUME NEW c \in active \cap Pool PROVE Worker(c)'
    <3>1. Worker(c) /\ madeFor[c] \in Goals
      BY DEF Apart, TypeOK
    <3>2. CASE madeFor[c] = g
      <4>1. c = admitted
        BY <2>1, <3>2 DEF NeverReplayed
      <4> QED
        BY <2>1, <2>2, <3>1, <3>2, <4>1
    <3>3. CASE madeFor[c] # g
      BY <2>1, <2>2, <3>1, <3>3
    <3> QED
      BY <3>2, <3>3
  <2>4. CancelStops'
    BY <2>1, <2>2 DEF Apart
  <2> QED
    BY <2>1, <2>3, <2>4 DEF Apart
<1>13. ASSUME NEW c \in Pool, NEW outcome \in Endings, TurnEnd(c, outcome) PROVE Apart'
  BY <1>13 DEF TurnEnd, End, board, lock, host, TypeOK, ChatsOK, Apart
<1>14. ASSUME NEW c \in Pool, UserStop(c) PROVE Apart'
  BY <1>14 DEF UserStop, Stop, board, lock, turn, host, TypeOK, Apart
<1>15. ASSUME NEW c \in Pool, UserResume(c) PROVE Apart'
  BY <1>15 DEF UserResume, Open, board, lock, turn, host, Apart
<1>16. ASSUME NEW c \in Pool, UserFollowUp(c) PROVE Apart'
  BY <1>16 DEF UserFollowUp, Open, board, lock, host, Apart
<1>17. ASSUME NEW c \in Pool, UserDelete(c) PROVE Apart'
  BY <1>17 DEF UserDelete, Delete, board, lock, turn, host, TypeOK, Apart
<1>18. ASSUME NEW c \in Pool, Spoil(c) PROVE Apart'
  BY <1>18 DEF Spoil, chats, board, lock, host, Apart
<1>19. ASSUME NEW c \in Others, OthersSend(c) PROVE Apart'
  BY <1>19 DEF OthersSend, Launch, Others, Open, board, lock, turn, host, TypeOK, Apart
<1>20. ASSUME NEW c \in Others, OthersEnd(c) PROVE Apart'
  BY <1>20 DEF OthersEnd, End, board, lock, turn, host, TypeOK, ChatsOK, Apart
<1>21. CASE UNCHANGED vars
  BY <1>21 DEF vars, chats, board, lock, turn, host, Apart
<1> QED
  BY <1>1, <1>2, <1>3, <1>4, <1>5, <1>6, <1>7, <1>8, <1>9, <1>10,
     <1>11, <1>12, <1>13, <1>14, <1>15, <1>16, <1>17, <1>18, <1>19, <1>20, <1>21 DEF Next

-----------------------------------------------------------------------------
LEMMA IInvNext == IInv /\ [Next]_vars => IInv'
  BY TypeOKStep, ClaimsStep, MadeStep, EarnedStep, NeverReplayedStep, InOrderStep,
     CompletedIsGoalStep DEF IInv

LEMMA Invariance == Spec => []IInv
  BY IInvInit, IInvNext, PTL DEF Spec

(* The board is well typed, and its links lead to the goals' conversations.*)
THEOREM TypeCorrect == Spec => []TypeOK
<1>1. IInv => TypeOK
  BY DEF IInv
<1> QED
  BY <1>1, Invariance, PTL

(* No goal is given a second conversation, whatever the number of restarts *)
(* and of scheduler errors, and wherever they strike in a dispatch.        *)
THEOREM StartedOnce == Spec => []NeverReplayed
<1>1. IInv => NeverReplayed
  BY DEF IInv
<1> QED
  BY <1>1, Invariance, PTL

(* A goal on the board was started after all it depends on was accepted.   *)
THEOREM StartedInOrder == Spec => []InOrder
<1>1. IInv => InOrder
  BY DEF IInv
<1> QED
  BY <1>1, Invariance, PTL

(* A completed job's conversation achieved the goal it was made for, as    *)
(* verified if the caller asked for that.                                  *)
THEOREM CompletionEarned == Spec => []CompletedIsGoal
<1>1. IInv => CompletedIsGoal
  BY DEF IInv
<1> QED
  BY <1>1, Invariance, PTL

(* The slot that a dispatch counted is still there when it is used.  As long *)
(* as only the board starts the workers of its jobs, exclusive jobs run      *)
(* alone, no two work in one worktree, and a cancelled one has been told to  *)
(* stop (coordinator.rs).                                                    *)
THEOREM JobsStayApart == Spec => []JobsApart
<1>1. Init => SlotKept /\ Apart
  BY DEF Init, ChatsInit, SlotKept, Apart, ExclusiveAlone, CancelStops
<1>2. IInv /\ SlotKept /\ Apart /\ [Next]_vars => SlotKept' /\ Apart'
  BY SlotKeptStep, ApartStep
<1>3. SlotKept /\ Apart => JobsApart
  BY DEF Apart, JobsApart
<1> QED
  BY <1>1, <1>2, <1>3, Invariance, PTL DEF Spec
=============================================================================
