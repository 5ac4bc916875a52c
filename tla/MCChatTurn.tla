----------------------------- MODULE MCChatTurn -----------------------------
(* Two tasks that do not depend on another.                                  *)
EXTENDS ChatTurn
CONSTANTS d1, s1, c1, r1
OnePlan == {<<{}, {}>>}
=============================================================================
