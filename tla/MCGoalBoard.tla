---------------------------- MODULE MCGoalBoard -----------------------------
(* Two goals with conversations enough for a recheck; a batch of them has    *)
(* one dependency or none.                                                   *)
EXTENDS GoalBoard
CONSTANTS g1, g2, k1, k2, k3
Flat == [g \in Goals |-> {}]
Pair == [g \in Goals |-> IF g = g2 THEN {g1} ELSE {}]
Few  == {Pair, Flat}
=============================================================================
