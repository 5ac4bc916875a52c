---------------------------- MODULE MCPlanDriver ----------------------------
(* Drivers are interchangeable.  A plan of two tasks, which its callers may *)
(* extend by the specs of replacements.                                    *)
EXTENDS PlanDriver, TLC
CONSTANTS t1, t2, t3, d1, d2, g1
Lists == {<<t1, t2>>, <<t1, t2, t3>>}
Symmetry == Permutations(Drivers)
=============================================================================
