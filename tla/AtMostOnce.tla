----------------------------- MODULE AtMostOnce -----------------------------
(***************************************************************************)
(* What a durable run promises about its side effects.  Effects happen in  *)
(* numbered slots.  The effect of a slot is reserved durably before it is  *)
(* performed, performed at most once, and the slot is then settled by an   *)
(* observation.  An effect whose observation is inconclusive is disputed:  *)
(* its slot is used up and nothing follows it.                             *)
(***************************************************************************)
EXTENDS Naturals

VARIABLES
  stage,  \* "free", "reserved", "performed", "disputed" or "closed"
  slot    \* slots settled or disputed so far

Init == stage = "free" /\ slot = 0

Reserve == stage = "free" /\ stage' = "reserved" /\ UNCHANGED slot
Perform == stage = "reserved" /\ stage' = "performed" /\ UNCHANGED slot

(* Settling a slot that was reserved and not performed is allowed: the     *)
(* crash came first, and the world already is as the effect would leave it *)
Settle ==
  /\ stage \in {"reserved", "performed"}
  /\ stage' = "free" /\ slot' = slot + 1

Dispute == stage = "performed" /\ stage' = "disputed" /\ slot' = slot + 1
Close   == stage # "closed" /\ stage' = "closed" /\ UNCHANGED slot

Next == Reserve \/ Perform \/ Settle \/ Dispute \/ Close
Spec == Init /\ [][Next]_<<stage, slot>>
=============================================================================
