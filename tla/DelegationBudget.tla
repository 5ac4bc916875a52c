-------------------------- MODULE DelegationBudget --------------------------
(***************************************************************************)
(* Tool calls handed by a parent run to concurrent child runs:             *)
(* spawn_child_budgeted of crates/harness-core/src/delegation.rs over the  *)
(* durable pool of delegation_budget.rs.  A child id is a row of the pool  *)
(* and a database of its own; a row is never deleted, so at most one call  *)
(* per id gets past the reservation and `call` is kept per id.             *)
(***************************************************************************)
EXTENDS Naturals, FiniteSets

CONSTANTS
  Children,  \* child ids
  Limits,    \* capacities the parent may open the pool with
  Grants     \* tool_call_limit of a child grant

ASSUME PoolAssumption ==
  IsFiniteSet(Children) /\ Limits \subseteq Nat /\ Grants \subseteq Nat

VARIABLES
  opened,    \* the pool has a capacity row
  capacity,  \* its amount
  row,       \* the reservation row of each id
  amount,    \* its amount, 0 without a row
  child,     \* the database of each child
  taken,     \* tool_budget.used of the child's checkpoint
  call,      \* where the call of spawn_child_budgeted is
  grant,     \* tool_call_limit of that call, Reservation.amount
  calls      \* ghost: tool calls made by children under the pool

pool == <<opened, capacity, row, amount>>
poolVars == <<opened, capacity, row, amount, child, taken, call, grant, calls>>

(* What the rows hold together, counted one call of one child at a time.   *)
Units(f) == UNION {{c} \X (1..f[c]) : c \in Children}
Total(f) == Cardinality(Units(f))

(* remaining                                                               *)
Available == capacity - Total(amount)

(* The first limit is kept, another one is refused.                        *)
OpenPool(l) ==
  /\ ~opened
  /\ opened' = TRUE /\ capacity' = l
  /\ UNCHANGED <<row, amount, child, taken, call, grant, calls>>

(* One transaction reads what is available and inserts the row; an id that *)
(* has a row is refused by its primary key.                                *)
Reserve(c, g) ==
  /\ opened /\ call[c] = "idle"
  /\ row[c] = "absent"
  /\ g <= Available
  /\ row'    = [row EXCEPT ![c] = "held"]
  /\ amount' = [amount EXCEPT ![c] = g]
  /\ grant'  = [grant EXCEPT ![c] = g]
  /\ call'   = [call EXCEPT ![c] = "spawn"]
  /\ UNCHANGED <<opened, capacity, child, taken, calls>>

(* spawn_child up to the first step of the child: a new run, with the      *)
(* grant as its tool budget.  A database that holds a run is refused.      *)
Spawn(c) ==
  /\ call[c] = "spawn"
  /\ child[c] = "none"
  /\ child' = [child EXCEPT ![c] = "live"]
  /\ taken' = [taken EXCEPT ![c] = 0]
  /\ call'  = [call EXCEPT ![c] = "drive"]
  /\ UNCHANGED <<pool, grant, calls>>

Call_Unlimited(c) ==
  /\ call[c] = "drive"
  /\ taken[c] <= grant[c]
  /\ taken' = [taken EXCEPT ![c] = @ + 1]
  /\ \E n \in {0, 1} : calls' = [calls EXCEPT ![c] = @ + n]
  /\ UNCHANGED <<pool, child, call, grant>>
(* One action of the child, as AgentRuntime accounts for it: the call is   *)
(* charged in the checkpoint before it is made, and may never be made.     *)
Call(c) ==
  /\ call[c] = "drive"
  /\ taken[c] < grant[c]
  /\ taken' = [taken EXCEPT ![c] = @ + 1]
  /\ \E n \in {0, 1} : calls' = [calls EXCEPT ![c] = @ + n]
  /\ UNCHANGED <<pool, child, call, grant>>

(* The child has an outcome, completed or failed.                          *)
End(c) ==
  /\ call[c] = "drive"
  /\ child' = [child EXCEPT ![c] = "ended"]
  /\ call'  = [call EXCEPT ![c] = "settle"]
  /\ UNCHANGED <<pool, taken, grant, calls>>

(* The usage the child's checkpoint records replaces the reservation, once.*)
SettleChild(c) ==
  /\ call[c] = "settle"
  /\ taken[c] <= grant[c]
  /\ row[c] = "held"
  /\ row'    = [row EXCEPT ![c] = "settled"]
  /\ amount' = [amount EXCEPT ![c] = taken[c]]
  /\ call'   = [call EXCEPT ![c] = "idle"]
  /\ UNCHANGED <<opened, capacity, child, taken, grant, calls>>

(* The parent dies, or a `?` of spawn_child_budgeted returns an error      *)
(* (authority, workspace, database, the child's drive): the reservation    *)
(* stays as it is.                                                         *)
Abort(c) ==
  /\ call[c] # "idle"
  /\ call' = [call EXCEPT ![c] = "idle"]
  /\ UNCHANGED <<pool, child, taken, grant, calls>>

PoolInit ==
  /\ opened = FALSE /\ capacity = 0
  /\ row = [c \in Children |-> "absent"] /\ amount = [c \in Children |-> 0]
  \* spawn_child without a pool may have left a child under the same id
  /\ child \in [Children -> {"none", "ended"}]
  /\ taken = [c \in Children |-> 0]
  /\ call = [c \in Children |-> "idle"] /\ grant = [c \in Children |-> 0]
  /\ calls = [c \in Children |-> 0]

PoolNext ==
  \/ \E l \in Limits : OpenPool(l)
  \/ \E c \in Children :
       \/ \E g \in Grants : Reserve(c, g)
       \/ Spawn(c) \/ Call(c) \/ End(c) \/ SettleChild(c) \/ Abort(c)

PoolSpec == PoolInit /\ [][PoolNext]_poolVars

-----------------------------------------------------------------------------
(* However children overlap, die and settle, together they never make more *)
(* tool calls than the pool was opened with (reserve, settle): a settled   *)
(* child gives back only what it did not use.                              *)
CallsWithinCapacity == Total(calls) <= capacity

(* Each child's calls are covered by its row, and the rows by the capacity *)
(* (the SUM of reserve; a crashed child keeps its whole reservation).      *)
ReservationsCover ==
  /\ \A c \in Children : calls[c] <= amount[c]
  /\ Total(amount) <= capacity
=============================================================================
