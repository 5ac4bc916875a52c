----------------------------- MODULE UsageMeter -----------------------------
(***************************************************************************)
(* The token budget of a run across its processes: accrue_usage and the    *)
(* drive loop of crates/harness-core/src/agent.rs, over a metered provider *)
(* (crates/harness-provider/src/openai.rs) that counts from zero in every  *)
(* process.  Cost is metered and limited the same way.                     *)
(***************************************************************************)
EXTENDS Naturals

CONSTANTS
  Costs,        \* tokens one decision may take
  TokenLimits,  \* token limits a run may be given
  CanCrash,     \* a process may die, losing what it did not checkpoint
  MaxSpend      \* bound on the tokens spent, for checking

ASSUME UsageAssumption ==
  /\ Costs \subseteq Nat /\ TokenLimits \subseteq Nat
  /\ \E most \in Costs : \A c \in Costs : c <= most
  /\ CanCrash \in BOOLEAN /\ MaxSpend \in Nat

VARIABLES
  limit,      \* resource_limits.token_limit, in the checkpoint
  used,       \* used_tokens of the checkpoint
  exhausted,  \* the run has failed on its token budget
  at,         \* where the process is, "down" between processes
  mem,        \* used_tokens in memory
  meter,      \* what Model::usage() reports
  spent,      \* ghost: tokens spent by all processes
  session     \* ghost: tokens spent by this process

meterVars == <<limit, used, exhausted, at, mem, meter, spent, session>>

Higher(a, b) == IF a > b THEN a ELSE b

(* A process resumes the run with a provider of its own.                   *)
Start ==
  /\ at = "down" /\ ~exhausted
  /\ at' = "loop" /\ mem' = used
  /\ meter' = 0 /\ session' = 0
  /\ UNCHANGED <<limit, used, exhausted, spent>>

(* The head of the drive loop: a checkpoint, then the model decides and    *)
(* the provider's answer carries its usage.                                *)
Decide ==
  /\ at = "loop"
  /\ used' = mem
  /\ \E c \in Costs :
       /\ spent + c <= MaxSpend
       /\ meter' = meter + c
       /\ spent' = spent + c /\ session' = session + c
  /\ at' = "accrue"
  /\ UNCHANGED <<limit, exhausted, mem>>

Accrue_Add ==
  /\ at = "accrue"
  /\ mem' = mem + meter
  /\ at' = IF mem' > limit THEN "settle" ELSE "loop"
  /\ UNCHANGED <<limit, used, exhausted, meter, spent, session>>
(* The high-water mark, and the limit after the fact.                      *)
Accrue ==
  /\ at = "accrue"
  /\ mem' = Higher(mem, meter)
  /\ at' = IF mem' > limit THEN "settle" ELSE "loop"
  /\ UNCHANGED <<limit, used, exhausted, meter, spent, session>>

Settle ==
  /\ at = "settle"
  /\ used' = mem /\ exhausted' = TRUE
  /\ at' = "down"
  /\ UNCHANGED <<limit, mem, meter, spent, session>>

(* A shutdown request is seen at the head of the loop, and checkpoints.    *)
Shutdown ==
  /\ at = "loop"
  /\ used' = mem
  /\ at' = "down"
  /\ UNCHANGED <<limit, exhausted, mem, meter, spent, session>>

MeterCrash ==
  /\ CanCrash /\ at # "down"
  /\ at' = "down"
  /\ UNCHANGED <<limit, used, exhausted, mem, meter, spent, session>>

(* amend_resource_limits, between drives, on a run without an outcome.     *)
AmendResourceLimits ==
  /\ at = "down" /\ ~exhausted
  /\ limit' \in TokenLimits
  /\ UNCHANGED <<used, exhausted, at, mem, meter, spent, session>>

MeterInit ==
  /\ limit \in TokenLimits
  /\ used = 0 /\ exhausted = FALSE
  /\ at = "down" /\ mem = 0 /\ meter = 0
  /\ spent = 0 /\ session = 0

MeterNext ==
  \/ Start \/ Decide \/ Accrue \/ Settle \/ Shutdown \/ MeterCrash
  \/ AmendResourceLimits

MeterSpec == MeterInit /\ [][MeterNext]_meterVars

-----------------------------------------------------------------------------
(* The run is never charged for tokens nobody spent (accrue_usage), so it  *)
(* fails on its budget only if it really exceeded it.                      *)
NeverOvercharged ==
  /\ used <= spent /\ mem <= spent
  /\ exhausted => spent > limit

(* One process overruns the limit by at most the decision that exceeded it *)
(* (accrue_usage: spend is checked after the fact).                        *)
Most == CHOOSE c \in Costs : \A d \in Costs : d <= c
OverrunBounded == session <= limit + Most \/ at = "down"
=============================================================================
