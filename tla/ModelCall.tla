------------------------------- MODULE ModelCall -------------------------------
(***************************************************************************)
(* The model calls of one conversation: request, typed_decision and        *)
(* critique of apps/studio/src/chat.rs with the guard before each, the     *)
(* retry of a request that failed, and the incident for the recovery       *)
(* service.  Steps and tokens are counted for the goal and survive a       *)
(* crash; a call whose answer was not saved yet does not count its tokens. *)
(* The critique may be made by a local helper, which nothing meters.  What *)
(* is said to the model is left out.                                       *)
(***************************************************************************)
EXTENDS Naturals

CONSTANTS
  Limits,       \* step limits a user may set, 0 for none
  Budgets,      \* token budgets, 0 for none
  Prices,       \* tokens of a call
  MaxCalls,     \* bound on model calls where nothing else limits them
  None

Roles == {"worker", "reviewer"}
Models == {"own", "reviewer", "fallback", "local"}
Kinds == {"good", "garbled", "rejected", "lost"}   \* of answers

VARIABLES
  limit, budget,  \* limit and max_tokens
  used, spent,    \* steps used, tokens metered
  dedicated,      \* a reviewer of its own is configured
  helper,         \* the recovery service has a fallback model
  call,           \* the request under way, or None
  stopped,        \* the Stop flag
  turn,           \* "running" or "over"
  incident,       \* the recovery service has heard of a failure
  sent,           \* ghost: the calls of this goal
  asked,          \* ghost: those that were charged as a step
  billed          \* ghost: the tokens of those that were answered, but by the local helper

settings == <<limit, budget, dedicated, helper>>
metered  == <<used, spent>>
counted  == <<sent, asked, billed>>
callVars == <<settings, metered, call, stopped, turn, incident, counted>>

CallInit ==
  /\ limit \in Limits /\ budget \in Budgets
  /\ used = 0 /\ spent = 0
  /\ dedicated \in BOOLEAN /\ helper \in BOOLEAN
  /\ call = None /\ stopped = FALSE /\ turn = "running"
  /\ incident = FALSE /\ sent = 0 /\ asked = 0 /\ billed = 0

-----------------------------------------------------------------------------
(* guard, once used is u.                                                  *)
Guard(u) ==
  /\ ~stopped
  /\ limit > 0 => u < limit
  /\ budget > 0 => spent < budget

Ends == turn' = "over" /\ call' = None

Own(role) == IF role = "reviewer" /\ dedicated THEN "reviewer" ELSE "own"

Sends(c) ==
  /\ sent < MaxCalls
  /\ call' = c /\ sent' = sent + 1

(* A request, charged before it is sent, and saved.                       *)
Request(role) ==
  /\ turn = "running" /\ call = None /\ Guard(used)
  /\ used' = used + 1 /\ asked' = asked + 1
  /\ Sends([kind |-> "request", role |-> role, to |-> Own(role), attempt |-> 0,
            answer |-> "awaited", twice |-> FALSE])
  /\ UNCHANGED <<settings, spent, stopped, turn, incident, billed>>

(* typed_decision: one call of the decision service, metered like a        *)
(* request and never repeated.                                             *)
Route ==
  /\ turn = "running" /\ call = None /\ Guard(used)
  /\ used' = used + 1 /\ asked' = asked + 1
  /\ Sends([kind |-> "decision", role |-> "worker", to |-> "own", attempt |-> 0,
            answer |-> "awaited", twice |-> FALSE])
  /\ UNCHANGED <<settings, spent, stopped, turn, incident, billed>>

(* critique, which is guarded and costs no step.  While internal_jobs is   *)
(* set, which is looked up for each, the local helper makes it.            *)
Critique(local) ==
  /\ turn = "running" /\ call = None /\ Guard(used)
  /\ Sends([kind |-> "critique", role |-> "critic",
            to |-> IF local THEN "local" ELSE Own("reviewer"),
            attempt |-> 0, answer |-> "awaited", twice |-> FALSE])
  /\ UNCHANGED <<settings, metered, stopped, turn, incident, asked, billed>>

Refuse ==
  /\ turn = "running" /\ call = None /\ ~Guard(used) /\ Ends
  /\ UNCHANGED <<settings, metered, stopped, incident, counted>>

-----------------------------------------------------------------------------
(* The answer: its usage is saved before anything is made of it, also when *)
(* it is no answer to the role.  A call that fails reports no usage, and   *)
(* what the local helper used is dropped.                                  *)
Reports(kind) == kind \in {"good", "garbled"} /\ call.to # "local"
Answered_Unmetered(kind, price) ==
  /\ call # None /\ call.answer = "awaited"
  /\ spent' = (IF Reports(kind) /\ kind = "good" THEN spent + price ELSE spent)
  /\ billed' = (IF Reports(kind) THEN billed + price ELSE billed)
  /\ IF stopped /\ call.kind = "request" THEN Ends
     ELSE call' = [call EXCEPT !.answer = kind] /\ turn' = turn
  /\ UNCHANGED <<settings, used, stopped, incident, sent, asked>>
Answered(kind, price) ==
  /\ call # None /\ call.answer = "awaited"
  /\ IF Reports(kind) THEN spent' = spent + price /\ billed' = billed + price
     ELSE UNCHANGED <<spent, billed>>
  /\ IF stopped /\ call.kind = "request" THEN Ends
     ELSE call' = [call EXCEPT !.answer = kind] /\ turn' = turn
  /\ UNCHANGED <<settings, used, stopped, incident, sent, asked>>

Heard(kind) == call # None /\ call.kind = kind /\ call.answer # "awaited"
Returns == call' = None /\ turn' = turn

Take ==
  /\ Heard("request") /\ call.answer = "good" /\ Returns
  /\ UNCHANGED <<settings, metered, stopped, incident, counted>>

(* A decision is guarded once more; that it fails ends nothing.            *)
(* A critique that fails finds nothing.                                    *)
Advised ==
  /\ Heard("decision") \/ Heard("critique")
  /\ IF call.kind = "decision" /\ ~Guard(used) THEN Ends ELSE Returns
  /\ UNCHANGED <<settings, metered, stopped, incident, counted>>

(* An answer is put to the model again: a question it need not ask, once   *)
(* in a request, or a blocker without support.  The step is charged first, *)
(* and guarded after.                                                      *)
Again(once) ==
  /\ Heard("request") /\ call.answer = "good" /\ call.attempt < 2
  /\ once => ~call.twice
  /\ used' = used + 1
  /\ IF Guard(used + 1)
     THEN /\ Sends([call EXCEPT !.answer = "awaited", !.attempt = @ + 1, !.twice = @ \/ once])
          /\ asked' = asked + 1 /\ turn' = turn
     ELSE Ends /\ UNCHANGED <<sent, asked>>
  /\ UNCHANGED <<settings, spent, stopped, incident, billed>>

Unsupported ==
  /\ Heard("request") /\ call.answer = "good" /\ call.attempt = 2 /\ Ends
  /\ UNCHANGED <<settings, metered, stopped, incident, counted>>

(* What a failed first attempt is repeated with.                           *)
Fallback ==
  IF helper /\ ~(call.role = "reviewer" /\ dedicated) THEN "fallback" ELSE call.to

(* An answer that the provider's own parser rejects was not lost.          *)
Repeats ==
  /\ Heard("request") /\ call.answer # "good" /\ call.attempt = 0
  /\ call.answer = "lost" => Fallback = "fallback"

Correct ==
  /\ Repeats /\ Guard(used)
  /\ used' = used + 1 /\ asked' = asked + 1
  /\ Sends([call EXCEPT !.answer = "awaited", !.attempt = 1, !.to = Fallback])
  /\ UNCHANGED <<settings, spent, stopped, turn, incident, billed>>

Uncorrected ==
  /\ Repeats /\ ~Guard(used) /\ Ends
  /\ UNCHANGED <<settings, metered, stopped, incident, counted>>

(* The request has failed; a recovery service that is enabled hears of it, *)
(* unless Stop was pressed.                                                *)
GiveUp ==
  /\ Heard("request") /\ call.answer # "good" /\ ~Repeats /\ Ends
  /\ incident' = (incident \/ ~stopped)
  /\ UNCHANGED <<settings, metered, stopped, counted>>

-----------------------------------------------------------------------------
Stop ==
  /\ turn = "running" /\ stopped' = TRUE
  /\ UNCHANGED <<settings, metered, call, turn, incident, counted>>

(* The user may change the limits.                                         *)
Continue(l, b) ==
  /\ turn = "over" /\ turn' = "running" /\ stopped' = FALSE
  /\ limit' = l /\ budget' = b
  /\ UNCHANGED <<dedicated, helper, metered, call, incident, counted>>

NewGoal(l, b) ==
  /\ turn = "over" /\ turn' = "running" /\ stopped' = FALSE
  /\ limit' = l /\ budget' = b /\ used' = 0 /\ spent' = 0
  /\ sent' = 0 /\ asked' = 0 /\ billed' = 0 /\ incident' = FALSE
  /\ UNCHANGED <<dedicated, helper, call>>

Crash ==
  /\ turn = "running" /\ Ends
  /\ UNCHANGED <<settings, metered, stopped, incident, counted>>

CallNext ==
  \/ \E role \in Roles : Request(role)
  \/ Route \/ \E local \in BOOLEAN : Critique(local)
  \/ Refuse
  \/ \E kind \in Kinds, price \in Prices : Answered(kind, price)
  \/ Take \/ Advised \/ \E once \in BOOLEAN : Again(once)
  \/ Unsupported \/ Correct \/ Uncorrected \/ GiveUp
  \/ Stop
  \/ \E l \in Limits, b \in Budgets : Continue(l, b) \/ NewGoal(l, b)
  \/ Crash

CallSpec == CallInit /\ [][CallNext]_callVars

-----------------------------------------------------------------------------
(* Steps and tokens bound what a goal may use: a model is called only      *)
(* while both are left, and whatever was retried, put again, stopped or    *)
(* cut off by a crash, every call but a critique was charged a step, and   *)
(* the tokens of every answer that reports them, of a rejected one too,    *)
(* are metered, but for a critique of the local helper (internal_jobs).    *)
CallsInBudget ==
  [][sent' > sent => /\ budget > 0 => spent < budget
                     /\ limit > 0 => used < limit
                     /\ ~stopped
                     /\ asked' <= used' /\ billed <= spent]_callVars

(* A dedicated reviewer never becomes the model of the worker ("must not   *)
(* silently become the worker model").                                     *)
ReviewerStaysItself ==
  call # None /\ call.role = "reviewer" /\ dedicated => call.to = "reviewer"
=============================================================================
