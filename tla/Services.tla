------------------------------ MODULE Services ------------------------------
(* The services around a turn: the live chat, the runtime's activation, the  *)
(* experiments, the calls to models, the page and the runs.  They share no   *)
(* state, so a behaviour is one of one service; the others stay as they      *)
(* began.                                                                    *)
EXTENDS StudioRuns, Activation, Promotion, Sequences, TLC
CONSTANTS
    None,
    Conversations, Messages, Of, Scopes,         \* of LiveChat
    MaxOutstanding, MaxSends, MaxRestarts,
    StepLimits, Budgets, Prices, MaxModelCalls,  \* of ModelCall
    MaxEvents, MaxSaves, MaxToolCalls            \* of ChatStore

ASSUME ServicesAssumption ==
    /\ StepLimits \subseteq Nat /\ Budgets \subseteq Nat /\ Prices \subseteq Nat
    /\ MaxModelCalls \in Nat
    /\ Of \in [Messages -> Conversations]
    /\ Nobody \notin {"absent", "working", "completed", "paused", "deleted", "claimed", "started"}
    /\ MaxEvents \in Nat \ {0} /\ MaxSaves \in Nat /\ MaxToolCalls \in Nat

VARIABLES service,
    status, active, stop, message, log, askedIn, scope, thinking, todo, found,
    sent, sends, goalOf, achieved,
    limit, budget, used, spent, dedicated, helper, call, stopped, turn, incident,
    attempts, asked, billed,
    chat, stored, events, page, saves

LiveVars == <<status, active, stop, message, log, askedIn, scope, thinking, todo, found,
              sent, sends, goalOf, achieved>>
ModelVars == <<limit, budget, used, spent, dedicated, helper, call, stopped, turn, incident,
               attempts, asked, billed>>
StoreVars == <<chat, stored, events, page, saves>>

Live == INSTANCE LiveChat
Model == INSTANCE ModelCall WITH
    Limits <- StepLimits, MaxCalls <- MaxModelCalls, sent <- attempts
Store == INSTANCE ChatStore WITH MaxCalls <- MaxToolCalls

Speaks == service = "live" /\ Live!TalkNext
Supervises == service = "runtime" /\ RuntimeNext
Improves == service = "trials" /\ TrialNext
Decides == service = "model" /\ Model!CallNext
Shows == service = "store" /\ Store!StoreNext
Serves == service = "studio" /\ StudioNext

Others ==
    /\ UNCHANGED service
    /\ service # "live" => UNCHANGED LiveVars
    /\ service # "runtime" => UNCHANGED runtimeVars
    /\ service # "trials" => UNCHANGED trialVars
    /\ service # "model" => UNCHANGED ModelVars
    /\ service # "store" => UNCHANGED StoreVars
    /\ service # "studio" => UNCHANGED runsVars

Init ==
    /\ service \in {"live", "runtime", "trials", "model", "store", "studio"}
    /\ Live!TalkInit /\ RuntimeInit /\ TrialInit /\ Model!CallInit
    /\ Store!StoreInit /\ StudioInit
    \* one of the initial states of the services that stay in it
    /\ service # "live" => \A c \in Conversations : scope[c] = CHOOSE x \in Scopes : TRUE
    /\ service # "model" => limit = 0 /\ budget = 0 /\ ~dedicated /\ ~helper
Next ==
    /\ \/ Speaks \/ Supervises \/ Improves \/ Decides
       \/ Shows \/ Serves
    /\ Others
vars == <<service, LiveVars, runtimeVars, trialVars, ModelVars, StoreVars, runsVars>>
Spec == Init /\ [][Next]_vars

\* Both messages are for the same conversation.
OneChat == [m \in Messages |-> CHOOSE c \in Conversations : TRUE]

-----------------------------------------------------------------------------
\* A follow-up is sent at most once, and never one that the log shows as unsent;
\* it starts with the access it was asked for, after a completed goal.
FollowUpsInTurn == [](service = "live" => Live!FollowUpSentOnce) /\ Live!StartsAsAsked
\* A model is called only while steps and tokens are left, every call is charged but a
\* critique, which costs no step and, made by the local helper, no tokens, and a dedicated
\* reviewer never becomes the worker's model.
CallsInBudget == Model!CallsInBudget /\ []Model!ReviewerStaysItself
\* A page that stopped fetching shows the stored state.
SettledIsCurrent == Store!SettledIsCurrent
=============================================================================
