--------------------------- MODULE ActionJournal ---------------------------
(***************************************************************************)
(* Durable delivery of outbound messages: the effect journal and the       *)
(* deliver procedure of crates/harness-core/src/action_journal.rs.  The    *)
(* journal's lease admits one process; it may die between any two steps.   *)
(* The destination is another system: a message sent to it may be lost,    *)
(* arrive late, arrive altered, or appear more than once.                  *)
(***************************************************************************)
EXTENDS Naturals, Sequences

CONSTANTS
  Ids,         \* action ids
  Intents,     \* recipient and body of a message
  Altered,     \* a message whose recipient or body is not the one intended
  Nothing,        \* no id, no intent
  MaxArrivals  \* bound on the messages the destination holds for an id

ASSUME JournalAssumption ==
  /\ Altered \notin Intents /\ Nothing \notin Intents
  /\ Nothing \notin Ids
  /\ MaxArrivals \in Nat

Messages == Intents \cup {Altered}

VARIABLES
  state,    \* the journal: effect state of each id, "absent" if not prepared
  intent,   \* the journal: the intent pinned to each id
  pc,       \* where deliver is
  id,       \* the id being delivered
  wanted,   \* the intent the caller asked for
  arrived,  \* the messages the destination holds for each id
  flying,   \* messages under way to the destination, one per id
  sent      \* ghost: what was sent under each id, in order

journal == <<state, intent>>
caller  == <<pc, id, wanted>>
vars    == <<state, intent, pc, id, wanted, arrived, flying, sent>>

EffectStates == {"absent", "prepared", "dispatched", "verified"}
Steps == {"idle", "ready", "dispatch", "send", "lookup"}

Return == pc' = "idle" /\ id' = Nothing /\ wanted' = Nothing

(* prepare: the first intent is pinned, another one is refused.            *)
Prepare(i, m) ==
  \/ /\ state[i] = "absent"
     /\ state'  = [state EXCEPT ![i] = "prepared"]
     /\ intent' = [intent EXCEPT ![i] = m]
  \/ state[i] # "absent" /\ intent[i] = m /\ UNCHANGED journal

(* transition: a compare-and-set in one transaction.                       *)
EffectTransition(i, from, to) ==
  /\ state[i] = from
  /\ state' = [state EXCEPT ![i] = to]

(* deliver up to the commit of prepare: a verified id needs nothing more, a *)
(* prepared one may be sent, a dispatched one is only looked up.           *)
Deliver(i, m) ==
  /\ pc = "idle"
  /\ Prepare(i, m)
  /\ IF state[i] = "verified" THEN UNCHANGED caller
     ELSE /\ id' = i /\ wanted' = m
          /\ pc' = IF state[i] = "dispatched" THEN "lookup" ELSE "ready"
  /\ UNCHANGED <<arrived, flying, sent>>

(* destination.ready() refuses while it needs a login or a person.         *)
DestinationReady ==
  /\ pc = "ready"
  /\ \/ pc' = "dispatch" /\ UNCHANGED <<id, wanted>>
     \/ Return
  /\ UNCHANGED <<journal, arrived, flying, sent>>

Dispatch_Unlogged ==
  /\ pc = "dispatch"
  /\ pc' = "send"
  /\ UNCHANGED <<journal, id, wanted, arrived, flying, sent>>
Dispatch ==
  /\ pc = "dispatch"
  /\ EffectTransition(id, "prepared", "dispatched")
  /\ pc' = "send"
  /\ UNCHANGED <<intent, id, wanted, arrived, flying, sent>>

(* destination.send: its result is not looked at.  The message is under    *)
(* way, as intended or altered, or it was lost.                            *)
Send ==
  /\ pc = "send"
  /\ sent' = [sent EXCEPT ![id] = Append(@, wanted)]
  /\ \E m \in {wanted, Altered, Nothing} : flying' = [flying EXCEPT ![id] = m]
  /\ pc' = "lookup"
  /\ UNCHANGED <<journal, id, wanted, arrived>>

(* Exactly one receipt, and it is the intended message.                    *)
Confirmed_Any == arrived[id] # << >>
Confirmed == arrived[id] = <<wanted>>

Confirm ==
  /\ pc = "lookup" /\ Confirmed
  /\ EffectTransition(id, "dispatched", "verified")
  /\ Return
  /\ UNCHANGED <<intent, arrived, flying, sent>>

(* The lookup fails, or finds none, several, or another message.           *)
Unknown ==
  /\ pc = "lookup"
  /\ Return
  /\ UNCHANGED <<journal, arrived, flying, sent>>

(* The process dies; or the journal itself reports an error.               *)
Crash ==
  /\ pc # "idle"
  /\ Return
  /\ UNCHANGED <<journal, arrived, flying, sent>>

(* A message arrives.                                                      *)
Arrive(i) ==
  /\ flying[i] # Nothing
  /\ Len(arrived[i]) < MaxArrivals
  /\ arrived' = [arrived EXCEPT ![i] = Append(@, flying[i])]
  /\ flying'  = [flying EXCEPT ![i] = Nothing]
  /\ UNCHANGED <<journal, caller, sent>>

(* Something else puts a message under the same id: a duplicate, or        *)
(* another client.                                                         *)
Intrude(i) ==
  /\ Len(arrived[i]) < MaxArrivals
  /\ \E m \in Messages : arrived' = [arrived EXCEPT ![i] = Append(@, m)]
  /\ UNCHANGED <<journal, caller, flying, sent>>

Init ==
  /\ state = [i \in Ids |-> "absent"] /\ intent = [i \in Ids |-> Nothing]
  /\ pc = "idle" /\ id = Nothing /\ wanted = Nothing
  /\ arrived = [i \in Ids |-> << >>] /\ flying = [i \in Ids |-> Nothing]
  /\ sent = [i \in Ids |-> << >>]

Next ==
  \/ \E i \in Ids, m \in Intents : Deliver(i, m)
  \/ DestinationReady \/ Dispatch \/ Send \/ Confirm \/ Unknown \/ Crash
  \/ \E i \in Ids : Arrive(i) \/ Intrude(i)

Spec == Init /\ [][Next]_vars

-----------------------------------------------------------------------------
TypeOK ==
  /\ state \in [Ids -> EffectStates]
  /\ intent \in [Ids -> Intents \cup {Nothing}]
  /\ pc \in Steps
  /\ id \in Ids \cup {Nothing} /\ wanted \in Intents \cup {Nothing}
  /\ arrived \in [Ids -> Seq(Messages)]
  /\ flying \in [Ids -> Messages \cup {Nothing}]
  /\ sent \in [Ids -> Seq(Intents)]

(* Whatever dies and whoever retries, one action id sends one message, and *)
(* what it sends is the intent pinned to it before (deliver, prepare).     *)
SentOnceAsPinned ==
  \A i \in Ids :
    /\ Len(sent[i]) <= 1
    /\ \A k \in 1 .. Len(sent[i]) : sent[i][k] = intent[i]

(* An id is verified only if the destination holds the pinned message: a   *)
(* send that reported success is not evidence (deliver).                   *)
VerifiedMeansReceived ==
  \A i \in Ids : state[i] = "verified" =>
    \E k \in 1 .. Len(arrived[i]) : arrived[i][k] = intent[i]

(* Each id implements the promise AtMostOnce.                              *)
StageOf(i) ==
  IF state[i] = "verified" \/ (state[i] # "dispatched" /\ sent[i] = << >>) THEN "free"
  ELSE IF sent[i] = << >> THEN "reserved"
  ELSE "performed"
SlotOf(i) == IF state[i] = "verified" THEN 1 ELSE 0
Once(i) == INSTANCE AtMostOnce WITH stage <- StageOf(i), slot <- SlotOf(i)
(* No id is sent before its dispatch is durable, and none is sent again:   *)
(* the crash window between dispatch and send costs the message, never a   *)
(* second one (deliver, transition).                                       *)
ImplementsAtMostOnce ==
  /\ \A i \in Ids : Once(i)!Init
  /\ [][\A i \in Ids : Once(i)!Next \/ UNCHANGED <<StageOf(i), SlotOf(i)>>]_vars
=============================================================================
