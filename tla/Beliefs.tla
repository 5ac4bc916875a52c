------------------------------ MODULE Beliefs ------------------------------
(* Auto-memory (apps/studio/src/beliefs.rs, Chats::auto_memory): after a     *)
(* completed turn one model call reads what the user said beside the beliefs *)
(* known then, and what it answers is applied when it arrives.  Beliefs fade *)
(* without support and are retired, by the user too.  Confidence is counted  *)
(* in twentieths, time in half-lives.                                        *)
EXTENDS Integers, Sequences

CONSTANTS
    Turns,          \* conversations that end a turn at the same time
    Statements,     \* statements, near-duplicates of one another being equal
    MaxBeliefs,     \* bound: beliefs ever created
    MaxOps,         \* MAX_OPS, operations of one answer
    MaxAge,         \* bound: half-lives that pass
    MaxAnswers,     \* bound: answers applied
    MaxReadFaults   \* bound: reads of the file that fail

VARIABLES
    beliefs,        \* beliefs.json: the beliefs, by id
    asking,         \* the turns whose model call is under way
    halflives,      \* the clock
    answers,        \* answers applied so far
    faults,         \* reads that failed so far
    everRetired     \* statement ids retired so far (bookkeeping)

beliefVars == <<beliefs, asking, halflives, answers, faults, everRetired>>

Bounded(n) == IF n < 0 THEN 0 ELSE IF n > 20 THEN 20 ELSE n
\* score(): 0.8 or 0.55, a tenth per further support, a quarter off per contradiction.
Score(support, against, owner) ==
    Bounded((IF owner THEN 16 ELSE 11) + 2 * (support - 1) - 5 * against)

\* effective() below RETIRE_BELOW.
Faded(b) == b.status = "active" /\ b.confidence < 4 * 2 ^ (halflives - b.updated)
Fade(bs) == [i \in DOMAIN bs |-> IF Faded(bs[i]) THEN [bs[i] EXCEPT !.status = "retired"]
                                 ELSE bs[i]]
Active(bs) == {i \in DOMAIN bs : bs[i].status = "active"}
Fresh(s, owner) == [statement |-> s, support |-> 1, against |-> 0, status |-> "active",
                    confidence |-> Score(1, 0, owner), updated |-> halflives]
RetireOne(bs, i) == [bs EXCEPT ![i].status = "retired", ![i].updated = halflives]

BeliefOps == [op : {"create", "owner_stated"}, statement : Statements]
             \cup [op : {"support", "contradict"}, id : 1..MaxBeliefs]
             \cup [op : {"correction"}, id : 1..MaxBeliefs, statement : Statements]

----------------------------------------------------------------------------
\* One operation of an answer, on the beliefs as they are now.
Create(bs, s, owner) ==
    LET alike == {i \in Active(bs) : bs[i].statement = s}
        i == CHOOSE n \in alike : \A k \in alike : n <= k
        again == Score(bs[i].support + 1, bs[i].against, owner)
    IN  IF alike = {} THEN Append(bs, Fresh(s, owner))
        ELSE [bs EXCEPT ![i].support = @ + 1, ![i].updated = halflives,
                        ![i].confidence = IF again > @ THEN again ELSE @]
Support(bs, i) ==
    [bs EXCEPT ![i].support = @ + 1, ![i].updated = halflives, ![i].confidence = Bounded(@ + 2)]
Contradict(bs, i) ==
    LET b == [bs[i] EXCEPT !.against = @ + 1, !.updated = halflives, !.confidence = Bounded(@ - 5)]
    IN  [bs EXCEPT ![i] = IF b.against >= b.support \/ b.confidence < 4
                          THEN [b EXCEPT !.status = "retired"] ELSE b]
Correct(bs, i, s) == Append(RetireOne(bs, i), Fresh(s, TRUE))

ApplyOne(bs, op) ==
    IF op.op \in {"create", "owner_stated"}
    THEN Create(bs, op.statement, op.op = "owner_stated")
    ELSE IF op.id \notin Active(bs) THEN bs
    ELSE CASE op.op = "support" -> Support(bs, op.id)
           [] op.op = "contradict" -> Contradict(bs, op.id)
           [] op.op = "correction" -> Correct(bs, op.id, op.statement)

\* The operations of an answer, one after the other.
ApplyAll(bs, ops) ==
    LET after[n \in 0..Len(ops)] ==
          IF n = 0 THEN bs ELSE ApplyOne(after[n - 1], ops[n])
    IN  after[Len(ops)]

Load(ok) == IF ok THEN beliefs ELSE <<>>
ReadFault(ok) == /\ ok \/ faults < MaxReadFaults
                 /\ faults' = faults + (IF ok THEN 0 ELSE 1)
Remember(bs) ==
    /\ beliefs' = bs
    /\ everRetired' = everRetired \cup {i \in DOMAIN bs : bs[i].status = "retired"}

----------------------------------------------------------------------------
BeliefInit ==
    /\ beliefs = <<>> /\ everRetired = {}
    /\ asking = {}
    /\ halflives = 0 /\ answers = 0 /\ faults = 0

\* Every reader retires what has faded, and saves only if something had.
ListBeliefs(ok) ==
    LET read == Load(ok)
    IN  /\ ReadFault(ok)
        /\ Remember(IF Fade(read) = read THEN beliefs ELSE Fade(read))
        /\ UNCHANGED <<asking, halflives, answers>>

\* The user retires a belief in the interface; an unknown id is refused.
RetireBelief(i) ==
    /\ i \in DOMAIN beliefs
    /\ Remember(RetireOne(beliefs, i))
    /\ UNCHANGED <<asking, halflives, answers, faults>>

\* A completed turn asks the model, showing it the beliefs active then.  What it
\* answers is checked for form only: it may name a belief retired since, or none.
AskWhatIsNew(t, ok) ==
    LET read == Load(ok)
    IN  /\ t \notin asking
        /\ answers < MaxAnswers
        /\ ReadFault(ok)
        /\ Remember(IF Fade(read) = read THEN beliefs ELSE Fade(read))
        /\ asking' = asking \cup {t}
        /\ UNCHANGED <<halflives, answers>>

\* The call failed, or nothing in its answer is a valid operation.
NothingNew(t) ==
    /\ t \in asking
    /\ asking' = asking \ {t}
    /\ UNCHANGED <<beliefs, halflives, answers, faults, everRetired>>

ApplyAnswer(t, ops, ok) ==
    LET read == Load(ok)
        after == ApplyAll(read, ops)
    IN  /\ t \in asking
        /\ Len(after) <= MaxBeliefs
        /\ ReadFault(ok)
        /\ Remember(IF after = read THEN beliefs ELSE after)
        /\ asking' = asking \ {t}
        /\ answers' = answers + 1
        /\ UNCHANGED halflives

TimePasses ==
    /\ halflives < MaxAge
    /\ halflives' = halflives + 1
    /\ UNCHANGED <<beliefs, asking, answers, faults, everRetired>>

BeliefNext ==
    \/ \E ok \in BOOLEAN : ListBeliefs(ok)
    \/ \E i \in DOMAIN beliefs : RetireBelief(i)
    \/ \E t \in Turns, ok \in BOOLEAN :
          \/ AskWhatIsNew(t, ok)
          \/ \E n \in 1..MaxOps : \E ops \in [1..n -> BeliefOps] : ApplyAnswer(t, ops, ok)
    \/ \E t \in Turns : NothingNew(t)
    \/ TimePasses

BeliefSpec == BeliefInit /\ [][BeliefNext]_beliefVars

----------------------------------------------------------------------------
(* A belief shown to the model has more support than contradiction, however  *)
(* answers of concurrent turns, the user and the passing of time interleave. *)
MoreFor == \A i \in Active(beliefs) : beliefs[i].support > beliefs[i].against

(* "Beliefs ... are retired, never deleted" (beliefs.rs:9-10): what was once *)
(* retired is still there, and still retired.                                *)
NeverDeleted == \A i \in everRetired : i \in DOMAIN beliefs /\ beliefs[i].status = "retired"
=============================================================================
