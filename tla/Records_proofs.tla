--------------------------- MODULE Records_proofs ---------------------------
(* Theorems about the durable records of runs, each for any values of its    *)
(* constants: the outbound journal, the token meter, the authority of child  *)
(* runs, the pool of delegated calls, the memories and the beliefs.          *)
EXTENDS Records, FiniteSetTheorems, SequenceTheorems, WellFoundedInduction, TLAPS

-----------------------------------------------------------------------------
(* ActionJournal, for any ids and intents.                                 *)
(* Where deliver stands says what the journal and the wire hold.           *)
Control ==
  /\ pc # "idle" => id \in Ids /\ wanted \in Intents /\ intent[id] = wanted
  /\ pc \in {"ready", "dispatch"} => state[id] = "prepared"
  /\ pc = "send" => state[id] = "dispatched" /\ sent[id] = << >>
  /\ pc = "lookup" => state[id] = "dispatched"
  /\ \A i \in Ids : state[i] \in {"absent", "prepared"} => sent[i] = << >>

IInv == TypeOK /\ Control /\ SentOnceAsPinned /\ VerifiedMeansReceived

LEMMA IInvInit == Init => IInv
  BY DEF Init, IInv, TypeOK, Control, SentOnceAsPinned, VerifiedMeansReceived, EffectStates, Steps

LEMMA IInvNext == IInv /\ [Next]_vars => IInv'
<1> SUFFICES ASSUME IInv, [Next]_vars PROVE IInv'
  OBVIOUS
<1> USE DEF IInv
<1>1. ASSUME NEW i \in Ids, NEW m \in Intents, Deliver(i, m) PROVE IInv'
  <2>1. \/ /\ state[i] = "absent" /\ state' = [state EXCEPT ![i] = "prepared"]
           /\ intent' = [intent EXCEPT ![i] = m]
        \/ intent[i] = m /\ UNCHANGED <<state, intent>>
    BY <1>1 DEF Deliver, Prepare, journal
  <2>2. \/ UNCHANGED <<pc, id, wanted>>
        \/ /\ id' = i /\ wanted' = m /\ state[i] # "verified"
           /\ pc' = IF state[i] = "dispatched" THEN "lookup" ELSE "ready"
    BY <1>1 DEF Deliver, caller
  <2>3. UNCHANGED <<arrived, flying, sent>> /\ pc = "idle"
    BY <1>1 DEF Deliver
  <2>4. TypeOK'
    <3>a. "prepared" \in EffectStates /\ state \in [Ids -> EffectStates]
          /\ intent \in [Ids -> Intents \cup {Nothing}]
      BY DEF TypeOK, EffectStates
    <3>1. state' \in [Ids -> EffectStates] /\ intent' \in [Ids -> Intents \cup {Nothing}]
      BY <2>1, <3>a
    <3>2. pc' \in Steps /\ id' \in Ids \cup {Nothing} /\ wanted' \in Intents \cup {Nothing}
      BY <2>2 DEF TypeOK, Steps
    <3> QED
      BY <2>3, <3>1, <3>2 DEF TypeOK
  <2>5. intent'[i] = m /\ (state[i] = "dispatched" => state'[i] = "dispatched")
    BY <2>1 DEF TypeOK
  <2>7. \A j \in Ids : state'[j] \in {"absent", "prepared"} => sent'[j] = << >>
    BY <2>1, <2>3 DEF TypeOK, Control
  <2>8. Control'
    <3>1. CASE UNCHANGED <<pc, id, wanted>>
      BY <2>3, <2>7, <3>1 DEF Control
    <3>2. CASE /\ id' = i /\ wanted' = m /\ state[i] # "verified"
               /\ pc' = IF state[i] = "dispatched" THEN "lookup" ELSE "ready"
      <4>1. state[i] # "dispatched" => state'[i] = "prepared"
        BY <1>1, <3>2 DEF Deliver, Prepare, TypeOK, EffectStates, journal
      <4> QED
        BY <2>5, <2>7, <3>2, <4>1 DEF Control
    <3> QED
      BY <2>2, <3>1, <3>2
  <2>9. SentOnceAsPinned'
    BY <2>1, <2>3 DEF TypeOK, Control, SentOnceAsPinned
  <2>10. VerifiedMeansReceived'
    BY <2>1, <2>3 DEF TypeOK, VerifiedMeansReceived
  <2> QED
    BY <2>4, <2>8, <2>9, <2>10
<1>2. CASE DestinationReady
  <2>1. UNCHANGED <<state, intent, arrived, flying, sent>> /\ pc = "ready"
    BY <1>2 DEF DestinationReady, journal
  <2>2. \/ pc' = "dispatch" /\ UNCHANGED <<id, wanted>>
        \/ pc' = "idle" /\ id' = Nothing /\ wanted' = Nothing
    BY <1>2 DEF DestinationReady, Return
  <2>3. TypeOK'
    BY <2>1, <2>2 DEF TypeOK, Steps
  <2>4. Control'
    BY <2>1, <2>2 DEF Control
  <2> QED
    BY <2>1, <2>3, <2>4 DEF SentOnceAsPinned, VerifiedMeansReceived
<1>3. CASE Dispatch
  <2>1. id \in Ids /\ pc = "dispatch" /\ sent[id] = << >>
    BY <1>3 DEF Dispatch, Control
  <2>2. TypeOK'
    BY <1>3, <2>1 DEF Dispatch, EffectTransition, TypeOK, EffectStates, Steps
  <2>3. Control' /\ SentOnceAsPinned' /\ VerifiedMeansReceived'
    BY <1>3, <2>1 DEF Dispatch, EffectTransition, TypeOK, Control, SentOnceAsPinned, VerifiedMeansReceived
  <2> QED
    BY <2>2, <2>3
<1>4. CASE Send
  <2>1. id \in Ids /\ wanted \in Intents /\ intent[id] = wanted /\ sent[id] = << >>
        /\ state[id] = "dispatched"
    BY <1>4 DEF Send, Control
  <2>2. sent' = [sent EXCEPT ![id] = <<wanted>>] /\ UNCHANGED <<journal, id, wanted, arrived>>
        /\ pc' = "lookup"
    BY <1>4, <2>1 DEF Send, TypeOK
  <2>3. flying' \in [Ids -> Messages \cup {Nothing}]
    BY <1>4, <2>1 DEF Send, TypeOK, Messages
  <2>4. TypeOK'
    <3>1. sent' \in [Ids -> Seq(Intents)]
      BY <2>1, <2>2 DEF TypeOK
    <3> QED
      BY <2>1, <2>2, <2>3, <3>1 DEF TypeOK, Steps, journal
  <2>5. Control'
    BY <2>1, <2>2 DEF TypeOK, Control, journal
  <2>6. SentOnceAsPinned' /\ VerifiedMeansReceived'
    BY <2>1, <2>2 DEF TypeOK, SentOnceAsPinned, VerifiedMeansReceived, journal
  <2> QED
    BY <2>4, <2>5, <2>6
<1>5. CASE Confirm
  <2>1. id \in Ids /\ state[id] = "dispatched" /\ intent[id] = wanted /\ arrived[id] = <<wanted>>
    BY <1>5 DEF Confirm, Confirmed, Control
  <2>2. TypeOK'
    BY <1>5, <2>1 DEF Confirm, EffectTransition, Return, TypeOK, EffectStates, Steps
  <2>3. Control' /\ SentOnceAsPinned'
    BY <1>5, <2>1 DEF Confirm, EffectTransition, Return, TypeOK, Control, SentOnceAsPinned
  <2>4. VerifiedMeansReceived'
    BY <1>5, <2>1 DEF Confirm, EffectTransition, TypeOK, VerifiedMeansReceived
  <2> QED
    BY <2>2, <2>3, <2>4
<1>6. CASE Unknown \/ Crash
  <2>1. /\ UNCHANGED <<state, intent, arrived, flying, sent>>
        /\ pc' = "idle" /\ id' = Nothing /\ wanted' = Nothing
    BY <1>6 DEF Unknown, Crash, Return, journal
  <2>2. TypeOK'
    BY <2>1 DEF TypeOK, Steps
  <2>3. Control'
    BY <2>1 DEF Control
  <2> QED
    BY <2>1, <2>2, <2>3 DEF SentOnceAsPinned, VerifiedMeansReceived
<1>7. ASSUME NEW i \in Ids, Arrive(i) \/ Intrude(i) PROVE IInv'
  <2>1. PICK m \in Messages : arrived' = [arrived EXCEPT ![i] = Append(@, m)]
    BY <1>7 DEF Arrive, Intrude, TypeOK
  <2>2. UNCHANGED <<journal, caller, sent>> /\ flying' \in [Ids -> Messages \cup {Nothing}]
    BY <1>7 DEF Arrive, Intrude, TypeOK
  <2>3. arrived' \in [Ids -> Seq(Messages)]
    BY <2>1 DEF TypeOK
  <2>4. \A j \in Ids : \A k \in 1 .. Len(arrived[j]) :
          k \in 1 .. Len(arrived'[j]) /\ arrived'[j][k] = arrived[j][k]
    BY <2>1 DEF TypeOK
  <2>5. TypeOK' /\ Control' /\ SentOnceAsPinned'
    BY <2>2, <2>3 DEF TypeOK, Control, SentOnceAsPinned, journal, caller
  <2>6. VerifiedMeansReceived'
    BY <2>2, <2>4 DEF VerifiedMeansReceived, journal
  <2> QED
    BY <2>5, <2>6
<1>8. CASE UNCHANGED vars
  BY <1>8 DEF vars, TypeOK, Control, SentOnceAsPinned, VerifiedMeansReceived
<1> QED
  BY <1>1, <1>2, <1>3, <1>4, <1>5, <1>6, <1>7, <1>8 DEF Next

LEMMA Invariance == Spec => []IInv
  BY IInvInit, IInvNext, PTL DEF Spec

(* The journal and the delivery procedure stay well typed.                 *)
THEOREM TypeCorrect == Spec => []TypeOK
  BY Invariance, PTL DEF IInv

(* One id sends at most one message, the one pinned to it.                 *)
THEOREM SendsOnce == Spec => []SentOnceAsPinned
  BY Invariance, PTL DEF IInv

(* A verified id has its message at the destination.                       *)
THEOREM VerifiedReceived == Spec => []VerifiedMeansReceived
  BY Invariance, PTL DEF IInv

LEMMA StageStep ==
  IInv /\ [Next]_vars =>
    \A i \in Ids : Once(i)!Next \/ UNCHANGED <<StageOf(i), SlotOf(i)>>
<1> SUFFICES ASSUME IInv, [Next]_vars, NEW i \in Ids
             PROVE  Once(i)!Next \/ UNCHANGED <<StageOf(i), SlotOf(i)>>
  OBVIOUS
<1> USE DEF IInv, StageOf, SlotOf
<1>1. CASE state'[i] = state[i] /\ sent'[i] = sent[i]
  BY <1>1
<1>2. ASSUME NEW j \in Ids, NEW m \in Intents, Deliver(j, m)
      PROVE  Once(i)!Next \/ UNCHANGED <<StageOf(i), SlotOf(i)>>
  BY <1>2 DEF Deliver, Prepare, TypeOK, journal
<1>3. CASE Dispatch
  <2>1. CASE id = i
    <3>1. state[i] = "prepared" /\ sent[i] = << >> /\ state'[i] = "dispatched" /\ sent' = sent
      BY <1>3, <2>1 DEF Dispatch, EffectTransition, TypeOK, Control
    <3> QED
      BY <3>1 DEF Once!Next, Once!Reserve
  <2>2. CASE id # i
    BY <1>1, <1>3, <2>2 DEF Dispatch, EffectTransition, TypeOK
  <2> QED
    BY <2>1, <2>2
<1>4. CASE Send
  <2>1. CASE id = i
    <3>1. state[i] = "dispatched" /\ sent[i] = << >> /\ state' = state /\ sent'[i] # << >>
      <4>1. sent' = [sent EXCEPT ![id] = Append(@, wanted)] /\ wanted \in Intents
        BY <1>4 DEF Send, Control
      <4>2. sent'[i] = <<wanted>> /\ sent[i] = << >>
        BY <1>4, <2>1, <4>1 DEF Send, Control, TypeOK
      <4>3. <<wanted>> # << >>
        OBVIOUS
      <4> QED
        BY <1>4, <2>1, <4>2, <4>3 DEF Send, Control, journal
    <3> QED
      BY <3>1 DEF Once!Next, Once!Perform
  <2>2. CASE id # i
    BY <1>1, <1>4, <2>2 DEF Send, TypeOK, journal
  <2> QED
    BY <2>1, <2>2
<1>5. CASE Confirm
  <2>1. CASE id = i
    <3>1. state[i] = "dispatched" /\ state'[i] = "verified" /\ sent' = sent
      BY <1>5, <2>1 DEF Confirm, EffectTransition, TypeOK
    <3> QED
      BY <3>1 DEF Once!Next, Once!Settle
  <2>2. CASE id # i
    BY <1>1, <1>5, <2>2 DEF Confirm, EffectTransition, TypeOK
  <2> QED
    BY <2>1, <2>2
<1> QED
  BY <1>1, <1>2, <1>3, <1>4, <1>5
  DEF Next, DestinationReady, Unknown, Crash, Arrive, Intrude, journal, vars

LEMMA StageInit == Init => \A i \in Ids : Once(i)!Init
  BY DEF Init, Once!Init, StageOf, SlotOf

(* Delivery under each id implements the promise AtMostOnce.               *)
THEOREM Refinement == Spec => ImplementsAtMostOnce
  BY StageInit, StageStep, Invariance, PTL DEF Spec, ImplementsAtMostOnce

-----------------------------------------------------------------------------
(* UsageMeter, for any costs, limits and crashes.                          *)
Counts ==
  /\ limit \in TokenLimits /\ exhausted \in BOOLEAN
  /\ at \in {"down", "loop", "accrue", "settle"}
  /\ used \in Nat /\ mem \in Nat /\ meter \in Nat /\ spent \in Nat /\ session \in Nat

(* The provider's meter is what this process spent, and was within the     *)
(* limit when the last decision was asked for.                             *)
MeterControl ==
  /\ at # "down" => meter = session /\ ~exhausted
  /\ session <= spent
  /\ at = "loop" => session <= limit
  /\ at = "settle" => mem > limit

MeterIInv == Counts /\ MeterControl /\ NeverOvercharged /\ OverrunBounded

LEMMA MostCosts == Most \in Costs /\ \A c \in Costs : c <= Most
  BY UsageAssumption DEF Most

LEMMA MeterIInvInit == MeterInit => MeterIInv
<1> SUFFICES ASSUME MeterInit PROVE MeterIInv
  OBVIOUS
<1>1. Counts
  BY DEF MeterInit, Counts
<1>2. MeterControl
  BY DEF MeterInit, MeterControl
<1>3. NeverOvercharged
  BY DEF MeterInit, NeverOvercharged
<1>4. OverrunBounded
  BY DEF MeterInit, OverrunBounded
<1> QED
  BY <1>1, <1>2, <1>3, <1>4 DEF MeterIInv

LEMMA MeterIInvNext == MeterIInv /\ [MeterNext]_meterVars => MeterIInv'
<1> SUFFICES ASSUME MeterIInv, [MeterNext]_meterVars PROVE MeterIInv'
  OBVIOUS
<1> USE DEF MeterIInv, Counts, MeterControl, NeverOvercharged, OverrunBounded
<1>0. limit \in Nat /\ Most \in Nat
  BY MostCosts, UsageAssumption
<1>1. CASE Start
  BY <1>0, <1>1 DEF Start
<1>2. CASE Decide
  <2>1. PICK c \in Costs : meter' = meter + c /\ spent' = spent + c /\ session' = session + c
    BY <1>2 DEF Decide
  <2>2. c \in Nat /\ c <= Most
    BY MostCosts, UsageAssumption
  <2> QED
    BY <1>0, <1>2, <2>1, <2>2 DEF Decide
<1>3. CASE Accrue
  <2>1. mem' = IF mem > meter THEN mem ELSE meter
    BY <1>3 DEF Accrue, Higher
  <2>2. mem' \in Nat /\ mem' <= spent /\ session <= mem'
    BY <1>3, <2>1 DEF Accrue
  <2> QED
    BY <1>0, <1>3, <2>2 DEF Accrue
<1>4. CASE Settle
  BY <1>0, <1>4 DEF Settle
<1>5. CASE Shutdown \/ MeterCrash
  BY <1>0, <1>5 DEF Shutdown, MeterCrash
<1>6. CASE AmendResourceLimits
  BY <1>0, <1>6 DEF AmendResourceLimits
<1>7. CASE UNCHANGED meterVars
  BY <1>7 DEF meterVars
<1> QED
  BY <1>1, <1>2, <1>3, <1>4, <1>5, <1>6, <1>7 DEF MeterNext

LEMMA MeterInvariance == MeterSpec => []MeterIInv
  BY MeterIInvInit, MeterIInvNext, PTL DEF MeterSpec

(* A run is charged for no token that was not spent, across any number of  *)
(* processes, and exhausts its budget only by exceeding it.                *)
THEOREM ChargesAreReal == MeterSpec => []NeverOvercharged
<1>1. MeterIInv => NeverOvercharged
  BY DEF MeterIInv
<1> QED
  BY <1>1, MeterInvariance, PTL

(* A process overruns the limit by one decision at most.                   *)
THEOREM OneDecisionLate == MeterSpec => []OverrunBounded
<1>1. MeterIInv => OverrunBounded
  BY DEF MeterIInv
<1> QED
  BY <1>1, MeterInvariance, PTL

-----------------------------------------------------------------------------
(* Permissions, for any programs, grants and depth.  Covering is           *)
(* transitive, so a child made by SpawnChild is within its parent; being   *)
(* within is transitive, so it is within every run above; nothing changes  *)
(* a policy while a child runs.                                            *)

\* A root and a sequence of policies of the right types.
PoliciesTypeOK == policies \in Seq(Policy) /\ Len(policies) >= 1

\* Covering is transitive: what a longer prefix covers, the shorter covers.
LEMMA CoversTransitive ==
    ASSUME NEW S, NEW a \in Seq(S), NEW b \in Seq(S), NEW c \in Seq(S),
           Covers(a, b), Covers(b, c)
    PROVE  Covers(a, c)
BY DEF Covers

\* A scope made by appending components lies below the scope it was made from.
LEMMA ScopeNarrows ==
    ASSUME NEW S, NEW a \in Seq(S), NEW b \in Seq(S)
    PROVE  Covers(a, a \o b)
BY DEF Covers

\* Words are sequences.
LEMMA WordsAreSequences ==
    ASSUME NEW S
    PROVE  Words(S) \subseteq Seq(S)
BY BoundAssumption DEF Words

\* Being within is transitive along a chain of runs.
LEMMA WithinTransitive ==
    ASSUME NEW p, NEW q, NEW r, Within(p, q), Within(q, r)
    PROVE  Within(p, r)
BY DEF Within

LEMMA Regranted ==
    ASSUME NEW s \in Policy, NEW c \in SUBSET Capabilities, NEW n \in SUBSET Programs,
           NEW w \in [Programs -> SUBSET Seq(Arguments)], NEW e \in SUBSET Names
    PROVE  [s EXCEPT !.capabilities = c, !.shell = @ \cup n, !.prefixes = w, !.env = e] \in Policy
<1>1. s.shell \cup n \in SUBSET Programs
    BY DEF Policy
<1>2. QED
    BY <1>1 DEF Policy

\* A policy spawn_child builds is of the right type.
LEMMA ChildType ==
    ASSUME NEW parent \in Policy, NEW given \in Grant, given.env \subseteq parent.env
    PROVE  ChildPolicy(parent, given) \in Policy
<1>1. given.subdir \in Seq(Dirs)
    BY WordsAreSequences DEF Grant
<1>2. parent.root \o given.subdir \in Seq(Dirs)
    BY <1>1 DEF Policy
<1>3. \A g \in given.shell : g \in Programs \X Words(Arguments) /\ g[2] \in Seq(Arguments)
    BY WordsAreSequences DEF Grant
<1>4. [p \in Programs |-> {g[2] : g \in {h \in given.shell : h[1] = p}}]
        \in [Programs -> SUBSET Seq(Arguments)]
    BY <1>3
<1>5. given.env \in SUBSET Names
    BY DEF Grant
<1> DEFINE narrowed == Narrow(parent, given.subdir)
           kept == narrowed.capabilities \ (IF given.read_only THEN {"write"} ELSE {})
           caps == IF given.shell = {} THEN kept ELSE kept \cup {"shell"}
           named == {p \in Programs : \E g \in given.shell : g[1] = p}
           words == [p \in Programs |-> {g[2] : g \in {h \in given.shell : h[1] = p}}]
<1>6. narrowed \in Policy /\ narrowed.capabilities \subseteq Capabilities
    BY <1>2 DEF Narrow, Policy, Capabilities
<1>7. caps \in SUBSET Capabilities /\ named \in SUBSET Programs
    BY <1>6 DEF Capabilities
<1>8. ChildPolicy(parent, given) =
        [narrowed EXCEPT !.capabilities = caps, !.shell = @ \cup named, !.prefixes = words,
                         !.env = given.env]
    BY DEF ChildPolicy
<1>9. words \in [Programs -> SUBSET Seq(Arguments)]
    BY <1>4
<1> HIDE DEF narrowed, caps, words, named
<1>10. [narrowed EXCEPT !.capabilities = caps, !.shell = @ \cup named, !.prefixes = words,
                        !.env = given.env] \in Policy
    BY <1>5, <1>6, <1>7, <1>9, Regranted
<1>11. QED
    BY <1>8, <1>10

\* A child that was granted only what its parent may grant is within it.
LEMMA ChildWithin ==
    ASSUME NEW parent \in Policy, NEW given \in Grant,
           \A g \in given.shell : Grantable(parent, g[1], g[2]),
           given.env \subseteq parent.env
    PROVE  Within(ChildPolicy(parent, given), parent)
<1> DEFINE sub == ChildPolicy(parent, given)
<1>0. sub \in Policy
    BY ChildType
<1>1. sub.root = parent.root \o given.subdir /\ sub.env = given.env /\ sub.hosts = {}
    BY DEF ChildPolicy, Narrow
<1>2. sub.capabilities \ {"shell"} \subseteq parent.capabilities
    BY DEF ChildPolicy, Narrow
<1>3. sub.shell = {p \in Programs : \E g \in given.shell : g[1] = p}
    BY DEF ChildPolicy, Narrow
<1>4. \A p \in Programs : sub.prefixes[p] = {g[2] : g \in {h \in given.shell : h[1] = p}}
    BY DEF ChildPolicy, Narrow
<1>5. ASSUME NEW capability \in {"read", "write"}, NEW path \in Words(Dirs),
             AllowsPath(sub, capability, path)
      PROVE  AllowsPath(parent, capability, path)
  <2>1. /\ parent.root \in Seq(Dirs) /\ given.subdir \in Seq(Dirs)
        /\ sub.root \in Seq(Dirs) /\ path \in Seq(Dirs)
      BY <1>0, WordsAreSequences DEF Policy, Grant
  <2>2. Covers(parent.root, sub.root)
      BY <1>1, <2>1, ScopeNarrows
  <2>3. Covers(sub.root, path) /\ capability \in sub.capabilities
      BY <1>5 DEF AllowsPath
  <2>4. Covers(parent.root, path)
      BY <2>1, <2>2, <2>3, CoversTransitive
  <2>5. QED
      BY <1>2, <2>3, <2>4 DEF AllowsPath
<1>6. ASSUME NEW program \in Programs, NEW args \in Words(Arguments),
             AllowsShell(sub, program, args)
      PROVE  AllowsShell(parent, program, args)
  <2>1. PICK g \in given.shell : g[1] = program
      BY <1>3, <1>6 DEF AllowsShell
  <2>2. sub.prefixes[program] # {}
      BY <1>4, <2>1
  <2>3. PICK prefix \in sub.prefixes[program] : Covers(prefix, args)
      BY <1>6, <2>2 DEF AllowsShell
  <2>4. PICK h \in given.shell : h[1] = program /\ h[2] = prefix
      BY <1>4, <2>3
  <2>5. Grantable(parent, program, prefix)
      BY <2>4
  <2>6. CASE parent.prefixes[program] = {}
      BY <2>5, <2>6 DEF Grantable, AllowsShell
  <2>7. CASE parent.prefixes[program] # {}
    <3>1. PICK held \in parent.prefixes[program] : Covers(held, prefix)
        BY <2>5, <2>7 DEF Grantable
    <3>2. held \in Seq(Arguments) /\ prefix \in Seq(Arguments) /\ args \in Seq(Arguments)
        BY <1>0, <2>3, <3>1, WordsAreSequences DEF Policy
    <3>3. Covers(held, args)
        BY <2>3, <3>1, <3>2, CoversTransitive
    <3>4. QED
        BY <2>5, <3>1, <3>3 DEF Grantable, AllowsShell
  <2>8. QED
      BY <2>6, <2>7
<1>7. QED
    BY <1>1, <1>5, <1>6 DEF Within, AllowsFetch

\* What the host does before the root's run starts keeps the types.
LEMMA ConfiguredType ==
    ASSUME PoliciesTypeOK, NEW policy \in Policy, Configure(policy)
    PROVE  PoliciesTypeOK' /\ Len(policies') = 1
BY DEF PoliciesTypeOK, Configure

LEMMA RootType ==
    ASSUME PoliciesTypeOK
    PROVE  Root \in Policy
BY DEF PoliciesTypeOK, Root

\* A chain of one run is within itself: there is nothing below it.
LEMMA AloneNeverGrows ==
    ASSUME PoliciesTypeOK, Len(policies) = 1
    PROVE  NeverGrows
BY DEF PoliciesTypeOK, NeverGrows

PermIInv == PoliciesTypeOK /\ NeverGrows

LEMMA PermIInvInit == PermInit => PermIInv
<1> SUFFICES ASSUME PermInit PROVE PermIInv
    OBVIOUS
<1>1. milestone_default \in Policy
    BY DefaultAssumption DEF milestone_default, Policy, Capabilities
<1>2. PoliciesTypeOK /\ Len(policies) = 1
    BY <1>1 DEF PermInit, PoliciesTypeOK
<1>3. QED
    BY <1>2, AloneNeverGrows DEF PermIInv

\* The host configures the root: nothing runs below it yet.
LEMMA PermIInvConfigure ==
    ASSUME PermIInv, NEW policy \in Policy, Configure(policy)
    PROVE  PermIInv'
<1>1. PoliciesTypeOK' /\ Len(policies') = 1
    BY ConfiguredType DEF PermIInv
<1>2. NeverGrows'
    BY <1>1 DEF PoliciesTypeOK, NeverGrows
<1>3. QED
    BY <1>1, <1>2 DEF PermIInv

\* A child is within its parent, hence within every run above it.
LEMMA PermIInvSpawn ==
    ASSUME PermIInv, NEW given \in Grant, SpawnChild(given)
    PROVE  PermIInv'
<1> DEFINE n == Len(policies)
           parent == policies[n]
           sub == ChildPolicy(parent, given)
<1>1. n \in Nat /\ n >= 1 /\ policies \in Seq(Policy) /\ parent \in Policy
    BY DEF PermIInv, PoliciesTypeOK
<1>2. /\ policies' = Append(policies, sub)
      /\ \A g \in given.shell : Grantable(parent, g[1], g[2])
      /\ given.env \subseteq parent.env
    BY DEF SpawnChild
<1>3. sub \in Policy /\ Within(sub, parent)
    BY <1>1, <1>2, ChildType, ChildWithin
<1> HIDE DEF sub
<1>4. /\ Len(policies') = n + 1 /\ policies'[n + 1] = sub
      /\ \A i \in 1..n : policies'[i] = policies[i]
      /\ PoliciesTypeOK'
    BY <1>1, <1>2, <1>3 DEF PoliciesTypeOK
<1>5. ASSUME NEW low \in DOMAIN policies', NEW high \in DOMAIN policies', low > high
      PROVE  Within(policies'[low], policies'[high])
  <2>1. low \in 1..n + 1 /\ high \in 1..n /\ policies'[high] = policies[high]
      BY <1>1, <1>4, <1>5 DEF PoliciesTypeOK
  <2>2. CASE low \in 1..n
      BY <1>1, <1>4, <1>5, <2>1, <2>2 DEF PermIInv, NeverGrows
  <2>3. CASE low = n + 1 /\ high = n
      BY <1>3, <1>4, <2>1, <2>3
  <2>4. CASE low = n + 1 /\ high < n
    <3>1. Within(parent, policies[high])
        BY <1>1, <2>1, <2>4 DEF PermIInv, NeverGrows
    <3>2. QED
        BY <1>3, <1>4, <2>1, <2>4, <3>1, WithinTransitive
  <2>5. QED
      BY <1>1, <2>1, <2>2, <2>3, <2>4
<1>6. NeverGrows'
    BY <1>5 DEF NeverGrows
<1>7. QED
    BY <1>4, <1>6 DEF PermIInv

LEMMA PermIInvReturn ==
    ASSUME PermIInv, ChildReturns
    PROVE  PermIInv'
<1> DEFINE n == Len(policies)
<1>1. n \in Nat /\ n > 1 /\ policies \in Seq(Policy) /\ policies' = SubSeq(policies, 1, n - 1)
    BY DEF PermIInv, PoliciesTypeOK, ChildReturns
<1>2. /\ PoliciesTypeOK' /\ Len(policies') = n - 1
      /\ \A i \in 1..n - 1 : policies'[i] = policies[i]
    BY <1>1 DEF PoliciesTypeOK
<1>3. NeverGrows'
    BY <1>1, <1>2 DEF PermIInv, NeverGrows, PoliciesTypeOK
<1>4. QED
    BY <1>2, <1>3 DEF PermIInv

LEMMA PermIInvNext == PermIInv /\ [PermNext]_policies => PermIInv'
<1> SUFFICES ASSUME PermIInv, [PermNext]_policies PROVE PermIInv'
    OBVIOUS
<1>0. Root \in Policy
    BY RootType DEF PermIInv
<1>1. ASSUME NEW p \in Programs, AllowShellProgram(p) PROVE PermIInv'
  <2>1. [Root EXCEPT !.capabilities = @ \cup {"shell"}, !.shell = @ \cup {p}] \in Policy
      BY <1>0 DEF Policy, Capabilities
  <2>2. QED
      BY <1>1, <2>1, PermIInvConfigure DEF AllowShellProgram
<1>2. ASSUME NEW p \in Programs, NEW prefix \in Words(Arguments), AllowShellPrefix(p, prefix)
      PROVE PermIInv'
  <2>1. prefix \in Seq(Arguments)
      BY WordsAreSequences
  <2>2. [Root EXCEPT !.capabilities = @ \cup {"shell"}, !.shell = @ \cup {p},
                     !.prefixes[p] = @ \cup {prefix}] \in Policy
      BY <1>0, <2>1 DEF Policy, Capabilities
  <2>3. QED
      BY <1>2, <2>2, PermIInvConfigure DEF AllowShellPrefix
<1>3. ASSUME NEW name \in Names, AllowEnv(name) PROVE PermIInv'
  <2>1. [Root EXCEPT !.env = @ \cup {name}] \in Policy
      BY <1>0 DEF Policy
  <2>2. QED
      BY <1>3, <2>1, PermIInvConfigure DEF AllowEnv
<1>4. ASSUME NEW host \in Hosts, AllowNetworkDomain(host) PROVE PermIInv'
  <2>1. [Root EXCEPT !.capabilities = @ \cup {"fetch"}, !.hosts = @ \cup {host}] \in Policy
      BY <1>0 DEF Policy, Capabilities
  <2>2. QED
      BY <1>4, <2>1, PermIInvConfigure DEF AllowNetworkDomain
<1>5. ASSUME NEW c \in Capabilities, RevokeCapability(c) PROVE PermIInv'
  <2>1. [Root EXCEPT
           !.capabilities = @ \ {c},
           !.shell = IF c = "shell" THEN {} ELSE @,
           !.prefixes = IF c = "shell" THEN [p \in Programs |-> {}] ELSE @] \in Policy
      BY <1>0 DEF Policy
  <2>2. QED
      BY <1>5, <2>1, PermIInvConfigure DEF RevokeCapability
<1>6. ASSUME NEW given \in Grant, SpawnChild(given) PROVE PermIInv'
    BY <1>6, PermIInvSpawn
<1>7. CASE ChildReturns
    BY <1>7, PermIInvReturn
<1>8. CASE UNCHANGED policies
    BY <1>8 DEF PermIInv, PoliciesTypeOK, NeverGrows
<1>9. QED
    BY <1>1, <1>2, <1>3, <1>4, <1>5, <1>6, <1>7, <1>8 DEF PermNext

\* Authority never grows: for every set of programs, arguments, names, hosts
\* and directories, every default allowlist and every depth of delegation, no
\* run may do what a run above it in the chain may not (narrow_to_subdir and
\* the grant_*_from checks of spawn_child).
THEOREM AuthorityNeverGrows == PermSpec => []NeverGrows
<1>1. PermIInv => NeverGrows
    BY DEF PermIInv
<1>2. QED
    BY PermIInvInit, PermIInvNext, <1>1, PTL DEF PermSpec


-----------------------------------------------------------------------------
(* DelegationBudget, for any children, limits and grants.  A row covers    *)
(* its child's calls, the rows stay within the capacity because a          *)
(* reservation looks at all of them, and so the calls do.                  *)
LEMMA UnitsFinite ==
  ASSUME NEW f \in [Children -> Nat]
  PROVE  IsFiniteSet(Units(f)) /\ Total(f) \in Nat
<1> DEFINE g == [c \in Children |-> {c} \X (1..f[c])]
           S == {{c} \X (1..f[c]) : c \in Children}
<1>1. g \in Surjection(Children, S)
  BY DEF Surjection
<1>2. IsFiniteSet(S)
  BY <1>1, PoolAssumption, FS_Surjection
<1>3. ASSUME NEW c \in Children PROVE IsFiniteSet({c} \X (1..f[c]))
  <2>1. IsFiniteSet(1..f[c])
    BY FS_Interval, f[c] \in Int, 1 \in Int
  <2>2. IsFiniteSet({c})
    BY FS_Singleton
  <2> QED
    BY <2>1, <2>2, FS_Product
<1>4. IsFiniteSet(UNION S)
  <2>1. \A T \in S : IsFiniteSet(T)
    BY <1>3
  <2> HIDE DEF S
  <2> QED
    BY <1>2, <2>1, FS_UNION
<1> QED
  BY <1>4, FS_CardinalityType DEF Units, Total

LEMMA TotalMonotone ==
  ASSUME NEW f \in [Children -> Nat], NEW g \in [Children -> Nat],
         \A c \in Children : f[c] <= g[c]
  PROVE  Total(f) <= Total(g)
<1>1. \A c \in Children : f[c] \in Nat /\ g[c] \in Nat
  OBVIOUS
<1>2. Units(f) \subseteq Units(g)
  BY <1>1 DEF Units
<1> QED
  BY <1>2, UnitsFinite, FS_Subset DEF Total

LEMMA TotalZero == Total([c \in Children |-> 0]) = 0
<1>1. Units([c \in Children |-> 0]) = {}
  BY DEF Units
<1> QED
  BY <1>1, FS_EmptySet DEF Total

\* A row that was empty adds what is entered in it.
LEMMA TotalAdds ==
  ASSUME NEW f \in [Children -> Nat], NEW c \in Children, f[c] = 0, NEW n \in Nat
  PROVE  Total([f EXCEPT ![c] = n]) = Total(f) + n
<1> DEFINE g == [f EXCEPT ![c] = n]
           new == {c} \X (1..n)
<1>1. g \in [Children -> Nat] /\ g[c] = n /\ \A d \in Children : d # c => g[d] = f[d]
  OBVIOUS
<1>2. IsFiniteSet(new) /\ Cardinality(new) = n
  <2>1. IsFiniteSet(1..n) /\ Cardinality(1..n) = IF 1 > n THEN 0 ELSE n - 1 + 1
    BY FS_Interval, n \in Int, 1 \in Int
  <2>2. IsFiniteSet({c}) /\ Cardinality({c}) = 1
    BY FS_Singleton
  <2>3. IsFiniteSet(new) /\ Cardinality(new) = Cardinality({c}) * Cardinality(1..n)
    BY <2>1, <2>2, FS_Product
  <2> QED
    BY <2>1, <2>2, <2>3
<1>3. Units(g) = Units(f) \cup new
  BY <1>1 DEF Units
<1>4. Units(f) \cap new = {}
  BY DEF Units
<1>5. IsFiniteSet(Units(f)) /\ Cardinality(Units(f)) \in Nat
  BY UnitsFinite DEF Total
<1>6. Cardinality(Units(f) \cup new) = Cardinality(Units(f)) + n
  <2> HIDE DEF new
  <2>1. Cardinality(Units(f) \cup new)
          = Cardinality(Units(f)) + Cardinality(new) - Cardinality(Units(f) \cap new)
    BY <1>2, <1>5, FS_Union
  <2>2. Cardinality(Units(f) \cap new) = 0
    BY <1>4, FS_EmptySet
  <2> QED
    BY <1>2, <1>5, <2>1, <2>2
<1> QED
  BY <1>3, <1>6 DEF Total

PoolTypeOK ==
  /\ opened \in BOOLEAN /\ capacity \in Nat
  /\ row \in [Children -> {"absent", "held", "settled"}]
  /\ amount \in [Children -> Nat] /\ grant \in [Children -> Nat]
  /\ taken \in [Children -> Nat] /\ calls \in [Children -> Nat]
  /\ call \in [Children -> {"idle", "spawn", "drive", "settle"}]

\* What a call of spawn_child_budgeted relies on, wherever it is.
PoolControl(c) ==
  /\ row[c] = "absent" => amount[c] = 0 /\ calls[c] = 0 /\ call[c] = "idle"
  /\ row[c] = "held" => amount[c] = grant[c]
  /\ call[c] # "idle" => row[c] = "held"
  /\ call[c] = "spawn" => calls[c] = 0
  /\ call[c] \in {"drive", "settle"} => calls[c] <= taken[c] /\ taken[c] <= grant[c]

PoolIInv ==
  /\ PoolTypeOK /\ ReservationsCover
  /\ ~opened => \A c \in Children : row[c] = "absent"
  /\ \A c \in Children : PoolControl(c)

LEMMA PoolIInvInit == PoolInit => PoolIInv
<1> SUFFICES ASSUME PoolInit PROVE PoolIInv
  OBVIOUS
<1>1. Total(amount) = 0
  BY TotalZero DEF PoolInit
<1>2. PoolTypeOK
  BY DEF PoolInit, PoolTypeOK
<1>3. ReservationsCover
  BY <1>1 DEF PoolInit, ReservationsCover
<1>4. \A c \in Children : PoolControl(c)
  BY DEF PoolInit, PoolControl
<1> QED
  BY <1>2, <1>3, <1>4 DEF PoolInit, PoolIInv

LEMMA PoolIInvNext == PoolIInv /\ [PoolNext]_poolVars => PoolIInv'
<1> SUFFICES ASSUME PoolIInv, [PoolNext]_poolVars PROVE PoolIInv'
  OBVIOUS
<1> USE DEF PoolIInv, PoolTypeOK, PoolControl, ReservationsCover, pool
<1>0. Total(amount) \in Nat /\ Limits \subseteq Nat /\ Grants \subseteq Nat
  BY UnitsFinite, PoolAssumption
<1>1. ASSUME NEW l \in Limits, OpenPool(l) PROVE PoolIInv'
  <2>1. amount = [c \in Children |-> 0]
    BY <1>1 DEF OpenPool
  <2>2. Total(amount) = 0
    BY <2>1, TotalZero
  <2>3. l \in Nat
    BY <1>0
  <2> QED
    BY <1>1, <2>2, <2>3 DEF OpenPool
<1>2. ASSUME NEW c \in Children, NEW g \in Grants, Reserve(c, g) PROVE PoolIInv'
  <2>1. g \in Nat
    BY <1>0
  <2>2. amount[c] = 0 /\ calls[c] = 0
    BY <1>2 DEF Reserve
  <2>3. Total(amount') = Total(amount) + g
    <3>1. amount' = [amount EXCEPT ![c] = g] /\ amount \in [Children -> Nat]
      BY <1>2 DEF Reserve
    <3>2. Total([amount EXCEPT ![c] = g]) = Total(amount) + g
      BY <2>1, <2>2, <3>1, TotalAdds
    <3> QED
      BY <3>1, <3>2
  <2>4. Total(amount') <= capacity
    BY <1>0, <1>2, <2>1, <2>3 DEF Reserve, Available
  <2> QED
    BY <1>2, <2>1, <2>2, <2>4 DEF Reserve
<1>3. ASSUME NEW c \in Children, Spawn(c) PROVE PoolIInv'
  BY <1>3 DEF Spawn
<1>4. ASSUME NEW c \in Children, Call(c) PROVE PoolIInv'
  <2>1. PICK n \in {0, 1} : calls' = [calls EXCEPT ![c] = @ + n]
    BY <1>4 DEF Call
  <2>2. taken'[c] = taken[c] + 1 /\ taken'[c] <= grant[c] /\ calls'[c] <= calls[c] + 1
    BY <1>4, <2>1 DEF Call
  <2>3. row[c] = "held" /\ amount[c] = grant[c]
    BY <1>4 DEF Call
  <2>4. UNCHANGED <<opened, capacity, row, amount, call, grant>>
    BY <1>4 DEF Call
  <2>5. \A d \in Children : d # c => calls'[d] = calls[d] /\ taken'[d] = taken[d]
    BY <1>4, <2>1 DEF Call
  <2>6. calls' \in [Children -> Nat] /\ taken' \in [Children -> Nat]
    BY <1>4, <2>1 DEF Call
  <2> QED
    BY <1>4, <2>2, <2>3, <2>4, <2>5, <2>6 DEF Call
<1>5. ASSUME NEW c \in Children, End(c) PROVE PoolIInv'
  BY <1>5 DEF End
<1>6. ASSUME NEW c \in Children, SettleChild(c) PROVE PoolIInv'
  <2>1. amount' \in [Children -> Nat] /\ \A d \in Children : amount'[d] <= amount[d]
    BY <1>6 DEF SettleChild
  <2>2. Total(amount') <= Total(amount) /\ Total(amount') \in Nat
    BY <2>1, TotalMonotone, UnitsFinite
  <2>3. Total(amount') <= capacity
    BY <1>0, <2>2
  <2> QED
    BY <1>6, <2>1, <2>3 DEF SettleChild
<1>7. ASSUME NEW c \in Children, Abort(c) PROVE PoolIInv'
  BY <1>7 DEF Abort
<1>8. CASE UNCHANGED poolVars
  BY <1>8 DEF poolVars
<1> QED
  BY <1>1, <1>2, <1>3, <1>4, <1>5, <1>6, <1>7, <1>8 DEF PoolNext

LEMMA PoolInvariance == PoolSpec => []PoolIInv
  BY PoolIInvInit, PoolIInvNext, PTL DEF PoolSpec

(* Children of one pool together never make more calls than it was opened  *)
(* with, however many they are and wherever they or the parent die.        *)
THEOREM CallsCovered == PoolSpec => []CallsWithinCapacity
<1>1. PoolIInv => CallsWithinCapacity
  <2> SUFFICES ASSUME PoolIInv PROVE CallsWithinCapacity
    OBVIOUS
  <2>1. Total(calls) <= Total(amount)
    BY TotalMonotone DEF PoolIInv, PoolTypeOK, ReservationsCover
  <2>2. Total(calls) \in Nat /\ Total(amount) \in Nat /\ capacity \in Nat
    BY UnitsFinite DEF PoolIInv, PoolTypeOK
  <2> QED
    BY <2>1, <2>2 DEF PoolIInv, ReservationsCover, CallsWithinCapacity
<1> QED
  BY <1>1, PoolInvariance, PTL

-----------------------------------------------------------------------------
(* MemoryStore, for any contents and any number of writes, merges, deaths  *)
(* and days.  The first statement of a merge makes its row worth all that  *)
(* was observed, so none of the others can lose anything.                  *)
LEMMA LeastNumber ==
  ASSUME NEW S, S \subseteq Nat, S # {}
  PROVE  \E x \in S : \A y \in S : x <= y
<1> DEFINE R == {ss \in Nat \X Nat : ss[1] < ss[2]}
<1>1. IsWellFoundedOn(R, Nat)
  BY NatLessThanWellFounded DEF OpToRel
<1>2. PICK x \in S : \A y \in S : ~ (<<y, x>> \in R)
  <2> HIDE DEF R
  <2> QED
    BY <1>1, WFMin
<1>3. ASSUME NEW y \in S PROVE x <= y
  <2>1. x \in Nat /\ y \in Nat /\ <<y, x>> \in Nat \X Nat
    OBVIOUS
  <2>2. ~(y < x)
    BY <1>2, <2>1
  <2> QED
    BY <2>1, <2>2
<1> QED
  BY <1>3

\* The least number that bounds a set is in it.
LEMMA GreatestNumber ==
  ASSUME NEW S, NEW n \in Nat, S \subseteq 1..n, S # {}
  PROVE  /\ Greatest(S) \in S
         /\ \A k \in S : k <= Greatest(S)
<1> DEFINE B == {m \in Nat : \A k \in S : k <= m}
<1>1. B \subseteq Nat /\ n \in B
  OBVIOUS
<1>2. PICK m \in B : \A y \in B : m <= y
  <2> HIDE DEF B
  <2> QED
    BY <1>1, LeastNumber
<1>3. \A k \in S : k \in Nat /\ k >= 1 /\ k <= m
  BY <1>2
<1>4. m \in S
  <2> SUFFICES ASSUME m \notin S PROVE FALSE
    OBVIOUS
  <2>1. m \in Nat /\ m >= 1
    <3>1. m \in Nat
      OBVIOUS
    <3>2. PICK k \in S : TRUE
      OBVIOUS
    <3> QED
      BY <1>3, <3>1, <3>2
  <2>2. \A k \in S : k <= m - 1
    BY <1>3, <2>1
  <2>3. m - 1 \in B
    BY <2>1, <2>2
  <2> QED
    BY <1>2, <2>1, <2>3
<1>5. \E i \in S : \A k \in S : k <= i
  BY <1>3, <1>4
<1> QED
  BY <1>5 DEF Greatest

LEMMA SumType ==
  ASSUME NEW S, IsFiniteSet(S), NEW f \in [S -> Nat]
  PROVE  /\ IsFiniteSet(Marks(f, S))
         /\ Sum(f, S) \in Nat
<1> DEFINE g == [x \in S |-> {x} \X (1..f[x])]
           T == {{x} \X (1..f[x]) : x \in S}
<1>1. g \in Surjection(S, T)
  BY DEF Surjection
<1>2. IsFiniteSet(T)
  BY <1>1, FS_Surjection
<1>3. ASSUME NEW x \in S PROVE IsFiniteSet({x} \X (1..f[x]))
  <2>1. IsFiniteSet(1..f[x])
    BY FS_Interval, f[x] \in Int, 1 \in Int
  <2>2. IsFiniteSet({x})
    BY FS_Singleton
  <2> QED
    BY <2>1, <2>2, FS_Product
<1>4. IsFiniteSet(UNION T)
  <2>1. \A U \in T : IsFiniteSet(U)
    BY <1>3
  <2> HIDE DEF T
  <2> QED
    BY <1>2, <2>1, FS_UNION
<1> QED
  BY <1>4, FS_CardinalityType DEF Sum, Marks

LEMMA SumMonotone ==
  ASSUME NEW S, IsFiniteSet(S), NEW f \in [S -> Nat],
         NEW T \in SUBSET S, NEW g \in [T -> Nat], \A x \in T : g[x] <= f[x]
  PROVE  Sum(g, T) <= Sum(f, S)
<1>1. \A x \in T : g[x] \in Nat /\ f[x] \in Nat
  OBVIOUS
<1>2. Marks(g, T) \subseteq Marks(f, S)
  BY <1>1 DEF Marks
<1> QED
  BY <1>2, SumType, FS_Subset DEF Sum

LEMMA SumCovers ==
  ASSUME NEW S, IsFiniteSet(S), NEW f \in [S -> Nat], NEW k \in S
  PROVE  f[k] <= Sum(f, S)
<1> DEFINE own == {k} \X (1..f[k])
           all == Marks(f, S)
<1>1. IsFiniteSet(own) /\ Cardinality(own) = f[k]
  <2>1. /\ IsFiniteSet(1..f[k])
        /\ Cardinality(1..f[k]) = IF 1 > f[k] THEN 0 ELSE f[k] - 1 + 1
    BY FS_Interval, f[k] \in Int, 1 \in Int
  <2>2. IsFiniteSet({k}) /\ Cardinality({k}) = 1
    BY FS_Singleton
  <2>3. IsFiniteSet(own) /\ Cardinality(own) = Cardinality({k}) * Cardinality(1..f[k])
    BY <2>1, <2>2, FS_Product
  <2> QED
    BY <2>1, <2>2, <2>3
<1>2. own \subseteq all
  BY DEF Marks
<1>3. IsFiniteSet(all)
  BY SumType
<1> HIDE DEF own, all
<1>4. Cardinality(own) <= Cardinality(all)
  BY <1>2, <1>3, FS_Subset
<1> QED
  BY <1>1, <1>4 DEF Sum, all

LEMMA SumAdds ==
  ASSUME NEW S, IsFiniteSet(S), NEW f \in [S -> Nat], NEW k, k \notin S,
         NEW g \in [S \cup {k} -> Nat], \A x \in S : g[x] = f[x]
  PROVE  Sum(g, S \cup {k}) = Sum(f, S) + g[k]
<1> DEFINE new == {k} \X (1..g[k])
           old == Marks(f, S)
<1>1. IsFiniteSet(new) /\ Cardinality(new) = g[k]
  <2>1. /\ IsFiniteSet(1..g[k])
        /\ Cardinality(1..g[k]) = IF 1 > g[k] THEN 0 ELSE g[k] - 1 + 1
    BY FS_Interval, g[k] \in Int, 1 \in Int
  <2>2. IsFiniteSet({k}) /\ Cardinality({k}) = 1
    BY FS_Singleton
  <2>3. IsFiniteSet(new) /\ Cardinality(new) = Cardinality({k}) * Cardinality(1..g[k])
    BY <2>1, <2>2, FS_Product
  <2> QED
    BY <2>1, <2>2, <2>3
<1>2. Marks(g, S \cup {k}) = old \cup new
  BY DEF Marks
<1>3. old \cap new = {}
  BY DEF Marks
<1>4. IsFiniteSet(old) /\ Cardinality(old) \in Nat
  BY SumType, FS_CardinalityType
<1> HIDE DEF new, old
<1>5. Cardinality(old \cup new) = Cardinality(old) + Cardinality(new) - Cardinality(old \cap new)
  BY <1>1, <1>4, FS_Union
<1>6. Cardinality(old \cap new) = 0
  BY <1>3, FS_EmptySet
<1>7. Cardinality(old \cup new) = Cardinality(old) + g[k]
  BY <1>1, <1>4, <1>5, <1>6
<1> QED
  BY <1>2, <1>7 DEF Sum, old

(* What is remembered: the rows in use of a content, and their counts.     *)
MemRow == [content : Contents, salient : BOOLEAN, created : Nat, reinforced : Nat,
           superseded_by : Nat]
IsMemory(m) == m \in [DOMAIN m -> MemRow] /\ \E n \in Nat : DOMAIN m \subseteq 1..n
RowsOf(m, c) == {i \in DOMAIN m : m[i].superseded_by = 0 /\ m[i].content = c}
Worth(m, c) == Reinforced(m, RowsOf(m, c))

LEMMA CountsAreNumbers ==
  ASSUME NEW m, IsMemory(m), NEW ids \in SUBSET DOMAIN m
  PROVE  /\ IsFiniteSet(ids)
         /\ [i \in ids |-> m[i].reinforced] \in [ids -> Nat]
         /\ Reinforced(m, ids) \in Nat
<1>1. PICK n \in Nat : DOMAIN m \subseteq 1..n
  BY DEF IsMemory
<1>2. IsFiniteSet(1..n)
  BY FS_Interval, n \in Int, 1 \in Int
<1>3. IsFiniteSet(ids)
  <2>1. ids \subseteq 1..n
    BY <1>1
  <2> QED
    BY <1>2, <2>1, FS_Subset
<1>4. [i \in ids |-> m[i].reinforced] \in [ids -> Nat]
  BY DEF IsMemory, MemRow
<1>5. Sum([i \in ids |-> m[i].reinforced], ids) \in Nat
  BY <1>3, <1>4, SumType
<1> QED
  BY <1>3, <1>4, <1>5 DEF Reinforced

LEMMA CountsOfOne ==
  ASSUME NEW m, IsMemory(m), NEW ids \in SUBSET DOMAIN m, NEW k \in ids
  PROVE  m[k].reinforced <= Reinforced(m, ids)
<1> DEFINE f == [i \in ids |-> m[i].reinforced]
<1>1. IsFiniteSet(ids) /\ f \in [ids -> Nat]
  BY CountsAreNumbers
<1>2. f[k] = m[k].reinforced
  OBVIOUS
<1> HIDE DEF f
<1>3. f[k] <= Sum(f, ids)
  BY <1>1, SumCovers
<1> QED
  BY <1>2, <1>3 DEF Reinforced, f

\* A content whose rows stay, with their counts, is worth no less.
LEMMA WorthNoLess ==
  ASSUME NEW m, IsMemory(m), NEW after, IsMemory(after), NEW c,
         RowsOf(m, c) \subseteq RowsOf(after, c),
         \A i \in RowsOf(m, c) : after[i].reinforced = m[i].reinforced
  PROVE  Worth(m, c) <= Worth(after, c)
<1> DEFINE f == [i \in RowsOf(after, c) |-> after[i].reinforced]
           g == [i \in RowsOf(m, c) |-> m[i].reinforced]
<1>1. RowsOf(m, c) \in SUBSET DOMAIN m /\ RowsOf(after, c) \in SUBSET DOMAIN after
  BY DEF RowsOf
<1>2. IsFiniteSet(RowsOf(after, c)) /\ f \in [RowsOf(after, c) -> Nat]
  BY <1>1, CountsAreNumbers
<1>3. g \in [RowsOf(m, c) -> Nat]
  BY <1>1, CountsAreNumbers
<1>4. \A i \in RowsOf(m, c) : g[i] = f[i] /\ g[i] \in Nat
  BY <1>3
<1> HIDE DEF f, g
<1>5. \A i \in RowsOf(m, c) : g[i] <= f[i]
  BY <1>4
<1>6. Sum(g, RowsOf(m, c)) <= Sum(f, RowsOf(after, c))
  BY <1>2, <1>3, <1>5, SumMonotone
<1> QED
  BY <1>6 DEF Worth, Reinforced, f, g

\* A row more is worth its count more.
LEMMA WorthMore ==
  ASSUME NEW m, IsMemory(m), NEW after, IsMemory(after), NEW c, NEW k, k \notin RowsOf(m, c),
         RowsOf(after, c) = RowsOf(m, c) \cup {k},
         \A i \in RowsOf(m, c) : after[i].reinforced = m[i].reinforced
  PROVE  Worth(after, c) = Worth(m, c) + after[k].reinforced
<1> DEFINE g == [i \in RowsOf(m, c) \cup {k} |-> after[i].reinforced]
           f == [i \in RowsOf(m, c) |-> m[i].reinforced]
<1>1. RowsOf(m, c) \in SUBSET DOMAIN m /\ RowsOf(m, c) \cup {k} \in SUBSET DOMAIN after
  BY DEF RowsOf
<1>2. IsFiniteSet(RowsOf(m, c)) /\ f \in [RowsOf(m, c) -> Nat]
  BY <1>1, CountsAreNumbers
<1>3. g \in [RowsOf(m, c) \cup {k} -> Nat]
  BY <1>1, CountsAreNumbers
<1>4. g[k] = after[k].reinforced /\ \A i \in RowsOf(m, c) : g[i] = f[i]
  OBVIOUS
<1> HIDE DEF f, g
<1>5. Sum(g, RowsOf(m, c) \cup {k}) = Sum(f, RowsOf(m, c)) + g[k]
  BY <1>2, <1>3, <1>4, SumAdds
<1> QED
  BY <1>4, <1>5 DEF Worth, Reinforced, f, g

(* While a merge goes on, its row is worth what was observed, and the rows *)
(* it still buries are of the same content; a group to come has rows.      *)
MemTypeOK ==
  /\ IsMemory(memories)
  /\ observed \in [Contents -> Nat]
  /\ day \in Nat
Counted ==
  \A c \in Contents \ (replaced \cup forgotten) : observed[c] <= Worth(memories, c)
Merging ==
  /\ doomed # {} =>
       LET c == memories[keeper].content
       IN  /\ keeper \in RowsOf(memories, c) \ doomed
           /\ doomed \subseteq RowsOf(memories, c)
           /\ c \notin replaced \cup forgotten => observed[c] <= memories[keeper].reinforced
  /\ \A c \in duplicated : c \in Contents /\ RowsOf(memories, c) # {}
MemIInv == MemTypeOK /\ Counted /\ Merging

LEMMA SameRows == \A c : LiveOf(c) = RowsOf(memories, c)
  BY DEF LiveOf, Unsuperseded, RowsOf

LEMMA CountedIsTheProperty == MemTypeOK /\ Counted => EveryObservationCounts
<1> SUFFICES ASSUME MemTypeOK, Counted, NEW c \in Contents \ (replaced \cup forgotten)
             PROVE  Reinforced(memories, LiveOf(c)) >= observed[c]
  BY DEF EveryObservationCounts
<1>1. observed[c] <= Worth(memories, c) /\ observed[c] \in Nat
  BY DEF Counted, MemTypeOK
<1>2. RowsOf(memories, c) \in SUBSET DOMAIN memories
  BY DEF RowsOf
<1>3. Worth(memories, c) \in Nat
  BY <1>2, CountsAreNumbers DEF MemTypeOK, Worth
<1>4. Worth(memories, c) = Reinforced(memories, LiveOf(c))
  BY SameRows DEF Worth
<1> QED
  BY <1>1, <1>3, <1>4

LEMMA MemIInvInit == MemInit => MemIInv
<1> SUFFICES ASSUME MemInit PROVE MemIInv
  OBVIOUS
<1>1. /\ memories = << >> /\ DOMAIN memories = {}
      /\ doomed = {} /\ duplicated = {} /\ day = 0 /\ observed = [c \in Contents |-> 0]
  BY DEF MemInit
<1>2. IsMemory(memories)
  BY <1>1 DEF IsMemory
<1>3. MemTypeOK /\ Merging
  BY <1>1, <1>2 DEF MemTypeOK, Merging
<1>4. ASSUME NEW c \in Contents PROVE observed[c] <= Worth(memories, c)
  <2>1. RowsOf(memories, c) \in SUBSET DOMAIN memories
    BY DEF RowsOf
  <2>2. Worth(memories, c) \in Nat
    BY <1>2, <2>1, CountsAreNumbers DEF Worth
  <2> QED
    BY <1>1, <2>2
<1> QED
  BY <1>3, <1>4 DEF MemIInv, Counted

LEMMA WriteCounts ==
  ASSUME MemIInv, NEW c \in Contents, NEW salient \in BOOLEAN, WriteMemory(c, salient)
  PROVE  MemIInv'
<1> DEFINE k == NextRow
           written == [content |-> c, salient |-> salient, created |-> day, reinforced |-> 1,
                       superseded_by |-> 0]
<1>1. /\ IsMemory(memories) /\ observed \in [Contents -> Nat] /\ day \in Nat
      /\ doomed = {} /\ duplicated = {}
      /\ doomed' = doomed /\ duplicated' = duplicated /\ day' = day
      /\ replaced' = replaced /\ forgotten' = forgotten
      /\ observed' = [observed EXCEPT ![c] = @ + 1]
      /\ memories' = [i \in DOMAIN memories \cup {k} |-> IF i = k THEN written ELSE memories[i]]
  BY DEF WriteMemory, MemIInv, MemTypeOK, Idle, merging
<1>2. k \in Nat \ {0} /\ k \notin DOMAIN memories /\ \A i \in DOMAIN memories : i <= k
  <2>1. PICK n \in Nat : DOMAIN memories \subseteq 1..n
    BY <1>1 DEF IsMemory
  <2>2. CASE DOMAIN memories = {}
    BY <2>2 DEF NextRow
  <2>3. CASE DOMAIN memories # {}
    <3>1. /\ Greatest(DOMAIN memories) \in DOMAIN memories
          /\ \A i \in DOMAIN memories : i <= Greatest(DOMAIN memories)
      BY <2>1, <2>3, GreatestNumber
    <3>2. k = Greatest(DOMAIN memories) + 1
      BY <2>3 DEF NextRow
    <3> QED
      BY <2>1, <3>1, <3>2
  <2> QED
    BY <2>2, <2>3
<1> HIDE DEF k
<1>3. written \in MemRow
  BY <1>1 DEF MemRow
<1> HIDE DEF written
<1>4. DOMAIN memories' = DOMAIN memories \cup {k} /\ memories'[k] = written
      /\ \A i \in DOMAIN memories : memories'[i] = memories[i]
  BY <1>1, <1>2
<1>5. IsMemory(memories')
  <2>1. PICK n \in Nat : DOMAIN memories \subseteq 1..n
    BY <1>1 DEF IsMemory
  <2>2. DOMAIN memories' \subseteq 1..(n + k) /\ n + k \in Nat
    BY <1>2, <1>4, <2>1
  <2>3. memories' \in [DOMAIN memories' -> MemRow]
    BY <1>1, <1>3 DEF IsMemory
  <2> QED
    BY <2>2, <2>3 DEF IsMemory
<1>6. MemTypeOK'
  BY <1>1, <1>5 DEF MemTypeOK
<1>7. Merging'
  BY <1>1 DEF Merging
<1>8. ASSUME NEW e \in Contents \ (replaced' \cup forgotten')
      PROVE  observed'[e] <= Worth(memories', e)
  <2>1. observed[e] <= Worth(memories, e) /\ observed[e] \in Nat
    BY <1>1 DEF MemIInv, Counted
  <2>2. Worth(memories, e) \in Nat /\ Worth(memories', e) \in Nat
    BY <1>1, <1>5, CountsAreNumbers DEF Worth, RowsOf
  <2>3. CASE e = c
    <3>1. written.superseded_by = 0 /\ written.content = c /\ written.reinforced = 1
      BY DEF written
    <3>2. RowsOf(memories', e) = RowsOf(memories, e) \cup {k} /\ k \notin RowsOf(memories, e)
      BY <1>2, <1>4, <2>3, <3>1 DEF RowsOf
    <3>3. \A i \in RowsOf(memories, e) : memories'[i].reinforced = memories[i].reinforced
      BY <1>4 DEF RowsOf
    <3>0. memories'[k].reinforced = 1
      BY <1>4, <3>1
    <3>4. Worth(memories', e) = Worth(memories, e) + 1
      <4>1. IsMemory(memories) /\ IsMemory(memories')
        BY <1>1, <1>5
      <4>2. Worth(memories', e) = Worth(memories, e) + memories'[k].reinforced
        BY <4>1, <3>2, <3>3, WorthMore
      <4> QED
        BY <3>0, <4>2
    <3>5. observed'[e] = observed[e] + 1
      BY <1>1, <2>3
    <3> QED
      BY <2>1, <2>2, <3>4, <3>5
  <2>4. CASE e # c
    <3>1. RowsOf(memories, e) \subseteq RowsOf(memories', e)
      BY <1>4 DEF RowsOf
    <3>2. \A i \in RowsOf(memories, e) : memories'[i].reinforced = memories[i].reinforced
      BY <1>4 DEF RowsOf
    <3>3. Worth(memories, e) <= Worth(memories', e)
      BY <1>1, <1>5, <3>1, <3>2, WorthNoLess
    <3>4. observed'[e] = observed[e]
      BY <1>1, <2>4
    <3> QED
      BY <2>1, <2>2, <3>3, <3>4
  <2> QED
    BY <2>3, <2>4
<1> QED
  BY <1>6, <1>7, <1>8 DEF MemIInv, Counted

\* A step that leaves the rows of a content, and what was observed of it, as they are.
LEMMA CountsStay ==
  ASSUME MemIInv, IsMemory(memories'), observed' = observed,
         replaced \subseteq replaced', forgotten \subseteq forgotten',
         \A c \in Contents \ (replaced' \cup forgotten') :
            /\ RowsOf(memories, c) \subseteq RowsOf(memories', c)
            /\ \A i \in RowsOf(memories, c) : memories'[i].reinforced = memories[i].reinforced
  PROVE  Counted'
<1> SUFFICES ASSUME NEW c \in Contents \ (replaced' \cup forgotten')
             PROVE  observed'[c] <= Worth(memories', c)
  BY DEF Counted
<1>1. observed[c] <= Worth(memories, c) /\ observed[c] \in Nat /\ IsMemory(memories)
  BY DEF MemIInv, MemTypeOK, Counted
<1>2. Worth(memories, c) \in Nat /\ Worth(memories', c) \in Nat
  BY <1>1, CountsAreNumbers DEF Worth, RowsOf
<1>3. Worth(memories, c) <= Worth(memories', c)
  BY <1>1, WorthNoLess
<1> QED
  BY <1>1, <1>2, <1>3

LEMMA SupersedeCounts ==
  ASSUME MemIInv, NEW old \in DOMAIN memories, NEW new \in DOMAIN memories, Supersede(old, new)
  PROVE  MemIInv'
<1>1. /\ IsMemory(memories) /\ doomed' = {} /\ duplicated' = {}
      /\ observed \in [Contents -> Nat] /\ day \in Nat
      /\ day' = day /\ observed' = observed /\ forgotten' = forgotten
      /\ memories' = [memories EXCEPT ![old].superseded_by = new]
      /\ replaced' = replaced \cup {memories[old].content}
  BY DEF Supersede, MemIInv, MemTypeOK, Idle, merging
<1>2. DOMAIN memories' = DOMAIN memories
      /\ \A i \in DOMAIN memories : i # old => memories'[i] = memories[i]
  BY <1>1
<1>3. IsMemory(memories')
  <2>1. PICK n \in Nat : DOMAIN memories \subseteq 1..n
    BY <1>1 DEF IsMemory
  <2>2. [memories[old] EXCEPT !.superseded_by = new] \in MemRow
    BY <1>1, <2>1 DEF IsMemory, MemRow
  <2>3. memories'[old] = [memories[old] EXCEPT !.superseded_by = new]
    BY <1>1
  <2>4. memories' \in [DOMAIN memories -> MemRow]
    BY <1>1, <2>2 DEF IsMemory
  <2> QED
    BY <1>2, <2>1, <2>4 DEF IsMemory
<1>4. ASSUME NEW c \in Contents \ (replaced' \cup forgotten')
      PROVE  /\ RowsOf(memories, c) \subseteq RowsOf(memories', c)
             /\ \A i \in RowsOf(memories, c) : memories'[i].reinforced = memories[i].reinforced
  <2>1. old \notin RowsOf(memories, c)
    BY <1>1 DEF RowsOf
  <2> QED
    BY <1>2, <2>1 DEF RowsOf
<1>5. Counted'
  BY <1>1, <1>3, <1>4, CountsStay
<1>6. Merging' /\ MemTypeOK'
  BY <1>1, <1>3 DEF Merging, MemTypeOK
<1> QED
  BY <1>5, <1>6 DEF MemIInv

\* Steps that change no row.
LEMMA RowsStay ==
  ASSUME MemIInv, UNCHANGED <<memories, observed, replaced, forgotten>>, day' \in Nat
  PROVE  MemTypeOK' /\ Counted'
<1>1. /\ IsMemory(memories') /\ memories' = memories /\ observed' = observed
      /\ replaced' = replaced /\ forgotten' = forgotten /\ observed \in [Contents -> Nat]
  BY DEF MemIInv, MemTypeOK
<1>2. MemTypeOK'
  BY <1>1 DEF MemTypeOK
<1>3. Counted'
  BY <1>1, CountsStay
<1> QED
  BY <1>2, <1>3

LEMMA ConsolidateCounts == MemIInv /\ Consolidate => MemIInv'
<1> SUFFICES ASSUME MemIInv, Consolidate PROVE MemIInv'
  OBVIOUS
<1>1. /\ UNCHANGED <<memories, observed, replaced, forgotten>> /\ day' \in Nat
      /\ memories' = memories
      /\ doomed' = {} /\ duplicated' = {c \in Contents : \E i, j \in LiveOf(c) : i # j}
  BY DEF Consolidate, MemIInv, MemTypeOK, Idle, told
<1>2. ASSUME NEW c \in duplicated' PROVE c \in Contents /\ RowsOf(memories', c) # {}
  BY <1>1, SameRows
<1>3. Merging'
  BY <1>1, <1>2 DEF Merging
<1> QED
  BY <1>1, <1>3, RowsStay DEF MemIInv

LEMMA CrashCounts == MemIInv /\ MemoryCrash => MemIInv'
<1> SUFFICES ASSUME MemIInv, MemoryCrash PROVE MemIInv'
  OBVIOUS
<1>1. /\ UNCHANGED <<memories, observed, replaced, forgotten>> /\ day' \in Nat
      /\ doomed' = {} /\ duplicated' = {}
  BY DEF MemoryCrash, MemIInv, MemTypeOK, told
<1>2. Merging'
  BY <1>1 DEF Merging
<1> QED
  BY <1>1, <1>2, RowsStay DEF MemIInv

LEMMA AgesCounts == MemIInv /\ MemoryAges => MemIInv'
<1> SUFFICES ASSUME MemIInv, MemoryAges PROVE MemIInv'
  OBVIOUS
<1>1. /\ UNCHANGED <<memories, observed, replaced, forgotten>> /\ day' \in Nat
      /\ UNCHANGED <<doomed, duplicated, keeper>>
  BY DEF MemoryAges, MemIInv, MemTypeOK, told, merging
<1>2. Merging'
  BY <1>1 DEF Merging, MemIInv, RowsOf
<1> QED
  BY <1>1, <1>2, RowsStay DEF MemIInv

LEMMA ForgetCounts == MemIInv /\ ForgetOld => MemIInv'
<1> SUFFICES ASSUME MemIInv, ForgetOld PROVE MemIInv'
  OBVIOUS
<1> DEFINE gone == {i \in DOMAIN memories : Forgotten(i)}
<1>1. /\ IsMemory(memories) /\ doomed' = {} /\ duplicated' = {}
      /\ observed \in [Contents -> Nat] /\ day \in Nat
      /\ day' = day /\ observed' = observed /\ replaced' = replaced
      /\ memories' = [i \in DOMAIN memories \ gone |-> memories[i]]
      /\ forgotten' = forgotten \cup {memories[i].content : i \in gone \cap Unsuperseded}
  BY DEF ForgetOld, MemIInv, MemTypeOK, Idle, merging
<1> HIDE DEF gone
<1>2. DOMAIN memories' \subseteq DOMAIN memories
      /\ \A i \in DOMAIN memories \ gone : i \in DOMAIN memories' /\ memories'[i] = memories[i]
  BY <1>1
<1>3. IsMemory(memories')
  BY <1>1, <1>2 DEF IsMemory
<1>4. ASSUME NEW c \in Contents \ (replaced' \cup forgotten')
      PROVE  /\ RowsOf(memories, c) \subseteq RowsOf(memories', c)
             /\ \A i \in RowsOf(memories, c) : memories'[i].reinforced = memories[i].reinforced
  <2>1. \A i \in RowsOf(memories, c) : i \notin gone
    BY <1>1 DEF RowsOf, Unsuperseded
  <2> QED
    BY <1>2, <2>1 DEF RowsOf
<1>5. Counted'
  BY <1>1, <1>3, <1>4, CountsStay
<1>6. Merging' /\ MemTypeOK'
  BY <1>1, <1>3 DEF Merging, MemTypeOK
<1> QED
  BY <1>5, <1>6 DEF MemIInv

LEMMA LeastIsOne ==
  ASSUME NEW S, S \subseteq Nat, S # {}
  PROVE  Least(S) \in S
<1>1. \E i \in S : \A k \in S : i <= k
  BY LeastNumber
<1> QED
  BY <1>1 DEF Least

LEMMA IdsAreNumbers == MemIInv => DOMAIN memories \subseteq Nat
  BY DEF MemIInv, MemTypeOK, IsMemory

\* The earliest row takes the counts of all, so it alone is worth what was observed.
LEMMA AbsorbCounts ==
  ASSUME MemIInv, NEW c \in Contents, Absorb(c)
  PROVE  MemIInv'
<1> DEFINE k == Least(LiveOf(c))
           all == Reinforced(memories, LiveOf(c))
<1>1. /\ IsMemory(memories) /\ c \in duplicated /\ doomed = {}
      /\ observed \in [Contents -> Nat] /\ day \in Nat
      /\ keeper' = k /\ doomed' = LiveOf(c) \ {k} /\ duplicated' = duplicated \ {c}
      /\ memories' = [memories EXCEPT ![k].reinforced = all]
      /\ day' = day /\ observed' = observed /\ replaced' = replaced /\ forgotten' = forgotten
  BY DEF Absorb, MemIInv, MemTypeOK, told
<1>2. LiveOf(c) = RowsOf(memories, c) /\ LiveOf(c) \in SUBSET DOMAIN memories
      /\ LiveOf(c) # {} /\ LiveOf(c) \subseteq Nat
  BY <1>1, SameRows, IdsAreNumbers DEF MemIInv, Merging, RowsOf
<1>3. k \in RowsOf(memories, c) /\ k \in DOMAIN memories /\ all \in Nat
      /\ all = Worth(memories, c)
  BY <1>1, <1>2, LeastIsOne, CountsAreNumbers DEF Worth
<1> HIDE DEF k, all
<1>4. /\ DOMAIN memories' = DOMAIN memories
      /\ \A i \in DOMAIN memories : i # k => memories'[i] = memories[i]
      /\ memories'[k] = [memories[k] EXCEPT !.reinforced = all]
      /\ memories[k] \in MemRow
  BY <1>1, <1>3 DEF IsMemory
<1>5. IsMemory(memories')
  <2>1. [memories[k] EXCEPT !.reinforced = all] \in MemRow
    BY <1>3, <1>4 DEF MemRow
  <2>2. memories' \in [DOMAIN memories -> MemRow]
    BY <1>1, <2>1 DEF IsMemory
  <2> QED
    BY <1>1, <1>4, <2>2 DEF IsMemory
<1>6. /\ memories'[k].reinforced = all
      /\ \A i \in DOMAIN memories :
            /\ memories'[i].superseded_by = memories[i].superseded_by
            /\ memories'[i].content = memories[i].content
  BY <1>4 DEF MemRow
<1>7. \A e : RowsOf(memories', e) = RowsOf(memories, e)
  BY <1>4, <1>6 DEF RowsOf
<1>8. MemTypeOK'
  BY <1>1, <1>5 DEF MemTypeOK
<1>9. c \notin replaced \cup forgotten => observed[c] <= all
  BY <1>3 DEF MemIInv, Counted
<1>10. ASSUME NEW e \in Contents \ (replaced' \cup forgotten')
       PROVE  observed'[e] <= Worth(memories', e)
  <2>1. observed[e] \in Nat /\ observed[e] <= Worth(memories, e)
    BY <1>1 DEF MemIInv, Counted
  <2>2. Worth(memories, e) \in Nat /\ Worth(memories', e) \in Nat
    BY <1>1, <1>5, CountsAreNumbers DEF Worth, RowsOf
  <2>3. CASE e = c
    <3>1. RowsOf(memories', c) \in SUBSET DOMAIN memories' /\ k \in RowsOf(memories', c)
      BY <1>3, <1>7 DEF RowsOf
    <3>2. memories'[k].reinforced <= Worth(memories', c)
      BY <1>5, <3>1, CountsOfOne DEF Worth
    <3> QED
      BY <1>1, <1>3, <1>6, <1>9, <2>1, <2>2, <2>3, <3>2
  <2>4. CASE e # c
    <3>1. \A i \in RowsOf(memories, e) : i # k
      BY <1>3, <2>4 DEF RowsOf
    <3>2. \A i \in RowsOf(memories, e) : memories'[i].reinforced = memories[i].reinforced
      BY <1>4, <3>1 DEF RowsOf
    <3>3. Worth(memories, e) <= Worth(memories', e)
      BY <1>1, <1>5, <1>7, <3>2, WorthNoLess
    <3> QED
      BY <1>1, <2>1, <2>2, <3>3
  <2> QED
    BY <2>3, <2>4
<1>11. Merging'
  <2>1. memories'[keeper'].content = c
    BY <1>1, <1>3, <1>6 DEF RowsOf
  <2>2. keeper' \in RowsOf(memories', c) \ doomed' /\ doomed' \subseteq RowsOf(memories', c)
    BY <1>1, <1>2, <1>3, <1>7
  <2>3. c \notin replaced' \cup forgotten' => observed'[c] <= memories'[keeper'].reinforced
    BY <1>1, <1>6, <1>9
  <2>4. \A e \in duplicated' : e \in Contents /\ RowsOf(memories', e) # {}
    BY <1>1, <1>7 DEF MemIInv, Merging
  <2> QED
    BY <2>1, <2>2, <2>3, <2>4 DEF Merging
<1> QED
  BY <1>8, <1>10, <1>11 DEF MemIInv, Counted

LEMMA BuryCounts == MemIInv /\ Bury => MemIInv'
<1> SUFFICES ASSUME MemIInv, Bury PROVE MemIInv'
  OBVIOUS
<1> DEFINE k == Least(doomed)
           c == memories[keeper].content
<1>1. /\ IsMemory(memories) /\ doomed # {}
      /\ observed \in [Contents -> Nat] /\ day \in Nat
      /\ memories' = [memories EXCEPT ![k].superseded_by = keeper]
      /\ doomed' = doomed \ {k} /\ duplicated' = duplicated /\ keeper' = keeper
      /\ day' = day /\ observed' = observed /\ replaced' = replaced /\ forgotten' = forgotten
  BY DEF Bury, MemIInv, MemTypeOK, told
<1>2. /\ keeper \in RowsOf(memories, c) /\ keeper \notin doomed
      /\ doomed \subseteq RowsOf(memories, c)
      /\ c \notin replaced \cup forgotten => observed[c] <= memories[keeper].reinforced
      /\ \A e \in duplicated : e \in Contents /\ RowsOf(memories, e) # {}
  BY <1>1 DEF MemIInv, Merging
<1>3. keeper \in DOMAIN memories /\ doomed \subseteq DOMAIN memories
      /\ keeper \in Nat /\ doomed \subseteq Nat
  BY <1>2, IdsAreNumbers DEF RowsOf
<1>4. k \in doomed /\ k # keeper
  BY <1>1, <1>2, <1>3, LeastIsOne
<1> HIDE DEF k
<1>5. /\ DOMAIN memories' = DOMAIN memories
      /\ \A i \in DOMAIN memories : i # k => memories'[i] = memories[i]
      /\ memories'[k] = [memories[k] EXCEPT !.superseded_by = keeper]
      /\ memories[k] \in MemRow /\ memories[k].content = c
  BY <1>1, <1>2, <1>3, <1>4 DEF IsMemory, RowsOf
<1>6. IsMemory(memories')
  <2>1. [memories[k] EXCEPT !.superseded_by = keeper] \in MemRow
    BY <1>3, <1>5 DEF MemRow
  <2>2. memories' \in [DOMAIN memories -> MemRow]
    BY <1>1, <2>1 DEF IsMemory
  <2> QED
    BY <1>1, <1>5, <2>2 DEF IsMemory
<1>7. memories'[keeper] = memories[keeper]
  BY <1>3, <1>4, <1>5
<1> HIDE DEF c
<1>8. MemTypeOK'
  BY <1>1, <1>6 DEF MemTypeOK
<1>9. \A e : e # c => /\ RowsOf(memories, e) \subseteq RowsOf(memories', e)
                      /\ k \notin RowsOf(memories, e)
  BY <1>5 DEF RowsOf
<1>10. keeper \in RowsOf(memories', c) /\ doomed' \subseteq RowsOf(memories', c)
  BY <1>1, <1>2, <1>4, <1>5, <1>7 DEF RowsOf
<1>11. ASSUME NEW e \in Contents \ (replaced' \cup forgotten')
       PROVE  observed'[e] <= Worth(memories', e)
  <2>1. observed[e] \in Nat /\ observed[e] <= Worth(memories, e)
    BY <1>1 DEF MemIInv, Counted
  <2>2. Worth(memories, e) \in Nat /\ Worth(memories', e) \in Nat
    BY <1>1, <1>6, CountsAreNumbers DEF Worth, RowsOf
  <2>3. CASE e = c
    <3>1. RowsOf(memories', c) \in SUBSET DOMAIN memories'
      BY DEF RowsOf
    <3>2. memories'[keeper].reinforced <= Worth(memories', c)
      BY <1>6, <1>10, <3>1, CountsOfOne DEF Worth
    <3>3. memories[keeper].reinforced \in Nat
      BY <1>1, <1>3 DEF IsMemory, MemRow
    <3> QED
      BY <1>1, <1>2, <1>7, <2>1, <2>2, <2>3, <3>2, <3>3
  <2>4. CASE e # c
    <3>1. \A i \in RowsOf(memories, e) : memories'[i].reinforced = memories[i].reinforced
      BY <1>5, <1>9, <2>4 DEF RowsOf
    <3>2. Worth(memories, e) <= Worth(memories', e)
      BY <1>1, <1>6, <1>9, <2>4, <3>1, WorthNoLess
    <3> QED
      BY <1>1, <2>1, <2>2, <3>2
  <2> QED
    BY <2>3, <2>4
<1>12. Merging'
  <2>1. memories'[keeper'].content = c
    BY <1>1, <1>7 DEF c
  <2>2. keeper' \in RowsOf(memories', c) \ doomed'
    BY <1>1, <1>2, <1>10
  <2>3. c \notin replaced' \cup forgotten' => observed'[c] <= memories'[keeper'].reinforced
    BY <1>1, <1>2, <1>7
  <2>4. \A e \in duplicated' : e \in Contents /\ RowsOf(memories', e) # {}
    BY <1>1, <1>2, <1>9, <1>10
  <2> QED
    BY <1>10, <2>1, <2>2, <2>3, <2>4 DEF Merging
<1> QED
  BY <1>8, <1>11, <1>12 DEF MemIInv, Counted

LEMMA MemIInvStep == MemIInv /\ MemNext => MemIInv'
<1> SUFFICES ASSUME MemIInv, MemNext PROVE MemIInv'
  OBVIOUS
<1>1. CASE \E c \in Contents, salient \in BOOLEAN : WriteMemory(c, salient)
  BY <1>1, WriteCounts
<1>2. CASE \E old, new \in DOMAIN memories : Supersede(old, new)
  BY <1>2, SupersedeCounts
<1>3. CASE \E c \in Contents : Absorb(c)
  BY <1>3, AbsorbCounts
<1> QED
  BY <1>1, <1>2, <1>3, ConsolidateCounts, BuryCounts, CrashCounts, ForgetCounts, AgesCounts
     DEF MemNext

LEMMA MemIInvStays == MemIInv /\ UNCHANGED memVars => MemIInv'
<1> SUFFICES ASSUME MemIInv, UNCHANGED memVars PROVE MemIInv'
  OBVIOUS
<1>1. /\ UNCHANGED <<memories, observed, replaced, forgotten>> /\ day' \in Nat
      /\ UNCHANGED <<doomed, duplicated, keeper>>
  BY DEF memVars, MemIInv, MemTypeOK, told, merging
<1>2. Merging'
  BY <1>1 DEF Merging, MemIInv, RowsOf
<1> QED
  BY <1>1, <1>2, RowsStay DEF MemIInv

-----------------------------------------------------------------------------
(* Beliefs, for any statements, turns and bounds.  Every operation of an   *)
(* answer, and everything else that changes the beliefs, keeps each row    *)
(* sound, so it does not matter which were known when the model was asked. *)
BeliefRow == [statement : Statements, support : Nat, against : Nat, status : {"active", "retired"},
              confidence : Int, updated : Int]
SoundRow == {b \in BeliefRow : b.status = "active" => b.support > b.against}
BeliefIInv == beliefs \in Seq(SoundRow) /\ halflives \in Nat

LEMMA ScoreType ==
  ASSUME NEW n \in Int, NEW m \in Int, NEW owner \in BOOLEAN
  PROVE  Score(n, m, owner) \in Int
  BY DEF Score, Bounded

LEMMA SequenceOf ==
  ASSUME NEW S, NEW bs \in Seq(S), NEW f, DOMAIN f = DOMAIN bs, f = [i \in DOMAIN f |-> f[i]],
         \A i \in DOMAIN bs : f[i] \in S
  PROVE  f \in Seq(S)
<1>1. DOMAIN f = 1..Len(bs) /\ Len(bs) \in Nat
  OBVIOUS
<1>2. f \in [1..Len(bs) -> S]
  BY <1>1
<1> QED
  BY <1>1, <1>2, SeqDef

LEMMA RowChanged ==
  ASSUME NEW bs \in Seq(SoundRow), NEW i, NEW r, i \in DOMAIN bs => r \in SoundRow
  PROVE  [bs EXCEPT ![i] = r] \in Seq(SoundRow)
<1> DEFINE f == [bs EXCEPT ![i] = r]
<1>1. DOMAIN f = DOMAIN bs /\ f = [k \in DOMAIN f |-> f[k]]
  OBVIOUS
<1>2. \A k \in DOMAIN bs : bs[k] \in SoundRow
  OBVIOUS
<1>3. \A k \in DOMAIN bs : f[k] \in SoundRow
  BY <1>2
<1> HIDE DEF f
<1>4. f \in Seq(SoundRow)
  BY <1>1, <1>3, SequenceOf
<1> QED
  BY <1>4 DEF f

LEMMA RowIsSound ==
  ASSUME NEW bs \in Seq(SoundRow), NEW i \in DOMAIN bs
  PROVE  bs[i] \in SoundRow /\ bs[i] \in BeliefRow
  BY DEF SoundRow

\* A row of which some fields changed is still a row.
LEMMA StillARow ==
  ASSUME NEW b \in BeliefRow, NEW r, DOMAIN r = DOMAIN b, r = [x \in DOMAIN r |-> r[x]],
         r.statement = b.statement, r.support \in Nat, r.against \in Nat,
         r.status \in {"active", "retired"}, r.confidence \in Int, r.updated \in Int
  PROVE  r \in BeliefRow
<1>1. DOMAIN b = {"statement", "support", "against", "status", "confidence", "updated"}
      /\ b.statement \in Statements
  BY DEF BeliefRow
<1> QED
  BY <1>1 DEF BeliefRow

LEMMA FreshIsSound ==
  ASSUME halflives \in Nat, NEW s \in Statements, NEW owner \in BOOLEAN
  PROVE  Fresh(s, owner) \in SoundRow
<1>1. Score(1, 0, owner) \in Int
  BY ScoreType
<1> QED
  BY <1>1 DEF Fresh, SoundRow, BeliefRow

LEMMA CreateIsSound ==
  ASSUME halflives \in Nat, NEW bs \in Seq(SoundRow), NEW s \in Statements, NEW owner \in BOOLEAN
  PROVE  Create(bs, s, owner) \in Seq(SoundRow)
<1> DEFINE alike == {k \in Active(bs) : bs[k].statement = s}
           i == CHOOSE n \in alike : \A k \in alike : n <= k
           again == Score(bs[i].support + 1, bs[i].against, owner)
           r == [bs[i] EXCEPT !.support = @ + 1, !.updated = halflives,
                              !.confidence = IF again > @ THEN again ELSE @]
<1>1. Create(bs, s, owner) = IF alike = {} THEN Append(bs, Fresh(s, owner))
                             ELSE [bs EXCEPT ![i].support = @ + 1, ![i].updated = halflives,
                                             ![i].confidence = IF again > @ THEN again ELSE @]
  BY DEF Create
<1> HIDE DEF alike, i
<1>2. [bs EXCEPT ![i].support = @ + 1, ![i].updated = halflives,
                 ![i].confidence = IF again > @ THEN again ELSE @] = [bs EXCEPT ![i] = r]
  OBVIOUS
<1>3. ASSUME i \in DOMAIN bs PROVE r \in SoundRow
  <2>1. bs[i] \in SoundRow /\ bs[i] \in BeliefRow
    BY <1>3, RowIsSound
  <2>2. again \in Int
    BY <2>1, ScoreType DEF BeliefRow
  <2> HIDE DEF again
  <2>3. /\ r.statement = bs[i].statement /\ r.status = bs[i].status
        /\ r.support = bs[i].support + 1 /\ r.against = bs[i].against
        /\ r.updated = halflives /\ r.confidence \in Int
    BY <2>1, <2>2 DEF BeliefRow
  <2>4. DOMAIN r = DOMAIN bs[i] /\ r = [x \in DOMAIN r |-> r[x]]
    OBVIOUS
  <2>a. /\ bs[i].support \in Nat /\ bs[i].against \in Nat
        /\ bs[i].status \in {"active", "retired"}
    BY <2>1 DEF BeliefRow
  <2> HIDE DEF r
  <2>5. r \in BeliefRow
    BY <2>1, <2>3, <2>4, <2>a, StillARow
  <2>6. bs[i].status = "active" => bs[i].support > bs[i].against
    BY <2>1 DEF SoundRow
  <2> QED
    BY <2>3, <2>5, <2>6, <2>a DEF SoundRow
<1> HIDE DEF r
<1>4. [bs EXCEPT ![i] = r] \in Seq(SoundRow)
  BY <1>3, RowChanged
<1>5. Append(bs, Fresh(s, owner)) \in Seq(SoundRow)
  BY FreshIsSound
<1> QED
  BY <1>1, <1>2, <1>4, <1>5

LEMMA RetireIsSound ==
  ASSUME halflives \in Nat, NEW bs \in Seq(SoundRow), NEW i
  PROVE  RetireOne(bs, i) \in Seq(SoundRow)
<1> DEFINE r == [bs[i] EXCEPT !.status = "retired", !.updated = halflives]
<1>1. RetireOne(bs, i) = [bs EXCEPT ![i] = r]
  BY DEF RetireOne
<1>2. ASSUME i \in DOMAIN bs PROVE r \in SoundRow
  <2>1. bs[i] \in BeliefRow
    BY <1>2, RowIsSound
  <2>2. /\ r.statement = bs[i].statement /\ r.status = "retired"
        /\ r.support = bs[i].support /\ r.against = bs[i].against
        /\ r.updated = halflives /\ r.confidence = bs[i].confidence
    BY <2>1 DEF BeliefRow
  <2>3. DOMAIN r = DOMAIN bs[i] /\ r = [x \in DOMAIN r |-> r[x]]
    OBVIOUS
  <2>4. bs[i].support \in Nat /\ bs[i].against \in Nat /\ bs[i].confidence \in Int
    BY <2>1 DEF BeliefRow
  <2> HIDE DEF r
  <2>5. r \in BeliefRow
    BY <2>1, <2>2, <2>3, <2>4, StillARow
  <2> QED
    BY <2>2, <2>5 DEF SoundRow
<1> HIDE DEF r
<1> QED
  BY <1>1, <1>2, RowChanged

LEMMA SupportIsSound ==
  ASSUME halflives \in Nat, NEW bs \in Seq(SoundRow), NEW i
  PROVE  Support(bs, i) \in Seq(SoundRow)
<1> DEFINE r == [bs[i] EXCEPT !.support = @ + 1, !.updated = halflives, !.confidence = Bounded(@ + 2)]
<1>1. Support(bs, i) = [bs EXCEPT ![i] = r]
  BY DEF Support
<1>2. ASSUME i \in DOMAIN bs PROVE r \in SoundRow
  <2>1. bs[i] \in SoundRow /\ bs[i] \in BeliefRow
    BY <1>2, RowIsSound
  <2>2. Bounded(bs[i].confidence + 2) \in Int
    BY <2>1 DEF Bounded, BeliefRow
  <2>3. /\ r.statement = bs[i].statement /\ r.status = bs[i].status
        /\ r.support = bs[i].support + 1 /\ r.against = bs[i].against
        /\ r.updated = halflives /\ r.confidence \in Int
    BY <2>1, <2>2 DEF BeliefRow
  <2>4. DOMAIN r = DOMAIN bs[i] /\ r = [x \in DOMAIN r |-> r[x]]
    OBVIOUS
  <2>a. /\ bs[i].support \in Nat /\ bs[i].against \in Nat
        /\ bs[i].status \in {"active", "retired"}
    BY <2>1 DEF BeliefRow
  <2> HIDE DEF r
  <2>5. r \in BeliefRow
    BY <2>1, <2>3, <2>4, <2>a, StillARow
  <2>6. bs[i].status = "active" => bs[i].support > bs[i].against
    BY <2>1 DEF SoundRow
  <2> QED
    BY <2>3, <2>5, <2>6, <2>a DEF SoundRow
<1> HIDE DEF r
<1> QED
  BY <1>1, <1>2, RowChanged

LEMMA ContradictIsSound ==
  ASSUME halflives \in Nat, NEW bs \in Seq(SoundRow), NEW i
  PROVE  Contradict(bs, i) \in Seq(SoundRow)
<1> DEFINE b == [bs[i] EXCEPT !.against = @ + 1, !.updated = halflives, !.confidence = Bounded(@ - 5)]
           r == IF b.against >= b.support \/ b.confidence < 4
                THEN [b EXCEPT !.status = "retired"] ELSE b
<1>1. Contradict(bs, i) = [bs EXCEPT ![i] = r]
  BY DEF Contradict
<1>2. ASSUME i \in DOMAIN bs PROVE r \in SoundRow
  <2>1. bs[i] \in BeliefRow
    BY <1>2, RowIsSound
  <2>2. Bounded(bs[i].confidence - 5) \in Int
    BY <2>1 DEF Bounded, BeliefRow
  <2>a. /\ b.statement = bs[i].statement /\ b.status = bs[i].status
        /\ b.support = bs[i].support /\ b.against = bs[i].against + 1
        /\ b.updated = halflives /\ b.confidence \in Int
    BY <2>1, <2>2 DEF BeliefRow
  <2>b. DOMAIN b = DOMAIN bs[i] /\ b = [x \in DOMAIN b |-> b[x]]
    OBVIOUS
  <2>c. /\ bs[i].support \in Nat /\ bs[i].against \in Nat
        /\ bs[i].status \in {"active", "retired"}
    BY <2>1 DEF BeliefRow
  <2> HIDE DEF b
  <2>3. b \in BeliefRow
    BY <2>1, <2>a, <2>b, <2>c, StillARow
  <2>4. [b EXCEPT !.status = "retired"] \in SoundRow
    BY <2>3 DEF BeliefRow, SoundRow
  <2>5. ~(b.against >= b.support) => b \in SoundRow
    BY <2>3 DEF BeliefRow, SoundRow
  <2> QED
    BY <2>4, <2>5
<1> HIDE DEF r
<1> QED
  BY <1>1, <1>2, RowChanged

LEMMA FadeIsSound ==
  ASSUME NEW bs \in Seq(SoundRow)
  PROVE  Fade(bs) \in Seq(SoundRow)
<1>1. /\ DOMAIN Fade(bs) = DOMAIN bs
      /\ Fade(bs) = [k \in DOMAIN Fade(bs) |-> Fade(bs)[k]]
      /\ \A k \in DOMAIN bs : \/ Fade(bs)[k] = bs[k]
                              \/ Fade(bs)[k] = [bs[k] EXCEPT !.status = "retired"]
  BY DEF Fade
<1>2. ASSUME NEW k \in DOMAIN bs PROVE Fade(bs)[k] \in SoundRow
  <2>1. bs[k] \in SoundRow /\ bs[k] \in BeliefRow
    BY RowIsSound
  <2>2. [bs[k] EXCEPT !.status = "retired"] \in SoundRow
    BY <2>1 DEF SoundRow, BeliefRow
  <2> QED
    BY <1>1, <2>1, <2>2
<1> QED
  BY <1>1, <1>2, SequenceOf

LEMMA ApplyOneIsSound ==
  ASSUME halflives \in Nat, NEW bs \in Seq(SoundRow), NEW op \in BeliefOps
  PROVE  ApplyOne(bs, op) \in Seq(SoundRow)
<1>1. CASE op \in [op : {"create", "owner_stated"}, statement : Statements]
  <2>1. op.op \in {"create", "owner_stated"} /\ op.statement \in Statements
    BY <1>1
  <2>2. ApplyOne(bs, op) = Create(bs, op.statement, op.op = "owner_stated")
    BY <2>1, Zenon DEF ApplyOne
  <2>3. (op.op = "owner_stated") \in BOOLEAN
    OBVIOUS
  <2> QED
    BY <2>1, <2>2, <2>3, CreateIsSound
<1>2. CASE op \in [op : {"support", "contradict"}, id : 1..MaxBeliefs]
  <2>1. op.op = "support" \/ op.op = "contradict"
    BY <1>2
  <2>2. \/ ApplyOne(bs, op) = bs
        \/ ApplyOne(bs, op) = Support(bs, op.id)
        \/ ApplyOne(bs, op) = Contradict(bs, op.id)
    BY <2>1 DEF ApplyOne
  <2> QED
    BY <2>2, SupportIsSound, ContradictIsSound
<1>3. CASE op \in [op : {"correction"}, id : 1..MaxBeliefs, statement : Statements]
  <2>1. op.op = "correction" /\ op.statement \in Statements
    BY <1>3
  <2>2. \/ ApplyOne(bs, op) = bs
        \/ ApplyOne(bs, op) = Correct(bs, op.id, op.statement)
    BY <2>1 DEF ApplyOne
  <2>3. Fresh(op.statement, TRUE) \in SoundRow /\ RetireOne(bs, op.id) \in Seq(SoundRow)
    BY <2>1, FreshIsSound, RetireIsSound
  <2>4. Append(RetireOne(bs, op.id), Fresh(op.statement, TRUE)) \in Seq(SoundRow)
    BY <2>3, AppendProperties
  <2> QED
    BY <2>2, <2>4 DEF Correct
<1> QED
  BY <1>1, <1>2, <1>3 DEF BeliefOps

\* The operations one after the other: the recursion of ApplyAll has a value, and a
\* least operation after which a row were not sound does not exist.
AfterEach(bs, ops, k, g) ==
  g = [n \in 0..k |-> IF n = 0 THEN bs ELSE ApplyOne(g[n - 1], ops[n])]

LEMMA AfterEachIsSound ==
  ASSUME halflives \in Nat, NEW bs \in Seq(SoundRow), NEW L \in Nat, NEW ops \in [1..L -> BeliefOps],
         NEW k \in 0..L, NEW g, AfterEach(bs, ops, k, g)
  PROVE  \A n \in 0..k : g[n] \in Seq(SoundRow)
<1> DEFINE bad == {n \in 0..k : g[n] \notin Seq(SoundRow)}
<1> SUFFICES ASSUME bad # {} PROVE FALSE
  OBVIOUS
<1>1. bad \subseteq Nat
  OBVIOUS
<1>2. PICK n \in bad : \A m \in bad : n <= m
  <2> HIDE DEF bad
  <2> QED
    BY <1>1, LeastNumber
<1>3. n \in 0..k /\ g[n] \notin Seq(SoundRow)
  OBVIOUS
<1>4. g[n] = IF n = 0 THEN bs ELSE ApplyOne(g[n - 1], ops[n])
  BY <1>3 DEF AfterEach
<1>5. CASE n = 0
  BY <1>3, <1>4, <1>5
<1>6. CASE n # 0
  <2>1. n - 1 \in 0..k /\ ~(n <= n - 1) /\ n \in 1..L
    BY <1>3, <1>6
  <2>2. n - 1 \notin bad
    BY <1>2, <2>1
  <2>3. g[n - 1] \in Seq(SoundRow) /\ ops[n] \in BeliefOps
    BY <2>1, <2>2
  <2>4. ApplyOne(g[n - 1], ops[n]) \in Seq(SoundRow)
    BY <2>3, ApplyOneIsSound
  <2> QED
    BY <1>3, <1>4, <1>6, <2>4
<1> QED
  BY <1>5, <1>6

LEMMA AfterEachExists ==
  ASSUME NEW bs, NEW ops, NEW L \in Nat
  PROVE  \A k \in 0..L : \E g : AfterEach(bs, ops, k, g)
<1> DEFINE bad == {k \in 0..L : ~ \E g : AfterEach(bs, ops, k, g)}
<1> SUFFICES ASSUME bad # {} PROVE FALSE
  OBVIOUS
<1>1. bad \subseteq Nat
  OBVIOUS
<1>2. PICK k \in bad : \A m \in bad : k <= m
  <2> HIDE DEF bad
  <2> QED
    BY <1>1, LeastNumber
<1>3. k \in 0..L /\ ~ \E g : AfterEach(bs, ops, k, g)
  OBVIOUS
<1>4. CASE k = 0
  <2> DEFINE g == [n \in 0..0 |-> bs]
  <2>1. AfterEach(bs, ops, 0, g)
    BY DEF AfterEach
  <2> QED
    BY <1>3, <1>4, <2>1
<1>5. CASE k # 0
  <2>1. k - 1 \in 0..L /\ ~(k <= k - 1)
    BY <1>3, <1>5
  <2>2. k - 1 \notin bad
    BY <1>2, <2>1
  <2>3. PICK g : AfterEach(bs, ops, k - 1, g)
    BY <2>1, <2>2
  <2> DEFINE h == [n \in 0..k |-> IF n = k THEN ApplyOne(g[k - 1], ops[k]) ELSE g[n]]
  <2>4. \A n \in 0..k : h[n] = IF n = k THEN ApplyOne(g[k - 1], ops[k]) ELSE g[n]
    OBVIOUS
  <2>5. \A n \in 0..(k - 1) : g[n] = IF n = 0 THEN bs ELSE ApplyOne(g[n - 1], ops[n])
    BY <2>3 DEF AfterEach
  <2>6. DOMAIN h = 0..k /\ h = [n \in DOMAIN h |-> h[n]]
    OBVIOUS
  <2> HIDE DEF h
  <2>7. ASSUME NEW n \in 0..k
        PROVE  h[n] = IF n = 0 THEN bs ELSE ApplyOne(h[n - 1], ops[n])
    <3>1. CASE n = k
      <4>1. k - 1 \in 0..k /\ k - 1 # k /\ k \in 0..k
        BY <1>3, <1>5
      <4>2. h[k - 1] = g[k - 1] /\ h[k] = ApplyOne(g[k - 1], ops[k])
        BY <2>4, <4>1
      <4> QED
        BY <1>5, <3>1, <4>2
    <3>2. CASE n # k
      <4>1. n \in 0..(k - 1) /\ h[n] = g[n]
        BY <1>3, <2>4, <3>2
      <4>2. n # 0 => n - 1 \in 0..k /\ n - 1 # k
        BY <1>3
      <4>3. n # 0 => h[n - 1] = g[n - 1]
        BY <2>4, <4>2
      <4> QED
        BY <2>5, <4>1, <4>3
    <3> QED
      BY <3>1, <3>2
  <2>8. AfterEach(bs, ops, k, h)
    BY <2>6, <2>7 DEF AfterEach
  <2> QED
    BY <1>3, <2>8
<1> QED
  BY <1>4, <1>5

LEMMA ApplyAllIsSound ==
  ASSUME halflives \in Nat, NEW bs \in Seq(SoundRow), NEW n \in Nat, NEW ops \in [1..n -> BeliefOps]
  PROVE  ApplyAll(bs, ops) \in Seq(SoundRow)
<1> DEFINE f == CHOOSE g : AfterEach(bs, ops, n, g)
<1>1. Len(ops) = n /\ n \in 0..n
  <2>1. ops \in Seq(BeliefOps)
    BY SeqDef
  <2> QED
    OBVIOUS
<1>2. AfterEach(bs, ops, n, f)
  BY <1>1, AfterEachExists, Zenon
<1>3. ApplyAll(bs, ops) = f[n]
  BY <1>1, Zenon DEF ApplyAll, AfterEach
<1> HIDE DEF f
<1>4. f[n] \in Seq(SoundRow)
  BY <1>1, <1>2, AfterEachIsSound
<1> QED
  BY <1>3, <1>4

LEMMA RememberIsSound ==
  ASSUME BeliefIInv, halflives' = halflives, NEW bs \in Seq(SoundRow), Remember(bs)
  PROVE  BeliefIInv'
  BY DEF Remember, BeliefIInv

LEMMA BeliefIInvStep == BeliefIInv /\ BeliefNext => BeliefIInv'
<1> SUFFICES ASSUME BeliefIInv, BeliefNext PROVE BeliefIInv'
  OBVIOUS
<1>1. beliefs \in Seq(SoundRow) /\ halflives \in Nat /\ << >> \in Seq(SoundRow)
  BY DEF BeliefIInv
<1>2. ASSUME NEW ok \in BOOLEAN
      PROVE  /\ Load(ok) \in Seq(SoundRow) /\ Fade(Load(ok)) \in Seq(SoundRow)
             /\ (IF Fade(Load(ok)) = Load(ok) THEN beliefs ELSE Fade(Load(ok))) \in Seq(SoundRow)
  <2>1. Load(ok) \in Seq(SoundRow)
    BY <1>1 DEF Load
  <2>2. Fade(Load(ok)) \in Seq(SoundRow)
    BY <2>1, FadeIsSound
  <2> QED
    BY <1>1, <2>1, <2>2
<1>3. ASSUME NEW ok \in BOOLEAN, ListBeliefs(ok) PROVE BeliefIInv'
  <2>1. /\ halflives' = halflives
        /\ Remember(IF Fade(Load(ok)) = Load(ok) THEN beliefs ELSE Fade(Load(ok)))
    BY <1>3 DEF ListBeliefs
  <2> QED
    BY <1>2, <2>1, RememberIsSound
<1>4. ASSUME NEW i \in DOMAIN beliefs, RetireBelief(i) PROVE BeliefIInv'
  <2>1. halflives' = halflives /\ Remember(RetireOne(beliefs, i))
    BY <1>4 DEF RetireBelief
  <2>2. RetireOne(beliefs, i) \in Seq(SoundRow)
    BY <1>1, RetireIsSound
  <2> QED
    BY <2>1, <2>2, RememberIsSound
<1>5. ASSUME NEW t \in Turns, NEW ok \in BOOLEAN, AskWhatIsNew(t, ok) PROVE BeliefIInv'
  <2>1. /\ halflives' = halflives
        /\ Remember(IF Fade(Load(ok)) = Load(ok) THEN beliefs ELSE Fade(Load(ok)))
    BY <1>5 DEF AskWhatIsNew
  <2> QED
    BY <1>2, <2>1, RememberIsSound
<1>6. ASSUME NEW t \in Turns, NEW ok \in BOOLEAN, NEW n \in 1..MaxOps, NEW ops \in [1..n -> BeliefOps],
             ApplyAnswer(t, ops, ok)
      PROVE  BeliefIInv'
  <2>1. /\ halflives' = halflives
        /\ Remember(IF ApplyAll(Load(ok), ops) = Load(ok) THEN beliefs ELSE ApplyAll(Load(ok), ops))
    BY <1>6 DEF ApplyAnswer
  <2>2. n \in Nat
    OBVIOUS
  <2>3. ApplyAll(Load(ok), ops) \in Seq(SoundRow)
    BY <1>1, <1>2, <2>2, ApplyAllIsSound
  <2> QED
    BY <1>1, <2>1, <2>3, RememberIsSound
<1>7. ASSUME NEW t \in Turns, NothingNew(t) PROVE BeliefIInv'
  BY <1>1, <1>7 DEF NothingNew, BeliefIInv
<1>8. ASSUME TimePasses PROVE BeliefIInv'
  BY <1>1, <1>8 DEF TimePasses, BeliefIInv
<1> QED
  BY <1>3, <1>4, <1>5, <1>6, <1>7, <1>8 DEF BeliefNext

LEMMA SoundMeansMoreFor == BeliefIInv => MoreFor
<1> SUFFICES ASSUME BeliefIInv, NEW i \in Active(beliefs)
             PROVE  beliefs[i].support > beliefs[i].against
  BY DEF MoreFor
<1>1. beliefs \in Seq(SoundRow) /\ i \in DOMAIN beliefs /\ beliefs[i].status = "active"
  BY DEF BeliefIInv, Active
<1>2. beliefs[i] \in SoundRow
  BY <1>1, RowIsSound
<1> QED
  BY <1>1, <1>2 DEF SoundRow

-----------------------------------------------------------------------------
(* Merging duplicate memories loses no observation, even when the process  *)
(* dies between its statements, and a belief in use has more support than  *)
(* contradiction, however late an answer is applied.                       *)
KnowledgeIInv ==
  /\ record = "memory" => MemIInv
  /\ record = "beliefs" => BeliefIInv

THEOREM KnowledgeIsSound == RecordsSpec => []KnowledgeSound
<1>1. RecordsInit => KnowledgeIInv
  <2> SUFFICES ASSUME RecordsInit PROVE KnowledgeIInv
    OBVIOUS
  <2>1. MemInit /\ BeliefInit
    BY DEF RecordsInit
  <2>2. BeliefIInv
    BY <2>1 DEF BeliefInit, BeliefIInv
  <2> QED
    BY <2>1, <2>2, MemIInvInit DEF KnowledgeIInv
<1>2. KnowledgeIInv /\ [RecordsNext]_recordVars => KnowledgeIInv'
  <2> SUFFICES ASSUME KnowledgeIInv, [RecordsNext]_recordVars PROVE KnowledgeIInv'
    OBVIOUS
  <2>1. record' = record
    BY DEF RecordsNext, Others, recordVars
  <2>2. ASSUME record = "memory" PROVE MemIInv'
    <3>1. MemNext \/ UNCHANGED memVars
      BY <2>2 DEF RecordsNext, recordVars, Delivers, Meters, Authorizes, Plans, Delegates,
                  Remembers, Believes
    <3>2. MemIInv
      BY <2>2 DEF KnowledgeIInv
    <3> QED
      BY <3>1, <3>2, MemIInvStep, MemIInvStays
  <2>3. ASSUME record = "beliefs" PROVE BeliefIInv'
    <3>1. BeliefNext \/ UNCHANGED beliefVars
      BY <2>3 DEF RecordsNext, recordVars, Delivers, Meters, Authorizes, Plans, Delegates,
                  Remembers, Believes
    <3>2. BeliefIInv
      BY <2>3 DEF KnowledgeIInv
    <3>3. UNCHANGED beliefVars => BeliefIInv'
      BY <3>2 DEF beliefVars, BeliefIInv
    <3> QED
      BY <3>1, <3>2, <3>3, BeliefIInvStep
  <2> QED
    BY <2>1, <2>2, <2>3 DEF KnowledgeIInv
<1>3. KnowledgeIInv => KnowledgeSound
  BY CountedIsTheProperty, SoundMeansMoreFor DEF KnowledgeIInv, KnowledgeSound, MemIInv
<1> QED
  BY <1>1, <1>2, <1>3, PTL DEF RecordsSpec
=============================================================================
