---------------------------- MODULE Tools_proofs ----------------------------
(* What the tools of a turn keep for every value of their constants: saved  *)
(* tools, the browser and its debugging session, the desktop, publications, *)
(* application sessions, public sources, patches and searches of files.     *)
EXTENDS Tools, FiniteSetTheorems, SequenceTheorems, WellFoundedInduction, TLAPS

-----------------------------------------------------------------------------
(* Saved tools: a version is tested when a test of its digest succeeded, and *)
(* what a program did while its files stayed as they were is what its digest *)
(* says.                                                                     *)
Digests == Programs \X Arguments \X Nat
ToolJobs == [tool : {"tool_run", "tool_test"}, version : Nat, digest : Digests,
             did : Digests \cup {None}]
Rows == [program : Programs, tested : BOOLEAN, digest : Digests \cup {None}]

SavedTypeOK ==
    /\ edition \in Nat
    /\ \E k \in Nat : versions \in [1..k -> Rows] /\ active \in 0..k
    /\ job \in [Conversations -> ToolJobs \cup {None}]

TestedWereSound == \A n \in DOMAIN versions : versions[n].tested => versions[n].digest \in sound
RunsAreTested == \A c \in Conversations :
    job[c] # None /\ job[c].tool = "tool_run" => job[c].digest \in sound
(* The files only move on from the edition a program found them in.          *)
DidAsItWas == \A c \in Conversations :
    job[c] # None /\ job[c].did # None =>
        /\ job[c].did[1] = job[c].digest[1] /\ job[c].did[2] = job[c].digest[2]
        /\ job[c].digest[3] <= job[c].did[3] /\ job[c].did[3] <= edition
TakenEarlier == \A c \in Conversations : job[c] # None => job[c].digest[3] <= edition

SavedInv == SavedTypeOK /\ TestedWereSound /\ RunsAreTested /\ DidAsItWas /\ TakenEarlier
            /\ RunsAsTested

(* No version and no test is there at first.                                 *)
LEMMA SavedInvInit == ASSUME Saved!ToolInit PROVE SavedInv
<1>1. versions \in [1..0 -> Rows] /\ active \in 0..0 /\ DOMAIN versions = {}
  BY DEF Saved!ToolInit
<1>2. edition = 0 /\ job \in [Conversations -> {None}] /\ ran = {}
  BY DEF Saved!ToolInit
<1> QED
  BY <1>1, <1>2 DEF SavedInv, SavedTypeOK, TestedWereSound, RunsAreTested, DidAsItWas,
     TakenEarlier, RunsAsTested, Saved!RunsAsTested

(* The number of a new version is the next one.                              *)
LEMMA NextVersion ==
  ASSUME NEW k \in Nat PROVE Saved!Max((1..k) \cup {0}) = k
<1>1. /\ k \in (1..k) \cup {0}
      /\ \A y \in (1..k) \cup {0} : k >= y
  OBVIOUS
<1>2. \A x \in (1..k) \cup {0} : (\A y \in (1..k) \cup {0} : x >= y) => x = k
  BY <1>1
<1> QED
  BY <1>1, <1>2 DEF Saved!Max

(* A step that leaves the store, the files and the ghosts alone.             *)
LEMMA SavedKept ==
  ASSUME SavedInv, UNCHANGED <<versions, active, edition, sound, ran>>,
         job' \in [Conversations -> ToolJobs \cup {None}],
         RunsAreTested', DidAsItWas', TakenEarlier'
  PROVE  SavedInv'
  BY DEF SavedInv, SavedTypeOK, TestedWereSound, RunsAsTested, Saved!RunsAsTested

(* Every step of the saved tools preserves the invariant.                    *)
LEMMA SavedInvNext ==
  ASSUME SavedInv, [Saved!ToolNext]_(Saved!toolVars) PROVE SavedInv'
<1> USE SavedAssumption
<1> PICK k \in Nat : versions \in [1..k -> Rows] /\ active \in 0..k
  BY DEF SavedInv, SavedTypeOK
<1>0. DOMAIN versions = 1..k
  OBVIOUS
<1>1. ASSUME NEW program \in Programs, Saved!SaveTool(program) PROVE SavedInv'
  <2> DEFINE row == [program |-> program, tested |-> FALSE, digest |-> None]
  <2>1. row \in Rows /\ ~row.tested
    BY DEF Rows
  <2> HIDE DEF row
  <2>2. /\ versions' = [m \in (1..k) \cup {k + 1} |-> IF m = k + 1 THEN row ELSE versions[m]]
        /\ active' = k + 1
    BY <1>0, <1>1, NextVersion DEF Saved!SaveTool, row
  <2>3. versions' \in [1..(k + 1) -> Rows]
    BY <2>1, <2>2
  <2>4. UNCHANGED <<edition, job, sound, ran>>
    BY <1>1 DEF Saved!SaveTool
  <2>5. SavedTypeOK'
    BY <2>2, <2>3, <2>4 DEF SavedInv, SavedTypeOK
  <2>6. TestedWereSound'
    BY <2>1, <2>2, <2>4 DEF SavedInv, TestedWereSound
  <2> QED
    BY <2>4, <2>5, <2>6
    DEF SavedInv, RunsAreTested, DidAsItWas, TakenEarlier, RunsAsTested, Saved!RunsAsTested
<1>2. ASSUME NEW n \in DOMAIN versions, Saved!RestoreTool(n) PROVE SavedInv'
  <2>1. active' \in 0..k /\ UNCHANGED <<versions, edition, job, sound, ran>>
    BY <1>0, <1>2 DEF Saved!RestoreTool
  <2> QED
    BY <2>1 DEF SavedInv, SavedTypeOK, TestedWereSound, RunsAreTested,
       DidAsItWas, TakenEarlier, RunsAsTested, Saved!RunsAsTested
<1>3. CASE Saved!ForgetTool
  <2>1. versions' \in [1..0 -> Rows] /\ DOMAIN versions' = {} /\ active' \in 0..0
    BY <1>3 DEF Saved!ForgetTool
  <2> QED
    BY <1>3, <2>1 DEF Saved!ForgetTool, SavedInv, SavedTypeOK, TestedWereSound, RunsAreTested,
       DidAsItWas, TakenEarlier, RunsAsTested, Saved!RunsAsTested
<1>4. CASE Saved!EditFiles
  <2>1. edition' = edition + 1 /\ UNCHANGED <<versions, active, job, sound, ran>>
    BY <1>4 DEF Saved!EditFiles, Saved!store
  <2>2. edition \in Nat /\ edition' \in Nat /\ edition <= edition'
    BY <1>0, <2>1 DEF SavedInv, SavedTypeOK
  <2>3. TakenEarlier' /\ DidAsItWas'
    <3>1. \A c \in Conversations : job[c] # None =>
             job[c].digest[3] \in Nat /\ job[c].digest[3] <= edition
      BY DEF SavedInv, SavedTypeOK, TakenEarlier, ToolJobs, Digests
    <3>2. \A c \in Conversations : job[c] # None /\ job[c].did # None =>
             job[c].did[3] \in Nat /\ job[c].did[3] <= edition
      BY DEF SavedInv, SavedTypeOK, DidAsItWas, ToolJobs, Digests
    <3>3. \A x \in Nat : x <= edition => x <= edition'
      BY <2>2
    <3>4. TakenEarlier'
      BY <2>1, <3>1, <3>3 DEF TakenEarlier
    <3>5. DidAsItWas'
      BY <2>1, <3>2, <3>3 DEF SavedInv, DidAsItWas
    <3> QED
      BY <3>4, <3>5
  <2> QED
    BY <2>1, <2>2, <2>3 DEF SavedInv, SavedTypeOK, TestedWereSound, RunsAreTested,
       RunsAsTested, Saved!RunsAsTested
<1>5. ASSUME NEW c \in Conversations, NEW tool_ \in {"tool_run", "tool_test"},
             NEW args \in Arguments, Saved!StartTool(c, tool_, args)
      PROVE  SavedInv'
  <2> DEFINE digest == <<versions[active].program, args, edition>>
             newJob == [tool |-> tool_, version |-> active, digest |-> digest, did |-> None]
  <2>1. active \in 1..k /\ versions[active] \in Rows
    BY <1>5 DEF Saved!StartTool
  <2>2. digest \in Digests /\ digest[3] <= edition
    BY <2>1 DEF Digests, Rows, SavedInv, SavedTypeOK
  <2>3. newJob \in ToolJobs
    BY <2>1, <2>2 DEF ToolJobs
  <2>4. job' = [job EXCEPT ![c] = newJob] /\ UNCHANGED <<versions, active, edition, sound, ran>>
    BY <1>5 DEF Saved!StartTool, Saved!Qualification, Saved!store
  <2>5. newJob.tool = "tool_run" => newJob.digest \in sound
    BY <1>0, <1>5, <2>1
    DEF Saved!StartTool, Saved!Qualification, Saved!Qualified, SavedInv, TestedWereSound
  <2>6. newJob.did = None /\ newJob.digest[3] <= edition
    BY <2>2
  <2> HIDE DEF newJob
  <2>7. job' \in [Conversations -> ToolJobs \cup {None}]
    BY <2>3, <2>4 DEF SavedInv, SavedTypeOK
  <2>8. \A d \in Conversations : job'[d] = IF d = c THEN newJob ELSE job[d]
    BY <2>4 DEF SavedInv, SavedTypeOK
  <2>9. RunsAreTested' /\ DidAsItWas' /\ TakenEarlier'
    BY <2>4, <2>5, <2>6, <2>8 DEF SavedInv, RunsAreTested, DidAsItWas, TakenEarlier
  <2> QED
    BY <2>4, <2>7, <2>9, SavedKept
<1>6. ASSUME NEW c \in Conversations, Saved!ExecuteTool(c) PROVE SavedInv'
  <2> DEFINE did == <<job[c].digest[1], job[c].digest[2], edition>>
             done_ == [job[c] EXCEPT !.did = did]
  <2>1. job[c] \in ToolJobs /\ job[c].digest[3] <= edition /\ edition \in Nat
    BY <1>6 DEF Saved!ExecuteTool, SavedInv, SavedTypeOK, TakenEarlier
  <2>2. did \in Digests /\ did[1] = job[c].digest[1] /\ did[2] = job[c].digest[2]
        /\ did[3] = edition
    BY <2>1 DEF ToolJobs, Digests
  <2> HIDE DEF did
  <2>3. done_ \in ToolJobs /\ done_.tool = job[c].tool /\ done_.digest = job[c].digest
        /\ done_.did = did
    BY <2>1, <2>2 DEF ToolJobs
  <2>4. job' = [job EXCEPT ![c] = done_] /\ UNCHANGED <<versions, active, edition, sound, ran>>
    BY <1>6 DEF Saved!ExecuteTool, Saved!Qualification, Saved!store, did
  <2> HIDE DEF done_
  <2>5. job' \in [Conversations -> ToolJobs \cup {None}]
    BY <2>3, <2>4 DEF SavedInv, SavedTypeOK
  <2>6. \A d \in Conversations : job'[d] = IF d = c THEN done_ ELSE job[d]
    BY <2>4 DEF SavedInv, SavedTypeOK
  <2>7. job[c] # None
    BY <1>6 DEF Saved!ExecuteTool
  <2>8. RunsAreTested' /\ DidAsItWas' /\ TakenEarlier'
    BY <2>1, <2>2, <2>3, <2>4, <2>6, <2>7 DEF SavedInv, RunsAreTested, DidAsItWas, TakenEarlier
  <2> QED
    BY <2>4, <2>5, <2>8, SavedKept
<1>7. ASSUME NEW c \in Conversations, job' = [job EXCEPT ![c] = None]
      PROVE  /\ job' \in [Conversations -> ToolJobs \cup {None}]
             /\ \A d \in Conversations : job'[d] = IF d = c THEN None ELSE job[d]
  BY <1>7 DEF SavedInv, SavedTypeOK
<1>8. ASSUME NEW c \in Conversations, Saved!LoseTool(c) PROVE SavedInv'
  BY <1>7, <1>8, SavedKept
  DEF Saved!LoseTool, Saved!store, SavedInv, RunsAreTested, DidAsItWas, TakenEarlier
<1>9. ASSUME NEW c \in Conversations, NEW ok \in BOOLEAN, Saved!FinishTool(c, ok) PROVE SavedInv'
  <2> DEFINE d == job[c].digest
             v == job[c].version
  <2>1. /\ job[c] # None /\ job[c].did # None /\ job[c] \in ToolJobs
        /\ d \in Digests /\ job[c].did \in Digests /\ v \in Nat
        /\ job' = [job EXCEPT ![c] = None] /\ UNCHANGED <<active, edition>>
    BY <1>9 DEF Saved!FinishTool, SavedInv, SavedTypeOK, ToolJobs
  <2>2. /\ job' \in [Conversations -> ToolJobs \cup {None}]
        /\ \A e \in Conversations : job'[e] = IF e = c THEN None ELSE job[e]
    BY <1>7, <2>1
  <2>3. sound \subseteq sound' /\ edition' = edition
    BY <1>9 DEF Saved!FinishTool
  <2>4. RunsAreTested' /\ DidAsItWas' /\ TakenEarlier'
    BY <2>2, <2>3 DEF SavedInv, RunsAreTested, DidAsItWas, TakenEarlier
  \* a result counts only if its program ran what the digest says
  <2>5. Saved!Unchanged(c) => job[c].did = d
    <3>1. \A x, y \in Digests : x[1] = y[1] /\ x[2] = y[2] /\ x[3] = y[3] => x = y
      BY DEF Digests
    <3>2. d[3] \in Nat /\ job[c].did[3] \in Nat /\ edition \in Nat
      BY <2>1 DEF Digests, SavedInv, SavedTypeOK
    <3>3. Saved!Unchanged(c) => d[3] = edition
      BY <2>1 DEF Saved!Unchanged, Saved!Qualification, Digests
    <3>4. /\ job[c].did[1] = d[1] /\ job[c].did[2] = d[2]
          /\ d[3] <= job[c].did[3] /\ job[c].did[3] <= edition
      BY <2>1 DEF SavedInv, DidAsItWas
    <3>5. Saved!Unchanged(c) => job[c].did[3] = d[3]
      BY <3>2, <3>3, <3>4
    <3> QED
      BY <2>1, <3>1, <3>4, <3>5
  <2>6. CASE ok /\ Saved!Unchanged(c) /\ job[c].tool = "tool_test"
    <3>1. /\ sound' = sound \cup {d} /\ ran' = ran
          /\ versions' = IF v \in DOMAIN versions
               THEN [versions EXCEPT ![v].tested = TRUE, ![v].digest = d] ELSE versions
      BY <1>9, <2>5, <2>6 DEF Saved!FinishTool
    <3>2. ASSUME NEW n \in 1..k
          PROVE  /\ [versions[n] EXCEPT !.tested = TRUE, !.digest = d] \in Rows
                 /\ [versions[n] EXCEPT !.tested = TRUE, !.digest = d].digest = d
      <4>1. versions[n] \in Rows
        OBVIOUS
      <4> QED
        BY <2>1, <4>1 DEF Rows
    <3>3. versions' \in [1..k -> Rows]
      BY <1>0, <3>1, <3>2
    <3>4. TestedWereSound'
      <4> SUFFICES ASSUME NEW n \in DOMAIN versions', versions'[n].tested
                   PROVE  versions'[n].digest \in sound'
        BY DEF TestedWereSound
      <4>1. n \in 1..k
        BY <3>3
      <4>2. CASE v \in DOMAIN versions /\ n = v
        <5>1. versions' = [versions EXCEPT ![v] = [versions[v] EXCEPT !.tested = TRUE, !.digest = d]]
          BY <3>1, <4>2
        <5>2. versions'[n] = [versions[v] EXCEPT !.tested = TRUE, !.digest = d]
          BY <1>0, <4>2, <5>1
        <5>3. versions'[n].digest = d
          BY <3>2, <4>1, <4>2, <5>2
        <5> QED
          BY <3>1, <5>3
      <4>3. CASE ~(v \in DOMAIN versions /\ n = v)
        BY <1>0, <3>1, <4>1, <4>3 DEF SavedInv, TestedWereSound
      <4> QED
        BY <4>2, <4>3
    <3>5. SavedTypeOK'
      BY <2>1, <2>2, <3>3 DEF SavedInv, SavedTypeOK
    <3> QED
      BY <2>4, <3>1, <3>4, <3>5 DEF SavedInv, RunsAsTested, Saved!RunsAsTested
  <2>7. CASE ~(ok /\ Saved!Unchanged(c) /\ job[c].tool = "tool_test")
    <3>1. /\ ran' = IF ok /\ Saved!Unchanged(c) THEN ran \cup {job[c].did} ELSE ran
          /\ UNCHANGED <<versions, sound>>
      BY <1>9, <2>7 DEF Saved!FinishTool
    <3>2. ok /\ Saved!Unchanged(c) => job[c].tool = "tool_run"
      BY <2>1, <2>7 DEF ToolJobs
    <3>3. ok /\ Saved!Unchanged(c) => job[c].did \in sound
      BY <2>1, <2>5, <3>2 DEF SavedInv, RunsAreTested
    <3>4. SavedTypeOK' /\ TestedWereSound'
      BY <2>1, <2>2, <3>1 DEF SavedInv, SavedTypeOK, TestedWereSound
    <3> QED
      BY <2>4, <3>1, <3>3, <3>4 DEF SavedInv, RunsAsTested, Saved!RunsAsTested
  <2> QED
    BY <2>6, <2>7
<1>10. CASE UNCHANGED Saved!toolVars
  BY <1>10 DEF Saved!toolVars, Saved!store, SavedInv, SavedTypeOK, TestedWereSound, RunsAreTested,
     DidAsItWas, TakenEarlier, RunsAsTested, Saved!RunsAsTested
<1> QED
  BY <1>1, <1>2, <1>3, <1>4, <1>5, <1>6, <1>8, <1>9, <1>10 DEF Saved!ToolNext

(* A saved tool that reports success ran exactly what a test ran before it,  *)
(* with the same arguments and files, however versions were saved, restored  *)
(* and forgotten and files changed meanwhile (capabilities.rs).              *)
THEOREM RunsTheTested == Saved!ToolSpec => []RunsAsTested
<1>1. Saved!ToolInit => SavedInv
  BY SavedInvInit
<1>2. SavedInv /\ [Saved!ToolNext]_(Saved!toolVars) => SavedInv'
  BY SavedInvNext
<1>3. SavedInv => RunsAsTested
  BY DEF SavedInv
<1> QED
  BY <1>1, <1>2, <1>3, PTL DEF Saved!ToolSpec

-----------------------------------------------------------------------------
(* The debugging session: events are numbered as they are sent, so that one  *)
(* on the wire is none of those that were read before.                       *)
Sent == [kind : Wire!Kinds \cup {"answer"}, id : Nat]
IsEvent(m) == m.kind # "answer"

WireTypeOK ==
    /\ next \in Nat /\ emitted \in Nat /\ asked \subseteq Nat /\ wire \in Seq(Sent)
    /\ events \in SUBSET Sent /\ drained \in SUBSET Nat
    /\ call \in Nat \cup {None} /\ navigation \in {"sent", "stopped", "loaded", "landing", None}

(* Nothing was read with a number that is not used yet.                      *)
ReadWereSent ==
    /\ \A n \in drained : n <= emitted
    /\ \A e \in events : IsEvent(e) /\ e.id <= emitted
    /\ \A i \in 1..Len(wire) : IsEvent(wire[i]) => wire[i].id <= emitted
WireIsNew == \A i \in 1..Len(wire) : IsEvent(wire[i]) =>
    /\ wire[i].id \notin drained
    /\ \A e \in events : e.id # wire[i].id
    /\ \A j \in 1..Len(wire) : IsEvent(wire[j]) /\ wire[j].id = wire[i].id => i = j
(* While a page loads, no event is kept that was there before.               *)
KeptAreNew == navigation # None => \A e \in events : e.id \notin drained

(* An event is kept once, and no more once a navigation ended by it.         *)
KeptOnce == \A e, f \in events : e.id = f.id => e = f
TakenIsGone == last # None /\ last.how = "event" =>
    /\ last.id \in Nat /\ last.id <= emitted
    /\ \A e \in events : e.id # last.id
    /\ \A i \in 1..Len(wire) : IsEvent(wire[i]) => wire[i].id # last.id

WireInv == WireTypeOK /\ ReadWereSent /\ WireIsNew /\ KeptAreNew /\ KeptOnce /\ TakenIsGone
           /\ OwnAnswers

(* A session begins with nothing read and nothing sent.                      *)
LEMMA WireInvInit == ASSUME Wire!CdpInit PROVE WireInv
<1>1. wire = <<>> /\ Len(wire) = 0 /\ wire \in Seq(Sent)
  BY DEF Wire!CdpInit
<1>2. 1..Len(wire) = {}
  BY <1>1
<1> QED
  BY <1>1, <1>2 DEF Wire!CdpInit, WireInv, WireTypeOK, ReadWereSent, WireIsNew, KeptAreNew,
     KeptOnce, TakenIsGone, OwnAnswers, Wire!OwnAnswers

(* One message more on the wire: an answer, or an event with the next number.*)
LEMMA OneMore ==
  ASSUME WireInv, NEW m \in Sent, wire' = Append(wire, m),
         UNCHANGED <<next, events, call, navigation, drained, last>>, asked' \subseteq Nat,
         \/ ~IsEvent(m) /\ emitted' = emitted
         \/ IsEvent(m) /\ emitted' = emitted + 1 /\ m.id = emitted'
  PROVE  WireInv'
<1> USE DEF WireInv
<1>1. /\ wire' \in Seq(Sent) /\ Len(wire') = Len(wire) + 1 /\ Len(wire) \in Nat
      /\ \A i \in 1..Len(wire) : wire'[i] = wire[i]
      /\ wire'[Len(wire) + 1] = m
  BY DEF WireTypeOK
<1>2. emitted \in Nat /\ emitted' \in Nat /\ emitted <= emitted'
  BY DEF WireTypeOK
<1>3. \A i \in 1..Len(wire) : wire[i] \in Sent
  BY DEF WireTypeOK
<1>4. WireTypeOK'
  BY <1>1, <1>2 DEF WireTypeOK
<1>5. (\A e \in events : e.id \in Nat) /\ \A n \in drained : n \in Nat
  BY DEF WireTypeOK, Sent
<1>6. \A i \in 1..Len(wire) : wire[i].id \in Nat
  BY <1>3 DEF Sent
<1>7. ReadWereSent'
  <2>1. (\A n \in drained' : n <= emitted') /\ \A e \in events' : IsEvent(e) /\ e.id <= emitted'
    BY <1>2, <1>5 DEF ReadWereSent, IsEvent
  <2>2. ASSUME NEW i \in 1..Len(wire'), IsEvent(wire'[i]) PROVE wire'[i].id <= emitted'
    <3>1. CASE i = Len(wire) + 1
      BY <1>1, <1>2, <2>2, <3>1
    <3>2. CASE i \in 1..Len(wire)
      BY <1>1, <1>2, <1>6, <2>2, <3>2 DEF ReadWereSent, IsEvent
    <3> QED
      BY <1>1, <3>1, <3>2
  <2> QED
    BY <2>1, <2>2 DEF ReadWereSent, IsEvent
<1>8. WireIsNew'
  <2> SUFFICES ASSUME NEW i \in 1..Len(wire'), IsEvent(wire'[i])
               PROVE  /\ wire'[i].id \notin drained'
                      /\ \A e \in events' : e.id # wire'[i].id
                      /\ \A j \in 1..Len(wire') :
                           IsEvent(wire'[j]) /\ wire'[j].id = wire'[i].id => i = j
    BY DEF WireIsNew, IsEvent
  <2>1. CASE i = Len(wire) + 1
    <3>1. wire'[i] = m /\ IsEvent(m) /\ m.id = emitted + 1
      BY <1>1, <2>1
    <3>2. ASSUME NEW j \in 1..Len(wire'), IsEvent(wire'[j]), wire'[j].id = m.id PROVE i = j
      <4>1. CASE j \in 1..Len(wire)
        BY <1>1, <1>2, <1>6, <3>1, <3>2, <4>1 DEF ReadWereSent, IsEvent
      <4> QED
        BY <1>1, <2>1, <4>1
    <3> QED
      BY <1>2, <1>5, <3>1, <3>2 DEF ReadWereSent
  <2>2. CASE i \in 1..Len(wire)
    <3>1. wire'[i] = wire[i] /\ IsEvent(wire[i]) /\ wire[i].id <= emitted
      BY <1>1, <2>2 DEF ReadWereSent, IsEvent
    <3>2. ASSUME NEW j \in 1..Len(wire'), IsEvent(wire'[j]), wire'[j].id = wire[i].id
          PROVE  i = j
      <4>1. CASE j \in 1..Len(wire)
        BY <1>1, <2>2, <3>1, <3>2, <4>1 DEF WireIsNew, IsEvent
      <4>2. CASE j = Len(wire) + 1
        BY <1>1, <1>2, <1>6, <2>2, <3>1, <3>2, <4>2
      <4> QED
        BY <1>1, <4>1, <4>2
    <3> QED
      BY <2>2, <3>1, <3>2 DEF WireIsNew
  <2> QED
    BY <1>1, <2>1, <2>2
<1>9. TakenIsGone'
  <2> SUFFICES ASSUME last # None, last.how = "event"
               PROVE  /\ last.id \in Nat /\ last.id <= emitted'
                      /\ \A e \in events : e.id # last.id
                      /\ \A i \in 1..Len(wire') : IsEvent(wire'[i]) => wire'[i].id # last.id
    BY DEF TakenIsGone, IsEvent
  <2>1. /\ last.id \in Nat /\ last.id <= emitted
        /\ \A e \in events : e.id # last.id
    BY DEF TakenIsGone
  <2>2. ASSUME NEW i \in 1..Len(wire'), IsEvent(wire'[i]) PROVE wire'[i].id # last.id
    <3>1. CASE i = Len(wire) + 1
      BY <1>1, <1>2, <2>1, <2>2, <3>1
    <3>2. CASE i \in 1..Len(wire)
      BY <1>1, <2>2, <3>2 DEF TakenIsGone, IsEvent
    <3> QED
      BY <1>1, <3>1, <3>2
  <2> QED
    BY <1>2, <2>1, <2>2
<1> QED
  BY <1>4, <1>7, <1>8, <1>9 DEF KeptAreNew, KeptOnce, OwnAnswers, Wire!OwnAnswers

(* The head of the wire is read: what stays was sent after it.               *)
LEMMA OneLess ==
  ASSUME WireTypeOK, wire # <<>>
  PROVE  /\ Head(wire) \in Sent /\ Head(wire) = wire[1] /\ 1 \in 1..Len(wire)
         /\ Tail(wire) \in Seq(Sent) /\ Len(Tail(wire)) = Len(wire) - 1 /\ Len(wire) \in Nat
         /\ \A i \in 1..Len(Tail(wire)) : Tail(wire)[i] = wire[i + 1] /\ i + 1 \in 1..Len(wire)
                                          /\ i + 1 # 1
<1>1. wire \in Seq(Sent) /\ Len(wire) \in Nat /\ Len(wire) # 0
  BY DEF WireTypeOK
<1>2. Head(wire) = wire[1] /\ Head(wire) \in Sent /\ Len(Tail(wire)) = Len(wire) - 1
      /\ Tail(wire) \in Seq(Sent)
  BY <1>1
<1>3. \A i \in 1..Len(Tail(wire)) : Tail(wire)[i] = wire[i + 1]
  BY <1>1
<1> QED
  BY <1>1, <1>2, <1>3

(* A message was read, and the event in it kept or taken: nothing is kept    *)
(* but what was, and that event.                                             *)
LEMMA OneRead ==
  ASSUME WireInv, wire # <<>>, wire' = Tail(wire),
         UNCHANGED <<asked, emitted, drained>>, next' \in Nat, call' \in Nat \cup {None},
         navigation' \in {"sent", "stopped", "loaded", "landing", None},
         navigation = None => navigation' = None,
         \/ events' \subseteq events
         \/ IsEvent(Head(wire)) /\ events' \subseteq events \cup {Head(wire)}
  PROVE  /\ WireTypeOK' /\ ReadWereSent' /\ WireIsNew' /\ KeptAreNew' /\ KeptOnce'
         /\ last' = last => TakenIsGone'
<1> DEFINE h == Head(wire)
<1> USE DEF WireInv
<1>1. /\ h \in Sent /\ h = wire[1] /\ 1 \in 1..Len(wire)
      /\ wire' \in Seq(Sent) /\ Len(wire') = Len(wire) - 1 /\ Len(wire) \in Nat
      /\ \A i \in 1..Len(wire') : wire'[i] = wire[i + 1] /\ i + 1 \in 1..Len(wire) /\ i + 1 # 1
  BY OneLess
<1> HIDE DEF h
<1>2. WireTypeOK'
  BY <1>1 DEF WireTypeOK, h
<1>3. events' \subseteq events \/ (IsEvent(h) /\ events' \subseteq events \cup {h})
  BY DEF h
<1>4. ReadWereSent'
  BY <1>1, <1>3 DEF ReadWereSent, IsEvent
<1>5. WireIsNew'
  <2> SUFFICES ASSUME NEW i \in 1..Len(wire'), IsEvent(wire'[i])
               PROVE  /\ wire'[i].id \notin drained'
                      /\ \A e \in events' : e.id # wire'[i].id
                      /\ \A j \in 1..Len(wire') :
                           IsEvent(wire'[j]) /\ wire'[j].id = wire'[i].id => i = j
    BY DEF WireIsNew, IsEvent
  <2>1. wire'[i] = wire[i + 1] /\ i + 1 \in 1..Len(wire) /\ i + 1 # 1 /\ IsEvent(wire[i + 1])
    BY <1>1
  <2>2. wire'[i].id \notin drained' /\ \A e \in events : e.id # wire'[i].id
    BY <2>1 DEF WireIsNew
  <2>3. IsEvent(h) => h.id # wire'[i].id
    BY <1>1, <2>1 DEF WireIsNew, IsEvent
  <2>4. ASSUME NEW j \in 1..Len(wire'), IsEvent(wire'[j]), wire'[j].id = wire'[i].id PROVE i = j
    <3>1. wire'[j] = wire[j + 1] /\ j + 1 \in 1..Len(wire)
      BY <1>1
    <3>2. i + 1 = j + 1
      BY <2>1, <2>4, <3>1 DEF WireIsNew, IsEvent
    <3> QED
      BY <3>2
  <2> QED
    BY <1>3, <2>2, <2>3, <2>4
<1>6. KeptAreNew'
  BY <1>1, <1>3 DEF KeptAreNew, WireIsNew
<1>7. KeptOnce'
  BY <1>1, <1>3 DEF KeptOnce, WireIsNew
<1>8. last' = last => TakenIsGone'
  <2> SUFFICES ASSUME last' = last, last # None, last.how = "event"
               PROVE  /\ last.id \in Nat /\ last.id <= emitted
                      /\ \A e \in events' : e.id # last.id
                      /\ \A i \in 1..Len(wire') : IsEvent(wire'[i]) => wire'[i].id # last.id
    BY DEF TakenIsGone, IsEvent
  <2>1. /\ last.id \in Nat /\ last.id <= emitted /\ \A e \in events : e.id # last.id
        /\ \A i \in 1..Len(wire) : IsEvent(wire[i]) => wire[i].id # last.id
    BY DEF TakenIsGone
  <2> QED
    BY <1>1, <1>3, <2>1 DEF IsEvent
<1> QED
  BY <1>2, <1>4, <1>5, <1>6, <1>7, <1>8

(* Nothing is read, and nothing kept that was not.                           *)
LEMMA NoneRead ==
  ASSUME WireInv, UNCHANGED <<wire, emitted>>, asked' \subseteq Nat, next' \in Nat, call' \in Nat \cup {None},
         navigation' \in {"sent", "stopped", "loaded", "landing", None},
         events' \subseteq events,
         \/ drained' = drained /\ (navigation = None => navigation' = None)
         \/ events' = {} /\ drained' = {e.id : e \in events}
  PROVE  /\ WireTypeOK' /\ ReadWereSent' /\ WireIsNew' /\ KeptAreNew' /\ KeptOnce'
         /\ last' = last => TakenIsGone'
<1> USE DEF WireInv
<1>1. \A n \in drained' : n \in drained \/ \E e \in events : e.id = n
  OBVIOUS
<1>2. \A e \in events : e.id \in Nat
  BY DEF WireTypeOK, Sent
<1>3. WireTypeOK'
  BY <1>1, <1>2 DEF WireTypeOK
<1>4. ReadWereSent'
  BY <1>1 DEF ReadWereSent, IsEvent
<1>5. WireIsNew'
  BY <1>1 DEF WireIsNew, IsEvent
<1>6. KeptAreNew'
  BY DEF KeptAreNew
<1>7. KeptOnce' /\ (last' = last => TakenIsGone')
  BY DEF KeptOnce, TakenIsGone, IsEvent
<1> QED
  BY <1>3, <1>4, <1>5, <1>6, <1>7

(* Every step of the browser and of the session preserves it.                *)
LEMMA WireInvNext ==
  ASSUME WireInv, [Wire!CdpNext]_(Wire!cdpVars) PROVE WireInv'
<1> USE WireAssumption
<1> DEFINE Keeps == /\ WireTypeOK' /\ ReadWereSent' /\ WireIsNew' /\ KeptAreNew' /\ KeptOnce'
                    /\ last' = last => TakenIsGone'
<1>0. next \in Nat /\ next + 1 \in Nat /\ call \in Nat \cup {None} /\ emitted \in Nat
      /\ navigation \in {"sent", "stopped", "loaded", "landing", None}
      /\ asked \subseteq Nat /\ None \notin {"sent", "stopped", "loaded", "landing"}
  BY DEF WireInv, WireTypeOK
<1>00. ASSUME NEW how_ \in {"answered", "mismatched", "timed out", "closed"}, NEW id,
              NEW own, last' = [how |-> how_, id |-> id, own |-> own], how_ = "answered" => id = own
       PROVE  TakenIsGone' /\ OwnAnswers'
  BY <1>00 DEF TakenIsGone, OwnAnswers, Wire!OwnAnswers
<1>1. ASSUME NEW id \in asked, Wire!Answer(id) PROVE WireInv'
  <2>1. [kind |-> "answer", id |-> id] \in Sent /\ ~IsEvent([kind |-> "answer", id |-> id])
    BY <1>0 DEF Sent, IsEvent
  <2>2. asked' \subseteq Nat
    BY <1>0, <1>1 DEF Wire!Answer
  <2> QED
    BY <1>1, <2>1, <2>2, OneMore DEF Wire!Answer
<1>2. ASSUME NEW kind \in Wire!Kinds, Wire!Emit(kind) PROVE WireInv'
  <2>1. [kind |-> kind, id |-> emitted + 1] \in Sent
        /\ IsEvent([kind |-> kind, id |-> emitted + 1])
    BY <1>0 DEF Sent, IsEvent, Wire!Kinds
  <2> QED
    BY <1>0, <1>2, <2>1, OneMore DEF Wire!Emit
<1>3. CASE Wire!Call
  <2>1. Keeps
    BY <1>0, <1>3, NoneRead DEF Wire!Call, Wire!SendText
  <2> QED
    BY <1>3, <2>1 DEF Wire!Call, WireInv, OwnAnswers, Wire!OwnAnswers
<1>4. CASE Wire!ReadCall
  <2> DEFINE h == Head(wire)
  <2>1. wire # <<>> /\ wire' = Tail(wire) /\ UNCHANGED <<next, asked, emitted, drained>>
    BY <1>4 DEF Wire!ReadCall, Wire!RecvText
  <2>2. CASE /\ Wire!Receive(h) /\ Wire!Ended("answered", h.id) /\ call' = None
             /\ navigation' \in IF navigation = "sent" THEN {"stopped", None} ELSE {None}
             /\ UNCHANGED events
    <3>1. navigation' \in {"stopped", None} /\ (navigation = None => navigation' = None)
      BY <1>0, <2>2
    <3>3. Keeps
      BY <1>0, <2>1, <2>2, <3>1, OneRead
    <3>2. TakenIsGone' /\ OwnAnswers'
      BY <1>00, <2>2 DEF Wire!Receive, Wire!Ended
    <3> QED
      BY <3>2, <3>3 DEF WireInv
  <2>3. CASE /\ Wire!Ended("mismatched", h.id) /\ call' = None /\ navigation' = None
             /\ UNCHANGED events
    <3>1. Keeps
      BY <1>0, <2>1, <2>3, OneRead
    <3>2. TakenIsGone' /\ OwnAnswers'
      BY <1>00, <2>3 DEF Wire!Ended
    <3> QED
      BY <3>1, <3>2 DEF WireInv
  <2>4. CASE h.kind # "answer" /\ Wire!Park(h) /\ UNCHANGED <<call, navigation, last>>
    <3>1. IsEvent(h) /\ events' \subseteq events \cup {h}
      BY <2>4 DEF Wire!Park, IsEvent
    <3>2. Keeps
      BY <1>0, <2>1, <2>4, <3>1, OneRead
    <3> QED
      BY <2>1, <2>4, <3>2 DEF WireInv, OwnAnswers, Wire!OwnAnswers
  <2> QED
    BY <1>4, <2>2, <2>3, <2>4 DEF Wire!ReadCall
<1>5. CASE Wire!Navigate
  <2>1. \A e \in events : e.kind \in Wire!Kinds
    BY DEF WireInv, WireTypeOK, ReadWereSent, IsEvent, Sent
  <2>2. events' = {}
    BY <1>5, <2>1 DEF Wire!Navigate, Wire!Drained
  <2>3. Keeps
    BY <1>0, <1>5, <2>2, NoneRead DEF Wire!Navigate, Wire!SendText
  <2>4. UNCHANGED last /\ drained' = {e.id : e \in events}
    BY <1>5 DEF Wire!Navigate
  <2>5. OwnAnswers'
    BY <2>4 DEF WireInv, TakenIsGone, OwnAnswers, Wire!OwnAnswers
  <2> QED
    BY <2>3, <2>4, <2>5 DEF WireInv
<1>6. CASE Wire!WaitKept
  <2> PICK e \in Wire!Kept : /\ events' = events \ {e}
                             /\ last' = [how |-> "event", id |-> e.id, own |-> None]
    BY <1>6 DEF Wire!WaitKept
  <2>1. e \in events /\ navigation \in {"stopped", "loaded"} /\ UNCHANGED drained
    BY <1>6 DEF Wire!WaitKept, Wire!Waits, Wire!Kept, Wire!Kinds
  <2>2. e.id \notin drained /\ e.id \in Nat /\ e.id <= emitted /\ IsEvent(e)
    BY <1>0, <2>1 DEF WireInv, KeptAreNew, WireTypeOK, ReadWereSent, Sent
  <2>3. navigation' \in {"loaded", "landing"}
    BY <1>6 DEF Wire!WaitKept, Wire!NextWait
  <2>4. Keeps
    BY <1>0, <1>6, <2>1, <2>3, NoneRead DEF Wire!WaitKept
  <2>5. UNCHANGED <<wire, emitted, drained>>
    BY <1>6 DEF Wire!WaitKept
  <2>6. TakenIsGone'
    <3>1. last'.how = "event" /\ last'.id = e.id
      OBVIOUS
    <3>2. \A f \in events' : f.id # e.id
      BY <2>1 DEF WireInv, KeptOnce
    <3>3. \A i \in 1..Len(wire) : IsEvent(wire[i]) => wire[i].id # e.id
      BY <2>1, <2>2 DEF WireInv, WireIsNew
    <3> QED
      BY <2>2, <2>5, <3>1, <3>2, <3>3 DEF TakenIsGone, IsEvent
  <2> QED
    BY <2>1, <2>2, <2>4, <2>6 DEF WireInv, OwnAnswers, Wire!OwnAnswers
<1>7. CASE Wire!WaitWire
  <2> DEFINE h == Head(wire)
  <2>1. wire # <<>> /\ wire' = Tail(wire) /\ UNCHANGED <<next, asked, call, emitted, drained>>
    BY <1>7 DEF Wire!WaitWire, Wire!RecvText
  <2>2. navigation \in {"stopped", "loaded"} /\ h = wire[1] /\ 1 \in 1..Len(wire)
    BY <1>7, <2>1, OneLess DEF Wire!WaitWire, Wire!Waits, Wire!Kinds, WireInv
  <2>3. CASE /\ h.kind = navigation /\ navigation' = Wire!NextWait /\ UNCHANGED events
             /\ last' = [how |-> "event", id |-> h.id, own |-> None]
    <3>0. navigation' \in {"loaded", "landing"}
      BY <2>3 DEF Wire!NextWait
    <3>1. Keeps
      BY <1>0, <2>1, <2>2, <2>3, <3>0, OneRead
    <3>2. h.id \notin drained /\ h \in Sent /\ IsEvent(h) /\ h.id <= emitted
      BY <1>0, <2>1, <2>2, <2>3, OneLess DEF WireInv, WireIsNew, ReadWereSent, IsEvent
    <3>3. TakenIsGone'
      <4>1. last'.how = "event" /\ last'.id = h.id /\ h.id \in Nat
        BY <2>3, <3>2 DEF Sent
      <4>2. \A e \in events' : e.id # h.id
        BY <2>2, <2>3, <3>2 DEF WireInv, WireIsNew
      <4>3. ASSUME NEW i \in 1..Len(wire'), IsEvent(wire'[i]) PROVE wire'[i].id # h.id
        <5>1. wire'[i] = wire[i + 1] /\ i + 1 \in 1..Len(wire) /\ i + 1 # 1
          BY <2>1, OneLess DEF WireInv
        <5> QED
          BY <2>2, <3>2, <4>3, <5>1 DEF WireInv, WireIsNew, IsEvent
      <4> QED
        BY <2>1, <3>2, <4>1, <4>2, <4>3 DEF TakenIsGone, IsEvent
    <3> QED
      BY <2>1, <2>3, <3>1, <3>2, <3>3 DEF WireInv, OwnAnswers, Wire!OwnAnswers
  <2>4. CASE navigation' = None /\ Wire!Ended("mismatched", h.id) /\ UNCHANGED events
    <3>1. Keeps
      BY <1>0, <2>1, <2>4, OneRead
    <3>2. TakenIsGone' /\ OwnAnswers'
      BY <1>00, <2>4 DEF Wire!Ended
    <3> QED
      BY <3>1, <3>2 DEF WireInv
  <2>5. CASE h.kind \notin {navigation, "answer"} /\ Wire!Park(h) /\ UNCHANGED <<navigation, last>>
    <3>1. IsEvent(h) /\ events' \subseteq events \cup {h}
      BY <2>5 DEF Wire!Park, IsEvent
    <3>2. Keeps
      BY <1>0, <2>1, <2>5, <3>1, OneRead
    <3> QED
      BY <2>1, <2>5, <3>2 DEF WireInv, OwnAnswers, Wire!OwnAnswers
  <2> QED
    BY <1>7, <2>3, <2>4, <2>5 DEF Wire!WaitWire
<1>8. CASE Wire!Landed
  <2>1. Keeps
    BY <1>0, <1>8, NoneRead DEF Wire!Landed, Wire!SendText
  <2> QED
    BY <1>8, <2>1 DEF Wire!Landed, WireInv, OwnAnswers, Wire!OwnAnswers
<1>9. CASE Wire!TimeOut \/ Wire!Disconnect
  <2>1. Keeps
    BY <1>0, <1>9, NoneRead DEF Wire!TimeOut, Wire!Disconnect
  <2> QED
    BY <1>00, <1>9, <2>1 DEF Wire!TimeOut, Wire!Disconnect, WireInv
<1>10. CASE UNCHANGED Wire!cdpVars
  BY <1>10 DEF Wire!cdpVars, WireInv, WireTypeOK, ReadWereSent, WireIsNew, KeptAreNew,
     KeptOnce, TakenIsGone, IsEvent, OwnAnswers, Wire!OwnAnswers
<1> QED
  BY <1>1, <1>2, <1>3, <1>4, <1>5, <1>6, <1>7, <1>8, <1>9, <1>10 DEF Wire!CdpNext

(* A call to the browser returns the answer to its own request, and a        *)
(* navigation ends by an event that was not read before it began, whatever   *)
(* was given up, dropped or left on the wire before (cdp.rs).                *)
THEOREM EachItsOwnAnswer == Wire!CdpSpec => []OwnAnswers
<1>1. Wire!CdpInit => WireInv
  BY WireInvInit
<1>2. WireInv /\ [Wire!CdpNext]_(Wire!cdpVars) => WireInv'
  BY WireInvNext
<1>3. WireInv => OwnAnswers
  BY DEF WireInv
<1> QED
  BY <1>1, <1>2, <1>3, PTL DEF Wire!CdpSpec

-----------------------------------------------------------------------------
(* The browsers: a page that is listed carries the tags of the last listing  *)
(* made of it, and the listings of one process have numbers that rise.       *)
Acts == [tool : {"browser_open", "browser_click", "browser_fill"}, ref : Nat \cup {None},
         hit : Elements \cup {None}, at : {"started", "checked", "observe"}]
Sheets == [first : Elements, listing : Nat \cup {None}, tagged : Elements \cup {None}]
Listings == [number : Nat, element : Elements, process : Nat]

BrowserTypeOK ==
    /\ session \in [Conversations -> Browser!Pages \cup {None}]
    /\ act \in [Conversations -> Acts \cup {None}]
    /\ page \in [Browser!Pages -> Sheets]
    /\ listings \in Nat /\ started \in Nat /\ listed \in [1..listings -> Listings]

TagsAreListed == \A p \in Browser!Pages : page[p].listing # None =>
    /\ page[p].listing \in 1..listings
    /\ page[p].tagged = listed[page[p].listing].element
ActsOnPages == \A c \in Conversations : act[c] # None => session[c] \in Browser!Pages
RefsAreListed == \A c \in Conversations :
    act[c] # None /\ act[c].ref # None => act[c].ref \in 1..listings
(* A process is known by the listings made before it.                        *)
NumbersRise ==
    /\ started <= listings /\ (started < listings => listed[listings].process = started)
    /\ \A n \in 1..listings : listed[n].process < n
    /\ \A m, n \in 1..listings : m < n /\ listed[m].process = listed[n].process =>
           listed[m].number < listed[n].number

BrowserInv == BrowserTypeOK /\ TagsAreListed /\ ActsOnPages /\ RefsAreListed /\ NumbersRise
              /\ ClicksListed

(* No page is listed and nothing is under way at first.                      *)
LEMMA BrowserInvInit == ASSUME Browser!BrowserInit PROVE BrowserInv
<1>1. PICK e \in Elements : page = [p \in Browser!Pages |-> Browser!Untagged(e)]
  BY DEF Browser!BrowserInit
<1>2. listings = 0 /\ started = 0 /\ 1..listings = {} /\ listed = << >> /\ DOMAIN listed = {}
  BY DEF Browser!BrowserInit
<1>3. listed \in [1..listings -> Listings]
  BY <1>2
<1>4. page \in [Browser!Pages -> Sheets] /\ TagsAreListed
  BY <1>1 DEF Browser!Untagged, Sheets, TagsAreListed
<1>5. NumbersRise
  BY <1>2 DEF NumbersRise
<1>6. BrowserTypeOK
  BY <1>2, <1>3, <1>4 DEF Browser!BrowserInit, BrowserTypeOK
<1> QED
  BY <1>4, <1>5, <1>6
  DEF Browser!BrowserInit, BrowserInv, ActsOnPages, RefsAreListed, ClicksListed,
      Browser!ClicksListed

(* What was listed stays listed, and what a number means besides.            *)
ListedGrows ==
    /\ 1..listings \subseteq 1..listings'
    /\ listed \in [1..listings -> Listings] /\ listed' \in [1..listings' -> Listings]
    /\ \A i \in 1..listings : listed'[i] = listed[i]

(* A page is listed: what the tags of the others name is unchanged.          *)
LEMMA ListingKeeps ==
  ASSUME BrowserInv, NEW p \in Browser!Pages, Browser!List(p)
  PROVE  /\ page' \in [Browser!Pages -> Sheets] /\ TagsAreListed'
         /\ listings' \in Nat /\ started' \in Nat
         /\ listed' \in [1..listings' -> Listings]
         /\ ListedGrows /\ NumbersRise'
<1> USE WireAssumption DEF BrowserInv
<1> DEFINE n == listings + 1
<1>1. /\ listings \in Nat /\ n \in Nat /\ n \notin 1..listings /\ n \in 1..n
      /\ 1..n = (1..listings) \cup {n} /\ listings' = n
      /\ listed \in [1..listings -> Listings] /\ page \in [Browser!Pages -> Sheets]
      /\ started \in Nat /\ started' = started
  BY DEF BrowserTypeOK, Browser!List
<1> HIDE DEF n
<1>12. page' = [page EXCEPT ![p] = [page[p] EXCEPT !.listing = n, !.tagged = page[p].first]]
  BY <1>1 DEF Browser!List
<1>2. PICK number \in Browser!NextSnapshots : listed' = [i \in 1..n |->
        IF i = n THEN [number |-> number, element |-> page[p].first, process |-> started]
        ELSE listed[i]]
  BY <1>1 DEF Browser!List
\* the number is above those of the process
<1>3. number \in Nat /\ \A m \in 1..listings :
        listed[m].process = started => listed[m].number < number
  <2>1. CASE listings = started
    <3>1. number \in Nat
      BY <1>2, <2>1, BrowserAssumption DEF Browser!NextSnapshots
    <3>2. \A m \in 1..listings : listed[m].process \in Nat /\ listed[m].process < m
      BY <1>1 DEF NumbersRise, Listings
    <3> QED
      BY <1>1, <2>1, <3>1, <3>2
  <2>2. CASE listings # started
    <3>1. started < listings /\ listings \in 1..listings /\ listed[listings].process = started
      BY <1>1, <2>2 DEF NumbersRise
    <3>2. number = listed[listings].number + 1
      BY <1>2, <2>2 DEF Browser!NextSnapshots
    <3>3. \A m \in 1..listings : listed[m].number \in Nat
      BY <1>1 DEF Listings
    <3>4. ASSUME NEW m \in 1..listings, listed[m].process = started
          PROVE  listed[m].number <= listed[listings].number
      <4>1. CASE m = listings
        BY <3>1, <3>3, <4>1
      <4>2. CASE m # listings
        <5>1. m < listings
          BY <1>1, <4>2
        <5>2. listed[m].number < listed[listings].number
          BY <3>1, <3>4, <5>1 DEF NumbersRise
        <5> QED
          BY <3>1, <3>3, <5>2
      <4> QED
        BY <4>1, <4>2
    <3> QED
      BY <3>1, <3>2, <3>3, <3>4
  <2> QED
    BY <2>1, <2>2
<1> DEFINE sheet == [page[p] EXCEPT !.listing = n, !.tagged = page[p].first]
           it == [number |-> number, element |-> page[p].first, process |-> started]
<1>4. /\ sheet \in Sheets /\ sheet.listing = n /\ sheet.tagged = page[p].first
      /\ page[p].first \in Elements
  <2>1. page[p] \in Sheets
    BY <1>1
  <2> QED
    BY <1>1, <2>1 DEF Sheets
<1>5. it \in Listings /\ it.number = number /\ it.element = page[p].first /\ it.process = started
  BY <1>1, <1>3, <1>4 DEF Listings
<1> HIDE DEF sheet, it
<1>6. page' \in [Browser!Pages -> Sheets]
      /\ \A q \in Browser!Pages : page'[q] = IF q = p THEN sheet ELSE page[q]
  BY <1>1, <1>12, <1>4 DEF sheet
<1>7. listed' = [i \in 1..n |-> IF i = n THEN it ELSE listed[i]]
  BY <1>2 DEF it
<1>8. /\ listed' \in [1..n -> Listings] /\ listed'[n] = it
      /\ \A i \in 1..listings : listed'[i] = listed[i]
  BY <1>1, <1>5, <1>7
<1>9. TagsAreListed'
  <2> SUFFICES ASSUME NEW q \in Browser!Pages, page'[q].listing # None
               PROVE  /\ page'[q].listing \in 1..n
                      /\ page'[q].tagged = listed'[page'[q].listing].element
    BY <1>1 DEF TagsAreListed
  <2>1. CASE q = p
    BY <1>1, <1>4, <1>5, <1>6, <1>8, <2>1
  <2>2. CASE q # p
    <3>1. page'[q] = page[q] /\ page[q].listing \in 1..listings
          /\ page[q].tagged = listed[page[q].listing].element
      BY <1>6, <2>2 DEF TagsAreListed
    <3> QED
      BY <1>1, <1>8, <3>1
  <2> QED
    BY <2>1, <2>2
<1>10. NumbersRise'
  <2>1. started' <= listings' /\ listed'[listings'].process = started'
    BY <1>1, <1>5, <1>8 DEF NumbersRise
  <2>2. \A i \in 1..n : listed'[i].process < i
    <3>1. started < n
      BY <1>1 DEF NumbersRise, n
    <3> QED
      BY <1>1, <1>5, <1>8, <3>1 DEF NumbersRise
  <2>3. ASSUME NEW i \in 1..n, NEW j \in 1..n, i < j, listed'[i].process = listed'[j].process
        PROVE  listed'[i].number < listed'[j].number
    <3>1. i \in 1..listings
      BY <1>1, <2>3 DEF n
    <3>2. CASE j = n
      <4>1. listed[i].process = started
        BY <1>5, <1>8, <2>3, <3>1, <3>2
      <4> QED
        BY <1>3, <1>5, <1>8, <3>1, <3>2, <4>1
    <3>3. CASE j # n
      <4>1. j \in 1..listings
        BY <1>1, <3>3
      <4>2. listed[i].process = listed[j].process
        BY <1>8, <2>3, <3>1, <4>1
      <4>3. listed[i].number < listed[j].number
        BY <2>3, <3>1, <4>1, <4>2 DEF NumbersRise
      <4> QED
        BY <1>8, <3>1, <4>1, <4>3
    <3> QED
      BY <3>2, <3>3
  <2> QED
    BY <1>1, <2>1, <2>2, <2>3 DEF NumbersRise
<1>11. ListedGrows
  BY <1>1, <1>8 DEF ListedGrows
<1> QED
  BY <1>1, <1>6, <1>8, <1>9, <1>10, <1>11

(* The rest of the state is the same, or less of it.                         *)
LEMMA PageKeeps ==
  ASSUME BrowserInv, NEW p \in Browser!Pages, NEW s \in Sheets,
         page' = [page EXCEPT ![p] = s], UNCHANGED <<listings, listed>>,
         \/ s.listing = None
         \/ s.listing = page[p].listing /\ s.tagged = page[p].tagged
  PROVE  page' \in [Browser!Pages -> Sheets] /\ TagsAreListed'
  BY DEF BrowserInv, BrowserTypeOK, TagsAreListed

(* A number that another process gave again stays so.                        *)
LEMMA Recurred ==
  ASSUME ListedGrows, NEW n \in 1..listings
  PROVE  listed'[n].element = listed[n].element /\ (Browser!Recurs(n) => Browser!Recurs(n)')
<1>1. DOMAIN listed = 1..listings /\ DOMAIN listed' = 1..listings'
  BY DEF ListedGrows
<1> QED
  BY <1>1 DEF ListedGrows, Browser!Recurs

(* What a call has touched, if it is a click.                                *)
Touched(a) == a # None /\ a.tool = "browser_click" /\ a.ref # None /\ a.hit # None =>
    a.hit = listed[a.ref].element \/ Browser!Recurs(a.ref)

LEMMA ClicksTouched == ClicksListed <=> \A c \in Conversations : Touched(act[c])
  BY DEF ClicksListed, Browser!ClicksListed, Browser!HitsListed, Touched

(* A step of one conversation's click, fill or observation, which may list.  *)
LEMMA ActKeeps ==
  ASSUME BrowserInv, NEW c \in Conversations, NEW a \in Acts \cup {None},
         act' = [act EXCEPT ![c] = a], UNCHANGED session,
         a # None => session[c] \in Browser!Pages,
         a # None /\ a.ref # None => a.ref \in 1..listings,
         Touched(a), ListedGrows
  PROVE  act' \in [Conversations -> Acts \cup {None}] /\ ActsOnPages' /\ RefsAreListed'
         /\ ClicksListed'
<1>1. act \in [Conversations -> Acts \cup {None}]
  BY DEF BrowserInv, BrowserTypeOK
<1>2. act' \in [Conversations -> Acts \cup {None}]
      /\ \A d \in Conversations : act'[d] = IF d = c THEN a ELSE act[d]
  BY <1>1
<1>3. ActsOnPages'
  BY <1>2 DEF BrowserInv, ActsOnPages
<1>4. RefsAreListed'
  BY <1>2 DEF BrowserInv, RefsAreListed, ListedGrows
<1>5. ASSUME NEW d \in Conversations PROVE Touched(act[d])'
  <2>1. Touched(act'[d])
    BY <1>2, ClicksTouched DEF BrowserInv
  <2>2. act'[d] # None /\ act'[d].ref # None => act'[d].ref \in 1..listings
    BY <1>2 DEF BrowserInv, RefsAreListed
  <2> QED
    BY <2>1, <2>2, Recurred DEF Touched
<1>6. ClicksListed'
  BY <1>5 DEF ClicksListed, Browser!ClicksListed, Browser!HitsListed, Touched
<1> QED
  BY <1>2, <1>3, <1>4, <1>6

(* Every step of the browsers preserves the invariant.                       *)
LEMMA BrowserInvNext ==
  ASSUME BrowserInv, [Browser!BrowserNext]_(Browser!browserVars) PROVE BrowserInv'
<1> USE WireAssumption, BrowserAssumption DEF Browser!numbering
<1>0. /\ session \in [Conversations -> Browser!Pages \cup {None}]
      /\ act \in [Conversations -> Acts \cup {None}]
      /\ page \in [Browser!Pages -> Sheets] /\ listings \in Nat /\ started \in Nat
      /\ listed \in [1..listings -> Listings]
  BY DEF BrowserInv, BrowserTypeOK
<1>1. ASSUME NEW e \in Elements PROVE Browser!Untagged(e) \in Sheets
      /\ Browser!Untagged(e).listing = None
  BY DEF Browser!Untagged, Sheets
<1>2. ASSUME NEW p \in Browser!Pages PROVE page[p] \in Sheets /\ page[p].first \in Elements
  BY <1>0 DEF Sheets
\* what a step that lists nothing and touches nothing keeps
<1>20. ASSUME UNCHANGED Browser!numbering
       PROVE  /\ ListedGrows /\ NumbersRise'
              /\ listings' \in Nat /\ started' \in Nat /\ listed' \in [1..listings' -> Listings]
              /\ UNCHANGED act => ClicksListed' /\ RefsAreListed'
  BY <1>0, <1>20 DEF ListedGrows, NumbersRise, BrowserInv, RefsAreListed, ClicksListed,
     Browser!ClicksListed, Browser!HitsListed, Browser!Recurs
<1>21. /\ Browser!Observing \in Acts /\ Browser!Observing.ref = None
       /\ Touched(Browser!Observing) /\ Touched(None)
  BY DEF Browser!Observing, Acts, Touched
<1>3. ASSUME NEW c \in Conversations, NEW p \in Browser!Pages, Browser!Launch(c, p) PROVE BrowserInv'
  <2>1. session' \in [Conversations -> Browser!Pages \cup {None}]
        /\ UNCHANGED <<act, Browser!numbering, changes>>
    BY <1>0, <1>3 DEF Browser!Launch
  <2>2. ActsOnPages'
    BY <1>0, <1>3 DEF Browser!Launch, BrowserInv, ActsOnPages
  <2>3. page' \in [Browser!Pages -> Sheets] /\ TagsAreListed'
    <3>1. CASE p = c
      <4>1. page' = [page EXCEPT ![p] = Browser!Untagged(page[p].first)]
        BY <1>3, <3>1 DEF Browser!Launch
      <4> QED
        BY <1>1, <1>2, <2>1, <4>1, PageKeeps
    <3>2. CASE p # c
      BY <1>0, <1>3, <2>1, <3>2 DEF Browser!Launch, BrowserInv, TagsAreListed
    <3> QED
      BY <3>1, <3>2
  <2> QED
    BY <1>0, <1>20, <2>1, <2>2, <2>3 DEF BrowserInv, BrowserTypeOK
<1>4. ASSUME NEW c \in Conversations, Browser!CloseBrowser(c) PROVE BrowserInv'
  <2>1. /\ session' \in [Conversations -> Browser!Pages \cup {None}] /\ act[c] = None
        /\ \A d \in Conversations : d # c => session'[d] = session[d]
    BY <1>0, <1>4 DEF Browser!CloseBrowser
  <2>3. /\ act' = act /\ page' = page /\ listings' = listings /\ started' = started
        /\ listed' = listed /\ UNCHANGED Browser!numbering
    BY <1>4 DEF Browser!CloseBrowser
  <2>4. ActsOnPages'
    BY <2>1, <2>3 DEF BrowserInv, ActsOnPages
  <2>5. TagsAreListed'
    BY <2>3 DEF BrowserInv, TagsAreListed
  <2>6. ClicksListed' /\ RefsAreListed' /\ NumbersRise'
    BY <1>20, <2>3
  <2>7. BrowserTypeOK'
    BY <1>0, <2>1, <2>3 DEF BrowserTypeOK
  <2> QED
    BY <2>4, <2>5, <2>6, <2>7 DEF BrowserInv
<1>5. ASSUME NEW c \in Conversations, NEW e \in Elements, Browser!OpenPage(c, e) PROVE BrowserInv'
  <2>2. act' = [act EXCEPT ![c] = Browser!Observing]
        /\ UNCHANGED <<session, Browser!numbering>> /\ session[c] \in Browser!Pages
        /\ page' = [page EXCEPT ![session[c]] = Browser!Untagged(e)]
    BY <1>0, <1>5 DEF Browser!OpenPage
  <2>3. act' \in [Conversations -> Acts \cup {None}] /\ ActsOnPages' /\ RefsAreListed'
        /\ ClicksListed'
    BY <1>20, <1>21, <2>2, ActKeeps
  <2>4. page' \in [Browser!Pages -> Sheets] /\ TagsAreListed'
    BY <1>1, <2>2, PageKeeps
  <2> QED
    BY <1>0, <1>20, <2>2, <2>3, <2>4 DEF BrowserInv, BrowserTypeOK
<1>6. ASSUME NEW c \in Conversations, Browser!ReadPage(c) PROVE BrowserInv'
  <2>1. session[c] \in Browser!Pages /\ Browser!List(session[c]) /\ UNCHANGED <<session, act, changes>>
    BY <1>0, <1>6 DEF Browser!ReadPage
  <2>2. /\ page' \in [Browser!Pages -> Sheets] /\ TagsAreListed'
        /\ listings' \in Nat /\ started' \in Nat
        /\ listed' \in [1..listings' -> Listings] /\ ListedGrows /\ NumbersRise'
    BY <2>1, ListingKeeps
  <2>3. act' = [act EXCEPT ![c] = act[c]] /\ act[c] \in Acts \cup {None}
    BY <1>0, <2>1
  <2>4. act[c] # None /\ act[c].ref # None => act[c].ref \in 1..listings
    BY DEF BrowserInv, RefsAreListed
  <2>5. Touched(act[c])
    BY ClicksTouched DEF BrowserInv
  <2>6. act' \in [Conversations -> Acts \cup {None}] /\ ActsOnPages' /\ RefsAreListed'
        /\ ClicksListed'
    BY <2>1, <2>2, <2>3, <2>4, <2>5, ActKeeps
  <2> QED
    BY <1>0, <2>1, <2>2, <2>6 DEF BrowserInv, BrowserTypeOK
<1>7. ASSUME NEW c \in Conversations, NEW a \in Acts \cup {None}, act' = [act EXCEPT ![c] = a],
             UNCHANGED <<session, page, Browser!numbering, changes>>,
             session[c] \in Browser!Pages,
             a # None /\ a.ref # None => a.ref \in 1..listings, Touched(a)
      PROVE  BrowserInv'
  <2>1. act' \in [Conversations -> Acts \cup {None}] /\ ActsOnPages' /\ RefsAreListed'
        /\ ClicksListed'
    BY <1>7, <1>20, ActKeeps
  <2>2. TagsAreListed'
    BY <1>7 DEF BrowserInv, TagsAreListed
  <2> QED
    BY <1>0, <1>7, <1>20, <2>1, <2>2 DEF BrowserInv, BrowserTypeOK
<1>8. ASSUME NEW c \in Conversations, NEW tool_ \in {"browser_click", "browser_fill"},
             NEW ref_ \in DOMAIN listed \cup {None}, Browser!Begin(c, tool_, ref_)
      PROVE  BrowserInv'
  <2> DEFINE a == [tool |-> tool_, ref |-> ref_, hit |-> None, at |-> "started"]
  <2>1. ref_ # None => ref_ \in 1..listings
    BY <1>0
  <2>2. a \in Acts /\ a.ref = ref_ /\ Touched(a)
    BY <1>0, <2>1 DEF Acts, Touched
  <2>3. act' = [act EXCEPT ![c] = a] /\ session[c] \in Browser!Pages
        /\ UNCHANGED <<session, page, Browser!numbering, changes>>
    BY <1>0, <1>8 DEF Browser!Begin
  <2> HIDE DEF a
  <2> QED
    BY <1>7, <2>1, <2>2, <2>3
<1>9. ASSUME NEW c \in Conversations, act[c] # None
      PROVE  /\ act[c] \in Acts /\ session[c] \in Browser!Pages
             /\ act[c].ref # None => act[c].ref \in 1..listings
  BY <1>0, <1>9 DEF BrowserInv, ActsOnPages, RefsAreListed
\* a call that touches what is tagged now
<1>22. ASSUME NEW c \in Conversations, act[c] # None, Browser!Touch(c),
              UNCHANGED <<session, page, Browser!numbering, changes>>,
              act[c].tool = "browser_click" => Browser!FreshRef(c)
       PROVE  BrowserInv'
  <2> DEFINE hit == page[session[c]].tagged
             a == [act[c] EXCEPT !.hit = hit, !.at = "observe"]
  <2>1. act[c] \in Acts /\ session[c] \in Browser!Pages
        /\ (act[c].ref # None => act[c].ref \in 1..listings)
    BY <1>9, <1>22
  <2>2. hit \in Elements \cup {None}
    BY <1>2, <2>1 DEF Sheets
  <2>3. CASE hit = None
    <3>1. act' = [act EXCEPT ![c] = Browser!Observing]
      BY <1>22, <2>3 DEF Browser!Touch
    <3> QED
      BY <1>7, <1>21, <1>22, <2>1, <3>1
  <2>4. CASE hit # None
    <3>1. act' = [act EXCEPT ![c] = a]
      BY <1>22, <2>4 DEF Browser!Touch
    <3>2. a \in Acts /\ a.tool = act[c].tool /\ a.ref = act[c].ref /\ a.hit = hit
      BY <2>1, <2>2 DEF Acts
    <3>3. ASSUME act[c].tool = "browser_click", act[c].ref # None
          PROVE  hit = listed[act[c].ref].element \/ Browser!Recurs(act[c].ref)
      <4> DEFINE m == page[session[c]].listing  n == act[c].ref
      <4>1. m # None /\ listed[m].number = listed[n].number
        BY <1>22, <3>3 DEF Browser!FreshRef
      <4>2. m \in 1..listings /\ hit = listed[m].element /\ n \in 1..listings
        BY <2>1, <3>3, <4>1 DEF BrowserInv, TagsAreListed
      <4> HIDE DEF m, n, hit
      <4>3. CASE listed[m].process # listed[n].process
        <5>1. Browser!Recurs(n)
          BY <1>0, <4>1, <4>2, <4>3 DEF Browser!Recurs
        <5> QED
          BY <5>1 DEF n
      \* the numbers of one process differ
      <4>4. CASE listed[m].process = listed[n].process
        <5>1. listed[m].number \in Nat
          BY <1>0, <4>2 DEF Listings
        <5>2. ~(m < n) /\ ~(n < m)
          BY <4>1, <4>2, <4>4, <5>1 DEF BrowserInv, NumbersRise
        <5>3. m = n
          BY <1>0, <4>2, <5>2
        <5> QED
          BY <4>2, <5>3 DEF n
      <4> QED
        BY <4>3, <4>4
    <3>4. Touched(a)
      BY <3>2, <3>3 DEF Touched
    <3> HIDE DEF a
    <3> QED
      BY <1>7, <1>22, <2>1, <3>1, <3>2, <3>4
  <2> QED
    BY <2>3, <2>4
<1>23. ASSUME NEW c \in Conversations, act[c] # None, Browser!Refused(c),
              UNCHANGED <<session, page, Browser!numbering, changes>>
       PROVE  BrowserInv'
  BY <1>7, <1>9, <1>21, <1>23 DEF Browser!Refused
<1>10. ASSUME NEW c \in Conversations, Browser!Click(c) PROVE BrowserInv'
  <2>1. act[c] # None /\ UNCHANGED <<session, page, Browser!numbering, changes>>
        /\ IF Browser!FreshRef(c) THEN Browser!Touch(c) ELSE Browser!Refused(c)
    BY <1>10 DEF Browser!Click, Browser!At
  <2> QED
    BY <1>22, <1>23, <2>1
<1>11. ASSUME NEW c \in Conversations, Browser!CheckFill(c) PROVE BrowserInv'
  <2>1. act[c] # None /\ act[c].tool = "browser_fill"
        /\ UNCHANGED <<session, page, Browser!numbering, changes>>
    BY <1>11 DEF Browser!CheckFill, Browser!At
  <2>2. CASE ~Browser!FreshRef(c)
    BY <1>11, <1>23, <2>1, <2>2 DEF Browser!CheckFill
  <2>3. CASE Browser!FreshRef(c)
    <3> DEFINE a == [act[c] EXCEPT !.at = "checked"]
    <3>1. act[c] \in Acts /\ session[c] \in Browser!Pages
          /\ (act[c].ref # None => act[c].ref \in 1..listings)
      BY <1>9, <2>1
    <3>2. a \in Acts /\ a.tool = "browser_fill" /\ a.ref = act[c].ref
      BY <2>1, <3>1 DEF Acts
    <3>3. act' = [act EXCEPT ![c] = a]
      BY <1>11, <2>3 DEF Browser!CheckFill
    <3>4. Touched(a)
      BY <3>2 DEF Touched
    <3> HIDE DEF a
    <3> QED
      BY <1>7, <2>1, <3>1, <3>2, <3>3, <3>4
  <2> QED
    BY <2>2, <2>3
<1>12. ASSUME NEW c \in Conversations, Browser!Fill(c) PROVE BrowserInv'
  <2>1. act[c] # None /\ act[c].tool = "browser_fill" /\ Browser!Touch(c)
        /\ UNCHANGED <<session, page, Browser!numbering, changes>>
    BY <1>12 DEF Browser!Fill, Browser!At
  <2> QED
    BY <1>22, <2>1
<1>13. ASSUME NEW c \in Conversations, Browser!Observe(c) PROVE BrowserInv'
  <2>1. act[c] # None /\ session[c] \in Browser!Pages /\ Browser!List(session[c])
        /\ act' = [act EXCEPT ![c] = None] /\ UNCHANGED <<session, changes>>
    BY <1>13 DEF Browser!Observe, BrowserInv, ActsOnPages
  <2>2. /\ page' \in [Browser!Pages -> Sheets] /\ TagsAreListed'
        /\ listings' \in Nat /\ started' \in Nat
        /\ listed' \in [1..listings' -> Listings] /\ ListedGrows /\ NumbersRise'
    BY <2>1, ListingKeeps
  <2>3. act' \in [Conversations -> Acts \cup {None}] /\ ActsOnPages' /\ RefsAreListed'
        /\ ClicksListed'
    BY <1>21, <2>1, <2>2, ActKeeps
  <2> QED
    BY <1>0, <2>1, <2>2, <2>3 DEF BrowserInv, BrowserTypeOK
<1>14. ASSUME NEW c \in Conversations, Browser!Unobserved(c) PROVE BrowserInv'
  <2>1. act[c] # None /\ act' = [act EXCEPT ![c] = None]
        /\ UNCHANGED <<session, page, Browser!numbering, changes>>
    BY <1>14 DEF Browser!Unobserved
  <2> QED
    BY <1>7, <1>9, <1>21, <2>1
<1>15. ASSUME NEW p \in Browser!Pages, NEW e \in Elements, NEW whole \in BOOLEAN,
              Browser!Change(p, e, whole)
       PROVE  BrowserInv'
  <2>1. UNCHANGED <<session, act, Browser!numbering>>
    BY <1>15 DEF Browser!Change
  <2>2. page' \in [Browser!Pages -> Sheets] /\ TagsAreListed'
    <3>1. CASE whole
      <4>1. page' = [page EXCEPT ![p] = Browser!Untagged(e)]
        BY <1>15, <3>1 DEF Browser!Change
      <4> QED
        BY <1>1, <2>1, <4>1, PageKeeps
    <3>2. CASE ~whole
      <4>1. page' = [page EXCEPT ![p] = [page[p] EXCEPT !.first = e]]
        BY <1>15, <3>2 DEF Browser!Change
      <4>2. /\ [page[p] EXCEPT !.first = e] \in Sheets
            /\ [page[p] EXCEPT !.first = e].listing = page[p].listing
            /\ [page[p] EXCEPT !.first = e].tagged = page[p].tagged
        BY <1>2 DEF Sheets
      <4> QED
        BY <2>1, <4>1, <4>2, PageKeeps
    <3> QED
      BY <3>1, <3>2
  <2>3. ActsOnPages'
    BY <2>1 DEF BrowserInv, ActsOnPages
  <2> QED
    BY <1>0, <1>20, <2>1, <2>2, <2>3 DEF BrowserInv, BrowserTypeOK
<1>16. CASE Browser!RestartBrowsers
  <2>1. /\ session' = [c \in Conversations |-> None] /\ act' = [c \in Conversations |-> None]
        /\ started' = listings /\ UNCHANGED <<page, listings, listed>>
    BY <1>16 DEF Browser!RestartBrowsers
  <2>2. NumbersRise'
    BY <1>0, <2>1 DEF BrowserInv, NumbersRise
  <2>3. TagsAreListed' /\ ActsOnPages' /\ RefsAreListed'
    BY <2>1 DEF BrowserInv, TagsAreListed, ActsOnPages, RefsAreListed
  <2>4. ClicksListed'
    BY <2>1 DEF ClicksListed, Browser!ClicksListed
  <2> QED
    BY <1>0, <2>1, <2>2, <2>3, <2>4 DEF BrowserInv, BrowserTypeOK
<1>17. CASE UNCHANGED Browser!browserVars
  <2>1. UNCHANGED <<session, act, page, Browser!numbering, changes>>
    BY <1>17 DEF Browser!browserVars
  <2>2. TagsAreListed' /\ ActsOnPages'
    BY <2>1 DEF BrowserInv, TagsAreListed, ActsOnPages
  <2> QED
    BY <1>0, <1>20, <2>1, <2>2 DEF BrowserInv, BrowserTypeOK
<1> QED
  BY <1>3, <1>4, <1>5, <1>6, <1>8, <1>10, <1>11, <1>12, <1>13, <1>14, <1>15, <1>16, <1>17
  DEF Browser!BrowserNext

(* A click by a numbered reference touches the element its listing named, or *)
(* none, unless a restart gave the number again, however many conversations  *)
(* list one page in turn, though pages change, browsers close and the        *)
(* runtime restarts (browser_tools.rs).                                      *)
THEOREM ClicksHitTheirRef == Browser!BrowserSpec => []ClicksListed
<1>1. Browser!BrowserInit => BrowserInv
  BY BrowserInvInit
<1>2. BrowserInv /\ [Browser!BrowserNext]_(Browser!browserVars) => BrowserInv'
  BY BrowserInvNext
<1>3. BrowserInv => ClicksListed
  BY DEF BrowserInv
<1> QED
  BY <1>1, <1>2, <1>3, PTL DEF Browser!BrowserSpec

-----------------------------------------------------------------------------
(* The desktop: a helper works on the operation that its conversation has on *)
(* record, and no two operations have one number.                            *)
Ops == [op : Nat, kind : Desktop!Kinds, target : Nat \cup {None}]
Helpers == [op : Nat, kind : Desktop!Kinds, phase : {"checks", "written", "input"}]
OpenOps == {pending[c].op : c \in {d \in Conversations : pending[d] # None}}

DesktopTypeOK ==
    /\ pending \in [Conversations -> Ops \cup {None}]
    /\ helper \in [Conversations -> Helpers \cup {None}]
    /\ orphans \in SUBSET Helpers /\ seen \in [Conversations -> Nat \cup {None}]
    /\ screen \in [process : Nat, shows : Nat \cup {None}] /\ inputs \in Nat

OpsAreNumbered ==
    /\ \A c \in Conversations : pending[c] # None => pending[c].op <= inputs
    /\ \A c, d \in Conversations : pending[c] # None /\ pending[d] # None
                                   /\ pending[c].op = pending[d].op => c = d
    /\ \A h \in orphans : h.op <= inputs
    /\ \A n \in applied : n \in Nat /\ n <= inputs
HelpersOnRecord == \A c \in Conversations : helper[c] # None =>
    /\ pending[c] # None /\ pending[c].op = helper[c].op /\ pending[c].kind = helper[c].kind
    /\ helper[c].phase = "checks" => helper[c].op \notin applied
    /\ helper[c].kind \in Desktop!Reads => helper[c].phase = "checks"
    /\ \A h \in orphans : h.op # helper[c].op
(* What an orphan may still do is on record, or was told.                    *)
OrphansOnRecord == \A h \in orphans : h.kind \notin Desktop!Reads => h.op \in reported \cup OpenOps

DesktopInv == DesktopTypeOK /\ OpsAreNumbered /\ HelpersOnRecord /\ OrphansOnRecord
              /\ InputAccounted

(* Nothing is on record at first.                                            *)
LEMMA DesktopInvInit == ASSUME Desktop!DesktopInit PROVE DesktopInv
  BY DEF Desktop!DesktopInit, Desktop!Everyone, DesktopInv, DesktopTypeOK, OpsAreNumbered,
     HelpersOnRecord, OrphansOnRecord, InputAccounted, Desktop!InputAccounted

(* What is on record is on record.                                           *)
LEMMA OpenOp ==
  ASSUME NEW n PROVE n \in OpenOps <=> \E c \in Conversations : pending[c] # None /\ pending[c].op = n
  BY DEF OpenOps
(* An input is accounted for as long as its number is.                       *)
LEMMA Accounts == InputAccounted <=> \A n \in applied : n \in reported \cup unsure \/ n \in OpenOps
  BY DEF InputAccounted, Desktop!InputAccounted, OpenOps

(* A step that leaves what is on record, and the helpers, as they are.       *)
LEMMA RecordKept ==
  ASSUME DesktopInv, UNCHANGED <<pending, helper, orphans, inputs, applied, reported, unsure>>,
         seen' \in [Conversations -> Nat \cup {None}],
         screen' \in [process : Nat, shows : Nat \cup {None}]
  PROVE  DesktopInv'
  BY DEF DesktopInv, DesktopTypeOK, OpsAreNumbered, HelpersOnRecord, OrphansOnRecord,
     InputAccounted, Desktop!InputAccounted, OpenOps

(* A conversation's record goes and is told, or was never used by anybody,   *)
(* or the helper gave it up.                                                 *)
LEMMA RecordCleared ==
  ASSUME DesktopInv, NEW c \in Conversations, pending[c] # None,
         pending' = [pending EXCEPT ![c] = None],
         helper' = [helper EXCEPT ![c] = None],
         UNCHANGED <<orphans, inputs, applied>>, unsure \subseteq unsure',
         seen' \in [Conversations -> Nat \cup {None}],
         screen' \in [process : Nat, shows : Nat \cup {None}],
         \/ reported' = reported \cup {pending[c].op}
         \/ /\ reported' = reported /\ (pending[c].op \in applied => pending[c].op \in unsure')
            /\ \A h \in orphans : h.op # pending[c].op
  PROVE  DesktopInv'
<1> USE DEF DesktopInv
<1>1. /\ pending' \in [Conversations -> Ops \cup {None}]
      /\ helper' \in [Conversations -> Helpers \cup {None}]
      /\ \A d \in Conversations : pending'[d] = IF d = c THEN None ELSE pending[d]
      /\ \A d \in Conversations : helper'[d] = IF d = c THEN None ELSE helper[d]
  BY DEF DesktopTypeOK
<1>2. DesktopTypeOK'
  BY <1>1 DEF DesktopTypeOK
<1>3. OpsAreNumbered'
  BY <1>1 DEF OpsAreNumbered
<1>4. HelpersOnRecord'
  BY <1>1 DEF HelpersOnRecord
<1>5. ASSUME NEW n, n \in OpenOps, n # pending[c].op PROVE n \in OpenOps'
  BY <1>1, <1>5 DEF OpenOps
<1>6. OrphansOnRecord'
  BY <1>5 DEF OrphansOnRecord
<1>7. InputAccounted'
  <2>1. ASSUME NEW n \in applied PROVE n \in reported' \cup unsure' \/ n \in OpenOps'
    <3>1. n \in reported \cup unsure \/ n \in OpenOps
      BY <2>1, Accounts
    <3> QED
      BY <1>5, <3>1
  <2> QED
    BY <2>1, Accounts DEF InputAccounted, Desktop!InputAccounted, OpenOps
<1> QED
  BY <1>2, <1>3, <1>4, <1>6, <1>7

(* The helper of a conversation goes, and the record stays.                  *)
LEMMA RecordLeft ==
  ASSUME DesktopInv, NEW c \in Conversations, helper' = [helper EXCEPT ![c] = None],
         UNCHANGED <<pending, orphans, inputs, applied, reported, unsure>>,
         seen' \in [Conversations -> Nat \cup {None}],
         screen' \in [process : Nat, shows : Nat \cup {None}]
  PROVE  DesktopInv'
<1>1. /\ helper' \in [Conversations -> Helpers \cup {None}]
      /\ \A d \in Conversations : helper'[d] = IF d = c THEN None ELSE helper[d]
  BY DEF DesktopInv, DesktopTypeOK
<1> QED
  BY <1>1 DEF DesktopInv, DesktopTypeOK, OpsAreNumbered, HelpersOnRecord, OrphansOnRecord,
     InputAccounted, Desktop!InputAccounted, OpenOps

(* An input: the operation's number is on record or was told.                *)
LEMMA InputMade ==
  ASSUME DesktopInv, NEW h \in Helpers, Desktop!Works(h), Desktop!Input(h), h.op <= inputs,
         h.op \in reported \cup OpenOps, UNCHANGED <<seen, pending, inputs, reported, unsure>>
  PROVE  /\ screen' \in [process : Nat, shows : Nat \cup {None}]
         /\ \A n \in applied' : n \in Nat /\ n <= inputs
         /\ InputAccounted'
<1>1. applied' = applied \cup {h.op} /\ h.op \in Nat
  BY DEF Desktop!Input, Helpers
<1>2. screen' \in [process : Nat, shows : Nat \cup {None}]
  BY <1>1 DEF Desktop!Input, DesktopInv, DesktopTypeOK
<1>3. OpenOps' = OpenOps
  BY DEF OpenOps
<1>4. \A n \in applied' : n \in reported' \cup unsure' \/ n \in OpenOps'
  BY <1>1, <1>3, Accounts DEF DesktopInv
<1>5. InputAccounted'
  BY <1>4 DEF InputAccounted, Desktop!InputAccounted, OpenOps
<1> QED
  BY <1>1, <1>2, <1>5 DEF DesktopInv, OpsAreNumbered

(* A helper works for a turn, which does not end before it.                  *)
HelpersRun == \A c \in Conversations : helper[c] # None => c \in running
LEMMA HelpersRunNext ==
  ASSUME DesktopTypeOK, HelpersRun, [Desktop!DesktopNext]_(Desktop!desktopVars)
  PROVE  HelpersRun'
<1>0. helper \in [Conversations -> Helpers \cup {None}]
  BY DEF DesktopTypeOK
<1>1. ASSUME helper' = helper, running \subseteq running' PROVE HelpersRun'
  BY <1>1 DEF HelpersRun
<1>2. ASSUME NEW c \in Conversations, helper' = [helper EXCEPT ![c] = None],
             running \ {c} \subseteq running'
      PROVE  HelpersRun'
  BY <1>0, <1>2 DEF HelpersRun
<1>3. ASSUME NEW c \in Conversations, running' = running, c \in running,
             \A d \in Conversations : d # c => helper'[d] = helper[d]
      PROVE  HelpersRun'
  BY <1>3 DEF HelpersRun
<1>4. ASSUME NEW c \in Conversations, Desktop!BeginTurn(c) PROVE HelpersRun'
  BY <1>1, <1>4 DEF Desktop!BeginTurn
<1>5. ASSUME NEW c \in Conversations, Desktop!EndTurn(c) PROVE HelpersRun'
  BY <1>0, <1>5 DEF Desktop!EndTurn, HelpersRun
<1>6. ASSUME NEW c \in Conversations,
             \/ Desktop!Recover(c) \/ Desktop!Expire(c) \/ Desktop!ResolvePending(c)
             \/ Desktop!RecoverPending(c)
      PROVE  HelpersRun'
  BY <1>1, <1>6 DEF Desktop!Recover, Desktop!Expire, Desktop!ResolvePending,
     Desktop!RecoverPending
<1>7. ASSUME NEW c \in Conversations, NEW kind \in Desktop!Kinds, Desktop!StartHelper(c, kind)
      PROVE  HelpersRun'
  BY <1>0, <1>3, <1>7 DEF Desktop!StartHelper
<1>8. ASSUME NEW c \in Conversations, Desktop!HelperInput(c) \/ Desktop!ClipboardSet(c)
      PROVE  HelpersRun'
  BY <1>0, <1>3, <1>8 DEF Desktop!HelperInput, Desktop!ClipboardSet, HelpersRun
<1>9. ASSUME NEW c \in Conversations,
             Desktop!Answered(c) \/ Desktop!NotApplied(c) \/ Desktop!Failed(c)
      PROVE  HelpersRun'
  BY <1>2, <1>9 DEF Desktop!Answered, Desktop!NotApplied, Desktop!Failed, Desktop!Gone
<1>10. ASSUME NEW h \in orphans, Desktop!OrphanInput(h) PROVE HelpersRun'
  BY <1>1, <1>10 DEF Desktop!OrphanInput
<1>11. CASE Desktop!DesktopCrash
  BY <1>11 DEF Desktop!DesktopCrash, Desktop!Everyone, HelpersRun
<1>12. CASE Desktop!OtherStudio \/ Desktop!Recycle \/ UNCHANGED Desktop!desktopVars
  BY <1>1, <1>12 DEF Desktop!OtherStudio, Desktop!Recycle, Desktop!desktopVars
<1> QED
  BY <1>4, <1>5, <1>6, <1>7, <1>8, <1>9, <1>10, <1>11, <1>12 DEF Desktop!DesktopNext

(* Every step of the turns, the helpers and the application preserves it.    *)
LEMMA DesktopInvNext ==
  ASSUME DesktopInv, HelpersRun, [Desktop!DesktopNext]_(Desktop!desktopVars) PROVE DesktopInv'
<1> USE WireAssumption, DesktopAssumption
<1> DEFINE Screens == [process : Nat, shows : Nat \cup {None}]
<1>0. /\ pending \in [Conversations -> Ops \cup {None}]
      /\ helper \in [Conversations -> Helpers \cup {None}]
      /\ orphans \in SUBSET Helpers /\ seen \in [Conversations -> Nat \cup {None}]
      /\ screen \in Screens /\ inputs \in Nat
  BY DEF DesktopInv, DesktopTypeOK
<1>1. screen.process \in Nat
  BY <1>0
<1>2. ASSUME NEW c \in Conversations, NEW p \in Nat \cup {None}, Desktop!Sees(c, p)
      PROVE  seen' \in [Conversations -> Nat \cup {None}]
  BY <1>0, <1>2 DEF Desktop!Sees
<1>3. ASSUME NEW c \in Conversations,
             Desktop!BeginTurn(c) \/ Desktop!EndTurn(c) \/ Desktop!Recover(c) \/ Desktop!Expire(c)
      PROVE  DesktopInv'
  <2>1. UNCHANGED <<pending, helper, orphans, screen, inputs, applied, reported, unsure>>
    BY <1>3 DEF Desktop!BeginTurn, Desktop!EndTurn, Desktop!Recover, Desktop!Expire
  <2>2. seen' \in [Conversations -> Nat \cup {None}]
    BY <1>0, <1>1, <1>2, <1>3
    DEF Desktop!BeginTurn, Desktop!EndTurn, Desktop!Recover, Desktop!Expire
  <2> QED
    BY <1>0, <2>1, <2>2, RecordKept
<1>4. ASSUME NEW c \in Conversations, NEW kind \in Desktop!Kinds, Desktop!StartHelper(c, kind)
      PROVE  DesktopInv'
  <2> DEFINE n == inputs + 1
             o == [op |-> n, kind |-> kind, target |-> seen[c]]
             h == [op |-> n, kind |-> kind, phase |-> "checks"]
  <2>1. n \in Nat /\ inputs < n /\ inputs \in Nat
    BY <1>0
  <2>2. /\ pending' = [pending EXCEPT ![c] = o] /\ helper' = [helper EXCEPT ![c] = h]
        /\ inputs' = n /\ pending[c] = None
        /\ UNCHANGED <<seen, orphans, screen, applied, reported, unsure>>
    BY <1>4 DEF Desktop!StartHelper
  <2> HIDE DEF n
  <2>3. o \in Ops /\ o.op = n /\ o.kind = kind
    BY <1>0, <2>1 DEF Ops
  <2>4. h \in Helpers /\ h.op = n /\ h.kind = kind /\ h.phase = "checks"
    BY <2>1 DEF Helpers
  <2> HIDE DEF o, h
  <2>5. /\ pending' \in [Conversations -> Ops \cup {None}]
        /\ helper' \in [Conversations -> Helpers \cup {None}]
        /\ \A d \in Conversations : pending'[d] = IF d = c THEN o ELSE pending[d]
        /\ \A d \in Conversations : helper'[d] = IF d = c THEN h ELSE helper[d]
    BY <1>0, <2>2, <2>3, <2>4
  <2>6. o # None /\ \A x \in orphans : x.op \in Nat
    BY <1>0, <2>3 DEF Ops, Helpers, Desktop!Kinds
  <2>7. \A d \in Conversations : pending[d] # None => pending[d].op \in Nat /\ pending[d].op <= inputs
    BY <1>0 DEF Ops, DesktopInv, OpsAreNumbered
  <2>8. DesktopTypeOK'
    BY <1>0, <2>1, <2>2, <2>5 DEF DesktopTypeOK
  <2>9. OpsAreNumbered'
    <3>1. \A d \in Conversations : pending'[d] # None => pending'[d].op <= n
      BY <2>1, <2>3, <2>5, <2>7
    <3>2. \A d, e \in Conversations :
            pending'[d] # None /\ pending'[e] # None /\ pending'[d].op = pending'[e].op => d = e
      BY <2>1, <2>3, <2>5, <2>7 DEF DesktopInv, OpsAreNumbered
    <3>3. (\A x \in orphans : x.op <= n) /\ \A i \in applied : i \in Nat /\ i <= n
      BY <2>1, <2>6 DEF DesktopInv, OpsAreNumbered
    <3> QED
      BY <2>2, <3>1, <3>2, <3>3 DEF OpsAreNumbered
  <2>10. HelpersOnRecord'
    <3> SUFFICES ASSUME NEW d \in Conversations, helper'[d] # None
                 PROVE  /\ pending'[d] # None /\ pending'[d].op = helper'[d].op
                        /\ pending'[d].kind = helper'[d].kind
                        /\ helper'[d].phase = "checks" => helper'[d].op \notin applied
                        /\ helper'[d].kind \in Desktop!Reads => helper'[d].phase = "checks"
                        /\ \A x \in orphans : x.op # helper'[d].op
      BY <2>2 DEF HelpersOnRecord
    <3>1. CASE d = c
      <4>1. n \notin applied /\ \A x \in orphans : x.op # n
        BY <2>1, <2>6 DEF DesktopInv, OpsAreNumbered
      <4> QED
        BY <2>3, <2>4, <2>5, <2>6, <3>1, <4>1
    <3>2. CASE d # c
      BY <2>5, <3>2 DEF DesktopInv, HelpersOnRecord
    <3> QED
      BY <3>1, <3>2
  <2>11. \A i \in OpenOps : i \in OpenOps'
    <3> SUFFICES ASSUME NEW i \in OpenOps PROVE i \in OpenOps'
      OBVIOUS
    <3>1. PICK d \in Conversations : pending[d] # None /\ pending[d].op = i
      BY DEF OpenOps
    <3>2. pending'[d] # None /\ pending'[d].op = i
      BY <2>2, <2>5, <3>1
    <3> QED
      BY <3>2 DEF OpenOps
  <2>12. OrphansOnRecord'
    BY <2>2, <2>11 DEF DesktopInv, OrphansOnRecord
  <2>13. InputAccounted'
    <3>1. \A i \in applied : i \in reported \cup unsure \/ i \in OpenOps
      BY Accounts DEF DesktopInv
    <3>2. \A i \in applied' : i \in reported' \cup unsure' \/ i \in OpenOps'
      BY <2>2, <2>11, <3>1
    <3> QED
      BY <3>2 DEF InputAccounted, Desktop!InputAccounted, OpenOps
  <2> QED
    BY <2>8, <2>9, <2>10, <2>12, <2>13 DEF DesktopInv
<1>5. ASSUME NEW c \in Conversations, helper[c] # None
      PROVE  /\ helper[c] \in Helpers /\ pending[c] \in Ops /\ pending[c] # None
             /\ pending[c].op = helper[c].op /\ pending[c].kind = helper[c].kind
             /\ pending[c].op \in Nat /\ pending[c].op <= inputs /\ pending[c].op \in OpenOps
             /\ helper[c].phase = "checks" => pending[c].op \notin applied
             /\ helper[c].kind \in Desktop!Reads => helper[c].phase = "checks"
             /\ \A h \in orphans : h.op # pending[c].op
  <2>1. pending[c] # None /\ helper[c] \in Helpers /\ pending[c] \in Ops
    BY <1>0, <1>5 DEF DesktopInv, HelpersOnRecord
  <2>2. pending[c].op \in Nat /\ pending[c].op \in OpenOps
    BY <2>1, OpenOp DEF Ops
  <2> QED
    BY <1>5, <2>1, <2>2 DEF DesktopInv, HelpersOnRecord, OpsAreNumbered
<1>6. ASSUME NEW c \in Conversations, Desktop!HelperInput(c) PROVE DesktopInv'
  <2> DEFINE h == helper[c]
             at == IF h.kind = "desktop_clipboard_set" THEN "written" ELSE "input"
             g == [helper[c] EXCEPT !.phase = at]
  <2>1. /\ h # None /\ Desktop!Works(h) /\ Desktop!Input(h) /\ helper' = [helper EXCEPT ![c] = g]
        /\ UNCHANGED <<seen, pending, orphans, inputs, reported, unsure>>
    BY <1>6 DEF Desktop!HelperInput
  <2>2. h \in Helpers /\ h.op = pending[c].op /\ h.op \in OpenOps /\ h.op <= inputs
        /\ h.kind = pending[c].kind /\ \A x \in orphans : x.op # h.op
    BY <1>5, <2>1
  <2>3. g \in Helpers /\ g.op = h.op /\ g.kind = h.kind /\ g.phase # "checks"
    BY <2>2 DEF Helpers
  <2>4. /\ screen' \in Screens
        /\ \A n \in applied' : n \in Nat /\ n <= inputs
        /\ InputAccounted'
    BY <2>1, <2>2, InputMade
  <2>5. applied' = applied \cup {h.op} /\ h.kind \notin Desktop!Reads
    BY <2>1 DEF Desktop!Input, Desktop!Works
  <2> HIDE DEF g
  <2>6. helper' \in [Conversations -> Helpers \cup {None}]
        /\ \A d \in Conversations : helper'[d] = IF d = c THEN g ELSE helper[d]
    BY <1>0, <2>1, <2>3
  <2>7. DesktopTypeOK' /\ OpsAreNumbered' /\ OrphansOnRecord'
    BY <1>0, <2>1, <2>4, <2>6
    DEF DesktopInv, DesktopTypeOK, OpsAreNumbered, OrphansOnRecord, OpenOps
  <2>8. HelpersOnRecord'
    <3> SUFFICES ASSUME NEW d \in Conversations, helper'[d] # None
                 PROVE  /\ pending[d] # None /\ pending[d].op = helper'[d].op
                        /\ pending[d].kind = helper'[d].kind
                        /\ helper'[d].phase = "checks" => helper'[d].op \notin applied'
                        /\ helper'[d].kind \in Desktop!Reads => helper'[d].phase = "checks"
                        /\ \A x \in orphans : x.op # helper'[d].op
      BY <2>1 DEF HelpersOnRecord
    <3>1. CASE d = c
      BY <1>5, <2>1, <2>2, <2>3, <2>5, <2>6, <3>1
    <3>2. CASE d # c
      <4>1. helper'[d] = helper[d] /\ helper[d] # None
        BY <2>6, <3>2
      <4>2. pending[d].op = helper[d].op /\ helper[d].op # h.op
        BY <1>5, <2>1, <2>2, <3>2, <4>1 DEF DesktopInv, OpsAreNumbered
      <4> QED
        BY <1>5, <2>5, <4>1, <4>2
    <3> QED
      BY <3>1, <3>2
  <2> QED
    BY <2>4, <2>7, <2>8 DEF DesktopInv
<1>7. ASSUME NEW h \in orphans, Desktop!OrphanInput(h) PROVE DesktopInv'
  <2>1. /\ Desktop!Works(h) /\ Desktop!Input(h) /\ orphans' = orphans \ {h}
        /\ UNCHANGED <<seen, pending, helper, inputs, reported, unsure>>
    BY <1>7 DEF Desktop!OrphanInput
  <2>2. h \in Helpers /\ h.op <= inputs /\ h.op \in reported \cup OpenOps
    BY <1>0, <2>1 DEF DesktopInv, OpsAreNumbered, OrphansOnRecord, Desktop!Works
  <2>3. /\ screen' \in Screens
        /\ \A n \in applied' : n \in Nat /\ n <= inputs
        /\ InputAccounted'
    BY <2>1, <2>2, InputMade
  <2>4. applied' = applied \cup {h.op}
    BY <2>1 DEF Desktop!Input
  <2>5. DesktopTypeOK' /\ OpsAreNumbered' /\ OrphansOnRecord'
    BY <1>0, <2>1, <2>3
    DEF DesktopInv, DesktopTypeOK, OpsAreNumbered, OrphansOnRecord, OpenOps
  <2>6. HelpersOnRecord'
    BY <2>1, <2>4 DEF DesktopInv, HelpersOnRecord
  <2> QED
    BY <2>3, <2>5, <2>6 DEF DesktopInv
<1>8. ASSUME NEW c \in Conversations, Desktop!Answered(c) PROVE DesktopInv'
  <2>1. /\ helper[c] # None /\ helper' = [helper EXCEPT ![c] = None]
        /\ UNCHANGED <<orphans, screen, inputs, applied, unsure>> /\ screen' \in Screens
        /\ Desktop!Sees(c, screen.process)
    BY <1>0, <1>8 DEF Desktop!Answered, Desktop!Gone
  <2>2. seen' \in [Conversations -> Nat \cup {None}] /\ pending[c] # None
    BY <1>1, <1>2, <1>5, <2>1
  <2>3. CASE UNCHANGED <<pending, reported>>
    BY <2>1, <2>2, <2>3, RecordLeft
  <2>4. CASE /\ pending' = [pending EXCEPT ![c] = None]
             /\ reported' = reported \cup {pending[c].op}
    BY <2>1, <2>2, <2>4, RecordCleared
  <2> QED
    BY <1>8, <2>3, <2>4 DEF Desktop!Answered, Desktop!Kept, Desktop!Cleared, Desktop!Account
<1>9. ASSUME NEW c \in Conversations, Desktop!NotApplied(c) PROVE DesktopInv'
  <2>1. /\ helper[c] # None /\ helper' = [helper EXCEPT ![c] = None]
        /\ helper[c].phase # "input" /\ unsure \subseteq unsure'
        /\ helper[c].phase = "written" => helper[c].op \in unsure'
        /\ pending' = [pending EXCEPT ![c] = None] /\ Desktop!Sees(c, screen.process)
        /\ UNCHANGED <<orphans, screen, inputs, applied, reported>> /\ screen' \in Screens
    BY <1>0, <1>9 DEF Desktop!NotApplied, Desktop!InputStarted, Desktop!Gone, Desktop!Cleared
  \* no input was made, or a clipboard write was given up
  <2>3. helper[c].phase = "checks" \/ helper[c].phase = "written"
    BY <1>5, <2>1 DEF Helpers
  <2>4. pending[c].op \in applied => pending[c].op \in unsure'
    BY <1>5, <2>1, <2>3
  <2>2. seen' \in [Conversations -> Nat \cup {None}] /\ pending[c] # None
        /\ \A h \in orphans : h.op # pending[c].op
    BY <1>1, <1>2, <1>5, <2>1
  <2> QED
    BY <2>1, <2>2, <2>4, RecordCleared
<1>16. ASSUME NEW c \in Conversations, Desktop!ClipboardSet(c) PROVE DesktopInv'
  <2> DEFINE g == [helper[c] EXCEPT !.phase = "input"]
  <2>1. /\ helper[c] # None /\ helper[c].phase = "written" /\ helper' = [helper EXCEPT ![c] = g]
        /\ UNCHANGED <<seen, pending, orphans, screen, inputs, applied, reported, unsure>>
    BY <1>16 DEF Desktop!ClipboardSet
  <2>2. helper[c] \in Helpers /\ helper[c].kind \notin Desktop!Reads
    BY <1>5, <2>1
  <2>3. g \in Helpers /\ g.op = helper[c].op /\ g.kind = helper[c].kind /\ g.phase = "input"
    BY <2>2 DEF Helpers
  <2> HIDE DEF g
  <2>4. helper' \in [Conversations -> Helpers \cup {None}]
        /\ \A d \in Conversations : helper'[d] = IF d = c THEN g ELSE helper[d]
    BY <1>0, <2>1, <2>3
  <2>5. DesktopTypeOK' /\ OpsAreNumbered' /\ OrphansOnRecord' /\ InputAccounted'
    BY <1>0, <2>1, <2>4 DEF DesktopInv, DesktopTypeOK, OpsAreNumbered, OrphansOnRecord, OpenOps,
       InputAccounted, Desktop!InputAccounted
  <2>6. HelpersOnRecord'
    <3> SUFFICES ASSUME NEW d \in Conversations, helper'[d] # None
                 PROVE  /\ pending[d] # None /\ pending[d].op = helper'[d].op
                        /\ pending[d].kind = helper'[d].kind
                        /\ helper'[d].phase = "checks" => helper'[d].op \notin applied
                        /\ helper'[d].kind \in Desktop!Reads => helper'[d].phase = "checks"
                        /\ \A x \in orphans : x.op # helper'[d].op
      BY <2>1 DEF HelpersOnRecord
    <3>1. CASE d = c
      BY <1>5, <2>1, <2>2, <2>3, <2>4, <3>1
    <3>2. CASE d # c
      BY <2>4, <3>2 DEF DesktopInv, HelpersOnRecord
    <3> QED
      BY <3>1, <3>2
  <2> QED
    BY <2>5, <2>6 DEF DesktopInv
<1>10. ASSUME NEW c \in Conversations, Desktop!Failed(c) PROVE DesktopInv'
  <2>1. /\ helper[c] # None /\ helper' = [helper EXCEPT ![c] = None]
        /\ UNCHANGED <<seen, orphans, screen, inputs, applied, unsure>> /\ screen' \in Screens
        /\ seen' \in [Conversations -> Nat \cup {None}]
    BY <1>0, <1>10 DEF Desktop!Failed, Desktop!Gone
  <2>2. CASE Desktop!Reconciled(c)
    BY <1>5, <2>1, <2>2, RecordCleared DEF Desktop!Reconciled, Desktop!Cleared, Desktop!Account
  <2>3. CASE Desktop!Kept
    BY <2>1, <2>3, RecordLeft DEF Desktop!Kept
  <2>4. CASE Desktop!Stopped(c)
    <3>1. CASE pending[c].kind \in Desktop!Reads
      <4>1. pending' = [pending EXCEPT ![c] = None] /\ UNCHANGED reported
        BY <2>4, <3>1 DEF Desktop!Stopped, Desktop!Cleared
      \* a helper that only looks made no input
      <4>2. pending[c] # None /\ pending[c].op \notin applied
            /\ \A h \in orphans : h.op # pending[c].op
        BY <1>5, <2>1, <3>1
      <4> QED
        BY <2>1, <4>1, <4>2, RecordCleared
    <3>2. CASE pending[c].kind \notin Desktop!Reads
      BY <2>1, <2>4, <3>2, RecordLeft DEF Desktop!Stopped, Desktop!Kept
    <3> QED
      BY <3>1, <3>2
  <2> QED
    BY <1>10, <2>2, <2>3, <2>4 DEF Desktop!Failed
<1>11. ASSUME NEW c \in Conversations,
              Desktop!ResolvePending(c) \/ Desktop!RecoverPending(c), helper[c] = None
       PROVE  DesktopInv'
  <2>1. /\ pending[c] # None /\ pending' = [pending EXCEPT ![c] = None]
        /\ reported' = reported \cup {pending[c].op}
        /\ UNCHANGED <<helper, orphans, screen, inputs, applied, unsure>> /\ screen' \in Screens
    BY <1>0, <1>11 DEF Desktop!ResolvePending, Desktop!RecoverPending, Desktop!Reconciled,
       Desktop!Cleared, Desktop!Account
  <2>2. seen' \in [Conversations -> Nat \cup {None}]
    BY <1>0, <1>1, <1>2, <1>11 DEF Desktop!ResolvePending, Desktop!RecoverPending
  <2>3. helper' = [helper EXCEPT ![c] = None]
    BY <1>0, <1>11, <2>1
  <2> QED
    BY <2>1, <2>2, <2>3, RecordCleared
<1>12. CASE Desktop!DesktopCrash
  <2>1. /\ orphans' = orphans \cup {helper[c] : c \in {d \in Conversations : helper[d] # None}}
        /\ helper' = [c \in Conversations |-> None]
        /\ UNCHANGED <<seen, pending, screen, inputs, applied, reported, unsure>>
    BY <1>12 DEF Desktop!DesktopCrash, Desktop!Everyone
  <2>2. \A h \in orphans' : h \in orphans
          \/ \E c \in Conversations : helper[c] # None /\ h = helper[c]
    BY <2>1
  <2>3. \A h \in orphans' : h \in Helpers /\ h.op <= inputs
    BY <1>0, <1>5, <2>2 DEF DesktopInv, OpsAreNumbered
  <2>4. DesktopTypeOK' /\ OpsAreNumbered'
    BY <1>0, <2>1, <2>3 DEF DesktopInv, DesktopTypeOK, OpsAreNumbered
  <2>5. HelpersOnRecord'
    BY <2>1 DEF HelpersOnRecord
  <2>6. OrphansOnRecord' /\ InputAccounted'
    BY <1>5, <2>1, <2>2
    DEF DesktopInv, OrphansOnRecord, OpenOps, InputAccounted, Desktop!InputAccounted
  <2> QED
    BY <2>4, <2>5, <2>6 DEF DesktopInv
<1>13. CASE Desktop!OtherStudio \/ Desktop!Recycle
  <2>1. UNCHANGED <<pending, helper, orphans, seen, inputs, applied, reported, unsure>>
    BY <1>13 DEF Desktop!OtherStudio, Desktop!Recycle
  <2>2. screen' \in Screens
    BY <1>0, <1>1, <1>13 DEF Desktop!OtherStudio, Desktop!Recycle
  <2> QED
    BY <1>0, <2>1, <2>2, RecordKept
<1>14. CASE UNCHANGED Desktop!desktopVars
  BY <1>0, <1>14, RecordKept DEF Desktop!desktopVars
<1>15. ASSUME NEW c \in Conversations, Desktop!ResolvePending(c) \/ Desktop!RecoverPending(c)
       PROVE  helper[c] = None
  BY <1>15 DEF Desktop!ResolvePending, Desktop!RecoverPending, HelpersRun
<1> QED
  BY <1>3, <1>4, <1>6, <1>7, <1>8, <1>9, <1>10, <1>11, <1>12, <1>13, <1>14, <1>15, <1>16
  DEF Desktop!DesktopNext

(* An input that was made is in the history, or its operation is still on    *)
(* record for the user, or it wrote the clipboard and the helper gave up on  *)
(* the write and reported it as not applied: through failures of the helper, *)
(* stops, reconciliations, deaths and restarts (chat.rs, desktop.rs).        *)
THEOREM InputsAreTold == Desktop!DesktopSpec => []InputAccounted
<1>1. Desktop!DesktopInit => DesktopInv /\ HelpersRun
  BY DesktopInvInit DEF Desktop!DesktopInit, Desktop!Everyone, HelpersRun
<1>2. DesktopInv /\ HelpersRun /\ [Desktop!DesktopNext]_(Desktop!desktopVars)
      => DesktopInv' /\ HelpersRun'
  BY DesktopInvNext, HelpersRunNext DEF DesktopInv
<1>3. DesktopInv => InputAccounted
  BY DEF DesktopInv
<1> QED
  BY <1>1, <1>2, <1>3, PTL DEF Desktop!DesktopSpec

-----------------------------------------------------------------------------
(* Publications: until the bytes are in place the conversation owes nothing. *)
SaverTypeOK ==
    /\ contents \in Bytes \cup {None} /\ owed \in SUBSET Conversations
    /\ intent \in [Conversations -> Bytes \cup {None}]
    /\ doing \in [Conversations -> {"look", "persist", "read back", None}]
IntentsStand == \A c \in Conversations :
    /\ doing[c] # None => intent[c] \in Bytes
    /\ doing[c] \in {"look", "persist"} => c \notin owed

SaverInv == SaverTypeOK /\ IntentsStand /\ Published

(* Nothing is in place and nothing intended at first.                        *)
LEMMA SaverInvInit == ASSUME Saver!ArtifactInit PROVE SaverInv
  BY SaverAssumption
  DEF Saver!ArtifactInit, SaverInv, SaverTypeOK, IntentsStand, Published, Saver!Published

(* One conversation goes on to a step, its intent as it was or forgotten.    *)
LEMMA SaverMoves ==
  ASSUME SaverInv, NEW c \in Conversations, NEW s \in {"look", "persist", "read back", None},
         NEW b \in Bytes \cup {None},
         doing' = [doing EXCEPT ![c] = s], intent' = [intent EXCEPT ![c] = b],
         contents' \in Bytes \cup {None}, ~replaced',
         owed' \in {owed, owed \cup {c}, owed \ {c}},
         s # None => b \in Bytes, s \in {"look", "persist"} => c \notin owed',
         c \in owed' => b # None
  PROVE  SaverInv'
<1>1. /\ doing' \in [Conversations -> {"look", "persist", "read back", None}]
      /\ \A d \in Conversations : doing'[d] = IF d = c THEN s ELSE doing[d]
  BY DEF SaverInv, SaverTypeOK
<1>2. /\ intent' \in [Conversations -> Bytes \cup {None}]
      /\ \A d \in Conversations : intent'[d] = IF d = c THEN b ELSE intent[d]
  BY DEF SaverInv, SaverTypeOK
<1>3. owed' \in SUBSET Conversations /\ \A d \in Conversations : d # c => (d \in owed' <=> d \in owed)
  BY DEF SaverInv, SaverTypeOK
<1>4. SaverTypeOK'
  BY <1>1, <1>2, <1>3 DEF SaverTypeOK
<1>5. IntentsStand'
  BY <1>1, <1>2, <1>3 DEF SaverInv, IntentsStand
<1>6. Published'
  <2>1. \A d \in owed' : intent'[d] # None
    BY <1>2, <1>3 DEF SaverInv, Published, Saver!Published
  <2> QED
    BY <2>1 DEF Published, Saver!Published
<1> QED
  BY <1>4, <1>5, <1>6 DEF SaverInv

(* Every step of the conversations, of others and of the process keeps it.   *)
LEMMA SaverInvNext ==
  ASSUME SaverInv, [Saver!ArtifactNext]_(Saver!artifactVars) PROVE SaverInv'
<1> USE SaverAssumption
<1>0. /\ contents \in Bytes \cup {None} /\ owed \in SUBSET Conversations
      /\ intent \in [Conversations -> Bytes \cup {None}]
      /\ doing \in [Conversations -> {"look", "persist", "read back", None}]
      /\ ~replaced /\ \A c \in owed : intent[c] # None
  BY DEF SaverInv, SaverTypeOK, Published, Saver!Published
<1>1. ASSUME NEW c \in Conversations, doing[c] # None
      PROVE  intent[c] \in Bytes /\ (doing[c] \in {"look", "persist"} => c \notin owed)
  BY <1>1 DEF SaverInv, IntentsStand
<1>2. \A c \in Conversations : intent = [intent EXCEPT ![c] = intent[c]]
                               /\ doing = [doing EXCEPT ![c] = doing[c]]
  BY <1>0
<1>3. ASSUME NEW c \in Conversations, NEW b \in Bytes, Saver!PrepareArtifact(c, b) PROVE SaverInv'
  <2>1. /\ doing' = [doing EXCEPT ![c] = "look"] /\ intent' = [intent EXCEPT ![c] = b]
        /\ intent[c] = None /\ UNCHANGED <<contents, owed, replaced>>
    BY <1>3 DEF Saver!PrepareArtifact, Saver!Intends, Saver!GoTo
  <2>2. c \notin owed
    BY <1>0, <2>1
  <2> QED
    BY <1>0, <2>1, <2>2, SaverMoves
<1>4. ASSUME NEW c \in Conversations, Saver!LookFirst(c) PROVE SaverInv'
  <2>1. doing[c] = "look" /\ UNCHANGED <<contents, owed, replaced>>
    BY <1>4 DEF Saver!LookFirst, Saver!At
  <2>2. intent[c] \in Bytes /\ c \notin owed
    BY <1>1, <2>1
  <2>3. ASSUME NEW s \in {"persist", "read back"}, doing' = [doing EXCEPT ![c] = s],
               intent' = [intent EXCEPT ![c] = intent[c]]
        PROVE  SaverInv'
    BY <1>0, <2>1, <2>2, <2>3, SaverMoves
  <2>4. CASE doing' = [doing EXCEPT ![c] = None] /\ intent' = [intent EXCEPT ![c] = None]
    BY <1>0, <2>1, <2>2, <2>4, SaverMoves
  <2> QED
    BY <1>2, <1>4, <2>3, <2>4 DEF Saver!LookFirst, Saver!Intends, Saver!GoTo
<1>5. ASSUME NEW c \in Conversations, Saver!NotPublished(c) PROVE SaverInv'
  <2>1. /\ doing[c] \in {"look", "persist"} /\ UNCHANGED <<contents, owed, replaced>>
        /\ doing' = [doing EXCEPT ![c] = None] /\ intent' = [intent EXCEPT ![c] = None]
    BY <1>5 DEF Saver!NotPublished, Saver!Intends, Saver!GoTo
  <2>2. c \notin owed
    BY <1>1, <2>1
  <2> QED
    BY <1>0, <2>1, <2>2, SaverMoves
<1>6. ASSUME NEW c \in Conversations, Saver!Persist(c) PROVE SaverInv'
  <2>1. /\ doing[c] = "persist" /\ contents = None /\ contents' = intent[c] /\ intent' = intent
        /\ doing' = [doing EXCEPT ![c] = "read back"] /\ owed' = owed \cup {c}
    BY <1>6 DEF Saver!Persist, Saver!At, Saver!Vacant, Saver!GoTo
  \* what is published takes the place of nothing
  <2>2. ~replaced'
    BY <1>0, <1>6, <2>1 DEF Saver!Persist
  <2>3. intent[c] \in Bytes
    BY <1>1, <2>1
  <2> QED
    BY <1>0, <1>2, <2>1, <2>2, <2>3, SaverMoves
<1>7. ASSUME NEW c \in Conversations, Saver!Occupied(c) PROVE SaverInv'
  <2>1. doing[c] = "persist" /\ UNCHANGED <<contents, owed, replaced>>
    BY <1>7 DEF Saver!Occupied, Saver!At
  <2>2. intent[c] \in Bytes /\ c \notin owed
    BY <1>1, <2>1
  <2>3. CASE doing' = [doing EXCEPT ![c] = "read back"] /\ intent' = intent
    BY <1>0, <1>2, <2>1, <2>2, <2>3, SaverMoves
  <2>4. CASE doing' = [doing EXCEPT ![c] = None] /\ intent' = [intent EXCEPT ![c] = None]
    BY <1>0, <2>1, <2>2, <2>4, SaverMoves
  <2> QED
    BY <1>7, <2>3, <2>4 DEF Saver!Occupied, Saver!Intends, Saver!GoTo
<1>8. ASSUME NEW c \in Conversations, Saver!Unclear(c) PROVE SaverInv'
  <2>1. /\ doing[c] = "persist" /\ UNCHANGED <<intent, replaced>>
        /\ doing' = [doing EXCEPT ![c] = None]
    BY <1>8 DEF Saver!Unclear, Saver!At, Saver!GoTo
  <2>2. intent[c] \in Bytes /\ intent' = [intent EXCEPT ![c] = intent[c]]
    BY <1>1, <1>2, <2>1
  <2>3. CASE contents' = intent[c] /\ owed' = owed \cup {c}
    BY <1>0, <2>1, <2>2, <2>3, SaverMoves
  <2>4. CASE UNCHANGED <<contents, owed>>
    BY <1>0, <2>1, <2>2, <2>4, SaverMoves
  <2> QED
    BY <1>8, <2>3, <2>4 DEF Saver!Unclear
<1>9. ASSUME NEW c \in Conversations, Saver!ReadBack(c) PROVE SaverInv'
  <2>1. /\ doing[c] = "read back" /\ UNCHANGED <<contents, replaced>>
        /\ doing' = [doing EXCEPT ![c] = None]
    BY <1>9 DEF Saver!ReadBack, Saver!At, Saver!GoTo
  <2>2. intent[c] \in Bytes
    BY <1>1, <2>1
  <2>3. CASE intent' = [intent EXCEPT ![c] = None] /\ owed' = owed \ {c}
    BY <1>0, <2>1, <2>3, SaverMoves
  <2>4. CASE UNCHANGED <<intent, owed>>
    BY <1>0, <1>2, <2>1, <2>2, <2>4, SaverMoves
  <2> QED
    BY <1>9, <2>3, <2>4 DEF Saver!ReadBack, Saver!Receipt, Saver!Unconfirmed, Saver!Intends
<1>10. ASSUME NEW c \in Conversations, Saver!ReconcileArtifact(c) PROVE SaverInv'
  <2>1. /\ doing[c] = None /\ UNCHANGED <<contents, doing, replaced>>
        /\ intent' = [intent EXCEPT ![c] = None] /\ owed' = owed \ {c}
    BY <1>10 DEF Saver!ReconcileArtifact, Saver!Receipt, Saver!Intends
  <2>2. doing' = [doing EXCEPT ![c] = None]
    BY <1>2, <2>1
  <2> QED
    BY <1>0, <2>1, <2>2, SaverMoves
<1>11. ASSUME NEW b \in Bytes \cup {None}, Saver!ForeignWrite(b) PROVE SaverInv'
  BY <1>11 DEF Saver!ForeignWrite, SaverInv, SaverTypeOK, IntentsStand, Published, Saver!Published
<1>12. CASE Saver!ArtifactCrash
  BY <1>0, <1>12 DEF Saver!ArtifactCrash, SaverInv, SaverTypeOK, IntentsStand, Published,
     Saver!Published
<1>13. CASE UNCHANGED Saver!artifactVars
  BY <1>13 DEF Saver!artifactVars, SaverInv, SaverTypeOK, IntentsStand, Published,
     Saver!Published
<1> QED
  BY <1>3, <1>4, <1>5, <1>6, <1>7, <1>8, <1>9, <1>10, <1>11, <1>12, <1>13
  DEF Saver!ArtifactNext

(* A publication takes the place of nobody's bytes, whoever writes between   *)
(* its look and its write, and a conversation that put bytes in place has    *)
(* said so or has its intent on record, whatever failed (artifacts.rs).      *)
THEOREM PublishedInTheOpen == Saver!ArtifactSpec => []Published
<1>1. Saver!ArtifactInit => SaverInv
  BY SaverInvInit
<1>2. SaverInv /\ [Saver!ArtifactNext]_(Saver!artifactVars) => SaverInv'
  BY SaverInvNext
<1>3. SaverInv => Published
  BY DEF SaverInv
<1> QED
  BY <1>1, <1>2, <1>3, PTL DEF Saver!ArtifactSpec

-----------------------------------------------------------------------------
(* Application sessions: whoever has the lock has its call on record, and    *)
(* one whose request is out has a session.                                   *)
Messages == [kind : {"answer", "request"}, id : Nat]
Sessions == [id : Nat, wire : Seq(Messages)]

AppTypeOK ==
    /\ app \in [Apps!Scopes -> Sessions \cup {None}] /\ holder \in Apps!Scopes \cup {None}
    /\ sent \in SUBSET Apps!Scopes /\ pendingCall \in SUBSET Conversations
LockOnRecord == holder \in Conversations => holder \in pendingCall
SentHasSession == holder # None /\ holder \in sent => app[holder] # None
NoOtherRoute == pendingCall \cap fallback = {}

AppInv == AppTypeOK /\ LockOnRecord /\ SentHasSession /\ NoOtherRoute /\ CallsAnswered

(* No session is there at first.                                             *)
LEMMA AppInvInit == ASSUME Apps!AppInit PROVE AppInv
  BY AppsAssumption
  DEF Apps!AppInit, AppInv, AppTypeOK, LockOnRecord, SentHasSession, NoOtherRoute, CallsAnswered,
      Apps!CallsAnswered

(* A session is a session, whatever was heard and read, under any number.    *)
LEMMA SessionsStay ==
  ASSUME NEW x \in Sessions
  PROVE  /\ \A m \in Messages : [x EXCEPT !.wire = Append(@, m)] \in Sessions
         /\ [x EXCEPT !.id = @ + 1] \in Sessions
         /\ x.wire # <<>> => [x EXCEPT !.wire = Tail(@)] \in Sessions
         /\ x.id \in Nat /\ x.wire \in Seq(Messages)
<1>1. x.id \in Nat /\ x.wire \in Seq(Messages) /\ x.id + 1 \in Nat
  BY DEF Sessions
<1>2. \A m \in Messages : Append(x.wire, m) \in Seq(Messages)
  BY <1>1
<1>3. x.wire # <<>> => Tail(x.wire) \in Seq(Messages)
  BY <1>1
<1> QED
  BY <1>1, <1>2, <1>3 DEF Sessions

(* One session changes and stays a session, or is dropped.                   *)
LEMMA SessionsKept ==
  ASSUME AppInv, NEW s, NEW x \in Sessions \cup {None}, app' = [app EXCEPT ![s] = x],
         UNCHANGED <<holder, pendingCall, fallback, sent, forged>>,
         s = holder => x # None \/ holder \notin sent,
         x = None => holder \notin sent
  PROVE  AppInv'
  BY DEF AppInv, AppTypeOK, LockOnRecord, SentHasSession, NoOtherRoute, CallsAnswered,
     Apps!CallsAnswered

(* Every step of the scopes, of the server and of the user preserves it.     *)
LEMMA AppInvNext ==
  ASSUME AppInv, [Apps!AppNext]_(Apps!appVars) PROVE AppInv'
<1> USE AppsAssumption DEF Apps!Scopes
<1>0. /\ app \in [Apps!Scopes -> Sessions \cup {None}] /\ holder \in Apps!Scopes \cup {None}
      /\ sent \in SUBSET Apps!Scopes /\ pendingCall \in SUBSET Conversations
      /\ None \notin Apps!Scopes /\ None \notin Sessions
  BY DEF AppInv, AppTypeOK, Sessions, Messages
<1>1. ASSUME NEW s \in Apps!Scopes, Apps!Setup(s) PROVE AppInv'
  BY <1>1 DEF Apps!Setup, AppInv, AppTypeOK, LockOnRecord, SentHasSession, NoOtherRoute,
     CallsAnswered, Apps!CallsAnswered
<1>2. ASSUME NEW c \in Conversations, Apps!RecordCall(c) PROVE AppInv'
  BY <1>0, <1>2 DEF Apps!RecordCall, AppInv, AppTypeOK, LockOnRecord, SentHasSession,
     NoOtherRoute, CallsAnswered, Apps!CallsAnswered
<1>3. ASSUME NEW s \in Apps!Scopes, Apps!TakeLock(s) PROVE AppInv'
  BY <1>0, <1>3 DEF Apps!TakeLock, AppInv, AppTypeOK, LockOnRecord, SentHasSession,
     NoOtherRoute, CallsAnswered, Apps!CallsAnswered
<1>4. ASSUME NEW c \in Conversations, Apps!StoppedWaiting(c) PROVE AppInv'
  BY <1>0, <1>4 DEF Apps!StoppedWaiting, AppInv, AppTypeOK, LockOnRecord, SentHasSession,
     NoOtherRoute, CallsAnswered, Apps!CallsAnswered
<1>5. CASE Apps!Evict
  <2>1. holder \notin sent
    BY <1>5 DEF Apps!Evict, AppInv, SentHasSession
  <2>2. app' = [app EXCEPT ![Head(order)] = None]
        /\ UNCHANGED <<holder, pendingCall, fallback, sent, forged>>
    BY <1>5 DEF Apps!Evict
  <2> QED
    BY <2>1, <2>2, SessionsKept
<1>6. CASE Apps!StartSession
  <2> DEFINE x == [id |-> 0, wire |-> <<>>]
  <2>1. x \in Sessions
    BY DEF Sessions
  <2> HIDE DEF x
  <2>2. app' = [app EXCEPT ![holder] = x] /\ UNCHANGED <<holder, pendingCall, fallback, sent, forged>>
    BY <1>6 DEF Apps!StartSession, x
  <2> QED
    BY <1>0, <2>1, <2>2, SessionsKept
<1>7. CASE Apps!RouteUnavailable
  <2>1. holder \notin sent /\ holder \in Apps!Scopes
    BY <1>0, <1>7 DEF Apps!RouteUnavailable, AppInv, SentHasSession
  <2>2. /\ holder' = None /\ pendingCall' = pendingCall \ {holder} /\ UNCHANGED <<app, sent, forged>>
        /\ fallback' \subseteq fallback \cup {holder}
    BY <1>7 DEF Apps!RouteUnavailable, Apps!Switch
  <2>3. sent \ {Probe} \subseteq pendingCall
    BY DEF AppInv, CallsAnswered, Apps!CallsAnswered
  <2> QED
    BY <1>0, <2>1, <2>2, <2>3 DEF AppInv, AppTypeOK, LockOnRecord, SentHasSession, NoOtherRoute,
       CallsAnswered, Apps!CallsAnswered
<1>8. CASE Apps!ListTools
  BY <1>0, <1>8 DEF Apps!ListTools, AppInv, AppTypeOK, LockOnRecord, SentHasSession,
     NoOtherRoute, CallsAnswered, Apps!CallsAnswered
<1>9. CASE Apps!SendRequest
  <2> DEFINE x == [app[holder] EXCEPT !.id = @ + 1]
  <2>1. app[holder] \in Sessions /\ holder \in Apps!Scopes /\ holder # None
    BY <1>0, <1>9 DEF Apps!SendRequest
  <2>2. x \in Sessions
    BY <2>1, SessionsStay
  <2>3. app' = [app EXCEPT ![holder] = x] /\ sent' = sent \cup {holder}
        /\ UNCHANGED <<holder, pendingCall, fallback, forged>>
    BY <1>9 DEF Apps!SendRequest
  <2> HIDE DEF x
  <2>4. app' \in [Apps!Scopes -> Sessions \cup {None}] /\ app'[holder] # None
    BY <1>0, <2>1, <2>2, <2>3
  <2> QED
    BY <1>0, <2>1, <2>3, <2>4 DEF AppInv, AppTypeOK, LockOnRecord, SentHasSession, NoOtherRoute,
       CallsAnswered, Apps!CallsAnswered
<1>10. ASSUME NEW s \in Apps!Scopes, NEW m \in Messages, app[s] # None, Apps!Hears(s, m),
              UNCHANGED <<holder, pendingCall, fallback, sent, forged>>
       PROVE  AppInv'
  <2> DEFINE x == [app[s] EXCEPT !.wire = Append(@, m)]
  <2>1. x \in Sessions
    BY <1>0, <1>10, SessionsStay
  <2>2. app' = [app EXCEPT ![s] = x]
    BY <1>10 DEF Apps!Hears
  <2> HIDE DEF x
  <2> QED
    BY <1>0, <1>10, <2>1, <2>2, SessionsKept
<1>11. ASSUME NEW s \in Apps!Scopes, Apps!ServerAnswers(s) PROVE AppInv'
  <2>1. app[s] \in Sessions /\ app[s] # None
    BY <1>0, <1>11 DEF Apps!ServerAnswers, Apps!Live
  <2>2. [kind |-> "answer", id |-> app[s].id] \in Messages
    BY <2>1, SessionsStay DEF Messages
  <2> QED
    BY <1>10, <1>11, <2>1, <2>2 DEF Apps!ServerAnswers
<1>12. ASSUME NEW s \in Apps!Scopes, NEW n \in 1..MaxRequests, Apps!ServerAsks(s, n) PROVE AppInv'
  <2>1. [kind |-> "request", id |-> n] \in Messages
    BY DEF Messages
  <2> QED
    BY <1>10, <1>12, <2>1 DEF Apps!ServerAsks, Apps!Live
<1>13. CASE Apps!ReceiveMessage
  <2> DEFINE x == [app[holder] EXCEPT !.wire = Tail(@)]
             m == Head(app[holder].wire)
  <2>1. app[holder] \in Sessions /\ holder \in Apps!Scopes /\ holder # None
        /\ holder \in sent /\ app[holder].wire # <<>>
    BY <1>0, <1>13 DEF Apps!ReceiveMessage, AppInv, SentHasSession
  <2>2. x \in Sessions
    BY <2>1, SessionsStay
  <2>3. app' = [app EXCEPT ![holder] = x] /\ UNCHANGED fallback
    BY <1>13 DEF Apps!ReceiveMessage
  <2> HIDE DEF x
  <2>4. app' \in [Apps!Scopes -> Sessions \cup {None}] /\ app'[holder] # None
    BY <1>0, <2>1, <2>2, <2>3
  <2>5. \/ UNCHANGED <<forged, sent, holder, pendingCall>>
        \/ /\ forged' = (forged \/ m.kind # "answer") /\ m.kind = "answer" /\ holder' = None
           /\ \/ sent' = sent \ {holder} /\ pendingCall' = pendingCall \ {holder}
              \/ UNCHANGED <<sent, pendingCall>>
    BY <1>13, Zenon DEF Apps!ReceiveMessage, Apps!Mine
  <2>6. ~forged /\ sent \ {Probe} \subseteq pendingCall /\ sent \ {Probe} \subseteq pendingCall \ fallback
    BY DEF AppInv, CallsAnswered, Apps!CallsAnswered
  <2>7. ~forged'
    BY <2>5, <2>6
  <2> QED
    BY <1>0, <2>1, <2>3, <2>4, <2>5, <2>6, <2>7
    DEF AppInv, AppTypeOK, LockOnRecord, SentHasSession, NoOtherRoute, CallsAnswered,
        Apps!CallsAnswered
<1>14. CASE Apps!OutcomeUncertain
  BY <1>0, <1>14 DEF Apps!OutcomeUncertain, AppInv, AppTypeOK, LockOnRecord, SentHasSession,
     NoOtherRoute, CallsAnswered, Apps!CallsAnswered
<1>15. ASSUME NEW c \in Conversations, Apps!ResolveCall(c) PROVE AppInv'
  BY <1>0, <1>15 DEF Apps!ResolveCall, AppInv, AppTypeOK, LockOnRecord, SentHasSession,
     NoOtherRoute, CallsAnswered, Apps!CallsAnswered
<1>16. CASE UNCHANGED Apps!appVars
  BY <1>16 DEF Apps!appVars, AppInv, AppTypeOK, LockOnRecord, SentHasSession, NoOtherRoute,
     CallsAnswered, Apps!CallsAnswered
<1> QED
  BY <1>1, <1>2, <1>3, <1>4, <1>5, <1>6, <1>7, <1>8, <1>9, <1>11, <1>12, <1>13, <1>14, <1>15,
     <1>16
  DEF Apps!AppNext

(* What a caller takes for the answer is the answer to its request, and a    *)
(* call that went out without one stays on record and has no other route,    *)
(* though sessions are given up, started again and shared out (mcp.rs).      *)
THEOREM CallsAreAnswered == Apps!AppSpec => []CallsAnswered
<1>1. Apps!AppInit => AppInv
  BY AppInvInit
<1>2. AppInv /\ [Apps!AppNext]_(Apps!appVars) => AppInv'
  BY AppInvNext
<1>3. AppInv => CallsAnswered
  BY DEF AppInv
<1> QED
  BY <1>1, <1>2, <1>3, PTL DEF Apps!AppSpec

-----------------------------------------------------------------------------
(* Public pages: what the evidence of a source says of the contacts made.   *)
Entry == [source : Web!Sources, ok : BOOLEAN, code : Web!Codes \cup {None},
          repeat : BOOLEAN, page : WebPages \cup {None}]
Asked == Web!Fetches \X WebPages

(* The entries that stand, with their sources: those that allowed one more  *)
(* try, and those that allowed none.                                        *)
Standing == {w \in Nat \X Asked :
               /\ w[1] \in DOMAIN window /\ window[w[1]].source = w[2] /\ Web!Stands(w[1])}
Retries == {w \in Standing : Web!Retriable(window[w[1]])}
Refusals == {w \in Standing : ~Web!Retriable(window[w[1]])}

ReachTypeOK ==
    /\ window \in Seq(Entry) /\ shown \in WebPages \cup {None}
    /\ tries \in [Web!Sources -> [failed : Nat, final : BOOLEAN]]

(* Contacts that failed are on record.                                      *)
Recorded == \A s \in Asked :
    /\ tries[s].failed <= 2
    /\ tries[s].failed >= 1 => \E i \in Nat : <<i, s>> \in Retries
    /\ tries[s].failed >= 2 => \E i, k \in Nat : k < i /\ <<i, s>> \in Retries /\ <<k, s>> \in Retries
    /\ tries[s].final => \E i \in Nat : <<i, s>> \in Refusals

ReachInv == ReachTypeOK /\ Recorded

(* A source with an entry that blocks it is blocked.                        *)
LEMMA BlockedByEntry ==
  ASSUME NEW s, window \in Seq(Entry),
         NEW i \in DOMAIN window, window[i].source = s, Web!Blocking(i)
  PROVE  Web!BlockOf(s) # {}
<1> DEFINE H == {j \in DOMAIN window : window[j].source = s /\ Web!Blocking(j)}
<1>1. DOMAIN window \subseteq Nat
  OBVIOUS
<1>2. H \subseteq Nat /\ H # {}
  BY <1>1
<1> DEFINE R == {ss \in Nat \X Nat : ss[1] < ss[2]}
<1>6. IsWellFoundedOn(R, Nat)
  BY NatLessThanWellFounded DEF OpToRel
<1>7. PICK m \in H : \A k \in H : ~(<<k, m>> \in R)
  <2> HIDE DEF R, H
  <2> QED
    BY <1>2, <1>6, WFMin
<1>3. m \in H /\ \A k \in H : ~(k < m)
  <2>1. m \in Nat /\ \A k \in H : k \in Nat
    BY <1>2
  <2> QED
    BY <1>7, <2>1
<1>4. m \in DOMAIN window /\ window[m].source = s /\ Web!Blocking(m)
  BY <1>3
<1>5. ~\E k \in DOMAIN window :
         k < m /\ window[k].source = window[m].source /\ Web!Blocking(k)
  BY <1>3, <1>4
<1>8. window[m] \in Web!BlockedSources
  BY <1>4, <1>5 DEF Web!BlockedSources
<1> QED
  BY <1>4, <1>8 DEF Web!BlockOf

LEMMA BlockedWhenSpent == ReachInv => Web!ContactsBounded
<1> SUFFICES ASSUME ReachInv, NEW s \in Asked
             PROVE  /\ tries[s].failed <= 2
                    /\ tries[s].failed >= 2 \/ tries[s].final => Web!BlockOf(s) # {}
  BY DEF Web!ContactsBounded, Asked
<1>1. ASSUME tries[s].failed >= 2 PROVE Web!BlockOf(s) # {}
  <2>1. PICK i \in Nat, k \in Nat : k < i /\ <<i, s>> \in Retries /\ <<k, s>> \in Retries
    BY <1>1 DEF ReachInv, Recorded
  <2>2. Web!Blocking(i)
    BY <2>1 DEF Retries, Standing, Web!Blocking
  <2> QED
    BY <2>1, <2>2, BlockedByEntry DEF Retries, Standing, ReachInv, ReachTypeOK
<1>2. ASSUME tries[s].final PROVE Web!BlockOf(s) # {}
  <2>1. PICK i \in Nat : <<i, s>> \in Refusals
    BY <1>2 DEF ReachInv, Recorded
  <2>2. Web!Blocking(i)
    BY <2>1 DEF Refusals, Standing, Web!Blocking
  <2> QED
    BY <2>1, <2>2, BlockedByEntry DEF Refusals, Standing, ReachInv, ReachTypeOK
<1> QED
  BY <1>1, <1>2 DEF ReachInv, Recorded

(* What an entry adds: it takes the standing of others only if it is clean. *)
LEMMA Noting ==
  ASSUME window \in Seq(Entry), NEW e \in Entry, window' = Append(window, e),
         NEW n, n = Len(window)
  PROVE  /\ window' \in Seq(Entry)
         /\ \A s \in Asked : e.source # s \/ ~Web!Clean(e) =>
              \A i \in Nat : /\ <<i, s>> \in Retries => <<i, s>> \in Retries'
                             /\ <<i, s>> \in Refusals => <<i, s>> \in Refusals'
         /\ n + 1 \in Nat /\ \A s \in Asked, i \in Nat : <<i, s>> \in Retries => i < n + 1
         /\ \A s \in Asked : e.source = s /\ e.code # None =>
              /\ Web!Retriable(e) => <<n + 1, s>> \in Retries'
              /\ ~Web!Retriable(e) => <<n + 1, s>> \in Refusals'
<1>1. /\ n \in Nat /\ window' \in Seq(Entry)
      /\ DOMAIN window = 1..n /\ DOMAIN window' = 1..(n + 1)
      /\ window'[n + 1] = e /\ \A i \in 1..n : window'[i] = window[i]
  OBVIOUS
<1>2. ASSUME NEW i \in 1..n, Web!Stands(i), window[i].source # e.source \/ ~Web!Clean(e)
      PROVE  Web!Stands(i)'
  <2>1. \A k \in 1..(n + 1) : k \in 1..n \/ k = n + 1
    BY <1>1
  <2> QED
    BY <1>1, <1>2, <2>1 DEF Web!Stands, Web!Clean
<1>3. e.code # None => Web!Stands(n + 1)'
  BY <1>1 DEF Web!Stands, Web!Clean
<1>4. ASSUME NEW s \in Asked, e.source # s \/ ~Web!Clean(e), NEW i \in Nat
      PROVE  /\ <<i, s>> \in Retries => <<i, s>> \in Retries'
             /\ <<i, s>> \in Refusals => <<i, s>> \in Refusals'
  <2>1. i \in 1..n => i \in 1..(n + 1)
    BY <1>1
  <2> QED
    BY <1>1, <1>2, <1>4, <2>1 DEF Retries, Refusals, Standing, Web!Retriable, Web!FinalForSource
<1>5. \A s \in Asked, i \in Nat : <<i, s>> \in Retries => i < n + 1
  BY <1>1 DEF Retries, Standing
<1>6. ASSUME NEW s \in Asked, e.source = s, e.code # None
      PROVE  /\ Web!Retriable(e) => <<n + 1, s>> \in Retries'
             /\ ~Web!Retriable(e) => <<n + 1, s>> \in Refusals'
  <2>1. n + 1 \in 1..(n + 1)
    BY <1>1
  <2> QED
    BY <1>1, <1>3, <1>6, <2>1 DEF Retries, Refusals, Standing, Web!Retriable, Web!FinalForSource
<1> QED
  BY <1>1, <1>4, <1>5, <1>6

Verdicts == {Web!Ok} \cup {Web!Fail(code) : code \in Web!Codes \cup {None}}

LEMMA ResultsAreVerdicts ==
  ASSUME NEW kind, NEW p, NEW result \in Web!Results(kind, p)
  PROVE  result \in Verdicts
<1> USE DEF Web!Codes
<1>1. ASSUME NEW a \in Web!Answers \cup {"text"} PROVE Web!Typed(a) \in Verdicts
  BY <1>1 DEF Web!Typed, Web!Answers, Verdicts
<1>2. ASSUME NEW a \in Web!Answers, NEW r \in Web!ReaderAnswers
      PROVE  Web!FetchWeb(a, r) \in Verdicts
  <2>1. Web!Ok \in Verdicts
    BY DEF Verdicts
  <2>2. r \in {"off", "unreachable", "other"} \/ r \in Web!Answers \cup {"text"}
    BY DEF Web!ReaderAnswers, Web!Answers
  <2> QED
    BY <1>1, <2>1, <2>2 DEF Web!FetchWeb
<1>3. ASSUME NEW m \in {"read", "unread", "timeout", "removed"},
             NEW t \in {"none", "unread", "timeout", "removed", "text"}, NEW b \in BOOLEAN
      PROVE  Web!Video(m, t, b) \in Verdicts
  BY <1>3 DEF Web!Video, Verdicts
<1>4. CASE p \in Videos
  <2>1. PICK m \in {"read", "unread", "timeout", "removed"},
             t \in {"none", "unread", "timeout", "removed", "text"} :
          result = Web!Video(m, t, kind = "video_transcript")
    BY <1>4 DEF Web!Results
  <2>2. (kind = "video_transcript") \in BOOLEAN
    OBVIOUS
  <2> QED
    BY <1>3, <2>1, <2>2
<1>5. CASE p \notin Videos
  <2>1. PICK a \in Web!Answers, r \in Web!ReaderAnswers : result = Web!FetchWeb(a, r)
    BY <1>5 DEF Web!Results
  <2> QED
    BY <1>2, <2>1
<1> QED
  BY <1>4, <1>5

LEMMA VerdictsAre ==
  ASSUME NEW result \in Verdicts
  PROVE  /\ result.ok \in BOOLEAN /\ result.code \in Web!Codes \cup {None}
         /\ result = Web!Ok <=> result.ok
         /\ result.ok => result.code = None
<1>1. CASE result = Web!Ok
  BY <1>1 DEF Web!Ok
<1>2. CASE \E code \in Web!Codes \cup {None} : result = Web!Fail(code)
  <2>1. PICK code \in Web!Codes \cup {None} : result = [ok |-> FALSE, code |-> code]
    BY <1>2 DEF Web!Fail
  <2>2. ~result.ok /\ result.ok \in BOOLEAN /\ result.code = code
    BY <2>1
  <2>3. Web!Ok.ok
    BY DEF Web!Ok
  <2> QED
    BY <2>2, <2>3
<1> QED
  BY <1>1, <1>2 DEF Verdicts

(* A step that notes what is not clean, and contacts no source of a fetch.  *)
LEMMA NotedKeeps ==
  ASSUME ReachInv, NEW e \in Entry, ~Web!Clean(e) \/ e.source \notin Asked,
         window' = Append(window, e),
         shown' \in WebPages \cup {None}, tries' \in [Web!Sources -> [failed : Nat, final : BOOLEAN]],
         \A s \in Asked : tries'[s] = tries[s]
  PROVE  ReachInv'
<1>1. PICK n : n = Len(window)
  OBVIOUS
<1>2. /\ window' \in Seq(Entry)
      /\ \A s \in Asked : \A i \in Nat : /\ <<i, s>> \in Retries => <<i, s>> \in Retries'
                                         /\ <<i, s>> \in Refusals => <<i, s>> \in Refusals'
  BY <1>1, Noting DEF ReachInv, ReachTypeOK
<1>3. ReachTypeOK'
  BY <1>2 DEF ReachTypeOK
<1>4. ASSUME NEW s \in Asked
      PROVE  /\ tries'[s].failed <= 2
             /\ tries'[s].failed >= 1 => \E i \in Nat : <<i, s>> \in Retries'
             /\ tries'[s].failed >= 2 =>
                  \E i, k \in Nat : k < i /\ <<i, s>> \in Retries' /\ <<k, s>> \in Retries'
             /\ tries'[s].final => \E i \in Nat : <<i, s>> \in Refusals'
  <2>1. tries'[s] = tries[s]
    OBVIOUS
  <2>2. \A i \in Nat : <<i, s>> \in Retries => <<i, s>> \in Retries'
    BY <1>2
  <2>3. \A i \in Nat : <<i, s>> \in Refusals => <<i, s>> \in Refusals'
    BY <1>2
  <2> QED
    BY <2>1, <2>2, <2>3 DEF ReachInv, Recorded
<1>5. Recorded'
  BY <1>4 DEF Recorded
<1> QED
  BY <1>3, <1>5 DEF ReachInv

LEMMA FetchKeeps ==
  ASSUME ReachInv, NEW kind \in Web!Fetches, NEW p \in WebPages, Web!Fetch(kind, p)
  PROVE  ReachInv'
<1> DEFINE s == Web!Source(kind, p)
<1>1. s \in Asked /\ s \in Web!Sources
  BY DEF Asked, Web!Source, Web!Sources
<1>2. PICK result \in Verdicts :
        Web!Note(s, result, FALSE, None) /\ Web!Contact(s, result)
  BY ResultsAreVerdicts DEF Web!Fetch
<1>3. UNCHANGED shown /\ Web!BlockOf(s) = {}
  BY DEF Web!Fetch
<1> HIDE DEF s
<1> DEFINE e == [source |-> s, ok |-> result.ok, code |-> result.code, repeat |-> FALSE,
                 page |-> None]
<1>4. e \in Entry /\ window' = Append(window, e)
  BY <1>1, <1>2, VerdictsAre DEF Entry, Web!Note
<1>5. tries[s].failed \in Nat /\ tries[s].failed < 2 /\ ~tries[s].final
  BY <1>1, <1>3, BlockedWhenSpent DEF Web!ContactsBounded, Asked, ReachInv, ReachTypeOK
<1>6. PICK n : n = Len(window)
  OBVIOUS
<1> HIDE DEF e
<1>7. /\ window' \in Seq(Entry)
      /\ \A x \in Asked : e.source # x \/ ~Web!Clean(e) =>
           \A i \in Nat : /\ <<i, x>> \in Retries => <<i, x>> \in Retries'
                          /\ <<i, x>> \in Refusals => <<i, x>> \in Refusals'
      /\ n + 1 \in Nat /\ \A x \in Asked, i \in Nat : <<i, x>> \in Retries => i < n + 1
      /\ \A x \in Asked : e.source = x /\ e.code # None =>
              /\ Web!Retriable(e) => <<n + 1, x>> \in Retries'
              /\ ~Web!Retriable(e) => <<n + 1, x>> \in Refusals'
  BY <1>4, <1>6, Noting DEF ReachInv, ReachTypeOK
<1>8. e.source = s /\ e.code = result.code /\ (Web!Clean(e) <=> result = Web!Ok)
      /\ (Web!Retriable(e) <=> e.code = "NETWORK")
  BY VerdictsAre DEF e, Web!Clean, Web!Retriable, Web!FinalForSource
<1>9. \A x \in Web!Sources : x # s => tries'[x] = tries[x]
  BY <1>2 DEF Web!Contact, ReachInv, ReachTypeOK
<1>10. CASE result = Web!Ok
  <2>1. tries' = [tries EXCEPT ![s] = [failed |-> 0, final |-> FALSE]]
    BY <1>2, <1>10 DEF Web!Contact
  <2>2. ReachTypeOK'
    BY <1>3, <1>7, <2>1 DEF ReachInv, ReachTypeOK
  <2>3. tries'[s].failed = 0 /\ ~tries'[s].final
    BY <1>1, <2>1 DEF ReachInv, ReachTypeOK
  <2>4. ASSUME NEW x \in Asked, x # s
        PROVE  /\ tries'[x].failed <= 2
               /\ tries'[x].failed >= 1 => \E i \in Nat : <<i, x>> \in Retries'
               /\ tries'[x].failed >= 2 =>
                    \E i, k \in Nat : k < i /\ <<i, x>> \in Retries' /\ <<k, x>> \in Retries'
               /\ tries'[x].final => \E i \in Nat : <<i, x>> \in Refusals'
    <3>1. tries'[x] = tries[x]
      BY <1>9, <2>4 DEF Asked, Web!Sources
    <3>3. e.source # x
      BY <1>8, <2>4
    <3>2. \A i \in Nat : /\ <<i, x>> \in Retries => <<i, x>> \in Retries'
                         /\ <<i, x>> \in Refusals => <<i, x>> \in Refusals'
      BY <1>7, <3>3
    <3> QED
      BY <3>1, <3>2 DEF ReachInv, Recorded
  <2>5. Recorded'
    BY <2>3, <2>4 DEF Recorded
  <2> QED
    BY <2>2, <2>5 DEF ReachInv
<1>11. CASE result # Web!Ok
  <2>1. tries' = [tries EXCEPT ![s] =
          [failed |-> tries[s].failed + (IF result.code = "NETWORK" THEN 1 ELSE 0),
           final |-> tries[s].final \/ result.code \notin {None, "NETWORK"}]]
    BY <1>2, <1>11 DEF Web!Contact
  <2>2. ReachTypeOK'
    BY <1>1, <1>3, <1>5, <1>7, <2>1 DEF ReachInv, ReachTypeOK
  <2>3. /\ tries'[s].failed = tries[s].failed + (IF result.code = "NETWORK" THEN 1 ELSE 0)
        /\ tries'[s].final <=> result.code \notin {None, "NETWORK"}
    BY <1>1, <1>5, <2>1 DEF ReachInv, ReachTypeOK
  <2>8. ~Web!Clean(e)
    BY <1>8, <1>11
  <2>4. \A x \in Asked : \A i \in Nat : /\ <<i, x>> \in Retries => <<i, x>> \in Retries'
                                        /\ <<i, x>> \in Refusals => <<i, x>> \in Refusals'
    BY <1>7, <2>8
  <2>5. /\ result.code = "NETWORK" => <<n + 1, s>> \in Retries'
        /\ result.code \notin {None, "NETWORK"} => <<n + 1, s>> \in Refusals'
    BY <1>1, <1>7, <1>8, ReachAssumption
  <2>6. ASSUME NEW x \in Asked
        PROVE  /\ tries'[x].failed <= 2
               /\ tries'[x].failed >= 1 => \E i \in Nat : <<i, x>> \in Retries'
               /\ tries'[x].failed >= 2 =>
                    \E i, k \in Nat : k < i /\ <<i, x>> \in Retries' /\ <<k, x>> \in Retries'
               /\ tries'[x].final => \E i \in Nat : <<i, x>> \in Refusals'
    <3>1. CASE x # s
      <4>1. tries'[x] = tries[x]
        BY <1>9, <3>1 DEF Asked, Web!Sources
      <4> QED
        BY <2>4, <4>1 DEF ReachInv, Recorded
    <3>2. CASE x = s /\ result.code = "NETWORK"
      <4>1. tries'[s].failed = tries[s].failed + 1 /\ ~tries'[s].final
        BY <2>3, <3>2
      <4>2. <<n + 1, s>> \in Retries' /\ n + 1 \in Nat
        BY <1>7, <2>5, <3>2
      <4>3. tries[s].failed >= 1 => \E k \in Nat : k < n + 1 /\ <<k, s>> \in Retries'
        BY <1>1, <1>7, <2>4 DEF ReachInv, Recorded
      <4>4. tries'[s].failed <= 2 /\ (tries'[s].failed >= 2 => tries[s].failed >= 1)
        BY <1>5, <4>1
      <4> QED
        BY <3>2, <4>1, <4>2, <4>3, <4>4
    <3>3. CASE x = s /\ result.code # "NETWORK"
      <4>1. tries'[s].failed = tries[s].failed
        BY <1>5, <2>3, <3>3
      <4>2. tries'[s].final => <<n + 1, s>> \in Refusals' /\ n + 1 \in Nat
        BY <1>7, <2>3, <2>5
      <4>3. tries[s].failed >= 1 => \E i \in Nat : <<i, s>> \in Retries'
        BY <1>1, <2>4 DEF ReachInv, Recorded
      <4> QED
        BY <1>5, <3>3, <4>1, <4>2, <4>3
    <3> QED
      BY <3>1, <3>2, <3>3
  <2>7. Recorded'
    BY <2>6 DEF Recorded
  <2> QED
    BY <2>2, <2>7 DEF ReachInv
<1> QED
  BY <1>10, <1>11

(* A block is an entry of its source, with a failure for a code.            *)
LEMMA BlocksAreEntries ==
  ASSUME ReachInv, NEW b \in Web!BlockedSources
  PROVE  b \in Entry /\ b.code # None
<1>1. PICK i \in DOMAIN window : b = window[i] /\ Web!Blocking(i)
  BY DEF Web!BlockedSources
<1> QED
  BY <1>1 DEF Web!Blocking, Web!Stands, ReachInv, ReachTypeOK

LEMMA RefusalKeeps ==
  ASSUME ReachInv, NEW b \in Web!BlockedSources, NEW p \in WebPages \cup {None},
         Web!Note(b.source, Web!Fail(b.code), TRUE, p), UNCHANGED <<tries, shown>>
  PROVE  ReachInv'
<1> DEFINE e == [source |-> b.source, ok |-> FALSE, code |-> b.code, repeat |-> TRUE, page |-> p]
<1>1. window' = Append(window, e)
  BY DEF Web!Note, Web!Fail
<1>2. e \in Entry /\ ~Web!Clean(e)
  BY BlocksAreEntries DEF Entry, Web!Clean
<1> HIDE DEF e
<1> QED
  BY <1>1, <1>2, NotedKeeps DEF ReachInv, ReachTypeOK

LEMMA SeenKeeps ==
  ASSUME ReachInv, NEW kind, NEW p \in WebPages, Web!Seen(kind, p), shown' \in WebPages \cup {None}
  PROVE  ReachInv'
<1> DEFINE s == Web!Source("browser", p)
<1>1. s \in Web!Sources /\ s \notin Asked
  BY DEF Asked, Web!Source, Web!Sources, Web!Fetches
<1>2. PICK result \in Verdicts : Web!Note(s, result, FALSE, p) /\ Web!Contact(s, result)
  BY DEF Web!Seen, Verdicts, Web!Codes
<1> HIDE DEF s
<1> DEFINE e == [source |-> s, ok |-> result.ok, code |-> result.code, repeat |-> FALSE, page |-> p]
<1>3. e \in Entry /\ window' = Append(window, e) /\ e.source \notin Asked
  BY <1>1, <1>2, VerdictsAre DEF Entry, Web!Note
<1>4. tries[s].failed \in Nat /\ tries[s].final \in BOOLEAN
  BY <1>1 DEF ReachInv, ReachTypeOK
<1>5. PICK n \in Nat, f \in BOOLEAN : tries' = [tries EXCEPT ![s] = [failed |-> n, final |-> f]]
  <2>1. CASE result = Web!Ok
    <3>1. tries' = [tries EXCEPT ![s] = [failed |-> 0, final |-> FALSE]]
      BY <1>2, <2>1 DEF Web!Contact
    <3> QED
      BY <3>1
  <2>2. CASE result # Web!Ok
    <3> DEFINE n == tries[s].failed + (IF result.code = "NETWORK" THEN 1 ELSE 0)
               f == tries[s].final \/ result.code \notin {None, "NETWORK"}
    <3>1. tries' = [tries EXCEPT ![s] = [failed |-> n, final |-> f]]
      BY <1>2, <2>2 DEF Web!Contact
    <3>2. n \in Nat /\ f \in BOOLEAN
      BY <1>4
    <3> HIDE DEF n, f
    <3> QED
      BY <3>1, <3>2
  <2> QED
    BY <2>1, <2>2
<1>6. /\ tries' \in [Web!Sources -> [failed : Nat, final : BOOLEAN]]
      /\ \A x \in Asked : tries'[x] = tries[x]
  BY <1>1, <1>5 DEF ReachInv, ReachTypeOK, Asked, Web!Sources
<1> HIDE DEF e
<1> QED
  BY <1>3, <1>6, NotedKeeps

LEMMA ReachInvInit == Web!ReachInit => ReachInv
<1> SUFFICES ASSUME Web!ReachInit PROVE ReachInv
  OBVIOUS
<1>1. window \in Seq(Entry)
  BY EmptySeq DEF Web!ReachInit
<1>2. tries \in [Web!Sources -> [failed : Nat, final : BOOLEAN]] /\ shown = None
      /\ \A s \in Asked : tries[s].failed = 0 /\ ~tries[s].final
  BY DEF Web!ReachInit, Asked, Web!Sources
<1> QED
  BY <1>1, <1>2 DEF ReachInv, ReachTypeOK, Recorded

LEMMA ReachInvNext == ReachInv /\ [Web!ReachNext]_(Web!reachVars) => ReachInv'
<1> SUFFICES ASSUME ReachInv, [Web!ReachNext]_(Web!reachVars) PROVE ReachInv'
  OBVIOUS
<1>1. ASSUME NEW p \in WebPages, NEW kind \in Web!Fetches, Web!Fetch(kind, p) PROVE ReachInv'
  BY <1>1, FetchKeeps
<1>2. ASSUME NEW p \in WebPages, NEW kind \in Web!Fetches, Web!RepeatOfBlocked(kind, p)
      PROVE  ReachInv'
  <2>1. PICK b \in Web!BlockOf(Web!Source(kind, p)) :
          Web!Note(b.source, Web!Fail(b.code), TRUE, None)
    BY <1>2 DEF Web!RepeatOfBlocked
  <2>2. b \in Web!BlockedSources /\ UNCHANGED <<tries, shown>>
    BY <1>2, <2>1 DEF Web!BlockOf, Web!RepeatOfBlocked
  <2> QED
    BY <2>1, <2>2, RefusalKeeps
<1>3. ASSUME NEW p \in WebPages, Web!OpenRefused(p) PROVE ReachInv'
  <2>1. PICK b \in Web!OpenBlocks(p) : Web!Note(b.source, Web!Fail(b.code), TRUE, p)
    BY <1>3 DEF Web!OpenRefused
  <2>2. b \in Web!BlockedSources /\ UNCHANGED <<tries, shown>>
    BY <1>3, <2>1 DEF Web!OpenBlocks, Web!OpenRefused
  <2> QED
    BY <2>1, <2>2, RefusalKeeps
<1>4. ASSUME NEW p \in WebPages, Web!OpenByFetch(p) PROVE ReachInv'
  <2>1. Web!Fetch("fetch_url", p) /\ "fetch_url" \in Web!Fetches
    BY <1>4 DEF Web!OpenByFetch, Web!Fetches
  <2> QED
    BY <2>1, FetchKeeps
<1>5. ASSUME NEW p \in WebPages, Web!OpenInBrowser(p) PROVE ReachInv'
  <2>1. Web!Seen("browser_open", p) /\ shown' = p
    BY <1>5 DEF Web!OpenInBrowser
  <2> QED
    BY <2>1, SeenKeeps
<1>6. ASSUME NEW kind \in Web!Looks, Web!LookRefused(kind) PROVE ReachInv'
  <2>1. PICK b \in Web!BlockOf(Web!Source("browser", Web!BrowserPage)) :
          Web!Note(b.source, Web!Fail(b.code), TRUE, Web!BrowserPage)
    BY <1>6 DEF Web!LookRefused
  <2>2. b \in Web!BlockedSources /\ b.source = <<"browser", Web!BrowserPage>>
        /\ UNCHANGED <<tries, shown>>
    BY <1>6, <2>1 DEF Web!BlockOf, Web!LookRefused, Web!Source
  <2>3. b.source \in Web!Sources
    BY <2>2, BlocksAreEntries DEF Entry
  <2>4. Web!BrowserPage \in WebPages
    BY <2>2, <2>3 DEF Web!Sources
  <2> QED
    BY <2>1, <2>2, <2>4, RefusalKeeps
<1>7. ASSUME NEW kind \in Web!Looks, Web!Look(kind) PROVE ReachInv'
  <2>1. Web!Seen(kind, shown) /\ shown \in WebPages /\ UNCHANGED shown
    BY <1>7 DEF Web!Look, ReachInv, ReachTypeOK
  <2> QED
    BY <2>1, SeenKeeps
<1>8. CASE UNCHANGED Web!reachVars
  <2>1. window' = window /\ shown' = shown /\ tries' = tries
    BY <1>8 DEF Web!reachVars
  <2>2. Standing' = Standing
    BY <2>1 DEF Standing, Web!Stands
  <2>3. Retries' = Retries /\ Refusals' = Refusals
    BY <2>1, <2>2 DEF Retries, Refusals
  <2>4. ReachTypeOK'
    BY <2>1 DEF ReachInv, ReachTypeOK
  <2>5. Recorded'
    BY <2>1, <2>3 DEF ReachInv, Recorded
  <2> QED
    BY <2>4, <2>5 DEF ReachInv
<1> QED
  BY <1>1, <1>2, <1>3, <1>4, <1>5, <1>6, <1>7, <1>8 DEF Web!ReachNext

(* A source is asked no more than it may be, in whatever order fetches,      *)
(* videos, the two ways of the browser and refusals come in the evidence,    *)
(* for any pages on any hosts.                                               *)
THEOREM SourcesAreSpared == Web!ReachSpec => []ContactsBounded
<1>1. ReachInv => ContactsBounded
  BY BlockedWhenSpent DEF ContactsBounded
<1> QED
  BY <1>1, ReachInvInit, ReachInvNext, PTL DEF Web!ReachSpec

-----------------------------------------------------------------------------
(* WorkspaceFiles, for any runs, files and editors.  The editor never      *)
(* writes bytes that were there before, so a cell that reads the same at   *)
(* the last check was the same when the patch was staged.                  *)
Cells(f) == [1..2 -> 0..(f - 1)]
Reads(a, bs, f) ==
  /\ a.body \in DOMAIN bs
  /\ a.read \in Seq(0..(f - 1)) /\ Len(a.read) <= 2
Moving(a) ==
  a.act = "move" /\ DOMAIN a = {"act", "from", "to"} /\ a.from \in Paths /\ a.to \in Paths
Copying(a, bs, f) ==
  /\ a.act = "copy" /\ DOMAIN a = {"act", "path", "body", "read"} /\ a.path \in Paths
  /\ Reads(a, bs, f)
Patching(a, bs, f) ==
  /\ a.act \in {"digest", "stage", "recheck", "publish"}
  /\ DOMAIN a = {"act", "path", "body", "opened", "expected", "read", "staged"}
  /\ a.path \in Paths /\ Reads(a, bs, f)
  /\ a.opened \in DOMAIN bs /\ a.expected \in Cells(f)
  /\ a.act \in {"recheck", "publish"} => a.staged \in Cells(f)
\* What was read of the opened body is what is there, or is no longer asked for.
Honest(a, bs) ==
  /\ a.act \in {"digest", "stage"} => a.body = a.opened
  /\ a.act = "stage" /\ Len(a.read) = 2 /\ bs[a.opened][2] = a.expected[2] => a.read[2] = a.expected[2]
  /\ a.act = "recheck" /\ a.body = a.opened =>
       /\ bs[a.opened][2] = a.expected[2] => a.staged[2] = a.expected[2]
       /\ Len(a.read) = 2 /\ a.read[2] = a.expected[2] => a.staged[2] = a.expected[2]
  /\ a.act = "publish" /\ a.body = a.opened => a.staged[2] = a.expected[2]
GoodAct(a, bs, f) ==
  \/ a = Resting
  \/ Moving(a)
  \/ Copying(a, bs, f)
  \/ Patching(a, bs, f) /\ Honest(a, bs)

FilesTypeOK ==
  /\ fresh \in Nat /\ fresh >= 1
  /\ bodies \in Seq(Cells(fresh))
  /\ names \in [Paths -> 0..Len(bodies)]
  /\ DOMAIN acting = Runs
ActsAreGood == \A r \in Runs : GoodAct(acting[r], bodies, fresh)
FilesInv == FilesTypeOK /\ ActsAreGood /\ PatchIsExact

LEMMA CellsGrow ==
  ASSUME NEW f \in Nat, NEW g \in Nat, f <= g
  PROVE  0..(f - 1) \subseteq 0..(g - 1) /\ Cells(f) \subseteq Cells(g)
<1>1. 0..(f - 1) \subseteq 0..(g - 1)
  OBVIOUS
<1> QED
  BY <1>1 DEF Cells

LEMMA SeqGrows ==
  ASSUME NEW S, NEW T, S \subseteq T, NEW s \in Seq(S)
  PROVE  s \in Seq(T)
<1>1. s \in [1..Len(s) -> T] /\ Len(s) \in Nat
  OBVIOUS
<1> QED
  BY <1>1, SeqDef

\* Bodies are added, and the cells of those that were there stay as they are.
LEMMA GoodWithMore ==
  ASSUME NEW a, NEW bs, NEW f \in Nat, GoodAct(a, bs, f), NEW g \in Nat, f <= g,
         NEW after, DOMAIN bs \subseteq DOMAIN after, \A b \in DOMAIN bs : after[b] = bs[b]
  PROVE  GoodAct(a, after, g)
<1>1. CASE a = Resting \/ Moving(a)
  BY <1>1 DEF GoodAct
<1>2. Reads(a, bs, f) => Reads(a, after, g)
  BY CellsGrow, SeqGrows DEF Reads
<1>3. CASE Copying(a, bs, f)
  BY <1>2, <1>3 DEF GoodAct, Copying
<1>4. CASE Patching(a, bs, f) /\ Honest(a, bs)
  <2>1. Patching(a, after, g)
    BY <1>2, <1>4, CellsGrow DEF Patching
  <2>2. after[a.opened] = bs[a.opened]
    BY <1>4 DEF Patching
  <2>3. Honest(a, after)
    BY <1>4, <2>2 DEF Honest
  <2> QED
    BY <2>1, <2>3 DEF GoodAct
<1> QED
  BY <1>1, <1>3, <1>4 DEF GoodAct

\* One cell gets bytes that were nowhere before.
LEMMA GoodAfterEdit ==
  ASSUME NEW f \in Nat, NEW a, NEW bs \in Seq(Cells(f)), GoodAct(a, bs, f),
         NEW b \in DOMAIN bs, NEW cell \in 1..2
  PROVE  GoodAct(a, [bs EXCEPT ![b][cell] = f], f + 1)
<1> DEFINE after == [bs EXCEPT ![b][cell] = f]
<1>0. DOMAIN after = DOMAIN bs
  OBVIOUS
<1>1. \A d \in DOMAIN bs : after[d][2] = bs[d][2] \/ after[d][2] = f
  BY DEF Cells
<1> HIDE DEF after
<1>2. CASE a = Resting \/ Moving(a)
  BY <1>2 DEF GoodAct
<1>3. Reads(a, bs, f) => Reads(a, after, f + 1)
  BY <1>0, CellsGrow, SeqGrows DEF Reads
<1>4. CASE Copying(a, bs, f)
  BY <1>3, <1>4 DEF GoodAct, Copying, after
<1>5. CASE Patching(a, bs, f) /\ Honest(a, bs)
  <2>1. Patching(a, after, f + 1)
    <3>1. Cells(f) \subseteq Cells(f + 1)
      BY CellsGrow
    <3> QED
      BY <1>0, <1>3, <1>5, <3>1 DEF Patching
  <2>2. a.opened \in DOMAIN bs /\ a.expected[2] # f
    BY <1>5 DEF Patching, Cells
  <2>3. after[a.opened][2] = a.expected[2] => bs[a.opened][2] = a.expected[2]
    BY <1>1, <2>2
  <2>4. Honest(a, after)
    BY <1>5, <2>3 DEF Honest
  <2> QED
    BY <2>1, <2>4 DEF GoodAct, after
<1> QED
  BY <1>2, <1>4, <1>5 DEF GoodAct

\* A run takes a step of its own, and nothing else changes.
LEMMA OneActs ==
  ASSUME FilesInv, NEW r \in Runs, NEW a, GoodAct(a, bodies, fresh),
         acting' = [acting EXCEPT ![r] = a], UNCHANGED <<names, bodies, fresh, patched>>
  PROVE  FilesInv'
<1>1. FilesTypeOK'
  BY DEF FilesInv, FilesTypeOK
<1>2. \A q \in Runs : acting'[q] = a \/ acting'[q] = acting[q]
  BY DEF FilesInv, FilesTypeOK
<1>3. ActsAreGood'
  BY <1>2 DEF FilesInv, ActsAreGood
<1>4. PatchIsExact'
  BY DEF FilesInv, PatchIsExact
<1> QED
  BY <1>1, <1>3, <1>4 DEF FilesInv

\* A body is published; whoever publishes it is at rest afterwards.
LEMMA BodyPublished ==
  ASSUME FilesInv, NEW p \in Paths, fresh' \in {fresh, fresh + 1}, NEW content \in Cells(fresh'),
         Publish(p, content),
         DOMAIN acting' = Runs, \A q \in Runs : acting'[q] = Resting \/ acting'[q] = acting[q]
  PROVE  FilesTypeOK' /\ ActsAreGood'
<1>1. /\ fresh \in Nat /\ fresh >= 1 /\ fresh' \in Nat /\ fresh' >= 1 /\ fresh <= fresh'
      /\ bodies \in Seq(Cells(fresh)) /\ names \in [Paths -> 0..Len(bodies)]
  BY DEF FilesInv, FilesTypeOK
<1>2. bodies' = Append(bodies, content) /\ names' = [names EXCEPT ![p] = Len(bodies')]
  BY DEF Publish
<1>3. bodies \in Seq(Cells(fresh'))
  BY <1>1, CellsGrow, SeqGrows
<1>4. /\ bodies' \in Seq(Cells(fresh')) /\ Len(bodies') = Len(bodies) + 1
      /\ \A i \in 1..Len(bodies) : bodies'[i] = bodies[i]
  BY <1>2, <1>3, AppendProperties
<1>5. Len(bodies) \in Nat /\ names' \in [Paths -> 0..Len(bodies')]
  BY <1>1, <1>2, <1>4
<1>6. FilesTypeOK'
  BY <1>1, <1>4, <1>5 DEF FilesTypeOK
<1>7. DOMAIN bodies \subseteq DOMAIN bodies' /\ \A b \in DOMAIN bodies : bodies'[b] = bodies[b]
  BY <1>1, <1>4
<1>8. ASSUME NEW q \in Runs PROVE GoodAct(acting'[q], bodies', fresh')
  <2>1. GoodAct(acting[q], bodies, fresh)
    BY DEF FilesInv, ActsAreGood
  <2>2. GoodAct(acting[q], bodies', fresh')
    BY <1>1, <1>7, <2>1, GoodWithMore
  <2>3. GoodAct(Resting, bodies', fresh')
    BY DEF GoodAct
  <2> QED
    BY <2>2, <2>3
<1> QED
  BY <1>6, <1>8 DEF ActsAreGood

LEMMA RestIsGood == GoodAct(Resting, bodies, fresh)
  BY DEF GoodAct

LEMMA NamesLead ==
  ASSUME FilesInv, NEW p \in Paths, Exists(p)
  PROVE  names[p] \in DOMAIN bodies /\ bodies[names[p]] \in Cells(fresh)
  BY DEF FilesInv, FilesTypeOK, Exists, Gone

LEMMA NamesChange ==
  ASSUME FilesInv, names' \in [Paths -> 0..Len(bodies)], UNCHANGED <<bodies, fresh, patched>>,
         DOMAIN acting' = Runs, \A q \in Runs : acting'[q] = Resting \/ acting'[q] = acting[q]
  PROVE  FilesInv'
<1>1. FilesTypeOK'
  BY DEF FilesInv, FilesTypeOK
<1>2. ActsAreGood'
  BY RestIsGood DEF FilesInv, ActsAreGood
<1>3. PatchIsExact'
  BY DEF FilesInv, PatchIsExact
<1> QED
  BY <1>1, <1>2, <1>3 DEF FilesInv

LEMMA PlainActionsKeep ==
  ASSUME FilesInv, NEW r \in Runs, NEW p \in Paths, NEW q \in Paths,
         WriteFile(r, p) \/ DeletePath(r, p) \/ MoveFile(r, p, q) \/ CopyFile(r, p, q) \/ Rename(r)
  PROVE  FilesInv'
<1>0. fresh \in Nat /\ fresh >= 1 /\ names \in [Paths -> 0..Len(bodies)] /\ DOMAIN acting = Runs
      /\ Len(bodies) \in Nat
  BY DEF FilesInv, FilesTypeOK
<1>1. CASE WriteFile(r, p)
  <2>1. /\ Publish(p, <<fresh, fresh>>) /\ fresh' = fresh + 1 /\ acting' = acting
        /\ patched' = patched
    BY <1>1 DEF WriteFile
  <2>2. <<fresh, fresh>> \in Cells(fresh')
    BY <1>0, <2>1 DEF Cells
  <2>3. FilesTypeOK' /\ ActsAreGood'
    BY <1>0, <2>1, <2>2, BodyPublished
  <2>4. PatchIsExact'
    BY <2>1 DEF FilesInv, PatchIsExact
  <2> QED
    BY <2>3, <2>4 DEF FilesInv
<1>2. CASE DeletePath(r, p)
  <2>1. names' = [names EXCEPT ![p] = Gone] /\ UNCHANGED <<bodies, acting, fresh, patched>>
    BY <1>2 DEF DeletePath
  <2>2. names' \in [Paths -> 0..Len(bodies)]
    BY <1>0, <2>1 DEF Gone
  <2> QED
    BY <1>0, <2>1, <2>2, NamesChange
<1>3. CASE MoveFile(r, p, q)
  <2> DEFINE a == [act |-> "move", from |-> p, to |-> q]
  <2>1. acting' = [acting EXCEPT ![r] = a] /\ UNCHANGED <<names, bodies, fresh, patched>>
    BY <1>3 DEF MoveFile
  <2>2. GoodAct(a, bodies, fresh)
    BY DEF GoodAct, Moving
  <2> QED
    BY <2>1, <2>2, OneActs
<1>4. CASE CopyFile(r, p, q)
  <2> DEFINE a == [act |-> "copy", path |-> q, body |-> names[p], read |-> << >>]
  <2>1. /\ acting' = [acting EXCEPT ![r] = a] /\ UNCHANGED <<names, bodies, fresh, patched>>
        /\ Exists(p)
    BY <1>4 DEF CopyFile
  <2>2. names[p] \in DOMAIN bodies
    BY <2>1, NamesLead
  <2>3. Reads(a, bodies, fresh)
    BY <2>2 DEF Reads
  <2>4. Copying(a, bodies, fresh)
    BY <2>3 DEF Copying
  <2>5. GoodAct(a, bodies, fresh)
    BY <2>4 DEF GoodAct
  <2> QED
    BY <2>1, <2>5, OneActs
<1>5. CASE Rename(r)
  <2> DEFINE from == acting[r].from
             to == acting[r].to
  <2>1. /\ names' = IF Exists(from) THEN [names EXCEPT ![to] = names[from], ![from] = Gone]
                    ELSE names
        /\ acting' = [acting EXCEPT ![r] = Resting] /\ UNCHANGED <<bodies, fresh, patched>>
        /\ acting[r].act = "move"
    BY <1>5 DEF Rename, Ends
  <2>2. from \in Paths
    BY <2>1 DEF FilesInv, ActsAreGood, GoodAct, Moving, Copying, Patching, Resting
  <2> HIDE DEF from, to
  <2>3. names' \in [Paths -> 0..Len(bodies)]
    BY <1>0, <2>1, <2>2 DEF Gone
  <2>4. DOMAIN acting' = Runs /\ \A s \in Runs : acting'[s] = Resting \/ acting'[s] = acting[s]
    BY <1>0, <2>1
  <2> QED
    BY <2>1, <2>3, <2>4, NamesChange
<1> QED
  BY <1>1, <1>2, <1>3, <1>4, <1>5

\* Two cells that were read are a body's.
LEMMA ReadIsABody ==
  ASSUME NEW f \in Nat, NEW s \in Seq(0..(f - 1)), Len(s) = 2
  PROVE  s \in Cells(f) /\ s[2] \in 0..(f - 1)
<1>1. s \in [1..2 -> 0..(f - 1)]
  <2>1. s \in [1..Len(s) -> 0..(f - 1)]
    BY LenProperties
  <2> QED
    BY <2>1
<1> QED
  BY <1>1 DEF Cells

LEMMA PatchingRun ==
  ASSUME FilesInv, NEW r \in Runs, acting[r].act \in {"digest", "stage", "recheck", "publish"}
  PROVE  Patching(acting[r], bodies, fresh) /\ Honest(acting[r], bodies)
  BY DEF FilesInv, ActsAreGood, GoodAct, Moving, Copying, Resting

LEMMA ReadCellKeeps ==
  ASSUME FilesInv, NEW r \in Runs, ReadCell(r)
  PROVE  FilesInv'
<1> DEFINE a == acting[r]
           cell == bodies[a.body][Len(a.read) + 1]
           b == [a EXCEPT !.read = Append(a.read, cell)]
<1>1. /\ a.act \in {"copy", "digest", "stage", "recheck"} /\ Len(a.read) < 2
      /\ acting' = [acting EXCEPT ![r] = b] /\ UNCHANGED <<names, bodies, fresh, patched>>
  BY DEF ReadCell
<1>2. GoodAct(a, bodies, fresh) /\ bodies \in Seq(Cells(fresh)) /\ fresh \in Nat /\ fresh >= 1
  BY DEF FilesInv, ActsAreGood, FilesTypeOK
<1>3. Copying(a, bodies, fresh) \/ (Patching(a, bodies, fresh) /\ Honest(a, bodies))
  BY <1>1, <1>2 DEF GoodAct, Moving, Resting
<1>4. Reads(a, bodies, fresh) /\ "read" \in DOMAIN a
  BY <1>3 DEF Copying, Patching
<1>5. cell \in 0..(fresh - 1)
  <2>1. bodies[a.body] \in Cells(fresh) /\ Len(a.read) + 1 \in 1..2
    BY <1>1, <1>2, <1>4 DEF Reads
  <2> QED
    BY <2>1 DEF Cells
<1>6. /\ Append(a.read, cell) \in Seq(0..(fresh - 1))
      /\ Len(Append(a.read, cell)) = Len(a.read) + 1
      /\ Len(a.read) + 1 = 2 => Append(a.read, cell)[2] = bodies[a.body][2]
  BY <1>4, <1>5, AppendProperties DEF Reads
<1>7. Len(a.read) \in Nat
  BY <1>4 DEF Reads
<1>8. /\ DOMAIN b = DOMAIN a /\ b.read = Append(a.read, cell)
      /\ \A x \in DOMAIN a : x # "read" => b[x] = a[x]
  BY <1>4
<1> HIDE DEF a, cell, b
<1>9. CASE Copying(a, bodies, fresh)
  <2>1. b.act = "copy" /\ b.path = a.path /\ b.body = a.body
    BY <1>8, <1>9 DEF Copying
  <2>2. Reads(b, bodies, fresh)
    BY <1>1, <1>4, <1>6, <1>7, <1>8, <2>1 DEF Reads
  <2>3. Copying(b, bodies, fresh)
    BY <1>8, <1>9, <2>1, <2>2 DEF Copying
  <2> QED
    BY <1>1, <2>3, OneActs DEF GoodAct
<1>10. CASE Patching(a, bodies, fresh) /\ Honest(a, bodies)
  <2>1. /\ b.act = a.act /\ b.path = a.path /\ b.body = a.body /\ b.opened = a.opened
        /\ b.expected = a.expected /\ b.staged = a.staged
    BY <1>8, <1>10 DEF Patching
  <2>2. Reads(b, bodies, fresh)
    BY <1>1, <1>4, <1>6, <1>7, <1>8, <2>1 DEF Reads
  <2>3. Patching(b, bodies, fresh)
    BY <1>8, <1>10, <2>1, <2>2 DEF Patching
  <2>4. Len(b.read) = 2 => b.read[2] = bodies[a.body][2]
    BY <1>6, <1>8
  <2>5. Honest(b, bodies)
    BY <1>1, <1>10, <2>1, <2>4 DEF Honest
  <2> QED
    BY <1>1, <2>3, <2>5, OneActs DEF GoodAct
<1> QED
  BY <1>3, <1>9, <1>10

LEMMA PatchFileKeeps ==
  ASSUME FilesInv, NEW r \in Runs, NEW p \in Paths, PatchFile(r, p)
  PROVE  FilesInv'
<1>1. PICK b \in DOMAIN bodies :
        acting' = [acting EXCEPT ![r] = [act |-> "digest", path |-> p, body |-> names[p],
                                         opened |-> names[p], expected |-> bodies[b],
                                         read |-> << >>, staged |-> << >>]]
  BY DEF PatchFile
<1> DEFINE a == [act |-> "digest", path |-> p, body |-> names[p], opened |-> names[p],
                 expected |-> bodies[b], read |-> << >>, staged |-> << >>]
<1>2. UNCHANGED <<names, bodies, fresh, patched>> /\ Exists(p)
  BY DEF PatchFile
<1>3. names[p] \in DOMAIN bodies /\ bodies[b] \in Cells(fresh)
  BY <1>2, NamesLead DEF FilesInv, FilesTypeOK
<1>4. Reads(a, bodies, fresh)
  BY <1>3 DEF Reads
<1>5. Patching(a, bodies, fresh)
  BY <1>3, <1>4 DEF Patching
<1>6. Honest(a, bodies)
  BY DEF Honest
<1>7. GoodAct(a, bodies, fresh)
  BY <1>5, <1>6 DEF GoodAct
<1> QED
  BY <1>1, <1>2, <1>7, OneActs

LEMMA CheckDigestKeeps ==
  ASSUME FilesInv, NEW r \in Runs, CheckDigest(r)
  PROVE  FilesInv'
<1> DEFINE a == acting[r]
           b == [a EXCEPT !.act = "stage", !.read = << >>]
<1>1. /\ a.act = "digest" /\ UNCHANGED <<names, bodies, fresh, patched>>
      /\ acting' = [acting EXCEPT ![r] = b] \/ acting' = [acting EXCEPT ![r] = Resting]
  BY DEF CheckDigest, HasRead, Ends
<1>2. Patching(a, bodies, fresh) /\ Honest(a, bodies)
  BY <1>1, PatchingRun
<1>3. DOMAIN a = {"act", "path", "body", "opened", "expected", "read", "staged"}
  BY <1>2 DEF Patching
<1>4. /\ DOMAIN b = DOMAIN a /\ b.act = "stage" /\ b.read = << >> /\ b.path = a.path
      /\ b.body = a.body /\ b.opened = a.opened /\ b.expected = a.expected
  BY <1>3
<1> HIDE DEF a, b
<1>5. Reads(b, bodies, fresh)
  BY <1>2, <1>4 DEF Reads, Patching
<1>6. Patching(b, bodies, fresh)
  BY <1>2, <1>4, <1>5 DEF Patching
<1>7. Honest(b, bodies)
  BY <1>1, <1>2, <1>4 DEF Honest
<1>8. GoodAct(b, bodies, fresh)
  BY <1>6, <1>7 DEF GoodAct
<1> QED
  BY <1>1, <1>8, RestIsGood, OneActs

LEMMA StagePatchKeeps ==
  ASSUME FilesInv, NEW r \in Runs, StagePatch(r)
  PROVE  FilesInv'
<1> DEFINE a == acting[r]
           b == [a EXCEPT !.act = "recheck", !.staged = <<Replacement, a.read[2]>>,
                          !.body = names[a.path], !.read = << >>]
<1>1. /\ a.act = "stage" /\ Len(a.read) = 2 /\ UNCHANGED <<names, bodies, fresh, patched>>
      /\ \/ Exists(a.path) /\ acting' = [acting EXCEPT ![r] = b]
         \/ acting' = [acting EXCEPT ![r] = Resting]
  BY DEF StagePatch, HasRead, Ends
<1>2. Patching(a, bodies, fresh) /\ Honest(a, bodies) /\ fresh \in Nat /\ fresh >= 1
  BY <1>1, PatchingRun DEF FilesInv, FilesTypeOK
<1>3. DOMAIN a = {"act", "path", "body", "opened", "expected", "read", "staged"}
  BY <1>2 DEF Patching
<1>4. /\ DOMAIN b = DOMAIN a /\ b.act = "recheck" /\ b.read = << >> /\ b.path = a.path
      /\ b.body = names[a.path] /\ b.opened = a.opened /\ b.expected = a.expected
      /\ b.staged = <<Replacement, a.read[2]>>
  BY <1>3
<1>5. Exists(a.path) => names[a.path] \in DOMAIN bodies
  BY <1>2, NamesLead DEF Patching
<1> HIDE DEF a, b
<1>6. a.read \in Seq(0..(fresh - 1)) /\ a.read[2] \in 0..(fresh - 1)
  BY <1>1, <1>2, ReadIsABody DEF Patching, Reads
<1>7. b.staged \in Cells(fresh) /\ b.staged[2] = a.read[2]
  BY <1>2, <1>4, <1>6 DEF Cells, Replacement
<1>8. ASSUME Exists(a.path) PROVE GoodAct(b, bodies, fresh)
  <2>1. Reads(b, bodies, fresh)
    BY <1>4, <1>5, <1>8 DEF Reads
  <2>2. Patching(b, bodies, fresh)
    BY <1>2, <1>4, <1>7, <2>1 DEF Patching
  <2>3. bodies[a.opened][2] = a.expected[2] => a.read[2] = a.expected[2]
    BY <1>1, <1>2 DEF Honest
  <2>4. Honest(b, bodies)
    BY <1>4, <1>7, <2>3 DEF Honest
  <2> QED
    BY <2>2, <2>4 DEF GoodAct
<1> QED
  BY <1>1, <1>8, RestIsGood, OneActs

LEMMA RecheckKeeps ==
  ASSUME FilesInv, NEW r \in Runs, Recheck(r)
  PROVE  FilesInv'
<1> DEFINE a == acting[r]
           b == [a EXCEPT !.act = "publish"]
<1>1. /\ a.act = "recheck" /\ Len(a.read) = 2 /\ UNCHANGED <<names, bodies, fresh, patched>>
      /\ \/ a.read = a.expected /\ acting' = [acting EXCEPT ![r] = b]
         \/ acting' = [acting EXCEPT ![r] = Resting]
  BY DEF Recheck, HasRead, Ends, Unchanged
<1>2. Patching(a, bodies, fresh) /\ Honest(a, bodies)
  BY <1>1, PatchingRun
<1>3. DOMAIN a = {"act", "path", "body", "opened", "expected", "read", "staged"}
  BY <1>2 DEF Patching
<1>4. /\ DOMAIN b = DOMAIN a /\ b.act = "publish" /\ b.read = a.read /\ b.path = a.path
      /\ b.body = a.body /\ b.opened = a.opened /\ b.expected = a.expected
      /\ b.staged = a.staged
  BY <1>3
<1> HIDE DEF a, b
<1>5. Reads(b, bodies, fresh)
  BY <1>2, <1>4 DEF Reads, Patching
<1>6. Patching(b, bodies, fresh)
  BY <1>1, <1>2, <1>4, <1>5 DEF Patching
<1>7. a.read = a.expected => Honest(b, bodies)
  BY <1>1, <1>2, <1>4 DEF Honest
<1>8. a.read = a.expected => GoodAct(b, bodies, fresh)
  BY <1>6, <1>7 DEF GoodAct
<1> QED
  BY <1>1, <1>8, RestIsGood, OneActs

LEMMA PublicationsKeep ==
  ASSUME FilesInv, NEW r \in Runs, PublishCopy(r) \/ PublishPatch(r)
  PROVE  FilesInv'
<1> DEFINE a == acting[r]
<1>0. DOMAIN acting = Runs /\ fresh \in Nat
  BY DEF FilesInv, FilesTypeOK
<1>1. CASE PublishCopy(r)
  <2>1. /\ a.act = "copy" /\ Len(a.read) = 2 /\ Publish(a.path, a.read)
        /\ acting' = [acting EXCEPT ![r] = Resting] /\ fresh' = fresh /\ patched' = patched
    BY <1>1 DEF PublishCopy, Ends
  <2>2. Copying(a, bodies, fresh)
    BY <2>1 DEF FilesInv, ActsAreGood, GoodAct, Moving, Patching, Resting
  <2>3. a.path \in Paths /\ a.read \in Cells(fresh')
    BY <1>0, <2>1, <2>2, ReadIsABody DEF Copying, Reads
  <2>4. DOMAIN acting' = Runs /\ \A q \in Runs : acting'[q] = Resting \/ acting'[q] = acting[q]
    BY <1>0, <2>1
  <2> HIDE DEF a
  <2>5. FilesTypeOK' /\ ActsAreGood'
    BY <2>1, <2>3, <2>4, BodyPublished
  <2> QED
    BY <2>1, <2>5 DEF FilesInv, PatchIsExact
<1>2. CASE PublishPatch(r)
  <2> DEFINE new == [asked |-> a.expected, published |-> a.staged, same |-> a.opened = a.body]
  <2>1. /\ a.act = "publish" /\ Publish(a.path, a.staged)
        /\ acting' = [acting EXCEPT ![r] = Resting] /\ fresh' = fresh
    BY <1>2 DEF PublishPatch, Ends
  <2>a. patched' = patched \cup {new}
    BY <1>2 DEF PublishPatch
  <2>2. Patching(a, bodies, fresh) /\ Honest(a, bodies)
    BY <2>1, PatchingRun
  <2>3. a.path \in Paths /\ a.staged \in Cells(fresh')
    BY <2>1, <2>2 DEF Patching
  <2>4. DOMAIN acting' = Runs /\ \A q \in Runs : acting'[q] = Resting \/ acting'[q] = acting[q]
    BY <1>0, <2>1
  <2>5. new.same => new.published[2] = new.asked[2]
    BY <2>1, <2>2 DEF Honest
  <2> HIDE DEF a, new
  <2>6. FilesTypeOK' /\ ActsAreGood'
    BY <2>1, <2>3, <2>4, BodyPublished
  <2>7. PatchIsExact'
    BY <2>a, <2>5 DEF FilesInv, PatchIsExact
  <2> QED
    BY <2>6, <2>7 DEF FilesInv
<1> QED
  BY <1>1, <1>2

LEMMA EditorKeeps == FilesInv /\ EditorWrites => FilesInv'
<1> SUFFICES ASSUME FilesInv, EditorWrites PROVE FilesInv'
  OBVIOUS
<1>1. PICK p \in Paths, cell \in 1..2 :
        Exists(p) /\ bodies' = [bodies EXCEPT ![names[p]][cell] = fresh]
  BY DEF EditorWrites
<1>2. fresh' = fresh + 1 /\ UNCHANGED <<names, acting, patched>>
  BY DEF EditorWrites
<1>3. /\ fresh \in Nat /\ fresh >= 1 /\ bodies \in Seq(Cells(fresh))
      /\ names \in [Paths -> 0..Len(bodies)] /\ DOMAIN acting = Runs
  BY DEF FilesInv, FilesTypeOK
<1> DEFINE b == names[p]
<1>4. b \in DOMAIN bodies
  BY <1>1, NamesLead
<1>5. Cells(fresh) \subseteq Cells(fresh')
  BY <1>2, <1>3, CellsGrow
<1> HIDE DEF b
<1>6. bodies' = [bodies EXCEPT ![b] = [bodies[b] EXCEPT ![cell] = fresh]]
  BY <1>1 DEF b
<1>7. [bodies[b] EXCEPT ![cell] = fresh] \in Cells(fresh')
  <2>1. bodies[b] \in Cells(fresh')
    BY <1>3, <1>4, <1>5
  <2> QED
    BY <1>2, <1>3, <2>1 DEF Cells
<1>8. bodies' \in Seq(Cells(fresh')) /\ Len(bodies') = Len(bodies)
  <2>1. bodies \in [1..Len(bodies) -> Cells(fresh')] /\ Len(bodies) \in Nat
    BY <1>3, <1>5
  <2>2. bodies' \in [1..Len(bodies) -> Cells(fresh')]
    BY <1>6, <1>7, <2>1
  <2>3. bodies' \in Seq(Cells(fresh'))
    BY <2>1, <2>2, SeqDef
  <2> QED
    BY <2>1, <2>2, <2>3
<1>9. FilesTypeOK'
  BY <1>2, <1>3, <1>8 DEF FilesTypeOK
<1>10. ASSUME NEW r \in Runs PROVE GoodAct(acting'[r], bodies', fresh')
  <2>1. GoodAct(acting[r], bodies, fresh)
    BY DEF FilesInv, ActsAreGood
  <2>2. GoodAct(acting[r], [bodies EXCEPT ![b][cell] = fresh], fresh + 1)
    BY <1>3, <1>4, <2>1, GoodAfterEdit
  <2> QED
    BY <1>1, <1>2, <2>2 DEF b
<1>11. PatchIsExact'
  BY <1>2 DEF FilesInv, PatchIsExact
<1> QED
  BY <1>9, <1>10, <1>11 DEF FilesInv, ActsAreGood

LEMMA FilesInvInit == FilesInit => FilesInv
<1> SUFFICES ASSUME FilesInit PROVE FilesInv
  OBVIOUS
<1>1. FilesTypeOK
  BY DEF FilesInit, FilesTypeOK, Gone
<1>2. ActsAreGood
  BY RestIsGood DEF FilesInit, ActsAreGood
<1>3. PatchIsExact
  BY DEF FilesInit, PatchIsExact
<1> QED
  BY <1>1, <1>2, <1>3 DEF FilesInv

LEMMA FilesInvNext == FilesInv /\ (FilesNext \/ UNCHANGED fileVars) => FilesInv'
<1> SUFFICES ASSUME FilesInv, FilesNext \/ UNCHANGED fileVars PROVE FilesInv'
  OBVIOUS
<1>1. CASE \E r \in Runs : \/ \E p \in Paths : WriteFile(r, p) \/ DeletePath(r, p)
                           \/ \E p, q \in Paths : MoveFile(r, p, q) \/ CopyFile(r, p, q)
  BY <1>1, PlainActionsKeep
<1>2. ASSUME NEW r \in Runs, NEW p \in Paths, PatchFile(r, p) PROVE FilesInv'
  BY <1>2, PatchFileKeeps
<1>3. ASSUME NEW r \in Runs, ReadCell(r) PROVE FilesInv'
  BY <1>3, ReadCellKeeps
<1>4. ASSUME NEW r \in Runs, CheckDigest(r) \/ StagePatch(r) \/ Recheck(r) PROVE FilesInv'
  BY <1>4, CheckDigestKeeps, StagePatchKeeps, RecheckKeeps
<1>5. ASSUME NEW r \in Runs, PublishCopy(r) \/ PublishPatch(r) PROVE FilesInv'
  BY <1>5, PublicationsKeep
<1>6. ASSUME NEW r \in Runs, Rename(r) PROVE FilesInv'
  <2>1. acting[r].act = "move"
    BY <1>6 DEF Rename
  <2>2. acting[r].from \in Paths
    BY <2>1 DEF FilesInv, ActsAreGood, GoodAct, Moving, Copying, Patching, Resting
  <2> QED
    BY <1>6, <2>2, PlainActionsKeep
<1>7. ASSUME FilesCrash \/ UNCHANGED fileVars PROVE FilesInv'
  <2>1. /\ UNCHANGED <<names, bodies, fresh, patched>>
        /\ DOMAIN acting' = Runs /\ \A q \in Runs : acting'[q] = Resting \/ acting'[q] = acting[q]
    BY <1>7 DEF FilesCrash, fileVars, FilesInv, FilesTypeOK
  <2>2. names' \in [Paths -> 0..Len(bodies)]
    BY <2>1 DEF FilesInv, FilesTypeOK
  <2> QED
    BY <2>1, <2>2, NamesChange
<1> QED
  BY <1>1, <1>2, <1>3, <1>4, <1>5, <1>6, <1>7, EditorKeeps DEF FilesNext

-----------------------------------------------------------------------------
(* The search of WorkspaceFiles, for any text, needle and buffer.  First:  *)
(* finite sets of numbers and what comes first in them.                    *)
LEMMA TheLast ==
  ASSUME NEW S, NEW n \in Nat, S \subseteq 0..n, S # {}
  PROVE  \E m \in S : \A k \in S : k <= m
<1> DEFINE B == {m \in Nat : \A k \in S : k <= m}
           R == {ss \in Nat \X Nat : ss[1] < ss[2]}
<1>1. B \subseteq Nat /\ n \in B
  OBVIOUS
<1>2. IsWellFoundedOn(R, Nat)
  BY NatLessThanWellFounded DEF OpToRel
<1>3. PICK m \in B : \A y \in B : ~(<<y, m>> \in R)
  <2> HIDE DEF B, R
  <2> QED
    BY <1>1, <1>2, WFMin
<1>4. m \in Nat /\ \A k \in S : k \in Nat /\ k <= m
  BY <1>3
<1>5. m \in S
  <2> SUFFICES ASSUME m \notin S PROVE FALSE
    OBVIOUS
  <2>1. PICK k \in S : TRUE
    OBVIOUS
  <2>2. m - 1 \in Nat /\ \A j \in S : j <= m - 1
    BY <1>4, <2>1
  <2>3. m - 1 \in B /\ <<m - 1, m>> \in R
    BY <1>4, <2>2
  <2> QED
    BY <1>3, <2>3
<1> QED
  BY <1>4, <1>5

LEMMA Disjoint ==
  ASSUME NEW S, IsFiniteSet(S), NEW T, IsFiniteSet(T), S \cap T = {}
  PROVE  IsFiniteSet(S \cup T) /\ Cardinality(S \cup T) = Cardinality(S) + Cardinality(T)
<1>1. /\ IsFiniteSet(S \cup T)
      /\ Cardinality(S \cup T) = Cardinality(S) + Cardinality(T) - Cardinality(S \cap T)
  BY FS_Union
<1>2. Cardinality(S \cap T) = 0
  BY FS_EmptySet
<1>3. Cardinality(S) \in Nat /\ Cardinality(T) \in Nat
  BY FS_CardinalityType
<1> QED
  BY <1>1, <1>2, <1>3

\* The elements of S that come before g.
Before(S, g) == {x \in S : x < g}
\* The first m elements of S.
Firsts(S, m) == {g \in S : Cardinality(Before(S, g)) < m}

LEMMA Bounded ==
  ASSUME NEW n \in Nat, NEW S, S \subseteq 0..n
  PROVE  /\ IsFiniteSet(S) /\ Cardinality(S) \in Nat
         /\ \A g : IsFiniteSet(Before(S, g)) /\ Cardinality(Before(S, g)) \in Nat
                   /\ Cardinality(Before(S, g)) <= Cardinality(S)
<1>1. IsFiniteSet(0..n)
  BY FS_Interval, 0 \in Int, n \in Int
<1>2. IsFiniteSet(S)
  BY <1>1, FS_Subset
<1>3. ASSUME NEW g PROVE Before(S, g) \in SUBSET S
  BY DEF Before
<1> QED
  BY <1>2, <1>3, FS_Subset, FS_CardinalityType

\* All of a set is among its first m elements exactly when it has no more than m.
LEMMA AllAreFirst ==
  ASSUME NEW n \in Nat, NEW G, G \subseteq 0..n, NEW m \in Int, m >= 0
  PROVE  Firsts(G, m) = G <=> Cardinality(G) <= m
<1>1. IsFiniteSet(G) /\ Cardinality(G) \in Nat
  BY Bounded
<1>2. ASSUME NEW g \in G
      PROVE  Cardinality(Before(G, g)) \in Nat /\ Cardinality(Before(G, g)) <= Cardinality(G) - 1
  <2>1. Before(G, g) \in SUBSET (G \ {g})
    BY DEF Before
  <2>2. IsFiniteSet(G \ {g}) /\ Cardinality(G \ {g}) = Cardinality(G) - 1
    BY <1>1, FS_RemoveElement
  <2>3. Cardinality(Before(G, g)) <= Cardinality(G) - 1
    BY <2>1, <2>2, FS_Subset
  <2> QED
    BY <2>3, Bounded
<1>3. CASE G = {}
  <2>1. Cardinality(G) = 0 /\ Firsts(G, m) = {}
    BY <1>3, FS_EmptySet DEF Firsts
  <2> QED
    BY <1>3, <2>1
<1>4. CASE G # {}
  <2>1. PICK g \in G : \A k \in G : k <= g
    BY <1>4, TheLast
  <2>2. Before(G, g) = G \ {g}
    <3>1. \A k \in G : k \in Int
      OBVIOUS
    <3>2. ASSUME NEW k \in G PROVE k < g <=> k # g
      BY <2>1, <3>1
    <3> QED
      BY <3>2 DEF Before
  <2>3. Cardinality(Before(G, g)) = Cardinality(G) - 1
    BY <1>1, <2>2, FS_RemoveElement
  <2>4. ASSUME Cardinality(G) <= m PROVE Firsts(G, m) = G
    <3>1. \A x \in G : Cardinality(Before(G, x)) < m
      BY <1>1, <1>2, <2>4
    <3> QED
      BY <3>1 DEF Firsts
  <2>5. ASSUME Firsts(G, m) = G PROVE Cardinality(G) <= m
    <3>1. Cardinality(Before(G, g)) < m
      BY <2>5 DEF Firsts
    <3> QED
      BY <1>1, <2>3, <3>1
  <2> QED
    BY <2>4, <2>5
<1> QED
  BY <1>3, <1>4

AllBefore(S, T) == \A x \in S, y \in T : x < y

\* The set H, up to n, in three pieces of which no more than m are in the first.
InPieces(n, H, E, G, D, m) ==
    /\ n \in Nat /\ H \subseteq 0..n /\ H = E \cup G \cup D
    /\ AllBefore(E, G) /\ AllBefore(E \cup G, D)
    /\ m \in Nat /\ Cardinality(E) <= m

\* Of G, the elements that are still asked for when m are, and E was found.
Still(G, E, m) == Firsts(G, m - Cardinality(E))

\* What is found piece by piece: E was found before, G lies behind it, and D behind both.
LEMMA FirstsOfPieces ==
  ASSUME NEW n \in Nat, NEW H, NEW E, NEW G, NEW D, NEW m \in Nat, InPieces(n, H, E, G, D, m)
  PROVE  /\ Still(G, E, m) = G => Cardinality(E \cup G) <= m
         /\ Still(G, E, m) # G =>
               /\ Cardinality(H) > m
               /\ \A x : x \in E \/ x \in Still(G, E, m) <=> x \in Firsts(H, m)
<1> n \in Nat /\ H \subseteq 0..n /\ H = E \cup G \cup D /\ m \in Nat /\ Cardinality(E) <= m
  BY DEF InPieces
<1> DEFINE q == m - Cardinality(E)
<1>1. /\ E \subseteq 0..n /\ G \subseteq 0..n /\ D \subseteq 0..n
      /\ H \subseteq Int /\ E \subseteq Int /\ G \subseteq Int /\ D \subseteq Int
  OBVIOUS
<1>0. /\ \A e \in E, g \in G : e < g
      /\ \A d \in D : \A x \in E \cup G : x < d
  BY DEF AllBefore, InPieces
<1>2. /\ IsFiniteSet(E) /\ Cardinality(E) \in Nat /\ IsFiniteSet(G) /\ Cardinality(G) \in Nat
      /\ IsFiniteSet(H) /\ Cardinality(H) \in Nat
  BY <1>1, Bounded
<1>3. E \cap G = {}
  BY <1>0, <1>1
<1>4. IsFiniteSet(E \cup G) /\ Cardinality(E \cup G) = Cardinality(E) + Cardinality(G)
  BY <1>2, <1>3, Disjoint
<1>5. q \in Int /\ q >= 0
  BY <1>2
<1>6. Firsts(G, q) = G <=> Cardinality(G) <= q
  BY <1>1, <1>5, AllAreFirst
<1>7. Firsts(G, q) = G => Cardinality(E \cup G) <= m
  BY <1>2, <1>4, <1>6
<1>8. ASSUME Firsts(G, q) # G
      PROVE  Cardinality(H) > m /\ E \cup Firsts(G, q) = Firsts(H, m)
  <2>1. Cardinality(E \cup G) > m
    BY <1>2, <1>4, <1>5, <1>6, <1>8
  <2>2. Cardinality(H) > m
    <3>1. E \cup G \in SUBSET H
      OBVIOUS
    <3>2. Cardinality(E \cup G) <= Cardinality(H)
      BY <1>2, <3>1, FS_Subset
    <3> QED
      BY <1>2, <1>4, <2>1, <3>2
  <2>3. ASSUME NEW x \in E PROVE Cardinality(Before(H, x)) < m
    <3>0. x \in Int /\ \A k \in H : k \in Int /\ (k \in G \cup D => x < k)
      BY <1>0, <1>1
    <3>1. Before(H, x) \in SUBSET (E \ {x})
      <4> SUFFICES ASSUME NEW k \in H, k < x PROVE k \in E /\ k # x
        BY DEF Before
      <4> QED
        BY <3>0
    <3>2. IsFiniteSet(E \ {x}) /\ Cardinality(E \ {x}) = Cardinality(E) - 1
      BY <1>2, FS_RemoveElement
    <3>3. Cardinality(Before(H, x)) <= Cardinality(E) - 1
      <4>1. Cardinality(Before(H, x)) <= Cardinality(E \ {x})
        BY <3>1, <3>2, FS_Subset
      <4> QED
        BY <3>2, <4>1
    <3>4. Cardinality(Before(H, x)) \in Nat
      BY Bounded
    <3> QED
      BY <1>2, <3>3, <3>4
  <2>4. ASSUME NEW x \in G PROVE Cardinality(Before(H, x)) < m <=> Cardinality(Before(G, x)) < q
    <3>0. x \in Int /\ \A k \in H : k \in Int /\ (k \in E => k < x) /\ (k \in D => x < k)
      BY <1>0, <1>1
    <3>1. Before(H, x) = E \cup Before(G, x)
      <4>1. ASSUME NEW k \in H PROVE k < x <=> k \in E \/ (k \in G /\ k < x)
        BY <3>0, <4>1
      <4> QED
        BY <4>1 DEF Before
    <3>2. E \cap Before(G, x) = {}
      BY <1>3 DEF Before
    <3>3. IsFiniteSet(Before(G, x)) /\ Cardinality(Before(G, x)) \in Nat
      BY <1>1, Bounded
    <3>4. Cardinality(Before(H, x)) = Cardinality(E) + Cardinality(Before(G, x))
      BY <1>2, <3>1, <3>2, <3>3, Disjoint
    <3> QED
      BY <1>2, <3>3, <3>4
  <2>5. ASSUME NEW x \in D PROVE ~(Cardinality(Before(H, x)) < m)
    <3>1. E \cup G \in SUBSET Before(H, x)
      BY <1>0, <1>1 DEF Before
    <3>2. IsFiniteSet(Before(H, x)) /\ Cardinality(Before(H, x)) \in Nat
      BY Bounded
    <3>3. Cardinality(E \cup G) <= Cardinality(Before(H, x))
      BY <3>1, <3>2, FS_Subset
    <3> QED
      BY <1>2, <1>4, <2>1, <3>2, <3>3
  <2>6. E \cup Firsts(G, q) = Firsts(H, m)
    <3> HIDE DEF q
    <3> QED
      BY <2>3, <2>4, <2>5 DEF Firsts
  <2> QED
    BY <2>2, <2>6
<1> QED
  BY <1>7, <1>8 DEF Still

\* As many numbers, each moved by a.
LEMMA Moved ==
  ASSUME NEW S, IsFiniteSet(S), S \subseteq Int, NEW a \in Int
  PROVE  IsFiniteSet({a + i : i \in S}) /\ Cardinality({a + i : i \in S}) = Cardinality(S)
<1> DEFINE T == {a + i : i \in S}
           f == [i \in S |-> a + i]
<1>1. f \in Bijection(S, T)
  <2>1. f \in [S -> T] /\ \A i \in S : f[i] = a + i
    OBVIOUS
  <2>2. \A i, j \in S : f[i] = f[j] => i = j
    <3>1. \A i, j \in S : i \in Int /\ j \in Int
      OBVIOUS
    <3> QED
      BY <2>1, <3>1
  <2>3. \A t \in T : \E i \in S : f[i] = t
    BY <2>1
  <2>4. f \in Injection(S, T)
    <3>1. \A i \in S : f[i] \in T
      BY <2>1
    <3> HIDE DEF f, T
    <3>2. f \in [S -> T]
      BY <2>1
    <3> QED
      BY <2>2, <3>2 DEF Injection, IsInjective
  <2>5. f \in Surjection(S, T)
    BY <2>1, <2>3 DEF Surjection
  <2> QED
    BY <2>4, <2>5 DEF Bijection
<1>2. ExistsBijection(S, T)
  BY <1>1 DEF ExistsBijection
<1> QED
  BY <1>2, FS_Bijection

Shifted(S, a) == {a + i : i \in S}

LEMMA MovedFirsts ==
  ASSUME NEW S, NEW n \in Nat, S \subseteq 0..n, NEW a \in Nat, NEW m
  PROVE  Shifted(Firsts(S, m), a) = Firsts(Shifted(S, a), m)
<1> DEFINE T == {a + i : i \in S}
<1>1. ASSUME NEW i \in S PROVE Cardinality(Before(T, a + i)) = Cardinality(Before(S, i))
  <2>0. \A j \in S : j \in Int
    OBVIOUS
  <2>1. Before(T, a + i) = {a + j : j \in Before(S, i)}
    <3>1. \A j \in S : a + j < a + i <=> j < i
      BY <2>0
    <3> QED
      BY <3>1 DEF Before
  <2>2. IsFiniteSet(Before(S, i))
    BY Bounded
  <2>3. Before(S, i) \subseteq Int
    BY <2>0 DEF Before
  <2> QED
    BY <2>1, <2>2, <2>3, Moved
<1> QED
  BY <1>1 DEF Firsts, Shifted


-----------------------------------------------------------------------------
(* Pieces of a text.                                                       *)
\* s is what stands in t behind the first a bytes.
Window(s, t, a) == a + Len(s) <= Len(t) /\ \A k \in 1..Len(s) : s[k] = t[a + k]
\* Where n occurs in s.
Hits(s, n) == {i \in 0..(Len(s) - Len(n)) : \A k \in 1..Len(n) : s[i + k] = n[k]}
\* The lines that end in t between a and b.
LineEnds(t, a, b) == Cardinality({i \in (a + 1)..b : t[i] = NewLine})
\* The occurrences that end in the first c bytes.
Early(t, n, c) == {o \in Hits(t, n) : o + Len(n) <= c}

LEMMA Cut ==
  ASSUME NEW s \in Seq(Chars), NEW i \in Nat, NEW j \in Nat, i <= j, j <= Len(s)
  PROVE  /\ SubSeq(s, i + 1, j) \in Seq(Chars) /\ Len(SubSeq(s, i + 1, j)) = j - i
         /\ \A k \in 1..(j - i) : SubSeq(s, i + 1, j)[k] = s[i + k]
<1>1. Len(s) \in Nat /\ \A k \in 1..Len(s) : s[k] \in Chars
  BY LenProperties, ElementOfSeq
<1>2. \A k \in (i + 1)..j : k \in 1..Len(s)
  BY <1>1
<1>3. \A k \in (i + 1)..j : s[k] \in Chars
  BY <1>1, <1>2
<1>4. i + 1 \in Int /\ j \in Int
  OBVIOUS
<1>5. /\ SubSeq(s, i + 1, j) \in Seq(Chars)
      /\ Len(SubSeq(s, i + 1, j)) = IF i + 1 <= j THEN j - (i + 1) + 1 ELSE 0
      /\ \A k \in 1..(j - (i + 1) + 1) : SubSeq(s, i + 1, j)[k] = s[(i + 1) + k - 1]
  BY <1>3, <1>4, SubSeqProperties
<1>6. \A k \in 1..(j - i) : k \in 1..(j - (i + 1) + 1) /\ (i + 1) + k - 1 = i + k
  OBVIOUS
<1>7. Len(SubSeq(s, i + 1, j)) = j - i
  BY <1>5
<1>8. \A k \in 1..(j - i) : SubSeq(s, i + 1, j)[k] = s[i + k]
  BY <1>5, <1>6
<1> QED
  BY <1>5, <1>7, <1>8

LEMMA FindAllIsHits ==
  ASSUME NEW s \in Seq(Chars), wanted.needle \in Seq(Chars)
  PROVE  FindAll(s) = Hits(s, wanted.needle)
<1> DEFINE n == wanted.needle
<1>1. Len(s) \in Nat /\ Len(n) \in Nat /\ DOMAIN n = 1..Len(n) /\ n = [k \in 1..Len(n) |-> n[k]]
  BY LenProperties
<1>2. ASSUME NEW i \in 0..(Len(s) - Len(n))
      PROVE  SubSeq(s, i + 1, i + Len(n)) = n <=> \A k \in 1..Len(n) : s[i + k] = n[k]
  <2>1. i \in Nat /\ i + Len(n) \in Nat /\ i <= i + Len(n) /\ i + Len(n) <= Len(s)
    BY <1>1
  <2> DEFINE u == SubSeq(s, i + 1, i + Len(n))
  <2>2. u \in Seq(Chars) /\ Len(u) = (i + Len(n)) - i
        /\ \A k \in 1..((i + Len(n)) - i) : u[k] = s[i + k]
    BY <2>1, Cut
  <2>3. (i + Len(n)) - i = Len(n)
    BY <1>1, <2>1
  <2>4. Len(u) = Len(n) /\ \A k \in 1..Len(n) : u[k] = s[i + k]
    BY <2>2, <2>3
  <2>5. u = [k \in 1..Len(n) |-> u[k]]
    BY <2>2, <2>4, LenProperties
  <2> HIDE DEF u, n
  <2>6. u = n => \A k \in 1..Len(n) : s[i + k] = n[k]
    BY <2>4
  <2>7. (\A k \in 1..Len(n) : s[i + k] = n[k]) => u = n
    BY <1>1, <2>4, <2>5
  <2> QED
    BY <2>6, <2>7 DEF u
<1> QED
  BY <1>2 DEF FindAll, Hits, Needed

LEMMA HitsBounded ==
  ASSUME NEW s \in Seq(Chars), NEW n \in Seq(Chars)
  PROVE  Hits(s, n) \subseteq 0..Len(s)
<1>1. Len(s) \in Nat /\ Len(n) \in Nat
  BY LenProperties
<1>2. 0..(Len(s) - Len(n)) \subseteq 0..Len(s)
  BY <1>1
<1> QED
  BY <1>2 DEF Hits

\* The occurrences that begin behind the first a bytes and end in the first b.
Within(t, n, a, b) == {o \in Hits(t, n) : a <= o /\ o + Len(n) <= b}

\* The occurrences in a window are those of the text that lie in it.
LEMMA WindowHits ==
  ASSUME NEW s \in Seq(Chars), NEW t \in Seq(Chars), NEW n \in Seq(Chars), NEW a \in Nat,
         Window(s, t, a)
  PROVE  Shifted(Hits(s, n), a) = Within(t, n, a, a + Len(s))
<1>1. Len(s) \in Nat /\ Len(t) \in Nat /\ Len(n) \in Nat /\ a + Len(s) <= Len(t)
  BY LenProperties DEF Window
<1>2. ASSUME NEW i \in 0..(Len(s) - Len(n))
      PROVE  /\ a + i \in 0..(Len(t) - Len(n)) /\ a <= a + i /\ a + i + Len(n) <= a + Len(s)
             /\ i \in Hits(s, n) <=> a + i \in Hits(t, n)
  <2>1. a + i \in 0..(Len(t) - Len(n)) /\ a <= a + i /\ a + i + Len(n) <= a + Len(s)
    BY <1>1
  <2>2. ASSUME NEW k \in 1..Len(n) PROVE s[i + k] = t[(a + i) + k]
    <3>1. i + k \in 1..Len(s) /\ a + (i + k) = (a + i) + k
      BY <1>1
    <3> QED
      BY <3>1 DEF Window
  <2>3. i \in Hits(s, n) <=> \A k \in 1..Len(n) : s[i + k] = n[k]
    BY DEF Hits
  <2>4. a + i \in Hits(t, n) <=> \A k \in 1..Len(n) : t[(a + i) + k] = n[k]
    BY <2>1 DEF Hits
  <2> QED
    BY <2>1, <2>2, <2>3, <2>4
<1>3. ASSUME NEW o \in Hits(t, n), a <= o, o + Len(n) <= a + Len(s)
      PROVE  \E i \in Hits(s, n) : o = a + i
  <2>1. o \in Int
    BY <1>1 DEF Hits
  <2>2. o - a \in 0..(Len(s) - Len(n)) /\ a + (o - a) = o
    BY <1>1, <1>3, <2>1
  <2>3. o - a \in Hits(s, n)
    BY <1>2, <2>2
  <2> QED
    BY <2>2, <2>3
<1>4. ASSUME NEW i \in Hits(s, n)
      PROVE  a + i \in Hits(t, n) /\ a <= a + i /\ a + i + Len(n) <= a + Len(s)
  <2>1. i \in 0..(Len(s) - Len(n))
    BY DEF Hits
  <2> QED
    BY <1>2, <2>1
<1> QED
  BY <1>3, <1>4 DEF Shifted, Within

LEMMA EndsSplit ==
  ASSUME NEW t, NEW a \in Nat, NEW b \in Nat, NEW c \in Nat, a <= b, b <= c
  PROVE  /\ LineEnds(t, a, b) \in Nat /\ LineEnds(t, b, c) \in Nat
         /\ LineEnds(t, a, c) = LineEnds(t, a, b) + LineEnds(t, b, c)
<1> DEFINE L(x, y) == {i \in (x + 1)..y : t[i] = NewLine}
<1>1. ASSUME NEW x \in Nat, NEW y \in Nat PROVE IsFiniteSet(L(x, y)) /\ Cardinality(L(x, y)) \in Nat
  <2>1. L(x, y) \subseteq 0..y
    OBVIOUS
  <2> HIDE DEF L
  <2> QED
    BY <2>1, Bounded
<1>2. L(a, c) = L(a, b) \cup L(b, c)
  <2>1. \A i \in Int : i \in (a + 1)..c <=> (i \in (a + 1)..b \/ i \in (b + 1)..c)
    OBVIOUS
  <2>2. \A i : (i \in (a + 1)..c \/ i \in (a + 1)..b \/ i \in (b + 1)..c) => i \in Int
    OBVIOUS
  <2>3. \A i : i \in (a + 1)..c <=> (i \in (a + 1)..b \/ i \in (b + 1)..c)
    BY <2>1, <2>2
  <2> QED
    BY <2>3
<1>3. L(a, b) \cap L(b, c) = {}
  OBVIOUS
<1>4. LineEnds(t, a, c) = Cardinality(L(a, c)) /\ LineEnds(t, a, b) = Cardinality(L(a, b))
      /\ LineEnds(t, b, c) = Cardinality(L(b, c))
  BY DEF LineEnds
<1> HIDE DEF L
<1>5. Cardinality(L(a, c)) = Cardinality(L(a, b)) + Cardinality(L(b, c))
  BY <1>1, <1>2, <1>3, Disjoint
<1> QED
  BY <1>1, <1>4, <1>5

\* The lines that end in a piece of a window.
LEMMA WindowLines ==
  ASSUME NEW s \in Seq(Chars), NEW t \in Seq(Chars), NEW a \in Nat, Window(s, t, a),
         NEW i \in Nat, NEW j \in Nat, i <= j, j <= Len(s)
  PROVE  LinesIn(SubSeq(s, i + 1, j)) = LineEnds(t, a + i, a + j)
<1> DEFINE u == SubSeq(s, i + 1, j)
           S == {k \in 1..(j - i) : t[(a + i) + k] = NewLine}
           T == {o \in ((a + i) + 1)..(a + j) : t[o] = NewLine}
<1>1. Len(s) \in Nat /\ Len(t) \in Nat
  BY LenProperties
<1>2. u \in Seq(Chars) /\ Len(u) = j - i /\ \A k \in 1..(j - i) : u[k] = s[i + k]
  BY Cut
<1>3. DOMAIN u = 1..(j - i)
  BY <1>2, LenProperties
<1>4. ASSUME NEW k \in 1..(j - i) PROVE u[k] = t[(a + i) + k]
  <2>1. i + k \in 1..Len(s) /\ a + (i + k) = (a + i) + k
    BY <1>1
  <2>2. s[i + k] = t[a + (i + k)]
    BY <2>1 DEF Window
  <2> QED
    BY <1>2, <2>1, <2>2
<1>5. {k \in DOMAIN u : u[k] = NewLine} = S
  <2> HIDE DEF u
  <2> QED
    BY <1>3, <1>4
<1>6. LinesIn(u) = Cardinality(S)
  BY <1>5 DEF LinesIn
<1>7. T = {(a + i) + k : k \in S}
  <2>1. ASSUME NEW o \in T PROVE \E k \in S : o = (a + i) + k
    <3>1. o \in Int /\ o >= (a + i) + 1 /\ o <= a + j /\ t[o] = NewLine
      OBVIOUS
    <3>2. o - (a + i) \in 1..(j - i) /\ (a + i) + (o - (a + i)) = o
      BY <3>1
    <3> QED
      BY <3>1, <3>2
  <2>2. ASSUME NEW k \in S PROVE (a + i) + k \in T
    <3>1. k \in 1..(j - i) /\ t[(a + i) + k] = NewLine
      OBVIOUS
    <3>2. (a + i) + k \in ((a + i) + 1)..(a + j)
      BY <3>1
    <3> QED
      BY <3>1, <3>2
  <2> HIDE DEF S, T
  <2> QED
    BY <2>1, <2>2
<1>8. IsFiniteSet(S) /\ S \subseteq Int
  <2>1. S \subseteq 0..(j - i) /\ j - i \in Nat
    OBVIOUS
  <2>2. S \subseteq Int
    OBVIOUS
  <2> HIDE DEF S
  <2> QED
    BY <2>1, <2>2, Bounded
<1>9. Cardinality(T) = Cardinality(S)
  <2> HIDE DEF S, T
  <2>1. a + i \in Int
    OBVIOUS
  <2>2. Cardinality({(a + i) + k : k \in S}) = Cardinality(S)
    BY <1>8, <2>1, Moved
  <2> QED
    BY <1>7, <2>2
<1>10. LineEnds(t, a + i, a + j) = Cardinality(T)
  BY DEF LineEnds
<1> QED
  BY <1>6, <1>9, <1>10

-----------------------------------------------------------------------------
(* What is reported of occurrences S of a text.                            *)
Report(t, o) == [offset |-> o, line |-> 1 + LineEnds(t, 0, o)]
Reports(t, S) == {Report(t, o) : o \in S}

LEMMA ReportsCount ==
  ASSUME NEW t, NEW S, IsFiniteSet(S)
  PROVE  IsFiniteSet(Reports(t, S)) /\ Cardinality(Reports(t, S)) = Cardinality(S)
<1> DEFINE T == Reports(t, S)
           f == [o \in S |-> Report(t, o)]
<1>1. f \in Bijection(S, T)
  <2>1. f \in [S -> T] /\ \A o \in S : f[o] = Report(t, o)
    BY DEF Reports
  <2>2. \A o \in S : f[o].offset = o
    BY <2>1 DEF Report
  <2>3. \A r \in T : \E o \in S : f[o] = r
    BY <2>1 DEF Reports
  <2> HIDE DEF f, T
  <2>4. f \in Injection(S, T)
    BY <2>1, <2>2 DEF Injection, IsInjective
  <2>5. f \in Surjection(S, T)
    BY <2>1, <2>3 DEF Surjection
  <2> QED
    BY <2>4, <2>5 DEF Bijection
<1>2. ExistsBijection(S, T)
  BY <1>1 DEF ExistsBijection
<1> QED
  BY <1>2, FS_Bijection

\* The first m of a set of reports.
FirstOf(R, m) == {r \in R : Cardinality({l \in R : l.offset < r.offset}) < m}

\* The first reports are the reports of the first occurrences.
LEMMA FirstReports ==
  ASSUME NEW t, NEW n \in Nat, NEW S, S \subseteq 0..n, NEW m
  PROVE  FirstOf(Reports(t, S), m) = Reports(t, Firsts(S, m))
<1>1. ASSUME NEW o \in S
      PROVE  Cardinality({l \in Reports(t, S) : l.offset < Report(t, o).offset})
               = Cardinality(Before(S, o))
  <2>1. {l \in Reports(t, S) : l.offset < Report(t, o).offset} = Reports(t, Before(S, o))
    <3>1. \A p : Report(t, p).offset = p
      BY DEF Report
    <3>2. \A p \in S : Report(t, p) \in Reports(t, Before(S, o)) <=> p < o
      <4>1. ASSUME NEW p \in S, Report(t, p) \in Reports(t, Before(S, o)) PROVE p < o
        <5>1. PICK x \in Before(S, o) : Report(t, p) = Report(t, x)
          BY <4>1 DEF Reports
        <5>2. p = x
          BY <3>1, <5>1
        <5> QED
          BY <5>2 DEF Before
      <4>2. ASSUME NEW p \in S, p < o PROVE Report(t, p) \in Reports(t, Before(S, o))
        BY <4>2 DEF Reports, Before
      <4> QED
        BY <4>1, <4>2
    <3>3. \A l \in Reports(t, S) :
             l.offset < Report(t, o).offset <=> l \in Reports(t, Before(S, o))
      BY <3>1, <3>2 DEF Reports
    <3>4. Reports(t, Before(S, o)) \subseteq Reports(t, S)
      BY DEF Reports, Before
    <3> QED
      BY <3>3, <3>4
  <2>2. IsFiniteSet(Before(S, o))
    BY Bounded
  <2> QED
    BY <2>1, <2>2, ReportsCount
<1> QED
  BY <1>1 DEF Reports, Firsts, FirstOf

\* The occurrences that end behind the first c bytes and in the first d, or behind those.
Later(t, n, c, d) == {o \in Hits(t, n) : c < o + Len(n) /\ o + Len(n) <= d}
Beyond(t, n, d) == {o \in Hits(t, n) : d < o + Len(n)}
\* The occurrences in bytes that end behind the k carried ones.
Found(bytes, n, k) == {i \in Hits(bytes, n) : i + Len(n) > k}

LEMMA EarlyGrows ==
  ASSUME NEW t \in Seq(Chars), NEW n \in Seq(Chars), NEW c \in Nat, NEW d \in Nat, c <= d
  PROVE  /\ Early(t, n, d) = Early(t, n, c) \cup Later(t, n, c, d)
         /\ Hits(t, n) = Early(t, n, c) \cup Later(t, n, c, d) \cup Beyond(t, n, d)
         /\ AllBefore(Early(t, n, c), Later(t, n, c, d))
         /\ AllBefore(Early(t, n, c) \cup Later(t, n, c, d), Beyond(t, n, d))
<1>1. Len(n) \in Nat /\ \A o \in Hits(t, n) : o \in Int
  BY LenProperties, HitsBounded
<1>2. Early(t, n, c) \subseteq Hits(t, n) /\ Early(t, n, d) \subseteq Hits(t, n)
  BY DEF Early
<1> DEFINE G == {o \in Hits(t, n) : c < o + Len(n) /\ o + Len(n) <= d}
           D == {o \in Hits(t, n) : d < o + Len(n)}
<1>3. \A o \in Hits(t, n) : /\ o + Len(n) <= d <=> (o + Len(n) <= c \/ (c < o + Len(n) /\ o + Len(n) <= d))
                            /\ o + Len(n) <= d \/ d < o + Len(n)
  BY <1>1
<1>4. Early(t, n, d) = Early(t, n, c) \cup G
  BY <1>3 DEF Early
<1>5. Hits(t, n) = Early(t, n, c) \cup G \cup D
  BY <1>3 DEF Early
<1>6. ASSUME NEW e \in Early(t, n, c), NEW g \in G PROVE e < g
  <2>1. e \in Int /\ g \in Int /\ e + Len(n) <= c /\ c < g + Len(n)
    BY <1>1, <1>2 DEF Early
  <2> QED
    BY <1>1, <2>1
<1>7. ASSUME NEW b \in D, NEW x \in Early(t, n, c) \cup G PROVE x < b
  <2>1. b \in Int /\ d < b + Len(n)
    BY <1>1
  <2>2. x \in Int /\ x + Len(n) <= d
    BY <1>1, <1>4, <1>2 DEF Early
  <2> QED
    BY <1>1, <2>1, <2>2
<1> QED
  BY <1>4, <1>5, <1>6, <1>7 DEF AllBefore, Later, Beyond

-----------------------------------------------------------------------------
(* One piece more: what was carried, and the bytes that were read.         *)
Shorter(i, j) == IF i < j THEN i ELSE j

LEMMA ShorterOne ==
  ASSUME NEW i \in Int, NEW j \in Int
  PROVE  /\ Shorter(i, j) \in Int /\ Shorter(i, j) <= i /\ Shorter(i, j) <= j
         /\ Shorter(i, j) = i \/ Shorter(i, j) = j
  BY DEF Shorter

\* k bytes are carried behind c, for a needle of l.
Carried(k, l, c) == k = Shorter(l - 1, c)

\* Where the window of what was carried begins.
LEMMA Behind ==
  ASSUME NEW l \in Nat, NEW c \in Nat, NEW k \in Nat, Carried(k, l, c), NEW count \in Nat
  PROVE  /\ c - k \in Nat /\ (c - k) + (k + count) = c + count
         /\ \A i \in Int : i + l > k <=> c < ((c - k) + i) + l
         /\ \A o \in Nat : c < o + l => c - k <= o
<1>1. k <= c /\ (k = l - 1 \/ k = c)
  BY ShorterOne DEF Carried
<1> QED
  BY <1>1

\* bytes are the carried ones and the count that follow the first c of t.
Follows(bytes, carry, t, c, count) ==
    bytes = carry \o SubSeq(SubSeq(t, c + 1, Len(t)), 1, count)

LEMMA Joined ==
  ASSUME NEW t \in Seq(Chars), NEW carry \in Seq(Chars), NEW c \in Nat, NEW count \in Nat,
         c + count <= Len(t), Len(carry) <= c, Window(carry, t, c - Len(carry)),
         NEW bytes, Follows(bytes, carry, t, c, count)
  PROVE  /\ bytes \in Seq(Chars) /\ Len(bytes) = Len(carry) + count
         /\ Window(bytes, t, c - Len(carry))
<1> DEFINE rest == SubSeq(t, c + 1, Len(t))
           piece == SubSeq(rest, 1, count)
<1>0. bytes = carry \o piece
  BY DEF Follows
<1>1. Len(t) \in Nat /\ Len(carry) \in Nat /\ c <= Len(t)
  BY LenProperties
<1>2. rest \in Seq(Chars) /\ Len(rest) = Len(t) - c
      /\ \A k \in 1..(Len(t) - c) : rest[k] = t[c + k]
  BY <1>1, Cut
<1> HIDE DEF rest
<1>3. /\ SubSeq(rest, 0 + 1, count) \in Seq(Chars) /\ Len(SubSeq(rest, 0 + 1, count)) = count - 0
      /\ \A k \in 1..(count - 0) : SubSeq(rest, 0 + 1, count)[k] = rest[0 + k]
  <2>1. 0 \in Nat /\ 0 <= count /\ count <= Len(rest)
    BY <1>1, <1>2
  <2> QED
    BY <1>2, <2>1, Cut
<1>4. piece \in Seq(Chars) /\ Len(piece) = count /\ \A k \in 1..count : piece[k] = t[c + k]
  <2>1. 0 + 1 = 1 /\ count - 0 = count /\ \A k \in 1..count : 0 + k = k /\ k \in 1..(Len(t) - c)
    BY <1>1
  <2> QED
    BY <1>2, <1>3, <2>1
<1> HIDE DEF piece
<1>5. /\ bytes \in Seq(Chars) /\ Len(bytes) = Len(carry) + count
      /\ \A k \in 1..(Len(carry) + count) :
           bytes[k] = IF k <= Len(carry) THEN carry[k] ELSE piece[k - Len(carry)]
  <2>1. /\ carry \o piece \in Seq(Chars) /\ Len(carry \o piece) = Len(carry) + Len(piece)
        /\ \A k \in 1..(Len(carry) + Len(piece)) :
             (carry \o piece)[k] = IF k <= Len(carry) THEN carry[k] ELSE piece[k - Len(carry)]
    BY <1>4, ConcatProperties
  <2> QED
    BY <1>0, <1>4, <2>1
<1>6. ASSUME NEW k \in 1..Len(bytes) PROVE bytes[k] = t[(c - Len(carry)) + k]
  <2>1. CASE k <= Len(carry)
    <3>1. k \in 1..Len(carry) /\ bytes[k] = carry[k]
      BY <1>1, <1>5, <2>1
    <3> QED
      BY <3>1 DEF Window
  <2>2. CASE ~(k <= Len(carry))
    <3>1. k - Len(carry) \in 1..count /\ c + (k - Len(carry)) = (c - Len(carry)) + k
      BY <1>1, <1>5, <2>2
    <3>2. bytes[k] = piece[k - Len(carry)]
      BY <1>5, <2>2
    <3> QED
      BY <1>4, <3>1, <3>2
  <2> QED
    BY <2>1, <2>2
<1>7. (c - Len(carry)) + Len(bytes) <= Len(t)
  BY <1>1, <1>5
<1>8. Window(bytes, t, c - Len(carry))
  BY <1>6, <1>7 DEF Window
<1> QED
  BY <1>5, <1>8

\* What is searched after c bytes of t: the k carried ones, and count that were read.
Piece(t, n, bytes, c, k, count) ==
    /\ t \in Seq(Chars) /\ n \in Seq(Chars) /\ bytes \in Seq(Chars)
    /\ c \in Nat /\ k \in Nat /\ count \in Nat /\ Carried(k, Len(n), c)
    /\ Len(bytes) = k + count /\ Window(bytes, t, c - k)

\* The occurrences that end in what was read: none that began earlier is missed.
LEMMA FoundInPiece ==
  ASSUME NEW t, NEW n, NEW bytes, NEW c, NEW k, NEW count, Piece(t, n, bytes, c, k, count)
  PROVE  Shifted(Found(bytes, n, k), c - k) = Later(t, n, c, c + count)
<1> /\ t \in Seq(Chars) /\ n \in Seq(Chars) /\ bytes \in Seq(Chars)
    /\ c \in Nat /\ k \in Nat /\ count \in Nat /\ Carried(k, Len(n), c)
    /\ Len(bytes) = k + count /\ Window(bytes, t, c - k)
  BY DEF Piece
<1>1. Len(n) \in Nat
  BY LenProperties
<1>0. /\ c - k \in Nat /\ (c - k) + (k + count) = c + count
      /\ \A i \in Int : i + Len(n) > k <=> c < ((c - k) + i) + Len(n)
      /\ \A o \in Nat : c < o + Len(n) => c - k <= o
  <2>1. c - k \in Nat /\ (c - k) + (k + count) = c + count
    BY <1>1, Behind
  <2>2. \A i \in Int : i + Len(n) > k <=> c < ((c - k) + i) + Len(n)
    BY <1>1, Behind
  <2>3. \A o \in Nat : c < o + Len(n) => c - k <= o
    BY <1>1, Behind
  <2> QED
    BY <2>1, <2>2, <2>3
<1>2. PICK a : a = c - k
  OBVIOUS
<1>3. /\ a \in Nat /\ a + Len(bytes) = c + count
      /\ \A i \in Int : i + Len(n) > k <=> c < (a + i) + Len(n)
      /\ \A o \in Nat : c < o + Len(n) => a <= o
  BY <1>0, <1>2
<1>4. {a + i : i \in Hits(bytes, n)} = {o \in Hits(t, n) : a <= o /\ o + Len(n) <= a + Len(bytes)}
  <2>1. a \in Nat /\ Window(bytes, t, a)
    BY <1>2, <1>3
  <2>2. Shifted(Hits(bytes, n), a) = Within(t, n, a, a + Len(bytes))
    BY <2>1, WindowHits
  <2> QED
    BY <2>2 DEF Shifted, Within
<1>5. /\ \A i \in Hits(bytes, n) : i \in Int
      /\ \A o \in Hits(t, n) : o \in Nat
  <2>1. Len(bytes) \in Nat /\ Len(t) \in Nat
    BY LenProperties
  <2>2. Hits(bytes, n) \subseteq 0..Len(bytes) /\ Hits(t, n) \subseteq 0..Len(t)
    BY HitsBounded
  <2> QED
    BY <2>1, <2>2
<1>6. \A i \in Hits(bytes, n) : i + Len(n) > k <=> c < (a + i) + Len(n)
  BY <1>3, <1>5
<1>7. \A o \in Hits(t, n) : c < o + Len(n) => a <= o
  BY <1>3, <1>5
<1>8. Shifted(Found(bytes, n, k), a)
        = {o \in {a + i : i \in Hits(bytes, n)} : c < o + Len(n)}
  BY <1>6 DEF Shifted, Found
<1>9. {o \in {a + i : i \in Hits(bytes, n)} : c < o + Len(n)} = Later(t, n, c, c + count)
  BY <1>3, <1>4, <1>7 DEF Later
<1> QED
  BY <1>2, <1>8, <1>9

\* What is carried on.
LEMMA KeptIsShorter ==
  ASSUME NEW l \in Nat, l >= 1, NEW c \in Nat, NEW k \in Nat, Carried(k, l, c),
         NEW count \in Nat, NEW kept, Carried(kept, l, k + count)
  PROVE  /\ kept \in Nat /\ kept <= k + count
         /\ Carried(kept, l, c + count)
         /\ (k + count) - kept \in Nat
         /\ (c - k) + ((k + count) - kept) = (c + count) - kept
         /\ (k + count) - ((k + count) - kept) = kept
<1>1. l - 1 \in Int /\ k + count \in Int
  OBVIOUS
<1>2. kept \in Int /\ kept <= l - 1 /\ kept <= k + count /\ (kept = l - 1 \/ kept = k + count)
  BY <1>1, ShorterOne DEF Carried
<1>3. kept \in Nat
  BY <1>2
<1>4. Carried(kept, l, c + count)
  <2>1. CASE l - 1 < c
    BY <2>1 DEF Shorter, Carried
  <2>2. CASE ~(l - 1 < c)
    <3>1. k = c
      BY <2>2 DEF Shorter, Carried
    <3> QED
      BY <3>1 DEF Carried
  <2> QED
    BY <2>1, <2>2
<1>5. (k + count) - kept \in Nat /\ (k + count) - ((k + count) - kept) = kept
  BY <1>2, <1>3
<1>6. (c - k) + ((k + count) - kept) = (c + count) - kept
  BY <1>2
<1> QED
  BY <1>2, <1>3, <1>4, <1>5, <1>6

\* The last bytes of a sequence.
IsTail(s, bytes, l) == s = SubSeq(bytes, Len(bytes) - l + 1, Len(bytes))

LEMMA CarriedOn ==
  ASSUME NEW t \in Seq(Chars), NEW n \in Seq(Chars), Len(n) >= 1, NEW bytes \in Seq(Chars),
         NEW c \in Nat, NEW k \in Nat, Carried(k, Len(n), c), NEW count \in Nat,
         Len(bytes) = k + count, Window(bytes, t, c - k),
         NEW kept, Carried(kept, Len(n), Len(bytes)),
         NEW carry, IsTail(carry, bytes, kept)
  PROVE  /\ carry \in Seq(Chars) /\ Carried(Len(carry), Len(n), c + count)
         /\ Window(carry, t, (c + count) - Len(carry))
<1>1. Len(n) \in Nat /\ Len(bytes) \in Nat /\ Len(t) \in Nat
  BY LenProperties
<1>0. /\ kept \in Nat /\ Carried(kept, Len(n), c + count) /\ kept <= Len(bytes)
      /\ Len(bytes) - kept \in Nat /\ (c - k) + (Len(bytes) - kept) = (c + count) - kept
      /\ Len(bytes) - (Len(bytes) - kept) = kept
  BY <1>1, KeptIsShorter
<1>2. PICK i : i = Len(bytes) - kept
  OBVIOUS
<1>3. /\ kept \in Nat /\ Carried(kept, Len(n), c + count) /\ kept <= Len(bytes)
      /\ i \in Nat /\ (c - k) + i = (c + count) - kept /\ Len(bytes) - i = kept
  BY <1>0, <1>2
<1>4. /\ carry \in Seq(Chars) /\ Len(carry) = Len(bytes) - i
      /\ \A j \in 1..(Len(bytes) - i) : carry[j] = bytes[i + j]
  <2>1. i <= Len(bytes) /\ Len(bytes) <= Len(bytes)
    BY <1>1, <1>2, <1>3
  <2>2. carry = SubSeq(bytes, i + 1, Len(bytes))
    BY <1>2 DEF IsTail
  <2> QED
    BY <1>1, <1>3, <2>1, <2>2, Cut
<1>5. Len(carry) = kept
  BY <1>3, <1>4
<1>6. ASSUME NEW j \in 1..kept PROVE carry[j] = t[((c + count) - kept) + j]
  <2>1. carry[j] = bytes[i + j]
    BY <1>3, <1>4
  <2>2. i + j \in 1..Len(bytes)
    BY <1>1, <1>2, <1>3
  <2>3. bytes[i + j] = t[(c - k) + (i + j)]
    BY <2>2 DEF Window
  <2>4. (c - k) + (i + j) = ((c - k) + i) + j
    BY <1>3
  <2> QED
    BY <1>3, <2>1, <2>3, <2>4
<1>7. ((c + count) - kept) + kept <= Len(t)
  <2>1. (c - k) + (k + count) <= Len(t)
    BY DEF Window
  <2> QED
    BY <1>1, <1>3, <2>1
<1>8. Window(carry, t, (c + count) - kept)
  BY <1>5, <1>6, <1>7 DEF Window
<1> QED
  BY <1>3, <1>4, <1>5, <1>8

\* lines_before are those of the first c bytes.
LinesKnown(t, c) == reading.lines_before = LineEnds(t, 0, c)

\* The line of a match, counted forwards from what was read before, or back from there.
Counted(t, c, bytes, k, i) == LineAt(bytes, k, i) = 1 + LineEnds(t, 0, (c - k) + i)

LEMMA LineIsCounted ==
  ASSUME NEW t, NEW n, NEW bytes, NEW c, NEW k, NEW count, Piece(t, n, bytes, c, k, count),
         LinesKnown(t, c), NEW i \in Hits(bytes, n)
  PROVE  Counted(t, c, bytes, k, i)
<1> /\ t \in Seq(Chars) /\ n \in Seq(Chars) /\ bytes \in Seq(Chars) /\ Window(bytes, t, c - k)
    /\ c \in Nat /\ k \in Nat /\ count \in Nat /\ Carried(k, Len(n), c) /\ Len(bytes) = k + count
  BY DEF Piece
<1>0. i \in Nat /\ i <= Len(bytes) /\ k <= c /\ k <= Len(bytes)
  <2>1. Len(bytes) \in Nat /\ Len(n) \in Nat
    BY LenProperties
  <2>2. Hits(bytes, n) \subseteq 0..Len(bytes)
    BY HitsBounded
  <2>3. c - k \in Nat
    BY <2>1, Behind
  <2> QED
    BY <2>1, <2>2, <2>3
<1>1. Len(bytes) \in Nat /\ reading.lines_before = LineEnds(t, 0, c)
  BY LenProperties DEF LinesKnown
<1>2. c - k \in Nat /\ (c - k) + k = c /\ (c - k) + i \in Nat
  BY <1>0
<1>3. CASE i >= k
  <2>1. LinesIn(SubSeq(bytes, k + 1, i)) = LineEnds(t, (c - k) + k, (c - k) + i)
    BY <1>0, <1>2, <1>3, WindowLines
  <2>2. 0 <= c /\ c <= (c - k) + i
    BY <1>0, <1>3
  <2>3. /\ LineEnds(t, 0, c) \in Nat /\ LineEnds(t, c, (c - k) + i) \in Nat
        /\ LineEnds(t, 0, (c - k) + i) = LineEnds(t, 0, c) + LineEnds(t, c, (c - k) + i)
    BY <1>2, <2>2, 0 \in Nat, EndsSplit
  <2>4. LineAt(bytes, k, i) = LineEnds(t, 0, c) + LineEnds(t, c, (c - k) + i) + 1
    BY <1>1, <1>2, <1>3, <2>1 DEF LineAt
  <2> QED
    BY <2>3, <2>4 DEF Counted
<1>4. CASE ~(i >= k)
  <2>1. LinesIn(SubSeq(bytes, i + 1, k)) = LineEnds(t, (c - k) + i, (c - k) + k)
    <3>1. i <= k
      BY <1>0, <1>4
    <3> QED
      BY <1>0, <1>2, <3>1, WindowLines
  <2>2. 0 <= (c - k) + i /\ (c - k) + i <= c
    BY <1>0, <1>2, <1>4
  <2>3. /\ LineEnds(t, 0, (c - k) + i) \in Nat /\ LineEnds(t, (c - k) + i, c) \in Nat
        /\ LineEnds(t, 0, c) = LineEnds(t, 0, (c - k) + i) + LineEnds(t, (c - k) + i, c)
    BY <1>2, <2>2, 0 \in Nat, EndsSplit
  <2>4. LineAt(bytes, k, i) = LineEnds(t, 0, c) - LineEnds(t, (c - k) + i, c) + 1
    BY <1>1, <1>2, <1>4, <2>1 DEF LineAt
  <2> QED
    BY <2>3, <2>4 DEF Counted
<1> QED
  BY <1>3, <1>4 DEF Counted


\* The occurrences E, and those at S behind a.
Grown(E, S, a) == E \cup Shifted(S, a)

LEMMA PieceIsReported ==
  ASSUME NEW t, NEW n, NEW bytes, NEW c, NEW k, NEW count, Piece(t, n, bytes, c, k, count),
         NEW m \in Nat, Cardinality(Early(t, n, c)) <= m,
         NEW S, S = Still(Found(bytes, n, k), Early(t, n, c), m)
  PROVE  /\ S = Found(bytes, n, k) =>
               /\ Cardinality(Early(t, n, c + count)) <= m
               /\ Grown(Early(t, n, c), S, c - k) = Early(t, n, c + count)
         /\ S # Found(bytes, n, k) =>
               /\ Cardinality(Hits(t, n)) > m
               /\ Grown(Early(t, n, c), S, c - k) = Firsts(Hits(t, n), m)
<1> DEFINE E == Early(t, n, c)
           F == Found(bytes, n, k)
           G == Later(t, n, c, c + count)
           D == Beyond(t, n, c + count)
           q == m - Cardinality(E)
<1> /\ t \in Seq(Chars) /\ n \in Seq(Chars) /\ bytes \in Seq(Chars)
    /\ c \in Nat /\ k \in Nat /\ count \in Nat /\ Carried(k, Len(n), c)
  BY DEF Piece
<1>1. Len(n) \in Nat /\ Len(t) \in Nat /\ Len(bytes) \in Nat
  BY LenProperties
<1>2. Hits(t, n) \subseteq 0..Len(t) /\ F \subseteq 0..Len(bytes)
  <2>1. Hits(t, n) \subseteq 0..Len(t) /\ Hits(bytes, n) \subseteq 0..Len(bytes)
    BY HitsBounded
  <2> QED
    BY <2>1 DEF Found
<1>3. c - k \in Nat
  BY <1>1, Behind
<1>4. Shifted(F, c - k) = G
  BY FoundInPiece
<1>5. Shifted(S, c - k) = Firsts(G, q)
  <2>1. \A a \in Nat : Shifted(Firsts(F, q), a) = Firsts(Shifted(F, a), q)
    <3>1. Len(bytes) \in Nat
      BY <1>1
    <3>2. F \subseteq 0..Len(bytes)
      BY <1>2
    <3> DEFINE l == Len(bytes)
    <3>3. l \in Nat /\ F \subseteq 0..l
      BY <3>1, <3>2
    <3> HIDE DEF F, q, l
    <3> QED
      BY ONLY <3>3, MovedFirsts
  <2>2. S = Firsts(F, q)
    BY DEF Still
  <2> HIDE DEF F, G, q
  <2> QED
    BY <1>3, <1>4, <2>1, <2>2
<1>6. S \subseteq F /\ \A i \in F : i \in Int
  BY <1>1, <1>2 DEF Still, Firsts
<1>7. S = F <=> Firsts(G, q) = G
  <2>1. \A a \in Nat : Shifted(S, a) = Shifted(F, a) => S = F
    <3> SUFFICES ASSUME NEW a \in Nat, Shifted(S, a) = Shifted(F, a), NEW i \in F PROVE i \in S
      BY <1>6
    <3>1. a + i \in Shifted(S, a)
      BY DEF Shifted
    <3>2. PICK j \in S : a + i = a + j
      BY <3>1 DEF Shifted
    <3>3. i \in Int /\ j \in Int
      BY <1>6
    <3>4. i = j
      BY <3>2, <3>3
    <3> QED
      BY <3>4
  <2> HIDE DEF F, G, q
  <2> QED
    BY <1>3, <1>4, <1>5, <2>1
<1>8. /\ Early(t, n, c + count) = E \cup G
      /\ Hits(t, n) = E \cup G \cup D
      /\ AllBefore(E, G) /\ AllBefore(E \cup G, D)
  <2>1. c + count \in Nat /\ c <= c + count
    OBVIOUS
  <2> QED
    BY <2>1, EarlyGrows
<1>9. /\ Still(G, E, m) = G => Cardinality(E \cup G) <= m
      /\ Still(G, E, m) # G =>
            Cardinality(Hits(t, n)) > m /\ E \cup Still(G, E, m) = Firsts(Hits(t, n), m)
  <2>1. Cardinality(E) <= m
    OBVIOUS
  <2> HIDE DEF E, G, D
  <2>2. InPieces(Len(t), Hits(t, n), E, G, D, m)
    BY <1>1, <1>2, <1>8, <2>1 DEF InPieces
  <2> Len(t) \in Nat
    BY <1>1
  <2>3. Still(G, E, m) = G => Cardinality(E \cup G) <= m
    BY <2>2, FirstsOfPieces
  <2>4. Still(G, E, m) # G => Cardinality(Hits(t, n)) > m
    BY <2>2, FirstsOfPieces
  <2>5. Still(G, E, m) # G => \A x : x \in E \/ x \in Still(G, E, m) <=> x \in Firsts(Hits(t, n), m)
    BY <2>2, FirstsOfPieces
  <2> QED
    BY <2>3, <2>4, <2>5
<1>10. Still(G, E, m) = Firsts(G, q)
  BY DEF Still
<1> HIDE DEF G, q, F, D
<1> QED
  BY <1>5, <1>7, <1>8, <1>9, <1>10 DEF F, Grown

-----------------------------------------------------------------------------
SearchTypeOK ==
    /\ wanted.text \in Seq(Chars) /\ wanted.needle \in Seq(Chars)
    /\ Len(wanted.needle) >= 1 /\ wanted.asked \in Nat
    /\ reading.consumed \in Nat /\ reading.consumed <= Len(wanted.text)
    /\ reading.carry \in Seq(Chars) /\ truncated \in BOOLEAN

\* The carried bytes are the last ones before those that are read next, and their lines are counted.
CarriesOn ==
    /\ Carried(Len(reading.carry), Len(wanted.needle), reading.consumed)
    /\ Window(reading.carry, wanted.text, reading.consumed - Len(reading.carry))
    /\ reading.lines_before = LineEnds(wanted.text, 0, reading.consumed)

\* What was reported: all that ends in what was read, or as much as was asked for.
ReportsSoFar ==
    /\ ~truncated =>
          LET E == Early(wanted.text, wanted.needle, reading.consumed)
          IN  /\ matches = Reports(wanted.text, E) /\ Cardinality(E) <= wanted.asked
              /\ done => reading.consumed = Len(wanted.text)
    /\ truncated =>
          LET H == Hits(wanted.text, wanted.needle)
          IN  /\ done /\ Cardinality(H) > wanted.asked
              /\ matches = Reports(wanted.text, Firsts(H, wanted.asked))

SearchInv == SearchTypeOK /\ CarriesOn /\ ReportsSoFar

LEMMA SearchInvInit == SearchInit => SearchInv
<1> SUFFICES ASSUME SearchInit PROVE SearchInv
  OBVIOUS
<1>1. /\ wanted.text \in Strings(0, MaxLength) /\ wanted.needle \in Strings(1, MaxNeedle)
      /\ wanted.asked \in 1..MaxMatches
  BY DEF SearchInit
<1>2. /\ reading.consumed = 0 /\ reading.carry = <<>> /\ reading.lines_before = 0
      /\ matches = {} /\ truncated = FALSE /\ done = FALSE
  BY DEF SearchInit
<1>3. ASSUME NEW lo \in Nat, NEW hi, NEW s \in Strings(lo, hi)
      PROVE  s \in Seq(Chars) /\ Len(s) >= lo
  <2>1. PICK l \in lo..hi : s \in [1..l -> Chars]
    BY DEF Strings
  <2>2. l \in Nat /\ l >= lo
    OBVIOUS
  <2>3. s \in Seq(Chars)
    BY <2>1, <2>2, SeqDef
  <2>4. Len(s) = l
    BY <2>1, <2>2, <2>3, LenProperties
  <2> QED
    BY <2>2, <2>3, <2>4
<1>4. wanted.text \in Seq(Chars) /\ wanted.needle \in Seq(Chars) /\ Len(wanted.needle) >= 1
  BY <1>1, <1>3, 0 \in Nat, 1 \in Nat
<1>5. Len(wanted.text) \in Nat /\ Len(wanted.needle) \in Nat
  BY <1>4, LenProperties
<1>6. <<>> \in Seq(Chars) /\ Len(<<>>) = 0
  BY EmptySeq
<1>7. SearchTypeOK
  <2>1. wanted.asked \in Nat
    BY <1>1
  <2> QED
    <3>1. reading.consumed \in Nat /\ reading.consumed <= Len(wanted.text)
      BY <1>2, <1>5
    <3>2. reading.carry \in Seq(Chars)
      BY <1>2, <1>6
    <3>3. truncated \in BOOLEAN
      BY <1>2
    <3> QED
      BY <1>4, <2>1, <3>1, <3>2, <3>3 DEF SearchTypeOK
<1>8. CarriesOn
  <2>1. Carried(0, Len(wanted.needle), 0)
    BY <1>4, <1>5 DEF Carried, Shorter
  <2>2. Window(<<>>, wanted.text, 0 - 0)
    BY <1>5, <1>6 DEF Window
  <2>3. LineEnds(wanted.text, 0, 0) = 0
    <3>1. {i \in (0 + 1)..0 : wanted.text[i] = NewLine} = {}
      OBVIOUS
    <3> QED
      BY <3>1, FS_EmptySet DEF LineEnds
  <2> QED
    BY <1>2, <1>6, <2>1, <2>2, <2>3 DEF CarriesOn
<1>9. ReportsSoFar
  <2>1. Early(wanted.text, wanted.needle, 0) = {}
    <3>1. \A o \in Hits(wanted.text, wanted.needle) : o \in Nat
      BY <1>4, <1>5, HitsBounded
    <3> QED
      BY <1>4, <1>5, <3>1 DEF Early
  <2>2. Reports(wanted.text, {}) = {} /\ Cardinality({}) = 0
    BY FS_EmptySet DEF Reports
  <2>3. 0 <= wanted.asked
    BY <1>1
  <2> QED
    BY <1>2, <2>1, <2>2, <2>3 DEF ReportsSoFar
<1> QED
  BY <1>7, <1>8, <1>9 DEF SearchInv

\* A finished search has found what it should.
LEMMA SearchInvFinds == SearchInv => FindsTheFirst
<1> SUFFICES ASSUME SearchInv, done PROVE
        /\ matches = FirstOf(AllMatches, wanted.asked)
        /\ truncated = (Cardinality(AllMatches) > wanted.asked)
  BY DEF FindsTheFirst, FirstOf
<1> DEFINE t == wanted.text
           n == wanted.needle
           H == Hits(t, n)
<1>1. /\ t \in Seq(Chars) /\ n \in Seq(Chars) /\ Len(n) >= 1 /\ wanted.asked \in Nat
      /\ truncated \in BOOLEAN
  BY DEF SearchInv, SearchTypeOK
<1>2. Len(t) \in Nat /\ Len(n) \in Nat
  BY <1>1, LenProperties
<1>3. H \subseteq 0..Len(t) /\ IsFiniteSet(H) /\ Cardinality(H) \in Nat
  <2>1. H \subseteq 0..Len(t)
    BY <1>1, HitsBounded
  <2> HIDE DEF H, t
  <2> QED
    BY <1>2, <2>1, Bounded
<1>4. AllMatches = Reports(t, H)
  <2>1. ASSUME NEW o \in H PROVE LinesIn(SubSeq(t, 1, o)) = LineEnds(t, 0, o)
    <3>1. o \in Nat /\ o <= Len(t)
      BY <1>2, <1>3
    <3>2. Window(t, t, 0)
      BY <1>2 DEF Window
    <3>3. LinesIn(SubSeq(t, 0 + 1, o)) = LineEnds(t, 0 + 0, 0 + o)
      <4>1. 0 \in Nat /\ 0 <= o
        BY <3>1
      <4> QED
        <5> HIDE DEF t
        <5> QED
          BY <1>1, <3>1, <3>2, <4>1, WindowLines
    <3>4. 0 + 1 = 1 /\ 0 + 0 = 0 /\ 0 + o = o
      BY <3>1
    <3> QED
      BY <3>3, <3>4
  <2>2. FindAll(t) = H
    BY <1>1, FindAllIsHits
  <2> HIDE DEF H, t
  <2>3. AllMatches = {[offset |-> i, line |-> 1 + LinesIn(SubSeq(t, 1, i))] : i \in H}
    BY <2>2 DEF AllMatches, t
  <2> QED
    BY <2>1, <2>3 DEF Reports, Report
<1>5. Cardinality(AllMatches) = Cardinality(H)
  BY <1>3, <1>4, ReportsCount
<1>6. FirstOf(AllMatches, wanted.asked) = Reports(t, Firsts(H, wanted.asked))
  <2> HIDE DEF H, t
  <2> QED
    BY <1>2, <1>3, <1>4, FirstReports
<1>7. CASE truncated
  BY <1>5, <1>6, <1>7 DEF SearchInv, ReportsSoFar
<1>8. CASE ~truncated
  <2>1. /\ matches = Reports(t, Early(t, n, Len(t))) /\ Cardinality(Early(t, n, Len(t))) <= wanted.asked
    BY <1>8 DEF SearchInv, ReportsSoFar
  <2>2. Early(t, n, Len(t)) = H
    <3>1. \A o \in H : o + Len(n) <= Len(t)
      <4>1. \A o \in 0..(Len(t) - Len(n)) : o + Len(n) <= Len(t)
        BY <1>2
      <4> QED
        BY <4>1 DEF Hits
    <3> QED
      BY <3>1 DEF Early
  <2>3. Firsts(H, wanted.asked) = H
    <3>1. wanted.asked \in Int /\ wanted.asked >= 0 /\ Cardinality(H) <= wanted.asked
      BY <1>1, <2>1, <2>2
    <3> HIDE DEF H, t
    <3> QED
      BY <1>2, <1>3, <3>1, AllAreFirst
  <2>4. ~(Cardinality(AllMatches) > wanted.asked)
    BY <1>1, <1>3, <1>5, <2>1, <2>2
  <2>5. truncated = (Cardinality(AllMatches) > wanted.asked)
    BY <1>1, <1>8, <2>4
  <2>6. matches = FirstOf(AllMatches, wanted.asked)
    BY <1>6, <2>1, <2>2, <2>3
  <2> QED
    BY <2>5, <2>6
<1> QED
  BY <1>1, <1>7, <1>8

\* What one read leaves, of count bytes: the parts of ReadPiece by name.
LEMMA ReadByParts ==
  ASSUME SearchTypeOK, ReadPiece
  PROVE  \E count \in Nat :
           LET k == Len(reading.carry)
               bytes == reading.carry \o SubSeq(Rest, 1, count)
               found == {i \in FindAll(bytes) : i + Needed > k}
               taken == {i \in found : Cardinality({j \in found : j < i})
                                         < wanted.asked - Cardinality(matches)}
               kept == IF Overlap < Len(bytes) THEN Overlap ELSE Len(bytes)
           IN  /\ reading.consumed + count <= Len(wanted.text)
               /\ matches' = matches \cup
                    {[offset |-> reading.consumed - k + i, line |-> LineAt(bytes, k, i)] : i \in taken}
               /\ truncated' = (taken # found)
               /\ done' = truncated'
               /\ reading' =
                    [consumed |-> reading.consumed + count,
                     carry |-> SubSeq(bytes, Len(bytes) - kept + 1, Len(bytes)),
                     lines_before |-> reading.lines_before
                                      + LinesIn(SubSeq(bytes, k + 1, Len(bytes)))]
<1>1. PICK count \in 1..(IF Len(Rest) < Buffer THEN Len(Rest) ELSE Buffer) :
           LET k == Len(reading.carry)
               bytes == reading.carry \o SubSeq(Rest, 1, count)
               found == {i \in FindAll(bytes) : i + Needed > k}
               taken == {i \in found : Cardinality({j \in found : j < i})
                                         < wanted.asked - Cardinality(matches)}
               kept == IF Overlap < Len(bytes) THEN Overlap ELSE Len(bytes)
           IN  /\ matches' = matches \cup
                    {[offset |-> reading.consumed - k + i, line |-> LineAt(bytes, k, i)] : i \in taken}
               /\ truncated' = (taken # found)
               /\ done' = truncated'
               /\ reading' =
                    [consumed |-> reading.consumed + count,
                     carry |-> SubSeq(bytes, Len(bytes) - kept + 1, Len(bytes)),
                     lines_before |-> reading.lines_before
                                      + LinesIn(SubSeq(bytes, k + 1, Len(bytes)))]
  BY Zenon DEF ReadPiece
<1>2. Len(wanted.text) \in Nat
  BY LenProperties DEF SearchTypeOK
<1>3. Len(Rest) = Len(wanted.text) - reading.consumed
  <2>1. /\ wanted.text \in Seq(Chars) /\ reading.consumed \in Nat
        /\ reading.consumed <= Len(wanted.text) /\ Len(wanted.text) <= Len(wanted.text)
    BY <1>2 DEF SearchTypeOK
  <2> QED
    BY <1>2, <2>1, Cut DEF Rest
<1>4. count \in Nat /\ reading.consumed + count <= Len(wanted.text)
  <2>1. reading.consumed \in Nat /\ reading.consumed <= Len(wanted.text) /\ Buffer \in Nat
    BY BufferAssumption DEF SearchTypeOK
  <2>2. CASE Len(Rest) < Buffer
    <3>1. count \in 1..Len(Rest)
      BY <2>2
    <3> HIDE <1>1
    <3> QED
      BY <1>2, <1>3, <2>1, <3>1
  <2>3. CASE ~(Len(Rest) < Buffer)
    <3>1. count \in 1..Buffer
      BY <2>3
    <3> HIDE <1>1
    <3> QED
      BY <1>2, <1>3, <2>1, <2>3, <3>1
  <2> QED
    BY <2>2, <2>3
<1> WITNESS count \in Nat
<1> QED
  BY <1>1, <1>4, Zenon

LEMMA ReadPieceKeeps == SearchInv /\ ReadPiece => SearchInv'
<1> SUFFICES ASSUME SearchInv, ReadPiece PROVE SearchInv'
  OBVIOUS
<1> DEFINE t == wanted.text
           n == wanted.needle
           m == wanted.asked
           c == reading.consumed
           k == Len(reading.carry)
           E == Early(t, n, c)
<1>1. /\ t \in Seq(Chars) /\ n \in Seq(Chars) /\ Len(n) >= 1 /\ m \in Nat
      /\ c \in Nat /\ c <= Len(t) /\ reading.carry \in Seq(Chars)
  BY DEF SearchInv, SearchTypeOK
<1>2. /\ Carried(k, Len(n), c) /\ Window(reading.carry, t, c - k)
      /\ reading.lines_before = LineEnds(t, 0, c)
  BY DEF SearchInv, CarriesOn
<1>3. ~done /\ wanted' = wanted
  BY DEF ReadPiece
<1>4. matches = Reports(t, E) /\ Cardinality(E) <= m
  BY <1>3 DEF SearchInv, ReportsSoFar
<1>5. k \in Nat /\ k <= c /\ Len(n) \in Nat /\ Len(t) \in Nat
  <2>1. k \in Nat /\ Len(n) \in Nat /\ Len(t) \in Nat
    BY <1>1, LenProperties
  <2>2. Len(n) - 1 \in Int /\ c \in Int
    BY <1>1, <2>1
  <2>3. k <= c
    BY <1>2, <2>2, ShorterOne DEF Carried
  <2> QED
    BY <2>1, <2>3
<1>6. PICK count \in Nat :
           LET bytes == reading.carry \o SubSeq(Rest, 1, count)
               found == {i \in FindAll(bytes) : i + Needed > k}
               taken == {i \in found : Cardinality({j \in found : j < i})
                                         < wanted.asked - Cardinality(matches)}
               kept == IF Overlap < Len(bytes) THEN Overlap ELSE Len(bytes)
           IN  /\ reading.consumed + count <= Len(wanted.text)
               /\ matches' = matches \cup
                    {[offset |-> reading.consumed - k + i, line |-> LineAt(bytes, k, i)] : i \in taken}
               /\ truncated' = (taken # found)
               /\ done' = truncated'
               /\ reading' =
                    [consumed |-> reading.consumed + count,
                     carry |-> SubSeq(bytes, Len(bytes) - kept + 1, Len(bytes)),
                     lines_before |-> reading.lines_before
                                      + LinesIn(SubSeq(bytes, k + 1, Len(bytes)))]
  BY ReadByParts, Zenon DEF SearchInv
<1> DEFINE bytes == reading.carry \o SubSeq(Rest, 1, count)
           found == {i \in FindAll(bytes) : i + Needed > k}
           taken == {i \in found : Cardinality({j \in found : j < i})
                                     < wanted.asked - Cardinality(matches)}
           kept == IF Overlap < Len(bytes) THEN Overlap ELSE Len(bytes)
           tail == SubSeq(bytes, Len(bytes) - kept + 1, Len(bytes))
<1>7. /\ c + count <= Len(t)
      /\ matches' = matches \cup {[offset |-> c - k + i, line |-> LineAt(bytes, k, i)] : i \in taken}
      /\ truncated' = (taken # found)
      /\ done' = truncated'
      /\ reading' = [consumed |-> c + count, carry |-> tail,
                     lines_before |-> reading.lines_before + LinesIn(SubSeq(bytes, k + 1, Len(bytes)))]
  BY <1>6, Zenon
<1> HIDE <1>6
<1>8. bytes \in Seq(Chars) /\ Len(bytes) = k + count /\ Window(bytes, t, c - k)
  <2>1. Follows(bytes, reading.carry, t, c, count)
    BY DEF Rest, Follows
  <2>2. c + count <= Len(t)
    BY <1>7
  <2>3. Len(reading.carry) <= c /\ Window(reading.carry, t, c - Len(reading.carry))
    BY <1>2, <1>5
  <2> HIDE DEF bytes, t, c, k
  <2>4. /\ bytes \in Seq(Chars) /\ Len(bytes) = Len(reading.carry) + count
        /\ Window(bytes, t, c - Len(reading.carry))
    BY <1>1, <2>1, <2>2, <2>3, Joined
  <2> QED
    BY <2>4 DEF k
<1>9. found = Found(bytes, n, k)
  BY <1>1, <1>8, FindAllIsHits DEF Found, Needed
<1>10. Cardinality(matches) = Cardinality(E) /\ IsFiniteSet(E)
  <2>1. Hits(t, n) \subseteq 0..Len(t)
    BY <1>1, HitsBounded
  <2>2. E \subseteq 0..Len(t)
    BY <2>1 DEF Early
  <2>3. IsFiniteSet(E)
    <3> HIDE DEF E, t
    <3> QED
      BY <1>5, <2>2, Bounded
  <2> QED
    BY <1>4, <2>3, ReportsCount
<1>11. taken = Still(Found(bytes, n, k), E, m)
  <2> HIDE DEF bytes, found
  <2> QED
    BY <1>9, <1>10 DEF Still, Firsts, Before
<1>12. Piece(t, n, bytes, c, k, count)
  BY <1>1, <1>2, <1>5, <1>8 DEF Piece
<1> HIDE DEF bytes, found, taken, tail, kept
<1>13. /\ taken = found =>
             Cardinality(Early(t, n, c + count)) <= m /\ Grown(E, taken, c - k) = Early(t, n, c + count)
       /\ taken # found =>
             Cardinality(Hits(t, n)) > m /\ Grown(E, taken, c - k) = Firsts(Hits(t, n), m)
  <2> HIDE DEF t, n, c, k, m
  <2> QED
    BY <1>1, <1>4, <1>9, <1>11, <1>12, PieceIsReported DEF E
<1>14. matches' = Reports(t, Grown(E, taken, c - k))
  <2>1. ASSUME NEW i \in taken
        PROVE  [offset |-> c - k + i, line |-> LineAt(bytes, k, i)] = Report(t, (c - k) + i)
    <3>1. i \in Hits(bytes, n)
      BY <1>11 DEF Still, Firsts, Found
    <3>2. LinesKnown(t, c)
      BY <1>2 DEF LinesKnown
    <3>3. Counted(t, c, bytes, k, i)
      <4> HIDE DEF t, n, c, k
      <4> QED
        BY <1>12, <3>1, <3>2, LineIsCounted
    <3> QED
      BY <3>3 DEF Report, Counted
  <2>2. matches' = Reports(t, E) \cup {Report(t, (c - k) + i) : i \in taken}
    BY <1>4, <1>7, <2>1
  <2> HIDE DEF E, t, c, k
  <2> QED
    BY <2>2 DEF Reports, Grown, Shifted
<1>15. SearchTypeOK' /\ CarriesOn'
  <2>1. /\ reading'.consumed = c + count /\ reading'.carry = tail
        /\ reading'.lines_before = reading.lines_before + LinesIn(SubSeq(bytes, k + 1, Len(bytes)))
    BY <1>7
  <2>2. IsTail(tail, bytes, kept)
    BY DEF IsTail, tail
  <2>3. Carried(kept, Len(n), Len(bytes))
    BY DEF Carried, Shorter, kept, Overlap, Needed
  <2>4. /\ tail \in Seq(Chars) /\ Carried(Len(tail), Len(n), c + count)
        /\ Window(tail, t, (c + count) - Len(tail))
    <3> HIDE DEF t, n, c, k
    <3> QED
      BY <1>1, <1>2, <1>5, <1>8, <2>2, <2>3, CarriedOn
  <2>5. reading'.lines_before = LineEnds(t, 0, c + count)
    <3>1. LinesIn(SubSeq(bytes, k + 1, Len(bytes))) = LineEnds(t, (c - k) + k, (c - k) + Len(bytes))
      <4>1. c - k \in Nat /\ Len(bytes) \in Nat /\ k <= Len(bytes) /\ Len(bytes) <= Len(bytes)
        BY <1>1, <1>5, <1>8
      <4> HIDE DEF t, c, k
      <4> QED
        BY <1>1, <1>5, <1>8, <4>1, WindowLines
    <3>2. (c - k) + k = c /\ (c - k) + Len(bytes) = c + count
      BY <1>1, <1>5, <1>8
    <3>3. LineEnds(t, 0, c + count) = LineEnds(t, 0, c) + LineEnds(t, c, c + count)
      <4>1. 0 \in Nat /\ c + count \in Nat /\ 0 <= c /\ c <= c + count
        BY <1>1
      <4> HIDE DEF t, c
      <4> QED
        BY <1>1, <4>1, EndsSplit
    <3> QED
      BY <1>2, <2>1, <3>1, <3>2, <3>3
  <2>6. truncated' \in BOOLEAN
    BY <1>7
  <2>7. SearchTypeOK'
    BY <1>1, <1>3, <1>7, <2>1, <2>4, <2>6 DEF SearchTypeOK
  <2>8. CarriesOn'
    BY <1>3, <2>1, <2>4, <2>5 DEF CarriesOn
  <2> QED
    BY <2>7, <2>8
<1>16. ReportsSoFar'
  <2>1. CASE taken = found
    <3>1. ~truncated' /\ ~done'
      BY <1>7, <2>1
    <3>2. matches' = Reports(t, Early(t, n, c + count)) /\ Cardinality(Early(t, n, c + count)) <= m
      BY <1>13, <1>14, <2>1
    <3> QED
      BY <1>3, <1>7, <3>1, <3>2 DEF ReportsSoFar
  <2>2. CASE taken # found
    <3>1. truncated' /\ done'
      BY <1>7, <2>2
    <3>2. matches' = Reports(t, Firsts(Hits(t, n), m)) /\ Cardinality(Hits(t, n)) > m
      BY <1>13, <1>14, <2>2
    <3> QED
      BY <1>3, <3>1, <3>2 DEF ReportsSoFar
  <2> QED
    BY <2>1, <2>2
<1> QED
  BY <1>15, <1>16 DEF SearchInv

LEMMA SearchInvNext == SearchInv /\ (SearchNext \/ UNCHANGED searchVars) => SearchInv'
<1> SUFFICES ASSUME SearchInv, SearchNext \/ UNCHANGED searchVars PROVE SearchInv'
  OBVIOUS
<1>1. CASE ReadPiece
  BY <1>1, ReadPieceKeeps
<1>2. CASE EndOfFile
  <2>1. /\ done' = TRUE /\ ~done /\ Rest = <<>>
        /\ wanted' = wanted /\ reading' = reading /\ matches' = matches /\ truncated' = truncated
    BY <1>2 DEF EndOfFile
  <2>2. reading.consumed = Len(wanted.text)
    <3>1. /\ wanted.text \in Seq(Chars) /\ reading.consumed \in Nat
          /\ reading.consumed <= Len(wanted.text) /\ Len(wanted.text) \in Nat
      BY LenProperties DEF SearchInv, SearchTypeOK
    <3>2. Len(Rest) = Len(wanted.text) - reading.consumed
      <4>1. Len(wanted.text) <= Len(wanted.text)
        BY <3>1
      <4> QED
        BY <3>1, <4>1, Cut DEF Rest
    <3>3. Len(Rest) = 0
      BY <2>1
    <3> QED
      BY <3>1, <3>2, <3>3
  <2>3. SearchTypeOK' /\ CarriesOn'
    BY <2>1 DEF SearchInv, SearchTypeOK, CarriesOn
  <2>4. ReportsSoFar'
    BY <2>1, <2>2 DEF SearchInv, ReportsSoFar
  <2> QED
    BY <2>3, <2>4 DEF SearchInv
<1>3. CASE UNCHANGED searchVars
  BY <1>3 DEF SearchInv, SearchTypeOK, CarriesOn, ReportsSoFar, searchVars
<1> QED
  BY <1>1, <1>2, <1>3 DEF SearchNext

-----------------------------------------------------------------------------
(* However many runs and editors share the files, a patch that succeeds      *)
(* changes the content it was given for and only there; and however the      *)
(* reads cut a text, a finished search reports its first matches with their  *)
(* lines, and says whether there are more.                                   *)
THEOREM FilesAreExact == Spec => []FilesExact
<1>1. Init => SearchInv /\ FilesInv
  <2>1. Init => SearchInit /\ FilesInit
    BY DEF Init
  <2> QED
    BY <2>1, SearchInvInit, FilesInvInit
<1>2. SearchInv /\ FilesInv /\ [Next]_vars => SearchInv' /\ FilesInv'
  <2>1. [Next]_vars => SearchNext \/ UNCHANGED searchVars
    <3>1. Others => tool = "search" \/ UNCHANGED searchVars
      BY DEF Others
    <3>2. Next /\ tool = "search" => SearchNext
      BY DEF Next, Saves, Talks, Browses, Types, Publishes, Connects, Reaches, Searches, Writes
    <3>3. UNCHANGED vars => UNCHANGED searchVars
      BY DEF vars
    <3> QED
      BY <3>1, <3>2, <3>3 DEF Next
  <2>2. [Next]_vars => FilesNext \/ UNCHANGED fileVars
    <3>1. Others => tool = "files" \/ UNCHANGED fileVars
      BY DEF Others
    <3>2. Next /\ tool = "files" => FilesNext
      BY DEF Next, Saves, Talks, Browses, Types, Publishes, Connects, Reaches, Searches, Writes
    <3>3. UNCHANGED vars => UNCHANGED fileVars
      BY DEF vars
    <3> QED
      BY <3>1, <3>2, <3>3 DEF Next
  <2> QED
    BY <2>1, <2>2, SearchInvNext, FilesInvNext
<1>3. SearchInv /\ FilesInv => FilesExact
  BY SearchInvFinds DEF FilesInv, FilesExact
<1> QED
  BY <1>1, <1>2, <1>3, PTL DEF Spec
=============================================================================
