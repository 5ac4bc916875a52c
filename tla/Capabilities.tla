----------------------------- MODULE Capabilities -----------------------------
(***************************************************************************)
(* The saved tools of apps/studio/src/capabilities.rs: numbered versions   *)
(* in a database every conversation shares, the active one, and the test   *)
(* that binds a version to a digest of its command line and of the files   *)
(* it names.  A run and a test take their snapshot first, run the program, *)
(* and look at the files again; others save, restore and forget meanwhile, *)
(* and files change at any time, never back to what they were.  One name   *)
(* is followed; skills and memories have the same versions and no tests.   *)
(***************************************************************************)
EXTENDS Naturals, FiniteSetsExt, Functions

CONSTANTS
  Conversations,
  Programs,     \* what a tool may be saved as
  Arguments,    \* what may be added when it is run
  MaxSaves,     \* bound on versions ever saved
  MaxEdits,     \* bound on changes of the files
  None

VARIABLES
  versions,     \* rows of the table versions, by number
  active,       \* the active version, 0 for none
  edition,      \* contents of the files
  job,          \* conversation -> the run or test under way, or None
  saves,        \* versions ever saved
  sound,        \* ghost: what ran well as a test
  ran           \* ghost: what ran well as a run

store   == <<versions, active>>
toolVars == <<store, edition, job, saves, sound, ran>>

ToolInit ==
  /\ versions = << >> /\ active = 0 /\ edition = 0
  /\ job = [c \in Conversations |-> None]
  /\ saves = 0 /\ sound = {} /\ ran = {}

-----------------------------------------------------------------------------
(* qualification: program, arguments and the files as they are.            *)
Qualification(program, args) == <<program, args, edition>>

(* tool_save: the next number, and active.  Numbers start again once all   *)
(* versions are forgotten.                                                 *)
SaveTool(program) ==
  /\ saves < MaxSaves /\ saves' = saves + 1
  /\ LET n == Max(DOMAIN versions \cup {0}) + 1
     IN /\ versions' = [m \in DOMAIN versions \cup {n} |->
                          IF m = n THEN [program |-> program, tested |-> FALSE,
                                         digest |-> None]
                          ELSE versions[m]]
        /\ active' = n
  /\ UNCHANGED <<edition, job, sound, ran>>

RestoreTool(n) ==
  /\ n \in DOMAIN versions /\ active # 0 /\ active' = n
  /\ UNCHANGED <<versions, edition, job, saves, sound, ran>>

ForgetTool ==
  /\ DOMAIN versions # {} /\ versions' = << >> /\ active' = 0
  /\ UNCHANGED <<edition, job, saves, sound, ran>>

-----------------------------------------------------------------------------
Qualified(row, digest) == row.tested /\ row.digest = digest

(* tool_run and tool_test, allowed by the user: the active version is read *)
(* and its digest taken; a run needs a test of that digest.                *)
StartTool(c, tool, args) ==
  /\ job[c] = None /\ active # 0
  /\ LET row == versions[active]
         digest == Qualification(row.program, args)
     IN /\ tool = "tool_run" => Qualified(row, digest)
        /\ job' = [job EXCEPT ![c] =
             [tool |-> tool, version |-> active,
              digest |-> digest, did |-> None]]
  /\ UNCHANGED <<store, edition, saves, sound, ran>>

(* The program runs the files as it finds them.                            *)
ExecuteTool(c) ==
  /\ job[c] # None /\ job[c].did = None
  /\ job' = [job EXCEPT ![c].did = Qualification(job[c].digest[1], job[c].digest[2])]
  /\ UNCHANGED <<store, edition, saves, sound, ran>>

Unchanged_Trusted(c) == TRUE
Unchanged(c) == Qualification(job[c].digest[1], job[c].digest[2]) = job[c].digest

(* A result counts if the files are unchanged; a test is then recorded     *)
(* under the number of its version.                                        *)
FinishTool(c, ok) ==
  /\ job[c] # None /\ job[c].did # None
  /\ job' = [job EXCEPT ![c] = None]
  /\ LET counts == ok /\ Unchanged(c)
         v == job[c].version
     IN IF counts /\ job[c].tool = "tool_test"
        THEN /\ sound' = sound \cup {job[c].did} /\ UNCHANGED ran
             /\ versions' = IF v \in DOMAIN versions
                            THEN [versions EXCEPT ![v].tested = TRUE, ![v].digest = job[c].digest]
                            ELSE versions
        ELSE /\ ran' = IF counts THEN ran \cup {job[c].did} ELSE ran
             /\ UNCHANGED <<versions, sound>>
  /\ UNCHANGED <<active, edition, saves>>

(* The process dies, or the run is stopped.                                *)
LoseTool(c) ==
  /\ job[c] # None /\ job' = [job EXCEPT ![c] = None]
  /\ UNCHANGED <<store, edition, saves, sound, ran>>

EditFiles ==
  /\ edition < MaxEdits /\ edition' = edition + 1
  /\ UNCHANGED <<store, job, saves, sound, ran>>

ToolNext ==
  \/ \E program \in Programs : SaveTool(program)
  \/ \E n \in DOMAIN versions : RestoreTool(n)
  \/ ForgetTool \/ EditFiles
  \/ \E c \in Conversations :
       \/ \E tool \in {"tool_run", "tool_test"}, args \in Arguments : StartTool(c, tool, args)
       \/ ExecuteTool(c) \/ LoseTool(c)
       \/ \E ok \in BOOLEAN : FinishTool(c, ok)

ToolSpec == ToolInit /\ [][ToolNext]_toolVars

-----------------------------------------------------------------------------
(* A run that reports success ran exactly what a test ran before it, with  *)
(* the same arguments and files, however versions were saved, restored and *)
(* forgotten meanwhile ("executes only a qualified version").              *)
RunsAsTested == ran \subseteq sound

(* A version shown as tested is one whose own program was tested.          *)
TestedItself ==
  \A n \in DOMAIN versions :
    versions[n].tested => versions[n].digest[1] = versions[n].program
=============================================================================
