---------------------------- MODULE MemoryStore ----------------------------
(* The memory of the runtime (crates/harness-memory): rows in one SQLite     *)
(* table, each statement of which commits by itself.  Merging duplicates is  *)
(* several statements, so the process may die between two of them.           *)
EXTENDS Naturals, FiniteSets

CONSTANTS
    Contents,      \* the (kind, content) pairs a record may have
    MaxWrites,     \* bound: observations written
    MaxDeaths,     \* bound: deaths of the process in the middle of a merge
    MaxDays        \* bound: the clock, in units of the retention age

VARIABLES
    memories,      \* id -> the row
    duplicated,    \* the contents a consolidation has not come to yet
    keeper, doomed,\* the row it merges into, and those still to become tombstones
    day,           \* the clock of created_at_ms
    deaths,        \* times the process died in the middle of a merge
    observed,      \* content -> observations written of it (bookkeeping)
    important,     \* the contents a salient observation was written of (bookkeeping)
    replaced,      \* the contents an operator superseded (bookkeeping)
    forgotten      \* the contents retention removed a row of (bookkeeping)

merging == <<duplicated, keeper, doomed>>
told == <<observed, important, replaced, forgotten>>
memVars == <<memories, merging, day, deaths, told>>

Unsuperseded == {i \in DOMAIN memories : memories[i].superseded_by = 0}
LiveOf(c) == {i \in Unsuperseded : memories[i].content = c}
Least(ids) == CHOOSE i \in ids : \A k \in ids : i <= k
Greatest(ids) == CHOOSE i \in ids : \A k \in ids : k <= i
NextRow == IF DOMAIN memories = {} THEN 1 ELSE Greatest(DOMAIN memories) + 1

\* A sum, counted one by one.
Marks(f, S) == UNION {{x} \X (1..f[x]) : x \in S}
Sum(f, S) == Cardinality(Marks(f, S))
Reinforced(rows, ids) == Sum([i \in ids |-> rows[i].reinforced], ids)

MemInit ==
    /\ memories = <<>>
    /\ duplicated = {} /\ keeper = 0 /\ doomed = {}
    /\ day = 0 /\ deaths = 0
    /\ observed = [c \in Contents |-> 0]
    /\ important = {} /\ replaced = {} /\ forgotten = {}

----------------------------------------------------------------------------
Idle == duplicated = {} /\ doomed = {}

WriteMemory(c, salient) ==
    /\ Idle
    /\ Sum(observed, Contents) < MaxWrites
    /\ memories' = [i \in DOMAIN memories \cup {NextRow} |->
                      IF i = NextRow
                      THEN [content |-> c, salient |-> salient, created |-> day,
                            reinforced |-> 1, superseded_by |-> 0]
                      ELSE memories[i]]
    /\ observed' = [observed EXCEPT ![c] = @ + 1]
    /\ important' = important \cup (IF salient THEN {c} ELSE {})
    /\ UNCHANGED <<merging, day, deaths, replaced, forgotten>>

\* An operator points an outdated record at its replacement.
Supersede(old, new) ==
    /\ Idle
    /\ old # new /\ old \in Unsuperseded
    /\ memories' = [memories EXCEPT ![old].superseded_by = new]
    /\ replaced' = replaced \cup {memories[old].content}
    /\ UNCHANGED <<merging, day, deaths, observed, important, forgotten>>

\* The duplicates are read in one query; then the groups are merged one by one, each
\* statement for itself.
Consolidate ==
    /\ Idle
    /\ duplicated' = {c \in Contents : \E i, j \in LiveOf(c) : i # j}
    /\ duplicated' # {}
    /\ UNCHANGED <<memories, keeper, doomed, day, deaths, told>>

\* First the earliest row takes the counts of all ...
Absorb_Others(c) ==
    /\ doomed = {} /\ c \in duplicated
    /\ keeper' = Least(LiveOf(c))
    /\ doomed' = LiveOf(c) \ {keeper'}
    /\ memories' = [memories EXCEPT ![keeper'].reinforced = Reinforced(memories, doomed')]
    /\ duplicated' = duplicated \ {c}
    /\ UNCHANGED <<day, deaths, told>>
Absorb(c) ==
    /\ doomed = {} /\ c \in duplicated
    /\ keeper' = Least(LiveOf(c))
    /\ doomed' = LiveOf(c) \ {keeper'}
    /\ memories' = [memories EXCEPT ![keeper'].reinforced = Reinforced(memories, LiveOf(c))]
    /\ duplicated' = duplicated \ {c}
    /\ UNCHANGED <<day, deaths, told>>

\* ... then the others become tombstones, in the order of their ids.
Bury ==
    /\ doomed # {}
    /\ memories' = [memories EXCEPT ![Least(doomed)].superseded_by = keeper]
    /\ doomed' = doomed \ {Least(doomed)}
    /\ UNCHANGED <<duplicated, keeper, day, deaths, told>>

\* The process dies: what committed stays, the rest never runs.
MemoryCrash ==
    /\ ~Idle
    /\ deaths < MaxDeaths
    /\ duplicated' = {} /\ doomed' = {}
    /\ deaths' = deaths + 1
    /\ UNCHANGED <<memories, keeper, day, told>>

Forgotten(i) ==
    /\ memories[i].created < day
    /\ ~memories[i].salient \/ memories[i].superseded_by # 0
ForgetOld ==
    LET gone == {i \in DOMAIN memories : Forgotten(i)}
    IN  /\ Idle
        /\ gone # {}
        /\ memories' = [i \in DOMAIN memories \ gone |-> memories[i]]
        /\ forgotten' = forgotten \cup {memories[i].content : i \in gone \cap Unsuperseded}
        /\ UNCHANGED <<merging, day, deaths, observed, important, replaced>>

MemoryAges ==
    /\ day < MaxDays
    /\ day' = day + 1
    /\ UNCHANGED <<memories, merging, deaths, told>>

MemNext ==
    \/ \E c \in Contents, salient \in BOOLEAN : WriteMemory(c, salient)
    \/ \E old, new \in DOMAIN memories : Supersede(old, new)
    \/ Consolidate \/ (\E c \in Contents : Absorb(c)) \/ Bury \/ MemoryCrash
    \/ ForgetOld \/ MemoryAges

MemSpec == MemInit /\ [][MemNext]_memVars

----------------------------------------------------------------------------
(* No observation is lost by merging: as long as no operator superseded and  *)
(* no retention removed a row of a content, the rows that still retrieve     *)
(* count every observation of it, also when the process died between the     *)
(* statements of a consolidation.                                            *)
EveryObservationCounts ==
    \A c \in Contents \ (replaced \cup forgotten) : Reinforced(memories, LiveOf(c)) >= observed[c]

(* A content that was once observed with a high salience still retrieves,    *)
(* whatever its age, until an operator supersedes it: "High-salience rows    *)
(* survive regardless of age" (lib.rs:390) and merging loses nothing         *)
(* (lib.rs:6-8).                                                             *)
SalientKept == \A c \in important \ replaced : LiveOf(c) # {}
=============================================================================
