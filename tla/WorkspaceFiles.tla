---------------------------- MODULE WorkspaceFiles ----------------------------
(* The file actions of runs that share a workspace                           *)
(* (crates/harness-core/src/tools.rs and large_files.rs), and an editor that *)
(* writes into the same files.  A file name leads to a body, as a directory  *)
(* entry to an inode; who opened a body goes on reading it when the name is  *)
(* given another.  A body is two cells: what a patch replaces, and the rest. *)
EXTENDS Integers, Sequences, FiniteSets

CONSTANTS
    Runs,        \* the runs that act on the workspace
    Paths,       \* file names
    MaxBodies,   \* bound: bodies written
    MaxEdits,    \* bound: writes of the editor
    Chars,       \* bytes of the file that is searched
    NewLine,     \* the byte that ends a line
    Buffer,      \* bytes read at once, 64 KiB
    MaxLength,   \* bound: bytes of the file
    MaxNeedle,   \* bound: bytes of the needle
    MaxMatches   \* bound: matches asked for

(* The buffer is not empty.                                                  *)
ASSUME BufferAssumption == Buffer \in Nat \ {0}

Gone == 0
Replacement == 0  \* what every patch puts in place of the first cell

VARIABLES
    names,       \* names[p]: the body of p, or Gone
    bodies,      \* the bodies: two cells each, numbered in the order they were made
    acting,      \* acting[r]: the action of r under way
    fresh,       \* bytes nobody wrote yet
    edits,       \* the editor's writes so far
    patched      \* the patches: the content asked for, the one published, and whether
                 \* the last check read the body that was opened first
VARIABLES
    wanted,      \* the search: text of the file, needle, matches asked for
    reading,     \* bytes consumed, the carried bytes, the lines before their end
    matches, truncated, done

fileVars == <<names, bodies, acting, fresh, edits, patched>>
searchVars == <<wanted, reading, matches, truncated, done>>

Resting == [act |-> "none"]
Exists(p) == names[p] # Gone
Content(p) == bodies[names[p]]
Ends(r) == acting' = [acting EXCEPT ![r] = Resting]

\* A staged body under a name, in one rename: nobody sees half of it.
Publish(p, content) ==
    /\ Len(bodies) < MaxBodies
    /\ bodies' = Append(bodies, content)
    /\ names' = [names EXCEPT ![p] = Len(bodies')]

----------------------------------------------------------------------------
WriteFile(r, p) ==
    /\ acting[r] = Resting
    /\ Publish(p, <<fresh, fresh>>)
    /\ fresh' = fresh + 1
    /\ UNCHANGED <<acting, edits, patched>>

DeletePath(r, p) ==
    /\ acting[r] = Resting /\ Exists(p)
    /\ names' = [names EXCEPT ![p] = Gone]
    /\ UNCHANGED <<bodies, acting, fresh, edits, patched>>

\* The destination is looked for first and then replaced, whatever it is by then.
MoveFile(r, from, to) ==
    /\ acting[r] = Resting /\ Exists(from) /\ ~Exists(to)
    /\ acting' = [acting EXCEPT ![r] = [act |-> "move", from |-> from, to |-> to]]
    /\ UNCHANGED <<names, bodies, fresh, edits, patched>>
Rename(r) ==
    /\ acting[r].act = "move" /\ Ends(r)
    /\ LET from == acting[r].from
       IN  names' = IF Exists(from)
                    THEN [names EXCEPT ![acting[r].to] = names[from], ![from] = Gone] ELSE names
    /\ UNCHANGED <<bodies, fresh, edits, patched>>

CopyFile(r, from, to) ==
    /\ acting[r] = Resting /\ Exists(from) /\ ~Exists(to)
    /\ acting' = [acting EXCEPT ![r] =
                    [act |-> "copy", path |-> to, body |-> names[from], read |-> <<>>]]
    /\ UNCHANGED <<names, bodies, fresh, edits, patched>>
PublishCopy(r) ==
    /\ acting[r].act = "copy" /\ Len(acting[r].read) = 2
    /\ Publish(acting[r].path, acting[r].read) /\ Ends(r)
    /\ UNCHANGED <<fresh, edits, patched>>

----------------------------------------------------------------------------
\* patch_file: asked for the content an earlier hash_file saw.
PatchFile(r, p) ==
    /\ acting[r] = Resting /\ Exists(p)
    /\ \E seen \in {bodies[b] : b \in DOMAIN bodies} :
         acting' = [acting EXCEPT ![r] = [act |-> "digest", path |-> p, body |-> names[p],
                                          opened |-> names[p], expected |-> seen,
                                          read |-> <<>>, staged |-> <<>>]]
    /\ UNCHANGED <<names, bodies, fresh, edits, patched>>

\* Reading takes its time: a cell at a time, of the body that was opened.
ReadCell(r) ==
    /\ acting[r].act \in {"copy", "digest", "stage", "recheck"} /\ Len(acting[r].read) < 2
    /\ acting' = [acting EXCEPT ![r].read = Append(@, bodies[acting[r].body][Len(@) + 1])]
    /\ UNCHANGED <<names, bodies, fresh, edits, patched>>

HasRead(r, act) == acting[r].act = act /\ Len(acting[r].read) = 2
CheckDigest(r) ==
    /\ HasRead(r, "digest")
    /\ IF acting[r].read = acting[r].expected
       THEN acting' = [acting EXCEPT ![r].act = "stage", ![r].read = <<>>]
       ELSE Ends(r)
    /\ UNCHANGED <<names, bodies, fresh, edits, patched>>
\* The replacement is staged; then the name is opened anew for the last check.
StagePatch(r) ==
    /\ HasRead(r, "stage")
    /\ LET a == acting[r]
       IN  IF Exists(a.path)
           THEN acting' = [acting EXCEPT ![r] =
                  [a EXCEPT !.act = "recheck", !.staged = <<Replacement, a.read[2]>>,
                            !.body = names[a.path], !.read = <<>>]]
           ELSE Ends(r)
    /\ UNCHANGED <<names, bodies, fresh, edits, patched>>
Unchanged_Opened(r) == acting[r].body = names[acting[r].path]
Unchanged(r) == acting[r].read = acting[r].expected
Recheck(r) ==
    /\ HasRead(r, "recheck")
    /\ IF Unchanged(r)
       THEN acting' = [acting EXCEPT ![r].act = "publish"]
       ELSE Ends(r)
    /\ UNCHANGED <<names, bodies, fresh, edits, patched>>
PublishPatch(r) ==
    /\ acting[r].act = "publish"
    /\ Publish(acting[r].path, acting[r].staged) /\ Ends(r)
    /\ patched' = patched \cup {[asked |-> acting[r].expected, published |-> acting[r].staged,
                                 same |-> acting[r].opened = acting[r].body]}
    /\ UNCHANGED <<fresh, edits>>

----------------------------------------------------------------------------
\* An editor writes into a body, always bytes that were not there before.
EditorWrites ==
    /\ edits < MaxEdits /\ edits' = edits + 1
    /\ \E p \in Paths, cell \in 1..2 :
         Exists(p) /\ bodies' = [bodies EXCEPT ![names[p]][cell] = fresh]
    /\ fresh' = fresh + 1
    /\ UNCHANGED <<names, acting, patched>>
\* The process ends: what was staged is not published.
FilesCrash ==
    /\ \E r \in Runs : acting[r] # Resting
    /\ acting' = [r \in Runs |-> Resting]
    /\ UNCHANGED <<names, bodies, fresh, edits, patched>>

FilesInit ==
    /\ names = [p \in Paths |-> Gone] /\ bodies = <<>>
    /\ acting = [r \in Runs |-> Resting]
    /\ fresh = 1 /\ edits = 0 /\ patched = {}

FilesNext ==
    \/ \E r \in Runs :
         \/ \E p \in Paths : WriteFile(r, p) \/ DeletePath(r, p) \/ PatchFile(r, p)
         \/ \E p, q \in Paths : MoveFile(r, p, q) \/ CopyFile(r, p, q)
         \/ Rename(r) \/ PublishCopy(r) \/ ReadCell(r)
         \/ CheckDigest(r) \/ StagePatch(r) \/ Recheck(r) \/ PublishPatch(r)
    \/ EditorWrites \/ FilesCrash

FilesSpec == FilesInit /\ [][FilesNext]_fileVars

----------------------------------------------------------------------------
(* search_file: every occurrence of a needle in a file that is read piece by *)
(* piece into one buffer, whose last bytes are carried over to the next      *)
(* piece, with the line of each.                                             *)
Strings(lo, hi) == UNION {[1..n -> Chars] : n \in lo..hi}
Needed == Len(wanted.needle)
LinesIn(s) == Cardinality({i \in DOMAIN s : s[i] = NewLine})

\* find_all(): where the needle occurs, counted from 0, overlapping places too.
FindAll(s) == {i \in 0..(Len(s) - Needed) : SubSeq(s, i + 1, i + Needed) = wanted.needle}

Overlap == Needed - 1

\* The line of a match at index, where carried bytes were counted before.
LineAt(bytes, carried, index) ==
    IF index >= carried THEN reading.lines_before + LinesIn(SubSeq(bytes, carried + 1, index)) + 1
    ELSE reading.lines_before - LinesIn(SubSeq(bytes, index + 1, carried)) + 1

----------------------------------------------------------------------------
SearchInit ==
    /\ wanted \in [text : Strings(0, MaxLength), needle : Strings(1, MaxNeedle),
                   asked : 1..MaxMatches]
    /\ reading = [consumed |-> 0, carry |-> <<>>, lines_before |-> 0]
    /\ matches = {} /\ truncated = FALSE /\ done = FALSE

Rest == SubSeq(wanted.text, reading.consumed + 1, Len(wanted.text))

\* A read returns up to Buffer bytes, however few.
ReadPiece ==
    /\ ~done /\ Rest # <<>>
    /\ \E count \in 1..(IF Len(Rest) < Buffer THEN Len(Rest) ELSE Buffer) :
         LET carried == Len(reading.carry)
             bytes == reading.carry \o SubSeq(Rest, 1, count)
             found == {i \in FindAll(bytes) : i + Needed > carried}
             taken == {i \in found : Cardinality({j \in found : j < i})
                                       < wanted.asked - Cardinality(matches)}
             kept == IF Overlap < Len(bytes) THEN Overlap ELSE Len(bytes)
         IN  /\ matches' = matches \cup
                  {[offset |-> reading.consumed - carried + i, line |-> LineAt(bytes, carried, i)]
                     : i \in taken}
             /\ truncated' = (taken # found)
             /\ done' = truncated'
             /\ reading' =
                  [consumed |-> reading.consumed + count,
                   carry |-> SubSeq(bytes, Len(bytes) - kept + 1, Len(bytes)),
                   lines_before |-> reading.lines_before
                                    + LinesIn(SubSeq(bytes, carried + 1, Len(bytes)))]
    /\ UNCHANGED wanted
EndOfFile ==
    /\ ~done /\ Rest = <<>>
    /\ done' = TRUE
    /\ UNCHANGED <<wanted, reading, matches, truncated>>

SearchNext == ReadPiece \/ EndOfFile
SearchSpec == SearchInit /\ [][SearchNext]_searchVars

----------------------------------------------------------------------------
\* What a search returns, of the whole text at once.
AllMatches == {[offset |-> i, line |-> 1 + LinesIn(SubSeq(wanted.text, 1, i))] :
                 i \in FindAll(wanted.text)}

(* A finished search reports the first matches of the text with their lines, *)
(* as many as were asked for, and says so exactly when there are more,       *)
(* however the reads cut the text.                                           *)
FindsTheFirst ==
    done => /\ matches = {m \in AllMatches :
                            Cardinality({l \in AllMatches : l.offset < m.offset}) < wanted.asked}
            /\ truncated = (Cardinality(AllMatches) > wanted.asked)

(* "whole-file precondition before publication" (large_files.rs:286): unless *)
(* the file was replaced by another of the same content meanwhile, a patch   *)
(* that succeeds publishes the content whose digest it was given with the    *)
(* one range replaced, and nothing an editor wrote while it was read.        *)
PatchIsExact == \A p \in patched : p.same => p.published[2] = p.asked[2]
=============================================================================
