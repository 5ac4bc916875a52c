------------------------------- MODULE Tools --------------------------------
(* The tools that turns call, each with all of its own concurrency.  They    *)
(* share no state, so a behaviour is one of one tool; the others stay as     *)
(* they began.                                                               *)
EXTENDS WorkspaceFiles
CONSTANTS
    None,
    Conversations,
    Programs, Arguments, MaxSaves,               \* of Capabilities
    MaxCalls, MaxEvents, MaxEmitted,             \* of DevTools
    Shared, Elements, Seeds, MaxListings, MaxChanges,   \* of BrowserTools
    MaxInputs, MaxRecycled,                      \* of DesktopControl
    Bytes, MaxPublications, MaxForeign,          \* of Artifacts
    Probe, MaxSessions, MaxRequests, MaxStarts,  \* of AppSessions
    WebPages, Videos, HostOf(_), MaxEvidence     \* of WebReach

(* None is nothing else that stands where it may stand.                      *)
ASSUME SavedAssumption ==
    /\ None \notin Programs \X Arguments \X Nat
    /\ None \notin [tool : {"tool_run", "tool_test"}, version : Nat,
                    digest : Programs \X Arguments \X Nat,
                    did : (Programs \X Arguments \X Nat) \cup {None}]
ASSUME WireAssumption ==
    None \notin Nat /\ None \notin {"sent", "stopped", "loaded", "landing"}
ASSUME BrowserAssumption ==
    /\ None \notin Conversations \cup {Shared} /\ None \notin Elements
    /\ None \notin [tool : {"browser_open", "browser_click", "browser_fill"},
                    ref : Nat \cup {None}, hit : Elements \cup {None},
                    at : {"started", "checked", "observe"}]
    /\ Seeds \subseteq Nat
ASSUME DesktopAssumption ==
    LET kinds == {"desktop_observe", "desktop_fill", "desktop_key", "desktop_clipboard_set", "save"}
    IN  /\ None \notin [op : Nat, kind : kinds, phase : {"checks", "written", "input"}]
        /\ None \notin [op : Nat, kind : kinds, target : Nat \cup {None}]
ASSUME SaverAssumption ==
    None \notin Bytes /\ None \notin {"look", "persist", "read back"}
ASSUME AppsAssumption ==
    /\ Probe \notin Conversations /\ None \notin Conversations \cup {Probe}
    /\ None \notin [id : Nat, wire : Seq([kind : {"answer", "request"}, id : Nat])]
ASSUME ReachAssumption ==
    None \notin {"NEED_LOGIN", "RATE_LIMITED", "PLATFORM_BLOCKED", "NOT_FOUND", "NETWORK"}

VARIABLES tool,
    versions, active, edition, job, saves, sound, ran,                   \* Capabilities
    next, asked, wire, events, call, navigation, open, emitted, drained, last, \* DevTools
    session, act, page, listings, started, changes, listed,                \* BrowserTools
    busy, lock, running, seen, pending, helper, orphans, screen, file, inputs, applied, reported,
    unsure, \* DesktopControl
    contents, intent, doing, published, foreign, owed, replaced,         \* Artifacts
    installed, holder, app, order, starts, pendingCall, fallback, sent, lost, forged, \* AppSessions
    window, interactive, shown, tries, refused                           \* WebReach

SavedVars == <<versions, active, edition, job, saves, sound, ran>>
WireVars == <<next, asked, wire, events, call, navigation, open, emitted, drained, last>>
BrowserVars == <<session, act, page, listings, started, changes, listed>>
DesktopVars == <<busy, lock, running, seen, pending, helper, orphans, screen, file, inputs,
                 applied, reported, unsure>>
SaverVars == <<contents, intent, doing, published, foreign, owed, replaced>>
AppsVars == <<installed, holder, app, order, starts, pendingCall, fallback, sent, lost, forged>>
WebVars == <<window, interactive, shown, tries, refused>>

\* All pages are on one host.
HostOfPage(p) == "host"

Saved == INSTANCE Capabilities
Wire == INSTANCE DevTools
Browser == INSTANCE BrowserTools
Desktop == INSTANCE DesktopControl
Saver == INSTANCE Artifacts
Apps == INSTANCE AppSessions WITH session <- app, foreign <- forged
Web == INSTANCE WebReach WITH Pages <- WebPages

Saves == tool = "capabilities" /\ Saved!ToolNext
Talks == tool = "cdp" /\ Wire!CdpNext
Browses == tool = "browser" /\ Browser!BrowserNext
Types == tool = "desktop" /\ Desktop!DesktopNext
Publishes == tool = "artifacts" /\ Saver!ArtifactNext
Connects == tool = "apps" /\ Apps!AppNext
Reaches == tool = "web" /\ Web!ReachNext
Searches == tool = "search" /\ SearchNext
Writes == tool = "files" /\ FilesNext

Others ==
    /\ UNCHANGED tool
    /\ tool # "capabilities" => UNCHANGED SavedVars
    /\ tool # "cdp" => UNCHANGED WireVars
    /\ tool # "browser" => UNCHANGED BrowserVars
    /\ tool # "desktop" => UNCHANGED DesktopVars
    /\ tool # "artifacts" => UNCHANGED SaverVars
    /\ tool # "apps" => UNCHANGED AppsVars
    /\ tool # "web" => UNCHANGED WebVars
    /\ tool # "search" => UNCHANGED searchVars
    /\ tool # "files" => UNCHANGED fileVars

Init ==
    /\ tool \in {"capabilities", "cdp", "browser", "desktop", "artifacts", "apps", "web",
                 "search", "files"}
    /\ Saved!ToolInit /\ Wire!CdpInit /\ Browser!BrowserInit /\ Desktop!DesktopInit
    /\ Saver!ArtifactInit /\ Apps!AppInit /\ Web!ReachInit /\ SearchInit
    /\ FilesInit
    \* whichever element comes first; one of the initial states of the tools that stay in it
    /\ page = [p \in Browser!Pages |-> Browser!Untagged(CHOOSE e \in Elements : TRUE)]
    /\ tool # "web" => ~interactive
    /\ tool # "search" => wanted = [text |-> <<>>, needle |-> <<"a">>, asked |-> 1]
Next ==
    /\ \/ Saves \/ Talks \/ Browses \/ Types \/ Publishes \/ Connects \/ Reaches
       \/ Searches \/ Writes
    /\ Others
vars == <<tool, SavedVars, WireVars, BrowserVars, DesktopVars,
          SaverVars, AppsVars, WebVars, searchVars, fileVars>>
Spec == Init /\ [][Next]_vars

-----------------------------------------------------------------------------
\* A saved tool that reports success ran what a test ran before it.
RunsAsTested == Saved!RunsAsTested
\* A call to the browser returns the answer to its own request.
OwnAnswers == Wire!OwnAnswers
\* A click by a numbered reference touches the element that its listing named, or none,
\* unless a restart gave the number again.
ClicksListed == Browser!ClicksListed
\* An input that was made is in the history, or still on record.
InputAccounted == Desktop!InputAccounted
\* A publication replaces nobody's bytes, and its intent is kept until it is told.
Published == Saver!Published
\* A call to an application has its own answer, or is on record and not repeated.
CallsAnswered == Apps!CallsAnswered
\* A source that refused is asked no more than it may be.
ContactsBounded == tool = "web" => Web!ContactsBounded
\* A search reports the first matches with their lines, however the reads cut the file;
\* a patch that succeeds changes the content it was given for, and only there.
FilesExact == FindsTheFirst /\ PatchIsExact
=============================================================================
