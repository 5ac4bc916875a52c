------------------------------- MODULE WebReach -------------------------------
(***************************************************************************)
(* Public pages and videos, by apps/studio/src/web_reach.rs and the router *)
(* of chat.rs: what a fetch returns when the page, its reader and the      *)
(* video tool answer in all their ways, which sources the evidence of the  *)
(* goal makes blocked, and which of the model's tools are then answered    *)
(* without the network or the browser.                                     *)
(***************************************************************************)
EXTENDS Naturals, FiniteSets, SequencesExt

CONSTANTS
  Pages,
  Videos,          \* the pages of videos
  HostOf(_),       \* page -> its host
  MaxEvidence,     \* bound on the evidence of a goal
  None

Codes == {"NEED_LOGIN", "RATE_LIMITED", "PLATFORM_BLOCKED", "NOT_FOUND", "NETWORK"}
Fetches == {"fetch_url", "video_transcript"}
Looks == {"browser_read", "browser_click"}

VARIABLES
  window,        \* evidence of the goal: entries of a source
  interactive,   \* the request needs clicks, forms or a login
  shown,         \* the page the browser shows, or None
  tries,         \* ghost: source -> contacts since its last clean read
  refused        \* ghost: pages whose reads and clicks were refused, as shown

reachVars == <<window, interactive, shown, tries, refused>>

Source(tool, p) == <<tool, p>>
Sources == (Fetches \cup {"browser"}) \X Pages

ReachInit ==
  /\ window = <<>> /\ interactive \in BOOLEAN /\ shown = None
  /\ tries = [s \in Sources |-> [failed |-> 0, final |-> FALSE]] /\ refused = {}

-----------------------------------------------------------------------------
(* fetch_web: what the page answers, and the reader that is asked where    *)
(* another backend may do better.                                          *)
Answers == {"full", "thin", "unreachable", "redirect", "sign-in", "challenge", "missing",
            "login", "limited", "refused", "server"}
ReaderAnswers == {"off", "unreachable", "other", "text", "challenge", "missing", "limited"}

Ok == [ok |-> TRUE, code |-> None]
Fail(code) == [ok |-> FALSE, code |-> code]

Typed(answer) ==
  CASE answer \in {"full", "thin", "text"} -> Ok
    [] answer \in {"sign-in", "login"} -> Fail("NEED_LOGIN")
    [] answer = "limited" -> Fail("RATE_LIMITED")
    [] answer \in {"challenge", "refused"} -> Fail("PLATFORM_BLOCKED")
    [] answer = "missing" -> Fail("NOT_FOUND")
    [] answer \in {"unreachable", "server"} -> Fail("NETWORK")
    [] answer = "redirect" -> Fail(None)

FinalAnswer(answer) == answer \in {"full", "redirect", "sign-in", "missing", "login", "limited"}

FetchWeb(answer, reader) ==
  IF FinalAnswer(answer) \/ reader \in {"off", "unreachable", "other"} THEN Typed(answer)
  ELSE IF answer = "thin" THEN Ok ELSE Typed(reader)

(* youtube: the description of the video, then its subtitles.              *)
Video(meta, track, required) ==
  CASE meta = "unread" \/ (meta = "read" /\ track = "unread") -> Fail(None)
    [] meta = "timeout" \/ (meta = "read" /\ track = "timeout") -> Fail("NETWORK")
    [] meta = "removed" \/ (meta = "read" /\ track = "removed") -> Fail("NOT_FOUND")
    [] meta = "read" /\ track = "none" -> IF required THEN Fail("NOT_FOUND") ELSE Ok
    [] meta = "read" /\ track = "text" -> Ok

(* What fetch and video_transcript return.                                 *)
Results(tool, p) ==
  IF p \in Videos
  THEN {Video(m, t, tool = "video_transcript") :
          m \in {"read", "unread", "timeout", "removed"},
          t \in {"none", "unread", "timeout", "removed", "text"}}
  ELSE {FetchWeb(a, r) : a \in Answers, r \in ReaderAnswers}

-----------------------------------------------------------------------------
(* Retrying cannot help.                                                   *)
FinalForSource(code) == code # "NETWORK"

(* An entry counts until its source is read cleanly.                       *)
Clean(e) == e.ok /\ e.code = None
Stands(i) ==
  /\ window[i].code # None
  /\ ~\E k \in DOMAIN window : k > i /\ window[k].source = window[i].source /\ Clean(window[k])

(* A network error, but for one that only repeats what was known, allows   *)
(* one more try.                                                           *)
Retriable(e) == ~FinalForSource(e.code) /\ ~e.repeat

Blocking_Final(i) == Stands(i) /\ ~Retriable(window[i])
Blocking(i) ==
  /\ Stands(i)
  /\ Retriable(window[i]) =>
       \E k \in DOMAIN window : /\ k < i /\ window[k].source = window[i].source
                                /\ Stands(k) /\ Retriable(window[k])

(* blocked_sources: the first blocking entry of each source.               *)
BlockedSources ==
  {window[i] : i \in {j \in DOMAIN window :
     Blocking(j) /\ ~\E k \in DOMAIN window :
                      k < j /\ window[k].source = window[j].source /\ Blocking(k)}}

BlockOf(s) == {b \in BlockedSources : b.source = s}

(* Evidence of a source; the browser's also of the page it was seen on.    *)
Room == Len(window) < MaxEvidence   \* the bound
Note(s, result, repeat, page) ==
  window' = Append(window, [source |-> s, ok |-> result.ok, code |-> result.code,
                            repeat |-> repeat, page |-> page])

(* A contact with a source, as the ghost counts it.                        *)
Contact(s, result) ==
  tries' = [tries EXCEPT ![s] =
              IF result = Ok THEN [failed |-> 0, final |-> FALSE]
              ELSE [failed |-> @.failed + (IF result.code = "NETWORK" THEN 1 ELSE 0),
                    final |-> @.final \/ result.code \notin {None, "NETWORK"}]]

-----------------------------------------------------------------------------
(* fetch_url and video_transcript, unless the source is blocked.           *)
Fetch(tool, p) ==
  /\ Room /\ (tool = "fetch_url" \/ p \in Videos)
  /\ BlockOf(Source(tool, p)) = {}
  /\ \E result \in Results(tool, p) :
       Note(Source(tool, p), result, FALSE, None) /\ Contact(Source(tool, p), result)
  /\ UNCHANGED <<interactive, shown, refused>>
RepeatOfBlocked(tool, p) ==
  /\ Room /\ \E b \in BlockOf(Source(tool, p)) : Note(b.source, Fail(b.code), TRUE, None)
  /\ UNCHANGED <<interactive, shown, tries, refused>>

(* browser_blocked: the page itself, or its host for what holds for hosts; *)
(* an interactive request minds only what the browser itself met.          *)
OpenBlocks(p) ==
  {b \in BlockedSources :
     /\ interactive => b.source[1] = "browser"
     /\ \/ b.source \in {Source("fetch_url", p), Source("browser", p)}
        \/ /\ HostOf(b.source[2]) = HostOf(p)
           /\ b.code \in {"PLATFORM_BLOCKED", "RATE_LIMITED", "NEED_LOGIN"}}

FetchedBefore(p) == \E e \in Range(window) : e.source = Source("fetch_url", p)

(* browser_open, answered from evidence, by a fetch first, or by the       *)
(* browser, which may meet a challenge or fail.                            *)
OpenRefused(p) ==
  /\ Room /\ \E b \in OpenBlocks(p) : Note(b.source, Fail(b.code), TRUE, p)
  /\ UNCHANGED <<interactive, shown, tries, refused>>
OpenByFetch(p) ==
  /\ Room /\ OpenBlocks(p) = {} /\ ~interactive /\ ~FetchedBefore(p) /\ Fetch("fetch_url", p)
Seen(tool, p) ==
  \E result \in {Ok, Fail("PLATFORM_BLOCKED"), Fail(None)} :
    Note(Source("browser", p), result, FALSE, p) /\ Contact(Source("browser", p), result)
OpenInBrowser(p) ==
  /\ Room /\ OpenBlocks(p) = {} /\ (interactive \/ FetchedBefore(p))
  /\ Seen("browser_open", p) /\ shown' = p
  /\ UNCHANGED <<interactive, refused>>

(* browser_page: the page of the last entry that has one.                  *)
Paged == {i \in DOMAIN window : window[i].page # None}
BrowserPage ==
  IF Paged = {} THEN None
  ELSE window[CHOOSE i \in Paged : \A j \in Paged : j <= i].page

Challenges(s) ==
  Cardinality({i \in DOMAIN window : window[i].source = s /\ window[i].code = "PLATFORM_BLOCKED"})

LookBlocked(tool) ==
  /\ BrowserPage # None
  /\ LET s == Source("browser", BrowserPage)
     IN BlockOf(s) # {} /\ (tool # "browser_read" \/ Challenges(s) >= 2)

LookRefused(tool) ==
  /\ Room /\ shown # None /\ LookBlocked(tool) /\ refused' = refused \cup {<<shown, BrowserPage>>}
  /\ \E b \in BlockOf(Source("browser", BrowserPage)) :
       Note(b.source, Fail(b.code), TRUE, BrowserPage)
  /\ UNCHANGED <<interactive, shown, tries>>
(* The page may have changed by itself since it was opened.                *)
Look(tool) ==
  /\ Room /\ shown # None /\ ~LookBlocked(tool) /\ Seen(tool, shown)
  /\ UNCHANGED <<interactive, shown, refused>>

ReachNext ==
  \/ \E p \in Pages : \/ \E tool \in Fetches : Fetch(tool, p) \/ RepeatOfBlocked(tool, p)
                      \/ OpenRefused(p) \/ OpenByFetch(p) \/ OpenInBrowser(p)
  \/ \E tool \in Looks : LookRefused(tool) \/ Look(tool)

ReachSpec == ReachInit /\ [][ReachNext]_reachVars

-----------------------------------------------------------------------------
(* A source is asked no more than it may be: twice when the network fails  *)
(* ("retry once at most") and never again after any other typed failure,   *)
(* by a fetch or a video, until it has been read cleanly, however the      *)
(* tools, the two browsers and refusals alternate in the evidence.         *)
ContactsBounded ==
  \A s \in Fetches \X Pages :
    /\ tries[s].failed <= 2
    /\ tries[s].failed >= 2 \/ tries[s].final => BlockOf(s) # {}

(* A read or click is refused only for the page that the browser shows     *)
(* ("a page still showing a challenge").                                   *)
RefusedAsShown == \A r \in refused : r[1] = r[2]
=============================================================================
