----------------------------- MODULE BrowserTools -----------------------------
(***************************************************************************)
(* The browsers of apps/studio/src/browser_tools.rs, one for each          *)
(* conversation, and the listings of the links of a page.  Listings are    *)
(* told apart here by the order they were made in; the page and the        *)
(* references only carry their numbers, counted by a process from a seed   *)
(* that the clock gives it, so that a later process may give a number      *)
(* again.  A bare reference ("L3") carries none.  A page changes by itself,*)
(* and two conversations may be attached to the same one.  The reference   *)
(* followed here is to the element that came first when the page was       *)
(* listed.                                                                 *)
(***************************************************************************)
EXTENDS Naturals, FiniteSetsExt

CONSTANTS
  Conversations,
  Shared,        \* the page of a browser of the user's, to attach to
  Elements,      \* of a page, any of which may come first
  Seeds,         \* what the clock may give a process to number from
  MaxListings, MaxChanges,   \* bounds
  None

Pages == Conversations \cup {Shared}   \* a launched browser has a page of its own

VARIABLES
  session,      \* conversation -> the page of its browser, or None
  act,          \* conversation -> the click or fill under way and what it hit, or None
  page,         \* page -> what comes first, its listing, the element tagged
  listings,     \* listings made
  started,      \* listings made before this process started
  changes,      \* of pages by themselves
  listed        \* listing -> its number, the element it tagged, its process

numbering == <<listings, started, listed>>
browserVars == <<session, act, page, numbering, changes>>

Untagged(e) == [first |-> e, listing |-> None, tagged |-> None]

BrowserInit ==
  /\ session = [c \in Conversations |-> None]
  /\ act = [c \in Conversations |-> None]
  /\ \E e \in Elements : page = [p \in Pages |-> Untagged(e)]
  /\ listings = 0 /\ started = 0 /\ changes = 0
  /\ listed = << >>

-----------------------------------------------------------------------------
(* The number of the next listing: the clock's, and one more each time.    *)
NextSnapshots ==
  IF listings = started THEN Seeds ELSE {listed[listings].number + 1}

(* links: the page is tagged anew, under the next number.                  *)
List(p) ==
  /\ listings < MaxListings /\ listings' = listings + 1
  /\ page' = [page EXCEPT ![p].listing = listings', ![p].tagged = page[p].first]
  /\ \E number \in NextSnapshots :
       LET it == [number |-> number, element |-> page[p].first, process |-> started]
       IN  listed' = [n \in 1..listings' |-> IF n = listings' THEN it ELSE listed[n]]
  /\ UNCHANGED started

(* browser_open without a session launches a browser; browser_attach takes *)
(* the user's.                                                             *)
Launch(c, p) ==
  /\ act[c] = None /\ session[c] = None /\ p \in {c, Shared}
  /\ session' = [session EXCEPT ![c] = p]
  /\ page' = IF p = c THEN [page EXCEPT ![p] = Untagged(@.first)] ELSE page
  /\ UNCHANGED <<act, numbering, changes>>

(* browser_close, and the end of the conversation's work.                  *)
CloseBrowser(c) ==
  /\ act[c] = None /\ session[c] # None
  /\ session' = [session EXCEPT ![c] = None]
  /\ UNCHANGED <<act, page, numbering, changes>>

(* What is left of a call that has touched nothing is the observation.     *)
Observing == [tool |-> "browser_open", ref |-> None, hit |-> None, at |-> "observe"]

(* browser_open and browser_read, to the listing in the observation.       *)
OpenPage(c, e) ==
  /\ act[c] = None /\ session[c] # None /\ changes < MaxChanges
  /\ page' = [page EXCEPT ![session[c]] = Untagged(e)] /\ changes' = changes + 1
  /\ act' = [act EXCEPT ![c] = Observing]
  /\ UNCHANGED <<session, numbering>>
ReadPage(c) ==
  /\ act[c] = None /\ session[c] # None /\ List(session[c])
  /\ UNCHANGED <<session, act, changes>>

-----------------------------------------------------------------------------
(* A click or a fill by a reference: of any listing that was made, for     *)
(* what a conversation has read is saved, or a bare one (None).            *)
Begin(c, tool, ref) ==
  /\ act[c] = None /\ session[c] # None
  /\ act' = [act EXCEPT ![c] = [tool |-> tool, ref |-> ref, hit |-> None, at |-> "started"]]
  /\ UNCHANGED <<session, page, numbering, changes>>

At(c, tool, at) == act[c] # None /\ act[c].tool = tool /\ act[c].at = at

(* A reference with a number is held to the number that the page carries.  *)
FreshRef_Any(c) == act[c].ref = None \/ page[session[c]].listing # None
FreshRef(c) ==
  \/ act[c].ref = None
  \/ /\ page[session[c]].listing # None
     /\ listed[page[session[c]].listing].number = listed[act[c].ref].number

Refused(c) == act' = [act EXCEPT ![c] = Observing]
Touch(c) ==
  LET hit == page[session[c]].tagged
  IN  act' = [act EXCEPT ![c] = IF hit = None THEN Observing
                                ELSE [@ EXCEPT !.hit = hit, !.at = "observe"]]

(* The click script looks at the listing and clicks in one go.             *)
Click(c) ==
  /\ At(c, "browser_click", "started")
  /\ IF FreshRef(c) THEN Touch(c) ELSE Refused(c)
  /\ UNCHANGED <<session, page, numbering, changes>>

(* A fill looks at the listing in one call, and fills in another.          *)
CheckFill(c) ==
  /\ At(c, "browser_fill", "started")
  /\ IF FreshRef(c) THEN act' = [act EXCEPT ![c].at = "checked"] ELSE Refused(c)
  /\ UNCHANGED <<session, page, numbering, changes>>
Fill(c) ==
  /\ At(c, "browser_fill", "checked") /\ Touch(c)
  /\ UNCHANGED <<session, page, numbering, changes>>

(* The observation lists the page again, unless it fails.                  *)
Observe(c) ==
  /\ act[c] # None /\ act[c].at = "observe"
  /\ List(session[c]) /\ act' = [act EXCEPT ![c] = None]
  /\ UNCHANGED <<session, changes>>
Unobserved(c) ==
  /\ act[c] # None /\ act' = [act EXCEPT ![c] = None]
  /\ UNCHANGED <<session, page, numbering, changes>>

-----------------------------------------------------------------------------
(* A page puts another element first, or shows another document.           *)
Change(p, e, whole) ==
  /\ changes < MaxChanges /\ changes' = changes + 1
  /\ page' = [page EXCEPT ![p] = IF whole THEN Untagged(e) ELSE [@ EXCEPT !.first = e]]
  /\ UNCHANGED <<session, act, numbering>>

(* The runtime restarts, and the user's page keeps its tags.  The numbers  *)
(* of listings start again.                                                *)
RestartBrowsers ==
  /\ session' = [c \in Conversations |-> None]
  /\ act' = [c \in Conversations |-> None]
  /\ started' = listings
  /\ UNCHANGED <<page, listings, changes, listed>>

BrowserNext ==
  \/ \E c \in Conversations :
       \/ \E p \in Pages : Launch(c, p)
       \/ CloseBrowser(c) \/ ReadPage(c) \/ \E e \in Elements : OpenPage(c, e)
       \/ \E tool \in {"browser_click", "browser_fill"}, ref \in DOMAIN listed \cup {None} :
            Begin(c, tool, ref)
       \/ Click(c) \/ CheckFill(c) \/ Fill(c) \/ Observe(c) \/ Unobserved(c)
  \/ \E p \in Pages, e \in Elements, whole \in BOOLEAN : Change(p, e, whole)
  \/ RestartBrowsers

BrowserSpec == BrowserInit /\ [][BrowserNext]_browserVars

-----------------------------------------------------------------------------
(* A listing of another process has the number of this one.                *)
Recurs(n) == \E m \in DOMAIN listed :
  listed[m].number = listed[n].number /\ listed[m].process # listed[n].process

HitsListed(c) == act[c].ref # None /\ act[c].hit # None =>
  act[c].hit = listed[act[c].ref].element \/ Recurs(act[c].ref)

(* A click by a numbered reference touches the element its listing named,  *)
(* or none, even when two conversations list one page in turn ("a ref from *)
(* an older snapshot is refused"), unless the number was given again after *)
(* a restart ("ids from before a restart rarely recur").  A bare reference *)
(* is held to no listing: it means the page's latest, whoever made it.     *)
ClicksListed == \A c \in Conversations :
  act[c] # None /\ act[c].tool = "browser_click" => HitsListed(c)

(* So does a fill.                                                         *)
FillsListed == \A c \in Conversations :
  act[c] # None /\ act[c].tool = "browser_fill" => HitsListed(c)
=============================================================================
