---------------------------- MODULE DesktopControl ----------------------------
(***************************************************************************)
(* The one desktop that conversations share: the lease of                  *)
(* apps/studio/src/desktop.rs, the input a helper program makes for        *)
(* chat.rs desktop_action, and what becomes of the record of an input whose *)
(* outcome is unknown, in the turn and when the application starts again.  *)
(* The helper is a program of its own: it outlives the application.  It    *)
(* marks that input has started (InputStarted) before it makes any, but a  *)
(* write of the clipboard only when it has returned in time.  What tells   *)
(* whether an input arrived is a window's content, for a fill, and a file, *)
(* for a save; nothing tells it of a key or of the clipboard.              *)
(***************************************************************************)
EXTENDS Naturals, FiniteSets

CONSTANTS
  Conversations,
  MaxInputs,       \* bound on operations
  MaxRecycled,     \* bound on processes that get the window's handle
  None

Kinds == {"desktop_observe", "desktop_fill", "desktop_key", "desktop_clipboard_set", "save"}
Reads == {"desktop_observe"}

VARIABLES
  busy,         \* BUSY: the conversation with the lease, or None
  lock,         \* klyne-desktop-owner.lock: "studio", "other" or None
  running,      \* conversations with a turn
  seen,         \* desktop_previous: conversation -> process of the window, or None
  pending,      \* conversation -> the operation on record, or None
  helper,       \* conversation -> its helper, or None
  orphans,      \* helpers that outlived the application
  screen,       \* the process behind the handle, and the operation it shows
  file,         \* the saved file satisfies the contract
  inputs,       \* operations begun
  applied,      \* ghost: operations with input made
  reported,     \* ghost: operations the history, or the user, accounts for
  unsure        \* ghost: clipboard writes the helper gave up and called not applied

desktopVars == <<busy, lock, running, seen, pending, helper, orphans, screen, file,
                 inputs, applied, reported, unsure>>

Everyone(value) == [c \in Conversations |-> value]

DesktopInit ==
  /\ busy = None /\ lock = None /\ running = {} /\ seen = Everyone(None)
  /\ pending = Everyone(None) /\ helper = Everyone(None) /\ orphans = {}
  /\ screen = [process |-> 1, shows |-> None] /\ file = FALSE
  /\ inputs = 0 /\ applied = {} /\ reported = {} /\ unsure = {}

-----------------------------------------------------------------------------
(* Lease::acquire: the flag of this process, then the lock of them all.    *)
Acquirable == busy = None /\ lock = None
Lease(c) == busy' = c /\ lock' = "studio"
Unlease == busy' = None /\ lock' = None

(* A turn of a conversation waits for the lease; it ends and drops it.     *)
BeginTurn(c) ==
  /\ c \notin running /\ pending[c] = None /\ running' = running \cup {c}
  /\ Acquirable /\ Lease(c)
  /\ UNCHANGED <<seen, pending, helper, orphans, screen, file, inputs, applied, reported, unsure>>
EndTurn(c) ==
  /\ c \in running /\ helper[c] = None /\ running' = running \ {c}
  /\ Unlease
  /\ UNCHANGED <<seen, pending, helper, orphans, screen, file, inputs, applied, reported, unsure>>

OtherStudio ==
  /\ lock # "studio" /\ lock' = (IF lock = None THEN "other" ELSE None)
  /\ UNCHANGED <<busy, running, seen, pending, helper, orphans, screen, file, inputs,
                 applied, reported, unsure>>

-----------------------------------------------------------------------------
(* parse: an input needs an observation to name its window from.           *)
Sees(c, p) == seen' = [seen EXCEPT ![c] = p]
Recover(c) ==
  /\ c \in running /\ helper[c] = None /\ pending[c] = None /\ seen[c] = None
  /\ Sees(c, screen.process)
  /\ UNCHANGED <<busy, lock, running, pending, helper, orphans, screen, file, inputs,
                 applied, reported, unsure>>

(* The operation is on record, with the process behind the window, before  *)
(* the helper starts.                                                      *)
StartHelper(c, kind) ==
  /\ c \in running /\ helper[c] = None /\ pending[c] = None
  /\ kind \in Reads \/ seen[c] # None
  /\ inputs < MaxInputs /\ inputs' = inputs + 1
  /\ pending' = [pending EXCEPT ![c] = [op |-> inputs', kind |-> kind, target |-> seen[c]]]
  /\ helper' = [helper EXCEPT ![c] = [op |-> inputs', kind |-> kind, phase |-> "checks"]]
  /\ UNCHANGED <<busy, lock, running, seen, orphans, screen, file, applied, reported, unsure>>

(* The helper's input, which may do what was asked or something else.      *)
Input(h) ==
  /\ applied' = applied \cup {h.op}
  /\ \/ h.kind = "desktop_fill" /\ screen' = [screen EXCEPT !.shows = h.op] /\ UNCHANGED file
     \/ h.kind = "save" /\ file' = TRUE /\ UNCHANGED screen
     \/ UNCHANGED <<screen, file>>

(* The clipboard may be written while the helper still waits for the write *)
(* to return; the other inputs are marked as started first.                *)
Works(h) == h.phase = "checks" /\ h.kind \notin Reads
InputStarted(h) == h.phase = "input"
HelperInput(c) ==
  /\ helper[c] # None /\ Works(helper[c]) /\ Input(helper[c])
  /\ helper' = [helper EXCEPT ![c].phase =
       IF helper[c].kind = "desktop_clipboard_set" THEN "written" ELSE "input"]
  /\ UNCHANGED <<busy, lock, running, seen, pending, orphans, inputs, reported, unsure>>
ClipboardSet(c) ==
  /\ helper[c] # None /\ helper[c].phase = "written"
  /\ helper' = [helper EXCEPT ![c].phase = "input"]
  /\ UNCHANGED <<busy, lock, running, seen, pending, orphans, screen, file, inputs, applied,
                 reported, unsure>>
OrphanInput(h) ==
  /\ h \in orphans /\ Works(h) /\ Input(h) /\ orphans' = orphans \ {h}
  /\ UNCHANGED <<busy, lock, running, seen, pending, helper, inputs, reported, unsure>>

-----------------------------------------------------------------------------
Account(c) == reported' = reported \cup {pending[c].op}
Cleared(c) == pending' = [pending EXCEPT ![c] = None]
Kept == UNCHANGED <<pending, reported>>
Gone(c) == helper' = [helper EXCEPT ![c] = None]

(* The fresh state satisfies the postcondition that a kind has.            *)
Shown(p) == p.kind = "desktop_fill" /\ screen.shows = p.op

(* The helper ends well; an operation with a postcondition must show it.   *)
Answered(c) ==
  /\ helper[c] # None /\ (helper[c].kind \in Reads \/ InputStarted(helper[c]))
  /\ Gone(c) /\ Sees(c, screen.process)
  /\ IF pending[c].kind = "desktop_fill" /\ ~Shown(pending[c])
     THEN running' = running \ {c} /\ Unlease /\ Kept
     ELSE Cleared(c) /\ Account(c) /\ UNCHANGED <<running, busy, lock>>
  /\ UNCHANGED <<orphans, screen, file, inputs, applied, unsure>>

(* The helper fails and reports, with what it sees, that nothing was made: *)
(* none was marked as started.  A clipboard write that failed or did not   *)
(* return in time ("outcome uncertain") is reported so as well.            *)
NotApplied(c) ==
  /\ helper[c] # None /\ ~InputStarted(helper[c]) /\ Gone(c) /\ Cleared(c)
  /\ Sees(c, screen.process)
  /\ unsure' = IF helper[c].phase = "written" THEN unsure \cup {helper[c].op} ELSE unsure
  /\ UNCHANGED <<busy, lock, running, orphans, screen, file, inputs, applied, reported>>

Stopped_Clears(c) == Cleared(c) /\ UNCHANGED reported
(* desktop_emergency_stop: only a read leaves nothing behind.              *)
Stopped(c) ==
  IF pending[c].kind \in Reads THEN Cleared(c) /\ UNCHANGED reported ELSE Kept

(* identity: the process behind the window is the one it was.              *)
SameProcess(p) == p.target # None /\ p.target = screen.process

(* reconcile_observation and document_save: fresh state, nothing repeated. *)
Reconciles(p) ==
  \/ p.kind = "save" /\ file
  \/ SameProcess(p) /\ Shown(p)

Reconciled(c) == Reconciles(pending[c]) /\ Cleared(c) /\ Account(c)

(* The helper fails, or is killed after its time or by a stop.             *)
Failed(c) ==
  /\ helper[c] # None /\ Gone(c)
  /\ \/ Reconciled(c) /\ UNCHANGED <<running, busy, lock>>
     \/ (Kept \/ Stopped(c)) /\ running' = running \ {c} /\ Unlease
  /\ UNCHANGED <<seen, orphans, screen, file, inputs, applied, unsure>>

-----------------------------------------------------------------------------
(* The user looks, and says what became of the operation.                  *)
ResolvePending(c) ==
  /\ c \notin running /\ pending[c] # None /\ Cleared(c) /\ Account(c)
  /\ UNCHANGED <<busy, lock, running, seen, helper, orphans, screen, file, inputs, applied,
                 unsure>>

(* The application dies; the helpers do not.                               *)
DesktopCrash ==
  /\ running # {} /\ running' = {} /\ Unlease
  /\ orphans' = orphans \cup {helper[c] : c \in {d \in Conversations : helper[d] # None}}
  /\ helper' = Everyone(None)
  /\ UNCHANGED <<seen, pending, screen, file, inputs, applied, reported, unsure>>

(* recover: a fresh look at the desktop may settle what was interrupted.   *)
RecoverPending(c) ==
  /\ running = {} /\ pending[c] # None /\ Reconciled(c)
  /\ pending[c].kind = "save" \/ Acquirable
  /\ IF pending[c].kind = "save" THEN UNCHANGED seen ELSE Sees(c, screen.process)
  /\ UNCHANGED <<busy, lock, running, helper, orphans, screen, file, inputs, applied,
                 unsure>>

(* The window's handle goes to another process; an observation expires.    *)
Recycle ==
  /\ screen.process < MaxRecycled
  /\ screen' = [process |-> screen.process + 1, shows |-> None]
  /\ UNCHANGED <<busy, lock, running, seen, pending, helper, orphans, file, inputs,
                 applied, reported, unsure>>
Expire(c) ==
  /\ seen[c] # None /\ Sees(c, None)
  /\ UNCHANGED <<busy, lock, running, pending, helper, orphans, screen, file, inputs,
                 applied, reported, unsure>>

DesktopNext ==
  \/ \E c \in Conversations :
       \/ BeginTurn(c) \/ EndTurn(c) \/ Recover(c)
       \/ \E kind \in Kinds : StartHelper(c, kind)
       \/ HelperInput(c) \/ ClipboardSet(c) \/ Answered(c) \/ NotApplied(c) \/ Failed(c)
       \/ ResolvePending(c) \/ RecoverPending(c) \/ Expire(c)
  \/ OtherStudio \/ DesktopCrash \/ Recycle \/ \E h \in orphans : OrphanInput(h)

DesktopSpec == DesktopInit /\ [][DesktopNext]_desktopVars

-----------------------------------------------------------------------------
(* An input that was made is accounted for in the history, or its          *)
(* operation is still on record for the user: through failures of the      *)
(* helper, emergency stops, reconciliations, deaths and restarts ("never   *)
(* clear a potentially partial input action").  The exception is a write   *)
(* of the clipboard that the helper gives up waiting for.                  *)
InputAccounted == applied \subseteq
  reported \cup unsure \cup {pending[c].op : c \in {d \in Conversations : pending[d] # None}}

(* The lease keeps the desktop for one: no helper of another turn is about *)
(* to make input while a turn has it ("a launch never races a              *)
(* conversation's verified control turn").                                 *)
OneHand == busy # None => ~\E h \in orphans : Works(h)
=============================================================================
