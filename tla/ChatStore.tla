------------------------------ MODULE ChatStore ------------------------------
(* The store of one conversation (apps/studio/src/chat_store.rs): each save  *)
(* writes the worker's copy of the conversation in one transaction, together *)
(* with the events derived from what changed, and the page polls a pulse of  *)
(* the events before it fetches a snapshot (web/chat.js, refresh).  The      *)
(* worker may die at any time and continues from what was saved.             *)
EXTENDS Naturals, Sequences

CONSTANTS
    MaxEvents,     \* events kept, 256
    MaxSaves,      \* bound: saves
    MaxCalls       \* bound: tool calls dispatched

Running == {"Working"}
Statuses == Running \cup {"Stopped"}
Nothing == "nothing"
NoCall == [call |-> 0, proposal |-> FALSE]

VARIABLES
    chat,      \* the worker's copy
    stored,    \* what the last save left
    events,    \* the sequence numbers of the activity events kept
    page,      \* the page: its snapshot, the sequence it takes it for,
               \* and whether it waits for one, asked for at a sequence
    saves      \* saves so far

storeVars == <<chat, stored, events, page, saves>>

\* pending is NoCall or a call, perhaps one proposed to the user; activity is what
\* the worker waits for; evidence and messages are counted.
NewChat == [status |-> "Working", pending |-> NoCall, activity |-> Nothing,
            evidence |-> 0, messages |-> 1]
LastSeq == IF events = <<>> THEN 0 ELSE events[Len(events)]

----------------------------------------------------------------------------
\* The worker between two saves; it changes its copy only.
Dispatch ==
    /\ chat.pending = NoCall /\ chat.status \in Running
    /\ chat.evidence < MaxCalls
    /\ \E proposal \in BOOLEAN :
         chat' = [chat EXCEPT !.pending = [call |-> chat.evidence + 1, proposal |-> proposal]]
    /\ UNCHANGED <<stored, events, page, saves>>
\* The observation of a call, or the user's decision on a proposal.
Observe ==
    /\ chat.pending # NoCall /\ chat.pending = stored.pending
    /\ chat' = [chat EXCEPT !.pending = NoCall, !.evidence = @ + 1]
    /\ UNCHANGED <<stored, events, page, saves>>
Say ==
    /\ chat.messages = stored.messages
    /\ chat' = [chat EXCEPT !.messages = @ + 1]
    /\ UNCHANGED <<stored, events, page, saves>>
SetStatus(status) ==
    /\ status # chat.status /\ chat.status = stored.status
    /\ chat' = [chat EXCEPT !.status = status]
    /\ UNCHANGED <<stored, events, page, saves>>
SetActivity(activity) ==
    /\ activity # chat.activity /\ chat.activity = stored.activity
    /\ chat' = [chat EXCEPT !.activity = activity]
    /\ UNCHANGED <<stored, events, page, saves>>

----------------------------------------------------------------------------
\* What a save derives from the difference to the last one.
Resolved == stored.pending # NoCall /\ chat.pending = NoCall
Started == stored.pending = NoCall /\ chat.pending # NoCall
When(condition, type) == IF condition THEN <<type>> ELSE <<>>
Emitted_NoEvidence ==
    When(Started /\ ~chat.pending.proposal, "tool:start")
    \o When(Resolved /\ ~stored.pending.proposal, "tool:result")
    \o When(chat.status # stored.status, "workflow:stage_changed")
    \o When(chat.activity # stored.activity /\ chat.status \in Running, "klyne:activity")
Emitted ==
    When(Started /\ ~chat.pending.proposal, "tool:start")
    \o When(Resolved /\ ~stored.pending.proposal, "tool:result")
    \o When(chat.status # stored.status, "workflow:stage_changed")
    \o When(chat.activity # stored.activity /\ chat.status \in Running, "klyne:activity")
    \o When(chat.evidence > stored.evidence, "observation:new")
Last(n, s) == SubSeq(s, IF Len(s) > n THEN Len(s) - n + 1 ELSE 1, Len(s))

\* One transaction.  An unresolved action is never overwritten by another.
Save ==
    /\ saves < MaxSaves
    /\ saves' = saves + 1
    /\ ~(stored.pending # NoCall /\ chat.pending # NoCall /\ chat.pending # stored.pending)
    /\ stored' = chat
    /\ events' = Last(MaxEvents, events \o [i \in 1..Len(Emitted) |-> LastSeq + i])
    /\ UNCHANGED <<chat, page>>

\* The process dies: the worker's copy is what was saved.
Restart ==
    /\ chat # stored
    /\ chat' = stored
    /\ UNCHANGED <<stored, events, page, saves>>

----------------------------------------------------------------------------
\* The page: the pulse first, then, if it shows a change, the snapshot.
Pulse ==
    /\ ~page.asked
    /\ page' = IF ~page.open \/ page.seq # LastSeq
                    \/ page.snapshot.status # stored.status
               THEN [page EXCEPT !.asked = TRUE, !.at = LastSeq]
               ELSE page
    /\ page' # page
    /\ UNCHANGED <<chat, stored, events, saves>>
Snapshot ==
    /\ page.asked
    /\ page' = [page EXCEPT !.asked = FALSE, !.open = TRUE, !.snapshot = stored, !.seq = page.at]
    /\ UNCHANGED <<chat, stored, events, saves>>

StoreInit ==
    /\ chat = NewChat /\ stored = NewChat
    /\ events = <<>> /\ saves = 0
    /\ page = [open |-> FALSE, asked |-> FALSE, at |-> 0, snapshot |-> NewChat, seq |-> 0]

StoreNext ==
    \/ Dispatch \/ Observe \/ Say
    \/ \E status \in Statuses : SetStatus(status)
    \/ \E activity \in {Nothing, "model"} : SetActivity(activity)
    \/ Save \/ Restart \/ Pulse \/ Snapshot

StoreSpec == StoreInit /\ [][StoreNext]_storeVars

----------------------------------------------------------------------------
\* The tool call a copy of the conversation shows as running.
Underway(copy) == IF copy.pending.proposal THEN 0 ELSE copy.pending.call
\* The page's next pulse would not make it fetch the snapshot again.
Settled == /\ page.open /\ ~page.asked
           /\ page.seq = LastSeq /\ page.snapshot.status = stored.status

(* A page that has stopped fetching shows the stored status, observations    *)
(* and the call under way, whatever was saved between its pulse and its      *)
(* snapshot and however many events were dropped since.                      *)
SettledIsCurrent ==
    Settled => /\ page.snapshot.evidence = stored.evidence
               /\ Underway(page.snapshot) = Underway(stored)

(* "Lets the UI skip full snapshot fetches when nothing changed"             *)
(* (chat_store.rs:331): a page that stopped fetching shows every message.    *)
SettledShowsMessages == Settled => page.snapshot.messages = stored.messages
=============================================================================
