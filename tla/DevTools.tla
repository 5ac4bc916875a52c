------------------------------- MODULE DevTools -------------------------------
(***************************************************************************)
(* One debugging session of crates/harness-browser: the numbered calls of  *)
(* cdp.rs over the WebSocket client of ws.rs, the queue of events read     *)
(* while a call waits, and the navigation of browser.rs that waits for two *)
(* of them.  The browser answers in order and sends events of its own; a   *)
(* call that has waited long enough is given up, and its answer may still  *)
(* come.                                                                   *)
(***************************************************************************)
EXTENDS Naturals, Sequences, FiniteSets

CONSTANTS
  MaxCalls,     \* bound on calls of a session
  MaxEvents,    \* 256: events kept
  MaxEmitted,   \* bound on events of the browser
  None

Kinds == {"stopped", "loaded"}     \* of events that a navigation waits for

VARIABLES
  next,         \* next_id
  asked,        \* requests the browser has not answered yet
  wire,         \* messages sent by the browser and not read
  events,       \* events read and kept, in the order of their numbers
  call,         \* the id a call waits for, or None
  navigation,   \* what a navigation waits for, or None
  open,         \* the connection stands
  emitted,      \* events sent
  drained,      \* ghost: the events read before this navigation began
  last          \* ghost: how the last call or wait ended

cdpVars == <<next, asked, wire, events, call, navigation, open, emitted, drained, last>>

CdpInit ==
  /\ next = 1 /\ asked = {} /\ wire = <<>> /\ events = {}
  /\ call = None /\ navigation = None /\ open = TRUE
  /\ emitted = 0 /\ drained = {} /\ last = None

-----------------------------------------------------------------------------
(* The browser.                                                            *)
\* Requests are answered in any order.
Answer(id) ==
  /\ id \in asked /\ asked' = asked \ {id}
  /\ wire' = Append(wire, [kind |-> "answer", id |-> id])
  /\ UNCHANGED <<next, events, call, navigation, open, emitted, drained, last>>

Emit(kind) ==
  /\ emitted < MaxEmitted /\ emitted' = emitted + 1
  /\ wire' = Append(wire, [kind |-> kind, id |-> emitted'])
  /\ UNCHANGED <<next, asked, events, call, navigation, open, drained, last>>

-----------------------------------------------------------------------------
Idle == open /\ call = None /\ navigation = None

(* send_text: a request under the next id.                                 *)
SendText ==
  /\ next <= MaxCalls
  /\ call' = next /\ next' = next + 1 /\ asked' = asked \cup {next}

Call ==
  /\ Idle /\ SendText
  /\ UNCHANGED <<wire, events, navigation, open, emitted, drained, last>>

(* recv_text: the next complete message.                                   *)
RecvText == wire # <<>> /\ wire' = Tail(wire)

Oldest(e, some) == e \in some /\ \A f \in some : e.id <= f.id

(* An event is kept, and the oldest dropped.                               *)
Park(event) ==
  events' = {event} \cup (IF Cardinality(events) < MaxEvents THEN events
                         ELSE {e \in events : ~Oldest(e, events)})

Receive_Any(message) == message.kind = "answer"
(* What a call takes for its answer.                                       *)
Receive(message) == message.kind = "answer" /\ message.id = call

Ended(how, id) == last' = [how |-> how, id |-> id, own |-> call]

(* One message read by a call: its answer, which may be that the page      *)
(* cannot be opened; that of another, which fails it; or an event.         *)
ReadCall ==
  /\ open /\ call # None /\ RecvText
  /\ LET message == Head(wire)
     IN \/ /\ Receive(message) /\ Ended("answered", message.id)
           /\ call' = None
           /\ navigation' \in IF navigation = "sent" THEN {"stopped", None} ELSE {None}
           /\ UNCHANGED events
        \/ /\ message.kind = "answer" /\ ~Receive(message) /\ Ended("mismatched", message.id)
           /\ call' = None /\ navigation' = None /\ UNCHANGED events
        \/ /\ message.kind # "answer" /\ Park(message)
           /\ UNCHANGED <<call, navigation, last>>
  /\ UNCHANGED <<next, asked, open, emitted, drained>>

-----------------------------------------------------------------------------
(* drain_event                                                             *)
Drained(kinds) == {e \in events : e.kind \notin kinds}

(* navigate: old events are dropped, then the page is told to navigate.    *)
Navigate ==
  /\ Idle /\ SendText
  /\ events' = Drained(Kinds) /\ drained' = {e.id : e \in events}
  /\ navigation' = "sent"
  /\ UNCHANGED <<wire, open, emitted, last>>

(* wait_event_matching: first among the events kept, then on the wire.     *)
Waits == open /\ call = None /\ navigation \in Kinds
Kept == {e \in events : e.kind = navigation}
NextWait == IF navigation = "stopped" THEN "loaded" ELSE "landing"

WaitKept ==
  /\ Waits
  /\ \E e \in Kept :
       /\ Oldest(e, Kept) /\ events' = events \ {e}
       /\ last' = [how |-> "event", id |-> e.id, own |-> None]
  /\ navigation' = NextWait
  /\ UNCHANGED <<next, asked, wire, call, open, emitted, drained>>

WaitWire ==
  /\ Waits /\ Kept = {} /\ RecvText
  /\ LET message == Head(wire)
     IN \/ /\ message.kind = navigation /\ navigation' = NextWait
           /\ last' = [how |-> "event", id |-> message.id, own |-> None]
           /\ UNCHANGED events
        \/ /\ message.kind = "answer" /\ navigation' = None
           /\ Ended("mismatched", message.id) /\ UNCHANGED events
        \/ /\ message.kind \notin {navigation, "answer"} /\ Park(message)
           /\ UNCHANGED <<navigation, last>>
  /\ UNCHANGED <<next, asked, call, open, emitted, drained>>

(* The URL it landed on is asked for.                                      *)
Landed ==
  /\ open /\ call = None /\ navigation = "landing" /\ SendText
  /\ UNCHANGED <<wire, events, navigation, open, emitted, drained, last>>

(* The deadline passes.                                                    *)
TimeOut ==
  /\ open /\ (call # None \/ Waits)
  /\ call' = None /\ navigation' = None
  /\ last' = [how |-> "timed out", id |-> None, own |-> call]
  /\ UNCHANGED <<next, asked, wire, events, open, emitted, drained>>

(* The connection closes, and whatever waits fails.                        *)
Disconnect ==
  /\ open /\ open' = FALSE /\ call' = None /\ navigation' = None
  /\ last' = [how |-> "closed", id |-> None, own |-> call]
  /\ UNCHANGED <<next, asked, wire, events, emitted, drained>>

CdpNext ==
  \/ \E id \in asked : Answer(id)
  \/ \E kind \in Kinds : Emit(kind)
  \/ Call \/ ReadCall \/ Navigate \/ WaitKept \/ WaitWire \/ Landed
  \/ TimeOut \/ Disconnect

CdpSpec == CdpInit /\ [][CdpNext]_cdpVars

-----------------------------------------------------------------------------
(* A call returns the answer to its own request, and a navigation ends by  *)
(* an event that was not read before it began, whatever was given up       *)
(* before ("a stale queued event must never satisfy a later wait").        *)
OwnAnswers ==
  last # None =>
    /\ last.how = "answered" => last.id = last.own
    /\ last.how = "event" => last.id \notin drained

(* A call fails only for want of its own answer: an answer to a call that  *)
(* was given up before is put aside ("responses addressed to others are    *)
(* parked").                                                               *)
OthersParked == last # None => last.how # "mismatched"
=============================================================================
