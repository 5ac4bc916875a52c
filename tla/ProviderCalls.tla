---------------------------- MODULE ProviderCalls ----------------------------
(* One decision asked of a model provider (apps/studio/src/connections.rs    *)
(* over network.rs): a Codex child process with its three pipe threads, an   *)
(* OpenCode session on a local server, or a streamed Ollama reply.  Each     *)
(* call polls a deadline and the user's stop between two waits.  ModelCall   *)
(* has what the runtime makes of the outcome.                                *)
EXTENDS Naturals, Sequences

CONSTANTS
    Cap,       \* the largest output taken, 512 KiB or 8 MiB, in lines
    MaxLines,  \* bound: lines a provider writes
    Windows    \* a job object ends the descendants of a child with it

VARIABLES
    call,      \* kind and phase of the call
    child,     \* the Codex process: its state, and whether a descendant of it
               \* still holds its pipes
    pipes,     \* the reader and writer threads
    server,    \* what an HTTP server does about the request
    lines,     \* lines received: of a reply, or of the child's events
    stopped,   \* the user's stop
    late       \* the deadline of the request under way has passed

callVars == <<call, child, pipes, server, lines, stopped, late>>

Kinds == {"codex", "opencode", "ollama"}
Lines == {"text", "error", "garbage", "done"}
Waiting == {"process", "session", "message", "abort", "stream"}
Returned == call.phase \in {"ok", "failed"}
At(phase) == call.phase = phase
Goto(phase) == call' = [call EXCEPT !.phase = phase]
Over == stopped \/ late

NoChild == [state |-> "none", descendant |-> FALSE]
NoPipes == [p \in {"out", "err", "in"} |-> "none"]
Finished == \A p \in DOMAIN pipes : pipes[p] \in {"ended", "failed"}

----------------------------------------------------------------------------
\* execute_cancellable(): spawn, then poll the process and its threads.
StartCodex ==
    /\ At("idle") /\ call.kind = "codex" /\ Goto("process")
    /\ \E descendant \in BOOLEAN : child' = [state |-> "running", descendant |-> descendant]
    /\ pipes' = [p \in DOMAIN pipes |-> "open"]
    /\ UNCHANGED <<server, lines, stopped, late>>

ChildWrites ==
    /\ child.state = "running" \/ child.descendant
    /\ pipes["out"] = "open" /\ Len(lines) < MaxLines
    /\ \E line \in Lines : lines' = Append(lines, line)
    /\ pipes' = [pipes EXCEPT !["out"] = IF Len(lines') > Cap THEN "failed" ELSE @]
    /\ UNCHANGED <<call, child, server, stopped, late>>
ChildExits ==
    /\ child.state = "running"
    /\ \E ok \in BOOLEAN : child' = [child EXCEPT !.state = IF ok THEN "exited" ELSE "broken"]
    /\ UNCHANGED <<call, pipes, server, lines, stopped, late>>
DescendantExits ==
    /\ child.descendant
    /\ child' = [child EXCEPT !.descendant = FALSE]
    /\ UNCHANGED <<call, pipes, server, lines, stopped, late>>
\* A read ends when nobody can write any more; a write when it was read, or nobody can.
PipeEnds(p) ==
    /\ pipes[p] = "open"
    /\ p \in {"out", "err"} => child.state # "running" /\ ~child.descendant
    /\ pipes' = [pipes EXCEPT ![p] = "ended"]
    /\ UNCHANGED <<call, child, server, lines, stopped, late>>

\* decide_text(): the events in order; an error ends the turn, the message is needed.
CodexText == "garbage" \notin {lines[i] : i \in DOMAIN lines}
             /\ "error" \notin {lines[i] : i \in DOMAIN lines}
             /\ "text" \in {lines[i] : i \in DOMAIN lines}
Terminated == [state |-> "killed", descendant |-> child.descendant /\ ~Windows]
PollCodex_ThenJoin ==
    /\ At("process")
    /\ \/ /\ child.state \in {"exited", "broken"} /\ Finished
          /\ Goto(IF child.state = "exited" /\ pipes["out"] = "ended" /\ CodexText
                  THEN "ok" ELSE "failed")
          /\ UNCHANGED child
       \/ child.state = "running" /\ Over /\ child' = Terminated /\ Goto("failed")
    /\ UNCHANGED <<pipes, server, lines, stopped, late>>
PollCodex ==
    /\ At("process")
    /\ \/ /\ child.state \in {"exited", "broken"} /\ Finished
          /\ Goto(IF child.state = "exited" /\ pipes["out"] = "ended" /\ CodexText
                  THEN "ok" ELSE "failed")
          /\ UNCHANGED child
       \/ /\ ~(child.state \in {"exited", "broken"} /\ Finished)
          /\ Over /\ child' = Terminated /\ Goto("failed")
    /\ UNCHANGED <<pipes, server, lines, stopped, late>>

----------------------------------------------------------------------------
\* send(): a request that is not dispatched once stopped; Gone is a failure of
\* the connection, a status that is not 2xx, or a body that is too long or no JSON.
Dispatch(phase) == Goto(phase) /\ late' = FALSE

StartOpenCode ==
    /\ At("idle") /\ call.kind = "opencode"
    /\ IF stopped THEN Goto("failed") /\ UNCHANGED late ELSE Dispatch("session")
    /\ UNCHANGED <<child, pipes, server, lines, stopped>>
OpenSession ==
    /\ At("session")
    /\ \/ /\ ~stopped /\ Dispatch("message") /\ server' = "asked"
       \/ /\ Goto("failed") /\ UNCHANGED <<server, late>>
    /\ UNCHANGED <<child, pipes, lines, stopped>>

\* The server generates whether or not anybody still waits for the answer.
ServerTakes ==
    /\ server = "asked"
    /\ server' = "generating"
    /\ UNCHANGED <<call, child, pipes, lines, stopped, late>>
ServerAnswers ==
    /\ server = "generating"
    /\ server' = "answered"
    /\ UNCHANGED <<call, child, pipes, lines, stopped, late>>

\* A failed message call, whatever failed, asks the server to abort the session,
\* with a deadline of its own and deaf to the stop.
AbortSession == Dispatch("abort")
AwaitMessage ==
    /\ At("message")
    /\ \/ /\ server = "answered" /\ ~stopped
          /\ UNCHANGED <<server, late>>
          /\ \E usable \in BOOLEAN : Goto(IF usable THEN "ok" ELSE "failed")
       \/ /\ AbortSession
          /\ UNCHANGED server
    /\ UNCHANGED <<child, pipes, lines, stopped>>
\* An abort the server never gets leaves it to finish by itself: "lost".
AwaitAbort ==
    /\ At("abort") /\ Goto("failed")
    /\ \E lost \in BOOLEAN :
         server' = IF lost /\ server \in {"asked", "generating"} THEN "lost" ELSE "idle"
    /\ UNCHANGED <<child, pipes, lines, stopped, late>>

----------------------------------------------------------------------------
\* send_lines(): an Ollama reply, a line at a time; a server sees the connection close.
StartOllama ==
    /\ At("idle") /\ call.kind = "ollama"
    /\ IF stopped THEN Goto("failed") /\ UNCHANGED <<server, late>>
       ELSE Dispatch("stream") /\ server' = "generating"
    /\ UNCHANGED <<child, pipes, lines, stopped>>
StreamLine ==
    /\ At("stream") /\ ~stopped /\ server = "generating" /\ Len(lines) < MaxLines
    /\ \E line \in Lines :
         /\ lines' = Append(lines, line)
         /\ server' = IF line = "done" THEN "answered" ELSE server
    /\ UNCHANGED <<call, child, pipes, stopped, late>>
\* ollama_chat(): garbage is skipped; an error line, no message at all, a reply cut off
\* at the length limit (not whole) and one that is too long are failures.
OllamaText(whole) ==
    LET said == SelectSeq(lines, LAMBDA l : l # "garbage")
    IN  /\ Len(lines) <= Cap /\ said # <<>> /\ whole
        /\ \A i \in DOMAIN said : said[i] # "error"
        /\ \E i \in DOMAIN said : said[i] = "text"
EndStream ==
    /\ At("stream")
    /\ \/ /\ ~stopped
          /\ \E whole \in BOOLEAN : Goto(IF OllamaText(whole) THEN "ok" ELSE "failed")
       \/ Goto("failed")
    /\ server' = "idle"
    /\ UNCHANGED <<child, pipes, lines, stopped, late>>

----------------------------------------------------------------------------
CallStop ==
    /\ ~stopped /\ stopped' = TRUE
    /\ UNCHANGED <<call, child, pipes, server, lines, late>>
CallLate ==
    /\ call.phase \in Waiting /\ ~late /\ late' = TRUE
    /\ UNCHANGED <<call, child, pipes, server, lines, stopped>>

CallInit ==
    /\ call \in [kind : Kinds, phase : {"idle"}]
    /\ child = NoChild /\ pipes = NoPipes
    /\ server = "idle" /\ lines = <<>>
    /\ stopped = FALSE /\ late = FALSE

World == \/ ChildWrites \/ ChildExits \/ DescendantExits \/ \E p \in DOMAIN pipes : PipeEnds(p)
         \/ ServerTakes \/ ServerAnswers \/ CallStop
Caller == \/ StartCodex \/ PollCodex
          \/ StartOpenCode \/ OpenSession \/ AwaitMessage \/ AwaitAbort
          \/ StartOllama \/ EndStream
CallNext == Caller \/ StreamLine \/ World \/ CallLate

\* Deadlines pass and the loops poll every 25 ms; a provider may do nothing.
CallFair == WF_callVars(late /\ Caller) /\ WF_callVars(CallLate)
CallSpec == CallInit /\ [][CallNext]_callVars
FairCall == CallSpec /\ CallFair

----------------------------------------------------------------------------
(* Every call returns, though a child may never read its input, never exit,  *)
(* or leave its pipes to a descendant (connections.rs:695), and a server may *)
(* never answer.  Then nothing works for it any more: no process, and no     *)
(* session the server still generates for, unless the abort itself did not   *)
(* reach it.  In particular a stopped call still aborts its session.         *)
Quiet ==
    /\ child.state # "running" /\ (Windows => ~child.descendant)
    /\ server \notin {"asked", "generating"}
CallReturns == call.phase \in Waiting ~> Returned /\ Quiet
=============================================================================
