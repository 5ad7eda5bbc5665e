------------------------------ MODULE McpTools ------------------------------
(***************************************************************************)
(* The tools of the MCP server (class CanmvMcpHandler of mcp/server.ts) in *)
(* standalone mode: what the handler remembers of the board, of frames and *)
(* of idleness, against a backend whose answers and events arrive in order.*)
(* Backends that are no longer in use live on beside it: one that was      *)
(* closed until it has ended, and one that was forgotten.                  *)
(*                                                                         *)
(* One chunk of the backend's output may hold several messages.  They are  *)
(* all handled before the continuations of the requests they answer run    *)
(* (res[c] # "none"), and those before any other event.  McpTransport      *)
(* models what this module takes for granted: that requests are answered.  *)
(***************************************************************************)
EXTENDS Naturals, Sequences, Bags, McpBoard

CONSTANTS Calls, Idler,   \* tool calls; the disconnection the idle timer starts
          None,
          MaxWire,        \* bound: messages on their way to the server, and to the backend
          MaxBackends     \* bound: backends that run when a tool is called

ASSUME IdlerAssumption == Idler \notin Calls
ASSUME NoneAssumption == None \notin Calls \cup {Idler}

VARIABLES
  tool, at, res,                            \* the calls: tool, place, settled request
  timer, latestFrame, frameWaiters,         \* the handler, with boardInfo (McpBoard)
  session, streaming, reqs,                 \* the backend in use: its board, its requests
  others,                                   \* the backends no longer in use
  wire, chunk                   \* their output; whether a chunk is being handled

calls == <<tool, at, res>>
frames == <<latestFrame, frameWaiters>>
backend == <<backendChild, backendOpen, session, streaming, reqs, others>>
vars == <<calls, boardInfo, timer, frames, backend, wire, chunk>>

\* The tools by what they ask of the board: one request or several ("use"), ...
Tools == {"connect", "use", "start", "frame", "disconnect"}
Callers == Calls \cup {Idler}
Pending == {"detect", "connect", "preview", "use", "disconnect"}
Others == [closed : BOOLEAN, session : BOOLEAN, streaming : BOOLEAN]

TypeOK ==
  /\ tool \in [Callers -> Tools]
  /\ at \in [Callers -> Pending \cup {"idle", "ready", "frame", "fresh"}]
  /\ res \in [Callers -> {"none", "ok", "error"}]
  /\ {boardInfo, timer, latestFrame, backendOpen, session, streaming, chunk} \subseteq BOOLEAN
  /\ backendChild \in {"none", "up", "dead"}      \* dead: its exit was not seen yet
  /\ frameWaiters \subseteq Callers /\ IsABag(others) /\ BagToSet(others) \subseteq Others

Init ==
  /\ tool = [c \in Callers |-> "disconnect"] /\ at = [c \in Callers |-> "idle"]
  /\ res = [c \in Callers |-> "none"]
  /\ boardInfo = FALSE /\ timer = FALSE
  /\ latestFrame = FALSE /\ frameWaiters = {}
  /\ backendChild = "none" /\ backendOpen = FALSE /\ session = FALSE /\ streaming = FALSE /\ reqs = <<>>
  /\ others = EmptyBag /\ wire = <<>> /\ chunk = FALSE

Settled == \A c \in Callers : res[c] = "none"
Quiet == Settled /\ ~chunk

-----------------------------------------------------------------------------
\* The backend in use is so no longer: it was closed, and gives up its board, or it
\* is forgotten and serves what it was sent.  One that is dead has its exit to come.
Other(closed, s, str) == [closed |-> closed, session |-> s, streaming |-> str]
Sent(method) == \E i \in DOMAIN reqs : reqs[i].method = method
Left(closed) ==
  CASE backendChild = "dead" -> {Other(TRUE, FALSE, FALSE)}
    [] closed -> {Other(TRUE, FALSE, streaming)}
    [] reqs = <<>> -> {Other(FALSE, session, streaming)}
    [] OTHER -> {b \in Others : /\ ~b.closed
                                /\ b.session => session \/ Sent("connect")
                                /\ b.streaming => b.session /\ (streaming \/ Sent("preview"))}
Leave(closed) ==
  IF backendChild = "none" THEN UNCHANGED others
  ELSE \E b \in Left(closed) : others' = others (+) SetToBag({b})

\* backend.request: spawns a backend when none is in use, also over one that runs
\* while isOpen is false.  at[c] is the method.
Send(c, method) ==
  LET r == [call |-> c, method |-> method] IN
  /\ at' = [at EXCEPT ![c] = method] /\ backendOpen' = TRUE
  /\ IF backendOpen THEN /\ reqs' = (IF backendChild = "up" THEN Append(reqs, r) ELSE reqs)
                         /\ UNCHANGED <<backendChild, session, streaming, others>>
     ELSE /\ Leave(FALSE)
          /\ backendChild' = "up" /\ reqs' = <<r>> /\ session' = FALSE /\ streaming' = FALSE
End(c) == at' = [at EXCEPT ![c] = "idle"] /\ UNCHANGED backend

\* waitForFrame, for any frame or for one that differs from the latest ("fresh").
WaitForFrame(c, which) ==
  /\ at' = [at EXCEPT ![c] = which] /\ frameWaiters' = frameWaiters \cup {c}
  /\ UNCHANGED backend

\* What a call does once the board is connected: a request of its own, such as a
\* write or the execution of what was written, or the start of the preview.
Use(c) == Send(c, "use")
Proceed(c) ==
  CASE tool'[c] = "use" -> Use(c)
    [] tool'[c] \in {"start", "frame"} -> Send(c, "preview")
    [] OTHER -> End(c)

\* connectBoard without a port, as in requestResult's automatic connection: the
\* port is looked for first.
ConnectBoard(c) == IF boardInfo THEN Proceed(c) ELSE Send(c, "detect")

\* A tool of several requests goes on with its next page or chunk.
NextPart(c) == ConnectBoard(c)

\* close(): the backend is told to end, its requests are answered with errors;
\* what it still wrote is read, answers to nobody, and its exit is seen some time.
Stale(q) == [i \in DOMAIN q |-> [q[i] EXCEPT !.call = None]]
Message(kind, c, n) == [kind |-> kind, call |-> c, n |-> n]
CloseBackend(c) ==
  /\ backendChild' = "none" /\ backendOpen' = FALSE /\ session' = FALSE /\ streaming' = FALSE /\ reqs' = <<>>
  /\ Leave(TRUE)
  /\ wire' = Stale(wire)
  /\ res' = [d \in Callers |-> IF d # c /\ at[d] \in Pending THEN "error"
                               ELSE IF d = c THEN "none" ELSE res[d]]
(* Mutant: the session is closed and the board remembered. *)
ForgetFrame == latestFrame' = FALSE /\ UNCHANGED boardInfo
Forget == boardInfo' = FALSE /\ latestFrame' = FALSE
\* disconnectBoardSession, by the tool or by the idle timer.
DisconnectBoardSession(c) ==
  /\ timer' = FALSE
  /\ IF boardInfo
     THEN Send(c, "disconnect") /\ UNCHANGED <<boardInfo, latestFrame, res, wire>>
     ELSE CloseBackend(c) /\ Forget /\ at' = [at EXCEPT ![c] = "idle"]
  /\ UNCHANGED <<frameWaiters, chunk>>

-----------------------------------------------------------------------------
\* With no frame yet the preview is started first.
LatestFrameForArgs(c) ==
  IF latestFrame THEN WaitForFrame(c, "fresh") ELSE ConnectBoard(c) /\ UNCHANGED frameWaiters

\* callTool.
Room == Len(wire) < MaxWire /\ Len(reqs) < MaxWire
Backends == BagCardinality(others) + (IF backendChild = "none" THEN 0 ELSE 1)
CallTool(c) ==
  /\ Quiet /\ at[c] = "idle" /\ c \in Calls /\ Room /\ Backends < MaxBackends
  /\ \/ /\ \E t \in {"connect", "use"} : tool' = [tool EXCEPT ![c] = t]
        /\ ConnectBoard(c) /\ UNCHANGED <<res, boardInfo, timer, frames, wire, chunk>>
     \/ /\ tool' = [tool EXCEPT ![c] = "connect"]     \* to a port: no board known, or another port
        /\ Send(c, "connect") /\ UNCHANGED <<res, boardInfo, timer, frames, wire, chunk>>
     \/ /\ tool' = [tool EXCEPT ![c] = "start"] /\ latestFrame' = FALSE
        /\ ConnectBoard(c) /\ UNCHANGED <<res, boardInfo, timer, frameWaiters, wire, chunk>>
     \/ /\ tool' = [tool EXCEPT ![c] = "frame"]
        /\ LatestFrameForArgs(c)
        /\ UNCHANGED <<res, boardInfo, timer, latestFrame, wire, chunk>>
     \/ /\ tool' = [tool EXCEPT ![c] = "disconnect"] /\ DisconnectBoardSession(c)

\* The idle timer, whatever requests are under way.
IdleTimer ==
  /\ Quiet /\ timer /\ at[Idler] = "idle" /\ DisconnectBoardSession(Idler) /\ UNCHANGED tool

\* requestResult, after the response; then the caller's own continuation.
(* Mutant: a request that failed does not start the timer. *)
ScheduleUnlessFailed == timer' = (timer \/ \A c \in Callers : res[c] # "error")
ScheduleIdleDisconnect == timer' = TRUE
Continue(c) ==
  /\ ~chunk /\ res[c] # "none" /\ UNCHANGED <<tool, chunk>>
  /\ \/ /\ at[c] \in Pending \ {"disconnect"} /\ ScheduleIdleDisconnect
        /\ res' = [res EXCEPT ![c] = "none"]
        /\ \/ /\ at[c] = "detect" /\ res[c] = "ok"      \* a board was found, or none
              /\ Send(c, "connect") \/ End(c)
              /\ UNCHANGED <<boardInfo, frames>>
           \/ /\ at[c] = "connect" /\ res[c] = "ok"
              /\ boardInfo' = TRUE /\ UNCHANGED frames
              /\ \/ at' = [at EXCEPT ![c] = "ready"] /\ UNCHANGED backend
                 \/ Proceed(c)     \* legacy firmware is ready at once
           \/ /\ at[c] = "preview" /\ res[c] = "ok" /\ tool[c] = "frame" /\ ~latestFrame
              /\ WaitForFrame(c, "frame")
              /\ UNCHANGED <<boardInfo, latestFrame>>
           \/ /\ at[c] = "use" /\ res[c] = "ok" /\ NextPart(c) /\ UNCHANGED <<boardInfo, frames>>
           \/ /\ at[c] = "use" \/ res[c] = "error" \/ (at[c] = "preview" /\ (latestFrame \/ tool[c] = "start"))
              /\ End(c) /\ UNCHANGED <<boardInfo, frames>>
        /\ UNCHANGED wire
     \/ /\ at[c] = "disconnect" /\ timer' = FALSE
        /\ CloseBackend(c) /\ Forget /\ at' = [at EXCEPT ![c] = "idle"] /\ UNCHANGED frameWaiters

\* waitForBoardReady's polling, which gives up after BOARD_READY_TIMEOUT_MS.
BoardReady(c) ==
  /\ Quiet /\ at[c] = "ready" /\ ScheduleIdleDisconnect /\ UNCHANGED tool /\ Proceed(c)
  /\ UNCHANGED <<res, boardInfo, frames, wire, chunk>>
\* The request's timer.
Timeout(c) ==
  /\ Quiet /\ at[c] \in Pending /\ res' = [res EXCEPT ![c] = "error"]
  /\ reqs' = [i \in DOMAIN reqs |-> IF reqs[i].call = c THEN [reqs[i] EXCEPT !.call = None] ELSE reqs[i]]
  /\ wire' = [i \in DOMAIN wire |-> IF wire[i].call = c THEN [wire[i] EXCEPT !.call = None] ELSE wire[i]]
  /\ UNCHANGED <<tool, at, boardInfo, timer, frames, backendChild, backendOpen, session, streaming, others, chunk>>
FrameTimeout(c) ==
  /\ Quiet /\ at[c] \in {"frame", "fresh"} /\ at' = [at EXCEPT ![c] = "idle"]
  /\ frameWaiters' = frameWaiters \ {c}
  /\ UNCHANGED <<tool, res, boardInfo, timer, latestFrame, backend, wire, chunk>>

-----------------------------------------------------------------------------
\* handleMessage and handleBackendEvent, one message of a chunk.
HandleResponse(m) ==
  /\ res' = [c \in Callers |-> IF c = m.call THEN m.n ELSE res[c]]
  /\ UNCHANGED <<at, boardInfo, frames>>
BoardDisconnected == boardInfo' = FALSE /\ UNCHANGED frames
Deliver(last) ==
  /\ Settled \/ chunk
  /\ wire # <<>> /\ wire' = Tail(wire) /\ chunk' = ~last
  /\ LET m == Head(wire) IN
     \/ m.kind = "response" /\ HandleResponse(m)
     \/ m.kind = "boardDisconnected" /\ BoardDisconnected /\ UNCHANGED <<at, res>>
  /\ UNCHANGED <<tool, timer, backend>>
\* handleFrame: every waiter leaves the list, also one whose baseline is this
\* frame's number, which it then waits past: preview numbers start anew.  Frames of
\* a backend that is no longer in use are not told from those of the one that is.
HandleFrame ==
  /\ Quiet /\ (streaming \/ \E b \in BagToSet(others) : b.streaming)
  /\ latestFrame' = TRUE /\ frameWaiters' = {}
  /\ \E same \in SUBSET {c \in frameWaiters : at[c] = "fresh"} :
       at' = [c \in Callers |-> IF c \in frameWaiters \ same THEN "idle" ELSE at[c]]
  /\ UNCHANGED <<tool, res, boardInfo, timer, backend, wire, chunk>>
EndChunk == chunk /\ chunk' = FALSE /\ UNCHANGED <<calls, boardInfo, timer, frames, backend, wire>>
\* The exit event of a backend answers what is pending and clears isOpen, whichever
\* backend is in use by then: the next request spawns another one over it.
HandleExit ==
  /\ res' = [c \in Callers |-> IF at[c] \in Pending THEN "error" ELSE res[c]]
  /\ wire' = Stale(wire) /\ reqs' = Stale(reqs)
  /\ BoardDisconnected /\ backendOpen' = FALSE
  /\ UNCHANGED <<tool, at, timer, session, streaming, chunk>>
DeliverExit ==
  /\ Quiet /\ backendChild = "dead" /\ backendChild' = "none"
  /\ HandleExit /\ UNCHANGED others
\* That of a backend which was closed, or of a forgotten one, which ends by itself.
OtherExits(b) ==
  /\ Quiet /\ BagIn(b, others) /\ others' = others (-) SetToBag({b})
  /\ HandleExit /\ UNCHANGED backendChild

-----------------------------------------------------------------------------
\* The backend: requests in order, one board.
Serve ==
  /\ Quiet /\ backendChild = "up" /\ reqs # <<>> /\ Len(wire) < MaxWire /\ reqs' = Tail(reqs)
  /\ LET r == Head(reqs)
         Answer(ok) == wire' = Append(wire, Message("response", r.call, ok))
     IN \/ r.method = "detect" /\ UNCHANGED <<session, streaming>> /\ Answer("ok")
        \/ /\ r.method = "connect"
           /\ \E ok \in {"ok", "error"} : session' = (ok = "ok") /\ Answer(ok)
           /\ streaming' = FALSE
        \/ /\ r.method = "disconnect" /\ session' = FALSE /\ streaming' = FALSE /\ Answer("ok")
        \/ /\ r.method = "use" /\ UNCHANGED session
           /\ streaming' \in {streaming, FALSE}      \* stopPreview is one of the uses
           /\ Answer(IF session THEN "ok" ELSE "error")
        \/ /\ r.method = "preview" /\ streaming' = session /\ UNCHANGED session
           /\ Answer(IF session THEN "ok" ELSE "error")
  /\ UNCHANGED <<calls, boardInfo, timer, frames, backendChild, backendOpen, others, chunk>>
Unplug ==
  /\ Quiet /\ backendChild = "up" /\ Room /\ session /\ session' = FALSE /\ streaming' = FALSE
  /\ wire' = Append(wire, Message("boardDisconnected", None, None))
  /\ UNCHANGED <<calls, boardInfo, timer, frames, backendChild, backendOpen, reqs, others, chunk>>
OtherUnplugged(b) ==
  /\ Quiet /\ BagIn(b, others) /\ Room /\ b.session
  /\ others' = (others (-) SetToBag({b})) (+) SetToBag({Other(b.closed, FALSE, FALSE)})
  /\ wire' = Append(wire, Message("boardDisconnected", None, None))
  /\ UNCHANGED <<calls, boardInfo, timer, frames, backendChild, backendOpen, session, streaming, reqs, chunk>>
\* The backend process ends by itself.
Crash ==
  /\ Quiet /\ backendChild = "up" /\ backendChild' = "dead"
  /\ session' = FALSE /\ streaming' = FALSE /\ reqs' = <<>>
  /\ UNCHANGED <<calls, boardInfo, timer, frames, backendOpen, others, wire, chunk>>

Next ==
  \/ \E c \in Callers : CallTool(c) \/ Continue(c) \/ BoardReady(c) \/ Timeout(c) \/ FrameTimeout(c)
  \/ IdleTimer \/ \E last \in BOOLEAN : Deliver(last)
  \/ EndChunk \/ DeliverExit \/ HandleFrame \/ Serve \/ Unplug \/ Crash
  \/ \E b \in Others : OtherExits(b) \/ OtherUnplugged(b)

\* Timers fire, continuations run, the process's events are delivered and a backend
\* that was told to end does; none need answer and nobody need call a tool.
Fairness ==
  /\ WF_vars(\E c \in Callers : Continue(c)) /\ WF_vars(EndChunk)
  /\ WF_vars(IdleTimer)
  /\ WF_vars(\E c \in Callers : BoardReady(c) \/ Timeout(c) \/ FrameTimeout(c))
  /\ WF_vars(DeliverExit) /\ WF_vars(Deliver(TRUE))
  /\ WF_vars(\E b \in Others : b.closed /\ OtherExits(b))
Spec == Init /\ [][Next]_vars /\ Fairness

-----------------------------------------------------------------------------
\* Once no tool is called any more the session ends (extension README, 137:
\* standalone sessions disconnect after an idle timeout), also when requests fail,
\* time out, or the session's own disconnection does: the backend in use ends, and
\* so does every one that was closed.  Only one that a request forgot, because
\* the exit of an earlier one had cleared isOpen, may run on (EverySessionEnds).
IdleSessionEnds ==
  <>[](\A c \in Calls : at[c] = "idle") => <>[](backendChild = "none" /\ \A b \in BagToSet(others) : ~b.closed)

\* Not so in the code (README, section 8).
\* Once no tool is called any more no backend runs and holds a board.
EverySessionEnds == <>[](\A c \in Calls : at[c] = "idle") => <>[](backendChild = "none" /\ others = EmptyBag)
\* A request never spawns a backend over one that runs.
NothingIsForgotten == \A b \in BagToSet(others) : b.closed
\* The timer fires only when no request is under way.
IdleMeansInactive ==
  [][at[Idler] = "idle" /\ timer /\ at'[Idler] = "disconnect" => \A c \in Calls : at[c] \notin Pending]_vars
\* A board the handler knows of is connected, once all has been read.
KnownBoardIsOpen == Quiet /\ wire = <<>> /\ boardInfo => session
\* A call that waits for a frame is woken by the next fresh one.
WaitersAreKept == \A c \in Callers : at[c] \in {"frame", "fresh"} => c \in frameWaiters
\* Connecting on behalf of one tool spares the session another one uses.
AutoConnectSparesSession == \A i \in DOMAIN reqs : reqs[i].method = "connect" => ~session
=============================================================================
