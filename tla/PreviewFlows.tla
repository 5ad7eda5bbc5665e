---------------------------- MODULE PreviewFlows ----------------------------
(***************************************************************************)
(* Scripts and the preview in the extension (extension.ts, videoService):  *)
(* the commands of the user, the requests of MCP clients, which do not ask *)
(* whether the board is busy, the automatic start of the preview, its      *)
(* watchdog, and what the backend reports.  A thread runs until it awaits  *)
(* an answer or the automatic start.  The backend answers in order;        *)
(* answers and events share one pipe.                                      *)
(***************************************************************************)
EXTENDS Naturals, Sequences, SequencesExt

CONSTANTS Procs,          \* commands and MCP requests under way
          Afters,         \* ends of scripts being dealt with
          MaxCommands, MaxFaults,    \* bounds
          Faults,         \* which may happen: late frames, a request (or a start of the preview, or a
                          \* stop) that times out, a run (over another script) or a stop that fails, a
                          \* script that ends before a poller saw it, a board lost
          Coalesced       \* an event may come in one chunk with the answers before it

VARIABLES ui,             \* the variables of activate()
          th,             \* the threads: operation, what it awaits, whether it marks the board busy
          promise,        \* previewAutoStartPromise is that of the start under way
          wire, pipe,     \* requests; answers and events
          board,          \* the backend's view of the script and the preview
          commands, faults
vars == <<ui, th, promise, wire, pipe, board, commands, faults>>

Threads == Procs \cup Afters \cup {"auto", "recover"}
ASSUME ThreadsAssumption ==
  /\ Procs \cap Afters = {} /\ (Procs \cup Afters) \cap {"auto", "recover"} = {}
  /\ {"none", "event"} \cap Threads = {}     \* receivers of their own
Idle == [op |-> "none", at |-> "idle", busy |-> FALSE]
Quiet == \A p \in Threads : th[p] = Idle
FreshBoard == [running |-> FALSE, told |-> FALSE, streaming |-> FALSE, there |-> TRUE]
Answers == {"check", "run", "clear", "stop", "probe", "start", "clear2", "ask"}

UiStates == [session : {"disconnected", "connected", "streaming"}, running : BOOLEAN, scriptBusy : BOOLEAN,
             connectionBusy : BOOLEAN, stopped : BOOLEAN, paused : BOOLEAN, timer : {"none", "armed", "stale"},
             fresh : BOOLEAN, subscribed : BOOLEAN, watchdog : BOOLEAN, auto : BOOLEAN]
TypeOK ==
  /\ ui \in UiStates
  /\ \A p \in Threads : th[p].at \in Answers \cup {"idle", "wait", "wait2", "open"}
  /\ board \in [running : BOOLEAN, told : BOOLEAN, streaming : BOOLEAN, there : BOOLEAN]
  /\ \A i \in 1..Len(wire) : wire[i].to \in Threads \cup {"none"}

Init ==
  /\ ui = [session |-> "connected", running |-> FALSE, scriptBusy |-> FALSE, connectionBusy |-> FALSE,
           stopped |-> FALSE, paused |-> FALSE, timer |-> "none", fresh |-> FALSE, subscribed |-> FALSE,
           watchdog |-> FALSE, auto |-> FALSE]
  /\ th = [p \in Threads |-> Idle] /\ promise = FALSE /\ wire = <<>> /\ pipe = <<>>
  /\ board = FreshBoard /\ commands = 0 /\ faults = 0

Fault(kind) == kind \in Faults /\ faults < MaxFaults /\ faults' = faults + 1

-----------------------------------------------------------------------------
\* cancelPreviewAutoStart, updatePreviewWatchdog, clearPreviewState.
Cancel(u) == [u EXCEPT !.timer = "none", !.fresh = FALSE]
Watch(u) == [u EXCEPT !.watchdog = u.session = "streaming" /\ u.running /\ ~u.stopped /\ ~u.paused]
ClearPreviewState(u) ==
  Watch([u EXCEPT !.session = IF @ = "streaming" THEN "connected" ELSE @, !.subscribed = FALSE])
StartStreaming(u, auto) == Watch([u EXCEPT !.session = "streaming", !.auto = auto])
SchedulePreviewAuto(u, whileBusy) ==
  IF u.stopped \/ u.paused \/ ~u.running \/ u.connectionBusy \/ (u.scriptBusy /\ ~whileBusy) \/ u.session # "connected"
  THEN u ELSE [u EXCEPT !.timer = "armed"]
StartPreviewForScript(u) ==
  SchedulePreviewAuto([u EXCEPT !.timer = IF @ = "armed" THEN "stale" ELSE @, !.fresh = FALSE, !.paused = FALSE], TRUE)
\* The end of a session: all of its requests fail.
Closed(u) ==
  [Cancel(ClearPreviewState(u)) EXCEPT !.session = "disconnected", !.running = FALSE, !.paused = FALSE, !.watchdog = FALSE]

\* Thread p, as t, goes on with u: it asks the backend, waits, or ends.
Ask(p, t, u, at, m) ==
  /\ ui' = u /\ th' = [th EXCEPT ![p] = [t EXCEPT !.at = at]] /\ UNCHANGED promise
  /\ wire' = (IF u.session = "disconnected" THEN wire ELSE Append(wire, [to |-> p, m |-> m]))
Await(p, t, u, at) == ui' = u /\ th' = [th EXCEPT ![p] = [t EXCEPT !.at = at]] /\ UNCHANGED <<promise, wire>>
\* endScriptOperation, and the finally of an MCP request.
Done(p, t, u) ==
  /\ ui' = (IF t.busy THEN [u EXCEPT !.scriptBusy = FALSE] ELSE u) /\ th' = [th EXCEPT ![p] = Idle]
  /\ promise' = (promise /\ p # "auto") /\ UNCHANGED wire
\* disconnectBoardRuntime, after the script was stopped.
Close(p, u) ==
  /\ ui' = [Closed(u) EXCEPT !.connectionBusy = FALSE, !.scriptBusy = FALSE]
  /\ th' = [th EXCEPT ![p] = Idle] /\ wire' = <<>> /\ UNCHANGED promise
End(p, t, u) ==
  CASE t.op = "disconnect" -> Close(p, u)
    [] t.op = "recover" /\ ~u.stopped /\ ~u.paused /\ u.running -> Done(p, t, SchedulePreviewAuto(u, FALSE))
    [] OTHER -> Done(p, t, u)

\* stopPreviewRuntime: what follows is at once, or when the backend has answered.
StopPreviewRuntime(p, t, u) ==
  IF u.session = "streaming" THEN Ask(p, t, u, "clear2", "stopPreview") ELSE End(p, t, Watch(u))
StartPreview(p, t, u) == Ask(p, t, [u EXCEPT !.subscribed = TRUE], "start", "startPreview")
\* What follows waitForPreviewAutoStart.
Proceed(p, t, u) ==
  LET enabled == [u EXCEPT !.stopped = FALSE, !.paused = FALSE] IN
  CASE t.op \in {"run", "bridgeRun"} ->
         IF u.session = "streaming" THEN Ask(p, t, [u EXCEPT !.paused = TRUE], "clear", "stopPreview")
         ELSE Ask(p, t, u, "run", "runScript")
    [] t.op \in {"stop", "disconnect"} ->
         IF u.session = "streaming" THEN Ask(p, t, u, "clear", "stopPreview")
         ELSE Ask(p, t, Watch(u), "stop", "stopScript")
    [] t.op = "halt" -> StopPreviewRuntime(p, t, u)
    [] t.op = "start" ->
         CASE u.session # "connected" -> Done(p, t, enabled)
           [] u.session = "connected" /\ u.running -> StartPreview(p, t, enabled)
           [] OTHER -> Ask(p, t, enabled, "probe", "scriptRunning")
\* stopPreviewAfterScript, after its wait.
AfterScript(p, t, u) == StopPreviewRuntime(p, t, [u EXCEPT !.paused = FALSE])
WaitForPreviewAutoStart(p, t, u, at) ==
  CASE promise -> Await(p, t, Cancel(u), at)
    [] ~promise /\ at = "wait" -> Proceed(p, t, Cancel(u))
    [] OTHER -> AfterScript(p, t, Cancel(u))

-----------------------------------------------------------------------------
Urgent ==
  \E p \in Threads : \/ th[p].at \in {"wait", "wait2"} /\ th["auto"] = Idle
                     \/ th[p].at \in Answers /\ ui.session = "disconnected"
Resume(p) ==
  /\ th["auto"] = Idle /\ UNCHANGED <<pipe, board, commands, faults>>
  /\ \/ th[p].at = "wait" /\ Proceed(p, th[p], ui)
     \/ th[p].at = "wait2" /\ AfterScript(p, th[p], ui)

\* The commands of the user and the requests of an MCP client.
Begin(p) ==
  /\ ~Urgent /\ th[p] = Idle /\ commands < MaxCommands /\ commands' = commands + 1
  /\ UNCHANGED <<pipe, board, faults>>
New(op, busy) == [op |-> op, at |-> "idle", busy |-> busy]
BeginScriptOperation == ~ui.scriptBusy /\ ~ui.connectionBusy
Busy(u) == [u EXCEPT !.scriptBusy = TRUE]
\* The bridge serves one request at a time (requestQueue).
Bridged(t) == t.op \in {"bridgeRun", "bridgeStop", "ask"} \/ (t.op \in {"start", "halt"} /\ t.busy)
BridgeIsFree == \A q \in Procs : ~Bridged(th[q])
RunCurrentScript(p) ==
  /\ Begin(p) /\ BeginScriptOperation /\ ui.session # "disconnected" /\ ~ui.running
  /\ Ask(p, New("run", TRUE), Busy(ui), "check", "scriptRunning")
StopRunningScript(p) ==
  /\ Begin(p) /\ BeginScriptOperation /\ ui.session # "disconnected" /\ ui.running
  /\ WaitForPreviewAutoStart(p, New("stop", TRUE), [Busy(ui) EXCEPT !.paused = TRUE], "wait")
StartPreviewManual(p) ==
  /\ Begin(p)
  /\ \/ WaitForPreviewAutoStart(p, New("start", FALSE), ui, "wait")
     \/ /\ ui.session # "disconnected" /\ BridgeIsFree
        /\ WaitForPreviewAutoStart(p, New("start", TRUE), Busy(ui), "wait")
StopPreviewManual(p) ==
  /\ Begin(p)
  /\ \E busy \in BOOLEAN :
       /\ busy => ui.session # "disconnected" /\ BridgeIsFree
       /\ WaitForPreviewAutoStart(p, New("halt", busy),
            [ui EXCEPT !.stopped = TRUE, !.paused = FALSE, !.scriptBusy = @ \/ busy], "wait")
SendBridgeRequest(p) ==
  /\ Begin(p) /\ ui.session # "disconnected" /\ BridgeIsFree
  /\ \/ ~ui.running /\ WaitForPreviewAutoStart(p, New("bridgeRun", TRUE), Busy(ui), "wait")
     \/ Ask(p, New("bridgeStop", TRUE), Busy(ui), "stop", "stopScript")
     \/ Ask(p, New("ask", TRUE), Busy(ui), "ask", "scriptRunning")
DisconnectBoardRuntime(p) ==
  /\ Begin(p) /\ BeginScriptOperation /\ ui.session # "disconnected"
  /\ LET u == [Cancel(ui) EXCEPT !.connectionBusy = TRUE, !.paused = FALSE] IN
     IF ui.running THEN WaitForPreviewAutoStart(p, New("disconnect", FALSE), [Busy(u) EXCEPT !.paused = TRUE], "wait")
     ELSE Close(p, u)
ConnectBoardRuntime(p) ==
  /\ ~Urgent /\ th[p] = Idle /\ BeginScriptOperation /\ ui.session = "disconnected"
  /\ ui' = [Cancel(ui) EXCEPT !.session = "connected"] /\ board' = FreshBoard /\ pipe' = <<>>
  /\ commands < MaxCommands /\ commands' = commands + 1 /\ UNCHANGED <<th, promise, wire, faults>>

-----------------------------------------------------------------------------
(* Mutant: a start that was cancelled meanwhile is kept. *)
SupersededByScript(u) == u.paused \/ ~u.running \/ u.connectionBusy \/ u.scriptBusy
Superseded(u) == ~u.fresh \/ u.paused \/ ~u.running \/ u.connectionBusy \/ u.scriptBusy
(* Mutant: a superseded start is dropped before the session streams, so that nothing stops it. *)
DroppedAuto(p, t, u, m) ==
  LET s == IF m = "ok" THEN StartStreaming(u, TRUE) ELSE [u EXCEPT !.subscribed = FALSE] IN
  CASE m = "ok" /\ u.session # "connected" -> Done(p, t, u)
    [] m = "ok" /\ u.session = "connected" -> Done(p, t, IF Superseded(u) THEN [u EXCEPT !.subscribed = FALSE] ELSE s)
    [] OTHER -> Done(p, t, IF Superseded(s) THEN s ELSE SchedulePreviewAuto(s, FALSE))
\* The answer to an automatic start.
StartedAuto(p, t, u, m) ==
  LET s == IF m = "ok" THEN StartStreaming(u, TRUE) ELSE [u EXCEPT !.subscribed = FALSE] IN
  CASE m = "ok" /\ u.session # "connected" -> Done(p, t, u)                 \* startStreaming throws
    [] m = "ok" /\ u.session = "connected" ->
         IF Superseded(s) THEN StopPreviewRuntime(p, t, s) ELSE Done(p, t, s)
    [] OTHER -> Done(p, t, IF Superseded(s) THEN s ELSE SchedulePreviewAuto(s, FALSE))

\* The answer m ("failed" also for a request that timed out) to what p awaits.
(* Mutant: what is learnt while a script operation runs is dropped. *)
SetRunningUnlessBusy(u, b) == [u EXCEPT !.running = IF u.scriptBusy THEN @ ELSE b]
SetScriptRunning(u, b) == [u EXCEPT !.running = b]
\* Scripts: what the answer to a start or to a stop changes.
RunAnswered(p, t, u, m) ==
  CASE m = "ok" -> Done(p, t, StartPreviewForScript(SetScriptRunning(u, TRUE)))
    [] m # "ok" /\ t.op = "run" -> Done(p, t, SetScriptRunning(u, FALSE))
    [] OTHER -> Done(p, t, u)
StopAnswered(p, t, u, m) ==
  CASE t.op # "bridgeStop" -> WaitForPreviewAutoStart(p, t, SetScriptRunning(u, FALSE), "wait2")
    [] OTHER -> Done(p, t, IF m = "ok" THEN SetScriptRunning(u, FALSE) ELSE u)
Answered(p, m) ==
  LET t == th[p]  u == ui IN
  CASE t.at = "check" ->
         IF m = "no" THEN WaitForPreviewAutoStart(p, t, u, "wait")
         ELSE Done(p, t, IF m = "yes" THEN SetScriptRunning(u, TRUE) ELSE u)
    [] t.at = "run" -> RunAnswered(p, t, u, m)
    [] t.at = "clear" ->
         LET c == Watch(ClearPreviewState(u)) IN
         IF t.op \in {"run", "bridgeRun"} THEN Ask(p, t, c, "run", "runScript") ELSE Ask(p, t, c, "stop", "stopScript")
    [] t.at = "stop" -> StopAnswered(p, t, u, m)
    [] t.at = "clear2" -> End(p, t, Watch(ClearPreviewState(u)))
    [] t.at = "ask" -> Done(p, t, IF m = "failed" THEN u ELSE SetScriptRunning(u, m = "yes"))
    [] t.at = "probe" -> IF m = "yes" THEN StartPreview(p, t, u) ELSE Done(p, t, u)
    [] t.at = "start" /\ t.op = "start" ->
         CASE m # "ok" -> Done(p, t, [u EXCEPT !.subscribed = FALSE])
           [] m = "ok" /\ u.session = "connected" -> Done(p, t, StartStreaming(u, FALSE))
           [] OTHER -> Done(p, t, u)                                    \* startStreaming throws
    [] t.at = "start" /\ t.op = "auto" -> StartedAuto(p, t, u, m)

-----------------------------------------------------------------------------
\* The preview panel is opened.
OpenPreviewPanel ==
  /\ ~Urgent /\ commands < MaxCommands /\ commands' = commands + 1
  /\ ui' = SchedulePreviewAuto(ui, FALSE) /\ ui' # ui /\ UNCHANGED <<th, promise, wire, pipe, board, faults>>
\* The timer: whatever comes of it, its promise replaces the one before.
StartPreviewAuto ==
  /\ ~Urgent /\ ui.timer # "none" /\ UNCHANGED <<pipe, board, commands, faults>>
  /\ LET u == [ui EXCEPT !.timer = "none"] IN
     IF \/ ui.timer = "stale" \/ u.stopped \/ u.paused \/ ~u.running \/ u.connectionBusy \/ u.scriptBusy
        \/ u.session # "connected" \/ th["auto"] # Idle
     THEN ui' = u /\ promise' = FALSE /\ UNCHANGED <<th, wire>>
     ELSE /\ ui' = [u EXCEPT !.fresh = TRUE, !.subscribed = TRUE] /\ promise' = TRUE
          /\ th' = [th EXCEPT !["auto"] = [op |-> "auto", at |-> "start", busy |-> FALSE]]
          /\ wire' = Append(wire, [to |-> "auto", m |-> "startPreview"])
\* No frame came for a while, because there are none or (a fault) they are late.
RecoverStalePreview ==
  /\ ~Urgent /\ ui.watchdog /\ th["recover"] = Idle /\ UNCHANGED <<pipe, board, commands>>
  /\ ui.session = "streaming" /\ ui.running /\ ~ui.stopped /\ ~ui.paused
  /\ IF ui.subscribed /\ board.streaming THEN Fault("late") ELSE UNCHANGED faults
  /\ Ask("recover", New("recover", FALSE), Cancel(ui), "clear2", "stopPreview")

Deliver(i) ==
  /\ ~Urgent /\ ui.session # "disconnected" /\ UNCHANGED <<board, commands, faults>>
  /\ i > 1 => Coalesced /\ pipe[i].to = "event" /\ \A j \in 1..(i - 1) : pipe[j].to # "event"
  /\ LET m == pipe[i].m IN
     CASE pipe[i].to \in Threads -> pipe' = RemoveAt(pipe, i) /\ Answered(pipe[i].to, m)
       [] pipe[i].to = "none" -> pipe' = RemoveAt(pipe, i) /\ UNCHANGED <<ui, th, promise, wire>>
       [] m = "started" ->
            /\ pipe' = RemoveAt(pipe, i) /\ ui' = SetScriptRunning(ui, TRUE) /\ UNCHANGED <<th, promise, wire>>
       [] m = "finished" ->
            /\ pipe' = RemoveAt(pipe, i)
            /\ \E p \in Afters : th[p] = Idle
            /\ LET p == CHOOSE f \in Afters : th[f] = Idle IN
                 WaitForPreviewAutoStart(p, New("after", FALSE), SetScriptRunning(ui, FALSE), "wait2")
       [] m = "lost" -> pipe' = <<>> /\ wire' = <<>> /\ ui' = Closed(ui) /\ UNCHANGED <<th, promise>>
Reject(p) ==
  /\ th[p].at \in Answers /\ ui.session = "disconnected"
  /\ Answered(p, "failed") /\ UNCHANGED <<pipe, board, commands, faults>>
\* Ten seconds: what was sent before has been read, and earlier requests timed out too.
Timeout(i) ==
  /\ ~Urgent /\ pipe = <<>> /\ wire[i].to # "none" /\ \A j \in 1..(i - 1) : wire[j].to = "none"
  /\ Fault(CASE wire[i].m = "stopScript" -> "slow stop"
             [] wire[i].m = "startPreview" -> "slow start"
             [] OTHER -> "timeout")
  /\ wire' = [wire EXCEPT ![i].to = "none"] /\ pipe' = <<[to |-> wire[i].to, m |-> "failed"]>>
  /\ UNCHANGED <<ui, th, promise, board, commands>>

-----------------------------------------------------------------------------
\* The backend.
Backend ==
  /\ ~Urgent /\ wire # <<>> /\ wire' = Tail(wire) /\ UNCHANGED <<ui, th, promise, commands>>
  /\ LET r == Head(wire)
         Reply(m) == pipe' = Append(pipe, [to |-> r.to, m |-> m])
         Set(running, told, streaming) ==
           board' = [board EXCEPT !.running = running, !.told = told, !.streaming = streaming] IN
     \/ /\ r.m = "scriptRunning" /\ UNCHANGED <<board, faults>> /\ Reply(IF board.running THEN "yes" ELSE "no")
     \/ /\ r.m = "runScript" /\ board.there /\ UNCHANGED faults /\ Set(TRUE, TRUE, FALSE)
        /\ pipe' = pipe \o <<[to |-> "event", m |-> "started"], [to |-> r.to, m |-> "ok"]>>
     \/ /\ r.m = "runScript" /\ Reply("error")
        /\ IF board.there THEN Fault(IF board.running \/ board.told THEN "overrun" ELSE "run") ELSE UNCHANGED faults
        /\ (Set(FALSE, FALSE, FALSE) \/ Set(board.running, FALSE, FALSE))
     \/ /\ r.m = "stopScript" /\ Reply("ok")
        /\ \E goesOn \in {FALSE, board.running} :
             Set(goesOn, FALSE, FALSE) /\ IF goesOn THEN Fault("stop") ELSE UNCHANGED faults
     \/ /\ r.m = "startPreview" /\ UNCHANGED faults
        /\ Set(board.running, board.told, board.running) /\ Reply(IF board.running THEN "ok" ELSE "error")
     \/ /\ r.m = "stopPreview" /\ UNCHANGED faults
        /\ Set(board.running, board.told, FALSE) /\ Reply("ok")
ScriptEnds ==
  /\ ~Urgent /\ board.running /\ board' = [board EXCEPT !.running = FALSE]
  /\ IF board.told THEN UNCHANGED faults ELSE Fault("unseen")
  /\ UNCHANGED <<ui, th, promise, wire, pipe, commands>>
Poller ==
  /\ ~Urgent /\ board.running # board.told /\ board' = [board EXCEPT !.told = board.running]
  /\ pipe' = Append(pipe, [to |-> "event", m |-> IF board.running THEN "started" ELSE "finished"])
  /\ UNCHANGED <<ui, th, promise, wire, commands, faults>>
BoardLost ==
  /\ ~Urgent /\ board.there /\ ui.session # "disconnected" /\ Fault("lost")
  /\ board' = [FreshBoard EXCEPT !.there = FALSE] /\ pipe' = Append(pipe, [to |-> "event", m |-> "lost"])
  /\ UNCHANGED <<ui, th, promise, wire, commands>>

Next ==
  \/ \E p \in Procs :
       \/ RunCurrentScript(p) \/ StopRunningScript(p) \/ StartPreviewManual(p) \/ StopPreviewManual(p)
       \/ SendBridgeRequest(p) \/ DisconnectBoardRuntime(p) \/ ConnectBoardRuntime(p)
  \/ OpenPreviewPanel \/ StartPreviewAuto \/ RecoverStalePreview
  \/ \E p \in Threads : Resume(p) \/ Reject(p)
  \/ \E i \in 1..Len(pipe) : Deliver(i)
  \/ \E i \in 1..Len(wire) : Timeout(i)
  \/ Backend \/ ScriptEnds \/ Poller \/ BoardLost
Spec == Init /\ [][Next]_vars

-----------------------------------------------------------------------------
AtRest == Quiet /\ wire = <<>> /\ pipe = <<>> /\ board.running = board.told /\ ui.session # "disconnected"

\* When nothing is under way the window knows whether a script runs.
RunningIsCurrent == AtRest => ui.running = board.running

\* A preview that started by itself is one the user has not stopped, and has its watchdog,
\* whatever overtook its start.
AutomaticIsWanted == Quiet /\ ui.session = "streaming" /\ ui.auto => ~ui.stopped /\ ui.watchdog

\* The board does not stream for a window that shows no preview.
StreamIsShown == AtRest /\ board.streaming => ui.session = "streaming"

\* Not so in the code (README, section 8).
\* One operation on scripts at a time.
OneScriptOperation == \A p, q \in Procs : th[p].op \in {"run", "stop"} /\ th[q].op \in {"run", "stop"} => p = q
\* A window that shows a preview has one, or its watchdog will restart it.
PreviewIsReal == AtRest /\ ui.session = "streaming" /\ ui.running /\ ~ui.stopped => board.streaming \/ ui.watchdog
\* The preview ends with its script.
PreviewNeedsScript == AtRest /\ ui.session = "streaming" => ui.running
\* Its frames arrive, or the watchdog will restart it.
PreviewIsSeen ==
  AtRest /\ ui.session = "streaming" /\ ui.running /\ ~ui.stopped => ui.subscribed \/ ui.watchdog
\* While a script runs and the user did not stop the preview, it is there or on its way.
PreviewIsPursued ==
  AtRest /\ ui.running /\ ~ui.stopped => ui.session = "streaming" \/ ui.timer # "none"
=============================================================================
