------------------------- MODULE PreviewFlowsProofs -------------------------
(***************************************************************************)
(* Theorems about PreviewFlows.                                            *)
(***************************************************************************)
EXTENDS PreviewFlows, SequenceTheorems, TLAPS

(* The operations of a thread, and what each may await.                    *)
Ops == {"none", "run", "bridgeRun", "stop", "disconnect", "bridgeStop", "start", "halt", "ask",
        "after", "recover", "auto"}
Places == Answers \cup {"idle", "wait", "wait2"}
Fits(op, at) ==
  \/ op = "none" /\ at = "idle"
  \/ op = "run" /\ at \in {"check", "wait", "clear", "run"}
  \/ op = "bridgeRun" /\ at \in {"wait", "clear", "run"}
  \/ op \in {"stop", "disconnect"} /\ at \in {"wait", "clear", "stop", "wait2", "clear2"}
  \/ op = "bridgeStop" /\ at = "stop"
  \/ op = "start" /\ at \in {"wait", "start", "probe"}
  \/ op = "halt" /\ at \in {"wait", "clear2"}
  \/ op = "ask" /\ at = "ask"
  \/ op = "after" /\ at \in {"wait2", "clear2"}
  \/ op = "recover" /\ at = "clear2"
  \/ op = "auto" /\ at \in {"start", "clear2"}
ThreadStates == [op : Ops, at : Places, busy : BOOLEAN]
Placed == {t \in ThreadStates : Fits(t.op, t.at)}

(* The request whose answer is awaited at a place.                         *)
Methods == {"scriptRunning", "runScript", "stopScript", "startPreview", "stopPreview"}
Method(at) ==
  CASE at \in {"check", "probe", "ask"} -> "scriptRunning"
    [] at = "run" -> "runScript"
    [] at = "stop" -> "stopScript"
    [] at = "start" -> "startPreview"
    [] at \in {"clear", "clear2"} -> "stopPreview"
Replies == {"yes", "no", "ok", "error", "failed"}

(* A preview that started by itself goes on although the user stopped it,  *)
(* or without its watchdog.                                                *)
Stray(u) == u.session = "streaming" /\ u.auto /\ (u.stopped \/ ~u.watchdog)
(* A start that is still wanted was not stopped.                           *)
Heed(u) == u.fresh => ~u.stopped
(* A thread that is about to end it.                                       *)
Clears(t) == t.at \in {"clear", "clear2"} \/ (t.at = "wait" /\ t.op = "halt")

(* What the functions on the window's state leave alone.                   *)
Kin(u, v) ==
  /\ v \in UiStates /\ v.running = u.running
  /\ v.session = "disconnected" <=> u.session = "disconnected"
  /\ u.session = "streaming" => v.session = "streaming"
  /\ Stray(v) => Stray(u)
  /\ Heed(u) => Heed(v)

LEMMA KinKin ==
  ASSUME NEW u, NEW v, NEW w, Kin(u, v), Kin(v, w)
  PROVE  Kin(u, w)
BY DEF Kin

LEMMA CancelKin ==
  ASSUME NEW u \in UiStates
  PROVE  Kin(u, Cancel(u)) /\ ~Cancel(u).fresh /\ Cancel(u).session = u.session /\ Heed(Cancel(u))
BY DEF UiStates, Kin, Cancel, Stray, Heed

LEMMA WatchKin ==
  ASSUME NEW u \in UiStates, u.session # "streaming"
  PROVE  Kin(u, Watch(u)) /\ Watch(u).session = u.session
BY DEF UiStates, Kin, Watch, Stray, Heed

LEMMA ClearKin ==
  ASSUME NEW u \in UiStates
  PROVE  LET v == ClearPreviewState(u) IN
         /\ v \in UiStates /\ v.running = u.running /\ v.session # "streaming"
         /\ v.session = "disconnected" <=> u.session = "disconnected"
         /\ Heed(u) => Heed(v)
<1> DEFINE v == [u EXCEPT !.session = IF @ = "streaming" THEN "connected" ELSE @, !.subscribed = FALSE]
<1>1. /\ v \in UiStates /\ v.running = u.running /\ v.session # "streaming"
      /\ v.session = "disconnected" <=> u.session = "disconnected"
      /\ Heed(u) => Heed(v)
  BY DEF UiStates, Heed
<1> HIDE DEF v
<1>2. Kin(v, Watch(v)) /\ Watch(v).session = v.session
  BY <1>1, WatchKin
<1>3. ClearPreviewState(u) = Watch(v)
  BY DEF ClearPreviewState, v
<1> QED
  BY <1>1, <1>2, <1>3 DEF Kin

LEMMA StreamingKin ==
  ASSUME NEW u \in UiStates, u.session # "disconnected", NEW auto \in BOOLEAN
  PROVE  LET v == StartStreaming(u, auto) IN
         /\ v \in UiStates /\ v.session = "streaming" /\ v.running = u.running
         /\ v.stopped = u.stopped /\ v.fresh = u.fresh
         /\ ~u.stopped /\ ~Superseded(v) => ~Stray(v)
         /\ ~auto => Kin(u, v)
<1> DEFINE v == [u EXCEPT !.session = "streaming", !.auto = auto]
<1>1. /\ v \in UiStates /\ v.session = "streaming" /\ v.running = u.running /\ v.stopped = u.stopped
      /\ v.fresh = u.fresh /\ v.auto = auto
  BY DEF UiStates
<1> HIDE DEF v
<1>2. StartStreaming(u, auto) = Watch(v)
  BY DEF StartStreaming, v
<1>3. /\ Watch(v) \in UiStates /\ Watch(v).session = "streaming" /\ Watch(v).running = u.running
      /\ Watch(v).stopped = u.stopped /\ Watch(v).fresh = u.fresh /\ Watch(v).auto = auto
  BY <1>1 DEF Watch, UiStates
<1>4. ~u.stopped /\ ~Superseded(Watch(v)) => ~Stray(Watch(v))
  BY <1>1 DEF Watch, UiStates, Superseded, Stray
<1> QED
  BY <1>2, <1>3, <1>4 DEF Kin, Stray, Heed

LEMMA ScheduleKin ==
  ASSUME NEW u \in UiStates, NEW b \in BOOLEAN
  PROVE  Kin(u, SchedulePreviewAuto(u, b))
BY DEF UiStates, Kin, SchedulePreviewAuto, Stray, Heed

LEMMA ForScriptKin ==
  ASSUME NEW u \in UiStates
  PROVE  Kin(u, StartPreviewForScript(u))
<1> DEFINE v == [u EXCEPT !.timer = IF @ = "armed" THEN "stale" ELSE @, !.fresh = FALSE, !.paused = FALSE]
<1>1. Kin(u, v)
  BY DEF UiStates, Kin, Stray, Heed
<1>2. v \in UiStates
  BY <1>1 DEF Kin
<1> HIDE DEF v
<1>3. Kin(v, SchedulePreviewAuto(v, TRUE))
  BY <1>2, ScheduleKin
<1> QED
  BY <1>1, <1>3, KinKin DEF StartPreviewForScript, v

LEMMA ClosedState ==
  ASSUME NEW u \in UiStates
  PROVE  LET v == Closed(u) IN
         v \in UiStates /\ v.session = "disconnected" /\ ~v.running /\ ~v.fresh
<1>1. ClearPreviewState(u) \in UiStates
  BY ClearKin
<1>2. Cancel(ClearPreviewState(u)) \in UiStates /\ ~Cancel(ClearPreviewState(u)).fresh
  BY <1>1, CancelKin DEF Kin
<1> QED
  BY <1>2 DEF Closed, UiStates

(* The marks that the operations set and clear.                            *)
LEMMA MarksKin ==
  ASSUME NEW u \in UiStates, NEW b \in BOOLEAN, NEW c \in BOOLEAN
  PROVE  /\ Kin(u, [u EXCEPT !.scriptBusy = b])
         /\ Kin(u, [u EXCEPT !.paused = b])
         /\ Kin(u, [u EXCEPT !.subscribed = b])
         /\ Kin(u, [u EXCEPT !.timer = "none"])
         /\ Kin(u, [u EXCEPT !.connectionBusy = b, !.paused = c])
         /\ Kin(u, [u EXCEPT !.stopped = FALSE, !.paused = FALSE])
<1>1. Kin(u, [u EXCEPT !.scriptBusy = b])
  BY DEF UiStates, Kin, Stray, Heed
<1>2. Kin(u, [u EXCEPT !.paused = b])
  BY DEF UiStates, Kin, Stray, Heed
<1>3. Kin(u, [u EXCEPT !.subscribed = b])
  BY DEF UiStates, Kin, Stray, Heed
<1>4. Kin(u, [u EXCEPT !.timer = "none"])
  BY DEF UiStates, Kin, Stray, Heed
<1>5. Kin(u, [u EXCEPT !.connectionBusy = b, !.paused = c])
  BY DEF UiStates, Kin, Stray, Heed
<1>6. Kin(u, [u EXCEPT !.stopped = FALSE, !.paused = FALSE])
  BY DEF UiStates, Kin, Stray, Heed
<1> QED
  BY <1>1, <1>2, <1>3, <1>4, <1>5, <1>6

LEMMA RunningState ==
  ASSUME NEW u \in UiStates, NEW b \in BOOLEAN
  PROVE  LET v == SetScriptRunning(u, b) IN
         /\ v \in UiStates /\ v.running = b /\ v.session = u.session /\ v.fresh = u.fresh
         /\ v.stopped = u.stopped /\ v.auto = u.auto /\ v.watchdog = u.watchdog
BY DEF SetScriptRunning, UiStates

-----------------------------------------------------------------------------
(* Thread p moves on with u: it alone moves; it asks, or it does not.      *)
Stepped(p, u) ==
  /\ ui' \in UiStates /\ (Stray(ui') => Stray(u)) /\ Heed(ui') /\ (ui'.running => u.running)
  /\ th' \in [Threads -> Placed] /\ \A q \in Threads \ {p} : th'[q] = th[q]
  /\ promise' \in BOOLEAN
  /\ \/ ui'.session = "disconnected" /\ wire' = <<>> /\ (u.session # "disconnected" => ~ui'.running)
     \/ /\ ui'.session # "disconnected" /\ u.session # "disconnected" /\ ui'.running = u.running
        /\ u.session = "streaming" => ui'.session = "streaming"
        /\ \/ wire' = wire
           \/ th'[p].at \in Answers /\ wire' = Append(wire, [to |-> p, m |-> Method(th'[p].at)])

(* What may be so when a thread moves on.                                  *)
Ready(p, t, u) ==
  /\ p \in Threads /\ t \in ThreadStates /\ u \in UiStates /\ Heed(u)
  /\ th \in [Threads -> Placed] /\ promise \in BOOLEAN
  /\ u.session = "disconnected" => wire = <<>>

LEMMA IdlePlaced == Idle \in Placed
BY DEF Idle, Placed, ThreadStates, Ops, Places, Answers, Fits

LEMMA MovedPlaced ==
  ASSUME NEW p, NEW t, NEW u, Ready(p, t, u), NEW at \in Places, Fits(t.op, at)
  PROVE  LET f == [th EXCEPT ![p] = [t EXCEPT !.at = at]] IN
         f \in [Threads -> Placed] /\ f[p].at = at /\ f[p].op = t.op /\ \A q \in Threads \ {p} : f[q] = th[q]
<1>1. [t EXCEPT !.at = at] \in ThreadStates /\ [t EXCEPT !.at = at].at = at /\ [t EXCEPT !.at = at].op = t.op
  BY DEF Ready, ThreadStates
<1>2. [t EXCEPT !.at = at] \in Placed
  BY <1>1 DEF Placed
<1> QED
  BY <1>1, <1>2 DEF Ready

LEMMA EndedPlaced ==
  ASSUME NEW p, NEW t, NEW u, Ready(p, t, u)
  PROVE  LET f == [th EXCEPT ![p] = Idle] IN
         f \in [Threads -> Placed] /\ \A q \in Threads \ {p} : f[q] = th[q]
BY IdlePlaced DEF Ready

LEMMA AskSteps ==
  ASSUME NEW p, NEW t, NEW u, Ready(p, t, u), NEW at \in Answers, Fits(t.op, at),
         NEW m, m = Method(at), Ask(p, t, u, at, m)
  PROVE  Stepped(p, u) /\ th'[p].at = at
<1>1. at \in Places
  BY DEF Places
<1>2. th' \in [Threads -> Placed] /\ th'[p].at = at /\ \A q \in Threads \ {p} : th'[q] = th[q]
  BY <1>1, MovedPlaced DEF Ask
<1>3. ui' = u /\ promise' = promise
  BY DEF Ask
<1>4. u.session # "disconnected" => wire' = Append(wire, [to |-> p, m |-> Method(th'[p].at)])
  BY <1>2 DEF Ask
<1>5. u.session = "disconnected" => wire' = <<>>
  BY DEF Ask, Ready
<1> QED
  BY <1>2, <1>3, <1>4, <1>5 DEF Stepped, Ready

LEMMA AwaitSteps ==
  ASSUME NEW p, NEW t, NEW u, Ready(p, t, u), NEW at \in {"wait", "wait2"}, Fits(t.op, at), Await(p, t, u, at)
  PROVE  Stepped(p, u) /\ th'[p].at = at /\ th'[p].op = t.op
<1>1. at \in Places
  BY DEF Places
<1>2. th' \in [Threads -> Placed] /\ th'[p].at = at /\ th'[p].op = t.op /\ \A q \in Threads \ {p} : th'[q] = th[q]
  BY <1>1, MovedPlaced DEF Await
<1>3. ui' = u /\ promise' = promise /\ wire' = wire
  BY DEF Await
<1> QED
  BY <1>2, <1>3 DEF Stepped, Ready

LEMMA DoneSteps ==
  ASSUME NEW p, NEW t, NEW u, Ready(p, t, u), Done(p, t, u)
  PROVE  Stepped(p, u)
<1>1. th' \in [Threads -> Placed] /\ \A q \in Threads \ {p} : th'[q] = th[q]
  BY EndedPlaced DEF Done
<1>2. promise' \in BOOLEAN
  BY DEF Done, Ready
<1>3. Kin(u, ui')
  <2>1. Kin(u, u)
    BY DEF Ready, Kin
  <2>2. Kin(u, [u EXCEPT !.scriptBusy = FALSE])
    BY MarksKin DEF Ready
  <2> QED
    BY <2>1, <2>2 DEF Done
<1>4. wire' = wire
  BY DEF Done
<1> QED
  BY <1>1, <1>2, <1>3, <1>4 DEF Stepped, Ready, Kin

LEMMA CloseSteps ==
  ASSUME NEW p, NEW t, NEW u, Ready(p, t, u), Close(p, u)
  PROVE  Stepped(p, u)
<1>1. th' \in [Threads -> Placed] /\ \A q \in Threads \ {p} : th'[q] = th[q]
  BY EndedPlaced DEF Close
<1>2. promise' \in BOOLEAN /\ wire' = <<>>
  BY DEF Close, Ready
<1>3. Closed(u) \in UiStates /\ Closed(u).session = "disconnected" /\ ~Closed(u).running /\ ~Closed(u).fresh
  BY ClosedState DEF Ready
<1>4. ui' \in UiStates /\ ui'.session = "disconnected" /\ ~ui'.running /\ ~ui'.fresh
  BY <1>3 DEF Close, UiStates
<1> QED
  BY <1>1, <1>2, <1>4 DEF Stepped, Stray, Heed

(* A step with what is kin to u is one with u.                             *)
LEMMA KinSteps ==
  ASSUME NEW p, NEW u, NEW v, Kin(u, v), Stepped(p, v)
  PROVE  Stepped(p, u)
BY DEF Kin, Stepped

LEMMA KinReady ==
  ASSUME NEW p, NEW t, NEW u, NEW v, Ready(p, t, u), Kin(u, v)
  PROVE  Ready(p, t, v)
BY DEF Kin, Ready

LEMMA EndSteps ==
  ASSUME NEW p, NEW t, NEW u, Ready(p, t, u), End(p, t, u)
  PROVE  Stepped(p, u)
<1>1. CASE t.op = "disconnect"
  BY <1>1, CloseSteps DEF End
<1>2. CASE t.op = "recover" /\ ~u.stopped /\ ~u.paused /\ u.running
  <2>1. Kin(u, SchedulePreviewAuto(u, FALSE))
    BY ScheduleKin DEF Ready
  <2>2. Done(p, t, SchedulePreviewAuto(u, FALSE))
    BY <1>2 DEF End
  <2> QED
    BY <2>1, <2>2, KinReady, KinSteps, DoneSteps
<1>3. CASE t.op # "disconnect" /\ ~(t.op = "recover" /\ ~u.stopped /\ ~u.paused /\ u.running)
  <2>1. Done(p, t, u)
    BY <1>3 DEF End
  <2> QED
    BY <2>1, DoneSteps
<1> QED
  BY <1>1, <1>2, <1>3

(* The end of a preview leaves none, or a thread that ends it.             *)
LEMMA StopPreviewSteps ==
  ASSUME NEW p, NEW t, NEW u, Ready(p, t, u), Fits(t.op, "clear2"), StopPreviewRuntime(p, t, u)
  PROVE  Stepped(p, u) /\ (Stray(ui') => Clears(th'[p]))
<1>1. CASE u.session = "streaming"
  <2>1. Ask(p, t, u, "clear2", "stopPreview")
    BY <1>1 DEF StopPreviewRuntime
  <2>2. "clear2" \in Answers /\ "stopPreview" = Method("clear2")
    BY DEF Answers, Method
  <2> QED
    BY <2>1, <2>2, AskSteps DEF Clears
<1>2. CASE u.session # "streaming"
  <2>1. End(p, t, Watch(u)) /\ Kin(u, Watch(u)) /\ Watch(u).session = u.session
    BY <1>2, WatchKin DEF StopPreviewRuntime, Ready
  <2>2. Stepped(p, Watch(u)) /\ Stepped(p, u)
    BY <2>1, KinReady, KinSteps, EndSteps
  <2>3. ~Stray(ui')
    BY <1>2, <2>1, <2>2 DEF Stepped, Stray
  <2> QED
    BY <2>2, <2>3
<1> QED
  BY <1>1, <1>2

LEMMA StartPreviewSteps ==
  ASSUME NEW p, NEW t, NEW u, Ready(p, t, u), Fits(t.op, "start"), StartPreview(p, t, u)
  PROVE  Stepped(p, u)
<1> DEFINE v == [u EXCEPT !.subscribed = TRUE]
<1>1. Kin(u, v)
  BY MarksKin DEF Ready
<1>2. Ask(p, t, v, "start", "startPreview")
  BY DEF StartPreview
<1>3. "start" \in Answers /\ "startPreview" = Method("start")
  BY DEF Answers, Method
<1> HIDE DEF v
<1>4. Stepped(p, v)
  BY <1>1, <1>2, <1>3, KinReady, AskSteps
<1> QED
  BY <1>1, <1>4, KinSteps

(* What follows the wait for an automatic start.                           *)
LEMMA ProceedSteps ==
  ASSUME NEW p, NEW t, NEW u, Ready(p, t, u), Fits(t.op, "wait"), Proceed(p, t, u)
  PROVE  Stepped(p, u) /\ (t.op = "halt" /\ Stray(ui') => Clears(th'[p]))
<1> DEFINE paused == [u EXCEPT !.paused = TRUE]
           enabled == [u EXCEPT !.stopped = FALSE, !.paused = FALSE]
<1>1. Kin(u, paused) /\ Kin(u, enabled) /\ (u.session # "streaming" => Kin(u, Watch(u)))
  BY MarksKin, WatchKin DEF Ready
<1>2. /\ {"clear", "run", "stop", "probe"} \subseteq Answers
      /\ "stopPreview" = Method("clear") /\ "runScript" = Method("run")
      /\ "stopScript" = Method("stop") /\ "scriptRunning" = Method("probe")
  BY DEF Answers, Method
<1>3. CASE t.op \in {"run", "bridgeRun"}
  <2>1. Fits(t.op, "clear") /\ Fits(t.op, "run")
    BY <1>3 DEF Fits
  <2>2. Ask(p, t, paused, "clear", "stopPreview") \/ Ask(p, t, u, "run", "runScript")
    BY <1>3 DEF Proceed
  <2>3. Stepped(p, paused) \/ Stepped(p, u)
    <3> HIDE DEF paused, enabled
    <3>1. Ready(p, t, paused)
      BY <1>1, KinReady
    <3> QED
      BY <1>2, <2>1, <2>2, <3>1, AskSteps
  <2> QED
    BY <1>1, <1>3, <2>3, KinSteps
<1>4. CASE t.op \in {"stop", "disconnect"}
  <2>1. Fits(t.op, "clear") /\ Fits(t.op, "stop")
    BY <1>4 DEF Fits
  <2>2. CASE u.session = "streaming"
    <3>1. Ask(p, t, u, "clear", "stopPreview")
      BY <1>4, <2>2 DEF Proceed
    <3> QED
      BY <1>2, <1>4, <2>1, <3>1, AskSteps
  <2>3. CASE u.session # "streaming"
    <3>1. Ask(p, t, Watch(u), "stop", "stopScript")
      BY <1>4, <2>3 DEF Proceed
    <3>2. Ready(p, t, Watch(u)) /\ Kin(u, Watch(u))
      BY <1>1, <2>3, KinReady
    <3>3. Stepped(p, Watch(u))
      BY <1>2, <2>1, <3>1, <3>2, AskSteps
    <3> QED
      BY <1>4, <3>2, <3>3, KinSteps
  <2> QED
    BY <2>2, <2>3
<1>5. CASE t.op = "halt"
  <2>1. Fits(t.op, "clear2")
    BY <1>5 DEF Fits
  <2>2. StopPreviewRuntime(p, t, u)
    BY <1>5 DEF Proceed
  <2> QED
    BY <2>1, <2>2, StopPreviewSteps
<1>6. CASE t.op = "start"
  <2>1. Fits(t.op, "probe") /\ Fits(t.op, "start")
    BY <1>6 DEF Fits
  <2>2. Done(p, t, enabled) \/ StartPreview(p, t, enabled) \/ Ask(p, t, enabled, "probe", "scriptRunning")
    BY <1>6 DEF Proceed
  <2> HIDE DEF paused, enabled
  <2>3. Ready(p, t, enabled)
    BY <1>1, KinReady
  <2>4. Stepped(p, enabled)
    BY <1>2, <2>1, <2>2, <2>3, DoneSteps, StartPreviewSteps, AskSteps
  <2> QED
    BY <1>1, <1>6, <2>4, KinSteps
<1>7. t.op \in {"run", "bridgeRun", "stop", "disconnect", "start", "halt"}
  BY DEF Fits
<1> QED
  BY <1>3, <1>4, <1>5, <1>6, <1>7

LEMMA AfterSteps ==
  ASSUME NEW p, NEW t, NEW u, Ready(p, t, u), Fits(t.op, "clear2"), AfterScript(p, t, u)
  PROVE  Stepped(p, u)
<1> DEFINE v == [u EXCEPT !.paused = FALSE]
<1>1. Kin(u, v)
  BY MarksKin DEF Ready
<1>2. StopPreviewRuntime(p, t, v)
  BY DEF AfterScript
<1> HIDE DEF v
<1>3. Stepped(p, v)
  BY <1>1, <1>2, KinReady, StopPreviewSteps
<1> QED
  BY <1>1, <1>3, KinSteps

(* Who waits gives up the start: what follows is with Cancel(u).           *)
LEMMA WaitSteps ==
  ASSUME NEW p, NEW t, NEW u, Ready(p, t, Cancel(u)), NEW at \in {"wait", "wait2"}, Fits(t.op, at),
         WaitForPreviewAutoStart(p, t, u, at)
  PROVE  Stepped(p, Cancel(u)) /\ (t.op = "halt" /\ Stray(ui') => Clears(th'[p]))
<1>1. CASE promise
  <2>1. Await(p, t, Cancel(u), at)
    BY <1>1 DEF WaitForPreviewAutoStart
  <2>2. t.op = "halt" => at = "wait"
    BY DEF Fits
  <2> QED
    BY <2>1, <2>2, AwaitSteps DEF Clears
<1>2. CASE ~promise /\ at = "wait"
  <2>1. Proceed(p, t, Cancel(u))
    BY <1>2 DEF WaitForPreviewAutoStart
  <2> QED
    BY <1>2, <2>1, ProceedSteps
<1>3. CASE ~promise /\ at = "wait2"
  <2>1. AfterScript(p, t, Cancel(u)) /\ Fits(t.op, "clear2") /\ t.op # "halt"
    BY <1>3 DEF WaitForPreviewAutoStart, Fits
  <2> QED
    BY <2>1, AfterSteps
<1> QED
  BY <1>1, <1>2, <1>3

-----------------------------------------------------------------------------
(* What an answer m tells thread t about the script.                       *)
TellsRuns(t, m) == (t.at \in {"check", "ask"} /\ m = "yes") \/ (t.at = "run" /\ m = "ok")
TellsEnds(t, m) ==
  \/ t.at = "ask" /\ m \notin {"failed", "yes"}
  \/ t.at = "run" /\ t.op = "run" /\ m # "ok"
  \/ t.at = "stop" /\ (t.op # "bridgeStop" \/ m = "ok")

(* Thread p moves on, and the window believes b of the script.             *)
Told(p, b) ==
  \E v \in UiStates :
    v.running = b /\ (v.session = "disconnected" <=> ui.session = "disconnected") /\ Stepped(p, v)
(* No automatic preview goes on that is not wanted or watched.             *)
Hushed(p) == Stray(ui') => Clears(th'[p]) \/ (Stray(ui) /\ ~Clears(th[p]))
(* A preview that the window shows stays, unless the session ends.         *)
Keeps == ui'.session = "disconnected" \/ (ui.session = "streaming" => ui'.session = "streaming")
AnswerTold(p, m) ==
  /\ Hushed(p)
  /\ th[p].at \notin {"clear", "clear2"} => Keeps
  /\ th[p].at = "start" /\ m = "ok" => ui'.session \in {"streaming", "disconnected"}
  /\ TellsRuns(th[p], m) => Told(p, TRUE)
  /\ TellsEnds(th[p], m) => Told(p, FALSE)
  /\ ~TellsRuns(th[p], m) /\ ~TellsEnds(th[p], m) => Told(p, ui.running)
Asking(p) == Ready(p, th[p], ui) /\ th[p].at \in Answers

LEMMA KinTold ==
  ASSUME NEW p, NEW v, Kin(ui, v), Stepped(p, v)
  PROVE  Told(p, ui.running) /\ (Stray(ui') => Stray(ui)) /\ Keeps
BY DEF Kin, Told, Stepped, Keeps

LEMMA RunningTold ==
  ASSUME NEW p, ui \in UiStates, NEW b \in BOOLEAN, NEW v, Kin(SetScriptRunning(ui, b), v), Stepped(p, v)
  PROVE  Told(p, b) /\ (Stray(ui') => Stray(ui)) /\ Keeps
<1>1. LET w == SetScriptRunning(ui, b) IN
      w \in UiStates /\ w.running = b /\ w.session = ui.session /\ (Stray(w) => Stray(ui))
  BY RunningState DEF Stray
<1> QED
  BY <1>1 DEF Kin, Told, Stepped, Keeps

LEMMA RunningReady ==
  ASSUME NEW p, Asking(p), NEW b \in BOOLEAN
  PROVE  /\ Ready(p, th[p], SetScriptRunning(ui, b))
         /\ Kin(SetScriptRunning(ui, b), SetScriptRunning(ui, b))
         /\ SetScriptRunning(ui, b) \in UiStates
<1>1. ui \in UiStates
  BY DEF Asking, Ready
<1>2. LET w == SetScriptRunning(ui, b) IN
      w \in UiStates /\ w.session = ui.session /\ w.fresh = ui.fresh /\ w.stopped = ui.stopped
  BY <1>1, RunningState
<1> QED
  BY <1>2 DEF Asking, Ready, Kin, Heed

LEMMA AskingPlaced ==
  ASSUME NEW p, Asking(p)
  PROVE  ui \in UiStates /\ Kin(ui, ui) /\ Fits(th[p].op, th[p].at) /\ (Clears(th[p]) <=> th[p].at \in {"clear", "clear2"})
<1>1. ui \in UiStates /\ th[p] \in Placed /\ th[p].at \in Answers
  BY DEF Asking, Ready
<1> QED
  BY <1>1 DEF Placed, Kin, Clears, Answers

LEMMA CheckAnswered ==
  ASSUME NEW p, Asking(p), th[p].at = "check", NEW m \in Replies, Answered(p, m)
  PROVE  AnswerTold(p, m)
<1>1. ui \in UiStates /\ Kin(ui, ui) /\ th[p].op = "run" /\ ~Clears(th[p])
  BY AskingPlaced DEF Fits
<1>2. ~TellsEnds(th[p], m) /\ (TellsRuns(th[p], m) <=> m = "yes")
  BY DEF TellsRuns, TellsEnds
<1>3. CASE m = "no"
  <2>1. WaitForPreviewAutoStart(p, th[p], ui, "wait")
    BY <1>3 DEF Answered
  <2>2. Kin(ui, Cancel(ui)) /\ Fits("run", "wait")
    BY <1>1, CancelKin DEF Fits
  <2>3. Ready(p, th[p], Cancel(ui))
    BY <2>2, KinReady DEF Asking
  <2>4. Stepped(p, Cancel(ui))
    BY <1>1, <2>1, <2>2, <2>3, WaitSteps
  <2> QED
    BY <1>1, <1>2, <1>3, <2>2, <2>4, KinTold DEF AnswerTold, Hushed
<1>4. CASE m = "yes"
  <2>1. Done(p, th[p], SetScriptRunning(ui, TRUE))
    BY <1>4 DEF Answered
  <2>2. Stepped(p, SetScriptRunning(ui, TRUE))
    BY <2>1, RunningReady, DoneSteps
  <2> QED
    BY <1>1, <1>2, <1>4, <2>2, RunningReady, RunningTold DEF AnswerTold, Hushed
<1>5. CASE m \notin {"no", "yes"}
  <2>1. Done(p, th[p], ui)
    BY <1>5 DEF Answered
  <2>2. Stepped(p, ui)
    BY <2>1, DoneSteps DEF Asking
  <2> QED
    BY <1>1, <1>2, <1>5, <2>2, KinTold DEF AnswerTold, Hushed
<1> QED
  BY <1>3, <1>4, <1>5

LEMMA RunAnsweredTold ==
  ASSUME NEW p, Asking(p), th[p].at = "run", NEW m \in Replies, Answered(p, m)
  PROVE  AnswerTold(p, m)
<1>1. ui \in UiStates /\ Kin(ui, ui) /\ ~Clears(th[p])
  BY AskingPlaced
<1>2. (TellsRuns(th[p], m) <=> m = "ok") /\ (TellsEnds(th[p], m) <=> m # "ok" /\ th[p].op = "run")
  BY DEF TellsRuns, TellsEnds
<1>3. RunAnswered(p, th[p], ui, m)
  BY DEF Answered
<1>4. CASE m = "ok"
  <2> DEFINE v == StartPreviewForScript(SetScriptRunning(ui, TRUE))
  <2>1. Done(p, th[p], v)
    BY <1>3, <1>4 DEF RunAnswered
  <2>2. Kin(SetScriptRunning(ui, TRUE), v)
    BY RunningReady, ForScriptKin
  <2> HIDE DEF v
  <2>3. Stepped(p, v)
    BY <2>1, <2>2, RunningReady, KinReady, DoneSteps
  <2> QED
    BY <1>1, <1>2, <1>4, <2>2, <2>3, RunningTold DEF AnswerTold, Hushed
<1>5. CASE m # "ok" /\ th[p].op = "run"
  <2>1. Done(p, th[p], SetScriptRunning(ui, FALSE))
    BY <1>3, <1>5 DEF RunAnswered
  <2>2. Stepped(p, SetScriptRunning(ui, FALSE))
    BY <2>1, RunningReady, DoneSteps
  <2> QED
    BY <1>1, <1>2, <1>5, <2>2, RunningReady, RunningTold DEF AnswerTold, Hushed
<1>6. CASE m # "ok" /\ th[p].op # "run"
  <2>1. Done(p, th[p], ui)
    BY <1>3, <1>6 DEF RunAnswered
  <2>2. Stepped(p, ui)
    BY <2>1, DoneSteps DEF Asking
  <2> QED
    BY <1>1, <1>2, <1>6, <2>2, KinTold DEF AnswerTold, Hushed
<1> QED
  BY <1>4, <1>5, <1>6

LEMMA StopAnsweredTold ==
  ASSUME NEW p, Asking(p), th[p].at = "stop", NEW m \in Replies, Answered(p, m)
  PROVE  AnswerTold(p, m)
<1>1. ui \in UiStates /\ Kin(ui, ui) /\ ~Clears(th[p]) /\ th[p].op \in {"stop", "disconnect", "bridgeStop"}
  BY AskingPlaced DEF Fits
<1>2. ~TellsRuns(th[p], m) /\ (TellsEnds(th[p], m) <=> th[p].op # "bridgeStop" \/ m = "ok")
  BY DEF TellsRuns, TellsEnds
<1>3. StopAnswered(p, th[p], ui, m)
  BY DEF Answered
<1> DEFINE w == SetScriptRunning(ui, FALSE)
<1>4. Ready(p, th[p], w) /\ Kin(w, w) /\ w \in UiStates
  BY RunningReady
<1>5. CASE th[p].op # "bridgeStop"
  <2>1. WaitForPreviewAutoStart(p, th[p], w, "wait2") /\ Fits(th[p].op, "wait2")
    BY <1>1, <1>3, <1>5 DEF StopAnswered, Fits
  <2> HIDE DEF w
  <2>2. Kin(w, Cancel(w)) /\ Ready(p, th[p], Cancel(w))
    BY <1>4, CancelKin, KinReady
  <2>3. Stepped(p, Cancel(w))
    BY <2>1, <2>2, WaitSteps
  <2> QED
    BY <1>1, <1>2, <1>5, <2>2, <2>3, RunningTold DEF AnswerTold, Hushed, w
<1>6. CASE th[p].op = "bridgeStop" /\ m = "ok"
  <2>1. Done(p, th[p], w)
    BY <1>3, <1>6 DEF StopAnswered
  <2>2. Stepped(p, w)
    BY <1>4, <2>1, DoneSteps
  <2> QED
    BY <1>1, <1>2, <1>4, <1>6, <2>2, RunningTold DEF AnswerTold, Hushed
<1>7. CASE th[p].op = "bridgeStop" /\ m # "ok"
  <2>1. Done(p, th[p], ui)
    BY <1>3, <1>7 DEF StopAnswered
  <2>2. Stepped(p, ui)
    BY <2>1, DoneSteps DEF Asking
  <2> QED
    BY <1>1, <1>2, <1>7, <2>2, KinTold DEF AnswerTold, Hushed
<1> QED
  BY <1>5, <1>6, <1>7

(* The preview that was to be ended is cleared.                            *)
LEMMA ClearAnswered ==
  ASSUME NEW p, Asking(p), th[p].at \in {"clear", "clear2"}, NEW m \in Replies, Answered(p, m)
  PROVE  AnswerTold(p, m)
<1> DEFINE c == Watch(ClearPreviewState(ui))
<1>1. ui \in UiStates /\ Fits(th[p].op, th[p].at)
  BY AskingPlaced
<1>2. ~TellsRuns(th[p], m) /\ ~TellsEnds(th[p], m)
  BY DEF TellsRuns, TellsEnds
<1>3. /\ c \in UiStates /\ c.running = ui.running /\ c.session # "streaming"
      /\ c.session = "disconnected" <=> ui.session = "disconnected"
      /\ Heed(ui) => Heed(c)
  <2> DEFINE d == ClearPreviewState(ui)
  <2>1. /\ d \in UiStates /\ d.running = ui.running /\ d.session # "streaming"
        /\ d.session = "disconnected" <=> ui.session = "disconnected"
        /\ Heed(ui) => Heed(d)
    BY <1>1, ClearKin
  <2> HIDE DEF d
  <2>2. Kin(d, Watch(d)) /\ Watch(d).session = d.session
    BY <2>1, WatchKin
  <2> QED
    BY <2>1, <2>2 DEF d, Kin
<1>4. Stepped(p, c)
  <2>1. Ready(p, th[p], c)
    <3> HIDE DEF c
    <3> QED
      BY <1>3 DEF Asking, Ready
  <2>2. CASE th[p].at = "clear"
    <3> HIDE DEF c
    <3>1. \/ Ask(p, th[p], c, "run", "runScript") /\ Fits(th[p].op, "run")
          \/ Ask(p, th[p], c, "stop", "stopScript") /\ Fits(th[p].op, "stop")
      <4>1. IF th[p].op \in {"run", "bridgeRun"} THEN Ask(p, th[p], c, "run", "runScript")
            ELSE Ask(p, th[p], c, "stop", "stopScript")
        BY <2>2 DEF Answered, c
      <4>2. th[p].op \in {"run", "bridgeRun"} => Fits(th[p].op, "run")
        BY DEF Fits
      <4>3. th[p].op \notin {"run", "bridgeRun"} => Fits(th[p].op, "stop")
        BY <1>1, <2>2 DEF Fits
      <4> QED
        BY <4>1, <4>2, <4>3
    <3>2. {"run", "stop"} \subseteq Answers /\ "runScript" = Method("run") /\ "stopScript" = Method("stop")
      BY DEF Answers, Method
    <3> QED
      BY <2>1, <3>1, <3>2, AskSteps
  <2>3. CASE th[p].at = "clear2"
    <3>1. End(p, th[p], c)
      BY <2>3 DEF Answered
    <3> HIDE DEF c
    <3> QED
      BY <2>1, <3>1, EndSteps
  <2> QED
    BY <2>2, <2>3
<1> HIDE DEF c
<1>5. Told(p, ui.running)
  BY <1>3, <1>4 DEF Told
<1>6. ~Stray(ui')
  BY <1>3, <1>4 DEF Stepped, Stray
<1> QED
  BY <1>2, <1>5, <1>6 DEF AnswerTold, Hushed

LEMMA QuestionAnswered ==
  ASSUME NEW p, Asking(p), th[p].at \in {"ask", "probe"}, NEW m \in Replies, Answered(p, m)
  PROVE  AnswerTold(p, m)
<1>1. ui \in UiStates /\ Kin(ui, ui) /\ ~Clears(th[p]) /\ Fits(th[p].op, th[p].at)
  BY AskingPlaced
<1>2. CASE th[p].at = "ask" /\ m = "failed"
  <2>1. Done(p, th[p], ui)
    BY <1>2 DEF Answered
  <2>2. Stepped(p, ui)
    BY <2>1, DoneSteps DEF Asking
  <2>3. ~TellsRuns(th[p], m) /\ ~TellsEnds(th[p], m)
    BY <1>2 DEF TellsRuns, TellsEnds
  <2> QED
    BY <1>1, <2>2, <2>3, KinTold DEF AnswerTold, Hushed
<1>3. CASE th[p].at = "ask" /\ m # "failed"
  <2> DEFINE b == m = "yes"
  <2>1. Done(p, th[p], SetScriptRunning(ui, b)) /\ b \in BOOLEAN
    BY <1>3 DEF Answered
  <2>2. TellsRuns(th[p], m) <=> b = TRUE
    BY <1>3 DEF TellsRuns
  <2>3. TellsEnds(th[p], m) <=> b = FALSE
    BY <1>3 DEF TellsEnds
  <2> HIDE DEF b
  <2>4. Stepped(p, SetScriptRunning(ui, b))
    BY <2>1, RunningReady, DoneSteps
  <2>5. Told(p, b) /\ (Stray(ui') => Stray(ui)) /\ Keeps
    BY <1>1, <2>1, <2>4, RunningReady, RunningTold
  <2>6. (b = TRUE) \/ (b = FALSE)
    BY <2>1
  <2> QED
    BY <1>1, <1>3, <2>2, <2>3, <2>5, <2>6 DEF AnswerTold, Hushed
<1>4. CASE th[p].at = "probe"
  <2>1. StartPreview(p, th[p], ui) \/ Done(p, th[p], ui)
    BY <1>4 DEF Answered
  <2>2. Fits(th[p].op, "start")
    BY <1>1, <1>4 DEF Fits
  <2>3. Stepped(p, ui)
    BY <2>1, <2>2, DoneSteps, StartPreviewSteps DEF Asking
  <2>4. ~TellsRuns(th[p], m) /\ ~TellsEnds(th[p], m)
    BY <1>4 DEF TellsRuns, TellsEnds
  <2> QED
    BY <1>1, <2>3, <2>4, KinTold DEF AnswerTold, Hushed
<1> QED
  BY <1>2, <1>3, <1>4

(* A start that the user asked for.                                        *)
LEMMA StartAnswered ==
  ASSUME NEW p, Asking(p), th[p].at = "start", th[p].op = "start", NEW m \in Replies, Answered(p, m)
  PROVE  AnswerTold(p, m)
<1> DEFINE s == [ui EXCEPT !.subscribed = FALSE]
<1>1. ui \in UiStates /\ Kin(ui, ui) /\ ~Clears(th[p])
  BY AskingPlaced
<1>2. ~TellsRuns(th[p], m) /\ ~TellsEnds(th[p], m)
  BY DEF TellsRuns, TellsEnds
<1>3. PICK v \in UiStates :
        Kin(ui, v) /\ Done(p, th[p], v) /\ (m = "ok" => v.session \in {"streaming", "disconnected"})
  <2>1. CASE m # "ok"
    <3>1. Done(p, th[p], s)
      BY <2>1 DEF Answered
    <3>2. Kin(ui, s)
      BY <1>1, MarksKin
    <3> QED
      BY <2>1, <3>1, <3>2 DEF Kin
  <2>2. CASE m = "ok" /\ ui.session = "connected"
    <3>1. Done(p, th[p], StartStreaming(ui, FALSE))
      BY <2>2 DEF Answered
    <3>2. Kin(ui, StartStreaming(ui, FALSE)) /\ StartStreaming(ui, FALSE).session = "streaming"
      BY <1>1, <2>2, StreamingKin
    <3> QED
      BY <3>1, <3>2 DEF Kin
  <2>3. CASE m = "ok" /\ ui.session # "connected"
    <3>1. Done(p, th[p], ui)
      BY <2>3 DEF Answered
    <3>2. ui.session \in {"streaming", "disconnected"}
      BY <1>1, <2>3 DEF UiStates
    <3> QED
      BY <1>1, <3>1, <3>2
  <2> QED
    BY <2>1, <2>2, <2>3
<1>4. Stepped(p, v)
  BY <1>3, KinReady, DoneSteps DEF Asking
<1>5. m = "ok" => ui'.session \in {"streaming", "disconnected"}
  BY <1>3, <1>4 DEF Stepped
<1> QED
  BY <1>1, <1>2, <1>3, <1>4, <1>5, KinTold DEF AnswerTold, Hushed

(* The automatic start: what the user stopped meanwhile is not kept.       *)
LEMMA AutoAnswered ==
  ASSUME NEW p, Asking(p), th[p].at = "start", th[p].op = "auto", NEW m \in Replies, Answered(p, m)
  PROVE  AnswerTold(p, m)
<1>1. ui \in UiStates /\ Kin(ui, ui) /\ ~Clears(th[p]) /\ Heed(ui)
  BY AskingPlaced DEF Asking, Ready
<1>2. ~TellsRuns(th[p], m) /\ ~TellsEnds(th[p], m)
  BY DEF TellsRuns, TellsEnds
<1>3. StartedAuto(p, th[p], ui, m)
  BY DEF Answered
<1>4. CASE m = "ok" /\ ui.session # "connected"
  <2>1. Done(p, th[p], ui)
    BY <1>3, <1>4 DEF StartedAuto
  <2>2. Stepped(p, ui)
    BY <2>1, DoneSteps DEF Asking
  <2>3. ui'.session \in {"streaming", "disconnected"}
    BY <1>1, <1>4, <2>2 DEF Stepped, UiStates
  <2> QED
    BY <1>1, <1>2, <2>2, <2>3, KinTold DEF AnswerTold, Hushed
<1>5. CASE m = "ok" /\ ui.session = "connected"
  <2> DEFINE s == StartStreaming(ui, TRUE)
  <2>1. /\ s \in UiStates /\ s.session = "streaming" /\ s.running = ui.running
        /\ s.stopped = ui.stopped /\ s.fresh = ui.fresh
        /\ ~ui.stopped /\ ~Superseded(s) => ~Stray(s)
    BY <1>1, <1>5, StreamingKin
  <2>2. IF Superseded(s) THEN StopPreviewRuntime(p, th[p], s) ELSE Done(p, th[p], s)
    BY <1>3, <1>5 DEF StartedAuto
  <2> HIDE DEF s
  <2>3. Ready(p, th[p], s)
    BY <1>1, <1>5, <2>1 DEF Asking, Ready, Heed
  <2>4. Stepped(p, s) /\ (Stray(ui') => Clears(th'[p]))
    <3>1. CASE Superseded(s)
      <4>1. Fits(th[p].op, "clear2") /\ StopPreviewRuntime(p, th[p], s)
        BY <2>2, <3>1 DEF Fits
      <4> QED
        BY <2>3, <4>1, StopPreviewSteps
    <3>2. CASE ~Superseded(s)
      <4>1. Stepped(p, s)
        BY <2>2, <2>3, <3>2, DoneSteps
      <4>2. ~Stray(s)
        BY <1>1, <2>1, <3>2 DEF Superseded, Heed
      <4> QED
        BY <4>1, <4>2 DEF Stepped
    <3> QED
      BY <3>1, <3>2
  <2>5. Told(p, ui.running)
    BY <1>5, <2>1, <2>4 DEF Told
  <2>6. ui'.session \in {"streaming", "disconnected"}
    BY <2>1, <2>4 DEF Stepped
  <2> QED
    BY <1>2, <2>4, <2>5, <2>6 DEF AnswerTold, Hushed, Keeps
<1>6. CASE m # "ok"
  <2> DEFINE s == [ui EXCEPT !.subscribed = FALSE]
             v == IF Superseded(s) THEN s ELSE SchedulePreviewAuto(s, FALSE)
  <2>1. Done(p, th[p], v)
    BY <1>3, <1>6 DEF StartedAuto
  <2>2. Kin(ui, s) /\ s \in UiStates
    BY <1>1, MarksKin DEF Kin
  <2>3. Kin(s, SchedulePreviewAuto(s, FALSE))
    <3> HIDE DEF s
    <3> QED
      BY <2>2, ScheduleKin
  <2>4. Kin(ui, v)
    <3>1. Kin(ui, SchedulePreviewAuto(s, FALSE))
      BY <2>2, <2>3, KinKin
    <3> QED
      BY <2>2, <3>1
  <2> HIDE DEF s, v
  <2>5. Stepped(p, v)
    BY <2>1, <2>4, KinReady, DoneSteps DEF Asking
  <2> QED
    BY <1>1, <1>2, <1>6, <2>4, <2>5, KinTold DEF AnswerTold, Hushed
<1> QED
  BY <1>4, <1>5, <1>6

LEMMA AnswerSteps ==
  ASSUME NEW p, Asking(p), NEW m \in Replies, Answered(p, m)
  PROVE  AnswerTold(p, m)
<1>1. th[p].at \in Answers /\ Fits(th[p].op, th[p].at)
  BY AskingPlaced DEF Asking
<1>2. \/ th[p].at \in {"check", "run", "stop", "clear", "clear2", "ask", "probe"}
      \/ th[p].at = "start" /\ th[p].op \in {"start", "auto"}
  BY <1>1 DEF Answers, Fits
<1> QED
  BY <1>2, CheckAnswered, RunAnsweredTold, StopAnsweredTold, ClearAnswered, QuestionAnswered,
     StartAnswered, AutoAnswered

-----------------------------------------------------------------------------
(* Requests and news: of the messages at most one is a thread's, and that  *)
(* thread awaits it.                                                       *)
Request == [to : Threads \cup {"none"}, m : Methods]
Events == {"started", "finished", "lost"}
News == [to : Threads \cup {"none"}, m : Replies] \cup [to : {"event"}, m : Events]

Apart(s) == \A i, j \in 1 .. Len(s) : i # j /\ s[i].to \in Threads => s[i].to # s[j].to
Expected(T, w) == \A i \in 1 .. Len(w) : w[i].to \in Threads => T[w[i].to].at \in Answers
Once(T, w, s) ==
  /\ Apart(w) /\ Apart(s)
  /\ \A i \in 1 .. Len(w), j \in 1 .. Len(s) : w[i].to \in Threads => w[i].to # s[j].to
  /\ Expected(T, w) /\ Expected(T, s)
Named(T, w) == \A i \in 1 .. Len(w) : w[i].to \in Threads => w[i].m = Method(T[w[i].to].at)
Absent(s, p) == \A i \in 1 .. Len(s) : s[i].to # p

LEMMA Strangers == "none" \notin Threads /\ "event" \notin Threads
BY ThreadsAssumption

LEMMA Appended ==
  ASSUME NEW S, NEW s \in Seq(S), NEW x \in S
  PROVE  /\ Append(s, x) \in Seq(S) /\ Len(Append(s, x)) = Len(s) + 1
         /\ \A i \in 1 .. Len(s) : Append(s, x)[i] = s[i]
         /\ Append(s, x)[Len(s) + 1] = x
OBVIOUS

LEMMA Removed ==
  ASSUME NEW S, NEW s \in Seq(S), NEW i \in 1 .. Len(s)
  PROVE  LET r == RemoveAt(s, i) IN
         /\ r \in Seq(S) /\ Len(r) = Len(s) - 1
         /\ \A j \in 1 .. Len(r) : r[j] = IF j < i THEN s[j] ELSE s[j + 1]
<1> DEFINE a == SubSeq(s, 1, i - 1)
           b == SubSeq(s, i + 1, Len(s))
<1>1. Len(s) \in Nat /\ i \in Nat /\ i <= Len(s) /\ i >= 1
  OBVIOUS
<1>2. a \in Seq(S) /\ Len(a) = i - 1 /\ \A j \in 1 .. i - 1 : a[j] = s[j]
  BY <1>1
<1>3. b \in Seq(S) /\ Len(b) = Len(s) - i /\ \A j \in 1 .. Len(s) - i : b[j] = s[i + j]
  BY <1>1
<1> HIDE DEF a, b
<1>4. a \o b \in Seq(S) /\ Len(a \o b) = Len(s) - 1
  <2>1. a \o b \in Seq(S) /\ Len(a \o b) = Len(a) + Len(b)
    BY <1>2, <1>3, ConcatProperties
  <2> QED
    BY <1>1, <1>2, <1>3, <2>1
<1>5. \A j \in 1 .. Len(s) - 1 : (a \o b)[j] = IF j < i THEN a[j] ELSE b[j - (i - 1)]
  <2>1. \A j \in 1 .. Len(a) + Len(b) : (a \o b)[j] = IF j <= Len(a) THEN a[j] ELSE b[j - Len(a)]
    BY <1>2, <1>3
  <2> QED
    BY <1>1, <1>2, <1>3, <2>1
<1>6. \A j \in 1 .. Len(s) - 1 : (a \o b)[j] = IF j < i THEN s[j] ELSE s[j + 1]
  <2> TAKE j \in 1 .. Len(s) - 1
  <2>1. CASE j < i
    BY <1>1, <1>2, <1>5, <2>1
  <2>2. CASE ~(j < i)
    <3>1. j - (i - 1) \in 1 .. Len(s) - i /\ i + (j - (i - 1)) = j + 1
      BY <1>1, <2>2
    <3> QED
      BY <1>3, <1>5, <2>2, <3>1
  <2> QED
    BY <2>1, <2>2
<1> QED
  BY <1>4, <1>6 DEF RemoveAt, a, b

(* A thread that awaits nothing moves, and may ask.                        *)
LEMMA StepOnce ==
  ASSUME NEW p \in Threads, NEW u, Stepped(p, u), wire \in Seq(Request), NEW s \in Seq(News),
         Once(th, wire, s), Named(th, wire), Absent(wire, p), Absent(s, p), ui'.session # "disconnected"
  PROVE  wire' \in Seq(Request) /\ Once(th', wire', s) /\ Named(th', wire')
<1>1. Expected(th', wire) /\ Expected(th', s) /\ Named(th', wire)
  BY DEF Stepped, Once, Expected, Named, Absent
<1>2. CASE wire' = wire
  BY <1>1, <1>2 DEF Once
<1>3. CASE th'[p].at \in Answers /\ wire' = Append(wire, [to |-> p, m |-> Method(th'[p].at)])
  <2> DEFINE x == [to |-> p, m |-> Method(th'[p].at)]
  <2>1. x \in Request /\ x.to = p /\ x.m = Method(th'[p].at)
    BY <1>3 DEF Request, Methods, Method, Answers
  <2> HIDE DEF x
  <2>2. /\ wire' \in Seq(Request) /\ Len(wire') = Len(wire) + 1
        /\ \A i \in 1 .. Len(wire) : wire'[i] = wire[i]
        /\ wire'[Len(wire) + 1] = x /\ Len(wire) \in Nat
    BY <1>3, <2>1, Appended DEF x
  <2>3. Apart(wire')
    BY <2>1, <2>2 DEF Once, Apart, Absent
  <2>4. \A i \in 1 .. Len(wire'), j \in 1 .. Len(s) : wire'[i].to \in Threads => wire'[i].to # s[j].to
    BY <2>1, <2>2 DEF Once, Absent
  <2>5. Expected(th', wire')
    BY <1>1, <1>3, <2>1, <2>2 DEF Expected
  <2>6. Named(th', wire')
    BY <1>1, <1>3, <2>1, <2>2 DEF Named
  <2> QED
    BY <1>1, <2>2, <2>3, <2>4, <2>5, <2>6 DEF Once
<1> QED
  BY <1>2, <1>3 DEF Stepped

LEMMA RemovedOnce ==
  ASSUME NEW T, NEW w, NEW s \in Seq(News), Once(T, w, s), NEW i \in 1 .. Len(s)
  PROVE  /\ Once(T, w, RemoveAt(s, i))
         /\ s[i].to \in Threads => Absent(w, s[i].to) /\ Absent(RemoveAt(s, i), s[i].to)
<1> DEFINE r == RemoveAt(s, i)
<1>1. Len(r) = Len(s) - 1 /\ \A j \in 1 .. Len(r) : r[j] = IF j < i THEN s[j] ELSE s[j + 1]
  BY Removed
<1>2. Len(s) \in Nat
  OBVIOUS
<1> HIDE DEF r
<1>3. \A j \in 1 .. Len(r) : \E k \in 1 .. Len(s) : r[j] = s[k] /\ k # i
  BY <1>1, <1>2
<1>4. Apart(r)
  <2> SUFFICES ASSUME NEW j \in 1 .. Len(r), NEW k \in 1 .. Len(r), j # k, r[j].to \in Threads
               PROVE  r[j].to # r[k].to
    BY DEF Apart
  <2>1. PICK a \in 1 .. Len(s), b \in 1 .. Len(s) : r[j] = s[a] /\ r[k] = s[b] /\ a # b
    BY <1>1, <1>2
  <2> QED
    BY <2>1 DEF Once, Apart
<1>5. Once(T, w, r)
  BY <1>3, <1>4 DEF Once, Expected
<1>6. s[i].to \in Threads => Absent(w, s[i].to) /\ Absent(r, s[i].to)
  BY <1>3 DEF Once, Apart, Absent
<1> QED
  BY <1>5, <1>6 DEF r

LEMMA AppendedOnce ==
  ASSUME NEW T, NEW w, NEW s \in Seq(News), Once(T, w, s), NEW x \in News, x.to \notin Threads
  PROVE  Once(T, w, Append(s, x))
<1> DEFINE a == Append(s, x)
<1>1. Len(a) = Len(s) + 1 /\ Len(s) \in Nat /\ (\A i \in 1 .. Len(s) : a[i] = s[i]) /\ a[Len(s) + 1] = x
  BY Appended
<1> HIDE DEF a
<1>2. Apart(a)
  BY <1>1 DEF Once, Apart
<1>3. Expected(T, a) /\ \A i \in 1 .. Len(w), j \in 1 .. Len(a) : w[i].to \in Threads => w[i].to # a[j].to
  BY <1>1 DEF Once, Expected
<1> QED
  BY <1>2, <1>3 DEF Once, a

(* The backend answers the first request.                                  *)
LEMMA ServedOnce ==
  ASSUME NEW T, NEW w \in Seq(Request), w # <<>>, NEW s \in Seq(News), Once(T, w, s), Named(T, w),
         NEW x \in News, x.to = Head(w).to
  PROVE  Tail(w) \in Seq(Request) /\ Once(T, Tail(w), Append(s, x)) /\ Named(T, Tail(w))
<1> DEFINE a == Append(s, x)
           v == Tail(w)
<1>1. Len(a) = Len(s) + 1 /\ Len(s) \in Nat /\ (\A i \in 1 .. Len(s) : a[i] = s[i]) /\ a[Len(s) + 1] = x
  BY Appended
<1>2. v \in Seq(Request) /\ Len(v) = Len(w) - 1 /\ Len(w) \in Nat \ {0} /\ \A i \in 1 .. Len(v) : v[i] = w[i + 1]
  OBVIOUS
<1>3. Head(w) = w[1]
  OBVIOUS
<1> HIDE DEF a, v
<1>0. 1 \in 1 .. Len(w) /\ (x.to \in Threads => Absent(s, x.to))
  BY <1>2, <1>3 DEF Once, Absent
<1>4. Apart(a)
  <2> SUFFICES ASSUME NEW j \in 1 .. Len(a), NEW k \in 1 .. Len(a), j # k, a[j].to \in Threads
               PROVE  a[j].to # a[k].to
    BY DEF Apart
  <2>1. CASE j \in 1 .. Len(s) /\ k \in 1 .. Len(s)
    BY <1>1, <2>1 DEF Once, Apart
  <2>2. CASE j = Len(s) + 1 /\ k \in 1 .. Len(s)
    BY <1>0, <1>1, <2>2 DEF Absent
  <2>3. CASE j \in 1 .. Len(s) /\ k = Len(s) + 1
    BY <1>0, <1>1, <2>3 DEF Absent
  <2> QED
    BY <1>1, <2>1, <2>2, <2>3
<1>5. Apart(v)
  <2> SUFFICES ASSUME NEW j \in 1 .. Len(v), NEW k \in 1 .. Len(v), j # k, v[j].to \in Threads
               PROVE  v[j].to # v[k].to
    BY DEF Apart
  <2>1. j + 1 \in 1 .. Len(w) /\ k + 1 \in 1 .. Len(w) /\ j + 1 # k + 1
    BY <1>2
  <2> QED
    BY <1>2, <2>1 DEF Once, Apart
<1>6. Expected(T, a) /\ Expected(T, v) /\ Named(T, v)
  <2>1. Expected(T, a)
    BY <1>0, <1>1, <1>3 DEF Once, Expected
  <2>2. \A i \in 1 .. Len(v) : i + 1 \in 1 .. Len(w) /\ v[i] = w[i + 1]
    BY <1>2
  <2>3. Expected(T, v)
    BY <2>2 DEF Once, Expected
  <2>4. Named(T, v)
    BY <2>2 DEF Named
  <2> QED
    BY <2>1, <2>3, <2>4
<1>7. \A i \in 1 .. Len(v), j \in 1 .. Len(a) : v[i].to \in Threads => v[i].to # a[j].to
  BY <1>1, <1>2, <1>3 DEF Once, Apart
<1> QED
  BY <1>2, <1>4, <1>5, <1>6, <1>7 DEF Once, a, v

(* A request times out: its answer will be nobody's.                       *)
LEMMA TimedOutOnce ==
  ASSUME NEW T, NEW w \in Seq(Request), Once(T, w, <<>>), Named(T, w), NEW i \in 1 .. Len(w)
  PROVE  LET v == [w EXCEPT ![i].to = "none"]
             s == <<[to |-> w[i].to, m |-> "failed"]>> IN
         v \in Seq(Request) /\ s \in Seq(News) /\ Once(T, v, s) /\ Named(T, v)
<1> DEFINE v == [w EXCEPT ![i].to = "none"]
           x == [to |-> w[i].to, m |-> "failed"]
<1>1. w[i] \in Request /\ [w[i] EXCEPT !.to = "none"] \in Request
  <2>1. w[i] \in Request
    OBVIOUS
  <2> QED
    BY <2>1 DEF Request
<1>2. /\ v \in Seq(Request) /\ Len(v) = Len(w) /\ v[i].to = "none"
      /\ \A j \in 1 .. Len(w) : j # i => v[j] = w[j]
  <2>1. w \in [1 .. Len(w) -> Request] /\ Len(w) \in Nat
    OBVIOUS
  <2>2. v \in [1 .. Len(w) -> Request]
    BY <1>1, <2>1
  <2>3. v \in Seq(Request) /\ Len(v) = Len(w)
    BY <2>1, <2>2
  <2> QED
    BY <1>1, <2>1, <2>3 DEF Request
<1>3. x \in News /\ x.to = w[i].to
  BY <1>1 DEF Request, News, Replies
<1> HIDE DEF v, x
<1>4. <<x>> \in Seq(News) /\ Len(<<x>>) = 1 /\ <<x>>[1] = x
  BY <1>3
<1>5. Apart(v) /\ Apart(<<x>>)
  BY <1>2, <1>4, Strangers DEF Once, Apart
<1>6. Expected(T, v) /\ Expected(T, <<x>>) /\ Named(T, v)
  BY <1>2, <1>3, <1>4, Strangers DEF Once, Expected, Named
<1>7. \A j \in 1 .. Len(v), k \in 1 .. Len(<<x>>) : v[j].to \in Threads => v[j].to # <<x>>[k].to
  BY <1>2, <1>3, <1>4, Strangers DEF Once, Apart
<1> QED
  BY <1>2, <1>4, <1>5, <1>6, <1>7 DEF Once, v, x

-----------------------------------------------------------------------------
(* The inductive invariant.                                                *)
BoardStates == [running : BOOLEAN, told : BOOLEAN, streaming : BOOLEAN, there : BOOLEAN]
Typed ==
  /\ ui \in UiStates /\ th \in [Threads -> Placed] /\ promise \in BOOLEAN
  /\ wire \in Seq(Request) /\ pipe \in Seq(News) /\ board \in BoardStates

(* While the board is connected a thread that awaits an answer has one     *)
(* request or one answer on its way, or none; the others have none.        *)
Awaits ==
  /\ ui.session = "disconnected" => wire = <<>>
  /\ ui.session # "disconnected" => Once(th, wire, pipe) /\ Named(th, wire)

(* A start that is still wanted was not stopped, and if one that is not    *)
(* has become a preview, somebody is about to end it.                      *)
Heeds == Heed(ui) /\ (Stray(ui) => \E p \in Threads : Clears(th[p]))

IInv == Typed /\ Awaits /\ Heeds

(* Thread p, that awaits nothing from the backend, moves.                  *)
Moves(p) ==
  /\ th[p].at \notin Answers /\ Told(p, ui.running) /\ Hushed(p) /\ Keeps /\ UNCHANGED <<pipe, board>>

LEMMA StepKeeps ==
  ASSUME IInv, NEW p \in Threads, NEW b, Told(p, b), Hushed(p),
         pipe' \in Seq(News), board' \in BoardStates,
         ui.session # "disconnected" => Once(th, wire, pipe') /\ Absent(wire, p) /\ Absent(pipe', p)
  PROVE  IInv'
<1>1. PICK v \in UiStates :
        v.running = b /\ (v.session = "disconnected" <=> ui.session = "disconnected") /\ Stepped(p, v)
  BY DEF Told
<1>2. ui' \in UiStates /\ th' \in [Threads -> Placed] /\ promise' \in BOOLEAN
  BY <1>1 DEF Stepped
<1>3. Heed(ui)'
  BY <1>1 DEF Stepped, Heed
<1>4. (Stray(ui) => \E q \in Threads : Clears(th[q]))'
  <2> SUFFICES ASSUME Stray(ui') PROVE \E q \in Threads : Clears(th'[q])
    BY DEF Stray
  <2>1. CASE Clears(th'[p])
    BY <2>1
  <2>2. CASE Stray(ui) /\ ~Clears(th[p])
    <3>1. PICK q \in Threads : Clears(th[q])
      BY <2>2 DEF IInv, Heeds
    <3>2. th'[q] = th[q]
      BY <1>1, <2>2, <3>1 DEF Stepped
    <3> QED
      BY <3>1, <3>2
  <2> QED
    BY <2>1, <2>2 DEF Hushed
<1>5. CASE ui'.session = "disconnected"
  <2>1. wire' = <<>>
    BY <1>1, <1>5 DEF Stepped
  <2>2. wire' \in Seq(Request)
    BY <2>1
  <2> QED
    BY <1>2, <1>3, <1>4, <1>5, <2>1, <2>2 DEF IInv, Typed, Awaits, Heeds
<1>6. CASE ui'.session # "disconnected"
  <2>1. ui.session # "disconnected"
    BY <1>1, <1>6 DEF Stepped
  <2>2. wire' \in Seq(Request) /\ Once(th', wire', pipe') /\ Named(th', wire')
    BY <1>1, <1>6, <2>1, StepOnce DEF IInv, Typed, Awaits
  <2>3. Typed'
    BY <1>2, <2>2 DEF Typed
  <2>4. Awaits'
    BY <1>6, <2>2 DEF Awaits, Once, Named, Expected
  <2> QED
    BY <1>3, <1>4, <2>3, <2>4 DEF IInv, Heeds
<1> QED
  BY <1>5, <1>6

(* Who awaits nothing has nothing on its way.                              *)
LEMMA NothingAwaited ==
  ASSUME IInv, NEW p \in Threads, th[p].at \notin Answers, ui.session # "disconnected"
  PROVE  Once(th, wire, pipe) /\ Absent(wire, p) /\ Absent(pipe, p)
BY DEF IInv, Awaits, Once, Expected, Absent

LEMMA MoveKeeps ==
  ASSUME IInv, NEW p \in Threads, Moves(p)
  PROVE  IInv'
<1>1. pipe' = pipe /\ board' = board
  BY DEF Moves
<1>2. pipe' \in Seq(News) /\ board' \in BoardStates
  BY <1>1 DEF IInv, Typed
<1>3. ui.session # "disconnected" => Once(th, wire, pipe') /\ Absent(wire, p) /\ Absent(pipe', p)
  BY <1>1, NothingAwaited DEF Moves
<1> QED
  BY <1>2, <1>3, StepKeeps DEF Moves

(* The window alone changes.                                               *)
LEMMA WindowKeeps ==
  ASSUME IInv, Kin(ui, ui'), promise' \in BOOLEAN, UNCHANGED <<th, wire, pipe, board>>
  PROVE  IInv'
<1>1. Typed'
  BY DEF IInv, Typed, Kin
<1>2. Awaits'
  BY DEF IInv, Awaits, Kin
<1>3. Heeds'
  <2>1. (Stray(ui') => Stray(ui)) /\ Heed(ui')
    BY DEF IInv, Heeds, Kin
  <2> QED
    BY <2>1 DEF IInv, Heeds, Heed, Stray
<1> QED
  BY <1>1, <1>2, <1>3 DEF IInv

-----------------------------------------------------------------------------
(* The commands and the requests.                                          *)
LEMMA BeginReady ==
  ASSUME IInv, NEW p \in Threads, NEW t \in ThreadStates, NEW u, Kin(ui, u)
  PROVE  Ready(p, t, u)
BY DEF IInv, Typed, Awaits, Heeds, Kin, Ready

LEMMA IdleMoves ==
  ASSUME NEW p, th[p] = Idle
  PROVE  th[p].at \notin Answers /\ ~Clears(th[p])
BY DEF Idle, Answers, Clears

LEMMA NewThread ==
  ASSUME NEW op \in Ops, NEW b \in BOOLEAN
  PROVE  New(op, b) \in ThreadStates /\ New(op, b).op = op
BY DEF New, ThreadStates, Places

LEMMA WaitMoves ==
  ASSUME IInv, NEW p \in Threads, th[p] = Idle, NEW t \in ThreadStates, NEW u, Kin(ui, u),
         NEW at \in {"wait", "wait2"}, Fits(t.op, at), WaitForPreviewAutoStart(p, t, u, at), UNCHANGED <<pipe, board>>
  PROVE  Moves(p)
<1>1. Kin(ui, Cancel(u))
  BY CancelKin, KinKin DEF Kin
<1>2. Stepped(p, Cancel(u))
  BY <1>1, BeginReady, WaitSteps
<1> QED
  BY <1>1, <1>2, IdleMoves, KinTold DEF Moves, Hushed

LEMMA AskMoves ==
  ASSUME IInv, NEW p \in Threads, th[p] = Idle, NEW t \in ThreadStates, NEW u, Kin(ui, u),
         NEW at \in Answers, Fits(t.op, at), NEW m, m = Method(at), Ask(p, t, u, at, m), UNCHANGED <<pipe, board>>
  PROVE  Moves(p)
<1>1. Stepped(p, u)
  BY BeginReady, AskSteps
<1> QED
  BY <1>1, IdleMoves, KinTold DEF Moves, Hushed

LEMMA BusyKin ==
  ASSUME IInv
  PROVE  /\ ui \in UiStates /\ Kin(ui, ui) /\ Kin(ui, Busy(ui))
         /\ Kin(ui, [Busy(ui) EXCEPT !.paused = TRUE])
<1>1. ui \in UiStates /\ Kin(ui, Busy(ui))
  BY MarksKin DEF IInv, Typed, Busy
<1>2. Kin(Busy(ui), [Busy(ui) EXCEPT !.paused = TRUE])
  BY <1>1, MarksKin DEF Kin
<1> QED
  BY <1>1, <1>2, KinKin DEF Kin

LEMMA RunMoves ==
  ASSUME IInv, NEW p \in Procs, RunCurrentScript(p)
  PROVE  Moves(p)
<1>1. p \in Threads /\ th[p] = Idle /\ UNCHANGED <<pipe, board>>
  BY DEF RunCurrentScript, Begin, Threads
<1>2. New("run", TRUE) \in ThreadStates /\ New("run", TRUE).op = "run"
  BY NewThread DEF Ops
<1>3. "check" \in Answers /\ Fits("run", "check") /\ "scriptRunning" = Method("check")
  BY DEF Answers, Fits, Method
<1>4. Ask(p, New("run", TRUE), Busy(ui), "check", "scriptRunning")
  BY DEF RunCurrentScript
<1> QED
  BY <1>1, <1>2, <1>3, <1>4, BusyKin, AskMoves

LEMMA StopMoves ==
  ASSUME IInv, NEW p \in Procs, StopRunningScript(p)
  PROVE  Moves(p)
<1>1. p \in Threads /\ th[p] = Idle /\ UNCHANGED <<pipe, board>>
  BY DEF StopRunningScript, Begin, Threads
<1>2. New("stop", TRUE) \in ThreadStates /\ New("stop", TRUE).op = "stop"
  BY NewThread DEF Ops
<1>3. Fits("stop", "wait")
  BY DEF Fits
<1>4. WaitForPreviewAutoStart(p, New("stop", TRUE), [Busy(ui) EXCEPT !.paused = TRUE], "wait")
  BY DEF StopRunningScript
<1> QED
  BY <1>1, <1>2, <1>3, <1>4, BusyKin, WaitMoves

LEMMA StartMoves ==
  ASSUME IInv, NEW p \in Procs, StartPreviewManual(p)
  PROVE  Moves(p)
<1>1. p \in Threads /\ th[p] = Idle /\ UNCHANGED <<pipe, board>>
  BY DEF StartPreviewManual, Begin, Threads
<1>2. \A b \in BOOLEAN : New("start", b) \in ThreadStates /\ New("start", b).op = "start"
  BY NewThread DEF Ops
<1>3. Fits("start", "wait")
  BY DEF Fits
<1>4. \/ WaitForPreviewAutoStart(p, New("start", FALSE), ui, "wait")
      \/ WaitForPreviewAutoStart(p, New("start", TRUE), Busy(ui), "wait")
  BY DEF StartPreviewManual
<1> QED
  BY <1>1, <1>2, <1>3, <1>4, BusyKin, WaitMoves

(* The stop that the user asked for: no automatic start is wanted now.     *)
LEMMA HaltMoves ==
  ASSUME IInv, NEW p \in Procs, StopPreviewManual(p)
  PROVE  Moves(p)
<1>1. p \in Threads /\ th[p] = Idle /\ UNCHANGED <<pipe, board>>
  BY DEF StopPreviewManual, Begin, Threads
<1>2. PICK busy \in BOOLEAN :
        WaitForPreviewAutoStart(p, New("halt", busy),
          [ui EXCEPT !.stopped = TRUE, !.paused = FALSE, !.scriptBusy = @ \/ busy], "wait")
  BY DEF StopPreviewManual
<1>3. New("halt", busy) \in ThreadStates /\ New("halt", busy).op = "halt" /\ Fits("halt", "wait")
  BY NewThread DEF Ops, Fits
<1> DEFINE u == [ui EXCEPT !.stopped = TRUE, !.paused = FALSE, !.scriptBusy = @ \/ busy]
<1>4. ui \in UiStates
  BY DEF IInv, Typed
<1>5. u \in UiStates /\ u.running = ui.running /\ u.session = ui.session
  BY <1>4 DEF UiStates
<1> HIDE DEF u
<1>6. /\ Cancel(u) \in UiStates /\ Cancel(u).running = ui.running /\ Cancel(u).session = ui.session
      /\ Heed(Cancel(u))
  BY <1>5, CancelKin DEF Kin
<1>7. Ready(p, New("halt", busy), Cancel(u))
  BY <1>1, <1>3, <1>6 DEF IInv, Typed, Awaits, Ready
<1>8. Stepped(p, Cancel(u)) /\ (Stray(ui') => Clears(th'[p]))
  BY <1>2, <1>3, <1>7, WaitSteps DEF u
<1>9. Keeps
  BY <1>6, <1>8 DEF Stepped, Keeps
<1> QED
  BY <1>1, <1>6, <1>8, <1>9, IdleMoves DEF Moves, Told, Hushed

LEMMA BridgeMoves ==
  ASSUME IInv, NEW p \in Procs, SendBridgeRequest(p)
  PROVE  Moves(p)
<1>1. p \in Threads /\ th[p] = Idle /\ UNCHANGED <<pipe, board>>
  BY DEF SendBridgeRequest, Begin, Threads
<1>2. CASE WaitForPreviewAutoStart(p, New("bridgeRun", TRUE), Busy(ui), "wait")
  <2>1. New("bridgeRun", TRUE) \in ThreadStates /\ New("bridgeRun", TRUE).op = "bridgeRun" /\ Fits("bridgeRun", "wait")
    BY NewThread DEF Ops, Fits
  <2> QED
    BY <1>1, <1>2, <2>1, BusyKin, WaitMoves
<1>3. CASE Ask(p, New("bridgeStop", TRUE), Busy(ui), "stop", "stopScript")
  <2>1. New("bridgeStop", TRUE) \in ThreadStates /\ New("bridgeStop", TRUE).op = "bridgeStop"
    BY NewThread DEF Ops
  <2>2. "stop" \in Answers /\ Fits("bridgeStop", "stop") /\ "stopScript" = Method("stop")
    BY DEF Answers, Fits, Method
  <2> QED
    BY <1>1, <1>3, <2>1, <2>2, BusyKin, AskMoves
<1>4. CASE Ask(p, New("ask", TRUE), Busy(ui), "ask", "scriptRunning")
  <2>1. New("ask", TRUE) \in ThreadStates /\ New("ask", TRUE).op = "ask"
    BY NewThread DEF Ops
  <2>2. "ask" \in Answers /\ Fits("ask", "ask") /\ "scriptRunning" = Method("ask")
    BY DEF Answers, Fits, Method
  <2> QED
    BY <1>1, <1>4, <2>1, <2>2, BusyKin, AskMoves
<1> QED
  BY <1>2, <1>3, <1>4 DEF SendBridgeRequest

LEMMA DisconnectMoves ==
  ASSUME IInv, NEW p \in Procs, DisconnectBoardRuntime(p)
  PROVE  Moves(p)
<1>1. p \in Threads /\ th[p] = Idle /\ UNCHANGED <<pipe, board>>
  BY DEF DisconnectBoardRuntime, Begin, Threads
<1>2. New("disconnect", FALSE) \in ThreadStates /\ New("disconnect", FALSE).op = "disconnect" /\ Fits("disconnect", "wait")
  BY NewThread DEF Ops, Fits
<1> DEFINE u == [Cancel(ui) EXCEPT !.connectionBusy = TRUE, !.paused = FALSE]
           v == [Busy(u) EXCEPT !.paused = TRUE]
<1>3. IF ui.running THEN WaitForPreviewAutoStart(p, New("disconnect", FALSE), v, "wait") ELSE Close(p, u)
  BY DEF DisconnectBoardRuntime
<1>4. Kin(ui, u) /\ u \in UiStates
  <2>1. Kin(ui, Cancel(ui)) /\ Cancel(ui) \in UiStates
    BY CancelKin DEF IInv, Typed, Kin
  <2>2. Kin(Cancel(ui), u)
    BY <2>1, MarksKin
  <2> HIDE DEF u
  <2> QED
    BY <2>1, <2>2, KinKin DEF Kin
<1>5. Kin(ui, v)
  <2> HIDE DEF u
  <2>1. Kin(u, Busy(u)) /\ Busy(u) \in UiStates
    BY <1>4, MarksKin DEF Busy, Kin
  <2>2. Kin(Busy(u), v)
    BY <2>1, MarksKin
  <2> HIDE DEF v
  <2> QED
    BY <1>4, <2>1, <2>2, KinKin
<1> HIDE DEF u, v
<1>6. CASE ui.running
  BY <1>1, <1>2, <1>3, <1>5, <1>6, WaitMoves
<1>7. CASE ~ui.running
  <2>1. Close(p, u)
    BY <1>3, <1>7
  <2>2. Ready(p, New("disconnect", FALSE), u)
    BY <1>1, <1>2, <1>4, BeginReady
  <2>3. Stepped(p, u)
    BY <2>1, <2>2, CloseSteps
  <2> QED
    BY <1>1, <1>4, <2>3, IdleMoves, KinTold DEF Moves, Hushed
<1> QED
  BY <1>6, <1>7

LEMMA ResumeMoves ==
  ASSUME IInv, NEW p \in Threads, Resume(p)
  PROVE  Moves(p)
<1>1. th[p] \in ThreadStates /\ Fits(th[p].op, th[p].at) /\ ui \in UiStates /\ Kin(ui, ui)
  BY DEF IInv, Typed, Placed, Kin
<1>2. Ready(p, th[p], ui)
  BY <1>1, BeginReady
<1>3. CASE th[p].at = "wait"
  <2>1. Proceed(p, th[p], ui)
    BY <1>3 DEF Resume
  <2>2. Stepped(p, ui) /\ (th[p].op = "halt" /\ Stray(ui') => Clears(th'[p]))
    BY <1>1, <1>2, <1>3, <2>1, ProceedSteps
  <2>3. Clears(th[p]) => th[p].op = "halt"
    BY <1>3 DEF Clears
  <2> QED
    BY <1>1, <1>3, <2>2, <2>3, KinTold DEF Moves, Hushed, Resume, Answers
<1>4. CASE th[p].at = "wait2"
  <2>1. AfterScript(p, th[p], ui) /\ Fits(th[p].op, "clear2")
    BY <1>1, <1>4 DEF Resume, Fits
  <2>2. Stepped(p, ui)
    BY <1>2, <2>1, AfterSteps
  <2>3. ~Clears(th[p])
    BY <1>4 DEF Clears
  <2> QED
    BY <1>1, <1>4, <2>2, <2>3, KinTold DEF Moves, Hushed, Resume, Answers
<1> QED
  BY <1>3, <1>4 DEF Resume

LEMMA RecoverMoves ==
  ASSUME IInv, RecoverStalePreview
  PROVE  Moves("recover")
<1>1. "recover" \in Threads /\ th["recover"] = Idle /\ UNCHANGED <<pipe, board>>
  BY DEF RecoverStalePreview, Threads
<1>2. New("recover", FALSE) \in ThreadStates /\ New("recover", FALSE).op = "recover"
  BY NewThread DEF Ops
<1>3. "clear2" \in Answers /\ Fits("recover", "clear2") /\ "stopPreview" = Method("clear2")
  BY DEF Answers, Fits, Method
<1>4. Ask("recover", New("recover", FALSE), Cancel(ui), "clear2", "stopPreview")
  BY DEF RecoverStalePreview
<1>5. Kin(ui, Cancel(ui))
  BY CancelKin DEF IInv, Typed
<1> QED
  BY <1>1, <1>2, <1>3, <1>4, <1>5, AskMoves

(* The timer starts the preview, or comes to nothing.                      *)
LEMMA TimerMoves ==
  ASSUME IInv, StartPreviewAuto
  PROVE  Moves("auto") \/ (Kin(ui, ui') /\ promise' \in BOOLEAN /\ UNCHANGED <<th, wire, pipe, board>>)
<1> DEFINE u == [ui EXCEPT !.timer = "none"]
           off == \/ ui.timer = "stale" \/ u.stopped \/ u.paused \/ ~u.running \/ u.connectionBusy \/ u.scriptBusy
                  \/ u.session # "connected" \/ th["auto"] # Idle
<1>1. ui \in UiStates /\ Kin(ui, u) /\ u \in UiStates /\ u.session = ui.session
  <2>1. ui \in UiStates
    BY DEF IInv, Typed
  <2>2. Kin(ui, u) /\ u.session = ui.session
    BY <2>1, MarksKin DEF UiStates
  <2> QED
    BY <2>1, <2>2 DEF Kin
<1>2. CASE off
  BY <1>1, <1>2 DEF StartPreviewAuto
<1>3. CASE ~off
  <2> DEFINE v == [u EXCEPT !.fresh = TRUE, !.subscribed = TRUE]
             t == [op |-> "auto", at |-> "start", busy |-> FALSE]
  <2>1. /\ ui' = v /\ promise' = TRUE /\ th' = [th EXCEPT !["auto"] = t]
        /\ wire' = Append(wire, [to |-> "auto", m |-> "startPreview"]) /\ UNCHANGED <<pipe, board>>
    BY <1>3 DEF StartPreviewAuto
  <2>2. "auto" \in Threads /\ th["auto"] = Idle /\ u.session = "connected" /\ ~u.stopped
    BY <1>3 DEF Threads
  <2>3. v \in UiStates /\ v.running = ui.running /\ v.session = "connected" /\ ~v.stopped
    BY <1>1, <2>2 DEF UiStates, Kin
  <2>4. t \in Placed /\ t.at = "start" /\ "start" \in Answers /\ Method("start") = "startPreview"
    BY DEF Placed, ThreadStates, Ops, Places, Answers, Fits, Method
  <2> HIDE DEF u, v, t, off
  <2>5. th' \in [Threads -> Placed] /\ th'["auto"] = t /\ \A q \in Threads \ {"auto"} : th'[q] = th[q]
    BY <2>1, <2>2, <2>4 DEF IInv, Typed
  <2>6. Stepped("auto", v) /\ ~Stray(ui')
    BY <2>1, <2>3, <2>4, <2>5 DEF Stepped, Stray, Heed
  <2>7. Told("auto", ui.running) /\ Keeps
    BY <1>1, <2>2, <2>3, <2>6 DEF Told, Keeps
  <2> QED
    BY <2>1, <2>2, <2>6, <2>7, IdleMoves DEF Moves, Hushed
<1> QED
  BY <1>2, <1>3

LEMMA PanelKin ==
  ASSUME IInv, OpenPreviewPanel
  PROVE  Kin(ui, ui') /\ promise' \in BOOLEAN /\ UNCHANGED <<th, wire, pipe, board>>
BY ScheduleKin DEF OpenPreviewPanel, IInv, Typed

LEMMA ConnectKeeps ==
  ASSUME IInv, NEW p \in Procs, ConnectBoardRuntime(p)
  PROVE  IInv'
<1>1. /\ ui' = [Cancel(ui) EXCEPT !.session = "connected"] /\ board' = FreshBoard /\ pipe' = <<>> /\ wire = <<>>
      /\ UNCHANGED <<th, promise, wire>>
  BY DEF ConnectBoardRuntime, IInv, Awaits
<1>2. Cancel(ui) \in UiStates /\ ~Cancel(ui).fresh
  BY CancelKin DEF IInv, Typed, Kin
<1>3. ui' \in UiStates /\ ui'.session = "connected" /\ ~ui'.fresh
  BY <1>1, <1>2 DEF UiStates
<1>4. board' \in BoardStates /\ pipe' \in Seq(News)
  BY <1>1 DEF FreshBoard, BoardStates
<1>5. Typed'
  BY <1>1, <1>3, <1>4 DEF IInv, Typed
<1>6. Once(th, <<>>, <<>>) /\ Named(th, <<>>)
  BY DEF Once, Apart, Expected, Named
<1>7. Awaits'
  BY <1>1, <1>3, <1>6 DEF Awaits
<1>8. Heeds'
  BY <1>3 DEF Heeds, Heed, Stray
<1> QED
  BY <1>5, <1>7, <1>8 DEF IInv

-----------------------------------------------------------------------------
(* What arrives.                                                           *)
LEMMA NewsTyped ==
  ASSUME NEW x \in News
  PROVE  /\ x.to \in Threads \cup {"none"} => x.m \in Replies
         /\ x.to = "event" => x.m \in Events
         /\ x.to \in Threads \cup {"none", "event"}
BY Strangers DEF News

LEMMA AnswerMoves ==
  ASSUME IInv, ui.session # "disconnected", NEW i \in 1 .. Len(pipe), pipe[i].to \in Threads,
         Answered(pipe[i].to, pipe[i].m)
  PROVE  AnswerTold(pipe[i].to, pipe[i].m)
<1>1. pipe[i] \in News
  BY DEF IInv, Typed
<1>2. pipe[i].m \in Replies
  BY <1>1, NewsTyped
<1>3. th[pipe[i].to].at \in Answers
  BY DEF IInv, Awaits, Once, Expected
<1>4. ui \in UiStates /\ Kin(ui, ui) /\ th[pipe[i].to] \in ThreadStates
  BY DEF IInv, Typed, Kin, Placed
<1>5. Asking(pipe[i].to)
  BY <1>3, <1>4, BeginReady DEF Asking
<1> QED
  BY <1>2, <1>5, AnswerSteps

LEMMA RejectTold ==
  ASSUME IInv, NEW p \in Threads, Reject(p)
  PROVE  ui.session = "disconnected" /\ AnswerTold(p, "failed") /\ UNCHANGED <<pipe, board>>
<1>1. ui.session = "disconnected" /\ th[p].at \in Answers /\ Answered(p, "failed") /\ UNCHANGED <<pipe, board>>
  BY DEF Reject
<1>2. ui \in UiStates /\ Kin(ui, ui) /\ th[p] \in ThreadStates
  BY DEF IInv, Typed, Kin, Placed
<1>3. Asking(p) /\ "failed" \in Replies
  BY <1>1, <1>2, BeginReady DEF Asking, Replies
<1> QED
  BY <1>1, <1>3, AnswerSteps

(* Of a script's end a thread of its own deals.                            *)
LEMMA FinishedTold ==
  ASSUME IInv, NEW p \in Threads, th[p] = Idle,
         WaitForPreviewAutoStart(p, New("after", FALSE), SetScriptRunning(ui, FALSE), "wait2")
  PROVE  Told(p, FALSE) /\ Hushed(p) /\ Keeps
<1> DEFINE w == SetScriptRunning(ui, FALSE)
<1>1. ui \in UiStates
  BY DEF IInv, Typed
<1>2. /\ w \in UiStates /\ w.session = ui.session /\ w.fresh = ui.fresh /\ w.stopped = ui.stopped
  BY <1>1, RunningState
<1>3. New("after", FALSE) \in ThreadStates /\ New("after", FALSE).op = "after" /\ Fits("after", "wait2")
  BY NewThread DEF Ops, Fits
<1> HIDE DEF w
<1>4. Kin(w, Cancel(w)) /\ Cancel(w) \in UiStates
  BY <1>2, CancelKin DEF Kin
<1>5. Ready(p, New("after", FALSE), Cancel(w))
  BY <1>2, <1>3, <1>4 DEF IInv, Typed, Awaits, Heeds, Heed, Kin, Ready
<1>6. Stepped(p, Cancel(w))
  BY <1>3, <1>5, WaitSteps DEF w
<1> QED
  BY <1>1, <1>4, <1>6, RunningTold, IdleMoves DEF Hushed, w

(* One message is delivered.                                               *)
LEMMA DeliverCases ==
  ASSUME IInv, NEW i \in 1 .. Len(pipe), Deliver(i)
  PROVE  LET x == pipe[i] IN
         /\ ui.session # "disconnected" /\ board' = board /\ x \in News
         /\ \/ /\ x.to \in Threads /\ pipe' = RemoveAt(pipe, i)
               /\ AnswerTold(x.to, x.m)
            \/ /\ x.to = "none" /\ pipe' = RemoveAt(pipe, i) /\ UNCHANGED <<ui, th, promise, wire>>
            \/ /\ x.to = "event" /\ x.m = "started" /\ pipe' = RemoveAt(pipe, i)
               /\ ui' = SetScriptRunning(ui, TRUE) /\ UNCHANGED <<th, promise, wire>>
            \/ /\ x.to = "event" /\ x.m = "finished" /\ pipe' = RemoveAt(pipe, i)
               /\ Keeps /\ \E p \in Threads : th[p] = Idle /\ Told(p, FALSE) /\ Hushed(p)
            \/ /\ x.to = "event" /\ x.m = "lost" /\ pipe' = <<>> /\ wire' = <<>>
               /\ ui' = Closed(ui) /\ UNCHANGED <<th, promise>>
<1> DEFINE x == pipe[i]
<1>1. ui.session # "disconnected" /\ board' = board /\ x \in News
  BY DEF Deliver, IInv, Typed
<1>2. CASE x.to \in Threads
  <2>0. x.m \in Replies /\ x.to # "none"
    BY <1>1, <1>2, NewsTyped, Strangers
  <2>1. pipe' = RemoveAt(pipe, i) /\ Answered(x.to, x.m)
    BY <1>2, <2>0 DEF Deliver, Replies
  <2>2. AnswerTold(x.to, x.m)
    BY <1>1, <1>2, <2>1, AnswerMoves
  <2> QED
    BY <1>1, <1>2, <2>1, <2>2
<1>3. CASE x.to = "none"
  <2>1. pipe' = RemoveAt(pipe, i) /\ UNCHANGED <<ui, th, promise, wire>>
    <3>1. x.to \notin Threads /\ x.m \in Replies
      BY <1>1, <1>3, NewsTyped, Strangers
    <3> QED
      BY <1>3, <3>1 DEF Deliver, Replies
  <2> QED
    BY <1>1, <1>3, <2>1
<1>4. CASE x.to = "event"
  <2>1. x.m \in Events
    BY <1>1, <1>4, NewsTyped
  <2>2. CASE x.m = "started"
    <3>1. pipe' = RemoveAt(pipe, i) /\ ui' = SetScriptRunning(ui, TRUE) /\ UNCHANGED <<th, promise, wire>>
      BY <1>4, <2>2, Strangers DEF Deliver
    <3> QED
      BY <1>1, <1>4, <2>2, <3>1
  <2>3. CASE x.m = "finished"
    <3>1. /\ pipe' = RemoveAt(pipe, i)
          /\ \E p \in Afters : th[p] = Idle
          /\ LET p == CHOOSE f \in Afters : th[f] = Idle IN
               WaitForPreviewAutoStart(p, New("after", FALSE), SetScriptRunning(ui, FALSE), "wait2")
      BY <1>4, <2>3, Strangers DEF Deliver
    <3>2. PICK p : p = CHOOSE f \in Afters : th[f] = Idle
      OBVIOUS
    <3>3. p \in Afters /\ th[p] = Idle
      BY <3>1, <3>2
    <3>4. p \in Threads /\ Told(p, FALSE) /\ Hushed(p) /\ Keeps
      BY <3>1, <3>2, <3>3, FinishedTold DEF Threads
    <3> QED
      BY <1>1, <1>4, <2>3, <3>1, <3>3, <3>4
  <2>4. CASE x.m = "lost"
    <3>1. pipe' = <<>> /\ wire' = <<>> /\ ui' = Closed(ui) /\ UNCHANGED <<th, promise>>
      BY <1>4, <2>4, Strangers DEF Deliver
    <3> QED
      BY <1>1, <1>4, <2>4, <3>1
  <2> QED
    BY <2>1, <2>2, <2>3, <2>4 DEF Events
<1> QED
  BY <1>1, <1>2, <1>3, <1>4, NewsTyped

LEMMA DeliverKeeps ==
  ASSUME IInv, NEW i \in 1 .. Len(pipe), Deliver(i)
  PROVE  IInv'
<1> DEFINE x == pipe[i]
           r == RemoveAt(pipe, i)
<1>1. ui.session # "disconnected" /\ board' = board /\ x \in News /\ pipe \in Seq(News) /\ board \in BoardStates
  BY DeliverCases DEF IInv, Typed
<1>2. r \in Seq(News)
  BY <1>1, Removed
<1>3. Once(th, wire, pipe) /\ Named(th, wire)
  BY <1>1 DEF IInv, Awaits
<1>4. Once(th, wire, r) /\ (x.to \in Threads => Absent(wire, x.to) /\ Absent(r, x.to))
  BY <1>1, <1>3, RemovedOnce
<1>5. CASE x.to \in Threads /\ pipe' = r /\ AnswerTold(x.to, x.m)
  <2>1. PICK b : Told(x.to, b)
    BY <1>5 DEF AnswerTold
  <2>2. Hushed(x.to)
    BY <1>5 DEF AnswerTold
  <2> QED
    BY <1>1, <1>2, <1>4, <1>5, <2>1, <2>2, StepKeeps
<1>6. CASE pipe' = r /\ UNCHANGED <<th, promise, wire>> /\ (ui' = ui \/ ui' = SetScriptRunning(ui, TRUE))
  <2>1. ui \in UiStates
    BY DEF IInv, Typed
  <2>2. /\ ui' \in UiStates /\ ui'.session = ui.session /\ ui'.fresh = ui.fresh /\ ui'.stopped = ui.stopped
        /\ ui'.auto = ui.auto /\ ui'.watchdog = ui.watchdog
    BY <1>6, <2>1, RunningState
  <2>3. Typed'
    BY <1>1, <1>2, <1>6, <2>2 DEF IInv, Typed
  <2>4. Awaits'
    BY <1>1, <1>3, <1>4, <1>6, <2>2 DEF Awaits
  <2>5. Heeds'
    BY <1>6, <2>2 DEF IInv, Heeds, Heed, Stray
  <2> QED
    BY <2>3, <2>4, <2>5 DEF IInv
<1>7. CASE pipe' = r /\ \E p \in Threads : th[p] = Idle /\ Told(p, FALSE) /\ Hushed(p)
  <2>1. PICK p \in Threads : th[p] = Idle /\ Told(p, FALSE) /\ Hushed(p)
    BY <1>7
  <2>2. Absent(wire, p) /\ Absent(r, p)
    BY <1>4, <2>1, IdleMoves DEF Once, Expected, Absent
  <2> QED
    BY <1>1, <1>2, <1>4, <1>7, <2>1, <2>2, StepKeeps
<1>8. CASE pipe' = <<>> /\ wire' = <<>> /\ ui' = Closed(ui) /\ UNCHANGED <<th, promise>>
  <2>1. ui' \in UiStates /\ ui'.session = "disconnected" /\ ~ui'.fresh
    BY <1>8, ClosedState DEF IInv, Typed
  <2>2. wire' \in Seq(Request) /\ pipe' \in Seq(News)
    BY <1>8
  <2>3. Typed' /\ Awaits' /\ Heeds'
    BY <1>1, <1>8, <2>1, <2>2 DEF IInv, Typed, Awaits, Heeds, Heed, Stray
  <2> QED
    BY <2>3 DEF IInv
<1> QED
  BY <1>5, <1>6, <1>7, <1>8, DeliverCases

LEMMA RejectKeeps ==
  ASSUME IInv, NEW p \in Threads, Reject(p)
  PROVE  IInv'
<1>1. ui.session = "disconnected" /\ AnswerTold(p, "failed") /\ UNCHANGED <<pipe, board>>
  BY RejectTold
<1>2. PICK b : Told(p, b)
  BY <1>1 DEF AnswerTold
<1>3. pipe' \in Seq(News) /\ board' \in BoardStates
  BY <1>1 DEF IInv, Typed
<1> QED
  BY <1>1, <1>2, <1>3, StepKeeps DEF AnswerTold

-----------------------------------------------------------------------------
(* What the backend does, and who waits too long.                          *)
(* The threads and the window stay; messages move.                         *)
LEMMA MessagesKeep ==
  ASSUME IInv, UNCHANGED <<ui, th, promise>>, wire' \in Seq(Request), pipe' \in Seq(News), board' \in BoardStates,
         ui.session = "disconnected" => wire' = wire,
         ui.session # "disconnected" => Once(th, wire', pipe') /\ Named(th, wire')
  PROVE  IInv'
<1>1. Typed'
  BY DEF IInv, Typed
<1>2. Awaits'
  BY DEF IInv, Awaits
<1>3. Heeds'
  BY DEF IInv, Heeds, Heed, Stray
<1> QED
  BY <1>1, <1>2, <1>3 DEF IInv

LEMMA TimeoutKeeps ==
  ASSUME IInv, NEW i \in 1 .. Len(wire), Timeout(i)
  PROVE  IInv'
<1>1. /\ wire \in Seq(Request) /\ board' \in BoardStates /\ UNCHANGED <<ui, th, promise>> /\ pipe = <<>>
      /\ wire' = [wire EXCEPT ![i].to = "none"] /\ pipe' = <<[to |-> wire[i].to, m |-> "failed"]>>
  BY DEF IInv, Typed, Timeout
<1>2. ui.session # "disconnected" /\ Once(th, wire, <<>>) /\ Named(th, wire)
  BY <1>1 DEF IInv, Awaits
<1>3. wire' \in Seq(Request) /\ pipe' \in Seq(News) /\ Once(th, wire', pipe') /\ Named(th, wire')
  BY <1>1, <1>2, TimedOutOnce
<1> QED
  BY <1>1, <1>2, <1>3, MessagesKeep

(* An event: it is nobody's answer.                                        *)
LEMMA EventKeeps ==
  ASSUME IInv, UNCHANGED <<ui, th, promise, wire>>, board' \in BoardStates,
         NEW m \in Events, pipe' = Append(pipe, [to |-> "event", m |-> m])
  PROVE  IInv'
<1> DEFINE x == [to |-> "event", m |-> m]
<1>1. x \in News /\ x.to \notin Threads
  BY Strangers DEF News
<1>2. pipe \in Seq(News) /\ wire \in Seq(Request)
  BY DEF IInv, Typed
<1> HIDE DEF x
<1>3. pipe' \in Seq(News)
  BY <1>1, <1>2 DEF x
<1>4. ui.session # "disconnected" => Once(th, wire, Append(pipe, x)) /\ Named(th, wire)
  BY <1>1, <1>2, AppendedOnce DEF IInv, Awaits
<1> QED
  BY <1>2, <1>3, <1>4, MessagesKeep DEF x

(* The first request is answered with m, and the script is as given.       *)
Answering(m, running, told) ==
  /\ pipe' = Append(pipe, [to |-> Head(wire).to, m |-> m])
  /\ board'.running = running /\ board'.told = told

LEMMA BackendCases ==
  ASSUME IInv, Backend
  PROVE  /\ wire # <<>> /\ wire' = Tail(wire) /\ UNCHANGED <<ui, th, promise>>
         /\ board' \in BoardStates /\ board'.there = board.there
         /\ \/ /\ Head(wire).m = "scriptRunning"
               /\ Answering(IF board.running THEN "yes" ELSE "no", board.running, board.told)
            \/ /\ Head(wire).m = "runScript" /\ board.there /\ board'.running /\ board'.told
               /\ pipe' = Append(Append(pipe, [to |-> "event", m |-> "started"]), [to |-> Head(wire).to, m |-> "ok"])
            \/ /\ Head(wire).m = "runScript"
               /\ Answering("error", FALSE, FALSE) \/ Answering("error", board.running, FALSE)
               /\ board.there /\ (board.running \/ board.told) => "overrun" \in Faults
            \/ /\ Head(wire).m = "stopScript"
               /\ Answering("ok", FALSE, FALSE) \/ Answering("ok", board.running, FALSE)
            \/ /\ Head(wire).m \in {"startPreview", "stopPreview"}
               /\ \E m \in {"ok", "error"} : Answering(m, board.running, board.told)
<1> DEFINE r == Head(wire)
           Sets(running, told, streaming) ==
             board' = [board EXCEPT !.running = running, !.told = told, !.streaming = streaming]
           Reply(m) == pipe' = Append(pipe, [to |-> r.to, m |-> m])
<1>1. wire # <<>> /\ wire' = Tail(wire) /\ UNCHANGED <<ui, th, promise>>
  BY DEF Backend
<1>2. board \in BoardStates /\ board.running \in BOOLEAN /\ board.told \in BOOLEAN /\ board.streaming \in BOOLEAN
  BY DEF IInv, Typed, BoardStates
<1>3. \A run, told, streaming \in BOOLEAN : Sets(run, told, streaming) =>
        board' \in BoardStates /\ board'.there = board.there /\ board'.running = run /\ board'.told = told
  BY <1>2 DEF BoardStates
<1>4. \/ r.m = "scriptRunning" /\ board' = board /\ Reply(IF board.running THEN "yes" ELSE "no")
      \/ /\ r.m = "runScript" /\ board.there /\ Sets(TRUE, TRUE, FALSE)
         /\ pipe' = pipe \o <<[to |-> "event", m |-> "started"], [to |-> r.to, m |-> "ok"]>>
      \/ /\ r.m = "runScript" /\ Reply("error")
         /\ board.there /\ (board.running \/ board.told) => "overrun" \in Faults
         /\ Sets(FALSE, FALSE, FALSE) \/ Sets(board.running, FALSE, FALSE)
      \/ r.m = "stopScript" /\ Reply("ok") /\ \E goesOn \in {FALSE, board.running} : Sets(goesOn, FALSE, FALSE)
      \/ /\ r.m = "startPreview" /\ Sets(board.running, board.told, board.running)
         /\ Reply(IF board.running THEN "ok" ELSE "error")
      \/ r.m = "stopPreview" /\ Sets(board.running, board.told, FALSE) /\ Reply("ok")
  BY DEF Backend, Fault
<1>5. pipe \o <<[to |-> "event", m |-> "started"], [to |-> r.to, m |-> "ok"]>> =
      Append(Append(pipe, [to |-> "event", m |-> "started"]), [to |-> r.to, m |-> "ok"])
  <2>1. \A a, b : pipe \o <<a, b>> = Append(Append(pipe, a), b)
    <3> SUFFICES ASSUME NEW a, NEW b PROVE pipe \o <<a, b>> = Append(Append(pipe, a), b)
      OBVIOUS
    <3>1. pipe \in Seq(News \cup {a, b})
      BY DEF IInv, Typed
    <3> QED
      BY <3>1
  <2> QED
    BY <2>1
<1> HIDE DEF Sets
<1>6. board' \in BoardStates /\ board'.there = board.there
  BY <1>2, <1>3, <1>4
<1>7. CASE r.m = "scriptRunning" /\ board' = board /\ Reply(IF board.running THEN "yes" ELSE "no")
  BY <1>1, <1>6, <1>7 DEF Answering
<1>8. CASE /\ r.m = "runScript" /\ board.there /\ Sets(TRUE, TRUE, FALSE)
           /\ pipe' = pipe \o <<[to |-> "event", m |-> "started"], [to |-> r.to, m |-> "ok"]>>
  BY <1>1, <1>3, <1>5, <1>6, <1>8
<1>9. CASE /\ r.m = "runScript" /\ Reply("error")
           /\ board.there /\ (board.running \/ board.told) => "overrun" \in Faults
           /\ Sets(FALSE, FALSE, FALSE) \/ Sets(board.running, FALSE, FALSE)
  <2>1. Answering("error", FALSE, FALSE) \/ Answering("error", board.running, FALSE)
    BY <1>2, <1>3, <1>9 DEF Answering
  <2> QED
    BY <1>1, <1>6, <1>9, <2>1
<1>10. CASE r.m = "stopScript" /\ Reply("ok") /\ \E goesOn \in {FALSE, board.running} : Sets(goesOn, FALSE, FALSE)
  <2>1. Answering("ok", FALSE, FALSE) \/ Answering("ok", board.running, FALSE)
    BY <1>2, <1>3, <1>10 DEF Answering
  <2> QED
    BY <1>1, <1>6, <1>10, <2>1
<1>11. CASE /\ r.m = "startPreview" /\ Sets(board.running, board.told, board.running)
            /\ Reply(IF board.running THEN "ok" ELSE "error")
  <2>1. \E m \in {"ok", "error"} : Answering(m, board.running, board.told)
    BY <1>2, <1>3, <1>11 DEF Answering
  <2> QED
    BY <1>1, <1>6, <1>11, <2>1
<1>12. CASE r.m = "stopPreview" /\ Sets(board.running, board.told, FALSE) /\ Reply("ok")
  <2>1. Answering("ok", board.running, board.told)
    BY <1>2, <1>3, <1>12 DEF Answering
  <2> QED
    BY <1>1, <1>6, <1>12, <2>1
<1> QED
  BY <1>4, <1>7, <1>8, <1>9, <1>10, <1>11, <1>12

LEMMA BackendKeeps ==
  ASSUME IInv, Backend
  PROVE  IInv'
<1> DEFINE started == [to |-> "event", m |-> "started"]
           s == Append(pipe, started)
           Reply(m) == [to |-> Head(wire).to, m |-> m]
<1>1. /\ wire # <<>> /\ wire' = Tail(wire) /\ UNCHANGED <<ui, th, promise>> /\ board' \in BoardStates
      /\ wire \in Seq(Request) /\ pipe \in Seq(News)
  BY BackendCases DEF IInv, Typed
<1>2. ui.session # "disconnected" /\ Once(th, wire, pipe) /\ Named(th, wire)
  BY <1>1 DEF IInv, Awaits
<1>3. started \in News /\ started.to \notin Threads
  BY Strangers DEF News, Events
<1>4. \A m \in Replies : Reply(m) \in News /\ Reply(m).to = Head(wire).to
  <2>1. Head(wire) \in Request
    BY <1>1
  <2> QED
    BY <2>1 DEF Request, News
<1> HIDE DEF started, Reply
<1>5. s \in Seq(News) /\ Once(th, wire, s)
  BY <1>1, <1>2, <1>3, Appended, AppendedOnce
<1>6. \E m \in Replies : pipe' = Append(pipe, Reply(m)) \/ pipe' = Append(s, Reply(m))
  BY BackendCases DEF Answering, Replies, started, Reply
<1> HIDE DEF s
<1>7. PICK m \in Replies : pipe' = Append(pipe, Reply(m)) \/ pipe' = Append(s, Reply(m))
  BY <1>6
<1> DEFINE x == Reply(m)
<1>8. x \in News /\ x.to = Head(wire).to
  BY <1>4
<1> HIDE DEF x
<1>9. wire' \in Seq(Request) /\ Named(th, wire')
  BY <1>1, <1>2, <1>8, ServedOnce
<1>10. Append(pipe, x) \in Seq(News) /\ Once(th, wire', Append(pipe, x))
  BY <1>1, <1>2, <1>8, ServedOnce, Appended
<1>11. Append(s, x) \in Seq(News) /\ Once(th, wire', Append(s, x))
  BY <1>1, <1>2, <1>5, <1>8, ServedOnce, Appended
<1>12. pipe' \in Seq(News) /\ Once(th, wire', pipe')
  BY <1>7, <1>10, <1>11 DEF x
<1> QED
  BY <1>1, <1>2, <1>9, <1>12, MessagesKeep

LEMMA BoardKeeps ==
  ASSUME IInv, ScriptEnds \/ Poller \/ BoardLost
  PROVE  IInv'
<1>1. board \in BoardStates /\ pipe \in Seq(News) /\ wire \in Seq(Request)
  BY DEF IInv, Typed
<1>2. CASE ScriptEnds
  <2>1. board' \in BoardStates /\ UNCHANGED <<ui, th, promise, wire, pipe>>
    BY <1>1, <1>2 DEF ScriptEnds, BoardStates
  <2> QED
    BY <1>1, <2>1, MessagesKeep DEF IInv, Awaits
<1>3. CASE Poller
  <2>1. board' \in BoardStates /\ UNCHANGED <<ui, th, promise, wire>>
    BY <1>1, <1>3 DEF Poller, BoardStates
  <2>2. \E m \in Events : pipe' = Append(pipe, [to |-> "event", m |-> m])
    BY <1>3 DEF Poller, Events
  <2> QED
    BY <2>1, <2>2, EventKeeps
<1>4. CASE BoardLost
  <2>1. board' \in BoardStates /\ UNCHANGED <<ui, th, promise, wire>>
    BY <1>1, <1>4 DEF BoardLost, FreshBoard, BoardStates
  <2>2. \E m \in Events : pipe' = Append(pipe, [to |-> "event", m |-> m])
    BY <1>4 DEF BoardLost, Events
  <2> QED
    BY <2>1, <2>2, EventKeeps
<1> QED
  BY <1>2, <1>3, <1>4

-----------------------------------------------------------------------------
LEMMA InitEstablishes == Init => IInv
<1> SUFFICES ASSUME Init PROVE IInv
  OBVIOUS
<1>1. ui \in UiStates /\ ui.session = "connected" /\ ~ui.fresh
  BY DEF Init, UiStates
<1>2. th \in [Threads -> Placed] /\ promise \in BOOLEAN /\ board \in BoardStates
  BY IdlePlaced DEF Init, FreshBoard, BoardStates
<1>3. wire = <<>> /\ pipe = <<>>
  BY DEF Init
<1>4. wire \in Seq(Request) /\ pipe \in Seq(News)
  BY <1>3
<1>5. Once(th, wire, pipe) /\ Named(th, wire)
  BY <1>3 DEF Once, Apart, Expected, Named
<1> QED
  BY <1>1, <1>2, <1>4, <1>5 DEF IInv, Typed, Awaits, Heeds, Heed, Stray

(* A command: its thread moves, or the board is connected.                 *)
LEMMA CommandMoves ==
  ASSUME IInv, NEW p \in Procs,
         \/ RunCurrentScript(p) \/ StopRunningScript(p) \/ StartPreviewManual(p) \/ StopPreviewManual(p)
         \/ SendBridgeRequest(p) \/ DisconnectBoardRuntime(p)
  PROVE  p \in Threads /\ Moves(p)
<1>1. p \in Threads
  BY DEF Threads
<1> QED
  BY <1>1, RunMoves, StopMoves, StartMoves, HaltMoves, BridgeMoves, DisconnectMoves

(* The steps, by what they change.                                         *)
LEMMA StepCases ==
  ASSUME IInv, Next
  PROVE  \/ \E p \in Threads : Moves(p)
         \/ Kin(ui, ui') /\ promise' \in BOOLEAN /\ UNCHANGED <<th, wire, pipe, board>>
         \/ \E p \in Procs : ConnectBoardRuntime(p)
         \/ \E i \in 1 .. Len(pipe) : Deliver(i)
         \/ \E p \in Threads : Reject(p)
         \/ \E i \in 1 .. Len(wire) : Timeout(i)
         \/ Backend \/ ScriptEnds \/ Poller \/ BoardLost
<1>1. CASE \E p \in Procs :
             \/ RunCurrentScript(p) \/ StopRunningScript(p) \/ StartPreviewManual(p) \/ StopPreviewManual(p)
             \/ SendBridgeRequest(p) \/ DisconnectBoardRuntime(p)
  BY <1>1, CommandMoves
<1>2. CASE OpenPreviewPanel
  BY <1>2, PanelKin
<1>3. CASE StartPreviewAuto
  BY <1>3, TimerMoves DEF Threads
<1>4. CASE RecoverStalePreview
  BY <1>4, RecoverMoves DEF Threads
<1>5. CASE \E p \in Threads : Resume(p)
  BY <1>5, ResumeMoves
<1> QED
  BY <1>1, <1>2, <1>3, <1>4, <1>5 DEF Next

LEMMA NextKeeps ==
  ASSUME IInv, [Next]_vars
  PROVE  IInv'
<1>1. CASE Next
  BY <1>1, StepCases, MoveKeeps, WindowKeeps, ConnectKeeps, DeliverKeeps, RejectKeeps,
     TimeoutKeeps,
     BackendKeeps, BoardKeeps
<1>2. CASE UNCHANGED vars
  BY <1>2 DEF vars, IInv, Typed, Awaits, Heeds, Heed, Stray, Once, Apart, Expected, Named
<1> QED
  BY <1>1, <1>2

THEOREM Invariant == Spec => []IInv
<1>1. Init => IInv
  BY InitEstablishes
<1>2. IInv /\ [Next]_vars => IInv'
  BY NextKeeps
<1> QED
  BY <1>1, <1>2, PTL DEF Spec

(* A preview that started by itself is one the user has not stopped, and   *)
(* has its watchdog, whatever fails, is late or is lost, and however many  *)
(* act.                                                                    *)
THEOREM AutomaticPreviewsAreWanted == Spec => []AutomaticIsWanted
<1>1. IInv => AutomaticIsWanted
  <2> SUFFICES ASSUME IInv, Quiet, Stray(ui) PROVE FALSE
    BY DEF AutomaticIsWanted, Stray
  <2>1. PICK p \in Threads : Clears(th[p])
    BY DEF IInv, Heeds
  <2> QED
    BY <2>1, IdleMoves DEF Quiet
<1> QED
  BY <1>1, Invariant, PTL

-----------------------------------------------------------------------------
(* What the window believes of the script when everything that is on its   *)
(* way has arrived: what the last message that speaks of it says, or what  *)
(* it believes now if none does.                                           *)
SaysRuns(x, T) ==
  (x.to = "event" /\ x.m = "started") \/ (x.to \in Threads /\ TellsRuns(T[x.to], x.m))
SaysEnds(x, T) ==
  (x.to = "event" /\ x.m \in {"finished", "lost"}) \/ (x.to \in Threads /\ TellsEnds(T[x.to], x.m))
Says(x, T, b) == IF b THEN SaysRuns(x, T) ELSE SaysEnds(x, T)
Silent(x, T) == ~SaysRuns(x, T) /\ ~SaysEnds(x, T)
Believed(b, r, s, T) ==
  \/ r = b /\ \A i \in 1 .. Len(s) : Silent(s[i], T)
  \/ \E i \in 1 .. Len(s) : Says(s[i], T, b) /\ \A j \in i + 1 .. Len(s) : Silent(s[j], T)

(* A run that timed out and that the backend has yet to begin.             *)
LateRun(w) == \E i \in 1 .. Len(w) : w[i].to = "none" /\ w[i].m = "runScript"

(* The window will believe what the poller would report, unless it has     *)
(* given up a run that is still to come.                                   *)
Current ==
  /\ ui.session = "disconnected" => ~ui.running
  /\ ~board.there => ~board.running /\ ~board.told
  /\ \A i \in 1 .. Len(wire) : wire[i].to = "none" => wire[i].m # "stopScript"
  /\ ui.session # "disconnected" /\ board.running = board.told =>
       \/ Believed(board.running, ui.running, pipe, th)
       \/ Believed(FALSE, ui.running, pipe, th) /\ LateRun(wire)

(* Nothing overtakes an answer; no stop times out, no script ends before   *)
(* the poller saw it, and no run fails over another script.                *)
FlowsHypothesis == ~Coalesced /\ Faults \cap {"slow stop", "unseen", "overrun"} = {}

LEMMA BelievedMoved ==
  ASSUME NEW b, NEW r, NEW s, NEW T, NEW U, NEW p \in Threads, \A q \in Threads \ {p} : U[q] = T[q],
         Absent(s, p), Believed(b, r, s, T)
  PROVE  Believed(b, r, s, U)
<1>1. \A i \in 1 .. Len(s) : (SaysRuns(s[i], U) <=> SaysRuns(s[i], T)) /\ (SaysEnds(s[i], U) <=> SaysEnds(s[i], T))
  <2> TAKE i \in 1 .. Len(s)
  <2>1. s[i].to \in Threads => U[s[i].to] = T[s[i].to]
    BY DEF Absent
  <2> QED
    BY <2>1 DEF SaysRuns, SaysEnds
<1>2. CASE r = b /\ \A i \in 1 .. Len(s) : Silent(s[i], T)
  BY <1>1, <1>2 DEF Believed, Silent
<1>3. CASE \E i \in 1 .. Len(s) : Says(s[i], T, b) /\ \A j \in i + 1 .. Len(s) : Silent(s[j], T)
  <2>1. PICK i \in 1 .. Len(s) : Says(s[i], T, b) /\ \A j \in i + 1 .. Len(s) : Silent(s[j], T)
    BY <1>3
  <2>2. Says(s[i], U, b)
    BY <1>1, <2>1 DEF Says
  <2>3. \A j \in i + 1 .. Len(s) : Silent(s[j], U)
    BY <1>1, <2>1 DEF Silent
  <2> QED
    BY <2>2, <2>3 DEF Believed
<1> QED
  BY <1>2, <1>3 DEF Believed

LEMMA BelievedSilent ==
  ASSUME NEW b, NEW r, NEW s \in Seq(News), NEW T, NEW x \in News, Silent(x, T), Believed(b, r, s, T)
  PROVE  Believed(b, r, Append(s, x), T)
<1> DEFINE a == Append(s, x)
<1>1. Len(a) = Len(s) + 1 /\ Len(s) \in Nat /\ (\A i \in 1 .. Len(s) : a[i] = s[i]) /\ a[Len(s) + 1] = x
  BY Appended
<1> HIDE DEF a
<1>2. CASE r = b /\ \A i \in 1 .. Len(s) : Silent(s[i], T)
  <2>1. \A i \in 1 .. Len(a) : Silent(a[i], T)
    BY <1>1, <1>2
  <2> QED
    BY <1>2, <2>1 DEF Believed, a
<1>3. CASE \E i \in 1 .. Len(s) : Says(s[i], T, b) /\ \A j \in i + 1 .. Len(s) : Silent(s[j], T)
  <2>1. PICK i \in 1 .. Len(s) : Says(s[i], T, b) /\ \A j \in i + 1 .. Len(s) : Silent(s[j], T)
    BY <1>3
  <2>2. i \in 1 .. Len(a) /\ Says(a[i], T, b)
    BY <1>1, <2>1
  <2>3. \A j \in i + 1 .. Len(a) : Silent(a[j], T)
    BY <1>1, <2>1
  <2> QED
    BY <2>2, <2>3 DEF Believed, a
<1> QED
  BY <1>2, <1>3 DEF Believed

LEMMA BelievedSaid ==
  ASSUME NEW b, NEW r, NEW s \in Seq(News), NEW T, NEW x \in News, Says(x, T, b)
  PROVE  Believed(b, r, Append(s, x), T)
<1> DEFINE a == Append(s, x)
<1>1. Len(a) = Len(s) + 1 /\ Len(s) \in Nat /\ a[Len(s) + 1] = x
  BY Appended
<1> HIDE DEF a
<1>2. Len(s) + 1 \in 1 .. Len(a) /\ Says(a[Len(s) + 1], T, b)
  BY <1>1
<1>3. \A j \in Len(s) + 1 + 1 .. Len(a) : Silent(a[j], T)
  BY <1>1
<1> QED
  BY <1>2, <1>3 DEF Believed, a

(* The first message is heard.                                             *)
Heard(x, T, r, new) ==
  /\ SaysRuns(x, T) => new = TRUE
  /\ SaysEnds(x, T) => new = FALSE
  /\ Silent(x, T) => new = r

LEMMA BelievedHeard ==
  ASSUME NEW b \in BOOLEAN, NEW r, NEW s \in Seq(News), NEW T, 1 \in 1 .. Len(s), NEW new, Heard(s[1], T, r, new),
         Believed(b, r, s, T)
  PROVE  Believed(b, new, RemoveAt(s, 1), T)
<1> DEFINE a == RemoveAt(s, 1)
<1>1. Len(s) \in Nat /\ Len(a) = Len(s) - 1 /\ \A j \in 1 .. Len(a) : a[j] = s[j + 1]
  BY Removed
<1> HIDE DEF a
<1>2. CASE r = b /\ \A i \in 1 .. Len(s) : Silent(s[i], T)
  <2>1. new = b
    BY <1>2 DEF Heard
  <2>2. \A i \in 1 .. Len(a) : Silent(a[i], T)
    BY <1>1, <1>2
  <2> QED
    BY <2>1, <2>2 DEF Believed, a
<1>3. CASE \E i \in 1 .. Len(s) : Says(s[i], T, b) /\ \A j \in i + 1 .. Len(s) : Silent(s[j], T)
  <2>1. PICK i \in 1 .. Len(s) : Says(s[i], T, b) /\ \A j \in i + 1 .. Len(s) : Silent(s[j], T)
    BY <1>3
  <2>2. CASE i = 1
    <3>1. Says(s[1], T, b) /\ \A j \in 2 .. Len(s) : Silent(s[j], T)
      BY <2>1, <2>2
    <3>2. new = b
      <4>1. CASE b = TRUE
        BY <3>1, <4>1 DEF Says, Heard
      <4>2. CASE b = FALSE
        BY <3>1, <4>2 DEF Says, Heard
      <4> QED
        BY <4>1, <4>2
    <3>3. \A j \in 1 .. Len(a) : Silent(a[j], T)
      BY <1>1, <3>1
    <3> QED
      BY <3>2, <3>3 DEF Believed, a
  <2>3. CASE i # 1
    <3>1. i - 1 \in 1 .. Len(a) /\ a[i - 1] = s[i]
      BY <1>1, <2>3
    <3>2. \A j \in (i - 1) + 1 .. Len(a) : Silent(a[j], T)
      BY <1>1, <2>1
    <3>3. Says(a[i - 1], T, b)
      BY <2>1, <3>1
    <3> QED
      BY <3>1, <3>2, <3>3 DEF Believed, a
  <2> QED
    BY <2>2, <2>3
<1> QED
  BY <1>2, <1>3 DEF Believed

-----------------------------------------------------------------------------
(* Thread p moves on, and the window believes b of the script.             *)
LEMMA ToldCurrent ==
  ASSUME IInv, Current, NEW p \in Threads, NEW b \in BOOLEAN, Told(p, b), board' = board,
         ui.session = "disconnected" => ~b,
         ui.session # "disconnected" =>
           /\ Absent(pipe', p)
           /\ \A c \in BOOLEAN : Believed(c, ui.running, pipe, th) => Believed(c, b, pipe', th)
  PROVE  Current'
<1>1. PICK v \in UiStates :
        v.running = b /\ (v.session = "disconnected" <=> ui.session = "disconnected") /\ Stepped(p, v)
  BY DEF Told
<1>2. board.running \in BOOLEAN
  BY DEF IInv, Typed, BoardStates
<1>3. CASE ui'.session = "disconnected"
  <2>1. wire' = <<>>
    BY <1>1, <1>3 DEF Stepped
  <2>2. ~ui'.running
    BY <1>1, <1>3 DEF Stepped, Current
  <2> QED
    BY <1>3, <2>1, <2>2 DEF Current
<1>4. CASE ui'.session # "disconnected"
  <2>1. ui.session # "disconnected" /\ ui'.running = b /\ \A q \in Threads \ {p} : th'[q] = th[q]
    BY <1>1, <1>4 DEF Stepped
  <2>2. /\ \A i \in 1 .. Len(wire') : wire'[i].to = "none" => wire'[i].m # "stopScript"
        /\ LateRun(wire) => LateRun(wire')
    <3>1. CASE wire' = wire
      BY <3>1 DEF Current
    <3>2. CASE wire' = Append(wire, [to |-> p, m |-> Method(th'[p].at)]) /\ th'[p].at \in Answers
      <4> DEFINE x == [to |-> p, m |-> Method(th'[p].at)]
      <4>1. x \in Request /\ x.to # "none"
        BY <3>2, Strangers DEF Request, Method, Methods, Answers
      <4> HIDE DEF x
      <4>2. wire \in Seq(Request)
        BY DEF IInv, Typed
      <4>3. /\ Len(wire') = Len(wire) + 1 /\ Len(wire) \in Nat /\ wire'[Len(wire) + 1] = x
            /\ \A i \in 1 .. Len(wire) : wire'[i] = wire[i]
        BY <3>2, <4>1, <4>2, Appended DEF x
      <4> QED
        BY <4>1, <4>3 DEF Current, LateRun
    <3> QED
      BY <1>1, <1>4, <3>1, <3>2 DEF Stepped
  <2>3. \A c \in BOOLEAN : Believed(c, ui.running, pipe, th) => Believed(c, ui'.running, pipe', th')
    BY <2>1, BelievedMoved
  <2>4. ui'.session # "disconnected" /\ board'.running = board'.told =>
          \/ Believed(board'.running, ui'.running, pipe', th')
          \/ Believed(FALSE, ui'.running, pipe', th') /\ LateRun(wire')
    BY <1>2, <2>1, <2>2, <2>3 DEF Current
  <2>5. ~board'.there => ~board'.running /\ ~board'.told
    BY DEF Current
  <2> QED
    BY <1>4, <2>2, <2>4, <2>5 DEF Current, Believed, Says, Silent, SaysRuns, SaysEnds, LateRun
<1> QED
  BY <1>3, <1>4

LEMMA MoveCurrent ==
  ASSUME IInv, Current, NEW p \in Threads, Moves(p)
  PROVE  Current'
<1>1. pipe' = pipe /\ board' = board /\ Told(p, ui.running) /\ ui.running \in BOOLEAN
  BY DEF Moves, IInv, Typed, UiStates
<1>2. ui.session # "disconnected" => Absent(pipe', p)
  BY <1>1, NothingAwaited DEF Moves
<1>3. ui.session = "disconnected" => ~ui.running
  BY DEF Current
<1> QED
  BY <1>1, <1>2, <1>3, ToldCurrent

LEMMA WindowCurrent ==
  ASSUME Current, Kin(ui, ui'), UNCHANGED <<th, wire, pipe, board>>
  PROVE  Current'
BY DEF Current, Kin

LEMMA ConnectCurrent ==
  ASSUME IInv, Current, NEW p \in Procs, ConnectBoardRuntime(p)
  PROVE  Current'
<1>1. /\ ui' = [Cancel(ui) EXCEPT !.session = "connected"] /\ board' = FreshBoard /\ pipe' = <<>> /\ wire = <<>>
      /\ UNCHANGED <<th, promise, wire>> /\ ui.session = "disconnected"
  BY DEF ConnectBoardRuntime, IInv, Awaits
<1>2. Cancel(ui) \in UiStates /\ Cancel(ui).running = ui.running /\ ~ui.running
  BY <1>1, CancelKin DEF IInv, Typed, Kin, Current
<1>3. ui'.running = FALSE /\ ui'.session = "connected"
  BY <1>1, <1>2 DEF UiStates
<1>4. board'.running = FALSE /\ board'.there
  BY <1>1 DEF FreshBoard
<1>5. Believed(FALSE, ui'.running, pipe', th')
  BY <1>1, <1>3 DEF Believed
<1>6. \A i \in 1 .. Len(wire') : wire'[i].to = "none" => wire'[i].m # "stopScript"
  BY <1>1
<1>7. /\ ui'.session = "disconnected" => ~ui'.running
      /\ ~board'.there => ~board'.running /\ ~board'.told
      /\ Believed(board'.running, ui'.running, pipe', th')
  BY <1>3, <1>4, <1>5
<1> QED
  BY <1>6, <1>7 DEF Current, Believed, Says, Silent, SaysRuns, SaysEnds, LateRun

LEMMA RejectCurrent ==
  ASSUME IInv, Current, NEW p \in Threads, Reject(p)
  PROVE  Current'
<1>1. ui.session = "disconnected" /\ AnswerTold(p, "failed") /\ UNCHANGED <<pipe, board>>
  BY RejectTold
<1>2. ui.running = FALSE
  BY <1>1 DEF Current, IInv, Typed, UiStates
<1>3. ~TellsRuns(th[p], "failed")
  BY DEF TellsRuns
<1>4. Told(p, FALSE)
  BY <1>1, <1>2, <1>3 DEF AnswerTold
<1> QED
  BY <1>1, <1>4, ToldCurrent

LEMMA DeliverCurrent ==
  ASSUME FlowsHypothesis, IInv, Current, NEW i \in 1 .. Len(pipe), Deliver(i)
  PROVE  Current'
<1> DEFINE x == pipe[1]
           r == RemoveAt(pipe, 1)
<1>1. i = 1
  <2>1. ~(i > 1)
    BY DEF Deliver, FlowsHypothesis
  <2> QED
    BY <2>1
<1>2. /\ 1 \in 1 .. Len(pipe) /\ ui.session # "disconnected" /\ board' = board /\ x \in News
      /\ pipe \in Seq(News) /\ Once(th, wire, pipe) /\ ui.running \in BOOLEAN /\ ui \in UiStates
  BY <1>1, DeliverCases DEF IInv, Typed, Awaits, UiStates
<1>3. Once(th, wire, r) /\ (x.to \in Threads => Absent(r, x.to))
  BY <1>2, RemovedOnce
<1>4. ASSUME NEW new, Heard(x, th, ui.running, new)
      PROVE  \A c \in BOOLEAN : Believed(c, ui.running, pipe, th) => Believed(c, new, r, th)
  BY <1>2, <1>4, BelievedHeard
<1> HIDE DEF r
<1>5. CASE x.to \in Threads /\ pipe' = r /\ AnswerTold(x.to, x.m)
  <2>1. x.to # "event"
    BY <1>5, Strangers
  <2>2. /\ SaysRuns(x, th) <=> TellsRuns(th[x.to], x.m)
        /\ SaysEnds(x, th) <=> TellsEnds(th[x.to], x.m)
        /\ ~(TellsRuns(th[x.to], x.m) /\ TellsEnds(th[x.to], x.m))
    BY <1>5, <2>1 DEF SaysRuns, SaysEnds, TellsRuns, TellsEnds
  <2>3. PICK b \in BOOLEAN : Told(x.to, b) /\ Heard(x, th, ui.running, b)
    <3>1. CASE TellsRuns(th[x.to], x.m)
      BY <1>5, <2>2, <3>1 DEF AnswerTold, Heard, Silent
    <3>2. CASE TellsEnds(th[x.to], x.m)
      BY <1>5, <2>2, <3>2 DEF AnswerTold, Heard, Silent
    <3>3. CASE ~TellsRuns(th[x.to], x.m) /\ ~TellsEnds(th[x.to], x.m)
      BY <1>2, <1>5, <2>2, <3>3 DEF AnswerTold, Heard, Silent
    <3> QED
      BY <3>1, <3>2, <3>3
  <2>4. \A c \in BOOLEAN : Believed(c, ui.running, pipe, th) => Believed(c, b, pipe', th)
    BY <1>4, <1>5, <2>3
  <2> QED
    BY <1>2, <1>3, <1>5, <2>3, <2>4, ToldCurrent
<1>6. CASE /\ pipe' = r /\ UNCHANGED <<th, wire>> /\ ui'.session = ui.session
           /\ Heard(x, th, ui.running, ui'.running)
  <2>1. \A c \in BOOLEAN : Believed(c, ui.running, pipe, th) => Believed(c, ui'.running, pipe', th')
    BY <1>4, <1>6
  <2>2. board.running \in BOOLEAN
    BY DEF IInv, Typed, BoardStates
  <2> QED
    BY <1>2, <1>6, <2>1, <2>2 DEF Current, Believed, Says, Silent, SaysRuns, SaysEnds, LateRun
<1>7. CASE x.to = "event" /\ x.m = "finished" /\ pipe' = r /\ \E p \in Threads : th[p] = Idle /\ Told(p, FALSE)
  <2>1. PICK p \in Threads : th[p] = Idle /\ Told(p, FALSE)
    BY <1>7
  <2>2. Absent(r, p)
    BY <1>3, <2>1, IdleMoves DEF Once, Expected, Absent
  <2>3. Heard(x, th, ui.running, FALSE)
    BY <1>7, Strangers DEF Heard, SaysRuns, SaysEnds, Silent
  <2>4. \A c \in BOOLEAN : Believed(c, ui.running, pipe, th) => Believed(c, FALSE, pipe', th)
    BY <1>4, <1>7, <2>3
  <2> QED
    BY <1>2, <1>7, <2>1, <2>2, <2>4, ToldCurrent
<1>8. CASE pipe' = <<>> /\ wire' = <<>> /\ ui' = Closed(ui)
  <2>1. ui'.session = "disconnected" /\ ~ui'.running
    BY <1>2, <1>8, ClosedState
  <2> QED
    BY <1>2, <1>8, <2>1 DEF Current
<1>9. x.to = "none" => Heard(x, th, ui.running, ui.running)
  BY Strangers DEF Heard, SaysRuns, SaysEnds, Silent
<1>10. x.to = "event" /\ x.m = "started" => Heard(x, th, ui.running, TRUE)
  BY Strangers DEF Heard, SaysRuns, SaysEnds, Silent
<1>11. LET w == SetScriptRunning(ui, TRUE) IN w.running = TRUE /\ w.session = ui.session
  BY <1>2, RunningState
<1> QED
  <2> HIDE DEF x
  <2>1. \/ x.to \in Threads /\ pipe' = r /\ AnswerTold(x.to, x.m)
        \/ x.to = "none" /\ pipe' = r /\ UNCHANGED <<ui, th, promise, wire>>
        \/ /\ x.to = "event" /\ x.m = "started" /\ pipe' = r
           /\ ui' = SetScriptRunning(ui, TRUE) /\ UNCHANGED <<th, promise, wire>>
        \/ x.to = "event" /\ x.m = "finished" /\ pipe' = r /\ \E p \in Threads : th[p] = Idle /\ Told(p, FALSE)
        \/ pipe' = <<>> /\ wire' = <<>> /\ ui' = Closed(ui)
    BY <1>1, DeliverCases DEF x, r
  <2> QED
    BY <1>5, <1>6, <1>7, <1>8, <1>9, <1>10, <1>11, <2>1

-----------------------------------------------------------------------------
(* Messages move, and the board goes on.                                   *)
LEMMA MessagesCurrent ==
  ASSUME Current, UNCHANGED <<ui, th>>,
         \A i \in 1 .. Len(wire') : wire'[i].to = "none" => wire'[i].m # "stopScript",
         ~board'.there => ~board'.running /\ ~board'.told,
         ui.session # "disconnected" /\ board'.running = board'.told =>
           \/ Believed(board'.running, ui.running, pipe', th)
           \/ Believed(FALSE, ui.running, pipe', th) /\ LateRun(wire')
  PROVE  Current'
BY DEF Current, Believed, Says, Silent, SaysRuns, SaysEnds, LateRun

LEMMA TimeoutCurrent ==
  ASSUME FlowsHypothesis, IInv, Current, NEW i \in 1 .. Len(wire), Timeout(i)
  PROVE  Current'
<1> DEFINE x == [to |-> wire[i].to, m |-> "failed"]
           t == th[wire[i].to]
<1>1. /\ wire \in Seq(Request) /\ wire[i] \in Request /\ board' = board /\ UNCHANGED <<ui, th>> /\ pipe = <<>>
      /\ wire' = [wire EXCEPT ![i].to = "none"] /\ pipe' = <<x>> /\ wire[i].to # "none"
  <2>1. wire \in Seq(Request)
    BY DEF IInv, Typed
  <2>2. wire[i] \in Request
    BY <2>1
  <2> QED
    BY <2>1, <2>2 DEF Timeout
<1>2. wire[i].m # "stopScript"
  BY DEF Timeout, Fault, FlowsHypothesis
<1>3. wire[i].to \in Threads
  BY <1>1 DEF Request
<1>4. ui.session # "disconnected" /\ t.at \in Answers /\ wire[i].m = Method(t.at)
  BY <1>1, <1>3 DEF IInv, Awaits, Once, Expected, Named
<1>5. x \in News /\ x.to = wire[i].to /\ x.m = "failed"
  BY <1>3 DEF News, Replies
<1>6. /\ Len(wire') = Len(wire) /\ wire'[i].to = "none" /\ wire'[i].m = wire[i].m
      /\ \A j \in 1 .. Len(wire) : j # i => wire'[j] = wire[j]
  <2>1. wire \in [1 .. Len(wire) -> Request] /\ Len(wire) \in Nat
    BY <1>1
  <2>2. [wire[i] EXCEPT !.to = "none"] \in Request
    BY <1>1 DEF Request
  <2>3. wire' \in [1 .. Len(wire) -> Request]
    BY <1>1, <2>1, <2>2
  <2>4. Len(wire') = Len(wire)
    BY <2>1, <2>3
  <2>5. wire'[i] = [wire[i] EXCEPT !.to = "none"] /\ \A j \in 1 .. Len(wire) : j # i => wire'[j] = wire[j]
    BY <1>1, <2>1
  <2> QED
    BY <1>1, <2>4, <2>5 DEF Request
<1> HIDE DEF x
<1>7. pipe' = Append(pipe, x) /\ pipe \in Seq(News)
  BY <1>1
<1>8. \A j \in 1 .. Len(wire') : wire'[j].to = "none" => wire'[j].m # "stopScript"
  BY <1>2, <1>6 DEF Current
<1>9. LateRun(wire) => LateRun(wire')
  BY <1>1, <1>6 DEF LateRun
<1>10. ~SaysRuns(x, th)
  BY <1>3, <1>5, Strangers DEF SaysRuns, TellsRuns
<1>11. CASE SaysEnds(x, th)
  <2>1. t.at = "run"
    <3>1. t.at \in {"run", "stop"}
      BY <1>3, <1>5, <1>11, Strangers DEF SaysEnds, TellsEnds
    <3> QED
      BY <1>2, <1>4, <3>1 DEF Method
  <2>2. LateRun(wire')
    BY <1>4, <1>6, <2>1 DEF LateRun, Method
  <2>3. Believed(FALSE, ui.running, pipe', th)
    BY <1>5, <1>7, <1>11, BelievedSaid DEF Says
  <2> QED
    BY <1>1, <1>8, <2>2, <2>3, MessagesCurrent DEF Current
<1>12. CASE ~SaysEnds(x, th)
  <2>1. \A c \in BOOLEAN : Believed(c, ui.running, pipe, th) => Believed(c, ui.running, pipe', th)
    BY <1>5, <1>7, <1>10, <1>12, BelievedSilent DEF Silent
  <2>2. board.running \in BOOLEAN
    BY DEF IInv, Typed, BoardStates
  <2> QED
    BY <1>1, <1>4, <1>8, <1>9, <2>1, <2>2, MessagesCurrent DEF Current
<1> QED
  BY <1>11, <1>12

(* A reply: it says what holds, or nothing; the late runs are still late.  *)
LEMMA ReplyCurrent ==
  ASSUME IInv, Current, wire # <<>>, wire' = Tail(wire), UNCHANGED <<ui, th>>,
         NEW x \in News, pipe' = Append(pipe, x), ~board'.there => ~board'.running /\ ~board'.told,
         board'.running \in BOOLEAN,
         board'.running = board'.told =>
           \/ Says(x, th, board'.running)
           \/ Silent(x, th) /\ Believed(board'.running, ui.running, pipe, th)
           \/ /\ Silent(x, th) /\ Head(wire).m # "runScript"
              /\ board'.running = board.running /\ board'.told = board.told
  PROVE  Current'
<1>1. /\ wire \in Seq(Request) /\ pipe \in Seq(News)
      /\ Len(wire) \in Nat \ {0} /\ Len(wire') = Len(wire) - 1 /\ \A i \in 1 .. Len(wire') : wire'[i] = wire[i + 1]
      /\ Head(wire) = wire[1]
  BY DEF IInv, Typed
<1>2. ui.session # "disconnected"
  BY DEF IInv, Awaits
<1>3. \A i \in 1 .. Len(wire') : wire'[i].to = "none" => wire'[i].m # "stopScript"
  BY <1>1 DEF Current
<1>4. Head(wire).m # "runScript" /\ LateRun(wire) => LateRun(wire')
  <2> SUFFICES ASSUME Head(wire).m # "runScript", LateRun(wire) PROVE LateRun(wire')
    OBVIOUS
  <2>1. PICK i \in 1 .. Len(wire) : wire[i].to = "none" /\ wire[i].m = "runScript"
    BY DEF LateRun
  <2>2. i # 1
    BY <1>1, <2>1
  <2>3. i - 1 \in 1 .. Len(wire') /\ wire'[i - 1] = wire[i]
    BY <1>1, <2>2
  <2> QED
    BY <2>1, <2>3 DEF LateRun
<1>5. \A c \in BOOLEAN : Says(x, th, c) => Believed(c, ui.running, pipe', th)
  BY <1>1, BelievedSaid
<1>6. Silent(x, th) => \A c \in BOOLEAN : Believed(c, ui.running, pipe, th) => Believed(c, ui.running, pipe', th)
  BY <1>1, BelievedSilent
<1>7. board'.running = board'.told =>
        \/ Believed(board'.running, ui.running, pipe', th)
        \/ Believed(FALSE, ui.running, pipe', th) /\ LateRun(wire')
  <2> SUFFICES ASSUME board'.running = board'.told
               PROVE  \/ Believed(board'.running, ui.running, pipe', th)
                      \/ Believed(FALSE, ui.running, pipe', th) /\ LateRun(wire')
    OBVIOUS
  <2>1. CASE Says(x, th, board'.running)
    BY <1>5, <2>1
  <2>2. CASE Silent(x, th) /\ Believed(board'.running, ui.running, pipe, th)
    BY <1>6, <2>2
  <2>3. CASE /\ Silent(x, th) /\ Head(wire).m # "runScript"
             /\ board'.running = board.running /\ board'.told = board.told
    <3>1. \/ Believed(board.running, ui.running, pipe, th)
          \/ Believed(FALSE, ui.running, pipe, th) /\ LateRun(wire)
      BY <1>2, <2>3 DEF Current
    <3> QED
      BY <1>4, <1>6, <2>3, <3>1
  <2> QED
    BY <2>1, <2>2, <2>3
<1> QED
  BY <1>2, <1>3, <1>7, MessagesCurrent

(* What the answer to the first request says.                              *)
LEMMA ReplySays ==
  ASSUME IInv, ui.session # "disconnected", wire # <<>>, NEW m \in Replies
  PROVE  LET r == Head(wire)
             x == [to |-> r.to, m |-> m] IN
         /\ x \in News /\ r.to \in Threads \cup {"none"} /\ r.m \in Methods
         /\ r.to = "none" => Silent(x, th)
         /\ r.to \in Threads =>
              /\ r.m = Method(th[r.to].at) /\ th[r.to].at \in Answers
              /\ SaysRuns(x, th) <=> TellsRuns(th[r.to], m)
              /\ SaysEnds(x, th) <=> TellsEnds(th[r.to], m)
<1> DEFINE r == Head(wire)
           x == [to |-> r.to, m |-> m]
<1>1. wire \in Seq(Request) /\ 1 \in 1 .. Len(wire) /\ r = wire[1]
  BY DEF IInv, Typed
<1>2. r \in Request
  BY <1>1
<1>3. r.to \in Threads \cup {"none"} /\ r.m \in Methods
  BY <1>2 DEF Request
<1>4. x \in News /\ x.to = r.to /\ x.m = m
  BY <1>3 DEF News
<1>5. r.to \in Threads => r.m = Method(th[r.to].at) /\ th[r.to].at \in Answers
  BY <1>1 DEF IInv, Awaits, Once, Expected, Named
<1> HIDE DEF r, x
<1>6. r.to = "none" => Silent(x, th)
  BY <1>4, Strangers DEF Silent, SaysRuns, SaysEnds
<1>7. r.to \in Threads =>
        (SaysRuns(x, th) <=> TellsRuns(th[r.to], m)) /\ (SaysEnds(x, th) <=> TellsEnds(th[r.to], m))
  BY <1>4, Strangers DEF SaysRuns, SaysEnds
<1> QED
  BY <1>3, <1>4, <1>5, <1>6, <1>7 DEF r, x

LEMMA BackendCurrent ==
  ASSUME FlowsHypothesis, IInv, Current, Backend
  PROVE  Current'
<1> DEFINE r == Head(wire)
           x(m) == [to |-> r.to, m |-> m]
           t == th[r.to]
<1>1. /\ wire # <<>> /\ wire' = Tail(wire) /\ UNCHANGED <<ui, th>>
      /\ board' \in BoardStates /\ board'.there = board.there /\ board \in BoardStates
  BY BackendCases DEF IInv, Typed
<1>2. /\ ui.session # "disconnected" /\ board'.running \in BOOLEAN /\ board.running \in BOOLEAN
      /\ board.told \in BOOLEAN /\ pipe \in Seq(News)
  BY <1>1 DEF IInv, Awaits, Typed, BoardStates
<1>3. \A m \in Replies :
        /\ x(m) \in News /\ r.to \in Threads \cup {"none"} /\ r.m \in Methods
        /\ r.to = "none" => Silent(x(m), th)
        /\ r.to \in Threads =>
             /\ r.m = Method(t.at) /\ t.at \in Answers
             /\ SaysRuns(x(m), th) <=> TellsRuns(t, m)
             /\ SaysEnds(x(m), th) <=> TellsEnds(t, m)
  BY <1>1, <1>2, ReplySays
<1>4. ~board.there => ~board.running /\ ~board.told
  BY DEF Current
<1>5. \/ r.m = "scriptRunning" /\ Answering(IF board.running THEN "yes" ELSE "no", board.running, board.told)
      \/ /\ r.m = "runScript" /\ board.there /\ board'.running /\ board'.told
         /\ pipe' = Append(Append(pipe, [to |-> "event", m |-> "started"]), x("ok"))
      \/ /\ r.m = "runScript" /\ (Answering("error", FALSE, FALSE) \/ Answering("error", board.running, FALSE))
         /\ ~board.running /\ ~board.told
      \/ r.m = "stopScript" /\ (Answering("ok", FALSE, FALSE) \/ Answering("ok", board.running, FALSE))
      \/ /\ r.m \in {"startPreview", "stopPreview"}
         /\ \E m \in {"ok", "error"} : Answering(m, board.running, board.told)
  BY <1>2, <1>4, BackendCases DEF FlowsHypothesis
<1>6. \A m, running, told : Answering(m, running, told) =>
        pipe' = Append(pipe, x(m)) /\ board'.running = running /\ board'.told = told
  BY DEF Answering
<1> HIDE DEF r, x, t
<1>7. CASE r.m = "scriptRunning" /\ Answering(IF board.running THEN "yes" ELSE "no", board.running, board.told)
  <2> DEFINE m == IF board.running THEN "yes" ELSE "no"
  <2>1. m \in Replies /\ pipe' = Append(pipe, x(m)) /\ board'.running = board.running /\ board'.told = board.told
    BY <1>6, <1>7 DEF Replies
  <2>0. (board.running => m = "yes") /\ (~board.running => m = "no")
    OBVIOUS
  <2> HIDE DEF m
  <2>2. r.to \in Threads => t.at \in {"check", "probe", "ask"}
    BY <1>3, <1>7, <2>1 DEF Method, Answers
  <2>3. r.to \in Threads => Says(x(m), th, board.running) \/ Silent(x(m), th)
    <3>1. CASE board.running
      BY <1>2, <1>3, <2>0, <2>1, <2>2, <3>1 DEF Says, Silent, TellsRuns, TellsEnds
    <3>2. CASE ~board.running
      BY <1>2, <1>3, <2>0, <2>1, <2>2, <3>2 DEF Says, Silent, TellsRuns, TellsEnds
    <3> QED
      BY <3>1, <3>2
  <2>4. Says(x(m), th, board.running) \/ Silent(x(m), th)
    BY <1>3, <2>1, <2>3
  <2>5. r.m # "runScript"
    BY <1>7
  <2> QED
    BY <1>1, <1>2, <1>3, <1>4, <2>1, <2>4, <2>5, ReplyCurrent DEF r
<1>8. CASE /\ r.m = "runScript" /\ board.there /\ board'.running /\ board'.told
           /\ pipe' = Append(Append(pipe, [to |-> "event", m |-> "started"]), x("ok"))
  <2> DEFINE e == [to |-> "event", m |-> "started"]
             s == Append(pipe, e)
  <2>1. e \in News /\ SaysRuns(e, th)
    BY DEF News, Events, SaysRuns
  <2>2. "ok" \in Replies
    BY DEF Replies
  <2>3. SaysRuns(x("ok"), th) \/ Silent(x("ok"), th)
    <3>1. CASE r.to = "none"
      BY <1>3, <2>2, <3>1
    <3>2. CASE r.to \in Threads
      <4>1. t.at = "run"
        BY <1>3, <1>8, <2>2, <3>2 DEF Method, Answers
      <4> QED
        BY <1>3, <2>2, <3>2, <4>1 DEF TellsRuns
    <3> QED
      BY <1>3, <2>2, <3>1, <3>2
  <2> HIDE DEF e
  <2>4. s \in Seq(News) /\ Believed(TRUE, ui.running, s, th)
    BY <1>2, <2>1, BelievedSaid, Appended DEF Says
  <2>5. pipe' = Append(s, x("ok")) /\ x("ok") \in News
    BY <1>3, <1>8, <2>2 DEF e
  <2> HIDE DEF s
  <2>6. Believed(TRUE, ui.running, pipe', th)
    BY <2>3, <2>4, <2>5, BelievedSaid, BelievedSilent DEF Says
  <2>7. board'.running = TRUE
    BY <1>2, <1>8
  <2>8. Believed(board'.running, ui.running, pipe', th)
    BY <2>6, <2>7
  <2>9. \A i \in 1 .. Len(wire') : wire'[i].to = "none" => wire'[i].m # "stopScript"
    <3>1. wire \in Seq(Request)
      BY DEF IInv, Typed
    <3>2. \A i \in 1 .. Len(wire') : i + 1 \in 1 .. Len(wire) /\ wire'[i] = wire[i + 1]
      BY <1>1, <3>1
    <3> QED
      BY <3>2 DEF Current
  <2> QED
    BY <1>1, <1>8, <2>8, <2>9, MessagesCurrent
<1>9. CASE /\ r.m = "runScript" /\ (Answering("error", FALSE, FALSE) \/ Answering("error", board.running, FALSE))
           /\ ~board.running /\ ~board.told
  <2>1. /\ "error" \in Replies /\ pipe' = Append(pipe, x("error")) /\ board'.running = FALSE /\ board'.told = FALSE
    BY <1>2, <1>6, <1>9 DEF Replies
  <2>2. board.running = FALSE /\ board.told = FALSE
    BY <1>2, <1>9
  <2>3. Believed(FALSE, ui.running, pipe, th)
    BY <1>2, <2>2 DEF Current
  <2>4. SaysEnds(x("error"), th) \/ Silent(x("error"), th)
    <3>1. CASE r.to = "none"
      BY <1>3, <2>1, <3>1
    <3>2. CASE r.to \in Threads
      <4>1. t.at = "run"
        BY <1>3, <1>9, <2>1, <3>2 DEF Method, Answers
      <4> QED
        BY <1>3, <2>1, <3>2, <4>1 DEF TellsRuns, TellsEnds, Silent
    <3> QED
      BY <1>3, <2>1, <3>1, <3>2
  <2>5. Says(x("error"), th, board'.running) \/ (Silent(x("error"), th) /\ Believed(board'.running, ui.running, pipe, th))
    BY <2>1, <2>3, <2>4 DEF Says
  <2> QED
    BY <1>1, <1>2, <1>3, <2>1, <2>5, ReplyCurrent DEF r
<1>10. CASE r.m = "stopScript" /\ (Answering("ok", FALSE, FALSE) \/ Answering("ok", board.running, FALSE))
  <2>1. "ok" \in Replies /\ pipe' = Append(pipe, x("ok")) /\ board'.told = FALSE
    BY <1>6, <1>10 DEF Replies
  <2>2. r.to \in Threads
    <3>1. wire \in Seq(Request) /\ 1 \in 1 .. Len(wire) /\ r = wire[1]
      BY <1>1 DEF IInv, Typed, r
    <3>2. r.to # "none"
      BY <1>10, <3>1 DEF Current
    <3> QED
      BY <1>3, <2>1, <3>2
  <2>3. t.at = "stop"
    BY <1>3, <1>10, <2>1, <2>2 DEF Method, Answers
  <2>4. SaysEnds(x("ok"), th)
    BY <1>3, <2>1, <2>2, <2>3 DEF TellsEnds
  <2>5. board'.running = board'.told => Says(x("ok"), th, board'.running)
    BY <2>1, <2>4 DEF Says
  <2>6. ~board'.there => ~board'.running /\ ~board'.told
    <3>1. board'.running = FALSE \/ board'.running = board.running
      BY <1>6, <1>10
    <3> QED
      BY <1>1, <1>4, <2>1, <3>1
  <2> QED
    BY <1>1, <1>2, <1>3, <2>1, <2>5, <2>6, ReplyCurrent
<1>11. CASE /\ r.m \in {"startPreview", "stopPreview"}
            /\ \E m \in {"ok", "error"} : Answering(m, board.running, board.told)
  <2>1. PICK m \in {"ok", "error"} : Answering(m, board.running, board.told)
    BY <1>11
  <2>2. m \in Replies /\ pipe' = Append(pipe, x(m)) /\ board'.running = board.running /\ board'.told = board.told
    BY <1>6, <2>1 DEF Replies
  <2>3. Silent(x(m), th)
    <3>1. CASE r.to = "none"
      BY <1>3, <2>2, <3>1
    <3>2. CASE r.to \in Threads
      <4>1. t.at \in {"start", "clear", "clear2"}
        BY <1>3, <1>11, <2>2, <3>2 DEF Method, Answers
      <4> QED
        BY <1>3, <2>2, <3>2, <4>1 DEF TellsRuns, TellsEnds, Silent
    <3> QED
      BY <1>3, <2>2, <3>1, <3>2
  <2>4. r.m # "runScript"
    BY <1>11
  <2> QED
    BY <1>1, <1>2, <1>3, <1>4, <2>2, <2>3, <2>4, ReplyCurrent DEF r
<1> QED
  BY <1>5, <1>7, <1>8, <1>9, <1>10, <1>11

LEMMA BoardCurrent ==
  ASSUME FlowsHypothesis, IInv, Current, ScriptEnds \/ Poller \/ BoardLost
  PROVE  Current'
<1>1. board \in BoardStates /\ pipe \in Seq(News) /\ UNCHANGED <<ui, th, wire>>
  BY DEF IInv, Typed, ScriptEnds, Poller, BoardLost
<1>2. \A i \in 1 .. Len(wire') : wire'[i].to = "none" => wire'[i].m # "stopScript"
  BY <1>1 DEF Current
<1>3. CASE ScriptEnds
  <2>1. board.running = TRUE /\ board.told = TRUE /\ board.there
    BY <1>1, <1>3 DEF ScriptEnds, Fault, FlowsHypothesis, BoardStates, Current
  <2>2. board'.running = FALSE /\ board'.told = TRUE /\ board'.there
    BY <1>1, <1>3, <2>1 DEF ScriptEnds, BoardStates
  <2> QED
    BY <1>1, <1>2, <2>2, MessagesCurrent
<1>4. ASSUME NEW m \in Events, pipe' = Append(pipe, [to |-> "event", m |-> m]),
             board'.running \in BOOLEAN, board'.running <=> m = "started",
             ~board'.there => ~board'.running /\ ~board'.told
      PROVE  Current'
  <2> DEFINE x == [to |-> "event", m |-> m]
  <2>1. x \in News /\ (IF m = "started" THEN SaysRuns(x, th) ELSE SaysEnds(x, th))
    BY DEF News, Events, SaysRuns, SaysEnds
  <2> HIDE DEF x
  <2>2. Says(x, th, board'.running)
    BY <1>4, <2>1 DEF Says
  <2>3. Believed(board'.running, ui.running, pipe', th)
    BY <1>1, <1>4, <2>1, <2>2, BelievedSaid DEF x
  <2> QED
    BY <1>1, <1>2, <1>4, <2>3, MessagesCurrent
<1>5. CASE Poller
  <2> DEFINE m == IF board.running THEN "started" ELSE "finished"
  <2>1. pipe' = Append(pipe, [to |-> "event", m |-> m]) /\ m \in Events /\ board.running # board.told
    BY <1>5 DEF Poller, Events
  <2>2. board'.running = board.running /\ board'.running \in BOOLEAN /\ board'.there = board.there
    BY <1>1, <1>5 DEF Poller, BoardStates
  <2>3. board'.running <=> m = "started"
    BY <2>2
  <2>4. board.there
    BY <1>1, <2>1 DEF Current, BoardStates
  <2> HIDE DEF m
  <2> QED
    BY <1>4, <2>1, <2>2, <2>3, <2>4
<1>6. CASE BoardLost
  <2>1. pipe' = Append(pipe, [to |-> "event", m |-> "lost"]) /\ "lost" \in Events
    BY <1>6 DEF BoardLost, Events
  <2>2. board'.running = FALSE /\ board'.told = FALSE
    BY <1>6 DEF BoardLost, FreshBoard
  <2> QED
    BY <1>4, <2>1, <2>2
<1> QED
  BY <1>3, <1>5, <1>6

-----------------------------------------------------------------------------
LEMMA InitCurrent == Init => Current
<1> SUFFICES ASSUME Init PROVE Current
  OBVIOUS
<1>1. ui.running = FALSE /\ board.running = FALSE /\ board.there /\ wire = <<>> /\ pipe = <<>>
  BY DEF Init, FreshBoard
<1>2. Believed(FALSE, ui.running, pipe, th)
  BY <1>1 DEF Believed
<1>3. ui.session = "connected"
  BY DEF Init
<1>4. \A i \in 1 .. Len(wire) : wire[i].to = "none" => wire[i].m # "stopScript"
  BY <1>1
<1>5. Believed(board.running, ui.running, pipe, th)
  BY <1>1, <1>2
<1> QED
  BY <1>1, <1>3, <1>4, <1>5 DEF Current

LEMMA NextCurrent ==
  ASSUME FlowsHypothesis, IInv, Current, [Next]_vars
  PROVE  Current'
<1>1. CASE Next
  BY <1>1, StepCases, MoveCurrent, WindowCurrent, ConnectCurrent, DeliverCurrent,
     RejectCurrent, TimeoutCurrent,
     BackendCurrent, BoardCurrent
<1>2. CASE UNCHANGED vars
  BY <1>2, MessagesCurrent DEF vars, Current
<1> QED
  BY <1>1, <1>2

(* When nothing is under way the window knows whether a script runs:       *)
(* answers and events are dealt with in the order in which they were sent, *)
(* whoever waits for them, and what is lost with a session is known.       *)
THEOREM RunningIsKnown ==
  ASSUME FlowsHypothesis
  PROVE  Spec => []RunningIsCurrent
<1>1. IInv /\ Current => RunningIsCurrent
  <2> SUFFICES ASSUME IInv, Current, AtRest PROVE ui.running = board.running
    BY DEF RunningIsCurrent
  <2>1. wire = <<>> /\ pipe = <<>> /\ board.running = board.told /\ ui.session # "disconnected"
    BY DEF AtRest
  <2>2. ~LateRun(wire)
    BY <2>1 DEF LateRun
  <2>3. Believed(board.running, ui.running, pipe, th)
    BY <2>1, <2>2 DEF Current
  <2> QED
    BY <2>1, <2>3 DEF Believed
<1>2. Init => Current
  BY InitCurrent
<1>3. IInv /\ Current /\ [Next]_vars => Current'
  BY NextCurrent
<1> QED
  BY <1>1, <1>2, <1>3, Invariant, PTL DEF Spec

-----------------------------------------------------------------------------
(* Whether the window shows a preview when everything on its way has       *)
(* arrived: it does now and no answer will clear it, or a start that was   *)
(* answered will show one, and nothing after that will clear it.           *)
Hides(x, T) == x.to \in Threads /\ T[x.to].at \in {"clear", "clear2"}
Shows(x, T) == x.to \in Threads /\ T[x.to].at = "start" /\ x.m = "ok"
Seen(on, s, T) ==
  \/ on /\ \A i \in 1 .. Len(s) : ~Hides(s[i], T)
  \/ \E i \in 1 .. Len(s) : Shows(s[i], T) /\ \A j \in i + 1 .. Len(s) : ~Hides(s[j], T)
On == ui.session = "streaming"

(* A stop of the preview that timed out and that the backend has yet to    *)
(* take.                                                                   *)
LateStop(w) == \E i \in 1 .. Len(w) : w[i].to = "none" /\ w[i].m = "stopPreview"
NoLateStart(w) == \A i \in 1 .. Len(w) : w[i].to = "none" => w[i].m # "startPreview"

(* What the board streams is shown, is about to be, or is about to end.    *)
Followed ==
  /\ NoLateStart(wire)
  /\ ui.session # "disconnected" /\ board.streaming => Seen(On, pipe, th) \/ LateStop(wire)

(* No start of the preview that works after its request timed out.         *)
StreamHypothesis == "slow start" \notin Faults

LEMMA SeenMoved ==
  ASSUME NEW on, NEW new, on => new, NEW s, NEW T, NEW U, NEW p, Absent(s, p),
         \A q \in Threads \ {p} : U[q] = T[q], Seen(on, s, T)
  PROVE  Seen(new, s, U)
<1>1. \A i \in 1 .. Len(s) : (Hides(s[i], U) <=> Hides(s[i], T)) /\ (Shows(s[i], U) <=> Shows(s[i], T))
  BY DEF Absent, Hides, Shows
<1>2. CASE on /\ \A i \in 1 .. Len(s) : ~Hides(s[i], T)
  BY <1>1, <1>2 DEF Seen
<1>3. CASE \E i \in 1 .. Len(s) : Shows(s[i], T) /\ \A j \in i + 1 .. Len(s) : ~Hides(s[j], T)
  <2>1. PICK i \in 1 .. Len(s) : Shows(s[i], T) /\ \A j \in i + 1 .. Len(s) : ~Hides(s[j], T)
    BY <1>3
  <2>2. \A j \in i + 1 .. Len(s) : j \in 1 .. Len(s)
    OBVIOUS
  <2>3. Shows(s[i], U) /\ \A j \in i + 1 .. Len(s) : ~Hides(s[j], U)
    BY <1>1, <2>1, <2>2
  <2> QED
    BY <2>3 DEF Seen
<1> QED
  BY <1>2, <1>3 DEF Seen

(* A message that comes last: it hides nothing, or it shows the preview.   *)
LEMMA SeenAppended ==
  ASSUME NEW on, NEW s \in Seq(News), NEW T, NEW x \in News,
         Shows(x, T) \/ (Seen(on, s, T) /\ ~Hides(x, T))
  PROVE  Seen(on, Append(s, x), T)
<1> DEFINE a == Append(s, x)
<1>1. Len(a) = Len(s) + 1 /\ Len(s) \in Nat /\ (\A i \in 1 .. Len(s) : a[i] = s[i]) /\ a[Len(s) + 1] = x
  BY Appended
<1> HIDE DEF a
<1>2. CASE Shows(x, T)
  <2>1. Len(s) + 1 \in 1 .. Len(a) /\ \A j \in Len(s) + 1 + 1 .. Len(a) : ~Hides(a[j], T)
    BY <1>1
  <2> QED
    BY <1>1, <1>2, <2>1 DEF Seen, a
<1>3. CASE on /\ (\A i \in 1 .. Len(s) : ~Hides(s[i], T)) /\ ~Hides(x, T)
  <2>1. \A i \in 1 .. Len(a) : ~Hides(a[i], T)
    BY <1>1, <1>3
  <2> QED
    BY <1>3, <2>1 DEF Seen, a
<1>4. CASE /\ \E i \in 1 .. Len(s) : Shows(s[i], T) /\ \A j \in i + 1 .. Len(s) : ~Hides(s[j], T)
           /\ ~Hides(x, T)
  <2>1. PICK i \in 1 .. Len(s) : Shows(s[i], T) /\ \A j \in i + 1 .. Len(s) : ~Hides(s[j], T)
    BY <1>4
  <2>2. i \in 1 .. Len(a) /\ Shows(a[i], T)
    BY <1>1, <2>1
  <2>3. \A j \in i + 1 .. Len(a) : ~Hides(a[j], T)
    BY <1>1, <1>4, <2>1
  <2> QED
    BY <2>2, <2>3 DEF Seen, a
<1> QED
  BY <1>2, <1>3, <1>4 DEF Seen

(* A message is taken: unless it hides the preview, what was shown stays.  *)
LEMMA SeenTaken ==
  ASSUME NEW on, NEW new, NEW s \in Seq(News), NEW T, NEW i \in 1 .. Len(s),
         on /\ ~Hides(s[i], T) => new, Shows(s[i], T) => i = 1 /\ new, Seen(on, s, T)
  PROVE  Seen(new, RemoveAt(s, i), T)
<1> DEFINE a == RemoveAt(s, i)
<1>1. /\ Len(s) \in Nat /\ Len(a) = Len(s) - 1
      /\ \A j \in 1 .. Len(a) : a[j] = IF j < i THEN s[j] ELSE s[j + 1]
  BY Removed
<1> HIDE DEF a
<1>2. CASE on /\ \A k \in 1 .. Len(s) : ~Hides(s[k], T)
  <2>1. \A k \in 1 .. Len(a) : ~Hides(a[k], T)
    BY <1>1, <1>2
  <2> QED
    BY <1>2, <2>1 DEF Seen, a
<1>3. CASE \E k \in 1 .. Len(s) : Shows(s[k], T) /\ \A j \in k + 1 .. Len(s) : ~Hides(s[j], T)
  <2>1. PICK k \in 1 .. Len(s) : Shows(s[k], T) /\ \A j \in k + 1 .. Len(s) : ~Hides(s[j], T)
    BY <1>3
  <2>2. CASE k = i
    <3>1. i = 1 /\ new
      BY <2>1, <2>2
    <3>2. \A j \in 1 .. Len(a) : ~Hides(a[j], T)
      BY <1>1, <2>1, <2>2, <3>1
    <3> QED
      BY <3>1, <3>2 DEF Seen, a
  <2>3. CASE k < i
    <3>1. k \in 1 .. Len(a) /\ a[k] = s[k]
      BY <1>1, <2>3
    <3>2. \A j \in k + 1 .. Len(a) : ~Hides(a[j], T)
      BY <1>1, <2>1, <2>3
    <3> QED
      BY <2>1, <3>1, <3>2 DEF Seen, a
  <2>4. CASE k > i
    <3>1. k - 1 \in 1 .. Len(a) /\ a[k - 1] = s[k]
      BY <1>1, <2>4
    <3>2. \A j \in (k - 1) + 1 .. Len(a) : ~Hides(a[j], T)
      BY <1>1, <2>1, <2>4
    <3>3. Shows(a[k - 1], T)
      BY <2>1, <3>1
    <3> QED
      BY <3>1, <3>2, <3>3 DEF Seen, a
  <2> QED
    BY <2>2, <2>3, <2>4
<1> QED
  BY <1>2, <1>3 DEF Seen

(* Thread p moves on.                                                      *)
LEMMA ToldFollowed ==
  ASSUME IInv, Followed, NEW p \in Threads, NEW b, Told(p, b), board' = board,
         ui.session # "disconnected" /\ ui'.session # "disconnected" =>
           /\ Absent(pipe', p)
           /\ Seen(On, pipe, th) => Seen(On', pipe', th)
  PROVE  Followed'
<1>1. PICK v \in UiStates :
        v.running = b /\ (v.session = "disconnected" <=> ui.session = "disconnected") /\ Stepped(p, v)
  BY DEF Told
<1>2. CASE ui'.session = "disconnected"
  <2>1. wire' = <<>>
    BY <1>1, <1>2 DEF Stepped
  <2> QED
    BY <1>2, <2>1 DEF Followed, NoLateStart
<1>3. CASE ui'.session # "disconnected"
  <2>1. ui.session # "disconnected" /\ \A q \in Threads \ {p} : th'[q] = th[q]
    BY <1>1, <1>3 DEF Stepped
  <2>2. NoLateStart(wire') /\ (LateStop(wire) => LateStop(wire'))
    <3>1. CASE wire' = wire
      BY <3>1 DEF Followed
    <3>2. CASE wire' = Append(wire, [to |-> p, m |-> Method(th'[p].at)]) /\ th'[p].at \in Answers
      <4> DEFINE x == [to |-> p, m |-> Method(th'[p].at)]
      <4>1. x \in Request /\ x.to # "none"
        BY <3>2, Strangers DEF Request, Method, Methods, Answers
      <4> HIDE DEF x
      <4>2. wire \in Seq(Request)
        BY DEF IInv, Typed
      <4>3. /\ Len(wire') = Len(wire) + 1 /\ Len(wire) \in Nat /\ wire'[Len(wire) + 1] = x
            /\ \A i \in 1 .. Len(wire) : wire'[i] = wire[i]
        BY <3>2, <4>1, <4>2, Appended DEF x
      <4>4. NoLateStart(wire')
        BY <4>1, <4>3 DEF Followed, NoLateStart
      <4>5. LateStop(wire) => LateStop(wire')
        BY <4>3 DEF LateStop
      <4> QED
        BY <4>4, <4>5
    <3> QED
      BY <1>1, <1>3, <3>1, <3>2 DEF Stepped
  <2>3. Seen(On, pipe, th) => Seen(On', pipe', th')
    BY <1>3, <2>1, SeenMoved
  <2>4. board'.streaming => Seen(On', pipe', th') \/ LateStop(wire')
    BY <2>1, <2>2, <2>3 DEF Followed
  <2> QED
    BY <2>2, <2>4 DEF Followed, NoLateStart, LateStop, Seen, Hides, Shows, On
<1> QED
  BY <1>2, <1>3

LEMMA MoveFollowed ==
  ASSUME IInv, Followed, NEW p \in Threads, Moves(p)
  PROVE  Followed'
<1>1. pipe' = pipe /\ board' = board /\ Told(p, ui.running) /\ Keeps
  BY DEF Moves
<1>2. ui.session # "disconnected" => Absent(pipe', p)
  BY <1>1, NothingAwaited DEF Moves
<1>3. ui'.session # "disconnected" /\ Seen(On, pipe, th) => Seen(On', pipe', th)
  BY <1>1 DEF Keeps, Seen, On
<1> QED
  BY <1>1, <1>2, <1>3, ToldFollowed

(* The window or messages change, and the threads stay.                    *)
LEMMA MessagesFollowed ==
  ASSUME UNCHANGED th, NoLateStart(wire'),
         ui'.session # "disconnected" /\ board'.streaming => Seen(On', pipe', th) \/ LateStop(wire')
  PROVE  Followed'
BY DEF Followed, NoLateStart, LateStop, Seen, Hides, Shows, On

LEMMA WindowFollowed ==
  ASSUME Followed, Kin(ui, ui'), UNCHANGED <<th, wire, pipe, board>>
  PROVE  Followed'
<1>1. (ui'.session # "disconnected" => ui.session # "disconnected") /\ (On => On')
  BY DEF Kin, On
<1>2. Seen(On, pipe, th) => Seen(On', pipe', th)
  BY <1>1 DEF Seen
<1> QED
  BY <1>1, <1>2, MessagesFollowed DEF Followed

LEMMA ConnectFollowed ==
  ASSUME IInv, Followed, NEW p \in Procs, ConnectBoardRuntime(p)
  PROVE  Followed'
<1>1. board'.streaming = FALSE /\ UNCHANGED <<th, wire>>
  BY DEF ConnectBoardRuntime, FreshBoard
<1> QED
  BY <1>1, MessagesFollowed DEF Followed

LEMMA RejectFollowed ==
  ASSUME IInv, Followed, NEW p \in Threads, Reject(p)
  PROVE  Followed'
<1>1. ui.session = "disconnected" /\ AnswerTold(p, "failed") /\ UNCHANGED <<pipe, board>>
  BY RejectTold
<1>2. PICK b : Told(p, b)
  BY <1>1 DEF AnswerTold
<1> QED
  BY <1>1, <1>2, ToldFollowed

LEMMA DeliverFollowed ==
  ASSUME IInv, Followed, NEW i \in 1 .. Len(pipe), Deliver(i)
  PROVE  Followed'
<1> DEFINE x == pipe[i]
           r == RemoveAt(pipe, i)
<1>1. /\ ui.session # "disconnected" /\ board' = board /\ x \in News
      /\ pipe \in Seq(News) /\ Once(th, wire, pipe) /\ ui \in UiStates
  BY DeliverCases DEF IInv, Typed, Awaits
<1>2. Once(th, wire, r) /\ (x.to \in Threads => Absent(r, x.to))
  BY <1>1, RemovedOnce
<1>3. x.to \in Threads => i = 1
  <2>1. x.to \in Threads => x.to # "event"
    BY Strangers
  <2>2. i > 1 => x.to = "event"
    BY DEF Deliver
  <2> QED
    BY <2>1, <2>2
<1>4. ASSUME NEW new, On /\ ~Hides(x, th) => new, Shows(x, th) => new
      PROVE  Seen(On, pipe, th) => Seen(new, r, th)
  BY <1>1, <1>3, <1>4, SeenTaken DEF Shows
<1> HIDE DEF r, x
<1>5. CASE x.to \in Threads /\ pipe' = r /\ AnswerTold(x.to, x.m)
  <2>1. PICK b : Told(x.to, b)
    BY <1>5 DEF AnswerTold
  <2>2. ui'.session # "disconnected" => (On /\ ~Hides(x, th) => On') /\ (Shows(x, th) => On')
    BY <1>5 DEF AnswerTold, Keeps, On, Hides, Shows
  <2>3. ui'.session # "disconnected" => (Seen(On, pipe, th) => Seen(On', pipe', th))
    BY <1>4, <1>5, <2>2
  <2> QED
    BY <1>1, <1>2, <1>5, <2>1, <2>3, ToldFollowed
<1>6. CASE x.to \notin Threads /\ pipe' = r /\ UNCHANGED <<th, wire>> /\ ui'.session = ui.session
  <2>1. Seen(On, pipe, th) => Seen(On', pipe', th)
    BY <1>4, <1>6 DEF On, Hides, Shows
  <2> QED
    BY <1>1, <1>6, <2>1, MessagesFollowed DEF Followed
<1>7. CASE x.to \notin Threads /\ pipe' = r /\ Keeps /\ \E p \in Threads : th[p] = Idle /\ Told(p, FALSE)
  <2>1. PICK p \in Threads : th[p] = Idle /\ Told(p, FALSE)
    BY <1>7
  <2>2. Absent(r, p)
    BY <1>2, <2>1, IdleMoves DEF Once, Expected, Absent
  <2>3. ui'.session # "disconnected" => (On => On')
    BY <1>7 DEF Keeps, On
  <2>4. ui'.session # "disconnected" => (Seen(On, pipe, th) => Seen(On', pipe', th))
    BY <1>4, <1>7, <2>3 DEF Shows
  <2> QED
    BY <1>1, <1>7, <2>1, <2>2, <2>4, ToldFollowed
<1>8. CASE pipe' = <<>> /\ wire' = <<>> /\ ui' = Closed(ui) /\ UNCHANGED th
  <2>1. ui'.session = "disconnected" /\ NoLateStart(wire')
    BY <1>1, <1>8, ClosedState DEF NoLateStart
  <2> QED
    BY <1>8, <2>1, MessagesFollowed
<1>9. SetScriptRunning(ui, TRUE).session = ui.session
  BY <1>1, RunningState
<1> QED
  <2>1. \/ x.to \in Threads /\ pipe' = r /\ AnswerTold(x.to, x.m)
        \/ x.to = "none" /\ pipe' = r /\ UNCHANGED <<ui, th, promise, wire>>
        \/ /\ x.to = "event" /\ pipe' = r
           /\ ui' = SetScriptRunning(ui, TRUE) /\ UNCHANGED <<th, promise, wire>>
        \/ x.to = "event" /\ pipe' = r /\ Keeps /\ \E p \in Threads : th[p] = Idle /\ Told(p, FALSE)
        \/ pipe' = <<>> /\ wire' = <<>> /\ ui' = Closed(ui) /\ UNCHANGED th
    BY DeliverCases DEF x, r
  <2> QED
    BY <1>5, <1>6, <1>7, <1>8, <1>9, <2>1, Strangers

LEMMA TimeoutFollowed ==
  ASSUME StreamHypothesis, IInv, Followed, NEW i \in 1 .. Len(wire), Timeout(i)
  PROVE  Followed'
<1> DEFINE x == [to |-> wire[i].to, m |-> "failed"]
<1>1. /\ wire \in Seq(Request) /\ wire[i] \in Request /\ board' = board /\ UNCHANGED <<ui, th>> /\ pipe = <<>>
      /\ wire' = [wire EXCEPT ![i].to = "none"] /\ pipe' = <<x>> /\ wire[i].to # "none"
  <2>1. wire \in Seq(Request)
    BY DEF IInv, Typed
  <2>2. wire[i] \in Request
    BY <2>1
  <2> QED
    BY <2>1, <2>2 DEF Timeout
<1>2. wire[i].m # "startPreview"
  BY DEF Timeout, Fault, StreamHypothesis
<1>3. wire[i].to \in Threads
  BY <1>1 DEF Request
<1>4. ui.session # "disconnected" /\ wire[i].m = Method(th[wire[i].to].at)
  BY <1>1, <1>3 DEF IInv, Awaits, Named
<1>5. x \in News /\ x.to = wire[i].to
  BY <1>3 DEF News, Replies
<1>6. /\ Len(wire') = Len(wire) /\ wire'[i].to = "none" /\ wire'[i].m = wire[i].m
      /\ \A j \in 1 .. Len(wire) : j # i => wire'[j] = wire[j]
  <2>1. wire \in [1 .. Len(wire) -> Request] /\ Len(wire) \in Nat
    BY <1>1
  <2>2. [wire[i] EXCEPT !.to = "none"] \in Request
    BY <1>1 DEF Request
  <2>3. wire' \in [1 .. Len(wire) -> Request]
    BY <1>1, <2>1, <2>2
  <2>4. Len(wire') = Len(wire)
    BY <2>1, <2>3
  <2>5. wire'[i] = [wire[i] EXCEPT !.to = "none"] /\ \A j \in 1 .. Len(wire) : j # i => wire'[j] = wire[j]
    BY <1>1, <2>1
  <2> QED
    BY <1>1, <2>4, <2>5 DEF Request
<1> HIDE DEF x
<1>7. pipe' = Append(pipe, x) /\ pipe \in Seq(News)
  BY <1>1
<1>8. NoLateStart(wire')
  BY <1>2, <1>6 DEF Followed, NoLateStart
<1>9. LateStop(wire) => LateStop(wire')
  BY <1>1, <1>6 DEF LateStop
<1>10. CASE Hides(x, th)
  <2>1. wire'[i].to = "none" /\ wire'[i].m = "stopPreview"
    BY <1>4, <1>5, <1>6, <1>10 DEF Hides, Method
  <2>2. LateStop(wire')
    BY <1>6, <2>1 DEF LateStop
  <2> QED
    BY <1>1, <1>8, <2>2, MessagesFollowed
<1>11. CASE ~Hides(x, th)
  <2>1. Seen(On, pipe, th) => Seen(On, pipe', th)
    BY <1>5, <1>7, <1>11, SeenAppended
  <2>2. On' <=> On
    BY <1>1 DEF On
  <2>3. Seen(On, pipe', th) => Seen(On', pipe', th)
    BY <2>2 DEF Seen
  <2> QED
    BY <1>1, <1>4, <1>8, <1>9, <2>1, <2>3, MessagesFollowed DEF Followed
<1> QED
  BY <1>10, <1>11

(* The backend streams on after a question, and begins with a start.       *)
LEMMA BackendStreams ==
  ASSUME IInv, Backend, board'.streaming
  PROVE  \/ /\ Head(wire).m = "scriptRunning" /\ board.streaming
            /\ \E m \in {"yes", "no"} : pipe' = Append(pipe, [to |-> Head(wire).to, m |-> m])
         \/ Head(wire).m = "startPreview" /\ pipe' = Append(pipe, [to |-> Head(wire).to, m |-> "ok"])
<1> DEFINE r == Head(wire)
           Sets(running, told, streaming) ==
             board' = [board EXCEPT !.running = running, !.told = told, !.streaming = streaming]
<1>1. board \in BoardStates
  BY DEF IInv, Typed
<1>2. \A run, told, streaming : Sets(run, told, streaming) => board'.streaming = streaming
  BY <1>1 DEF BoardStates
<1>3. \/ /\ r.m = "scriptRunning" /\ board' = board
         /\ pipe' = Append(pipe, [to |-> r.to, m |-> IF board.running THEN "yes" ELSE "no"])
      \/ \E run, told : Sets(run, told, FALSE)
      \/ /\ r.m = "startPreview" /\ Sets(board.running, board.told, board.running)
         /\ pipe' = Append(pipe, [to |-> r.to, m |-> IF board.running THEN "ok" ELSE "error"])
  BY DEF Backend
<1> HIDE DEF Sets
<1> QED
  BY <1>2, <1>3

LEMMA BackendFollowed ==
  ASSUME IInv, Followed, Backend
  PROVE  Followed'
<1>1. /\ wire # <<>> /\ wire' = Tail(wire) /\ UNCHANGED <<ui, th>>
      /\ wire \in Seq(Request) /\ pipe \in Seq(News)
  BY BackendCases DEF IInv, Typed
<1>2. /\ Len(wire) \in Nat \ {0} /\ Len(wire') = Len(wire) - 1 /\ \A i \in 1 .. Len(wire') : wire'[i] = wire[i + 1]
      /\ Head(wire) = wire[1] /\ wire[1] \in Request
  BY <1>1
<1>3. \A i \in 1 .. Len(wire') : i + 1 \in 1 .. Len(wire)
  BY <1>2
<1>4. NoLateStart(wire')
  BY <1>2, <1>3 DEF Followed, NoLateStart
<1>5. ui.session # "disconnected" /\ Named(th, wire) /\ Expected(th, wire)
  BY <1>1 DEF IInv, Awaits, Once
<1>6. CASE ~board'.streaming
  BY <1>1, <1>4, <1>6, MessagesFollowed
<1>7. ASSUME Seen(On, pipe', th)
      PROVE  Followed'
  <2>1. Seen(On', pipe', th)
    BY <1>1, <1>7 DEF On, Seen
  <2> QED
    BY <1>1, <1>4, <2>1, MessagesFollowed
<1>8. \A m \in Replies : [to |-> wire[1].to, m |-> m] \in News
  BY <1>2 DEF Request, News
<1>9. CASE /\ wire[1].m = "scriptRunning" /\ board.streaming
           /\ \E m \in {"yes", "no"} : pipe' = Append(pipe, [to |-> wire[1].to, m |-> m])
  <2>1. PICK m \in {"yes", "no"} : pipe' = Append(pipe, [to |-> wire[1].to, m |-> m])
    BY <1>9
  <2> DEFINE x == [to |-> wire[1].to, m |-> m]
  <2>2. x \in News /\ x.to = wire[1].to
    BY <1>8 DEF Replies
  <2>3. ~Hides(x, th)
    <3> SUFFICES ASSUME x.to \in Threads PROVE th[x.to].at \notin {"clear", "clear2"}
      BY DEF Hides
    <3>1. Method(th[x.to].at) = "scriptRunning"
      BY <1>2, <1>5, <1>9, <2>2 DEF Named
    <3> QED
      BY <3>1 DEF Method
  <2> HIDE DEF x
  <2>4. CASE Seen(On, pipe, th)
    <3>1. Seen(On, pipe', th)
      BY <1>1, <2>1, <2>2, <2>3, <2>4, SeenAppended DEF x
    <3> QED
      BY <1>7, <3>1
  <2>5. CASE LateStop(wire)
    <3>1. PICK i \in 1 .. Len(wire) : wire[i].to = "none" /\ wire[i].m = "stopPreview"
      BY <2>5 DEF LateStop
    <3>2. i # 1
      BY <1>9, <3>1
    <3>3. i - 1 \in 1 .. Len(wire') /\ wire'[i - 1] = wire[i]
      BY <1>2, <3>2
    <3>4. LateStop(wire')
      BY <3>1, <3>3 DEF LateStop
    <3> QED
      BY <1>1, <1>4, <3>4, MessagesFollowed
  <2> QED
    BY <1>5, <1>9, <2>4, <2>5 DEF Followed
<1>10. CASE wire[1].m = "startPreview" /\ pipe' = Append(pipe, [to |-> wire[1].to, m |-> "ok"])
  <2> DEFINE x == [to |-> wire[1].to, m |-> "ok"]
  <2>1. x \in News /\ x.to = wire[1].to /\ x.m = "ok"
    BY <1>8 DEF Replies
  <2>2. wire[1].to \in Threads
    BY <1>2, <1>10 DEF Followed, NoLateStart, Request
  <2>3. Method(th[wire[1].to].at) = "startPreview" /\ th[wire[1].to].at \in Answers
    BY <1>2, <1>5, <1>10, <2>2 DEF Named, Expected
  <2>4. Shows(x, th)
    BY <2>1, <2>2, <2>3 DEF Shows, Method, Answers
  <2> HIDE DEF x
  <2>5. Seen(On, pipe', th)
    BY <1>1, <1>10, <2>1, <2>4, SeenAppended DEF x
  <2> QED
    BY <1>7, <2>5
<1> QED
  BY <1>2, <1>6, <1>9, <1>10, BackendStreams

LEMMA BoardFollowed ==
  ASSUME IInv, Followed, ScriptEnds \/ Poller \/ BoardLost
  PROVE  Followed'
<1>1. board \in BoardStates /\ pipe \in Seq(News) /\ UNCHANGED <<ui, th, wire>>
  BY DEF IInv, Typed, ScriptEnds, Poller, BoardLost
<1>2. CASE BoardLost
  <2>1. board'.streaming = FALSE
    BY <1>2 DEF BoardLost, FreshBoard
  <2> QED
    BY <1>1, <2>1, MessagesFollowed DEF Followed
<1>3. CASE ScriptEnds \/ Poller
  <2>1. board'.streaming = board.streaming
    BY <1>1, <1>3 DEF ScriptEnds, Poller, BoardStates
  <2>2. pipe' = pipe \/ \E m \in Events : pipe' = Append(pipe, [to |-> "event", m |-> m])
    BY <1>3 DEF ScriptEnds, Poller, Events
  <2>3. \A m \in Events : LET x == [to |-> "event", m |-> m] IN x \in News /\ ~Hides(x, th)
    BY Strangers DEF News, Hides
  <2>4. Seen(On, pipe, th) => Seen(On, pipe', th)
    BY <1>1, <2>2, <2>3, SeenAppended
  <2>5. Seen(On, pipe', th) => Seen(On', pipe', th)
    BY <1>1 DEF On, Seen
  <2> QED
    BY <1>1, <2>1, <2>4, <2>5, MessagesFollowed DEF Followed
<1> QED
  BY <1>2, <1>3

(* At rest the board does not stream for a window that shows no preview:   *)
(* a start that was answered is shown, also while other answers clear      *)
(* earlier ones, and a stop takes effect even when nobody waits for it.    *)
THEOREM StreamsAreShown ==
  ASSUME StreamHypothesis
  PROVE  Spec => []StreamIsShown
<1>1. IInv /\ Followed => StreamIsShown
  <2> SUFFICES ASSUME IInv, Followed, AtRest, board.streaming PROVE On
    BY DEF StreamIsShown, On
  <2>1. wire = <<>> /\ pipe = <<>> /\ ui.session # "disconnected"
    BY DEF AtRest
  <2>2. ~LateStop(wire)
    BY <2>1 DEF LateStop
  <2>3. Seen(On, pipe, th)
    BY <2>1, <2>2 DEF Followed
  <2> QED
    BY <2>1, <2>3 DEF Seen
<1>2. Init => Followed
  <2> SUFFICES ASSUME Init PROVE Followed
    OBVIOUS
  <2>1. wire = <<>> /\ board.streaming = FALSE
    BY DEF Init, FreshBoard
  <2> QED
    BY <2>1 DEF Followed, NoLateStart
<1>3. IInv /\ Followed /\ [Next]_vars => Followed'
  <2> SUFFICES ASSUME IInv, Followed, [Next]_vars PROVE Followed'
    OBVIOUS
  <2>1. CASE Next
    BY <2>1, StepCases, MoveFollowed, WindowFollowed, ConnectFollowed, DeliverFollowed,
       RejectFollowed, TimeoutFollowed, BackendFollowed, BoardFollowed
  <2>2. CASE UNCHANGED vars
    BY <2>2 DEF vars, Followed, NoLateStart, LateStop, Seen, Hides, Shows, On
  <2> QED
    BY <2>1, <2>2
<1> QED
  BY <1>1, <1>2, <1>3, Invariant, PTL DEF Spec

==============================================================================
