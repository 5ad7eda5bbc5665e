------------------------ MODULE BackendServerProofs ------------------------
(***************************************************************************)
(* Theorems about BackendServer, for any number of workers, setups, boards, *)
(* requests and writes.  The inductive invariant is the conjunction of the  *)
(* named parts below; each part has a lemma that a step preserves it, and   *)
(* the theorems at the end put the parts together.                          *)
(***************************************************************************)
EXTENDS BackendServer, TLAPS

USE SlotsAssumption, BoundsAssumption DEF SlotsAssumption, BoundsAssumption

\* The worker slots, and the state of the request loop and the setups.
WorkersTyped == wpc \in [Workers -> WorkerPCs] /\ wk \in [Workers -> WorkerState]
CallersTyped == pc \in [Callers -> MainPCs \cup SetupPCs] /\ loc \in [Callers -> CallerState]

\* A fresh worker or caller state is well typed.
LEMMA IdleTyped == IdleWorker \in WorkerState /\ IdleCaller \in CallerState
<1>1. 0 \in 0..MaxBoards /\ 0 \in Nat
  OBVIOUS
<1> QED
  BY <1>1, Zenon DEF IdleWorker, IdleCaller, WorkerState, CallerState, PollerActs

\* Replacing one worker's locals by well-typed ones keeps wk well typed.
LEMMA WSetTyped ==
  ASSUME wk \in [Workers -> WorkerState], NEW w \in Workers, NEW r \in WorkerState,
         WSet(w, r)
  PROVE  wk' \in [Workers -> WorkerState]
  BY Zenon DEF WSet

\* Replacing one caller's locals by well-typed ones keeps loc well typed.
LEMMA LSetTyped ==
  ASSUME loc \in [Callers -> CallerState], NEW c \in Callers, NEW r \in CallerState,
         LSet(c, r)
  PROVE  loc' \in [Callers -> CallerState]
  BY Zenon DEF LSet

\* Moving one worker to a control point keeps wpc well typed.
LEMMA WGotoTyped ==
  ASSUME wpc \in [Workers -> WorkerPCs], NEW w \in Workers, NEW l \in WorkerPCs,
         WGoto(w, l)
  PROVE  wpc' \in [Workers -> WorkerPCs]
  BY Zenon DEF WGoto

\* Moving one caller to a control point keeps pc well typed.
LEMMA GotoTyped ==
  ASSUME pc \in [Callers -> MainPCs \cup SetupPCs], NEW c \in Callers,
         NEW l \in MainPCs \cup SetupPCs, Goto(c, l)
  PROVE  pc' \in [Callers -> MainPCs \cup SetupPCs]
  BY Zenon DEF Goto

\* The counters a worker updates stay natural numbers.
LEMMA CountersTyped ==
  ASSUME NEW r \in WorkerState
  PROVE  /\ r.errs + 1 \in Nat /\ r.idle + 1 \in Nat
         /\ r.board \in 0..MaxBoards
         /\ 0 \in Nat
         /\ [r EXCEPT !.errs = 0] \in WorkerState
         /\ [r EXCEPT !.errs = 0].idle = r.idle
<1>1. 0 \in Nat
  OBVIOUS
<1>2. [r EXCEPT !.errs = 0] \in WorkerState
  BY <1>1, Zenon DEF WorkerState
<1> QED
  BY <1>2 DEF WorkerState

\* A worker's own step keeps the workers well typed.
LEMMA WorkerKeepsWorkersTyped ==
  ASSUME TypeOK, NEW w \in Workers, Worker(w)
  PROVE  WorkersTyped'
<1>0. /\ wpc \in [Workers -> WorkerPCs] /\ wk \in [Workers -> WorkerState]
      /\ wk[w] \in WorkerState
  BY DEF TypeOK
<1>1. ASSUME NEW l \in WorkerPCs, NEW r \in WorkerState, WGoto(w, l), WSet(w, r)
      PROVE  WorkersTyped'
  BY <1>0, <1>1, WSetTyped, WGotoTyped DEF WorkersTyped
<1>2. ASSUME NEW l \in WorkerPCs, WGoto(w, l), UNCHANGED wk
      PROVE  WorkersTyped'
  BY <1>0, <1>2, WGotoTyped DEF WorkersTyped
<1>3. {"dead", "loop", "try", "lock", "op", "wait", "report", "lost"} \subseteq WorkerPCs
  BY DEF WorkerPCs
<1>4. ASSUME LinkError(w) PROVE WorkersTyped'
  <2>1. [wk[w] EXCEPT !.errs = wk[w].errs + 1] \in WorkerState
    <3>1. wk[w].errs + 1 \in Nat
      BY <1>0, CountersTyped
    <3> QED BY <1>0, <3>1, Zenon DEF WorkerState
  <2> QED
    BY <1>4, <2>1, <1>1, <1>3 DEF LinkError
<1>5. ASSUME Finished(w) PROVE WorkersTyped'
  <2>1. [wk[w] EXCEPT !.running = FALSE, !.idle = 0, !.errs = 0] \in WorkerState
    BY <1>0, CountersTyped, Zenon DEF WorkerState
  <2> QED
    BY <1>5, <2>1, <1>1, <1>3 DEF Finished
<1>6. ASSUME GiveUp(w) PROVE WorkersTyped'
  BY <1>6, <1>4, <1>5, <1>1, <1>3, IdleTyped DEF GiveUp
<1>7. ASSUME NEW a \in PollerActs \cup PreviewActs, NextOp(w, a) PROVE WorkersTyped'
  <2>1. [Clear(w) EXCEPT !.act = a] \in WorkerState
    BY <1>0, CountersTyped, Zenon DEF WorkerState, Clear
  <2> QED
    BY <1>7, <2>1, <1>1, <1>3 DEF NextOp
<1>8. ASSUME Again(w) PROVE WorkersTyped'
  BY <1>8, <1>1, <1>3, <1>0, CountersTyped DEF Again, Clear
<1>9. CASE WorkerLoop(w)
  <2> DEFINE b == CurrentBoard
             a == IF w \in Previews THEN "size" ELSE IF SupportsTxBuf THEN "drain"
                  ELSE "running"
  <2>1. b \in 0..MaxBoards
    BY DEF CurrentBoard, TypeOK
  <2>2. a \in PollerActs \cup PreviewActs
    BY DEF PollerActs, PreviewActs
  <2> HIDE DEF a, b
  <2>3. [wk[w] EXCEPT !.board = b, !.act = a] \in WorkerState
    BY <1>0, <2>1, <2>2, Zenon DEF WorkerState
  <2>4. \/ WGoto(w, "dead") /\ WSet(w, IdleWorker)
        \/ WGoto(w, "try") /\ WSet(w, [wk[w] EXCEPT !.board = b, !.act = a])
    BY <1>9 DEF WorkerLoop, a, b
  <2> QED
    BY <2>3, <2>4, <1>1, <1>3, IdleTyped
<1>10. CASE WorkerTry(w)
  BY <1>10, <1>6, <1>2, <1>3 DEF WorkerTry
<1>11. CASE WorkerLock(w)
  <2>1. [wk[w] EXCEPT !.wait = fileWriteDone] \in WorkerState
    BY <1>0, Zenon DEF WorkerState, TypeOK
  <2> QED
    BY <2>1, <1>11, <1>6, <1>1, <1>2, <1>3 DEF WorkerLock
<1>12. CASE WorkerWait(w)
  <2>1. [wk[w] EXCEPT !.wait = 0] \in WorkerState
    BY <1>0, CountersTyped, Zenon DEF WorkerState
  <2> QED
    BY <2>1, <1>12, <1>6, <1>1, <1>3 DEF WorkerWait
<1>13. CASE WorkerOp(w)
  <2>1. /\ Clear(w) \in WorkerState /\ Clear(w).idle + 1 \in Nat
    BY <1>0, CountersTyped DEF Clear
  <2>2. /\ [Clear(w) EXCEPT !.running = TRUE, !.idle = 0] \in WorkerState
        /\ [Clear(w) EXCEPT !.idle = Clear(w).idle + 1] \in WorkerState
    BY <2>1, CountersTyped, Zenon DEF WorkerState
  <2>3. \A a \in PollerActs \cup PreviewActs : [wk[w] EXCEPT !.act = a] \in WorkerState
    BY <1>0, Zenon DEF WorkerState
  <2>4. {"running", "settle", "sync", "txsync", "txdrain", "refresh", "dump"}
          \subseteq PollerActs \cup PreviewActs
    BY DEF PollerActs, PreviewActs
  <2>5. CASE PollerOk(w)
    BY <2>5, <2>2, <2>4, <1>1, <1>3, <1>5, <1>7, <1>8 DEF PollerOk
  <2>6. CASE PollerFails(w)
    BY <2>6, <2>3, <2>4, <1>1, <1>3, <1>4, <1>5, <1>8 DEF PollerFails
  <2>7. CASE PreviewOk(w)
    BY <2>7, <2>4, <1>7, <1>8 DEF PreviewOk
  <2>8. CASE PreviewFails(w)
    BY <2>8, <2>3, <2>4, <1>1, <1>3, <1>4 DEF PreviewFails
  <2> QED
    BY <1>13, <2>5, <2>6, <2>7, <2>8 DEF WorkerOp
<1>14. CASE WorkerReport(w) \/ WorkerLost(w)
  BY <1>14, <1>1, <1>2, <1>3, IdleTyped DEF WorkerReport, WorkerLost
<1> QED
  BY <1>9, <1>10, <1>11, <1>12, <1>13, <1>14 DEF Worker

\* Telling a worker to stop keeps the workers well typed.
LEMMA CloseStopTyped ==
  ASSUME WorkersTyped, NEW w \in Workers \cup {None}, CloseStop(w), UNCHANGED wpc
  PROVE  WorkersTyped'
<1>1. CASE w = None
  BY <1>1 DEF CloseStop, WorkersTyped
<1>2. CASE w # None
  <2>1. wk[w] \in WorkerState /\ w \in Workers
    BY <1>2 DEF WorkersTyped
  <2>2. [wk[w] EXCEPT !.stop = TRUE] \in WorkerState
    BY <2>1, Zenon DEF WorkerState
  <2> QED
    BY <1>2, <2>1, <2>2, WSetTyped DEF CloseStop, WorkersTyped
<1> QED
  BY <1>1, <1>2

\* A new goroutine starts well typed.
LEMMA SpawnTyped ==
  ASSUME WorkersTyped, NEW w \in Workers, NEW n \in Nat, NEW assume \in BOOLEAN,
         Spawn(w, n, assume)
  PROVE  WorkersTyped'
<1>1. [IdleWorker EXCEPT !.seq = n, !.running = assume] \in WorkerState
  BY IdleTyped, Zenon DEF WorkerState
<1>2. "loop" \in WorkerPCs
  BY DEF WorkerPCs
<1> QED
  BY <1>1, <1>2, WSetTyped, WGotoTyped DEF Spawn, WorkersTyped

\* Every step keeps the workers well typed.
LEMMA WorkersTypedStep == TypeOK /\ [Next]_vars => WorkersTyped'
<1> SUFFICES ASSUME TypeOK, [Next]_vars PROVE WorkersTyped'
  OBVIOUS
<1>0. /\ WorkersTyped /\ pollerReg \in Workers \cup {None} /\ previewReg \in Workers \cup {None}
      /\ loc[Main] \in CallerState /\ Main \in Callers
      /\ \A c \in Callers : loc[c].seq \in Nat /\ loc[c].assume \in BOOLEAN
  BY DEF TypeOK, WorkersTyped, Workers, Callers, CallerState
<1>1. ASSUME UNCHANGED workers PROVE WorkersTyped'
  BY <1>0, <1>1 DEF WorkersTyped, workers
<1>2. ASSUME NEW c \in Callers, NEW next, StopPreview(c, next) \/ StopPoller(c, next),
             UNCHANGED wpc
      PROVE  WorkersTyped'
  BY <1>0, <1>2, CloseStopTyped DEF StopPreview, StopPoller
<1>3. ASSUME NEW c \in Callers, Starting(c) PROVE WorkersTyped'
  <2>1. CASE StartPoller(c)
    BY <2>1, <1>1, <1>2 DEF StartPoller, workers
  <2>2. CASE PollerGone(c)
    BY <2>2, <1>1 DEF PollerGone
  <2>3. CASE InstallPoller(c)
    BY <2>3, <1>0, SpawnTyped DEF InstallPoller, FreeSlots, Workers
  <2> QED
    BY <1>3, <2>1, <2>2, <2>3 DEF Starting
<1>4. CASE MainStep
  <2>1. CASE MainStop
    BY <2>1, <1>0, <1>2 DEF MainStop
  <2>2. CASE Starting(Main)
    BY <2>2, <1>0, <1>3
  <2>3. CASE InstallPreview
    BY <2>3, <1>0, SpawnTyped DEF InstallPreview, FreeSlots, Workers
  <2>4. CASE \/ MainStopped \/ MainLock
             \/ RunPreflight \/ RunReset \/ RunExec \/ StopScript
             \/ CleanupClose \/ CleanupDetach \/ CleanupTeardown
    BY <2>4, <1>1 DEF MainStopped, MainLock, RunPreflight, RunReset, RunExec, StopScript,
                      CleanupClose, CleanupDetach, CleanupTeardown
  <2>5. CASE \/ ConnectOpen \/ ConnectNegotiate \/ ConnectRejected \/ ConnectLegacy
             \/ ConnectV2 \/ PreviewDecide
             \/ BeginWriteFile \/ WriteFileChunk \/ EndWriteFile \/ Query \/ ExitAfterCleanup
    BY <2>5, <1>1 DEF ConnectOpen, ConnectNegotiate, ConnectRejected, ConnectLegacy,
                      ConnectV2, PreviewDecide, BeginWriteFile, WriteFileChunk,
                      EndWriteFile, Query, ExitAfterCleanup
  <2> QED
    BY <1>4, <2>1, <2>2, <2>3, <2>4, <2>5 DEF MainStep
<1>5. ASSUME NEW c \in Setups, Setup(c) PROVE WorkersTyped'
  BY <1>5, <1>1, <1>3 DEF Setup, SetupLock, SetupExchange, Callers
<1>6. CASE (\E r \in Requests : Receive(r)) \/ (\E b \in Boards : ScriptEnds(b)) \/ Abort
           \/ Exit \/ UNCHANGED vars
  BY <1>6, <1>1 DEF Receive, ScriptEnds, Abort, Exit, vars
<1> QED
  BY <1>4, <1>5, <1>6, WorkerKeepsWorkersTyped DEF Next, Exited

\* Every step keeps the request loop and the setups well typed.
LEMMA CallersTypedStep == TypeOK /\ [Next]_vars => CallersTyped'
<1> SUFFICES ASSUME TypeOK, [Next]_vars PROVE CallersTyped'
  OBVIOUS
<1> DEFINE L == MainPCs \cup SetupPCs
<1>0. /\ CallersTyped /\ Main \in Callers
      /\ \A c \in Callers : loc[c] \in CallerState
      /\ board \in 0..MaxBoards /\ operationSeq \in Nat
      /\ CurrentBoard \in 0..MaxBoards /\ 0 \in 0..MaxBoards
      /\ pollerReg \in Workers \cup {None} /\ previewReg \in Workers \cup {None}
  BY DEF TypeOK, CallersTyped, Workers, Callers, CurrentBoard
<1>1. ASSUME NEW c \in Callers, NEW l \in L, Goto(c, l),
             UNCHANGED loc \/ \E r \in CallerState : LSet(c, r)
      PROVE  CallersTyped'
  BY <1>0, <1>1, GotoTyped, LSetTyped DEF CallersTyped
<1>2. /\ MainPCs \subseteq L /\ SetupPCs \subseteq L
      /\ {"idle", "dead"} \subseteq L
      /\ {"stopPreview", "previewGone", "stopPoller", "pollerStopped", "lock", "locked",
          "reset", "exec", "detach", "teardown", "open", "negotiate", "probeLegacy",
          "probeV2", "startPoller", "pollerGone", "installPoller", "installPreview",
          "exchange", "exit", "scriptStop", "softReset", "settle", "resettle"} \subseteq L
  BY DEF MainPCs, SetupPCs, SetupExchanges
<1> HIDE DEF L
<1>3. ASSUME UNCHANGED <<pc, loc>> PROVE CallersTyped'
  BY <1>0, <1>3 DEF CallersTyped
<1>4. ASSUME NEW c \in Callers, Return(c) PROVE CallersTyped'
  <2>1. (IF c = Main THEN "idle" ELSE "dead") \in L
    BY <1>2
  <2> QED
    BY <1>4, <2>1, <1>1, IdleTyped DEF Return
<1>5. ASSUME NEW c \in Callers, NEW b \in 0..MaxBoards, NEW n \in Nat,
             NEW t \in Workers \cup {None}, NEW a \in BOOLEAN
      PROVE  /\ [loc[c] EXCEPT !.target = t] \in CallerState
             /\ [loc[c] EXCEPT !.seq = n] \in CallerState
             /\ [loc[c] EXCEPT !.seq = n, !.target = t] \in CallerState
             /\ [loc[c] EXCEPT !.board = b] \in CallerState
             /\ [loc[c] EXCEPT !.assume = a] \in CallerState
             /\ [IdleCaller EXCEPT !.board = b, !.seq = n] \in CallerState
  BY <1>0, IdleTyped, Zenon DEF CallerState
<1>6. ASSUME NEW a \in BOOLEAN, ToPoller(a) PROVE CallersTyped'
  BY <1>6, <1>0, <1>1, <1>2, <1>5 DEF ToPoller
<1>7. ASSUME NEW c \in Callers, NEW next \in L, StopPreview(c, next) \/ StopPoller(c, next)
      PROVE  CallersTyped'
  BY <1>0, <1>1, <1>5, <1>7 DEF StopPreview, StopPoller
<1>8. ASSUME NEW c \in Callers, Starting(c) PROVE CallersTyped'
  <2>1. CASE StartPoller(c)
    BY <2>1, <1>2, <1>4, <1>7 DEF StartPoller
  <2>2. CASE PollerGone(c)
    BY <2>2, <1>0, <1>1, <1>2, <1>5 DEF PollerGone
  <2>3. CASE InstallPoller(c)
    BY <2>3, <1>4 DEF InstallPoller
  <2> QED
    BY <1>8, <2>1, <2>2, <2>3 DEF Starting
<1>9. CleanupDone => CallersTyped'
  <2>1. (CASE req = "connect" -> "open" [] req = "eof" -> "exit" [] OTHER -> "idle") \in L
    BY <1>2
  <2> QED
    BY <2>1, <1>0, <1>1, IdleTyped DEF CleanupDone
<1>10. CASE MainStep
  <2>1. CASE MainStop
    BY <2>1, <1>0, <1>2, <1>7 DEF MainStop
  <2>2. CASE Starting(Main)
    BY <2>2, <1>0, <1>8
  <2>3. CASE MainStopped
    <3>1. PICK next : /\ Goto(Main, next) /\ next \in L
                      /\ LSet(Main, IF next = "idle" THEN IdleCaller
                                    ELSE [loc[Main] EXCEPT !.target = None])
      BY <2>3, <1>2 DEF MainStopped
    <3>2. (IF next = "idle" THEN IdleCaller ELSE [loc[Main] EXCEPT !.target = None])
            \in CallerState
      BY <1>0, <1>5, IdleTyped
    <3> QED
      BY <3>1, <3>2, <1>0, <1>1
  <2>4. CASE MainLock \/ RunPreflight \/ RunReset \/ RunExec \/ StopScript
    BY <2>4, <1>0, <1>1, <1>2, <1>4, <1>5, <1>6
       DEF MainLock, RunPreflight, RunReset, RunExec, StopScript
  <2>5. CASE CleanupClose \/ CleanupDetach \/ CleanupTeardown
    BY <2>5, <1>0, <1>1, <1>2, <1>5, <1>9 DEF CleanupClose, CleanupDetach, CleanupTeardown
  <2>6. CASE ConnectOpen
    <3>1. opened < MaxBoards => opened + 1 \in 0..MaxBoards
      BY DEF TypeOK
    <3> QED
      BY <2>6, <3>1, <1>0, <1>1, <1>2, <1>4, <1>5 DEF ConnectOpen
  <2>7. CASE ConnectNegotiate \/ ConnectRejected \/ ConnectLegacy
    BY <2>7, <1>0, <1>1, <1>2, <1>4, <1>6 DEF ConnectNegotiate, ConnectRejected, ConnectLegacy
  <2>8. CASE ConnectV2
    <3>1. PICK c \in Setups :
             /\ pc' = [pc EXCEPT ![Main] = "idle", ![c] = "lock"]
             /\ loc' = [loc EXCEPT ![Main] = IdleCaller,
                                   ![c] = [IdleCaller EXCEPT !.board = b0, !.seq = operationSeq]]
      BY <2>8 DEF ConnectV2, FreeSetups
    <3>2. [IdleCaller EXCEPT !.board = b0, !.seq = operationSeq] \in CallerState
      <4>1. b0 \in 0..MaxBoards
        BY <1>0 DEF b0, CallerState
      <4> QED
        BY <4>1, <1>0, <1>5
    <3>3. c \in Callers /\ c # Main
      BY DEF Callers
    <3>4. pc' \in [Callers -> L]
      <4>1. pc \in [Callers -> L]
        BY <1>0 DEF CallersTyped, L
      <4> QED
        BY <3>1, <3>3, <4>1, <1>2
    <3>5. loc' \in [Callers -> CallerState]
      <4>1. loc \in [Callers -> CallerState]
        BY <1>0 DEF CallersTyped
      <4> DEFINE r == [IdleCaller EXCEPT !.board = b0, !.seq = operationSeq]
      <4> HIDE DEF r
      <4>2. loc' = [loc EXCEPT ![Main] = IdleCaller, ![c] = r]
        BY <3>1 DEF r
      <4>3. r \in CallerState
        BY <3>2 DEF r
      <4> QED
        BY <3>3, <4>1, <4>2, <4>3, IdleTyped
    <3> QED
      BY <3>4, <3>5 DEF CallersTyped, L
  <2>9. CASE PreviewDecide \/ InstallPreview
    BY <2>9, <1>0, <1>1, <1>2, <1>4, <1>5 DEF PreviewDecide, InstallPreview
  <2>10. CASE BeginWriteFile \/ WriteFileChunk \/ EndWriteFile \/ Query \/ ExitAfterCleanup
    BY <2>10, <1>0, <1>1, <1>2, <1>3, <1>4
       DEF BeginWriteFile, WriteFileChunk, EndWriteFile, Query, ExitAfterCleanup, callers
  <2> QED
    BY <1>10, <2>1, <2>2, <2>3, <2>4, <2>5, <2>6, <2>7, <2>8, <2>9, <2>10 DEF MainStep
<1>11. ASSUME NEW c \in Setups, Setup(c) PROVE CallersTyped'
  <2>1. CASE SetupLock(c)
    BY <2>1, <1>1, <1>2, <1>4 DEF SetupLock, Callers
  <2>2. CASE SetupExchange(c)
    <3>1. \A l : SetupNext(l) \subseteq L
      BY <1>2 DEF SetupNext
    <3> QED
      BY <2>2, <3>1, <1>1, <1>4 DEF SetupExchange, Callers
  <2> QED
    BY <1>11, <2>1, <2>2, <1>8 DEF Setup, Callers
<1>12. CASE \E r \in Requests : Receive(r)
  <2>1. PICK l \in L : Goto(Main, l) /\ UNCHANGED loc
    BY <1>12, <1>2 DEF Receive
  <2> QED
    BY <2>1, <1>0, <1>1
<1>13. CASE (\E b \in Boards : ScriptEnds(b)) \/ (\E w \in Workers : Worker(w)) \/ Abort
            \/ Exit \/ UNCHANGED vars
  BY <1>13, <1>3 DEF ScriptEnds, Abort, Exit, vars, callers, Worker, WorkerLoop, WorkerTry,
                     WorkerLock, WorkerWait, WorkerOp, WorkerReport, WorkerLost, WorkerLocal
<1> QED
  BY <1>10, <1>11, <1>12, <1>13 DEF Next, Exited

\* The board a cleanup or a worker is busy with is a real one.
BusyWithABoard ==
  /\ pc[Main] \in {"detach", "teardown"} => loc[Main].board # 0
  /\ \A w \in Workers : wpc[w] \notin {"dead", "loop"} => wk[w].board # 0

\* The variables of the session and of the locks.
SessionTyped ==
  /\ board \in 0..MaxBoards /\ operationSeq \in Nat
  /\ protocolHandler \in {"nil", "legacy", "legacyNoTx", "v2"}
  /\ opened \in 0..MaxBoards /\ closed \subseteq Boards
  /\ script \subseteq Boards /\ ran \subseteq Boards
  /\ endings \in [Boards -> Nat]
OwnersTyped ==
  /\ opMu \in Callers \cup Workers \cup {None}
  /\ pollerReg \in Pollers \cup {None} /\ previewReg \in Previews \cup {None}
  /\ req \in AllRequests
  /\ shutdown \in {"no", "closing", "exited"}
UploadTyped ==
  /\ fileWrite \in [board : 0..MaxBoards, written : Nat]
  /\ fileWriteDone \in Nat /\ channels \in Nat
FlagsTyped == closing \in BOOLEAN /\ uiRunning \in BOOLEAN

\* Every step keeps the session, the ports and their ghosts well typed: a session is
\* only ever ended for a real board (main.go:1353, 1594).
LEMMA SessionTypedStep == TypeOK /\ BusyWithABoard /\ [Next]_vars => SessionTyped'
<1> SUFFICES ASSUME TypeOK, BusyWithABoard, [Next]_vars PROVE SessionTyped'
  OBVIOUS
<1>0. SessionTyped /\ Boards = 1..MaxBoards /\ wk \in [Workers -> WorkerState]
      /\ b0 \in 0..MaxBoards
  BY DEF TypeOK, SessionTyped, Boards, b0, Callers, CallerState
<1>1. ASSUME UNCHANGED <<board, operationSeq, protocolHandler, opened, closed, script, ran,
                         endings>>
      PROVE  SessionTyped'
  BY <1>0, <1>1 DEF SessionTyped
<1>2. ASSUME NEW b \in 0..MaxBoards, b # 0,
             ReportBoardDisconnected(b) \/ EndSession(b),
             operationSeq' \in Nat, UNCHANGED <<opened, script, ran>>
      PROVE  SessionTyped'
  <2>1. CASE UNCHANGED <<board, protocolHandler, closed, endings>>
    BY <2>1, <1>0, <1>2 DEF SessionTyped
  <2>2. CASE EndSession(b)
    <3>1. endings' \in [Boards -> Nat] /\ b \in Boards
      BY <2>2, <1>0, <1>2 DEF EndSession, SessionTyped
    <3> QED
      BY <3>1, <2>2, <1>0, <1>2 DEF EndSession, SessionTyped
  <2> QED
    BY <1>2, <2>1, <2>2 DEF ReportBoardDisconnected
<1>3. ASSUME AbortBoard, UNCHANGED <<opened, script, ran>> PROVE SessionTyped'
  <2>0. operationSeq' \in Nat
    BY <1>0, <1>3 DEF SessionTyped, AbortBoard
  <2>1. CASE board = 0
    BY <2>0, <2>1, <1>0, <1>3, Zenon DEF SessionTyped, AbortBoard
  <2>2. CASE board # 0
    <3>1. EndSession(board) /\ board \in 0..MaxBoards
      BY <2>2, <1>0, <1>3 DEF AbortBoard, SessionTyped
    <3> QED
      BY <3>1, <2>0, <2>2, <1>2, <1>3
  <2> QED
    BY <2>1, <2>2
<1>4. ASSUME NEW c \in Callers, Starting(c) PROVE SessionTyped'
  BY <1>4, <1>1 DEF Starting, StartPoller, PollerGone, InstallPoller, session, ports, ghosts
<1>5. CASE MainStep
  <2>1. CASE MainStop \/ MainStopped \/ MainLock \/ RunPreflight \/ PreviewDecide
             \/ InstallPreview \/ ConnectLegacy \/ ConnectV2 \/ BeginWriteFile
             \/ EndWriteFile \/ Query \/ ExitAfterCleanup
    BY <2>1, <1>1 DEF MainStop, MainStopped, MainLock, RunPreflight, PreviewDecide,
                      InstallPreview, ConnectLegacy, ConnectV2, BeginWriteFile,
                      EndWriteFile, Query, ExitAfterCleanup, session, ports, ghosts
  <2>2. CASE RunReset \/ StopScript
    BY <2>2, <1>0 DEF RunReset, StopScript, SessionTyped, session, ports, ghosts, PortOpen
  <2>3. CASE RunExec
    <3>1. script' \subseteq Boards /\ ran' \subseteq Boards
      <4>1. CASE PortOpen(b0) /\ script' = script \cup {b0} /\ ran' = ran \cup {b0}
        BY <4>1, <1>0 DEF SessionTyped, PortOpen
      <4>2. CASE UNCHANGED <<script, ran>>
        BY <4>2, <1>0 DEF SessionTyped
      <4> QED
        BY <2>3, <4>1, <4>2 DEF RunExec
    <3> QED
      BY <2>3, <3>1, <1>0 DEF RunExec, SessionTyped, session, ports
  <2>4. CASE CleanupClose \/ CleanupDetach
    <3>1. endings' \in [Boards -> Nat] /\ board' \in 0..MaxBoards
      BY <2>4, <1>0 DEF CleanupClose, CleanupDetach, SessionTyped, ghosts
    <3> QED
      BY <3>1, <2>4, <1>0 DEF CleanupClose, CleanupDetach, SessionTyped, ports, ghosts
  <2>5. CASE CleanupTeardown
    <3>1. b0 \in Boards
      BY <2>5, <1>0 DEF CleanupTeardown, BusyWithABoard, b0
    <3>2. script' \subseteq Boards /\ closed' \subseteq Boards
      BY <2>5, <3>1, <1>0 DEF CleanupTeardown, SessionTyped
    <3> QED
      BY <2>5, <3>2, <1>0 DEF CleanupTeardown, SessionTyped
  <2>6. CASE ConnectOpen \/ ConnectNegotiate
    BY <2>6, <1>0 DEF ConnectOpen, ConnectNegotiate, SessionTyped, ports, ghosts
  <2>7. CASE ConnectRejected
    BY <2>7, <1>3 DEF ConnectRejected
  <2>8. CASE WriteFileChunk
    <3>1. CASE UNCHANGED <<session, closed, endings>>
      BY <2>8, <3>1, <1>1 DEF WriteFileChunk, session
    <3>2. CASE ~NoActiveWrite /\ ReportBoardDisconnected(b0) /\ UNCHANGED operationSeq
      <4>1. b0 # 0 /\ operationSeq' \in Nat
        BY <3>2, <1>0 DEF NoActiveWrite, SessionTyped
      <4> QED
        BY <2>8, <3>2, <4>1, <1>0, <1>2 DEF WriteFileChunk
    <3> QED
      BY <2>8, <3>1, <3>2 DEF WriteFileChunk
  <2>9. CASE Starting(Main)
    BY <2>9, <1>4 DEF Callers
  <2> QED
    BY <1>5, <2>1, <2>2, <2>3, <2>4, <2>5, <2>6, <2>7, <2>8, <2>9 DEF MainStep
<1>6. ASSUME NEW c \in Setups, Setup(c) PROVE SessionTyped'
  BY <1>6, <1>0, <1>4 DEF Setup, SetupLock, SetupExchange, SessionTyped, session, ports, ghosts,
                          Callers
<1>7. ASSUME NEW w \in Workers, Worker(w) PROVE SessionTyped'
  <2>1. CASE WorkerLoop(w) \/ WorkerTry(w) \/ WorkerLock(w) \/ WorkerWait(w) \/ WorkerReport(w)
    BY <2>1, <1>1 DEF WorkerLoop, WorkerTry, WorkerLock, WorkerWait, WorkerReport,
                      WorkerLocal, session, ports, ghosts
  <2>2. CASE WorkerOp(w)
    BY <2>2, <1>0 DEF WorkerOp, PollerFails, SessionTyped, ports
  <2>3. CASE WorkerLost(w)
    <3>1. wk[w].board \in 0..MaxBoards /\ wk[w].board # 0
      BY <2>3, <1>0 DEF WorkerLost, BusyWithABoard, WorkerState
    <3> QED
      BY <2>3, <3>1, <1>0, <1>1, <1>2 DEF WorkerLost, SessionTyped
  <2> QED
    BY <1>7, <2>1, <2>2, <2>3 DEF Worker
<1>8. CASE (\E r \in Requests : Receive(r)) \/ Abort
  <2>1. CASE \E r \in Requests : Receive(r)
    <3>1. /\ operationSeq' \in Nat
          /\ UNCHANGED <<board, protocolHandler, opened, closed, script, ran, endings>>
      BY <2>1, <1>0 DEF Receive, SessionTyped, ports, ghosts
    <3> QED
      BY <3>1, <1>0 DEF SessionTyped
  <2> QED
    BY <1>8, <2>1, <1>3 DEF Abort
<1>9. CASE (\E b \in Boards : ScriptEnds(b)) \/ Exit \/ UNCHANGED vars
  BY <1>9, <1>0, <1>1 DEF ScriptEnds, Exit, SessionTyped, session, ports, ghosts, vars
<1> QED
  BY <1>5, <1>6, <1>7, <1>8, <1>9 DEF Next, Exited

\* Every step keeps the owner of opMu and the registered workers well typed.
LEMMA OwnersTypedStep == TypeOK /\ [Next]_vars => OwnersTyped'
<1> SUFFICES ASSUME TypeOK, [Next]_vars PROVE OwnersTyped'
  OBVIOUS
<1>0. OwnersTyped /\ Main \in Callers /\ Requests \subseteq AllRequests
  BY DEF TypeOK, OwnersTyped, Callers
<1>1. ASSUME UNCHANGED <<opMu, pollerReg, previewReg, req, shutdown>> PROVE OwnersTyped'
  BY <1>0, <1>1 DEF OwnersTyped
<1>2. ASSUME opMu' \in {opMu, None} \cup Callers \cup Workers,
             UNCHANGED <<pollerReg, previewReg, req, shutdown>>
      PROVE  OwnersTyped'
  BY <1>0, <1>2 DEF OwnersTyped
<1>3. ASSUME NEW c \in Callers, Starting(c) PROVE OwnersTyped'
  BY <1>3, <1>0 DEF Starting, StartPoller, StopPoller, PollerGone, InstallPoller, Return,
                    FreeSlots, OwnersTyped, regs
<1>4. CASE MainStep
  <2>1. CASE MainStop
    BY <2>1, <1>0 DEF MainStop, StopPreview, StopPoller, OwnersTyped
  <2>2. CASE \/ MainStopped \/ MainLock \/ RunPreflight \/ RunReset \/ RunExec \/ StopScript
             \/ CleanupClose \/ CleanupDetach \/ CleanupTeardown
    BY <2>2, <1>0, <1>2 DEF MainStopped, MainLock, RunPreflight, RunReset, RunExec, StopScript,
                            CleanupClose, CleanupDetach, CleanupTeardown, CleanupDone,
                            Return, ToPoller, regs
  <2>3. CASE \/ ConnectOpen \/ ConnectNegotiate \/ ConnectRejected \/ ConnectLegacy
             \/ ConnectV2 \/ PreviewDecide
    BY <2>3, <1>0, <1>2 DEF ConnectOpen, ConnectNegotiate, ConnectRejected, ConnectLegacy,
                            ConnectV2, PreviewDecide, Return, ToPoller, regs
  <2>4. CASE InstallPreview
    BY <2>4, <1>0 DEF InstallPreview, Return, FreeSlots, OwnersTyped
  <2>5. CASE BeginWriteFile \/ WriteFileChunk \/ EndWriteFile \/ Query
    BY <2>5, <1>0, <1>2 DEF BeginWriteFile, WriteFileChunk, EndWriteFile, Query, Return, regs
  <2>6. CASE ExitAfterCleanup
    BY <2>6, <1>0 DEF ExitAfterCleanup, OwnersTyped, regs, callers
  <2>7. CASE Starting(Main)
    BY <2>7, <1>0, <1>3
  <2> QED
    BY <1>4, <2>1, <2>2, <2>3, <2>4, <2>5, <2>6, <2>7 DEF MainStep
<1>5. ASSUME NEW c \in Setups, Setup(c) PROVE OwnersTyped'
  BY <1>5, <1>2, <1>3 DEF Setup, SetupLock, SetupExchange, Return, regs, Callers
<1>6. ASSUME NEW w \in Workers, Worker(w) PROVE OwnersTyped'
  BY <1>6, <1>2 DEF Worker, WorkerLoop, WorkerTry, WorkerLock, WorkerWait, WorkerOp,
                    WorkerReport, WorkerLost, WorkerLocal, regs, callers
<1>7. CASE (\E r \in Requests : Receive(r)) \/ Abort \/ Exit
  BY <1>7, <1>0 DEF Receive, Abort, Exit, OwnersTyped, regs, callers
<1>8. CASE (\E b \in Boards : ScriptEnds(b)) \/ UNCHANGED vars
  BY <1>8, <1>1 DEF ScriptEnds, regs, callers, vars
<1> QED
  BY <1>4, <1>5, <1>6, <1>7, <1>8 DEF Next, Exited

\* Every step keeps the streamed write's state well typed.
LEMMA UploadTypedStep == TypeOK /\ [Next]_vars => UploadTyped'
<1> SUFFICES ASSUME TypeOK, [Next]_vars PROVE UploadTyped'
  OBVIOUS
<1>0. UploadTyped /\ b0 \in 0..MaxBoards
  BY DEF TypeOK, UploadTyped, b0, Callers, CallerState
<1>1. ASSUME UNCHANGED upload PROVE UploadTyped'
  BY <1>0, <1>1 DEF UploadTyped, upload
<1>2. ASSUME ClearFileWriteLocked PROVE UploadTyped'
  BY <1>0, <1>2 DEF UploadTyped, ClearFileWriteLocked, NoWrite
<1>3. ASSUME NEW c \in Callers, Starting(c) PROVE UploadTyped'
  BY <1>3, <1>1 DEF Starting, StartPoller, PollerGone, InstallPoller
<1>4. CASE MainStep
  <2>1. CASE BeginWriteFile
    <3>1. CASE fileWrite' = [board |-> b0, written |-> 0] /\ channels' = channels + 1
               /\ fileWriteDone' = channels + 1
      BY <3>1, <1>0 DEF UploadTyped
    <3> QED
      BY <2>1, <3>1, <1>1, <1>2 DEF BeginWriteFile
  <2>2. CASE WriteFileChunk
    <3>1. CASE fileWrite' = [fileWrite EXCEPT !.written = @ + 1]
               /\ UNCHANGED <<fileWriteDone, channels>>
      BY <3>1, <1>0 DEF UploadTyped
    <3> QED
      BY <2>2, <3>1, <1>1, <1>2 DEF WriteFileChunk
  <2>3. CASE EndWriteFile \/ CleanupClose
    BY <2>3, <1>2 DEF EndWriteFile, CleanupClose
  <2>4. CASE \/ MainStop \/ MainStopped \/ MainLock \/ RunPreflight \/ RunReset \/ RunExec
             \/ StopScript \/ CleanupDetach \/ CleanupTeardown \/ ConnectOpen
             \/ ConnectNegotiate \/ ConnectRejected \/ ConnectLegacy \/ ConnectV2
             \/ PreviewDecide \/ InstallPreview \/ Query \/ ExitAfterCleanup
    BY <2>4, <1>1 DEF MainStop, MainStopped, MainLock, RunPreflight, RunReset, RunExec,
                      StopScript, CleanupDetach, CleanupTeardown, ConnectOpen,
                      ConnectNegotiate, ConnectRejected, ConnectLegacy, ConnectV2,
                      PreviewDecide, InstallPreview, Query, ExitAfterCleanup
  <2>5. CASE Starting(Main)
    BY <2>5, <1>3 DEF Callers
  <2> QED
    BY <1>4, <2>1, <2>2, <2>3, <2>4, <2>5 DEF MainStep
<1>5. ASSUME NEW c \in Setups, Setup(c) PROVE UploadTyped'
  BY <1>5, <1>1, <1>3 DEF Setup, SetupLock, SetupExchange, Callers
<1>6. ASSUME NEW w \in Workers, Worker(w) PROVE UploadTyped'
  BY <1>6, <1>1 DEF Worker, WorkerLoop, WorkerTry, WorkerLock, WorkerWait, WorkerOp,
                    WorkerReport, WorkerLost, WorkerLocal
<1>7. CASE (\E r \in Requests : Receive(r)) \/ (\E b \in Boards : ScriptEnds(b)) \/ Abort
           \/ Exit \/ UNCHANGED vars
  BY <1>7, <1>1 DEF Receive, ScriptEnds, Abort, Exit, vars
<1> QED
  BY <1>4, <1>5, <1>6, <1>7 DEF Next, Exited

\* Every step keeps the two flags Boolean.
LEMMA FlagsTypedStep == TypeOK /\ [Next]_vars => FlagsTyped'
<1> SUFFICES ASSUME TypeOK, [Next]_vars PROVE FlagsTyped'
  OBVIOUS
<1> DEFINE ClosingOk == closing' = closing \/ closing' = TRUE \/ closing' = FALSE
           RunningOk == uiRunning' = uiRunning \/ uiRunning' = TRUE \/ uiRunning' = FALSE
<1>1. ASSUME ClosingOk, RunningOk PROVE FlagsTyped'
  <2>1. closing \in BOOLEAN /\ uiRunning \in BOOLEAN
    BY DEF TypeOK
  <2> QED
    BY <1>1, <2>1, Zenon DEF FlagsTyped
<1> HIDE DEF ClosingOk, RunningOk
<1>2. ASSUME UNCHANGED <<closing, uiRunning>> PROVE FlagsTyped'
  BY <1>1, <1>2 DEF ClosingOk, RunningOk
<1>3. ASSUME NEW b, ReportBoardDisconnected(b) \/ EndSession(b) PROVE FlagsTyped'
  BY <1>1, <1>3 DEF ReportBoardDisconnected, EndSession, ClosingOk, RunningOk
<1>4. ASSUME AbortBoard PROVE FlagsTyped'
  BY <1>1, <1>3, <1>4 DEF AbortBoard, ClosingOk, RunningOk
<1>5. ASSUME NEW c \in Callers, Starting(c) PROVE FlagsTyped'
  BY <1>5, <1>2 DEF Starting, StartPoller, PollerGone, InstallPoller, session, ghosts
<1>6. CASE MainStep
  <2>1. CASE RunExec \/ StopScript \/ CleanupClose \/ CleanupDetach \/ CleanupTeardown
             \/ ConnectOpen
    BY <2>1, <1>1 DEF RunExec, StopScript, CleanupClose, CleanupDetach, CleanupTeardown,
                      ConnectOpen, ClosingOk, RunningOk, session, ghosts
  <2>2. CASE ConnectRejected
    BY <2>2, <1>4 DEF ConnectRejected
  <2>3. CASE WriteFileChunk
    BY <2>3, <1>2, <1>3 DEF WriteFileChunk, session
  <2>4. CASE \/ MainStop \/ MainStopped \/ MainLock \/ RunPreflight \/ RunReset
             \/ ConnectNegotiate \/ ConnectLegacy \/ ConnectV2 \/ PreviewDecide
             \/ InstallPreview \/ BeginWriteFile \/ EndWriteFile \/ Query \/ ExitAfterCleanup
    BY <2>4, <1>2 DEF MainStop, MainStopped, MainLock, RunPreflight, RunReset,
                      ConnectNegotiate, ConnectLegacy, ConnectV2, PreviewDecide,
                      InstallPreview, BeginWriteFile, EndWriteFile, Query, ExitAfterCleanup,
                      session, ghosts
  <2>5. CASE Starting(Main)
    BY <2>5, <1>5 DEF Callers
  <2> QED
    BY <1>6, <2>1, <2>2, <2>3, <2>4, <2>5 DEF MainStep
<1>7. ASSUME NEW c \in Setups, Setup(c) PROVE FlagsTyped'
  BY <1>7, <1>2, <1>5 DEF Setup, SetupLock, SetupExchange, Callers, session, ghosts
<1>8. ASSUME NEW w \in Workers, Worker(w) PROVE FlagsTyped'
  <2>1. ASSUME GiveUp(w), UNCHANGED closing PROVE FlagsTyped'
    BY <2>1, <1>1 DEF GiveUp, Finished, ClosingOk, RunningOk
  <2>2. CASE WorkerLoop(w)
    BY <2>2, <1>2 DEF WorkerLoop, WorkerLocal, session, ghosts
  <2>3. CASE WorkerTry(w) \/ WorkerLock(w) \/ WorkerWait(w)
    BY <2>3, <2>1, <1>2 DEF WorkerTry, WorkerLock, WorkerWait, session
  <2>4. CASE WorkerOp(w)
    <3>1. CASE PollerOk(w)
      BY <2>4, <3>1, <1>1 DEF WorkerOp, PollerOk, Finished, ClosingOk, RunningOk
    <3>2. CASE PollerFails(w)
      BY <2>4, <3>2, <1>1 DEF WorkerOp, PollerFails, Finished, ClosingOk, RunningOk
    <3>3. CASE UNCHANGED uiRunning
      BY <2>4, <3>3, <1>2 DEF WorkerOp
    <3> QED
      BY <2>4, <3>1, <3>2, <3>3 DEF WorkerOp
  <2>5. CASE WorkerReport(w)
    BY <2>5, <1>2 DEF WorkerReport, WorkerLocal, session, ghosts
  <2>6. CASE WorkerLost(w)
    BY <2>6, <1>2, <1>3 DEF WorkerLost
  <2> QED
    BY <1>8, <2>2, <2>3, <2>4, <2>5, <2>6 DEF Worker
<1>9. CASE (\E r \in Requests : Receive(r)) \/ (\E b \in Boards : ScriptEnds(b)) \/ Exit
           \/ UNCHANGED vars
  BY <1>9, <1>2 DEF Receive, ScriptEnds, Exit, session, ghosts, vars
<1>10. CASE Abort
  BY <1>10, <1>4 DEF Abort
<1> QED
  BY <1>6, <1>7, <1>8, <1>9, <1>10 DEF Next, Exited

\* A cleanup or a worker past its board lookup stays busy with a real board
\* (main.go:1325, 960).
LEMMA BusyWithABoardStep == TypeOK /\ BusyWithABoard /\ [Next]_vars => BusyWithABoard'
<1> SUFFICES ASSUME TypeOK, BusyWithABoard, [Next]_vars PROVE BusyWithABoard'
  OBVIOUS
<1> DEFINE CleanupBusy == pc[Main] \in {"detach", "teardown"} => loc[Main].board # 0
           WorkerBusy(w) == wpc[w] \notin {"dead", "loop"} => wk[w].board # 0
<1>0. /\ wpc \in [Workers -> WorkerPCs] /\ wk \in [Workers -> WorkerState]
      /\ pc \in [Callers -> MainPCs \cup SetupPCs] /\ loc \in [Callers -> CallerState]
      /\ Main \in Callers /\ Main \notin Setups /\ Setups \subseteq Callers
  BY DEF TypeOK, Callers
<1>1. CleanupBusy'
  <2>1. CASE MainStep
    <3>1. CASE CleanupClose \/ CleanupDetach \/ CleanupTeardown
      BY <3>1, <1>0, <2>1 DEF CleanupClose, CleanupDetach, CleanupTeardown, CleanupDone,
                              Goto, LSet, BusyWithABoard, CallerState
    <3>2. CASE MainStop \/ MainStopped \/ MainLock
      BY <3>2, <1>0 DEF MainStop, StopPreview, StopPoller, MainStopped, MainLock, Goto
    <3>3. CASE RunPreflight \/ RunReset \/ RunExec \/ StopScript
      BY <3>3, <1>0 DEF RunPreflight, RunReset, RunExec, StopScript, Return, ToPoller, Goto
    <3>4. CASE ConnectOpen \/ ConnectNegotiate \/ ConnectRejected \/ ConnectLegacy
      BY <3>4, <1>0 DEF ConnectOpen, ConnectNegotiate, ConnectRejected, ConnectLegacy,
                        Return, ToPoller, Goto
    <3>5. CASE ConnectV2
      BY <3>5, <1>0 DEF ConnectV2, FreeSetups
    <3>6. CASE PreviewDecide \/ InstallPreview \/ BeginWriteFile \/ WriteFileChunk
               \/ EndWriteFile \/ Query
      BY <3>6, <1>0 DEF PreviewDecide, InstallPreview, BeginWriteFile, WriteFileChunk,
                        EndWriteFile, Query, Return, Goto
    <3>7. CASE ExitAfterCleanup
      BY <3>7, <1>0 DEF ExitAfterCleanup, callers, BusyWithABoard
    <3>8. CASE Starting(Main)
      BY <3>8, <1>0 DEF Starting, StartPoller, StopPoller, PollerGone, InstallPoller, Return,
                        Goto
    <3> QED
      BY <2>1, <3>1, <3>2, <3>3, <3>4, <3>5, <3>6, <3>7, <3>8 DEF MainStep
  <2>2. ASSUME NEW c \in Setups, Setup(c) PROVE CleanupBusy'
    <3>1. \/ c # Main /\ pc'[Main] = pc[Main] /\ loc'[Main] = loc[Main]
      BY <2>2, <1>0 DEF Setup, SetupLock, SetupExchange, Starting, StartPoller, StopPoller,
                        PollerGone, InstallPoller, Return, Goto, LSet
    <3> QED
      BY <3>1 DEF BusyWithABoard
  <2>3. ASSUME NEW w \in Workers, Worker(w) PROVE CleanupBusy'
    BY <2>3 DEF Worker, WorkerLoop, WorkerTry, WorkerLock, WorkerWait, WorkerOp,
                WorkerReport, WorkerLost, WorkerLocal, callers, BusyWithABoard
  <2>4. CASE \E r \in Requests : Receive(r)
    BY <2>4, <1>0 DEF Receive, Goto, BusyWithABoard
  <2>5. CASE (\E b \in Boards : ScriptEnds(b)) \/ Abort \/ Exit \/ UNCHANGED vars
    BY <2>5 DEF ScriptEnds, Abort, Exit, vars, callers, BusyWithABoard
  <2> QED
    BY <2>1, <2>2, <2>3, <2>4, <2>5 DEF Next, Exited
<1>2. ASSUME NEW u \in Workers PROVE WorkerBusy(u)'
  <2>0. WorkerBusy(u) /\ wk[u] \in WorkerState
    BY <1>0 DEF BusyWithABoard
  <2>1. ASSUME UNCHANGED workers PROVE WorkerBusy(u)'
    BY <2>0, <2>1 DEF workers
  <2>2. ASSUME NEW w \in Workers \cup {None}, CloseStop(w), UNCHANGED wpc
        PROVE  WorkerBusy(u)'
    <3>1. wk'[u].board = wk[u].board
      BY <1>0, <2>2 DEF CloseStop, WSet, WorkerState
    <3> QED
      BY <2>0, <2>2, <3>1
  <2>3. ASSUME NEW w \in Workers, NEW n, NEW assume, Spawn(w, n, assume)
        PROVE  WorkerBusy(u)'
    BY <1>0, <2>0, <2>3 DEF Spawn, WGoto, WSet
  <2>4. ASSUME NEW c \in Callers, Starting(c) PROVE WorkerBusy(u)'
    <3>1. pollerReg \in Workers \cup {None}
      BY DEF TypeOK, Workers
    <3> QED
      BY <2>4, <3>1, <2>1, <2>2, <2>3 DEF Starting, StartPoller, StopPoller, PollerGone,
                                        InstallPoller, FreeSlots, Workers, workers
  <2>5. CASE MainStep
    <3>1. CASE MainStop
      <4>1. pollerReg \in Workers \cup {None} /\ previewReg \in Workers \cup {None}
        BY DEF TypeOK, Workers
      <4> QED
        BY <3>1, <4>1, <2>2 DEF MainStop, StopPreview, StopPoller
    <3>2. CASE InstallPreview
      BY <3>2, <2>3 DEF InstallPreview, FreeSlots, Workers
    <3>3. CASE \/ MainStopped \/ MainLock
               \/ RunPreflight \/ RunReset \/ RunExec \/ StopScript
               \/ CleanupClose \/ CleanupDetach \/ CleanupTeardown
               \/ ConnectOpen \/ ConnectNegotiate \/ ConnectRejected \/ ConnectLegacy
               \/ ConnectV2 \/ PreviewDecide
               \/ BeginWriteFile \/ WriteFileChunk \/ EndWriteFile \/ Query \/ ExitAfterCleanup
      BY <3>3, <2>1 DEF MainStopped, MainLock, RunPreflight, RunReset, RunExec, StopScript,
                        CleanupClose, CleanupDetach, CleanupTeardown, ConnectOpen,
                        ConnectNegotiate, ConnectRejected, ConnectLegacy, ConnectV2,
                        PreviewDecide, BeginWriteFile, WriteFileChunk, EndWriteFile, Query,
                        ExitAfterCleanup
    <3>4. CASE Starting(Main)
      BY <3>4, <1>0, <2>4
    <3> QED
      BY <2>5, <3>1, <3>2, <3>3, <3>4 DEF MainStep
  <2>6. ASSUME NEW c \in Setups, Setup(c) PROVE WorkerBusy(u)'
    BY <2>6, <1>0, <2>1, <2>4 DEF Setup, SetupLock, SetupExchange
  <2>7. ASSUME NEW w \in Workers, Worker(w) PROVE WorkerBusy(u)'
    <3>1. CASE u # w
      <4>1. wpc'[u] = wpc[u] /\ wk'[u] = wk[u]
        BY <1>0, <2>7, <3>1
           DEF Worker, WorkerLoop, WorkerTry, WorkerLock, WorkerWait, WorkerOp, WorkerReport, WorkerLost,
               GiveUp, LinkError, Finished, PollerOk, PollerFails, PreviewOk, PreviewFails,
               NextOp, Again, WGoto, WSet
      <4> QED
        BY <2>0, <4>1
    <3>2. CASE u = w /\ WorkerLoop(w)
      <4>1. \/ wpc'[w] = "dead"
            \/ CurrentBoard # 0
               /\ \E a : wk'[w] = [wk[w] EXCEPT !.board = CurrentBoard, !.act = a]
        BY <1>0, <3>2 DEF WorkerLoop, WGoto, WSet
      <4>2. \A a : [wk[w] EXCEPT !.board = CurrentBoard, !.act = a].board = CurrentBoard
        BY <2>0, <3>2 DEF WorkerState
      <4> QED
        BY <3>2, <4>1, <4>2
    <3>3. CASE u = w /\ ~WorkerLoop(w)
      <4> DEFINE Keeps == wpc'[w] # "dead" => wk'[w].board = wk[w].board
                 Same(r) == r.board = wk[w].board
      <4>1. /\ \A a, i : /\ Same([wk[w] EXCEPT !.errs = i]) /\ Same([wk[w] EXCEPT !.act = a])
                         /\ Same([wk[w] EXCEPT !.wait = i])
                         /\ Same([Clear(w) EXCEPT !.act = a]) /\ Same([Clear(w) EXCEPT !.idle = i])
            /\ Same([wk[w] EXCEPT !.running = FALSE, !.idle = 0, !.errs = 0])
            /\ Same([Clear(w) EXCEPT !.running = TRUE, !.idle = 0])
            /\ Same(Clear(w)) /\ Same(wk[w])
        BY <2>0, <3>3 DEF Clear, WorkerState
      <4>2. ASSUME NEW r, Same(r), WSet(w, r) PROVE Keeps
        BY <1>0, <4>2 DEF WSet
      <4> HIDE DEF Same
      <4>3. ASSUME UNCHANGED wk \/ (wpc'[w] = "dead") PROVE Keeps
        BY <4>3
      <4> HIDE DEF Keeps
      <4>4. ASSUME GiveUp(w) \/ LinkError(w) \/ Finished(w) PROVE Keeps
        BY <1>0, <4>1, <4>2, <4>3, <4>4 DEF GiveUp, LinkError, Finished, WGoto
      <4>5. ASSUME NEW a, NextOp(w, a) \/ Again(w) PROVE Keeps
        BY <4>1, <4>2, <4>5 DEF NextOp, Again
      <4>6. ASSUME WorkerTry(w) \/ WorkerLock(w) \/ WorkerWait(w) PROVE Keeps
        BY <1>0, <2>0, <3>3, <4>1, <4>2, <4>3, <4>4, <4>6
           DEF WorkerTry, WorkerLock, WorkerWait
      <4>7. ASSUME WorkerOp(w) PROVE Keeps
        <5>1. CASE PollerOk(w)
          BY <5>1, <4>1, <4>2, <4>4, <4>5 DEF PollerOk
        <5>2. CASE PollerFails(w)
          BY <5>2, <4>1, <4>2, <4>4, <4>5 DEF PollerFails
        <5>3. CASE PreviewOk(w)
          BY <5>3, <4>5 DEF PreviewOk
        <5>4. CASE PreviewFails(w)
          BY <5>4, <4>1, <4>2, <4>4 DEF PreviewFails
        <5> QED
          BY <4>7, <5>1, <5>2, <5>3, <5>4 DEF WorkerOp
      <4>8. ASSUME WorkerReport(w) \/ WorkerLost(w) PROVE Keeps
        BY <1>0, <4>3, <4>8 DEF WorkerReport, WorkerLost, WGoto
      <4>9. Keeps /\ wpc[w] \notin {"dead", "loop"}
        BY <2>7, <3>3, <4>6, <4>7, <4>8
           DEF Worker, WorkerTry, WorkerLock, WorkerWait, WorkerOp, WorkerReport, WorkerLost
      <4> QED
        BY <2>0, <3>3, <4>9 DEF Keeps
    <3> QED
      BY <3>1, <3>2, <3>3
  <2>8. CASE (\E r \in Requests : Receive(r)) \/ (\E b \in Boards : ScriptEnds(b)) \/ Abort
             \/ Exit \/ UNCHANGED vars
    BY <2>8, <2>1 DEF Receive, ScriptEnds, Abort, Exit, vars
  <2> QED
    BY <2>5, <2>6, <2>7, <2>8 DEF Next, Exited
<1> QED
  BY <1>1, <1>2 DEF BusyWithABoard

\* Initially every variable has its type, and nobody is busy with a board.
LEMMA TypedInit == Init => TypeOK /\ BusyWithABoard
<1> SUFFICES ASSUME Init PROVE TypeOK /\ BusyWithABoard
  OBVIOUS
<1> USE DEF Init
<1>1. SessionTyped /\ UploadTyped
  BY DEF SessionTyped, UploadTyped, NoWrite
<1>2. OwnersTyped /\ WorkersTyped /\ CallersTyped
  BY IdleTyped DEF OwnersTyped, WorkersTyped, CallersTyped, WorkerPCs, MainPCs, SetupPCs,
                   AllRequests
<1>3. FlagsTyped
  BY Zenon DEF FlagsTyped
<1>4. BusyWithABoard
  BY DEF BusyWithABoard, Callers
<1> QED
  BY <1>1, <1>2, <1>3, <1>4
     DEF TypeOK, SessionTyped, UploadTyped, OwnersTyped, WorkersTyped, CallersTyped, FlagsTyped

\* The types are kept by every step, given that cleanups and workers are busy with
\* real boards.
LEMMA TypedStep == TypeOK /\ BusyWithABoard /\ [Next]_vars => TypeOK' /\ BusyWithABoard'
<1> SUFFICES ASSUME TypeOK, BusyWithABoard, [Next]_vars PROVE TypeOK' /\ BusyWithABoard'
  OBVIOUS
<1>1. /\ SessionTyped' /\ UploadTyped' /\ OwnersTyped' /\ WorkersTyped' /\ CallersTyped'
      /\ FlagsTyped'
  BY SessionTypedStep, UploadTypedStep, OwnersTypedStep, WorkersTypedStep, CallersTypedStep,
     FlagsTypedStep
<1>2. BusyWithABoard'
  BY BusyWithABoardStep
<1> QED
  BY <1>1, <1>2
     DEF TypeOK, SessionTyped, UploadTyped, OwnersTyped, WorkersTyped, CallersTyped, FlagsTyped

\* In every behaviour of the backend every variable keeps its type (main.go:22-51).
THEOREM TypeCorrect == Spec => [](TypeOK /\ BusyWithABoard)
<1>1. (TypeOK /\ BusyWithABoard) /\ [Next]_vars => (TypeOK /\ BusyWithABoard)'
  BY TypedStep
<1> QED
  BY TypedInit, <1>1, PTL DEF Spec

(***************************************************************************)
(* Mutual exclusion of board operations, and the protection of uploads.     *)
(***************************************************************************)

\* Initially nobody is inside a board operation.
LEMMA ExclusiveInit == Init => BoardOperationsExclusive
  BY DEF Init, BoardOperationsExclusive, MainHolds, SetupHolds, SetupExchanges, Callers

\* Every step keeps multi-command board operations apart.
LEMMA ExclusiveStep ==
  TypeOK /\ BoardOperationsExclusive /\ [Next]_vars => BoardOperationsExclusive'
<1> SUFFICES ASSUME TypeOK, BoardOperationsExclusive, [Next]_vars
             PROVE  BoardOperationsExclusive'
  OBVIOUS
<1>0. /\ wpc \in [Workers -> WorkerPCs] /\ pc \in [Callers -> MainPCs \cup SetupPCs]
      /\ Main \in Callers /\ Main \notin Setups /\ Setups \subseteq Callers
      /\ Main \notin Workers /\ Callers \cap Workers = {} /\ None \notin Callers \cup Workers
      /\ \A w \in Workers : wpc[w] = "op" => opMu = w
      /\ MainHolds => opMu = Main
      /\ \A c \in Setups : SetupHolds(c) => opMu = c
  BY DEF TypeOK, Callers, BoardOperationsExclusive
<1> USE DEF MainHolds, SetupHolds, SetupExchanges
<1>1. ASSUME UNCHANGED <<opMu, wpc, pc>> PROVE BoardOperationsExclusive'
  BY <1>0, <1>1 DEF BoardOperationsExclusive
\* A caller moves outside board operations, keeps the lock, or gives it back.
<1>2. ASSUME NEW c \in Callers, NEW l, Goto(c, l), UNCHANGED <<opMu, wpc>>,
             \/ opMu = c
             \/ c = Main /\ l \notin {"locked", "reset", "exec", "detach", "teardown", "exchange"}
             \/ c \in Setups /\ l \notin SetupExchanges
      PROVE  BoardOperationsExclusive'
  BY <1>0, <1>2 DEF BoardOperationsExclusive, Goto
<1>3. ASSUME NEW c \in Callers, Return(c),
             \A w \in Workers : wpc'[w] = "op" => wpc[w] = "op"
      PROVE  BoardOperationsExclusive'
  BY <1>0, <1>3 DEF BoardOperationsExclusive, Return, Goto, Callers
<1>4. ASSUME NEW w \in Workers, NEW l, WGoto(w, l), l # "op",
             UNCHANGED opMu \/ (opMu = w /\ opMu' = None), UNCHANGED pc
      PROVE  BoardOperationsExclusive'
  BY <1>0, <1>4 DEF BoardOperationsExclusive, WGoto
<1>5. ASSUME NEW c \in Callers, Starting(c) PROVE BoardOperationsExclusive'
  <2>1. CASE StartPoller(c)
    BY <2>1, <1>0, <1>2, <1>3 DEF StartPoller, StopPoller, Callers
  <2>2. CASE PollerGone(c)
    BY <2>2, <1>0, <1>2 DEF PollerGone, workers, Callers
  <2>3. CASE InstallPoller(c)
    BY <2>3, <1>0, <1>3 DEF InstallPoller, Spawn, FreeSlots, WGoto, Workers
  <2> QED
    BY <1>5, <2>1, <2>2, <2>3 DEF Starting
<1>6. CASE MainStep
  <2>1. CASE MainStop
    BY <2>1, <1>0, <1>2 DEF MainStop, StopPreview, StopPoller
  <2>2. CASE MainStopped
    <3>1. PICK l : Goto(Main, l) /\ l \in {"stopPreview", "lock", "stopPoller", "startPoller",
                                           "idle", "installPreview"}
      BY <2>2 DEF MainStopped
    <3> QED
      BY <2>2, <3>1, <1>0, <1>2 DEF MainStopped, workers
  <2>3. CASE MainLock
    BY <2>3, <1>0 DEF MainLock, Goto, workers, BoardOperationsExclusive
  <2>4. CASE RunPreflight \/ RunReset \/ RunExec \/ StopScript
    BY <2>4, <1>0, <1>2, <1>3
       DEF RunPreflight, RunReset, RunExec, StopScript, ToPoller, Locked, workers
  <2>5. CASE CleanupClose \/ CleanupDetach \/ CleanupTeardown
    <3>1. ASSUME CleanupDone, UNCHANGED wpc, opMu = Main PROVE BoardOperationsExclusive'
      <4>1. PICK l : Goto(Main, l) /\ l \in {"open", "exit", "idle"} /\ opMu' = None
        BY <3>1 DEF CleanupDone
      <4> QED
        BY <3>1, <4>1, <1>0 DEF Goto, BoardOperationsExclusive
    <3> QED
      BY <2>5, <3>1, <1>0, <1>2 DEF CleanupClose, CleanupDetach, CleanupTeardown, workers
  <2>6. CASE ConnectOpen \/ ConnectNegotiate \/ ConnectLegacy
    BY <2>6, <1>0, <1>2, <1>3 DEF ConnectOpen, ConnectNegotiate, ConnectLegacy, ToPoller,
       workers
  <2>7. CASE ConnectRejected
    BY <2>7, <1>0, <1>3 DEF ConnectRejected, workers
  <2>8. CASE ConnectV2
    BY <2>8, <1>0 DEF ConnectV2, FreeSetups, workers, BoardOperationsExclusive
  <2>9. CASE PreviewDecide
    BY <2>9, <1>0, <1>3 DEF PreviewDecide, Locked, Goto, workers, BoardOperationsExclusive
  <2>10. CASE InstallPreview
    BY <2>10, <1>0, <1>3 DEF InstallPreview, Spawn, FreeSlots, WGoto, Workers
  <2>11. CASE BeginWriteFile \/ WriteFileChunk \/ EndWriteFile
    BY <2>11, <1>0, <1>3 DEF BeginWriteFile, WriteFileChunk, EndWriteFile, workers
  <2>12. CASE Query
    BY <2>12, <1>0, <1>2, <1>3 DEF Query, Locked, workers
  <2>13. CASE ExitAfterCleanup
    BY <2>13, <1>1 DEF ExitAfterCleanup, workers, callers
  <2>14. CASE Starting(Main)
    BY <2>14, <1>0, <1>5
  <2> QED
    BY <1>6, <2>1, <2>2, <2>3, <2>4, <2>5, <2>6, <2>7, <2>8, <2>9, <2>10, <2>11, <2>12,
       <2>13, <2>14 DEF MainStep
<1>7. ASSUME NEW c \in Setups, Setup(c) PROVE BoardOperationsExclusive'
  <2>1. CASE SetupLock(c)
    BY <2>1, <1>0, <1>3 DEF SetupLock, Goto, workers, BoardOperationsExclusive
  <2>2. CASE SetupExchange(c)
    BY <2>2, <1>0, <1>2, <1>3 DEF SetupExchange, workers
  <2> QED
    BY <1>7, <2>1, <2>2, <1>0, <1>5 DEF Setup
<1>8. ASSUME NEW w \in Workers, Worker(w) PROVE BoardOperationsExclusive'
  <2>1. ASSUME GiveUp(w) \/ LinkError(w) \/ Finished(w), UNCHANGED <<opMu, pc>>
        PROVE  BoardOperationsExclusive'
    BY <2>1, <1>4 DEF GiveUp, LinkError, Finished
  <2>2. CASE WorkerLoop(w)
    BY <2>2, <1>4 DEF WorkerLoop, WorkerLocal, callers
  <2>3. CASE WorkerTry(w) \/ WorkerWait(w)
    BY <2>3, <2>1, <1>4 DEF WorkerTry, WorkerWait, callers
  <2>4. CASE WorkerLock(w)
    <3>1. CASE WGoto(w, "op") /\ opMu' = w
      BY <2>4, <3>1, <1>0 DEF WorkerLock, WGoto, callers, BoardOperationsExclusive
    <3> QED
      BY <2>4, <3>1, <2>1, <1>4 DEF WorkerLock, callers
  <2>5. CASE WorkerOp(w)
    <3>1. WGoto(w, "try") \/ WGoto(w, "loop") \/ WGoto(w, "report")
      <4>1. CASE PollerOk(w)
        BY <4>1 DEF PollerOk, NextOp, Again, Finished
      <4>2. CASE PollerFails(w)
        BY <4>2 DEF PollerFails, Again, LinkError, Finished
      <4>3. CASE PreviewOk(w) \/ PreviewFails(w)
        BY <4>3 DEF PreviewOk, PreviewFails, NextOp, Again, LinkError
      <4> QED
        BY <2>5, <4>1, <4>2, <4>3 DEF WorkerOp
    <3> QED
      BY <2>5, <3>1, <1>0, <1>4 DEF WorkerOp, callers
  <2>6. CASE WorkerReport(w) \/ WorkerLost(w)
    BY <2>6, <1>4 DEF WorkerReport, WorkerLost, WorkerLocal, callers
  <2> QED
    BY <1>8, <2>2, <2>3, <2>4, <2>5, <2>6 DEF Worker
<1>9. CASE \E r \in Requests : Receive(r)
  <2>1. PICK l : Goto(Main, l) /\ l \in {"stopPreview", "stopPoller", "open", "lock"}
    BY <1>9 DEF Receive
  <2> QED
    BY <1>9, <2>1, <1>0, <1>2 DEF Receive, workers
<1>10. CASE (\E b \in Boards : ScriptEnds(b)) \/ Abort \/ Exit \/ UNCHANGED vars
  BY <1>10, <1>1 DEF ScriptEnds, Abort, Exit, vars, workers, callers
<1> QED
  BY <1>6, <1>7, <1>8, <1>9, <1>10 DEF Next, Exited

\* Multi-command board operations never overlap (main.go:1440, 1367).
THEOREM MutualExclusion == Spec => []BoardOperationsExclusive
<1>1. TypeOK /\ BoardOperationsExclusive /\ [Next]_vars => BoardOperationsExclusive'
  BY ExclusiveStep
<1> QED
  BY ExclusiveInit, <1>1, TypeCorrect, PTL DEF Spec

\* Every step keeps workers and other file requests out of a streamed write, given
\* that board operations exclude each other (main.go:1440, 595).
LEMMA UndisturbedStep ==
  TypeOK /\ BoardOperationsExclusive /\ UploadUndisturbed /\ [Next]_vars => UploadUndisturbed'
<1> SUFFICES ASSUME TypeOK, BoardOperationsExclusive, UploadUndisturbed, [Next]_vars
             PROVE  UploadUndisturbed'
  OBVIOUS
<1>0. /\ wpc \in [Workers -> WorkerPCs] /\ pc \in [Callers -> MainPCs \cup SetupPCs]
      /\ Main \in Callers /\ Main \notin Setups /\ Setups \subseteq Callers
  BY DEF TypeOK, Callers
\* While the request loop holds opMu, no worker is inside a board operation.
<1>1. pc[Main] = "locked" => \A w \in Workers : wpc[w] # "op"
  BY <1>0 DEF BoardOperationsExclusive, MainHolds, Callers
\* The upload does not move, no worker enters, and no exchange of a request begins.
<1>2. ASSUME UNCHANGED fileWrite,
             \A w \in Workers : wpc'[w] = "op" => wpc[w] = "op",
             UNCHANGED <<pc, req>> \/ pc'[Main] # "exchange"
      PROVE  UploadUndisturbed'
  BY <1>2 DEF UploadUndisturbed
<1>3. ASSUME ClearFileWriteLocked PROVE UploadUndisturbed'
  BY <1>3 DEF ClearFileWriteLocked, UploadUndisturbed, NoWrite
<1>4. ASSUME NEW c \in Callers, Starting(c),
             c = Main \/ (UNCHANGED req /\ pc'[Main] = pc[Main])
      PROVE  UploadUndisturbed'
  BY <1>0, <1>2, <1>4
     DEF Starting, StartPoller, StopPoller, PollerGone, InstallPoller, Return, Goto, Spawn,
         FreeSlots, WGoto, Workers, upload, workers, UploadUndisturbed
<1>5. CASE MainStep
  <2>1. CASE Starting(Main)
    BY <2>1, <1>0, <1>4, Zenon
  <2>2. CASE MainStop \/ MainStopped \/ MainLock
    BY <2>2, <1>0, <1>2 DEF MainStop, StopPreview, StopPoller, MainStopped, MainLock, Goto,
                            upload, workers
  <2>3. CASE RunPreflight \/ RunReset \/ RunExec \/ StopScript
    BY <2>3, <1>0, <1>2 DEF RunPreflight, RunReset, RunExec, StopScript, ToPoller, Return,
                            Goto, upload, workers
  <2>4. CASE CleanupClose
    BY <2>4, <1>3 DEF CleanupClose
  <2>5. CASE CleanupDetach \/ CleanupTeardown
    BY <2>5, <1>0, <1>2 DEF CleanupDetach, CleanupTeardown, CleanupDone, Goto, upload, workers
  <2>6. CASE ConnectOpen \/ ConnectNegotiate \/ ConnectRejected \/ ConnectLegacy
    BY <2>6, <1>0, <1>2 DEF ConnectOpen, ConnectNegotiate, ConnectRejected, ConnectLegacy,
                            ToPoller, Return, Goto, upload, workers
  <2>7. CASE ConnectV2
    BY <2>7, <1>0, <1>2 DEF ConnectV2, FreeSetups, upload, workers
  <2>8. CASE PreviewDecide \/ InstallPreview
    BY <2>8, <1>0, <1>2 DEF PreviewDecide, InstallPreview, Return, Goto, Spawn, FreeSlots,
                            WGoto, Workers, upload, workers
  <2>9. CASE BeginWriteFile \/ WriteFileChunk
    BY <2>9, <1>0, <1>1 DEF BeginWriteFile, WriteFileChunk, Locked, Return, Goto, workers,
                            UploadUndisturbed
  <2>10. CASE EndWriteFile
    BY <2>10, <1>3 DEF EndWriteFile
  <2>11. CASE Query
    BY <2>11, <1>0 DEF Query, Locked, Return, Goto, upload, workers, UploadUndisturbed
  <2>12. CASE ExitAfterCleanup
    BY <2>12, <1>2 DEF ExitAfterCleanup, upload, workers, callers
  <2> QED
    BY <1>5, <2>1, <2>2, <2>3, <2>4, <2>5, <2>6, <2>7, <2>8, <2>9, <2>10, <2>11, <2>12
       DEF MainStep
<1>6. ASSUME NEW c \in Setups, Setup(c) PROVE UploadUndisturbed'
  <2>1. UNCHANGED req /\ pc'[Main] = pc[Main] /\ c \in Callers
    BY <1>6, <1>0 DEF Setup, SetupLock, SetupExchange, Starting, StartPoller, StopPoller,
                      PollerGone, InstallPoller, Return, Goto
  <2>2. CASE SetupLock(c) \/ SetupExchange(c)
    BY <2>1, <2>2 DEF SetupLock, SetupExchange, upload, workers, UploadUndisturbed
  <2> QED
    BY <1>6, <2>1, <2>2, <1>4 DEF Setup
<1>7. ASSUME NEW w \in Workers, Worker(w) PROVE UploadUndisturbed'
  <2>1. UNCHANGED <<fileWrite, pc, req>>
    BY <1>7 DEF Worker, WorkerLoop, WorkerTry, WorkerLock, WorkerWait, WorkerOp, WorkerReport,
       WorkerLost,
                WorkerLocal, upload, callers
  <2>2. CASE fileWrite = NoWrite
    BY <2>1, <2>2 DEF UploadUndisturbed, NoWrite
  <2>3. CASE fileWrite # NoWrite
    <3>1. ASSUME NEW l, WGoto(w, l), l # "op"
          PROVE  \A v \in Workers : wpc'[v] = "op" => wpc[v] = "op"
      BY <3>1, <1>0 DEF WGoto
    <3>2. GiveUp(w) \/ LinkError(w) \/ Finished(w) =>
            \A v \in Workers : wpc'[v] = "op" => wpc[v] = "op"
      BY <3>1 DEF GiveUp, LinkError, Finished
    <3>3. ~WorkerOp(w)
      BY <2>3, <1>7 DEF WorkerOp, UploadUndisturbed
    <3>4. \A v \in Workers : wpc'[v] = "op" => wpc[v] = "op"
      BY <1>7, <2>3, <3>1, <3>2, <3>3 DEF Worker, WorkerLoop, WorkerTry, WorkerLock, WorkerWait,
                                        WorkerReport, WorkerLost
    <3> QED
      BY <2>1, <3>4, <1>2
  <2> QED
    BY <2>2, <2>3
<1>8. CASE (\E r \in Requests : Receive(r)) \/ (\E b \in Boards : ScriptEnds(b)) \/ Abort
           \/ Exit \/ UNCHANGED vars
  BY <1>8, <1>0, <1>2 DEF Receive, Goto, ScriptEnds, Abort, Exit, vars, upload, workers, callers
<1> QED
  BY <1>5, <1>6, <1>7, <1>8 DEF Next, Exited

\* A streamed file write is never interleaved with a worker's exchange or with
\* another file system request (main.go:1450, 595).
THEOREM UploadsUndisturbed == Spec => []UploadUndisturbed
<1>1. Init => UploadUndisturbed
  BY DEF Init, UploadUndisturbed
<1>2. TypeOK /\ BoardOperationsExclusive /\ UploadUndisturbed /\ [Next]_vars
        => UploadUndisturbed'
  BY UndisturbedStep
<1> QED
  BY <1>1, <1>2, TypeCorrect, MutualExclusion, PTL DEF Spec

(***************************************************************************)
(* A board's session ends at most once.                                     *)
(***************************************************************************)

\* The strengthening of SessionEndsOnce: the attached board was opened and has not
\* ended yet, nor has any board that is still to be opened.
EndingsAccounted ==
  /\ board <= opened
  /\ \A b \in Boards : /\ endings[b] <= 1
                       /\ (b = board \/ b > opened) => endings[b] = 0

\* Every step keeps the account of ended sessions: only the attached board's session
\* ends, and a port opened later has a number of its own (main.go:1594).
LEMMA EndingsStep == TypeOK /\ BusyWithABoard /\ EndingsAccounted /\ [Next]_vars => EndingsAccounted'
<1> SUFFICES ASSUME TypeOK, BusyWithABoard, EndingsAccounted, [Next]_vars
             PROVE  EndingsAccounted'
  OBVIOUS
<1>0. /\ board \in 0..MaxBoards /\ opened \in 0..MaxBoards /\ endings \in [Boards -> Nat]
      /\ Boards = 1..MaxBoards
  BY DEF TypeOK, Boards
<1>1. ASSUME UNCHANGED <<board, opened, endings>> PROVE EndingsAccounted'
  BY <1>1 DEF EndingsAccounted
<1>2. ASSUME board' = 0, UNCHANGED opened,
             endings' = [endings EXCEPT ![board] = @ + 1] \/ UNCHANGED endings
      PROVE  EndingsAccounted'
  <2>1. \A b \in Boards : b # board => endings'[b] = endings[b]
    BY <1>0, <1>2
  <2>2. board \in Boards => endings[board] = 0 /\ (endings'[board] = 1 \/ endings'[board] = 0)
    BY <1>0, <1>2 DEF EndingsAccounted
  <2> QED
    BY <1>0, <1>2, <2>1, <2>2 DEF EndingsAccounted
<1>3. ASSUME NEW b, ReportBoardDisconnected(b), UNCHANGED opened PROVE EndingsAccounted'
  BY <1>1, <1>2, <1>3 DEF ReportBoardDisconnected, EndSession
<1>4. ASSUME AbortBoard, UNCHANGED opened PROVE EndingsAccounted'
  BY <1>1, <1>2, <1>4 DEF AbortBoard, EndSession
<1>5. ASSUME NEW c, Starting(c) PROVE EndingsAccounted'
  BY <1>1, <1>5 DEF Starting, StartPoller, PollerGone, InstallPoller, session, ports, ghosts
<1>6. CASE MainStep
  <2>1. CASE CleanupDetach
    BY <2>1, <1>1, <1>2 DEF CleanupDetach, ports
  <2>2. CASE ConnectOpen
    <3>1. CASE opened < MaxBoards /\ opened' = opened + 1 /\ board' = opened + 1
               /\ UNCHANGED endings
      BY <3>1, <1>0 DEF EndingsAccounted
    <3> QED
      BY <2>2, <3>1, <1>1 DEF ConnectOpen, ghosts
  <2>3. CASE ConnectRejected
    BY <2>3, <1>4 DEF ConnectRejected
  <2>4. CASE WriteFileChunk
    BY <2>4, <1>1, <1>3 DEF WriteFileChunk, session
  <2>5. CASE Starting(Main)
    BY <2>5, <1>5
  <2>6. CASE \/ MainStop \/ MainStopped \/ MainLock \/ RunPreflight \/ RunReset \/ RunExec
             \/ StopScript \/ CleanupClose \/ CleanupTeardown
             \/ ConnectNegotiate \/ ConnectLegacy \/ ConnectV2
             \/ PreviewDecide \/ InstallPreview \/ BeginWriteFile \/ EndWriteFile \/ Query
             \/ ExitAfterCleanup
    BY <2>6, <1>1 DEF MainStop, MainStopped, MainLock, RunPreflight, RunReset, RunExec,
                      StopScript, CleanupClose, CleanupTeardown, ConnectNegotiate,
                      ConnectLegacy, ConnectV2, PreviewDecide, InstallPreview,
                      BeginWriteFile, EndWriteFile, Query, ExitAfterCleanup,
                      session, ports, ghosts
  <2> QED
    BY <1>6, <2>1, <2>2, <2>3, <2>4, <2>5, <2>6 DEF MainStep
<1>7. ASSUME NEW c \in Setups, Setup(c) PROVE EndingsAccounted'
  BY <1>7, <1>1, <1>5 DEF Setup, SetupLock, SetupExchange, session, ports, ghosts
<1>8. ASSUME NEW w \in Workers, Worker(w) PROVE EndingsAccounted'
  BY <1>8, <1>1, <1>3 DEF Worker, WorkerLoop, WorkerTry, WorkerLock, WorkerWait, WorkerOp,
                          WorkerReport, WorkerLost, WorkerLocal, session, ports, ghosts
<1>9. CASE (\E r \in Requests : Receive(r)) \/ (\E b \in Boards : ScriptEnds(b)) \/ Exit
           \/ UNCHANGED vars
  BY <1>9, <1>1 DEF Receive, ScriptEnds, Exit, session, ports, ghosts, vars
<1>10. CASE Abort
  BY <1>10, <1>4 DEF Abort
<1> QED
  BY <1>6, <1>7, <1>8, <1>9, <1>10 DEF Next, Exited

\* However many goroutines see a board fail, a client hears of at most one
\* disconnect per board (main.go:1594).
THEOREM SessionsEndOnce == Spec => []SessionEndsOnce
<1>1. Init => EndingsAccounted
  BY DEF Init, EndingsAccounted
<1>2. TypeOK /\ BusyWithABoard /\ EndingsAccounted /\ [Next]_vars => EndingsAccounted'
  BY EndingsStep
<1>3. EndingsAccounted => SessionEndsOnce
  BY DEF EndingsAccounted, SessionEndsOnce
<1> QED
  BY <1>1, <1>2, <1>3, TypeCorrect, PTL DEF Spec

(***************************************************************************)
(* The connect setup and the user's script.                                 *)
(***************************************************************************)

\* A setup that still waits for opMu is no younger than the last user operation, and
\* older than the one under way and than any that started a script on its board.
SetupsAreOlder ==
  \A c \in Setups : pc[c] = "lock" =>
    /\ loc[c].seq <= operationSeq
    /\ (pc[Main] # "idle" /\ req \in UserOps) \/ loc[c].board \in ran => loc[c].seq < operationSeq

\* A script is started by a user operation only.
RunsAreOperations == pc[Main] \in {"reset", "exec"} => req \in UserOps

\* The boards the request loop knows were opened, and on the one it is connecting to
\* no script was started yet.
BoardsWereOpened ==
  /\ board <= opened /\ loc[Main].board <= opened /\ \A b \in ran : b <= opened
  /\ pc[Main] \in {"negotiate", "probeLegacy", "probeV2"} => loc[Main].board \notin ran

ScriptsSpared == SetupsAreOlder /\ RunsAreOperations /\ BoardsWereOpened /\ SetupSparesUserScript

\* What the request loop's steps have in common: the setups do not move, and a step
\* that starts a script does so on the loop's board, while it holds opMu.
LEMMA SparedByMain ==
  ASSUME TypeOK, TypeOK', BoardOperationsExclusive, ScriptsSpared,
         \A c \in Setups : pc'[c] = pc[c] /\ loc'[c] = loc[c],
         operationSeq' >= operationSeq,
         ran' = ran \/ (pc[Main] = "exec" /\ ran' = ran \cup {loc[Main].board}),
         \/ pc'[Main] = "idle" \/ (UNCHANGED <<req>> /\ pc[Main] # "idle")
         \/ req' \notin UserOps \/ operationSeq' > operationSeq,
         pc'[Main] \in {"reset", "exec"} => req' \in UserOps,
         opened' >= opened, board' <= opened', loc'[Main].board <= opened',
         pc'[Main] \in {"negotiate", "probeLegacy", "probeV2"} =>
           \/ loc'[Main].board > opened
           \/ loc'[Main].board = loc[Main].board /\ ran' = ran
              /\ pc[Main] \in {"negotiate", "probeLegacy", "probeV2"}
  PROVE  ScriptsSpared'
<1>0. /\ operationSeq \in Nat /\ operationSeq' \in Nat /\ opened \in Nat /\ opened' \in Nat
      /\ \A c \in Setups : loc[c].seq \in Nat
      /\ loc[Main].board \in Nat /\ loc'[Main].board \in Nat /\ ran \subseteq Nat
      /\ Main \in Callers
  BY SMTT(20) DEF TypeOK, Callers, CallerState, Boards
<1>1. SetupsAreOlder'
  <2>1. ASSUME NEW c \in Setups, pc'[c] = "lock"
        PROVE  /\ loc'[c].seq <= operationSeq'
               /\ (pc'[Main] # "idle" /\ req' \in UserOps) \/ loc'[c].board \in ran'
                    => loc'[c].seq < operationSeq'
    <3>1. /\ loc[c].seq <= operationSeq /\ loc'[c] = loc[c]
          /\ (pc[Main] # "idle" /\ req \in UserOps) \/ loc[c].board \in ran
               => loc[c].seq < operationSeq
      BY <2>1 DEF ScriptsSpared, SetupsAreOlder
    <3>2. loc[c].board \in ran' => loc[c].seq < operationSeq
      BY <3>1 DEF ScriptsSpared, RunsAreOperations
    <3>3. pc'[Main] # "idle" /\ req' \in UserOps => loc[c].seq < operationSeq'
      BY <1>0, <3>1
    <3> QED
      BY <1>0, <3>1, <3>2, <3>3
  <2> QED
    BY <2>1 DEF SetupsAreOlder
<1>2. RunsAreOperations'
  BY DEF RunsAreOperations
<1>3. BoardsWereOpened'
  <2>1. \A b \in ran' : b <= opened
    BY <1>0 DEF ScriptsSpared, BoardsWereOpened
  <2>2. \A b \in ran' : b \in Nat
    BY <1>0
  <2> QED
    BY <1>0, <2>1, <2>2 DEF ScriptsSpared, BoardsWereOpened
<1>4. SetupSparesUserScript'
  <2>1. ASSUME NEW c \in Setups, SetupHolds(c) PROVE ran' = ran
    BY <2>1 DEF BoardOperationsExclusive, MainHolds, Callers
  <2> QED
    BY <2>1 DEF ScriptsSpared, SetupSparesUserScript, SetupHolds
<1> QED
  BY <1>1, <1>2, <1>3, <1>4 DEF ScriptsSpared

\* The request loop's board after it set one of its other locals.
LEMMA LocalsKeepBoard ==
  ASSUME NEW r \in CallerState, NEW t, NEW n, NEW a
  PROVE  /\ [r EXCEPT !.target = t].board = r.board
         /\ [r EXCEPT !.seq = n].board = r.board
         /\ [r EXCEPT !.assume = a].board = r.board
         /\ [r EXCEPT !.seq = n, !.target = t].board = r.board
         /\ \A b : [r EXCEPT !.board = b].board = b
         /\ IdleCaller.board = 0
  BY DEF CallerState, IdleCaller

\* Every step of the request loop spares the scripts the user started.
LEMMA SparedMainStep ==
  ASSUME TypeOK, TypeOK', BoardOperationsExclusive, ScriptsSpared, MainStep
  PROVE  ScriptsSpared'
<1>0. /\ pc \in [Callers -> MainPCs \cup SetupPCs] /\ loc \in [Callers -> CallerState]
      /\ Main \in Callers /\ Main \notin Setups /\ Setups \subseteq Callers
      /\ loc[Main] \in CallerState /\ operationSeq \in Nat /\ opened \in Nat
      /\ board \in Nat /\ CurrentBoard \in {0, board} /\ loc[Main].board \in Nat
      /\ board <= opened /\ loc[Main].board <= opened
  BY DEF TypeOK, Callers, CurrentBoard, CallerState, ScriptsSpared, BoardsWereOpened
<1> DEFINE Stay == \A c \in Setups : pc'[c] = pc[c] /\ loc'[c] = loc[c]
           Early == {"negotiate", "probeLegacy", "probeV2"}
           Runs  == {"reset", "exec"}
<1> DEFINE LocFine == /\ \A c \in Setups : loc'[c] = loc[c]
                      /\ loc'[Main].board \in {0, board, loc[Main].board}
<1>a. ASSUME NEW r, LSet(Main, r), r.board \in {0, board, loc[Main].board} PROVE LocFine
  BY <1>0, <1>a DEF LSet
<1>b. UNCHANGED loc => LocFine
  BY <1>0
<1>c. LSet(Main, IdleCaller) => LocFine
  BY <1>0, <1>a, LocalsKeepBoard
<1>d. ASSUME NEW t, LSet(Main, [loc[Main] EXCEPT !.target = t]) PROVE LocFine
  BY <1>0, <1>a, <1>d, LocalsKeepBoard
<1>e. ASSUME NEW n, NEW t, LSet(Main, [loc[Main] EXCEPT !.seq = n, !.target = t]) PROVE LocFine
  <2> DEFINE r == [loc[Main] EXCEPT !.seq = n, !.target = t]
  <2>1. LSet(Main, r)
    BY <1>e
  <2>2. r.board = loc[Main].board
    BY <1>0 DEF CallerState
  <2> HIDE DEF r
  <2> QED
    BY <2>1, <2>2, <1>a
<1>f. ASSUME NEW n, LSet(Main, [loc[Main] EXCEPT !.seq = n]) PROVE LocFine
  BY <1>0, <1>a, <1>f, LocalsKeepBoard
<1>g. ASSUME NEW a, LSet(Main, [loc[Main] EXCEPT !.assume = a]) PROVE LocFine
  BY <1>0, <1>a, <1>g, LocalsKeepBoard
<1>h. ASSUME NEW b \in {0, board}, LSet(Main, [loc[Main] EXCEPT !.board = b]) PROVE LocFine
  BY <1>0, <1>a, <1>h, LocalsKeepBoard
<1> HIDE DEF LocFine
\* A step that neither opens a port nor starts a script.
<1>1. ASSUME NEW l, Goto(Main, l), pc[Main] # "idle", LocFine,
             UNCHANGED <<req, ran, opened>>, operationSeq' \in {operationSeq, operationSeq + 1},
             board' \in {0, board},
             l \in Early => UNCHANGED loc /\ pc[Main] \in Early,
             l \in Runs => req \in UserOps
      PROVE  ScriptsSpared'
  <2>1. Stay /\ pc'[Main] = l
    BY <1>0, <1>1 DEF Goto, LocFine
  <2>2. loc'[Main].board \in {0, board, loc[Main].board}
    BY <1>1 DEF LocFine
  <2>3. /\ operationSeq' >= operationSeq /\ opened' >= opened /\ board' <= opened'
        /\ loc'[Main].board <= opened'
    BY <1>0, <1>1, <2>2
  <2> QED
    BY <1>1, <2>1, <2>3, SparedByMain
<1>2. ASSUME NEW l, l \notin Early \cup Runs, Goto(Main, l), pc[Main] # "idle",
             UNCHANGED <<req, ran, opened, operationSeq, board>>, LocFine
      PROVE  ScriptsSpared'
  BY <1>1, <1>2
<1>3. ASSUME Return(Main), pc[Main] # "idle", UNCHANGED <<req, ran, opened>>, board' \in {0, board},
             operationSeq' \in {operationSeq, operationSeq + 1}
      PROVE  ScriptsSpared'
  BY <1>1, <1>3, <1>c DEF Return
<1>4. CASE Starting(Main)
  <2>1. CASE StartPoller(Main)
    <3>1. CASE StopPoller(Main, "pollerGone")
      <4>1. LocFine /\ Goto(Main, "pollerGone")
        BY <3>1, <1>d DEF StopPoller
      <4> QED
        BY <2>1, <4>1, <1>2 DEF StartPoller, session, ports, ghosts
    <3> QED
      BY <2>1, <3>1, <1>3 DEF StartPoller, session, ports, ghosts
  <2>2. CASE PollerGone(Main)
    BY <2>2, <1>2, <1>e DEF PollerGone, session, ports, ghosts
  <2>3. CASE InstallPoller(Main)
    BY <2>3, <1>0, <1>3 DEF InstallPoller, session, ports, ghosts
  <2> QED
    BY <1>4, <2>1, <2>2, <2>3 DEF Starting
<1>5. CASE MainStop
  <2>1. LocFine /\ \E l \in {"previewGone", "pollerStopped"} : Goto(Main, l)
    BY <1>5, <1>d DEF MainStop, StopPreview, StopPoller
  <2> QED
    BY <1>5, <2>1, <1>2 DEF MainStop, session, ports, ghosts
<1>6. CASE MainStopped
  <2>1. PICK l : /\ Goto(Main, l) /\ l \notin Early \cup Runs
                 /\ LSet(Main, IF l = "idle" THEN IdleCaller ELSE [loc[Main] EXCEPT !.target = None])
    BY <1>6 DEF MainStopped
  <2>2. LocFine
    BY <2>1, <1>c, <1>d
  <2> QED
    BY <1>6, <2>1, <2>2, <1>2 DEF MainStopped, session, ports, ghosts
<1>7. CASE MainLock
  BY <1>7, <1>0, <1>2, <1>h DEF MainLock, session, ports, ghosts
<1>8. ASSUME NEW a, ToPoller(a), pc[Main] # "idle", UNCHANGED <<req, ran, opened, operationSeq, board>>
      PROVE  ScriptsSpared'
  BY <1>2, <1>8, <1>g DEF ToPoller
<1>9. CASE RunPreflight
  <2>1. CASE Goto(Main, "reset") /\ UNCHANGED loc
    <3>1. req \in UserOps
      BY <1>9 DEF RunPreflight, Locked, UserOps
    <3> QED
      BY <1>9, <2>1, <3>1, <1>1, <1>b DEF RunPreflight, Locked, session, ports, ghosts
  <2> QED
    BY <1>9, <2>1, <1>3, <1>8 DEF RunPreflight, Locked, session, ports, ghosts
<1>10. CASE RunReset
  <2>1. req \in UserOps /\ pc[Main] # "idle"
    BY <1>10 DEF RunReset, ScriptsSpared, RunsAreOperations
  <2> QED
    BY <1>10, <2>1, <1>1, <1>3, <1>b DEF RunReset, session, ports, ghosts
<1>11. CASE RunExec
  <2>1. PICK a : ToPoller(a)
    BY <1>11 DEF RunExec
  <2>2. Stay /\ pc'[Main] = "startPoller" /\ loc'[Main].board = loc[Main].board
    BY <1>0, <2>1, LocalsKeepBoard DEF ToPoller, Goto, LSet
  <2>3. UNCHANGED <<req, opened, operationSeq, board>> /\ pc[Main] = "exec"
        /\ (ran' = ran \/ ran' = ran \cup {loc[Main].board})
    BY <1>11 DEF RunExec, session, ports, b0
  <2> QED
    BY <1>0, <2>2, <2>3, SparedByMain
<1>12. CASE StopScript
  BY <1>12, <1>3, <1>8 DEF StopScript, Locked, session, ports
<1>13. ASSUME CleanupDone, pc[Main] # "idle", UNCHANGED <<req, ran, opened, operationSeq>>,
              board' \in {0, board}
       PROVE  ScriptsSpared'
  <2>1. PICK l : Goto(Main, l) /\ l \notin Early \cup Runs
    BY <1>13 DEF CleanupDone
  <2> QED
    BY <1>1, <1>13, <2>1, <1>c DEF CleanupDone
<1>14. CASE CleanupClose \/ CleanupDetach \/ CleanupTeardown
  <2>1. CASE CleanupClose
    BY <2>1, <1>0, <1>2, <1>13, <1>h DEF CleanupClose, ports, ghosts
  <2>2. CASE CleanupDetach
    BY <2>2, <1>1, <1>b DEF CleanupDetach, ports
  <2>3. CASE CleanupTeardown
    BY <2>3, <1>13 DEF CleanupTeardown
  <2> QED
    BY <1>14, <2>1, <2>2, <2>3
<1>15. CASE ConnectOpen
  <2>1. CASE Return(Main) /\ UNCHANGED <<board, opened>>
    BY <1>15, <2>1, <1>3 DEF ConnectOpen, ghosts
  <2>2. CASE /\ opened' = opened + 1 /\ board' = opened + 1 /\ Goto(Main, "negotiate")
             /\ LSet(Main, [loc[Main] EXCEPT !.board = opened + 1])
    <3>1. Stay /\ pc'[Main] = "negotiate" /\ loc'[Main].board = opened + 1
      BY <1>0, <2>2, LocalsKeepBoard DEF Goto, LSet
    <3>2. UNCHANGED <<req, ran, operationSeq>> /\ pc[Main] # "idle"
      BY <1>15 DEF ConnectOpen, ghosts
    <3> QED
      BY <1>0, <2>2, <3>1, <3>2, SparedByMain
  <2> QED
    BY <1>15, <2>1, <2>2 DEF ConnectOpen
<1>16. CASE ConnectNegotiate
  BY <1>16, <1>1, <1>b DEF ConnectNegotiate, ports, ghosts
<1>17. CASE ConnectRejected
  <2>1. operationSeq' = operationSeq + 1 /\ board' \in {0, board} /\ UNCHANGED <<req, ran, opened>>
    BY <1>17 DEF ConnectRejected, AbortBoard, EndSession
  <2> QED
    BY <1>17, <2>1, <1>3 DEF ConnectRejected
<1>18. CASE ConnectLegacy
  BY <1>18, <1>8 DEF ConnectLegacy, session, ports, ghosts
<1>19. CASE ConnectV2
  <2>1. PICK c \in Setups :
           /\ pc' = [pc EXCEPT ![Main] = "idle", ![c] = "lock"]
           /\ loc' = [loc EXCEPT ![Main] = IdleCaller,
                                 ![c] = [IdleCaller EXCEPT !.board = b0, !.seq = operationSeq]]
    BY <1>19 DEF ConnectV2, FreeSetups
  <2>2. pc[Main] = "probeV2" /\ UNCHANGED <<operationSeq, ran, req, board, opened>>
    BY <1>19 DEF ConnectV2, session, ports, ghosts
  <2>3. b0 \notin ran
    BY <2>2 DEF ScriptsSpared, BoardsWereOpened, b0
  <2>4. /\ pc'[Main] = "idle" /\ loc'[Main] = IdleCaller
        /\ pc'[c] = "lock" /\ loc'[c].seq = operationSeq /\ loc'[c].board = b0
        /\ \A d \in Setups \ {c} : pc'[d] = pc[d] /\ loc'[d] = loc[d]
    BY <1>0, <2>1 DEF IdleCaller
  <2>5. SetupsAreOlder'
    BY <1>0, <2>2, <2>3, <2>4 DEF ScriptsSpared, SetupsAreOlder
  <2>6. RunsAreOperations' /\ BoardsWereOpened'
    BY <1>0, <2>2, <2>4, LocalsKeepBoard DEF ScriptsSpared, RunsAreOperations, BoardsWereOpened
  <2>7. SetupSparesUserScript'
    BY <2>2, <2>4 DEF ScriptsSpared, SetupSparesUserScript, SetupHolds, SetupExchanges
  <2> QED
    BY <2>5, <2>6, <2>7 DEF ScriptsSpared
<1>20. CASE PreviewDecide
  <2>1. Return(Main) \/ (LocFine /\ Goto(Main, "stopPreview"))
    BY <1>20, <1>f, <1>h DEF PreviewDecide
  <2> QED
    BY <1>20, <2>1, <1>2, <1>3 DEF PreviewDecide, Locked, session, ports, ghosts
<1>21. CASE InstallPreview \/ BeginWriteFile \/ EndWriteFile
  BY <1>21, <1>3 DEF InstallPreview, BeginWriteFile, EndWriteFile, Locked, session, ports,
     ghosts
<1>22. CASE WriteFileChunk
  <2>1. board' \in {0, board} /\ UNCHANGED <<req, ran, opened, operationSeq>>
    BY <1>22 DEF WriteFileChunk, ReportBoardDisconnected, EndSession, session
  <2> QED
    BY <1>22, <2>1, <1>3 DEF WriteFileChunk, Locked
<1>23. CASE Query
  BY <1>23, <1>2, <1>3, <1>b DEF Query, Locked, session, ports, ghosts
<1>24. CASE ExitAfterCleanup
  <2>1. Goto(Main, "exit") /\ UNCHANGED <<loc, req, ran, opened, operationSeq, board>>
        /\ pc[Main] # "idle"
    BY <1>24, <1>0 DEF ExitAfterCleanup, Goto, callers, session, ports, ghosts
  <2> QED
    BY <2>1, <1>2, <1>b
<1> QED
  BY <1>4, <1>5, <1>6, <1>7, <1>9, <1>10, <1>11, <1>12, <1>14, <1>15, <1>16, <1>17, <1>18,
     <1>19, <1>20, <1>21, <1>22, <1>23, <1>24 DEF MainStep

\* What the other steps have in common: the request loop stays, and a setup keeps its
\* board and operation, takes up opMu, or leaves.
LEMMA SparedByOthers ==
  ASSUME ScriptsSpared, UNCHANGED <<operationSeq, ran, req, opened, pc[Main], loc[Main]>>,
         board' \in {0, board}, TypeOK,
         \A c \in Setups : pc'[c] = "lock" => pc[c] = "lock" /\ loc'[c] = loc[c],
         \A c \in Setups : SetupHolds(c)' => loc'[c].board \notin ran
  PROVE  ScriptsSpared'
<1>1. board <= opened /\ board' <= opened
  BY DEF ScriptsSpared, BoardsWereOpened, TypeOK
<1>2. SetupsAreOlder'
  BY DEF ScriptsSpared, SetupsAreOlder
<1>3. RunsAreOperations' /\ BoardsWereOpened'
  BY <1>1 DEF ScriptsSpared, RunsAreOperations, BoardsWereOpened
<1>4. SetupSparesUserScript'
  BY DEF SetupSparesUserScript
<1> QED
  BY <1>2, <1>3, <1>4 DEF ScriptsSpared

\* A setup takes opMu only while no user operation came after its connect: none did
\* start a script on its board.
LEMMA SparedSetupStep ==
  ASSUME TypeOK, ScriptsSpared, NEW c \in Setups, Setup(c)
  PROVE  ScriptsSpared'
<1>0. /\ pc \in [Callers -> MainPCs \cup SetupPCs] /\ loc \in [Callers -> CallerState]
      /\ Main \in Callers /\ Main \notin Setups /\ Setups \subseteq Callers /\ c # Main
      /\ c \in Callers
  BY DEF TypeOK, Callers
<1>1. UNCHANGED <<operationSeq, ran, req, opened, board>>
  BY DEF Setup, SetupLock, SetupExchange, Starting, StartPoller, PollerGone, InstallPoller,
         session, ports, ghosts
<1>2. ASSUME NEW l, Goto(c, l), l # "lock",
             \E r : loc' = [loc EXCEPT ![c] = r],
             l \in SetupExchanges => loc' = loc /\ loc[c].board \notin ran
      PROVE  ScriptsSpared'
  <2>1. /\ \A d \in Callers \ {c} : pc'[d] = pc[d] /\ loc'[d] = loc[d]
        /\ pc'[c] = l
    BY <1>0, <1>2 DEF Goto
  <2>2. \A d \in Setups : SetupHolds(d)' => loc'[d].board \notin ran
    BY <1>0, <1>2, <2>1 DEF ScriptsSpared, SetupSparesUserScript, SetupHolds
  <2> QED
    BY <1>0, <1>1, <1>2, <2>1, <2>2, SparedByOthers
<1>3. CASE loc' = loc
  <2>1. loc' = [loc EXCEPT ![c] = loc[c]]
    BY <1>0, <1>3
  <2>2. CASE SetupLock(c)
    <3>1. CASE SetupCurrent(c)
      <4>1. loc[c].seq = operationSeq /\ pc[c] = "lock"
        BY <2>2, <3>1 DEF SetupLock, SetupCurrent, IsWorkerCurrent
      <4>2. loc[c].board \notin ran
        BY <4>1 DEF ScriptsSpared, SetupsAreOlder, TypeOK
      <4> QED
        BY <2>1, <2>2, <3>1, <4>2, <1>3, <1>2 DEF SetupLock
    <3> QED
      BY <2>2, <3>1, <2>1, <1>2, <1>0 DEF SetupLock, Return, SetupExchanges
  <2>3. CASE SetupExchange(c)
    <3>1. loc[c].board \notin ran
      BY <2>3 DEF SetupExchange, ScriptsSpared, SetupSparesUserScript, SetupHolds
    <3>2. PICK l : Goto(c, l) /\ l # "lock"
      BY <2>3, <1>0 DEF SetupExchange, Return, SetupNext
    <3> QED
      BY <2>1, <3>1, <3>2, <1>2, <1>3
  <2>4. CASE Starting(c)
    <3>1. PICK l : Goto(c, l) /\ l # "lock" /\ l \notin SetupExchanges
      BY <2>4, <1>0 DEF Starting, StartPoller, PollerGone, InstallPoller, StopPoller, Return,
                        SetupExchanges
    <3> QED
      BY <2>1, <3>1, <1>2
  <2> QED
    BY <2>2, <2>3, <2>4 DEF Setup
<1>4. CASE loc' # loc
  <2>1. PICK l : Goto(c, l) /\ l # "lock" /\ l \notin SetupExchanges
    BY <1>4, <1>0 DEF Setup, SetupLock, SetupExchange, Starting, StartPoller, PollerGone,
                      InstallPoller, StopPoller, Return, SetupExchanges
  <2>2. \E r : loc' = [loc EXCEPT ![c] = r]
    BY <1>4, <1>0 DEF Setup, SetupLock, SetupExchange, Starting, StartPoller, PollerGone,
                      InstallPoller, StopPoller, Return, LSet
  <2> QED
    BY <2>1, <2>2, <1>2
<1> QED
  BY <1>3, <1>4

\* Every step of the process spares the scripts the user started.
LEMMA SparedStep ==
  TypeOK /\ TypeOK' /\ BoardOperationsExclusive /\ ScriptsSpared /\ [Next]_vars
    => ScriptsSpared'
<1> SUFFICES ASSUME TypeOK, TypeOK', BoardOperationsExclusive, ScriptsSpared, [Next]_vars
             PROVE  ScriptsSpared'
  OBVIOUS
<1>1. ASSUME UNCHANGED <<operationSeq, ran, req, opened, callers>>, board' \in {0, board}
      PROVE  ScriptsSpared'
  BY <1>1, SparedByOthers DEF callers, ScriptsSpared, SetupSparesUserScript, SetupHolds
<1>2. CASE MainStep
  BY <1>2, SparedMainStep
<1>3. ASSUME NEW c \in Setups, Setup(c) PROVE ScriptsSpared'
  BY <1>3, SparedSetupStep
<1>4. ASSUME NEW w \in Workers, Worker(w) PROVE ScriptsSpared'
  <2>1. board' \in {0, board} /\ UNCHANGED <<operationSeq, ran, req, opened, callers>>
    BY <1>4 DEF Worker, WorkerLoop, WorkerTry, WorkerLock, WorkerWait, WorkerOp, WorkerReport,
                WorkerLost, WorkerLocal, ReportBoardDisconnected, EndSession, session, ports,
                ghosts, callers
  <2> QED
    BY <1>1, <2>1
<1>5. ASSUME NEW r \in Requests, Receive(r) PROVE ScriptsSpared'
  <2>0. /\ pc \in [Callers -> MainPCs \cup SetupPCs] /\ Main \in Callers /\ Main \notin Setups
        /\ Setups \subseteq Callers /\ operationSeq \in Nat
    BY DEF TypeOK, Callers
  <2>1. /\ UNCHANGED <<loc, ran, opened, board>> /\ req' = r
        /\ operationSeq' \in {operationSeq, operationSeq + 1}
        /\ r \in UserOps => operationSeq' = operationSeq + 1
    BY <1>5, <2>0 DEF Receive, ports, ghosts
  <2>2. /\ pc'[Main] \notin {"reset", "exec", "negotiate", "probeLegacy", "probeV2"}
        /\ \A c \in Setups : pc'[c] = pc[c]
    BY <1>5, <2>0 DEF Receive, Goto
  <2>3. operationSeq' >= operationSeq /\ opened' >= opened /\ board' <= opened'
        /\ loc'[Main].board <= opened'
    BY <2>0, <2>1 DEF ScriptsSpared, BoardsWereOpened, TypeOK
  <2>4. req' \notin UserOps \/ operationSeq' > operationSeq
    BY <2>0, <2>1
  <2> QED
    BY <2>1, <2>2, <2>3, <2>4, SparedByMain
<1>6. CASE Abort
  <2>1. /\ operationSeq' = operationSeq + 1 /\ board' \in {0, board}
        /\ UNCHANGED <<ran, req, opened, pc, loc>>
    BY <1>6 DEF Abort, AbortBoard, EndSession, callers
  <2>2. operationSeq \in Nat /\ board \in Nat /\ opened \in Nat /\ board <= opened
        /\ loc[Main].board <= opened
    BY DEF TypeOK, ScriptsSpared, BoardsWereOpened
  <2>3. operationSeq' >= operationSeq /\ operationSeq' > operationSeq /\ opened' >= opened
        /\ board' <= opened' /\ loc'[Main].board <= opened'
    BY <2>1, <2>2
  <2>4. pc'[Main] \in {"reset", "exec"} => req' \in UserOps
    BY <2>1 DEF ScriptsSpared, RunsAreOperations
  <2> QED
    BY <2>1, <2>3, <2>4, SparedByMain
<1>7. CASE (\E b \in Boards : ScriptEnds(b)) \/ Exit \/ UNCHANGED vars
  BY <1>7, <1>1 DEF ScriptEnds, Exit, session, ports, ghosts, callers, vars
<1> QED
  BY <1>2, <1>3, <1>4, <1>5, <1>6, <1>7 DEF Next, Exited

\* The soft reset that a connect schedules never hits a script the user started on
\* that board since (main.go:1372).
THEOREM SetupsSpareUserScripts == Spec => []SetupSparesUserScript
<1>1. Init => ScriptsSpared
  <2>1. ASSUME Init PROVE /\ SetupsAreOlder /\ RunsAreOperations /\ SetupSparesUserScript
    BY <2>1, SlotsAssumption DEF Init, SetupsAreOlder, RunsAreOperations,
       SetupSparesUserScript, Callers
  <2>2. ASSUME Init PROVE BoardsWereOpened
    BY <2>2 DEF Init, BoardsWereOpened, Callers, IdleCaller
  <2> QED
    BY <2>1, <2>2 DEF ScriptsSpared
<1>2. TypeOK /\ TypeOK' /\ BoardOperationsExclusive /\ ScriptsSpared /\ [Next]_vars
        => ScriptsSpared'
  BY SparedStep
<1>3. ScriptsSpared => SetupSparesUserScript
  BY DEF ScriptsSpared
<1> QED
  BY <1>1, <1>2, <1>3, TypeCorrect, MutualExclusion, PTL DEF Spec

(***************************************************************************)
(* The preview goroutines.                                                  *)
(***************************************************************************)

\* A worker's own steps never bring it back to life, and a live one keeps its stop
\* channel, the operation it was started for and, within a round, its board.
LEMMA WorkerKeepsStop ==
  ASSUME TypeOK, NEW w \in Workers, Worker(w)
  PROVE  /\ \A u \in Workers \ {w} : wpc'[u] = wpc[u] /\ wk'[u] = wk[u]
         /\ wpc[w] # "dead"
         /\ wpc'[w] # "dead" => /\ wk'[w].stop = wk[w].stop /\ wk'[w].seq = wk[w].seq
                                /\ wpc[w] # "loop" => wk'[w].board = wk[w].board
<1>0. /\ wpc \in [Workers -> WorkerPCs] /\ wk \in [Workers -> WorkerState]
      /\ wk[w] \in WorkerState
  BY DEF TypeOK
<1>1. \A u \in Workers \ {w} : wpc'[u] = wpc[u] /\ wk'[u] = wk[u]
  BY <1>0 DEF Worker, WorkerLoop, WorkerTry, WorkerLock, WorkerWait, WorkerOp, WorkerReport,
              WorkerLost, GiveUp, LinkError, Finished, PollerOk, PollerFails, PreviewOk,
              PreviewFails, NextOp, Again, WGoto, WSet
<1> DEFINE Same(r) == r.stop = wk[w].stop /\ r.seq = wk[w].seq
                      /\ (wpc[w] # "loop" => r.board = wk[w].board)
           Keeps == wpc'[w] # "dead" => Same(wk'[w])
<1>2. /\ \A a, i : /\ Same([wk[w] EXCEPT !.errs = i]) /\ Same([wk[w] EXCEPT !.act = a])
                    /\ Same([wk[w] EXCEPT !.wait = i])
                    /\ Same([Clear(w) EXCEPT !.act = a]) /\ Same([Clear(w) EXCEPT !.idle = i])
      /\ Same([wk[w] EXCEPT !.running = FALSE, !.idle = 0, !.errs = 0])
      /\ Same([Clear(w) EXCEPT !.running = TRUE, !.idle = 0])
      /\ Same(Clear(w)) /\ Same(wk[w])
  BY <1>0 DEF Clear, WorkerState
<1>l. \A a, b : wpc[w] = "loop" => Same([wk[w] EXCEPT !.board = b, !.act = a])
  BY <1>0 DEF WorkerState
<1>3. ASSUME NEW r, Same(r), WSet(w, r) PROVE Keeps
  BY <1>0, <1>3 DEF WSet
<1> HIDE DEF Same
<1>4. ASSUME UNCHANGED wk \/ (wpc'[w] = "dead") PROVE Keeps
  BY <1>2, <1>4
<1> HIDE DEF Keeps
<1>5. ASSUME GiveUp(w) \/ LinkError(w) \/ Finished(w) PROVE Keeps
  BY <1>0, <1>2, <1>3, <1>4, <1>5 DEF GiveUp, LinkError, Finished, WGoto
<1>6. ASSUME NEW a, NextOp(w, a) \/ Again(w) PROVE Keeps
  BY <1>2, <1>3, <1>6 DEF NextOp, Again
<1>7. ASSUME WorkerTry(w) \/ WorkerLock(w) \/ WorkerWait(w) PROVE Keeps
  BY <1>2, <1>3, <1>4, <1>5, <1>7 DEF WorkerTry, WorkerLock, WorkerWait
<1>8. ASSUME WorkerOp(w) PROVE Keeps
  <2>1. CASE PollerOk(w)
    BY <2>1, <1>2, <1>3, <1>5, <1>6 DEF PollerOk
  <2>2. CASE PollerFails(w)
    BY <2>2, <1>2, <1>3, <1>5, <1>6 DEF PollerFails
  <2>3. CASE PreviewOk(w)
    BY <2>3, <1>6 DEF PreviewOk
  <2>4. CASE PreviewFails(w)
    BY <2>4, <1>2, <1>3, <1>5 DEF PreviewFails
  <2> QED
    BY <1>8, <2>1, <2>2, <2>3, <2>4 DEF WorkerOp
<1>9. ASSUME WorkerLoop(w) PROVE Keeps
  <2>1. \/ wpc'[w] = "dead"
        \/ wpc[w] = "loop" /\ \E a : WSet(w, [wk[w] EXCEPT !.board = CurrentBoard, !.act = a])
    BY <1>0, <1>9 DEF WorkerLoop, WGoto
  <2> QED
    BY <2>1, <1>l, <1>3, <1>4
<1>10. ASSUME WorkerReport(w) \/ WorkerLost(w) PROVE Keeps
  BY <1>0, <1>4, <1>10 DEF WorkerReport, WorkerLost, WGoto
<1>11. Keeps
  BY <1>7, <1>8, <1>9, <1>10 DEF Worker
<1>12. wpc[w] # "dead"
  BY DEF Worker, WorkerLoop, WorkerTry, WorkerLock, WorkerWait, WorkerOp, WorkerReport,
     WorkerLost
<1> QED
  BY <1>1, <1>11, <1>12 DEF Keeps, Same

\* Between the end of the old preview goroutine and the start of the new one none is
\* registered.
PreviewReplaced == pc[Main] \in {"previewGone", "installPreview"} => previewReg = None

PreviewsAccounted == PreviewReplaced /\ NoOrphanPreview

\* What a step does that neither registers nor starts a preview goroutine.
LEMMA PreviewsStay ==
  ASSUME PreviewsAccounted, UNCHANGED previewReg,
         \A v \in Previews : wpc'[v] # "dead" =>
           wpc[v] # "dead" /\ (wk[v].stop => wk'[v].stop),
         pc'[Main] \in {"previewGone", "installPreview"} =>
           pc[Main] \in {"previewGone", "installPreview"}
  PROVE  PreviewsAccounted'
BY DEF PreviewsAccounted, PreviewReplaced, NoOrphanPreview

\* Telling one worker to stop tells no other to go on.
LEMMA CloseStopStops ==
  ASSUME TypeOK, NEW w \in Workers \cup {None}, CloseStop(w)
  PROVE  /\ \A u \in Workers : wk[u].stop => wk'[u].stop
         /\ \A u \in Workers \ {w} : wk'[u] = wk[u]
         /\ w # None => wk'[w].stop
<1>1. wk \in [Workers -> WorkerState] /\ None \notin Workers
  BY SlotsAssumption DEF TypeOK
<1>2. CASE w = None
  BY <1>1, <1>2 DEF CloseStop
<1>3. CASE w # None
  <2>1. w \in Workers /\ wk[w] \in WorkerState
    BY <1>1, <1>3
  <2>2. [wk[w] EXCEPT !.stop = TRUE].stop = TRUE
    BY <2>1 DEF WorkerState
  <2>3. /\ wk'[w] = [wk[w] EXCEPT !.stop = TRUE]
        /\ \A u \in Workers \ {w} : wk'[u] = wk[u]
    BY <1>1, <1>3, <2>1 DEF CloseStop, WSet
  <2> QED
    BY <2>1, <2>2, <2>3
<1> QED
  BY <1>2, <1>3

\* Every step keeps the preview goroutines accounted for.
LEMMA PreviewsStep == TypeOK /\ PreviewsAccounted /\ [Next]_vars => PreviewsAccounted'
<1> SUFFICES ASSUME TypeOK, PreviewsAccounted, [Next]_vars PROVE PreviewsAccounted'
  OBVIOUS
<1>0. /\ wpc \in [Workers -> WorkerPCs] /\ wk \in [Workers -> WorkerState]
      /\ pc \in [Callers -> MainPCs \cup SetupPCs] /\ Main \in Callers
      /\ Main \notin Setups /\ Setups \subseteq Callers
      /\ Previews \subseteq Workers /\ Pollers \subseteq Workers /\ Pollers \cap Previews = {}
      /\ None \notin Workers
      /\ pollerReg \in Pollers \cup {None} /\ previewReg \in Previews \cup {None}
  BY SlotsAssumption DEF TypeOK, Callers, Workers
<1> DEFINE Between == {"previewGone", "installPreview"}
\* A step of a caller that leaves the workers and the registrations alone.
<1>1. ASSUME UNCHANGED <<previewReg, workers>>, pc'[Main] \in Between => pc[Main] \in Between
      PROVE  PreviewsAccounted'
  BY <1>0, <1>1, PreviewsStay DEF workers
<1>2. ASSUME NEW c \in Callers, Starting(c) PROVE PreviewsAccounted'
  <2>1. pc'[Main] \in Between => pc[Main] \in Between
    BY <1>0, <1>2 DEF Starting, StartPoller, PollerGone, InstallPoller, StopPoller, Return, Goto
  <2>2. CASE StartPoller(c)
    <3>1. UNCHANGED <<previewReg, wpc>> /\ (CloseStop(pollerReg) \/ UNCHANGED wk)
      BY <2>2 DEF StartPoller, StopPoller, regs
    <3>2. \A v \in Previews : wk'[v] = wk[v]
      BY <1>0, <3>1, CloseStopStops
    <3> QED
      BY <2>1, <3>1, <3>2, PreviewsStay
  <2>3. CASE PollerGone(c)
    BY <2>1, <2>3, <1>1 DEF PollerGone, regs
  <2>4. CASE InstallPoller(c)
    <3>1. UNCHANGED previewReg /\ \A v \in Previews : wpc'[v] = wpc[v] /\ wk'[v] = wk[v]
      BY <1>0, <2>4 DEF InstallPoller, Spawn, WGoto, WSet, FreeSlots
    <3> QED
      BY <2>1, <3>1, PreviewsStay
  <2> QED
    BY <1>2, <2>2, <2>3, <2>4 DEF Starting
<1>3. CASE MainStop
  <2>1. CASE StopPreview(Main, "previewGone")
    <3>1. previewReg' = None /\ UNCHANGED wpc /\ CloseStop(previewReg)
      BY <1>3, <2>1 DEF MainStop, StopPreview
    <3>2. NoOrphanPreview'
      BY <1>0, <3>1, CloseStopStops DEF PreviewsAccounted, NoOrphanPreview
    <3> QED
      BY <3>1, <3>2 DEF PreviewsAccounted, PreviewReplaced
  <2>2. CASE StopPoller(Main, "pollerStopped")
    <3>1. /\ UNCHANGED <<previewReg, wpc>> /\ CloseStop(pollerReg)
          /\ pc'[Main] = "pollerStopped"
      BY <1>0, <1>3, <2>2 DEF MainStop, StopPoller, Goto
    <3>2. \A v \in Previews : wk'[v] = wk[v]
      BY <1>0, <3>1, CloseStopStops
    <3> QED
      BY <3>1, <3>2, PreviewsStay
  <2> QED
    BY <1>3, <2>1, <2>2 DEF MainStop
<1>4. CASE InstallPreview
  <2>1. pc[Main] = "installPreview" /\ pc'[Main] = "idle"
    BY <1>0, <1>4 DEF InstallPreview, Return, Goto
  <2>2. PICK v \in Previews : Spawn(v, loc[Main].seq, FALSE) /\ previewReg' = v
    BY <1>4 DEF InstallPreview, FreeSlots
  <2>3. \A u \in Previews \ {v} : wpc'[u] = wpc[u] /\ wk'[u] = wk[u]
    BY <1>0, <2>2 DEF Spawn, WGoto, WSet
  <2> QED
    BY <1>0, <2>1, <2>2, <2>3 DEF PreviewsAccounted, PreviewReplaced, NoOrphanPreview
<1>5. CASE MainStopped
  <2>1. pc'[Main] \in Between => pc[Main] \in Between
    <3>1. CASE pc[Main] = "previewGone"
      BY <3>1
    <3>2. CASE pc[Main] = "pollerStopped"
      <4>1. pc'[Main] \in {"stopPreview", "lock"}
        BY <1>0, <1>5, <3>2 DEF MainStopped, Goto
      <4> QED
        BY <4>1
    <3> QED
      BY <1>5, <3>1, <3>2 DEF MainStopped
  <2> QED
    BY <1>1, <1>5, <2>1 DEF MainStopped, regs
<1>6. CASE \/ MainLock \/ RunPreflight \/ RunReset \/ RunExec \/ StopScript
           \/ CleanupClose \/ CleanupDetach \/ CleanupTeardown
  <2>1. UNCHANGED <<previewReg, workers>>
    BY <1>6 DEF MainLock, RunPreflight, RunReset, RunExec, StopScript, CleanupClose,
                CleanupDetach, CleanupTeardown, regs
  <2>2. pc'[Main] \notin Between
    BY <1>0, <1>6 DEF MainLock, RunPreflight, RunReset, RunExec, StopScript, CleanupClose,
                CleanupDetach, CleanupTeardown, CleanupDone, ToPoller, Return, Goto
  <2> QED
    BY <1>1, <2>1, <2>2
<1>7. CASE \/ ConnectOpen \/ ConnectNegotiate \/ ConnectRejected \/ ConnectLegacy \/ ConnectV2
           \/ PreviewDecide \/ BeginWriteFile \/ WriteFileChunk \/ EndWriteFile \/ Query
           \/ ExitAfterCleanup
  <2>1. UNCHANGED <<previewReg, workers>>
    BY <1>7 DEF ConnectOpen, ConnectNegotiate, ConnectRejected, ConnectLegacy, ConnectV2,
                PreviewDecide, BeginWriteFile, WriteFileChunk, EndWriteFile, Query,
                ExitAfterCleanup, regs
  <2>2. pc'[Main] \notin Between
    <3>1. CASE ConnectV2
      BY <1>0, <3>1 DEF ConnectV2, FreeSetups
    <3>2. CASE ExitAfterCleanup
      BY <3>2 DEF ExitAfterCleanup, callers
    <3> QED
      BY <1>0, <1>7, <3>1, <3>2
         DEF ConnectOpen, ConnectNegotiate, ConnectRejected, ConnectLegacy, PreviewDecide,
             BeginWriteFile, WriteFileChunk, EndWriteFile, Query, ToPoller, Return, Goto
  <2> QED
    BY <1>1, <2>1, <2>2
<1>8. CASE MainStep
  BY <1>8, <1>0, <1>2, <1>3, <1>4, <1>5, <1>6, <1>7 DEF MainStep
<1>9. ASSUME NEW c \in Setups, Setup(c) PROVE PreviewsAccounted'
  <2>1. CASE SetupLock(c) \/ SetupExchange(c)
    <3>1. UNCHANGED <<previewReg, workers>> /\ pc'[Main] = pc[Main]
      BY <1>0, <2>1 DEF SetupLock, SetupExchange, Return, Goto, regs
    <3> QED
      BY <1>1, <3>1
  <2> QED
    BY <1>0, <1>2, <1>9, <2>1 DEF Setup
<1>10. ASSUME NEW w \in Workers, Worker(w) PROVE PreviewsAccounted'
  <2>1. UNCHANGED <<previewReg, callers>>
    BY <1>10 DEF Worker, WorkerLoop, WorkerTry, WorkerLock, WorkerWait, WorkerOp, WorkerReport,
                 WorkerLost, WorkerLocal, regs, callers
  <2>2. \A v \in Previews : wpc'[v] # "dead" => wpc[v] # "dead" /\ (wk[v].stop => wk'[v].stop)
    BY <1>0, <1>10, WorkerKeepsStop
  <2> QED
    BY <2>1, <2>2, PreviewsStay DEF callers
<1>11. CASE (\E r \in Requests : Receive(r)) \/ (\E b \in Boards : ScriptEnds(b)) \/ Abort
            \/ Exit \/ UNCHANGED vars
  <2>1. UNCHANGED <<previewReg, workers>>
    BY <1>11 DEF Receive, ScriptEnds, Abort, Exit, regs, vars
  <2>2. pc'[Main] \in Between => pc[Main] \in Between
    BY <1>0, <1>11 DEF Receive, Goto, ScriptEnds, Abort, Exit, callers, vars
  <2> QED
    BY <1>1, <2>1, <2>2
<1> QED
  BY <1>8, <1>9, <1>10, <1>11 DEF Next, Exited

\* No preview goroutine runs on that stopPreview can no longer end: one that was not
\* told to stop is the registered one (main.go:929, 1148).
THEOREM PreviewsAreRegistered == Spec => []NoOrphanPreview
<1>1. Init => PreviewsAccounted
  BY SlotsAssumption DEF Init, PreviewsAccounted, PreviewReplaced, NoOrphanPreview, Workers
<1>2. TypeOK /\ PreviewsAccounted /\ [Next]_vars => PreviewsAccounted'
  BY PreviewsStep
<1>3. PreviewsAccounted => NoOrphanPreview
  BY DEF PreviewsAccounted
<1> QED
  BY <1>1, <1>2, <1>3, TypeCorrect, PTL DEF Spec

(***************************************************************************)
(* The poller.                                                              *)
(***************************************************************************)

\* The requests whose handlers stop the poller, and end with a new one or no board.
Restarting == UserOps \cup {"connect", "disconnect", "eof"}

\* The request loop knows the attached board, and none is attached where it closed the
\* old one.
BoardsAreKnown ==
  /\ pc[Main] \in {"detach", "teardown"} => closing
  /\ pc[Main] = "open" => CurrentBoard = 0
  /\ pc[Main] \in {"locked", "reset", "exec", "negotiate", "probeLegacy", "probeV2"} =>
       CurrentBoard \in {0, loc[Main].board}
  /\ pc[Main] \in {"stopPoller", "pollerStopped"} => req \in Restarting

\* A poller that watches the attached board.
Watches(p) == /\ wpc[p] # "dead" /\ ~wk[p].stop /\ wk[p].seq = operationSeq
              /\ wpc[p] # "loop" => wk[p].board = board

\* The request loop will start a poller before its handler ends, if a board is left.
MainOwes ==
  \/ pc[Main] \in {"open", "negotiate", "probeLegacy", "probeV2", "startPoller", "pollerGone", "exit"}
  \/ pc[Main] = "installPoller" /\ loc[Main].seq = operationSeq
  \/ /\ pc[Main] \in {"stopPreview", "previewGone", "stopPoller", "pollerStopped", "lock", "locked",
                      "reset", "exec", "detach", "teardown"}
     /\ req \in Restarting

\* A setup goroutine will, unless another operation comes first.
SetupOwes(c) ==
  \/ pc[c] \in {"startPoller", "pollerGone"}
  \/ pc[c] = "installPoller" /\ loc[c].seq = operationSeq
  \/ pc[c] \in {"lock"} \cup SetupExchanges /\ SetupCurrent(c)

Attached == shutdown = "no" /\ CurrentBoard # 0

Owed == (\E p \in Pollers : Watches(p)) \/ MainOwes \/ (\E c \in Setups : SetupOwes(c))

WatchIsKept == BoardsAreKnown /\ (Attached => Owed)

\* Every step keeps what the request loop knows of the board.
LEMMA KnownStep == TypeOK /\ BoardsAreKnown /\ [Next]_vars => BoardsAreKnown'
<1> SUFFICES ASSUME TypeOK, BoardsAreKnown, [Next]_vars PROVE BoardsAreKnown'
  OBVIOUS
<1>0. /\ pc \in [Callers -> MainPCs \cup SetupPCs] /\ loc \in [Callers -> CallerState]
      /\ Main \in Callers /\ Main \notin Setups /\ Setups \subseteq Callers
      /\ closing \in BOOLEAN
  BY SlotsAssumption DEF TypeOK, Callers
<1> DEFINE Shrinks == CurrentBoard' \in {0, CurrentBoard} /\ (closing => closing')
           Known == {"locked", "reset", "exec", "negotiate", "probeLegacy", "probeV2"}
\* Nobody but the request loop attaches a board.
<1>1. ASSUME Shrinks, UNCHANGED <<req, pc[Main], loc[Main]>> PROVE BoardsAreKnown'
  BY <1>1 DEF BoardsAreKnown
<1>2. ASSUME UNCHANGED <<board, closing>> PROVE Shrinks
  BY <1>2 DEF CurrentBoard
<1>3. ASSUME closing' = TRUE PROVE Shrinks
  BY <1>3 DEF CurrentBoard
<1>4. ASSUME NEW b, ReportBoardDisconnected(b) PROVE Shrinks
  BY <1>2, <1>3, <1>4 DEF ReportBoardDisconnected, EndSession
<1>5. ASSUME AbortBoard PROVE Shrinks
  BY <1>3, <1>5 DEF AbortBoard, EndSession
<1> HIDE DEF Shrinks
\* Where the request loop goes on without a word about its board.
<1>6. ASSUME pc'[Main] \notin {"detach", "teardown", "open", "stopPoller", "pollerStopped"} \cup Known
      PROVE  BoardsAreKnown'
  BY <1>6 DEF BoardsAreKnown
<1>7. CASE Starting(Main)
  <2>1. pc'[Main] \in {"pollerGone", "installPoller", "idle"}
    BY <1>0, <1>7 DEF Starting, StartPoller, PollerGone, InstallPoller, StopPoller, Return, Goto
  <2> QED
    BY <2>1, <1>6
<1>8. CASE MainStop
  <2>1. /\ pc'[Main] \in {"previewGone", "pollerStopped"} /\ UNCHANGED req
        /\ pc'[Main] = "pollerStopped" => pc[Main] = "stopPoller"
    BY <1>0, <1>8 DEF MainStop, StopPreview, StopPoller, Goto
  <2> QED
    BY <2>1 DEF BoardsAreKnown
<1>9. CASE MainStopped
  <2>1. /\ pc'[Main] \in {"stopPreview", "stopPoller", "lock", "startPoller", "installPreview", "idle"}
        /\ UNCHANGED req /\ (pc'[Main] = "stopPoller" => req \in UserOps)
    BY <1>0, <1>9 DEF MainStopped, Goto
  <2> QED
    BY <2>1 DEF BoardsAreKnown, Restarting
<1>10. CASE MainLock
  <2>1. pc'[Main] = "locked" /\ UNCHANGED <<board, closing>> /\ loc'[Main].board = CurrentBoard
    BY <1>0, <1>10, LocalsKeepBoard DEF MainLock, Goto, LSet, session
  <2> QED
    BY <2>1 DEF BoardsAreKnown, CurrentBoard
<1>11. CASE RunPreflight \/ RunReset
  <2>1. /\ pc'[Main] \in {"idle", "startPoller"}
           \/ (pc'[Main] \in {"reset", "exec"} /\ pc[Main] \in {"locked", "reset"} /\ UNCHANGED loc)
        /\ UNCHANGED <<board, closing>>
    BY <1>0, <1>11 DEF RunPreflight, RunReset, Locked, ToPoller, Return, Goto, session
  <2> QED
    BY <2>1, <1>2, <1>6 DEF BoardsAreKnown, Shrinks
<1>12. CASE \/ RunExec \/ StopScript \/ ConnectRejected \/ ConnectLegacy \/ PreviewDecide
            \/ InstallPreview \/ BeginWriteFile \/ WriteFileChunk \/ EndWriteFile \/ Query
  <2>1. pc'[Main] \in {"idle", "startPoller", "stopPreview", "exchange"}
    BY <1>0, <1>12 DEF RunExec, StopScript, ConnectRejected, ConnectLegacy, PreviewDecide,
                       InstallPreview, BeginWriteFile, WriteFileChunk, EndWriteFile, Query,
                       ToPoller, Return, Goto
  <2> QED
    BY <2>1, <1>6
<1>13. CASE CleanupClose \/ CleanupDetach \/ CleanupTeardown
  <2>1. /\ closing' = TRUE
        /\ pc'[Main] \in {"detach", "teardown", "open", "exit", "idle"}
    BY <1>0, <1>13 DEF CleanupClose, CleanupDetach, CleanupTeardown, CleanupDone, Goto,
                       BoardsAreKnown
  <2> QED
    BY <2>1 DEF BoardsAreKnown, CurrentBoard
<1>14. CASE ConnectOpen
  <2>1. CASE Return(Main)
    BY <1>0, <2>1, <1>6 DEF Return, Goto
  <2>2. CASE /\ board' = opened + 1 /\ Goto(Main, "negotiate")
             /\ LSet(Main, [loc[Main] EXCEPT !.board = opened + 1])
    <3>1. pc'[Main] = "negotiate" /\ loc'[Main].board = board'
      BY <1>0, <2>2, LocalsKeepBoard DEF Goto, LSet
    <3> QED
      BY <3>1 DEF BoardsAreKnown, CurrentBoard
  <2> QED
    BY <1>14, <2>1, <2>2 DEF ConnectOpen
<1>15. CASE ConnectNegotiate
  <2>1. /\ pc'[Main] \in {"probeLegacy", "probeV2"} /\ pc[Main] = "negotiate"
        /\ UNCHANGED <<loc, board, closing>>
    BY <1>0, <1>15 DEF ConnectNegotiate, Goto
  <2> QED
    BY <2>1 DEF BoardsAreKnown, CurrentBoard
<1>16. CASE ConnectV2
  <2>1. pc'[Main] = "idle"
    BY <1>0, <1>16 DEF ConnectV2, FreeSetups
  <2> QED
    BY <2>1, <1>6
<1>17. CASE ExitAfterCleanup \/ Exit \/ (\E b \in Boards : ScriptEnds(b)) \/ UNCHANGED vars
  BY <1>17, <1>1, <1>2 DEF ExitAfterCleanup, Exit, ScriptEnds, vars, callers, session
<1>18. CASE MainStep
  BY <1>18, <1>7, <1>8, <1>9, <1>10, <1>11, <1>12, <1>13, <1>14, <1>15, <1>16, <1>17
     DEF MainStep
<1>19. ASSUME NEW c \in Setups, Setup(c) PROVE BoardsAreKnown'
  <2>1. UNCHANGED <<board, closing, req, pc[Main], loc[Main]>>
    BY <1>0, <1>19 DEF Setup, SetupLock, SetupExchange, Starting, StartPoller, PollerGone,
                       InstallPoller, StopPoller, Return, Goto, LSet, session
  <2> QED
    BY <2>1, <1>1, <1>2
<1>20. ASSUME NEW w \in Workers, Worker(w) PROVE BoardsAreKnown'
  <2>1. UNCHANGED callers /\ (UNCHANGED <<board, closing>> \/ ReportBoardDisconnected(wk[w].board))
    BY <1>20 DEF Worker, WorkerLoop, WorkerTry, WorkerLock, WorkerWait, WorkerOp, WorkerReport,
                 WorkerLost, WorkerLocal, session, callers
  <2> QED
    BY <2>1, <1>1, <1>2, <1>4 DEF callers
<1>21. ASSUME NEW r \in Requests, Receive(r) PROVE BoardsAreKnown'
  <2>1. /\ pc'[Main] \in {"stopPreview", "stopPoller", "open", "lock"} /\ req' = r
        /\ pc'[Main] = "stopPoller" => r \in Restarting
        /\ pc'[Main] = "open" => board = 0
        /\ UNCHANGED <<board, closing>>
    BY <1>0, <1>21 DEF Receive, Goto, Restarting
  <2> QED
    BY <2>1 DEF BoardsAreKnown, CurrentBoard
<1>22. CASE Abort
  BY <1>22, <1>1, <1>5 DEF Abort, callers
<1> QED
  BY <1>17, <1>18, <1>19, <1>20, <1>21, <1>22 DEF Next, Exited

\* A poller that watches the board goes on as long as the board is attached.
LEMMA WatcherLives ==
  ASSUME TypeOK, NEW w \in Workers, Worker(w), CurrentBoard # 0, CurrentBoard' # 0, Watches(w)
  PROVE  Watches(w)'
<1>0. /\ wpc \in [Workers -> WorkerPCs] /\ wk \in [Workers -> WorkerState]
      /\ wk[w] \in WorkerState /\ closing \in BOOLEAN
  BY DEF TypeOK
<1>1. ~closing /\ board = CurrentBoard /\ ~wk[w].stop /\ wk[w].seq = operationSeq
      /\ (wpc[w] # "loop" => wk[w].board = board /\ ~Quits(w))
  BY <1>0 DEF CurrentBoard, Watches, Quits, IsWorkerCurrent
<1>2. UNCHANGED <<board, operationSeq>>
  <2>1. UNCHANGED <<board, operationSeq>> \/ (UNCHANGED operationSeq /\ ReportBoardDisconnected(wk[w].board))
    BY DEF Worker, WorkerLoop, WorkerTry, WorkerLock, WorkerWait, WorkerOp, WorkerReport,
           WorkerLost, WorkerLocal, session
  <2> QED
    BY <2>1 DEF ReportBoardDisconnected, EndSession, CurrentBoard
<1>3. ASSUME WorkerOp(w) PROVE wpc'[w] # "dead"
  <2>1. ASSUME LinkError(w) \/ Finished(w) \/ Again(w) PROVE wpc'[w] # "dead"
    BY <1>0, <2>1 DEF LinkError, Finished, Again, WGoto
  <2>2. ASSUME NEW a, NextOp(w, a) PROVE wpc'[w] # "dead"
    BY <1>0, <2>2 DEF NextOp, WGoto
  <2>3. ASSUME WGoto(w, "try") \/ WGoto(w, "loop") PROVE wpc'[w] # "dead"
    BY <1>0, <2>3 DEF WGoto
  <2> QED
    BY <1>3, <2>1, <2>2, <2>3 DEF WorkerOp, PollerOk, PollerFails, PreviewOk, PreviewFails
<1>4. ASSUME WorkerTry(w) \/ WorkerLock(w) \/ WorkerWait(w) PROVE wpc'[w] # "dead"
  BY <1>0, <1>1, <1>4 DEF WorkerTry, WorkerLock, WorkerWait, WGoto
<1>5. ASSUME WorkerLoop(w)
      PROVE  wpc'[w] = "try" /\ wk'[w].board = board
  <2>1. PICK a : WGoto(w, "try") /\ WSet(w, [wk[w] EXCEPT !.board = CurrentBoard, !.act = a])
    BY <1>0, <1>1, <1>5 DEF WorkerLoop, IsWorkerCurrent
  <2>2. [wk[w] EXCEPT !.board = CurrentBoard, !.act = a].board = CurrentBoard
    BY <1>0 DEF WorkerState
  <2> QED
    BY <1>0, <1>1, <2>1, <2>2 DEF WGoto, WSet
<1>6. ASSUME WorkerReport(w) PROVE wpc'[w] # "dead"
  BY <1>0, <1>1, <1>6 DEF WorkerReport, IsWorkerCurrent, WGoto
<1>7. ~WorkerLost(w)
  <2>1. ASSUME WorkerLost(w) PROVE FALSE
    BY <1>1, <2>1 DEF WorkerLost, ReportBoardDisconnected, EndSession, CurrentBoard
  <2> QED
    BY <2>1
<1>8. CASE WorkerLoop(w)
  BY <1>1, <1>2, <1>5, <1>8, WorkerKeepsStop DEF Watches
<1>9. CASE ~WorkerLoop(w)
  <2>1. wpc'[w] # "dead" /\ wpc[w] # "loop"
    BY <1>3, <1>4, <1>6, <1>7, <1>9
       DEF Worker, WorkerTry, WorkerLock, WorkerWait, WorkerOp, WorkerReport
  <2> QED
    BY <1>1, <1>2, <2>1, WorkerKeepsStop DEF Watches
<1> QED
  BY <1>8, <1>9

\* Unless the client sends a request that stops the poller for nothing, a step that
\* leaves a board attached leaves it watched, or somebody owes it a poller.
LEMMA OwedStep ==
  ASSUME "runEmpty" \notin Requests, TypeOK, req \in Requests \cup {"query"}, BoardsAreKnown,
         Attached => Owed, [Next]_vars, Attached'
  PROVE  Owed'
<1>0. /\ wpc \in [Workers -> WorkerPCs] /\ wk \in [Workers -> WorkerState]
      /\ pc \in [Callers -> MainPCs \cup SetupPCs] /\ loc \in [Callers -> CallerState]
      /\ Main \in Callers /\ Main \notin Setups /\ Setups \subseteq Callers
      /\ Previews \subseteq Workers /\ Pollers \subseteq Workers /\ Pollers \cap Previews = {}
      /\ None \notin Workers
      /\ pollerReg \in Pollers \cup {None} /\ previewReg \in Previews \cup {None}
  BY SlotsAssumption DEF TypeOK, Callers, Workers
<1>1. ~closing' /\ board' # 0 /\ shutdown' = "no"
  BY DEF Attached, CurrentBoard
\* A step of somebody who owes nothing, and takes nothing from those who do.
<1>2. ASSUME UNCHANGED <<board, closing, shutdown, operationSeq>>,
             \A p \in Pollers : Watches(p) => Watches(p)',
             MainOwes => MainOwes', \A c \in Setups : SetupOwes(c) => SetupOwes(c)'
      PROVE  Owed'
  <2>1. Attached
    BY <1>1, <1>2 DEF Attached, CurrentBoard
  <2> QED
    BY <2>1, <1>2 DEF Owed
<1>3. ASSUME UNCHANGED <<board, operationSeq, workers>>
      PROVE  \A p \in Pollers : Watches(p) => Watches(p)'
  BY <1>3 DEF workers, Watches
<1>4. ASSUME UNCHANGED <<board, closing, operationSeq>>, NEW c \in Setups,
             pc'[c] = pc[c], loc'[c] = loc[c], SetupOwes(c)
      PROVE  SetupOwes(c)'
  BY <1>4 DEF SetupOwes, SetupCurrent, IsWorkerCurrent
<1>5. ASSUME UNCHANGED <<board, operationSeq>>, NEW p \in Pollers, wpc[p] # "dead",
             \E q \in FreeSlots(Pollers) : \E n, a : Spawn(q, n, a)
      PROVE  Watches(p) => Watches(p)'
  <2>1. wpc'[p] = wpc[p] /\ wk'[p] = wk[p]
    BY <1>0, <1>5 DEF Spawn, WGoto, WSet, FreeSlots
  <2> QED
    BY <1>5, <2>1 DEF Watches
\* startPoller, by whomever it is called.
<1>6. ASSUME NEW p \in Pollers, NEW n, NEW a, Spawn(p, n, a), n = operationSeq,
             UNCHANGED operationSeq
      PROVE  Watches(p)'
  <2>1. wpc'[p] = "loop" /\ wk'[p] = [IdleWorker EXCEPT !.seq = n, !.running = a]
    BY <1>0, <1>6 DEF Spawn, WGoto, WSet
  <2>2. [IdleWorker EXCEPT !.seq = n, !.running = a].seq = n
        /\ [IdleWorker EXCEPT !.seq = n, !.running = a].stop = FALSE
    BY DEF IdleWorker
  <2> QED
    BY <1>6, <2>1, <2>2 DEF Watches
<1>7. ASSUME NEW c \in Callers, Starting(c) PROVE Owed'
  <2>0. UNCHANGED <<board, closing, shutdown, operationSeq, req>>
    BY <1>7 DEF Starting, StartPoller, PollerGone, InstallPoller, session
  <2>1. \A d \in Callers \ {c} : pc'[d] = pc[d] /\ loc'[d] = loc[d]
    BY <1>0, <1>7 DEF Starting, StartPoller, PollerGone, InstallPoller, StopPoller, Return,
                      Goto, LSet
  <2>2. CASE pc'[c] = "pollerGone" \/ (pc'[c] = "installPoller" /\ loc'[c].seq = operationSeq')
    BY <2>2 DEF Owed, MainOwes, SetupOwes, Callers
  <2>3. CASE StartPoller(c)
    BY <1>0, <1>1, <2>0, <2>2, <2>3 DEF StartPoller, StopPoller, Goto, CurrentBoard
  <2>4. CASE PollerGone(c)
    <3>1. pc'[c] = "installPoller" /\ loc'[c] = [loc[c] EXCEPT !.seq = operationSeq, !.target = None]
      BY <1>0, <2>4 DEF PollerGone, Goto, LSet
    <3>2. [loc[c] EXCEPT !.seq = operationSeq, !.target = None].seq = operationSeq
      BY <1>0 DEF CallerState
    <3> QED
      BY <2>0, <2>2, <3>1, <3>2
  <2>5. CASE InstallPoller(c)
    <3>1. PICK p \in FreeSlots(Pollers) : Spawn(p, loc[c].seq, loc[c].assume)
      BY <2>5 DEF InstallPoller
    <3>2. p \in Pollers
      BY DEF FreeSlots
    <3>3. CASE loc[c].seq = operationSeq
      BY <1>6, <2>0, <3>1, <3>2, <3>3 DEF Owed
    <3>4. CASE loc[c].seq # operationSeq
      <4>1. \A q \in Pollers : Watches(q) => Watches(q)'
        <5>1. ASSUME NEW q \in Pollers, Watches(q) PROVE Watches(q)'
          <6>1. wpc[q] # "dead"
            BY <5>1 DEF Watches
          <6> QED
            BY <1>5, <2>0, <3>1, <5>1, <6>1
        <5> QED
          BY <5>1
      <4>2. pc[c] = "installPoller"
        BY <2>5 DEF InstallPoller
      <4>3. MainOwes => MainOwes'
        <5>1. CASE c = Main
          BY <3>4, <4>2, <5>1 DEF MainOwes
        <5>2. CASE c # Main
          BY <1>0, <2>0, <2>1, <5>2 DEF MainOwes
        <5> QED
          BY <5>1, <5>2
      <4>4. \A d \in Setups : SetupOwes(d) => SetupOwes(d)'
        <5>1. ~(c \in Setups /\ SetupOwes(c))
          BY <3>4, <4>2 DEF SetupOwes, SetupExchanges
        <5>2. ASSUME NEW d \in Setups, SetupOwes(d) PROVE SetupOwes(d)'
          BY <1>0, <1>4, <2>0, <2>1, <5>1, <5>2
        <5> QED
          BY <5>2
      <4> QED
        BY <1>2, <2>0, <4>1, <4>3, <4>4
    <3> QED
      BY <3>3, <3>4
  <2> QED
    BY <1>7, <2>3, <2>4, <2>5 DEF Starting
\* The request loop's steps that leave the board, the pollers and the setups alone.
<1>8. ASSUME UNCHANGED <<board, closing, shutdown, operationSeq>>,
             \A p \in Pollers : wpc'[p] = wpc[p] /\ wk'[p] = wk[p],
             \A c \in Setups : pc'[c] = pc[c] /\ loc'[c] = loc[c],
             MainOwes => MainOwes'
      PROVE  Owed'
  BY <1>2, <1>4, <1>8 DEF Watches
<1> DEFINE Steady == UNCHANGED <<board, closing, shutdown, operationSeq, workers>>
                     /\ \A c \in Setups : pc'[c] = pc[c] /\ loc'[c] = loc[c]
<1>9. ASSUME Steady, MainOwes => MainOwes' PROVE Owed'
  BY <1>0, <1>8, <1>9 DEF workers
<1>10. ASSUME NEW l, Goto(Main, l) PROVE pc'[Main] = l /\ \A c \in Setups : pc'[c] = pc[c]
  BY <1>0, <1>10 DEF Goto
<1>11. ASSUME NEW r, LSet(Main, r) PROVE \A c \in Setups : loc'[c] = loc[c]
  BY <1>0, <1>11 DEF LSet
<1>12. ASSUME MainOwes' PROVE Owed'
  BY <1>12 DEF Owed
<1>13. ASSUME Return(Main), UNCHANGED <<board, closing, shutdown, operationSeq, workers>>,
              ~MainOwes
       PROVE  Owed'
  BY <1>9, <1>10, <1>11, <1>13 DEF Return
<1>14. CASE MainStop
  <2>1. CASE MainOwes
    <3>1. req \in Restarting /\ pc'[Main] \in {"previewGone", "pollerStopped"} /\ UNCHANGED req
      BY <1>0, <1>14, <2>1 DEF MainStop, StopPreview, StopPoller, Goto, MainOwes
    <3> QED
      BY <1>12, <3>1 DEF MainOwes
  <2>2. CASE ~MainOwes
    <3>1. StopPreview(Main, "previewGone")
      BY <1>14, <2>2 DEF MainStop, MainOwes, BoardsAreKnown
    <3>2. CloseStop(previewReg) /\ UNCHANGED <<wpc, board, closing, shutdown, operationSeq>>
      BY <1>14, <3>1 DEF MainStop, StopPreview, session
    <3>3. \A p \in Pollers : wpc'[p] = wpc[p] /\ wk'[p] = wk[p]
      BY <1>0, <3>2, CloseStopStops
    <3> QED
      BY <1>8, <1>10, <1>11, <2>2, <3>1, <3>2, <3>3 DEF StopPreview
  <2> QED
    BY <2>1, <2>2
<1>15. CASE MainStopped
  <2>1. PICK l, r : /\ Goto(Main, l) /\ LSet(Main, r)
                    /\ MainOwes => l \in {"stopPreview", "stopPoller", "lock"}
    BY <1>15 DEF MainStopped, MainOwes, Restarting, Cleanup, UserOps
  <2>2. MainOwes => req \in Restarting
    BY <1>15 DEF MainStopped, MainOwes
  <2>3. UNCHANGED <<board, closing, shutdown, operationSeq, workers, req>>
    BY <1>15 DEF MainStopped, session
  <2>4. MainOwes => MainOwes'
    BY <1>10, <2>1, <2>2, <2>3 DEF MainOwes
  <2> QED
    BY <1>9, <1>10, <1>11, <2>1, <2>3, <2>4
<1>16. CASE MainLock
  <2>1. pc'[Main] = "locked" /\ pc[Main] = "lock" /\ UNCHANGED req
    BY <1>0, <1>16 DEF MainLock, Goto
  <2>2. Steady
    BY <1>10, <1>11, <1>16 DEF MainLock, session
  <2> QED
    BY <1>9, <2>1, <2>2 DEF MainOwes
\* A handler that returns without a poller had no board to return to.
<1>17. ASSUME pc[Main] \in {"locked", "reset", "exec"}, loc[Main].board = 0 \/ ~IsCurrentBoard(loc[Main].board)
       PROVE  CurrentBoard = 0
  BY <1>17 DEF BoardsAreKnown, IsCurrentBoard, CurrentBoard
<1>18. ASSUME UNCHANGED <<board, closing>> PROVE CurrentBoard # 0
  BY <1>18, <1>1 DEF CurrentBoard
<1>19. CASE RunPreflight \/ RunReset \/ RunExec \/ StopScript
  <2>1. UNCHANGED <<board, closing, shutdown, operationSeq, workers, req>>
    BY <1>19 DEF RunPreflight, RunReset, RunExec, StopScript, session
  <2>2. req # "runEmpty"
    OBVIOUS
  <2>3. CASE pc'[Main] = "startPoller"
    BY <1>12, <2>3 DEF MainOwes
  <2>4. CASE RunPreflight
    <3>1. pc'[Main] \in {"reset", "startPoller"} /\ req \in Restarting
      BY <1>10, <1>17, <1>18, <2>1, <2>2, <2>4
         DEF RunPreflight, Locked, ToPoller, b0, Restarting, UserOps
    <3> QED
      BY <1>12, <2>1, <3>1 DEF MainOwes
  <2>5. CASE RunReset
    <3>1. pc'[Main] = "exec" /\ pc[Main] = "reset" /\ \A c \in Setups : pc'[c] = pc[c]
          /\ UNCHANGED loc
      BY <1>10, <1>17, <1>18, <2>1, <2>5 DEF RunReset, b0
    <3> QED
      BY <1>9, <2>1, <3>1 DEF MainOwes
  <2>6. CASE RunExec
    BY <1>10, <2>3, <2>6 DEF RunExec, ToPoller
  <2>7. CASE StopScript
    BY <1>10, <1>17, <1>18, <2>1, <2>3, <2>7 DEF StopScript, Locked, ToPoller, b0
  <2> QED
    BY <1>19, <2>4, <2>5, <2>6, <2>7
<1>20. CASE CleanupClose \/ CleanupDetach \/ CleanupTeardown
  BY <1>1, <1>20 DEF CleanupClose, CleanupDetach, CleanupTeardown, BoardsAreKnown
<1>21. CASE ConnectOpen
  <2>1. CASE Return(Main) /\ UNCHANGED <<board, closing>>
    BY <1>18, <1>21, <2>1 DEF ConnectOpen, BoardsAreKnown
  <2>2. CASE Goto(Main, "negotiate")
    BY <1>10, <1>12, <2>2 DEF MainOwes
  <2> QED
    BY <1>21, <2>1, <2>2 DEF ConnectOpen
<1>22. CASE ConnectNegotiate \/ ConnectLegacy
  <2>1. pc'[Main] \in {"probeLegacy", "probeV2", "startPoller"}
    BY <1>10, <1>22 DEF ConnectNegotiate, ConnectLegacy, ToPoller
  <2> QED
    BY <1>12, <2>1 DEF MainOwes
<1>23. CASE ConnectRejected \/ Abort
  BY <1>1, <1>23 DEF ConnectRejected, Abort, AbortBoard, EndSession
<1>24. CASE ConnectV2
  <2>1. PICK c \in Setups :
           /\ pc' = [pc EXCEPT ![Main] = "idle", ![c] = "lock"]
           /\ loc' = [loc EXCEPT ![Main] = IdleCaller,
                                 ![c] = [IdleCaller EXCEPT !.board = b0, !.seq = operationSeq]]
    BY <1>24 DEF ConnectV2, FreeSetups
  <2>2. pc[Main] = "probeV2" /\ UNCHANGED <<operationSeq, board, closing>>
    BY <1>24 DEF ConnectV2, session
  <2>3. pc'[c] = "lock" /\ loc'[c].seq = operationSeq /\ loc'[c].board = b0
    BY <1>0, <2>1 DEF IdleCaller
  <2>4. board = b0 /\ ~closing
    BY <1>1, <1>18, <2>2 DEF BoardsAreKnown, b0, CurrentBoard
  <2>5. SetupOwes(c)'
    BY <2>2, <2>3, <2>4 DEF SetupOwes, SetupCurrent, IsWorkerCurrent
  <2> QED
    BY <2>5 DEF Owed
<1>25. CASE PreviewDecide \/ BeginWriteFile \/ EndWriteFile \/ Query
  <2>1. UNCHANGED <<board, closing, shutdown, operationSeq, workers>>
    BY <1>25 DEF PreviewDecide, BeginWriteFile, EndWriteFile, Query, session
  <2>2. ~MainOwes
    BY <1>25 DEF PreviewDecide, BeginWriteFile, EndWriteFile, Query, Locked, MainOwes,
       Restarting,
                 UserOps
  <2>3. \A c \in Setups : pc'[c] = pc[c] /\ loc'[c] = loc[c]
    BY <1>10, <1>11, <1>25 DEF PreviewDecide, BeginWriteFile, EndWriteFile, Query, Return
  <2> QED
    BY <1>9, <2>1, <2>2, <2>3
<1>26. CASE WriteFileChunk
  <2>1. UNCHANGED <<board, closing, shutdown, operationSeq, workers>>
    BY <1>1, <1>26 DEF WriteFileChunk, ReportBoardDisconnected, EndSession, session
  <2>2. ~MainOwes
    BY <1>26 DEF WriteFileChunk, Locked, MainOwes, Restarting, UserOps
  <2> QED
    BY <1>13, <1>26, <2>1, <2>2 DEF WriteFileChunk
<1>27. CASE InstallPreview
  <2>1. PICK v \in Previews : Spawn(v, loc[Main].seq, FALSE)
    BY <1>27 DEF InstallPreview, FreeSlots
  <2>2. \A p \in Pollers : wpc'[p] = wpc[p] /\ wk'[p] = wk[p]
    BY <1>0, <2>1 DEF Spawn, WGoto, WSet
  <2>3. ~MainOwes /\ UNCHANGED <<board, closing, shutdown, operationSeq>>
    BY <1>27 DEF InstallPreview, MainOwes, session
  <2> QED
    BY <1>8, <1>10, <1>11, <1>27, <2>2, <2>3 DEF InstallPreview, Return
<1>28. CASE ExitAfterCleanup \/ Exit
  BY <1>1, <1>28 DEF ExitAfterCleanup, Exit
<1>29. CASE MainStep
  BY <1>0, <1>7, <1>14, <1>15, <1>16, <1>19, <1>20, <1>21, <1>22, <1>23, <1>24, <1>25, <1>26,
     <1>27, <1>28, <1>29 DEF MainStep
<1>30. ASSUME NEW c \in Setups, Setup(c) PROVE Owed'
  <2>1. CASE SetupLock(c) \/ SetupExchange(c)
    <3>1. UNCHANGED <<board, closing, shutdown, operationSeq, workers, req>>
      BY <2>1 DEF SetupLock, SetupExchange, session
    <3>2. \A d \in Callers \ {c} : pc'[d] = pc[d] /\ loc'[d] = loc[d]
      BY <1>0, <2>1 DEF SetupLock, SetupExchange, Return, Goto, LSet
    <3>3. CASE SetupCurrent(c)
      <4>1. UNCHANGED loc /\ pc'[c] \in SetupExchanges \cup {"startPoller"}
        BY <1>0, <2>1, <3>3 DEF SetupLock, SetupExchange, SetupNext, Goto, SetupExchanges
      <4>2. SetupOwes(c)'
        BY <3>1, <3>3, <4>1 DEF SetupOwes, SetupCurrent, IsWorkerCurrent
      <4> QED
        BY <4>2 DEF Owed
    <3>4. CASE ~SetupCurrent(c)
      <4>1. ~SetupOwes(c)
        BY <2>1, <3>4 DEF SetupLock, SetupExchange, SetupOwes, SetupExchanges
      <4>2. \A d \in Setups : SetupOwes(d) => SetupOwes(d)'
        BY <1>0, <1>4, <3>1, <3>2, <4>1
      <4>3. MainOwes => MainOwes'
        BY <1>0, <3>1, <3>2 DEF MainOwes
      <4> QED
        BY <1>2, <1>3, <3>1, <4>2, <4>3
    <3> QED
      BY <3>3, <3>4
  <2> QED
    BY <1>0, <1>7, <1>30, <2>1 DEF Setup
<1>31. ASSUME NEW w \in Workers, Worker(w) PROVE Owed'
  <2>1. UNCHANGED <<shutdown, operationSeq, callers, board, closing>>
    BY <1>1, <1>31 DEF Worker, WorkerLoop, WorkerTry, WorkerLock, WorkerWait, WorkerOp,
       WorkerReport,
                 WorkerLost, WorkerLocal, ReportBoardDisconnected, EndSession, session
  <2>2. CurrentBoard # 0 /\ CurrentBoard' # 0
    BY <1>1, <2>1 DEF CurrentBoard
  <2>3. ASSUME NEW p \in Pollers, Watches(p) PROVE Watches(p)'
    <3>1. CASE p = w
      BY <1>31, <2>2, <2>3, <3>1, WatcherLives
    <3>2. CASE p # w
      <4>1. wpc'[p] = wpc[p] /\ wk'[p] = wk[p]
        BY <1>0, <1>31, <3>2, WorkerKeepsStop
      <4> QED
        BY <2>1, <2>3, <4>1 DEF Watches
    <3> QED
      BY <3>1, <3>2
  <2>4. MainOwes => MainOwes'
    BY <2>1 DEF MainOwes, callers
  <2>5. \A c \in Setups : SetupOwes(c) => SetupOwes(c)'
    BY <1>4, <2>1 DEF callers
  <2> QED
    BY <1>2, <2>1, <2>3, <2>4, <2>5
<1>32. ASSUME NEW r \in Requests, Receive(r) PROVE Owed'
  <2>1. UNCHANGED <<board, closing, shutdown, workers, loc>> /\ pc[Main] = "idle" /\ req' = r
    BY <1>32 DEF Receive
  <2>2. CASE r \in Restarting
    <3>1. r = "connect" => board # 0
      BY <1>1, <2>1
    <3>2. pc'[Main] \in {"stopPreview", "stopPoller"}
      BY <1>10, <1>32, <2>2, <3>1 DEF Receive, Restarting
    <3> QED
      BY <1>12, <2>1, <2>2, <3>2 DEF MainOwes
  <2>3. CASE r \notin Restarting
    <3>1. UNCHANGED operationSeq /\ \A c \in Setups : pc'[c] = pc[c]
      BY <1>10, <1>32, <2>3 DEF Receive, Restarting
    <3>2. ~MainOwes
      BY <2>1 DEF MainOwes
    <3> QED
      BY <1>9, <2>1, <3>1, <3>2
  <2> QED
    BY <2>2, <2>3
<1>33. CASE (\E b \in Boards : ScriptEnds(b)) \/ UNCHANGED vars
  <2>1. UNCHANGED <<board, closing, shutdown, operationSeq, workers, pc, loc, req>>
    BY <1>33 DEF ScriptEnds, vars, session, callers, workers
  <2> QED
    BY <1>9, <2>1 DEF MainOwes
<1> QED
  BY <1>23, <1>28, <1>29, <1>30, <1>31, <1>32, <1>33 DEF Next, Exited

\* The request under way is one the client sends.
RequestsAreSent == req \in Requests \cup {"query"}

LEMMA SentStep == RequestsAreSent /\ [Next]_vars => RequestsAreSent'
<1> SUFFICES ASSUME RequestsAreSent, [Next]_vars PROVE RequestsAreSent'
  OBVIOUS
<1>1. ASSUME UNCHANGED req PROVE RequestsAreSent'
  BY <1>1 DEF RequestsAreSent
<1>2. ASSUME NEW c, Starting(c) PROVE UNCHANGED req
  BY <1>2 DEF Starting, StartPoller, PollerGone, InstallPoller
<1>3. CASE MainStep
  BY <1>1, <1>2, <1>3 DEF MainStep, MainStop, MainStopped, MainLock, RunPreflight, RunReset,
     RunExec,
     StopScript, CleanupClose, CleanupDetach, CleanupTeardown, ConnectOpen, ConnectNegotiate,
     ConnectRejected, ConnectLegacy, ConnectV2, PreviewDecide, InstallPreview, BeginWriteFile,
     WriteFileChunk, EndWriteFile, Query, ExitAfterCleanup, callers
<1>4. ASSUME NEW c \in Setups, Setup(c) PROVE RequestsAreSent'
  BY <1>1, <1>2, <1>4 DEF Setup, SetupLock, SetupExchange
<1>5. ASSUME NEW w \in Workers, Worker(w) PROVE RequestsAreSent'
  BY <1>1, <1>5 DEF Worker, WorkerLoop, WorkerTry, WorkerLock, WorkerWait, WorkerOp,
     WorkerReport,
                    WorkerLost, WorkerLocal, callers
<1>6. ASSUME NEW r \in Requests, Receive(r) PROVE RequestsAreSent'
  BY <1>6 DEF Receive, RequestsAreSent
<1>7. CASE (\E b \in Boards : ScriptEnds(b)) \/ Abort \/ Exit \/ UNCHANGED vars
  BY <1>1, <1>7 DEF ScriptEnds, Abort, Exit, vars, callers
<1> QED
  BY <1>3, <1>4, <1>5, <1>6, <1>7 DEF Next, Exited

\* Between requests a connected board is watched, unless the client sends a request
\* that stops the poller and has nothing to start a new one for (main.go:364, 521).
THEOREM BoardsAreWatched == "runEmpty" \notin Requests /\ Spec => []BoardIsWatched
<1> DEFINE Watched == WatchIsKept /\ RequestsAreSent
<1>1. Init => Watched
  BY DEF Init, WatchIsKept, BoardsAreKnown, Attached, CurrentBoard, RequestsAreSent, Callers
<1>2. "runEmpty" \notin Requests => (TypeOK /\ Watched /\ [Next]_vars => Watched')
  BY KnownStep, OwedStep, SentStep DEF WatchIsKept, RequestsAreSent
<1>3. Watched => BoardIsWatched
  BY DEF WatchIsKept, BoardIsWatched, Settled, Attached, Owed, Watches, MainOwes, SetupOwes,
         SetupExchanges
<1>4. CASE "runEmpty" \notin Requests
  BY <1>1, <1>2, <1>3, <1>4, TypeCorrect, PTL DEF Spec
<1>5. CASE ~("runEmpty" \notin Requests)
  BY <1>5
<1> QED
  BY <1>4, <1>5

(***************************************************************************)
(* Streamed writes: those who wait for one, and where its chunks go.        *)
(***************************************************************************)

\* A channel is open exactly during a write, and whoever waits does so on a channel.
WaitsAreReal ==
  /\ fileWrite = NoWrite <=> fileWriteDone = 0
  /\ \A w \in Workers : wpc[w] = "wait" => wk[w].wait # 0

\* Every step keeps the waits real.
LEMMA WaitsStep == TypeOK /\ WaitsAreReal /\ [Next]_vars => WaitsAreReal'
<1> SUFFICES ASSUME TypeOK, WaitsAreReal, [Next]_vars PROVE WaitsAreReal'
  OBVIOUS
<1>0. /\ wpc \in [Workers -> WorkerPCs] /\ wk \in [Workers -> WorkerState]
      /\ Pollers \subseteq Workers /\ Previews \subseteq Workers
      /\ pollerReg \in Workers \cup {None} /\ previewReg \in Workers \cup {None}
      /\ channels \in Nat /\ fileWrite \in [board : 0..MaxBoards, written : Nat]
      /\ Main \in Callers /\ Setups \subseteq Callers
  BY DEF TypeOK, Workers, Callers
<1> DEFINE WaitsStay == \A w \in Workers : wpc'[w] = "wait" =>
                          wpc[w] = "wait" /\ wk'[w].wait = wk[w].wait
           Channels == fileWrite' = NoWrite <=> fileWriteDone' = 0
<1>1. ASSUME WaitsStay, Channels PROVE WaitsAreReal'
  BY <1>1 DEF WaitsAreReal
<1>2. UNCHANGED workers => WaitsStay
  BY DEF workers
<1>3. UNCHANGED upload => Channels
  BY DEF upload, WaitsAreReal
<1>4. ClearFileWriteLocked => Channels
  BY DEF ClearFileWriteLocked, NoWrite
<1>5. ASSUME NEW w \in Workers \cup {None}, CloseStop(w), UNCHANGED wpc PROVE WaitsStay
  <2>1. CASE w \in Workers /\ w # None
    <3>1. [wk[w] EXCEPT !.stop = TRUE].wait = wk[w].wait
      BY <1>0, <2>1 DEF WorkerState
    <3> QED
      BY <1>0, <1>5, <2>1, <3>1 DEF CloseStop, WSet
  <2> QED
    BY <1>5, <2>1 DEF CloseStop
<1>6. ASSUME NEW w \in Workers, NEW n, NEW a, Spawn(w, n, a) PROVE WaitsStay
  BY <1>0, <1>6 DEF Spawn, WGoto, WSet
<1> HIDE DEF WaitsStay, Channels
<1>7. ASSUME NEW c \in Callers, Starting(c) PROVE WaitsAreReal'
  BY <1>0, <1>1, <1>2, <1>3, <1>5, <1>6, <1>7
     DEF Starting, StartPoller, StopPoller, PollerGone, InstallPoller, FreeSlots, workers
<1>8. CASE MainStop \/ InstallPreview
  BY <1>0, <1>1, <1>3, <1>5, <1>6, <1>8 DEF MainStop, StopPreview, StopPoller, InstallPreview,
                                            FreeSlots
<1>9. CASE \/ MainStopped \/ MainLock \/ RunPreflight \/ RunReset \/ RunExec \/ StopScript
           \/ CleanupDetach \/ CleanupTeardown \/ ConnectOpen \/ ConnectNegotiate
           \/ ConnectRejected \/ ConnectLegacy \/ ConnectV2 \/ PreviewDecide \/ Query
           \/ ExitAfterCleanup
  BY <1>1, <1>2, <1>3, <1>9
     DEF MainStopped, MainLock, RunPreflight, RunReset, RunExec, StopScript, CleanupDetach,
         CleanupTeardown, ConnectOpen, ConnectNegotiate, ConnectRejected, ConnectLegacy,
         ConnectV2, PreviewDecide, Query, ExitAfterCleanup
<1>10. CASE CleanupClose \/ EndWriteFile
  BY <1>1, <1>2, <1>4, <1>10 DEF CleanupClose, EndWriteFile
<1>11. CASE BeginWriteFile
  <2>1. CASE PortOpen(b0) /\ fileWrite' = [board |-> b0, written |-> 0] /\ fileWriteDone' = channels + 1
    <3>1. fileWrite' # NoWrite /\ fileWriteDone' # 0
      BY <1>0, <2>1 DEF PortOpen, NoWrite
    <3> QED
      BY <1>1, <1>2, <1>11, <3>1 DEF BeginWriteFile, Channels
  <2> QED
    BY <1>1, <1>2, <1>3, <1>4, <1>11, <2>1 DEF BeginWriteFile
<1>12. CASE WriteFileChunk
  <2>1. CASE /\ ~NoActiveWrite /\ fileWrite' = [fileWrite EXCEPT !.written = @ + 1]
             /\ UNCHANGED fileWriteDone
    <3>1. fileWrite' # NoWrite /\ fileWrite # NoWrite
      BY <1>0, <2>1 DEF NoActiveWrite, NoWrite
    <3> QED
      BY <1>1, <1>2, <1>12, <2>1, <3>1 DEF WriteFileChunk, Channels, WaitsAreReal
  <2> QED
    BY <1>1, <1>2, <1>3, <1>4, <1>12, <2>1 DEF WriteFileChunk
<1>13. CASE MainStep
  BY <1>0, <1>7, <1>8, <1>9, <1>10, <1>11, <1>12, <1>13 DEF MainStep
<1>14. ASSUME NEW c \in Setups, Setup(c) PROVE WaitsAreReal'
  BY <1>0, <1>1, <1>2, <1>3, <1>7, <1>14 DEF Setup, SetupLock, SetupExchange
<1>15. ASSUME NEW w \in Workers, Worker(w) PROVE WaitsAreReal'
  <2>0. UNCHANGED upload /\ wk[w] \in WorkerState
    BY <1>0, <1>15 DEF Worker, WorkerLoop, WorkerTry, WorkerLock, WorkerWait, WorkerOp,
       WorkerReport,
                       WorkerLost, WorkerLocal
  <2>1. \A u \in Workers \ {w} : wpc'[u] = wpc[u] /\ wk'[u] = wk[u]
    BY <1>15, WorkerKeepsStop
  <2>2. ASSUME NEW l, WGoto(w, l), l # "wait" PROVE wpc'[w] # "wait"
    BY <1>0, <2>2 DEF WGoto
  <2>3. GiveUp(w) \/ LinkError(w) \/ Finished(w) \/ Again(w) \/ (\E a : NextOp(w, a))
          => wpc'[w] # "wait"
    BY <2>2 DEF GiveUp, LinkError, Finished, Again, NextOp
  <2>4. CASE wpc'[w] = "wait"
    <3>1. WorkerLock(w)
      BY <1>15, <2>2, <2>3, <2>4
         DEF Worker, WorkerLoop, WorkerTry, WorkerWait, WorkerOp, WorkerReport, WorkerLost,
             PollerOk, PollerFails, PreviewOk, PreviewFails
    <3>2. fileWrite # NoWrite /\ WSet(w, [wk[w] EXCEPT !.wait = fileWriteDone])
      BY <2>2, <2>3, <2>4, <3>1 DEF WorkerLock
    <3>3. wk'[w].wait = fileWriteDone
      BY <1>0, <2>0, <3>2 DEF WSet, WorkerState
    <3> QED
      BY <2>0, <2>1, <3>2, <3>3 DEF WaitsAreReal, upload
  <2> QED
    BY <2>0, <2>1, <2>4 DEF WaitsAreReal, upload
<1>16. CASE (\E r \in Requests : Receive(r)) \/ (\E b \in Boards : ScriptEnds(b)) \/ Abort
            \/ Exit \/ UNCHANGED vars
  BY <1>1, <1>2, <1>3, <1>16 DEF Receive, ScriptEnds, Abort, Exit, vars
<1> QED
  BY <1>13, <1>14, <1>15, <1>16 DEF Next, Exited

\* A worker that waits for the end of a write waits on a channel that is open, or closed
\* already (main.go:1450): nobody is left behind.
THEOREM NobodyMissesTheEnd == Spec => []NoLostWakeup
<1>1. Init => WaitsAreReal
  BY DEF Init, WaitsAreReal
<1>2. TypeOK /\ WaitsAreReal /\ [Next]_vars => WaitsAreReal'
  BY WaitsStep
<1>3. WaitsAreReal => NoLostWakeup
  BY DEF WaitsAreReal, NoLostWakeup
<1> QED
  BY <1>1, <1>2, <1>3, TypeCorrect, PTL DEF Spec

\* A handler whose board's port is open works on the attached board.
LockedOnBoard == pc[Main] = "locked" /\ PortOpen(loc[Main].board) => board = loc[Main].board

\* Every step keeps the handler on the attached board.
LEMMA LockedStep == TypeOK /\ LockedOnBoard /\ [Next]_vars => LockedOnBoard'
<1> SUFFICES ASSUME TypeOK, LockedOnBoard, [Next]_vars PROVE LockedOnBoard'
  OBVIOUS
<1>0. /\ pc \in [Callers -> MainPCs \cup SetupPCs] /\ loc \in [Callers -> CallerState]
      /\ Main \in Callers /\ Main \notin Setups /\ Setups \subseteq Callers
  BY SlotsAssumption DEF TypeOK, Callers
<1>1. ASSUME pc'[Main] # "locked" PROVE LockedOnBoard'
  BY <1>1 DEF LockedOnBoard
<1>2. ASSUME UNCHANGED <<pc[Main], loc[Main]>>, UNCHANGED <<board, closed>> \/ EndSession(board)
      PROVE  LockedOnBoard'
  BY <1>2 DEF LockedOnBoard, EndSession, PortOpen
<1>3. CASE MainLock
  <2>1. loc'[Main].board = CurrentBoard /\ UNCHANGED board
    BY <1>0, <1>3, LocalsKeepBoard DEF MainLock, LSet, session
  <2> QED
    BY <2>1 DEF LockedOnBoard, CurrentBoard, PortOpen
<1>4. CASE MainStop \/ MainStopped \/ Starting(Main) \/ RunPreflight \/ RunReset \/ RunExec \/ StopScript
  BY <1>0, <1>1, <1>4 DEF MainStop, StopPreview, StopPoller, MainStopped, Starting, StartPoller,
         PollerGone, InstallPoller, RunPreflight, RunReset, RunExec, StopScript, ToPoller, Return, Goto
<1>5. CASE CleanupClose \/ CleanupDetach \/ CleanupTeardown
  BY <1>0, <1>1, <1>5 DEF CleanupClose, CleanupDetach, CleanupTeardown, CleanupDone, Goto
<1>6. CASE ConnectOpen \/ ConnectNegotiate \/ ConnectRejected \/ ConnectLegacy \/ ConnectV2
  BY <1>0, <1>1, <1>6 DEF ConnectOpen, ConnectNegotiate, ConnectRejected, ConnectLegacy,
     ConnectV2,
                          FreeSetups, ToPoller, Return, Goto
<1>7. CASE PreviewDecide \/ InstallPreview \/ BeginWriteFile \/ WriteFileChunk \/ EndWriteFile \/ Query
  BY <1>0, <1>1, <1>7 DEF PreviewDecide, InstallPreview, BeginWriteFile, WriteFileChunk,
     EndWriteFile,
                          Query, Return, Goto
<1>8. CASE ExitAfterCleanup \/ Exit \/ (\E b \in Boards : ScriptEnds(b)) \/ UNCHANGED vars
  BY <1>2, <1>8 DEF ExitAfterCleanup, Exit, ScriptEnds, vars, callers, session, ports
<1>9. CASE MainStep
  BY <1>3, <1>4, <1>5, <1>6, <1>7, <1>8, <1>9 DEF MainStep
<1>10. ASSUME NEW c \in Setups, Setup(c) PROVE LockedOnBoard'
  <2>1. UNCHANGED <<board, closed, pc[Main], loc[Main]>>
    BY <1>0, <1>10 DEF Setup, SetupLock, SetupExchange, Starting, StartPoller, PollerGone,
                       InstallPoller, StopPoller, Return, Goto, LSet, session, ports
  <2> QED
    BY <1>2, <2>1
<1>11. ASSUME NEW w \in Workers, Worker(w) PROVE LockedOnBoard'
  <2>1. UNCHANGED callers /\ (UNCHANGED <<board, closed>> \/ EndSession(board))
    BY <1>11 DEF Worker, WorkerLoop, WorkerTry, WorkerLock, WorkerWait, WorkerOp, WorkerReport,
                 WorkerLost, WorkerLocal, ReportBoardDisconnected, session, ports, callers
  <2> QED
    BY <1>2, <2>1 DEF callers
<1>12. CASE \E r \in Requests : Receive(r)
  BY <1>0, <1>1, <1>12 DEF Receive, Goto
<1>13. CASE Abort
  BY <1>2, <1>13 DEF Abort, AbortBoard, callers
<1> QED
  BY <1>8, <1>9, <1>10, <1>11, <1>12, <1>13 DEF Next, Exited

\* A chunk is accepted only by the board its write was begun on, while that board is
\* attached (main.go:755).
THEOREM ChunksAreHome == Spec => ChunksReachTheirBoard
<1>1. Init => LockedOnBoard
  BY DEF Init, LockedOnBoard, Callers, IdleCaller, PortOpen
<1>2. TypeOK /\ LockedOnBoard /\ [Next]_vars => LockedOnBoard'
  BY LockedStep
<1>3. TypeOK /\ LockedOnBoard /\ [Next]_vars
        => [fileWrite'.written > fileWrite.written => fileWrite.board = board]_vars
  <2> SUFFICES ASSUME TypeOK, LockedOnBoard, [Next]_vars, fileWrite'.written > fileWrite.written
               PROVE  fileWrite.board = board
    OBVIOUS
  <2>1. fileWrite \in [board : 0..MaxBoards, written : Nat] /\ fileWrite.written \in Nat
    BY DEF TypeOK
  <2>2. fileWrite' # fileWrite /\ fileWrite' # NoWrite
    BY <2>1 DEF NoWrite
  <2>3. ASSUME NEW c, Starting(c) PROVE UNCHANGED fileWrite
    BY <2>3 DEF Starting, StartPoller, PollerGone, InstallPoller, upload
  <2>4. ~UNCHANGED fileWrite /\ ~UNCHANGED upload
    BY <2>2 DEF upload
  <2>5. ASSUME MainStep PROVE BeginWriteFile \/ WriteFileChunk
    BY <2>2, <2>3, <2>4, <2>5
       DEF MainStep, MainStop, MainStopped, MainLock, RunPreflight, RunReset, RunExec, StopScript,
           CleanupClose, CleanupDetach, CleanupTeardown, ConnectOpen, ConnectNegotiate,
           ConnectRejected, ConnectLegacy, ConnectV2, PreviewDecide, InstallPreview, EndWriteFile,
           Query, ExitAfterCleanup, ClearFileWriteLocked
  <2>6. ASSUME NEW c \in Setups, Setup(c) PROVE FALSE
    BY <2>3, <2>4, <2>6 DEF Setup, SetupLock, SetupExchange
  <2>7. ASSUME NEW w \in Workers, Worker(w) PROVE FALSE
    BY <2>4, <2>7 DEF Worker, WorkerLoop, WorkerTry, WorkerLock, WorkerWait, WorkerOp,
       WorkerReport,
                      WorkerLost, WorkerLocal
  <2>8. ~\/ \E r \in Requests : Receive(r)
         \/ \E b \in Boards : ScriptEnds(b)
         \/ Abort \/ Exit \/ UNCHANGED vars
    BY <2>4 DEF Receive, ScriptEnds, Abort, Exit, vars
  <2>9. BeginWriteFile \/ WriteFileChunk
    BY <2>5, <2>6, <2>7, <2>8 DEF Next, Exited
  <2>10. ~BeginWriteFile
    <3>1. ASSUME BeginWriteFile PROVE fileWrite' = [board |-> b0, written |-> 0]
      BY <2>2, <2>4, <3>1 DEF BeginWriteFile, ClearFileWriteLocked
    <3> QED
      BY <2>1, <3>1
  <2>11. pc[Main] = "locked" /\ ~NoActiveWrite /\ PortOpen(b0)
    BY <2>2, <2>4, <2>9, <2>10 DEF WriteFileChunk, Locked, ClearFileWriteLocked
  <2> QED
    BY <2>11 DEF NoActiveWrite, LockedOnBoard, b0
<1> QED
  BY <1>1, <1>2, <1>3, TypeCorrect, PTL DEF Spec, ChunksReachTheirBoard

=============================================================================
