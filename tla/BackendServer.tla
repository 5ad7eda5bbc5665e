--------------------------- MODULE BackendServer ---------------------------
(***************************************************************************)
(* The Go backend process (native/go/cmd/canmv-backend/main.go): one main   *)
(* loop that answers the client's requests one at a time, the poller and    *)
(* preview goroutines that talk to the board in the background, and the     *)
(* goroutine that soft-resets a board after a capability-protocol connect.  *)
(*                                                                          *)
(* opMu serialises the multi-command board operations; boardMu's critical   *)
(* sections are atomic steps here.  Each s.operationSeq bump invalidates    *)
(* the workers started before it.  A goroutine's local code up to its next  *)
(* lock, wait or device exchange belongs to the step before it.             *)
(***************************************************************************)
EXTENDS Naturals, FiniteSets

CONSTANTS
  Main,            \* the request loop
  Setups,          \* slots for scheduleConnectSoftReset goroutines
  Pollers,         \* slots for poller goroutines (abandoned ones included)
  Previews,        \* slots for preview goroutines (abandoned ones included)
  None,            \* no owner / no registration
  Requests,        \* the kinds of request the client sends in this instance
  LinkErrorLimit,  \* consecutive link errors before a board counts as lost
  FileSize,        \* declared size of a streamed file, in chunks
  MaxBoards,       \* bound: successful opens of a serial port
  MaxSeq,          \* bound: user operations
  MaxWrites        \* bound: streamed file writes

Workers == Pollers \cup Previews
Callers == {Main} \cup Setups

UserOps   == {"run", "runEmpty", "exec", "stop"}
FileOps   == {"beginWrite", "chunk", "finish", "abortWrite", "fsOp"}
AllRequests == UserOps \cup FileOps \cup
               {"connect", "disconnect", "eof", "startPreview", "stopPreview", "query"}

ASSUME SlotsAssumption ==
  /\ Pollers \cap Previews = {}
  /\ Callers \cap Workers = {}
  /\ None \notin Callers \cup Workers
  /\ Main \notin Setups
ASSUME BoundsAssumption ==
  /\ Requests \subseteq AllRequests
  /\ LinkErrorLimit \in Nat \ {0, 1}
  /\ FileSize \in Nat
  /\ MaxBoards \in Nat \ {0}
  /\ MaxSeq \in Nat
  /\ MaxWrites \in Nat

VARIABLES
  board,            \* s.board: the number of the attached board, 0 for nil
  closing,          \* s.closing
  operationSeq,     \* s.operationSeq
  protocolHandler,  \* s.protocolHandler; "legacyNoTx" once CapTxBuf is disabled
  opMu,             \* owner of s.opMu
  fileWrite,        \* s.fileWrite, NoWrite for nil
  fileWriteDone,    \* s.fileWriteDone: number of the open channel, 0 for nil
  channels,         \* fileWriteDone channels made so far
  pollerReg,        \* the goroutine behind s.pollerStop/s.pollerDone
  previewReg,       \* the goroutine behind s.previewStop/s.previewDone
  wpc, wk,          \* workers: control point, locals
  pc, loc, req,     \* main and setups: control point, locals; main's request
  opened, closed,   \* ports opened so far; ports closed again
  script,           \* device: boards whose IDE script is running
  shutdown,         \* signal handler / parent watch: "no", "closing", "exited"
  endings,          \* ghost: how often each board's session was ended
  ran,              \* ghost: boards on which a user script was started
  uiRunning         \* ghost: last scriptState the client was told

session  == <<board, closing, operationSeq, protocolHandler>>
upload   == <<fileWrite, fileWriteDone, channels>>
regs     == <<pollerReg, previewReg>>
workers  == <<wpc, wk>>
callers  == <<pc, loc, req>>
ports    == <<opened, closed>>
ghosts   == <<endings, ran, uiRunning>>
vars     == <<session, opMu, upload, regs, workers, callers, ports, script,
              shutdown, ghosts>>

NoWrite == [board |-> 0, written |-> 0]
Boards  == 1..MaxBoards

PollerActs  == {"drain", "sync", "running", "settle"}
PreviewActs == {"size", "txdrain", "txsync", "refresh", "dump"}
IdleWorker  == [act |-> "drain", board |-> 0, seq |-> 0, stop |-> FALSE,
                errs |-> 0, running |-> FALSE, idle |-> 0, wait |-> 0]
IdleCaller  == [board |-> 0, seq |-> 0, target |-> None, assume |-> FALSE]

scriptStoppedConfirmations == 2

CurrentBoard          == IF closing THEN 0 ELSE board
IsCurrentBoard(b)     == ~closing /\ board = b
IsWorkerCurrent(b, n) == ~closing /\ board = b /\ operationSeq = n
HasCapabilitiesProtocol == protocolHandler = "v2"
SupportsTxBuf           == protocolHandler \in {"legacy", "v2"}
PortOpen(b)             == b # 0 /\ b \notin closed

\* The worker can do nothing for a while: a serial read in progress, or opMu
\* held by somebody else.  Only then can the 300 ms (poller) or 3 s (preview)
\* wait for its done channel run out.
Blocked(w) == wpc[w] = "op" \/ (wpc[w] = "lock" /\ opMu # None)

Awaited(w)   == \E c \in Callers : loc[c].target = w
FreeSlots(S) == {w \in S : wpc[w] = "dead" /\ ~Awaited(w)}

Init ==
  /\ board = 0 /\ closing = FALSE /\ operationSeq = 0 /\ protocolHandler = "nil"
  /\ opMu = None
  /\ fileWrite = NoWrite /\ fileWriteDone = 0 /\ channels = 0
  /\ pollerReg = None /\ previewReg = None
  /\ wpc = [w \in Workers |-> "dead"]
  /\ wk = [w \in Workers |-> IdleWorker]
  /\ pc = [c \in Callers |-> IF c = Main THEN "idle" ELSE "dead"]
  /\ loc = [c \in Callers |-> IdleCaller]
  /\ req = "query"
  /\ opened = 0 /\ closed = {}
  /\ script = {}
  /\ shutdown = "no"
  /\ endings = [b \in Boards |-> 0]
  /\ ran = {}
  /\ uiRunning = FALSE

(***************************************************************************)
(* Shared pieces of the handlers.                                           *)
(***************************************************************************)
Goto(c, l)      == pc' = [pc EXCEPT ![c] = l]
LSet(c, fields) == loc' = [loc EXCEPT ![c] = fields]
WGoto(w, l)     == wpc' = [wpc EXCEPT ![w] = l]
WSet(w, fields) == wk' = [wk EXCEPT ![w] = fields]

\* Faulty variant: the unlock does not belong to the caller that holds the lock.
ReturnUnlocking(c) ==
  /\ Goto(c, IF c = Main THEN "idle" ELSE "dead")
  /\ opMu' = None
  /\ LSet(c, IdleCaller)

\* A caller's handler returns: its deferred opMu.Unlock runs if it holds opMu.
Return(c) ==
  /\ Goto(c, IF c = Main THEN "idle" ELSE "dead")
  /\ opMu' = IF opMu = c THEN None ELSE opMu
  /\ LSet(c, IdleCaller)

\* Faulty variant: the port to close is looked up after s.board became nil.
EndSessionNilPort(b) ==
  /\ board' = 0
  /\ closing' = TRUE
  /\ protocolHandler' = "nil"
  /\ closed' = closed \cup {board'}
  /\ endings' = [endings EXCEPT ![b] = @ + 1]
  /\ uiRunning' = FALSE

\* The board's session is over: s.board = nil, s.closing = true, metadata and
\* port gone (reportBoardDisconnected and abortBoard).
EndSession(b) ==
  /\ board' = 0
  /\ closing' = TRUE
  /\ protocolHandler' = "nil"
  /\ closed' = closed \cup {b}
  /\ endings' = [endings EXCEPT ![b] = @ + 1]
  /\ uiRunning' = FALSE

\* Faulty variant: every report ends the session of the board it names.
ReportAnyBoardDisconnected(b) == EndSession(b)

\* reportBoardDisconnected: only the first report of the attached board counts.
ReportBoardDisconnected(b) ==
  IF board # b \/ closing
  THEN UNCHANGED <<board, closing, protocolHandler, closed, endings, uiRunning>>
  ELSE EndSession(b)

\* Faulty variant: the channel of the finished write stays open.
ClearFileWriteOnly ==
  /\ fileWrite' = NoWrite
  /\ UNCHANGED <<fileWriteDone, channels>>

ClearFileWriteLocked ==
  /\ fileWrite' = NoWrite
  /\ fileWriteDone' = 0
  /\ UNCHANGED channels

\* Faulty variant: the stop channel is forgotten instead of closed.
ForgetStop(w) == UNCHANGED wk

\* stopPreview / stopPoller up to the wait for the done channel.
CloseStop(w) ==
  IF w = None THEN UNCHANGED wk ELSE WSet(w, [wk[w] EXCEPT !.stop = TRUE])

\* Faulty variant: no timer, only the done channel ends the wait.
WaitForever(w) == w # None => wpc[w] = "dead"

\* The wait for w's done channel is over: closed, or the timer fired.
WaitOver(w) == w # None => (wpc[w] = "dead" \/ Blocked(w))

(***************************************************************************)
(* Worker goroutines.  Control points: "loop" (head of the for loop), "try" *)
(* (withWorkerBoardOperation before its unlocked check), "lock" (blocked in *)
(* opMu.Lock), "op" (fn is running, opMu held), "wait" (on fileWriteDone),  *)
(* "report" (about to call reportWorkerBoardDisconnected), "lost" (past its *)
(* check, about to call reportBoardDisconnected), "dead".                   *)
(***************************************************************************)
Quits(w) == wk[w].stop \/ ~IsWorkerCurrent(wk[w].board, wk[w].seq)

\* Outside opMu nothing but the worker's own control moves.
WorkerLocal == UNCHANGED <<session, opMu, upload, regs, callers, ports, script,
                           shutdown, ghosts>>

WorkerLoop(w) ==
  /\ wpc[w] = "loop"
  /\ LET b == CurrentBoard IN
     IF wk[w].stop \/ b = 0 \/ ~IsWorkerCurrent(b, wk[w].seq)
     THEN WGoto(w, "dead") /\ WSet(w, IdleWorker)
     ELSE /\ WGoto(w, "try")
          /\ WSet(w, [wk[w] EXCEPT !.board = b,
                                   !.act = IF w \in Previews THEN "size"
                                           ELSE IF SupportsTxBuf THEN "drain"
                                           ELSE "running"])
  /\ WorkerLocal

\* One more link error; at the limit the worker reports the board as lost.
LinkError(w) ==
  LET n == wk[w].errs + 1 IN
  /\ WSet(w, [wk[w] EXCEPT !.errs = n])
  /\ WGoto(w, IF n >= LinkErrorLimit THEN "report" ELSE "loop")

\* Faulty variant: the confirmed end is not published.
FinishedSilently(w) ==
  /\ WSet(w, [wk[w] EXCEPT !.running = FALSE, !.idle = 0, !.errs = 0])
  /\ WGoto(w, "loop")
  /\ UNCHANGED uiRunning

\* The script was seen idle often enough: publish "finished".
Finished(w) ==
  /\ WSet(w, [wk[w] EXCEPT !.running = FALSE, !.idle = 0, !.errs = 0])
  /\ uiRunning' = FALSE
  /\ WGoto(w, "loop")

\* withWorkerBoardOperation returned false: most callers return, but
\* recoverStreamDesync counts a link error and stableDrain just stops draining.
GiveUp(w) ==
  \/ /\ wk[w].act \notin {"sync", "txsync", "settle"}
     /\ WGoto(w, "dead") /\ WSet(w, IdleWorker)
     /\ UNCHANGED uiRunning
  \/ /\ wk[w].act \in {"sync", "txsync"}
     /\ LinkError(w)
     /\ UNCHANGED uiRunning
  \/ /\ wk[w].act = "settle"
     /\ Finished(w)

WorkerTry(w) ==
  /\ wpc[w] = "try"
  /\ IF Quits(w) THEN GiveUp(w)
     ELSE WGoto(w, "lock") /\ UNCHANGED <<wk, uiRunning>>
  /\ UNCHANGED <<session, opMu, upload, regs, callers, ports, script, shutdown,
                 endings, ran>>

\* Faulty variant: a worker does not look for a streamed write in progress.
WorkerLockUngated(w) ==
  /\ wpc[w] = "lock" /\ opMu = None
  /\ IF Quits(w) THEN GiveUp(w) /\ UNCHANGED opMu
     ELSE /\ WGoto(w, "op")
          /\ opMu' = w
          /\ UNCHANGED <<wk, uiRunning>>
  /\ UNCHANGED <<session, upload, regs, callers, ports, script, shutdown,
                 endings, ran>>

\* opMu.Lock, the second check, and the gate for streamed writes.
WorkerLock(w) ==
  /\ wpc[w] = "lock" /\ opMu = None
  /\ \/ /\ Quits(w)
        /\ GiveUp(w)
        /\ UNCHANGED opMu
     \/ /\ ~Quits(w) /\ fileWrite = NoWrite
        /\ WGoto(w, "op")
        /\ opMu' = w
        /\ UNCHANGED <<wk, uiRunning>>
     \/ /\ ~Quits(w) /\ fileWrite # NoWrite
        /\ WGoto(w, "wait")
        /\ WSet(w, [wk[w] EXCEPT !.wait = fileWriteDone])
        /\ UNCHANGED <<opMu, uiRunning>>
  /\ UNCHANGED <<session, upload, regs, callers, ports, script, shutdown,
                 endings, ran>>

\* Faulty variant: a worker waiting for the end of a write ignores its stop channel.
WorkerWaitDeaf(w) ==
  /\ wpc[w] = "wait"
  /\ wk[w].wait # fileWriteDone
  /\ WGoto(w, "try")
  /\ WSet(w, [wk[w] EXCEPT !.wait = 0])
  /\ UNCHANGED <<session, opMu, upload, regs, callers, ports, script, shutdown,
                 ghosts>>

\* select on stop and the captured fileWriteDone channel.
WorkerWait(w) ==
  /\ wpc[w] = "wait"
  /\ \/ /\ wk[w].stop
        /\ GiveUp(w)
     \/ /\ wk[w].wait # fileWriteDone
        /\ WGoto(w, "try")
        /\ WSet(w, [wk[w] EXCEPT !.wait = 0])
        /\ UNCHANGED uiRunning
  /\ UNCHANGED <<session, opMu, upload, regs, callers, ports, script, shutdown,
                 endings, ran>>

Clear(w)    == [wk[w] EXCEPT !.errs = 0]
NextOp(w, a) == WGoto(w, "try") /\ WSet(w, [Clear(w) EXCEPT !.act = a])
Again(w)    == WGoto(w, "loop") /\ WSet(w, Clear(w))

\* fn returned without an error.
PollerOk(w) ==
  \/ /\ wk[w].act = "drain"
     /\ \/ NextOp(w, "running")
        \/ ~wk[w].running /\ Again(w)
     /\ UNCHANGED uiRunning
  \/ /\ wk[w].act = "sync"
     /\ Again(w)
     /\ UNCHANGED uiRunning
  \/ /\ wk[w].act = "running" /\ wk[w].board \in script
     /\ WSet(w, [Clear(w) EXCEPT !.running = TRUE, !.idle = 0])
     /\ WGoto(w, "loop")
     /\ uiRunning' = IF wk[w].running THEN uiRunning ELSE TRUE
  \/ /\ wk[w].act = "running" /\ wk[w].board \notin script
     /\ \/ /\ ~wk[w].running
           /\ Again(w)
           /\ UNCHANGED uiRunning
        \/ /\ wk[w].running /\ wk[w].idle + 1 < scriptStoppedConfirmations
           /\ WSet(w, [Clear(w) EXCEPT !.idle = @ + 1])
           /\ WGoto(w, "loop")
           /\ UNCHANGED uiRunning
        \/ /\ wk[w].running /\ wk[w].idle + 1 >= scriptStoppedConfirmations
           /\ IF SupportsTxBuf
              THEN NextOp(w, "settle") /\ UNCHANGED uiRunning
              ELSE Finished(w)
  \/ /\ wk[w].act = "settle"
     /\ Finished(w)

PollerFails(w) ==
  \/ /\ wk[w].act = "drain" /\ ~HasCapabilitiesProtocol
     /\ protocolHandler' = IF protocolHandler = "legacy" THEN "legacyNoTx"
                           ELSE protocolHandler
     /\ Again(w)
     /\ UNCHANGED uiRunning
  \/ /\ wk[w].act = "drain" /\ HasCapabilitiesProtocol
     /\ WGoto(w, "try")
     /\ WSet(w, [wk[w] EXCEPT !.act = "sync"])
     /\ UNCHANGED <<protocolHandler, uiRunning>>
  \/ /\ wk[w].act \in {"sync", "running"}
     /\ LinkError(w)
     /\ UNCHANGED <<protocolHandler, uiRunning>>
  \/ /\ wk[w].act = "settle"
     /\ Finished(w)
     /\ UNCHANGED protocolHandler

PreviewOk(w) ==
  \/ /\ wk[w].act = "size"
     /\ \/ Again(w)                                \* no frame yet
        \/ \E a \in {"refresh", "dump"} : NextOp(w, a)
        \/ SupportsTxBuf /\ NextOp(w, "txdrain")    \* every 20th frame
  \/ /\ wk[w].act = "txdrain"
     /\ \E a \in {"refresh", "dump"} : NextOp(w, a)
  \/ /\ wk[w].act = "txsync"
     /\ Again(w)
  \/ /\ wk[w].act = "refresh"
     /\ Again(w) \/ NextOp(w, "dump")
  \/ /\ wk[w].act = "dump"                         \* the Frame event
     /\ Again(w)

PreviewFails(w) ==
  \/ /\ wk[w].act = "txdrain" /\ HasCapabilitiesProtocol
     /\ WGoto(w, "try")
     /\ WSet(w, [wk[w] EXCEPT !.act = "txsync"])
  \/ /\ wk[w].act = "refresh"                      \* errors are ignored
     /\ WGoto(w, "try")
     /\ WSet(w, [wk[w] EXCEPT !.act = "dump"])
  \/ /\ \/ wk[w].act \in {"size", "txsync", "dump"}
        \/ wk[w].act = "txdrain" /\ ~HasCapabilitiesProtocol
     /\ LinkError(w)

\* fn returns (an exchange on a closed port can only fail) and opMu is released.
WorkerOp(w) ==
  /\ wpc[w] = "op"
  /\ opMu' = None
  /\ \/ /\ PortOpen(wk[w].board)
        /\ w \in Pollers /\ PollerOk(w)
        /\ UNCHANGED protocolHandler
     \/ /\ w \in Pollers /\ PollerFails(w)
     \/ /\ PortOpen(wk[w].board)
        /\ w \in Previews /\ PreviewOk(w)
        /\ UNCHANGED <<protocolHandler, uiRunning>>
     \/ /\ w \in Previews /\ PreviewFails(w)
        /\ UNCHANGED <<protocolHandler, uiRunning>>
  /\ UNCHANGED <<board, closing, operationSeq, upload, regs, callers, ports, script,
                 shutdown, endings, ran>>

WorkerReport(w) ==
  /\ wpc[w] = "report"
  /\ IF IsWorkerCurrent(wk[w].board, wk[w].seq)
     THEN WGoto(w, "lost") /\ UNCHANGED wk
     ELSE WGoto(w, "dead") /\ WSet(w, IdleWorker)
  /\ WorkerLocal

WorkerLost(w) ==
  /\ wpc[w] = "lost"
  /\ ReportBoardDisconnected(wk[w].board)
  /\ WGoto(w, "dead") /\ WSet(w, IdleWorker)
  /\ UNCHANGED <<operationSeq, opMu, upload, regs, callers, opened, script,
                 shutdown, ran>>

Worker(w) == WorkerLoop(w) \/ WorkerTry(w) \/ WorkerLock(w) \/ WorkerWait(w)
             \/ WorkerOp(w) \/ WorkerReport(w) \/ WorkerLost(w)

(***************************************************************************)
(* stopPoller, stopPreview and startPoller, called by the request loop and  *)
(* (startPoller) by a setup goroutine.                                      *)
(***************************************************************************)
StopPreview(c, next) ==
  /\ CloseStop(previewReg)
  /\ previewReg' = None
  /\ LSet(c, [loc[c] EXCEPT !.target = previewReg])
  /\ Goto(c, next)
  /\ UNCHANGED pollerReg

StopPoller(c, next) ==
  /\ CloseStop(pollerReg)
  /\ pollerReg' = None
  /\ LSet(c, [loc[c] EXCEPT !.target = pollerReg])
  /\ Goto(c, next)
  /\ UNCHANGED previewReg

\* startPoller: nothing without a board; otherwise stop the registered poller,
\* wait for it, and only then read the operation sequence and install the new one.
StartPoller(c) ==
  /\ pc[c] = "startPoller"
  /\ \/ /\ CurrentBoard = 0
        /\ Return(c)
        /\ UNCHANGED <<regs, wk>>
     \/ /\ CurrentBoard # 0
        /\ StopPoller(c, "pollerGone")
        /\ UNCHANGED opMu
  /\ UNCHANGED <<session, upload, wpc, req, ports, script, shutdown, ghosts>>

PollerGone(c) ==
  /\ pc[c] = "pollerGone" /\ WaitOver(loc[c].target)
  /\ Goto(c, "installPoller")
  /\ LSet(c, [loc[c] EXCEPT !.seq = operationSeq, !.target = None])
  /\ UNCHANGED <<session, opMu, upload, regs, workers, req, ports, script,
                 shutdown, ghosts>>

Spawn(w, n, assume) ==
  /\ WGoto(w, "loop")
  /\ WSet(w, [IdleWorker EXCEPT !.seq = n, !.running = assume])

InstallPoller(c) ==
  /\ pc[c] = "installPoller"
  /\ \E p \in FreeSlots(Pollers) :
       /\ Spawn(p, loc[c].seq, loc[c].assume)
       /\ pollerReg' = p
  /\ Return(c)
  /\ UNCHANGED <<session, upload, previewReg, req, ports, script, shutdown, ghosts>>

(***************************************************************************)
(* scheduleConnectSoftReset: opMu is held from the first check to boardReady.*)
(***************************************************************************)
\* Faulty variant: setup only asks whether its board is still attached.
SetupAttached(c) == IsCurrentBoard(loc[c].board)

SetupCurrent(c) == IsWorkerCurrent(loc[c].board, loc[c].seq)

SetupLock(c) ==
  /\ pc[c] = "lock" /\ c \in Setups /\ opMu = None
  /\ IF SetupCurrent(c)
     THEN Goto(c, "scriptStop") /\ opMu' = c /\ UNCHANGED loc
     ELSE Return(c)
  /\ UNCHANGED <<session, upload, regs, workers, req, ports, script, shutdown, ghosts>>

\* One exchange of the setup sequence is over; go on only while still current.
\* Two busy checks may each ask for another soft reset ("settle", "resettle").
SetupExchanges == {"scriptStop", "softReset", "settle", "resettle"}

SetupNext(l) ==
  CASE l = "scriptStop" -> {"softReset"}
    [] l = "softReset"  -> {"settle"}
    [] l = "settle"     -> {"resettle", "startPoller"}
    [] OTHER            -> {"startPoller"}

SetupExchange(c) ==
  /\ c \in Setups /\ pc[c] \in SetupExchanges
  /\ IF SetupCurrent(c)
     THEN (\E next \in SetupNext(pc[c]) : Goto(c, next)) /\ UNCHANGED <<opMu, loc>>
     ELSE Return(c)
  /\ \/ UNCHANGED script
     \/ PortOpen(loc[c].board) /\ script' = script \ {loc[c].board}
  /\ UNCHANGED <<session, upload, regs, workers, req, ports, shutdown, ghosts>>

(***************************************************************************)
(* The request loop.                                                        *)
(***************************************************************************)
Cleanup(r) == r \in {"connect", "disconnect", "eof"}

\* Bound: the client sends no request that could need more worker slots than the
\* abandoned workers leave free (a live setup goroutine may need one as well).
Room(r) == /\ Cardinality(FreeSlots(Pollers)) > Cardinality({c \in Setups : pc[c] # "dead"})
           /\ r = "startPreview" => FreeSlots(Previews) # {}

\* A request arrives; beginUserOperation comes first in the handlers that have it.
Receive(r) ==
  LET bumps == r \in UserOps \/ r \in {"disconnect", "eof"}
               \/ (r = "connect" /\ board # 0) IN
  /\ pc[Main] = "idle" /\ Room(r)
  /\ bumps => operationSeq < MaxSeq
  /\ operationSeq' = IF bumps THEN operationSeq + 1 ELSE operationSeq
  /\ req' = r
  /\ Goto(Main, IF r \in UserOps \cup {"stopPreview"} THEN "stopPreview"
                ELSE IF bumps THEN "stopPoller"
                ELSE IF r = "connect" THEN "open"
                ELSE "lock")
  /\ UNCHANGED <<board, closing, protocolHandler, opMu, upload, regs, workers, loc,
                 ports, script, shutdown, ghosts>>

MainStop ==
  /\ \/ pc[Main] = "stopPreview" /\ StopPreview(Main, "previewGone")
     \/ pc[Main] = "stopPoller" /\ StopPoller(Main, "pollerStopped")
  /\ UNCHANGED <<session, opMu, upload, wpc, req, ports, script, shutdown, ghosts>>

MainStopped ==
  /\ pc[Main] \in {"previewGone", "pollerStopped"} /\ WaitOver(loc[Main].target)
  /\ LET next == IF pc[Main] = "pollerStopped"
                 THEN IF Cleanup(req) THEN "stopPreview" ELSE "lock"
                 ELSE CASE req \in UserOps -> "stopPoller"
                        [] Cleanup(req) -> "lock"
                        [] req = "stopPreview" -> IF board # 0 THEN "startPoller" ELSE "idle"
                        [] OTHER -> IF loc[Main].board # 0 THEN "installPreview" ELSE "idle"
     IN /\ Goto(Main, next)
        /\ LSet(Main, IF next = "idle" THEN IdleCaller
                         ELSE [loc[Main] EXCEPT !.target = None])
  /\ UNCHANGED <<session, opMu, upload, regs, workers, req, ports, script, shutdown, ghosts>>

MainLock ==
  /\ pc[Main] = "lock" /\ opMu = None
  /\ opMu' = Main
  /\ Goto(Main, "locked")
  /\ LSet(Main, [loc[Main] EXCEPT !.board = CurrentBoard])
  /\ UNCHANGED <<session, upload, regs, workers, req, ports, script, shutdown, ghosts>>

Locked(rs) == pc[Main] = "locked" /\ req \in rs
b0         == loc[Main].board

ToPoller(assume) ==
  /\ Goto(Main, "startPoller")
  /\ LSet(Main, [loc[Main] EXCEPT !.assume = assume])
  /\ UNCHANGED opMu

\* runScript and fileExec up to the pre-flight health check.  "runEmpty" is a
\* runScript without a script, or a fileExec the firmware does not support.
RunPreflight ==
  /\ Locked({"run", "runEmpty", "exec"})
  /\ \/ /\ b0 = 0 \/ req = "runEmpty" \/ ~IsCurrentBoard(b0)
        /\ Return(Main)
     \/ /\ b0 # 0 /\ req # "runEmpty" /\ IsCurrentBoard(b0)
        /\ \/ PortOpen(b0) /\ Goto(Main, "reset") /\ UNCHANGED <<opMu, loc>>
           \/ ToPoller(FALSE)
  /\ UNCHANGED <<session, upload, regs, workers, req, ports, script, shutdown, ghosts>>

\* Soft reset and drain; the result of the reset is ignored.
RunReset ==
  /\ pc[Main] = "reset"
  /\ script' \in {script, script \ IF PortOpen(b0) THEN {b0} ELSE {}}
  /\ IF IsCurrentBoard(b0) THEN Goto(Main, "exec") /\ UNCHANGED <<opMu, loc>>
     ELSE Return(Main)
  /\ UNCHANGED <<session, upload, regs, workers, req, ports, shutdown, ghosts>>

RunExec ==
  /\ pc[Main] = "exec"
  /\ \/ /\ PortOpen(b0)                \* idle, or the busy query failed
        /\ script' = script \cup {b0}
        /\ ran' = ran \cup {b0}
        /\ uiRunning' = TRUE
        /\ ToPoller(TRUE)
     \/ /\ ToPoller(FALSE)          \* busy, or the exec command failed
        /\ UNCHANGED <<script, ran, uiRunning>>
  /\ UNCHANGED <<session, upload, regs, workers, req, ports, shutdown, endings>>

\* Faulty variant: stopScript does not start the poller again.
StopScriptUnwatched ==
  /\ Locked({"stop"})
  /\ Return(Main)
  /\ uiRunning' = FALSE
  /\ script' \in {script, script \ IF b0 # 0 /\ PortOpen(b0) THEN {b0} ELSE {}}
  /\ UNCHANGED <<session, upload, regs, workers, req, ports, shutdown, endings, ran>>

\* The client takes the script for stopped once the request is answered.
StopScript ==
  /\ Locked({"stop"})
  /\ \/ b0 = 0 /\ Return(Main) /\ UNCHANGED script
     \/ b0 # 0 /\ ToPoller(FALSE)
        /\ script' \in {script, script \ IF PortOpen(b0) THEN {b0} ELSE {}}
  /\ uiRunning' = FALSE
  /\ UNCHANGED <<session, upload, regs, workers, req, ports, shutdown, endings, ran>>

\* cleanupBoard under opMu: end the upload, mark the session as closing ...
CleanupDone ==
  /\ Goto(Main, CASE req = "connect" -> "open" [] req = "eof" -> "exit" [] OTHER -> "idle")
  /\ opMu' = None
  /\ LSet(Main, IdleCaller)

CleanupClose ==
  /\ pc[Main] = "locked" /\ Cleanup(req)
  /\ ClearFileWriteLocked
  /\ closing' = TRUE
  /\ IF board = 0 THEN CleanupDone
     ELSE /\ Goto(Main, "detach")
          /\ LSet(Main, [loc[Main] EXCEPT !.board = board])
          /\ UNCHANGED opMu
  /\ UNCHANGED <<board, operationSeq, protocolHandler, regs, workers, req, ports,
                 script, shutdown, ghosts>>

\* ... detach the board ...
CleanupDetach ==
  /\ pc[Main] = "detach"
  /\ IF board = b0
     THEN board' = 0 /\ endings' = [endings EXCEPT ![b0] = @ + 1]
     ELSE UNCHANGED <<board, endings>>
  /\ Goto(Main, "teardown")
  /\ UNCHANGED <<closing, operationSeq, protocolHandler, opMu, upload, regs, workers,
                 loc, req, ports, script, shutdown, ran, uiRunning>>

\* ... then stop the script, reset, disable the framebuffer and close the port.
CleanupTeardown ==
  /\ pc[Main] = "teardown"
  /\ script' \in {script, script \ IF PortOpen(b0) THEN {b0} ELSE {}}
  /\ closed' = closed \cup {b0}
  /\ protocolHandler' = "nil"
  /\ uiRunning' = FALSE
  /\ CleanupDone
  /\ UNCHANGED <<board, closing, operationSeq, upload, regs, workers, req, opened,
                 shutdown, endings, ran>>

\* connectBoard from usbdbg.Open on.  None of it runs under opMu.
ConnectOpen ==
  /\ pc[Main] = "open"
  /\ \/ Return(Main) /\ UNCHANGED <<board, closing, protocolHandler, opened>>
     \/ /\ opened < MaxBoards
        /\ opened' = opened + 1
        /\ board' = opened + 1
        /\ closing' = FALSE
        /\ protocolHandler' = "nil"
        /\ Goto(Main, "negotiate")
        /\ LSet(Main, [loc[Main] EXCEPT !.board = opened + 1])
        /\ UNCHANGED opMu
  /\ UNCHANGED <<operationSeq, upload, regs, workers, req, closed, script, shutdown, ghosts>>

FreeSetups == {c \in Setups : pc[c] = "dead"}

ConnectNegotiate ==
  /\ pc[Main] = "negotiate"
  /\ \/ protocolHandler' = "legacy" /\ Goto(Main, "probeLegacy")
     \/ PortOpen(b0) /\ FreeSetups # {} /\ protocolHandler' = "v2" /\ Goto(Main, "probeV2")
  /\ UNCHANGED <<board, closing, operationSeq, opMu, upload, regs, workers, loc, req,
                 ports, script, shutdown, ghosts>>

\* abortBoard: whatever board is attached now loses its session.
AbortBoard ==
  /\ operationSeq' = operationSeq + 1
  /\ IF board = 0
     THEN /\ closing' = TRUE /\ protocolHandler' = "nil"
          /\ UNCHANGED <<board, closed, endings, uiRunning>>
     ELSE EndSession(board)

ConnectRejected ==
  /\ pc[Main] = "probeLegacy"
  /\ AbortBoard
  /\ Return(Main)
  /\ UNCHANGED <<upload, regs, workers, req, opened, script, shutdown, ran>>

ConnectLegacy ==
  /\ pc[Main] = "probeLegacy"
  /\ ToPoller(FALSE)
  /\ UNCHANGED <<session, upload, regs, workers, req, ports, script, shutdown, ghosts>>

\* scheduleConnectSoftReset starts its goroutine and the reply goes out.
ConnectV2 ==
  /\ pc[Main] = "probeV2"
  /\ \E c \in FreeSetups :
       /\ pc' = [pc EXCEPT ![Main] = "idle", ![c] = "lock"]
       /\ loc' = [loc EXCEPT ![Main] = IdleCaller,
                             ![c] = [IdleCaller EXCEPT !.board = b0, !.seq = operationSeq]]
  /\ UNCHANGED <<session, opMu, upload, regs, workers, req, ports, script, shutdown, ghosts>>

\* startPreview under opMu: the capability protocol refuses it when no script
\* runs; a registered preview is taken to be streaming already.
PreviewDecide ==
  /\ Locked({"startPreview"})
  /\ \/ /\ b0 = 0 \/ previewReg # None
        /\ Return(Main)
     \/ /\ b0 # 0 /\ HasCapabilitiesProtocol /\ PortOpen(b0) /\ b0 \notin script
        /\ Goto(Main, "stopPreview")
        /\ LSet(Main, [loc[Main] EXCEPT !.board = 0])
        /\ opMu' = None
     \/ /\ b0 # 0 /\ previewReg = None
        /\ Goto(Main, "stopPreview")
        /\ LSet(Main, [loc[Main] EXCEPT !.seq = operationSeq])
        /\ opMu' = None
  /\ UNCHANGED <<session, upload, regs, workers, req, ports, script, shutdown, ghosts>>

InstallPreview ==
  /\ pc[Main] = "installPreview"
  /\ \E v \in FreeSlots(Previews) :
       /\ Spawn(v, loc[Main].seq, FALSE)
       /\ previewReg' = v
  /\ Return(Main)
  /\ UNCHANGED <<session, upload, pollerReg, req, ports, script, shutdown, ghosts>>

\* Faulty variant: any session will do for a chunk.
NoWriteAtAll == fileWrite = NoWrite

\* The session is missing, of another board, or its board is gone.
NoActiveWrite == fileWrite = NoWrite \/ b0 = 0 \/ fileWrite.board # b0

\* io.beginWriteFile: a refused request (no board, no capability, protected path,
\* bad digest) changes nothing; otherwise the old session ends first.
BeginWriteFile ==
  /\ Locked({"beginWrite"})
  /\ \/ UNCHANGED upload
     \/ b0 # 0 /\ HasCapabilitiesProtocol /\ ClearFileWriteLocked
     \/ /\ PortOpen(b0) /\ HasCapabilitiesProtocol /\ channels < MaxWrites
        /\ fileWrite' = [board |-> b0, written |-> 0]
        /\ fileWriteDone' = channels + 1
        /\ channels' = channels + 1
  /\ Return(Main)
  /\ UNCHANGED <<session, regs, workers, req, ports, script, shutdown, ghosts>>

\* io.writeFileChunk: a device error ends the write; a transport failure also
\* ends the board's session.
WriteFileChunk ==
  /\ Locked({"chunk"})
  /\ \/ /\ NoActiveWrite \/ fileWrite.written >= FileSize   \* stray or oversized
        /\ ClearFileWriteLocked
        /\ UNCHANGED <<session, closed, endings, uiRunning>>
     \/ /\ ~NoActiveWrite                                   \* empty or undecodable
        /\ UNCHANGED <<session, upload, closed, endings, uiRunning>>
     \/ /\ ~NoActiveWrite /\ fileWrite.written < FileSize /\ PortOpen(b0)
        /\ fileWrite' = [fileWrite EXCEPT !.written = @ + 1]
        /\ UNCHANGED <<fileWriteDone, channels, session, closed, endings, uiRunning>>
     \/ /\ ~NoActiveWrite /\ fileWrite.written < FileSize
        /\ ClearFileWriteLocked
        /\ \/ UNCHANGED <<session, closed, endings, uiRunning>>
           \/ ReportBoardDisconnected(b0) /\ UNCHANGED operationSeq
  /\ Return(Main)
  /\ UNCHANGED <<regs, workers, req, opened, script, shutdown, ran>>

\* io.finishWriteFile and io.abortWriteFile both end the session, whatever happens.
EndWriteFile ==
  /\ Locked({"finish", "abortWrite"})
  /\ ClearFileWriteLocked
  /\ Return(Main)
  /\ UNCHANGED <<session, regs, workers, req, ports, script, shutdown, ghosts>>

\* Other file system requests are refused during a streamed write; they and the
\* remaining requests (status, terminal input, touch) are one exchange under opMu.
Query ==
  /\ \/ /\ Locked({"query", "fsOp"})
        /\ IF b0 = 0 \/ (req = "fsOp" /\ fileWrite # NoWrite)
           THEN Return(Main)
           ELSE Goto(Main, "exchange") /\ UNCHANGED <<opMu, loc>>
     \/ pc[Main] = "exchange" /\ Return(Main)
  /\ UNCHANGED <<session, upload, regs, workers, req, ports, script, shutdown, ghosts>>

\* stdin is at EOF: the deferred cleanup ran, the process is gone.
ExitAfterCleanup ==
  /\ pc[Main] = "exit"
  /\ shutdown' = "exited"
  /\ UNCHANGED <<session, opMu, upload, regs, workers, callers, ports, script, ghosts>>

\* Signal handler and parent watch: abortBoard without waiting for opMu, then exit.
Abort ==
  /\ shutdown = "no"
  /\ AbortBoard
  /\ shutdown' = "closing"
  /\ UNCHANGED <<opMu, upload, regs, workers, callers, opened, script, ran>>

Exit ==
  /\ shutdown = "closing"
  /\ shutdown' = "exited"
  /\ UNCHANGED <<session, opMu, upload, regs, workers, callers, ports, script, ghosts>>

\* The user's script ends by itself.
ScriptEnds(b) ==
  /\ b \in script
  /\ script' = script \ {b}
  /\ UNCHANGED <<session, opMu, upload, regs, workers, callers, ports, shutdown, ghosts>>

Exited == shutdown = "exited" /\ UNCHANGED vars

Starting(c) == StartPoller(c) \/ PollerGone(c) \/ InstallPoller(c)

MainStep ==
  \/ MainStop \/ MainStopped \/ MainLock \/ Starting(Main)
  \/ RunPreflight \/ RunReset \/ RunExec \/ StopScript
  \/ CleanupClose \/ CleanupDetach \/ CleanupTeardown
  \/ ConnectOpen \/ ConnectNegotiate \/ ConnectRejected \/ ConnectLegacy \/ ConnectV2
  \/ PreviewDecide \/ InstallPreview
  \/ BeginWriteFile \/ WriteFileChunk \/ EndWriteFile \/ Query \/ ExitAfterCleanup

Setup(c) == SetupLock(c) \/ SetupExchange(c) \/ Starting(c)

Next ==
  \/ /\ shutdown # "exited"
     /\ \/ \E r \in Requests : Receive(r)
        \/ MainStep
        \/ \E c \in Setups : Setup(c)
        \/ \E w \in Workers : Worker(w)
        \/ \E b \in Boards : ScriptEnds(b)
        \/ Abort
        \/ Exit
  \/ Exited

Spec == Init /\ [][Next]_vars

(***************************************************************************)
(* Fairness: Go runs every runnable goroutine and its mutexes do not starve *)
(* a waiter; every serial exchange ends, with an error at the latest when   *)
(* the port's read timeout fires.  Clients, signals and scripts owe nothing.*)
(***************************************************************************)
Running(A) == shutdown # "exited" /\ A

FairSpec ==
  /\ Spec
  /\ WF_vars(Running(MainStep)) /\ SF_vars(Running(MainLock))
  /\ \A c \in Setups : WF_vars(Running(Setup(c))) /\ SF_vars(Running(SetupLock(c)))
  /\ \A w \in Workers : WF_vars(Running(Worker(w))) /\ SF_vars(Running(WorkerLock(w)))

\* A board that stays attached answers a state query again and again.
Answered(w, act) == WorkerOp(w) /\ wk[w].act = act /\ PollerOk(w)

AnsweringSpec == FairSpec /\ \A p \in Pollers, act \in {"drain", "running"} :
                               SF_vars(Running(Answered(p, act)))

(***************************************************************************)
(* Properties.                                                              *)
(***************************************************************************)
WorkerPCs == {"dead", "loop", "try", "lock", "op", "wait", "report", "lost"}
MainPCs   == {"idle", "stopPreview", "previewGone", "stopPoller", "pollerStopped",
              "lock", "locked", "reset", "exec", "detach", "teardown", "open",
              "negotiate", "probeLegacy", "probeV2", "startPoller", "pollerGone",
              "installPoller", "installPreview", "exchange", "exit"}
SetupPCs  == SetupExchanges \cup
             {"dead", "lock", "startPoller", "pollerGone", "installPoller"}

WorkerState == [act : PollerActs \cup PreviewActs, board : 0..MaxBoards, seq : Nat,
                stop : BOOLEAN, errs : Nat, running : BOOLEAN, idle : Nat, wait : Nat]
CallerState == [board : 0..MaxBoards, seq : Nat, target : Workers \cup {None},
                assume : BOOLEAN]

\* Every variable keeps its type.
TypeOK ==
  /\ board \in 0..MaxBoards /\ closing \in BOOLEAN /\ operationSeq \in Nat
  /\ protocolHandler \in {"nil", "legacy", "legacyNoTx", "v2"}
  /\ opMu \in Callers \cup Workers \cup {None}
  /\ fileWrite \in [board : 0..MaxBoards, written : Nat]
  /\ fileWriteDone \in Nat /\ channels \in Nat
  /\ pollerReg \in Pollers \cup {None} /\ previewReg \in Previews \cup {None}
  /\ wpc \in [Workers -> WorkerPCs]
  /\ wk \in [Workers -> WorkerState]
  /\ pc \in [Callers -> MainPCs \cup SetupPCs]
  /\ loc \in [Callers -> CallerState]
  /\ req \in AllRequests
  /\ opened \in 0..MaxBoards /\ closed \subseteq Boards
  /\ script \subseteq Boards
  /\ shutdown \in {"no", "closing", "exited"}
  /\ endings \in [Boards -> Nat]
  /\ ran \subseteq Boards /\ uiRunning \in BOOLEAN

\* Main is inside a board operation that opMu protects.
MainHolds  == pc[Main] \in {"locked", "reset", "exec", "detach", "teardown", "exchange"}
SetupHolds(c) == pc[c] \in SetupExchanges

\* Multi-command operations never overlap: a worker's fn, the request loop's
\* locked sections and the connect setup exclude each other (main.go:1440, 1367).
BoardOperationsExclusive ==
  /\ \A w \in Workers : wpc[w] = "op" => opMu = w
  /\ MainHolds => opMu = Main
  /\ \A c \in Setups : SetupHolds(c) => opMu = c

\* A streamed file write is never interleaved with a worker's exchange or with
\* another file system request (main.go:1450, 595).
UploadUndisturbed ==
  fileWrite # NoWrite =>
    /\ \A w \in Workers : wpc[w] # "op"
    /\ ~(pc[Main] = "exchange" /\ req = "fsOp")

\* Two workers and the request loop may all see a board fail, yet its session
\* ends once: a client hears of at most one disconnect per board (main.go:1594).
SessionEndsOnce == \A b \in Boards : endings[b] <= 1

\* The soft reset scheduled by a connect never hits a script the user started on
\* that board since (main.go:1372).
SetupSparesUserScript ==
  \A c \in Setups : SetupHolds(c) => loc[c].board \notin ran

\* Nobody is about to change who watches the attached board.
Settled == shutdown = "no" /\ pc[Main] = "idle" /\ CurrentBoard # 0
           /\ \A c \in Setups : pc[c] = "dead"

\* Between requests a connected board is watched: a poller is alive that nobody told to
\* stop and that belongs to the current user operation.  Otherwise nobody would notice
\* that a script ends or that the cable is pulled.
BoardIsWatched ==
  Settled => \E p \in Pollers :
               wpc[p] # "dead" /\ ~wk[p].stop /\ wk[p].seq = operationSeq

\* ... and that poller is the one stopPoller knows.
WatcherIsRegistered ==
  Settled => /\ pollerReg # None
             /\ wpc[pollerReg] # "dead"
             /\ ~wk[pollerReg].stop
             /\ wk[pollerReg].seq = operationSeq

\* A preview goroutine that was not told to stop is the registered one: no second
\* one streams frames that stopPreview can no longer end (main.go:929, 1148).
NoOrphanPreview ==
  \A v \in Previews : wpc[v] # "dead" /\ ~wk[v].stop => previewReg = v

\* While the client believes that a script runs, and none does, the registered
\* poller remembers a running script: only then will it confirm and publish the
\* end (main.go:1226).
EndCanBePublished ==
  (shutdown = "no" /\ pc[Main] = "idle" /\ CurrentBoard # 0 /\ uiRunning
     /\ CurrentBoard \notin script) =>
    pollerReg # None /\ wk[pollerReg].running

\* startPreview answers "started" without starting anything when a preview is
\* registered; then the attached board's frames are being streamed.
StartedMeansStreaming ==
  (shutdown = "no" /\ Locked({"startPreview"}) /\ b0 # 0 /\ IsCurrentBoard(b0)
     /\ previewReg # None) =>
    wpc[previewReg] # "dead"

\* A worker waits on a channel that is open, or closed already: nobody can be
\* left behind on a channel that will never be closed.
NoLostWakeup ==
  \A w \in Workers : wpc[w] = "wait" =>
    (wk[w].wait = fileWriteDone => fileWrite # NoWrite)

\* A chunk is only ever accepted by the board its write was begun on, and only
\* while that board is still attached (main.go:755).
ChunksReachTheirBoard ==
  [][fileWrite'.written > fileWrite.written => fileWrite.board = board]_vars

\* Every request is answered, even while workers hold or wait for opMu and while
\* startPoller waits, with opMu held, for a poller that waits for opMu.
EveryRequestAnswered == (pc[Main] # "idle") ~> (pc[Main] = "idle" \/ shutdown = "exited")

\* The end of a script reaches the client: once it was told that a script runs and
\* no script does, it is told "finished", or the session ends, or a script starts.
\* main.go:344 says the poller exists to "publish an accurate finished event".
ScriptEndIsPublished ==
  (uiRunning /\ script = {}) ~> (~uiRunning \/ script # {} \/ shutdown = "exited")

\* A goroutine told to stop ends.
StoppedWorkersEnd ==
  \A w \in Workers : (wpc[w] # "dead" /\ wk[w].stop) ~> (wpc[w] = "dead" \/ shutdown = "exited")
=============================================================================
