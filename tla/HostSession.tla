------------------------------ MODULE HostSession ------------------------------
(***************************************************************************)
(* The extension's side of a board connection: the child process client    *)
(* (backend/native.ts), the session above it (session/session.ts), the     *)
(* board service and the connection flows of extension.ts, among them the  *)
(* requests that the MCP bridge forwards.                                  *)
(*                                                                         *)
(* Everything here runs on one JavaScript thread.  A "flow" is a chain of  *)
(* awaits; the code between two awaits is one step.  A flow whose await is *)
(* settled runs before the next event of the event loop (Quiet).           *)
(***************************************************************************)
EXTENDS Naturals, FiniteSets

CONSTANTS
  AutoReconnect,    \* the setting canmv.autoReconnect
  Bridge,           \* does an MCP server use the bridge?
  OpenMayFail,      \* may the backend command be missing?
  MayTear,          \* may the reader hold part of a message between chunks?
  MaxProcs,         \* bound: backend processes spawned
  MaxAsked          \* bound: requests created

ASSUME ConstantsAssumption ==
  /\ {AutoReconnect, Bridge, OpenMayFail, MayTear} \subseteq BOOLEAN
  /\ MaxProcs \in Nat \ {0}
  /\ MaxAsked \in Nat \ {0}

VARIABLES
  state, timer,                                   \* Session
  proc, isOpen, closing, pending, torn,           \* NativeBackend and its reader
  nextId,                                         \* protocol/methods.ts
  busy, cached, ready, pendingReady, bridge,      \* extension.ts, BoardService, bridge queue
  pc, waits, got, detectId,                       \* the flows
  alive, hasBoard, announced, wire, spawned, asked   \* the child processes

sessionVars == <<state, timer>>
backendVars == <<proc, isOpen, closing, pending, torn>>
uiVars      == <<busy, cached, bridge>>
readyVars   == <<ready, pendingReady>>
flowVars    == <<pc, waits, got>>
childVars   == <<alive, hasBoard, announced, wire, spawned, asked>>
vars == <<sessionVars, backendVars, nextId, uiVars, readyVars, flowVars, detectId, childVars>>

(* connectBoardRuntime, disconnectBoardRuntime, the disconnect after a     *)
(* board loss, the reconnect callback, a bridge's detectBoards, any other  *)
(* request of the user.                                                    *)
Flows == {"connect", "disconnect", "lost", "timer", "detect", "op"}
Procs == 1 .. MaxProcs
Asked == 1 .. MaxAsked
Ids   == 1 .. MaxAsked
DetectReplies  == {"empty", "one", "many", "err"}
ConnectReplies == {"v2", "legacy", "err"}      \* the board's protocol, or a refusal
OpReplies      == {"done", "err"}
Replies == DetectReplies \cup ConnectReplies \cup OpReplies
Kinds   == {"detect", "connect", "opened", "op"}

(* A connectBoard becomes "opened" once its board is open.                 *)
RepliesTo(kind) == CASE kind = "detect"  -> DetectReplies
                     [] kind = "connect" -> {"err"}
                     [] kind = "opened"  -> ConnectReplies \ {"err"}
                     [] kind = "op"      -> OpReplies

NoRequests == [i \in {} |-> 0]
Connected  == state = "connected"
Quiet      == \A f \in Flows : got[f] = "none"

Init ==
  /\ state = "disconnected" /\ timer = FALSE
  /\ proc = 0 /\ isOpen = FALSE /\ closing = 0 /\ pending = NoRequests /\ torn = 0
  /\ nextId = 1
  /\ busy = FALSE /\ cached = "none" /\ ready = FALSE /\ pendingReady = FALSE
  /\ bridge = "idle"
  /\ pc = [f \in Flows |-> "idle"] /\ waits = [f \in Flows |-> 0]
  /\ got = [f \in Flows |-> "none"] /\ detectId = 0
  /\ alive = {} /\ hasBoard = {} /\ announced = {} /\ wire = {}
  /\ spawned = 0 /\ asked = 0

-----------------------------------------------------------------------------
(* Flow bookkeeping.                                                       *)

(* The awaits that resolvePendingRequests settles, each with an error.     *)
Pending == {pending[i] : i \in DOMAIN pending}
Requesting(f) == pc[f] \in {"scan", "board", "asking"}
Failed == {f \in Flows : Requesting(f) /\ waits[f] \in Pending}

(* Flow f goes on to label l with no await outstanding.                    *)
Jump(f, l)   == /\ pc' = [pc EXCEPT ![f] = l]
                /\ got' = [got EXCEPT ![f] = "none"]
                /\ waits' = [waits EXCEPT ![f] = 0]

(* Flow f goes on to label l, whose await is already settled with r.       *)
Pass(f, l, r) == /\ pc' = [pc EXCEPT ![f] = l]
                 /\ got' = [got EXCEPT ![f] = r]
                 /\ waits' = [waits EXCEPT ![f] = 0]

(* transition(): entering a state other than "connected" resets readiness, *)
(* through the onStateChange handler.  (Streaming counts as connected.)    *)
ResetReadiness == ready' = FALSE /\ pendingReady' = FALSE
Transition(s) ==
  /\ state' = s
  /\ IF s # state /\ s # "connected" THEN ResetReadiness ELSE UNCHANGED readyVars

-----------------------------------------------------------------------------
(* NativeBackend.                                                          *)

(* close() up to its await, called by flow f, which waits at label l for   *)
(* the exit of the child; without a child the await is settled at once.    *)
Close(f, l) ==
  /\ closing' = IF proc = 0 THEN closing ELSE proc
  /\ isOpen' = FALSE
  /\ torn' = 0
  /\ pending' = NoRequests
  /\ pc' = [pc EXCEPT ![f] = l]
  /\ waits' = [waits EXCEPT ![f] = proc]
  /\ got' = [g \in Flows |-> IF g = f THEN (IF proc = 0 THEN "done" ELSE "none")
                             ELSE IF g \in Failed THEN "err" ELSE got[g]]
  /\ UNCHANGED proc

(* open() past the wait for an old child: a new process, or an exception.  *)
Spawn(f) ==
  /\ nextId' = 1
  /\ \/ /\ spawned' = spawned + 1 /\ proc' = spawned'
        /\ alive' = alive \cup {spawned'}
        /\ isOpen' = TRUE
        /\ Pass(f, "opened", "done")
     \/ /\ OpenMayFail
        /\ Pass(f, "opened", "err")
        /\ UNCHANGED <<spawned, proc, alive, isOpen>>
  /\ UNCHANGED <<closing, pending, torn, hasBoard, announced, wire, asked>>

(* Mutant: an old child is not closed first.                               *)
OpenAtOnce(f, n) ==
  IF isOpen THEN Pass(f, "opened", "done") /\ nextId' = n /\ UNCHANGED <<backendVars, childVars>>
  ELSE Spawn(f)

(* open(), called with the id counter at n: nothing while open; a child    *)
(* that is still around is closed first.                                   *)
Open(f, n) ==
  CASE isOpen -> /\ Pass(f, "opened", "done")
                 /\ nextId' = n
                 /\ UNCHANGED <<backendVars, childVars>>
    [] ~isOpen /\ proc # 0 -> /\ Close(f, "reopen")
                              /\ nextId' = n
                              /\ UNCHANGED childVars
    [] ~isOpen /\ proc = 0 -> Spawn(f)

(* Mutant: request() does not look at _isOpen.                             *)
AskAnyway(f, l, id, kind) ==
  /\ asked' = asked + 1
  /\ pc' = [pc EXCEPT ![f] = l]
  /\ pending' = [i \in DOMAIN pending \cup {id} |-> IF i = id THEN asked' ELSE pending[i]]
  /\ wire' = wire \cup {[proc |-> proc, id |-> id, ask |-> asked', kind |-> kind]}
  /\ waits' = [waits EXCEPT ![f] = asked']
  /\ got' = [got EXCEPT ![f] = "none"]
  /\ UNCHANGED <<proc, isOpen, closing, torn, alive, hasBoard, announced, spawned>>

(* Requests to the backend are numbered by `asked` for the model only; the *)
(* code knows them by their id.                                            *)
Ask(f, l, id, kind) ==
  /\ asked' = asked + 1
  /\ pc' = [pc EXCEPT ![f] = l]
  /\ IF isOpen
     THEN /\ pending' = [i \in DOMAIN pending \cup {id} |->
                           IF i = id THEN asked' ELSE pending[i]]
          /\ wire' = wire \cup {[proc |-> proc, id |-> id, ask |-> asked', kind |-> kind]}
          /\ waits' = [waits EXCEPT ![f] = asked']
          /\ got' = [got EXCEPT ![f] = "none"]
     ELSE /\ waits' = [waits EXCEPT ![f] = 0]
          /\ got' = [got EXCEPT ![f] = "err"]
          /\ UNCHANGED <<pending, wire>>
  /\ UNCHANGED <<proc, isOpen, closing, torn, alive, hasBoard, announced, spawned>>

(* Mutant: the id counter stands still.                                    *)
RequestSameId(f, l, kind) ==
  /\ nextId' = nextId
  /\ Ask(f, l, nextId, kind)

(* createRequest() followed by session.request().                          *)
Request(f, l, kind) ==
  /\ nextId' = nextId + 1
  /\ Ask(f, l, nextId, kind)

(* Mutant: the session does not notice.                                    *)
IgnoreExit == UNCHANGED <<sessionVars, readyVars>>

(* Session.onBackendDisconnect.  The boardDisconnected event that follows  *)
(* finds the session no longer connected.                                  *)
OnBackendDisconnect ==
  /\ timer' = (timer \/ AutoReconnect)
  /\ state' = IF AutoReconnect THEN "connecting" ELSE "disconnected"
  /\ ResetReadiness

(* The child's exit handler, and the tails of the close() calls that wait  *)
(* for this exit.                                                          *)
Waiting(p) == {f \in Flows : pc[f] \in {"closing", "undo", "reopen"} /\ waits[f] = p}
Exit(p) ==
  LET expected == closing = p IN
  /\ Quiet
  /\ p \in alive
  /\ alive' = alive \ {p}
  /\ IF proc = p
     THEN /\ isOpen' = FALSE /\ proc' = 0
          /\ closing' = IF expected THEN 0 ELSE closing
          /\ pending' = NoRequests
          /\ IF expected
             THEN torn' = 0 /\ UNCHANGED <<sessionVars, readyVars>>
             ELSE OnBackendDisconnect /\ UNCHANGED torn
          /\ got' = [f \in Flows |-> IF f \in Waiting(p) THEN "done"
                                     ELSE IF f \in Failed THEN "err" ELSE got[f]]
     ELSE /\ got' = [f \in Flows |-> IF f \in Waiting(p) THEN "done" ELSE got[f]]
          /\ UNCHANGED <<backendVars, sessionVars, readyVars>>
  /\ wire' = {w \in wire : w.proc # p}
  /\ UNCHANGED <<nextId, uiVars, pc, waits, detectId, hasBoard, announced, spawned, asked>>

-----------------------------------------------------------------------------
(* The child as the extension sees it: it answers any request it got, may  *)
(* say that the board is ready or lost, and may stop at any time.          *)

(* handleData(): a message is delivered unless the reader still holds the  *)
(* beginning of another process's message, which then swallows it.         *)
Deliverable(p) == torn \in {0, p}

(* The board is open and will be announced, though connectBoard is not     *)
(* answered yet.  The board of an earlier connectBoard was closed before.  *)
BoardOpened(w) ==
  /\ Quiet
  /\ w \in wire /\ w.kind = "connect"
  /\ wire' = (wire \ {w}) \cup {[w EXCEPT !.kind = "opened"]}
  /\ hasBoard' = hasBoard \cup {w.proc}
  /\ announced' = announced \ {w.proc}
  /\ UNCHANGED <<sessionVars, backendVars, nextId, uiVars, readyVars, flowVars, detectId,
                 alive, spawned, asked>>

(* A connectBoard that failed leaves the backend without a board.          *)
Answer(w, r) ==
  /\ Quiet
  /\ w \in wire /\ r \in RepliesTo(w.kind)
  /\ wire' = wire \ {w}
  /\ hasBoard' = IF w.kind = "connect" THEN hasBoard \ {w.proc} ELSE hasBoard
  /\ torn' = IF Deliverable(w.proc) THEN 0 ELSE torn
  /\ IF w.id \in DOMAIN pending /\ Deliverable(w.proc)
     THEN /\ pending' = [i \in DOMAIN pending \ {w.id} |-> pending[i]]
          /\ got' = [f \in Flows |-> IF Requesting(f) /\ waits[f] = pending[w.id]
                                     THEN r ELSE got[f]]
     ELSE UNCHANGED <<pending, got>>
  /\ UNCHANGED <<sessionVars, proc, isOpen, closing, nextId, uiVars, readyVars, pc, waits,
                 detectId, alive, announced, spawned, asked>>

(* A chunk ends in the middle of a message.                                *)
Tear(p) ==
  /\ Quiet /\ MayTear
  /\ p \in alive /\ p = proc /\ isOpen /\ torn = 0
  /\ torn' = p
  /\ UNCHANGED <<sessionVars, proc, isOpen, closing, pending, nextId, uiVars, readyVars,
                 flowVars, detectId, childVars>>

(* Mutant: an event before the answer is dropped.                          *)
MarkKnownBoard ==
  /\ ready' = (ready \/ cached # "none")
  /\ UNCHANGED pendingReady

MarkBoardReadyEvent ==
  /\ pendingReady' = TRUE
  /\ ready' = (ready \/ cached # "none")

BoardReady(p) ==
  /\ Quiet
  /\ p \in (hasBoard \cap alive) \ announced
  /\ announced' = announced \cup {p}
  /\ torn' = IF Deliverable(p) THEN 0 ELSE torn
  /\ IF Deliverable(p)
     THEN MarkBoardReadyEvent
     ELSE UNCHANGED readyVars
  /\ UNCHANGED <<sessionVars, proc, isOpen, closing, pending, nextId, uiVars, flowVars,
                 detectId, alive, hasBoard, wire, spawned, asked>>

(* Mutant: a disconnect leaves the reconnect timer armed.                  *)
DisconnectKeepsTimer(f, l) ==
  /\ timer' = timer
  /\ IF state = "disconnected"
     THEN Pass(f, l, "done") /\ UNCHANGED backendVars
     ELSE Close(f, l)

(* session.disconnect() called by flow f: it returns at once when already  *)
(* disconnected, else closes the backend.                                  *)
SessionDisconnect(f, l) ==
  /\ timer' = FALSE
  /\ IF state = "disconnected"
     THEN Pass(f, l, "done") /\ UNCHANGED backendVars
     ELSE Close(f, l)

(* boardDisconnected sent by the backend, which keeps running.             *)
BoardLost(p) ==
  /\ Quiet
  /\ p \in hasBoard \cap alive /\ Deliverable(p)
  /\ pc["lost"] = "idle"
  /\ hasBoard' = hasBoard \ {p}
  /\ ResetReadiness
  /\ IF Connected
     THEN SessionDisconnect("lost", "closing")
     ELSE /\ torn' = 0
          /\ UNCHANGED <<timer, proc, isOpen, closing, pending, flowVars>>
  /\ UNCHANGED <<state, nextId, uiVars, detectId, alive, announced, wire, spawned, asked>>

LostDone ==
  /\ pc["lost"] = "closing" /\ got["lost"] # "none"
  /\ Transition("disconnected")
  /\ Jump("lost", "idle")
  /\ UNCHANGED <<timer, backendVars, nextId, uiVars, detectId, childVars>>

(* Mutant: detectBoards goes to the backend without a timeout.             *)
TimeoutOfSession(f) ==
  /\ Quiet
  /\ Requesting(f) /\ f # "detect"
  /\ got' = [got EXCEPT ![f] = "err"]
  /\ waits' = [waits EXCEPT ![f] = 0]
  /\ UNCHANGED <<sessionVars, backendVars, nextId, uiVars, readyVars, pc, detectId, childVars>>

(* withTimeout(): the caller goes on; the entry in `pending` stays.        *)
Timeout(f) ==
  /\ Quiet
  /\ Requesting(f)
  /\ got' = [got EXCEPT ![f] = "err"]
  /\ waits' = [waits EXCEPT ![f] = 0]
  /\ UNCHANGED <<sessionVars, backendVars, nextId, uiVars, readyVars, pc, detectId, childVars>>

-----------------------------------------------------------------------------
(* Bounds of the model: a flow starts only with room for what it will use. *)
Room == /\ spawned + Cardinality({f \in Flows : pc[f] = "reopen"}) < MaxProcs
        /\ asked + 2 + (IF pc["connect"] \in {"reopen", "opened", "scan", "pick"} THEN 2 ELSE 0)
                 + (IF pc["detect"] \in {"reopen", "opened"} THEN 1 ELSE 0) <= MaxAsked

(* A close that goes on to spawn, in flow f.                               *)
Reopened(f) ==
  /\ pc[f] = "reopen" /\ got[f] # "none"
  /\ Spawn(f)
  /\ UNCHANGED <<sessionVars, uiVars, readyVars, detectId>>

(* connectBoardRuntime, called by a command or by the bridge.              *)
Connect(viaBridge) ==
  /\ Quiet /\ Room
  /\ pc["connect"] = "idle" /\ state = "disconnected" /\ ~busy /\ pc["op"] = "idle"
  /\ viaBridge => Bridge /\ bridge = "idle"
  /\ busy' = TRUE
  /\ bridge' = IF viaBridge THEN "connect" ELSE bridge
  /\ ResetReadiness
  /\ timer' = FALSE
  /\ state' = "connecting"
  /\ Open("connect", nextId)
  /\ UNCHANGED <<cached, detectId>>

(* Mutant: connectionBusy is not reset.                                    *)
ReturnBusy ==
  /\ busy' = busy
  /\ bridge' = IF bridge = "connect" THEN "idle" ELSE bridge

(* The end of connectBoardRuntime, which returns boardInfo().              *)
Return ==
  /\ busy' = FALSE
  /\ bridge' = IF bridge = "connect" THEN "idle" ELSE bridge

(* After session.connect(): an exception leads to session.disconnect(),    *)
(* else the ports are scanned unless the caller named one (bridge only).   *)
ConnectOpened ==
  /\ pc["connect"] = "opened" /\ got["connect"] # "none"
  /\ IF got["connect"] = "err"
     THEN /\ Transition("disconnected") /\ timer' = FALSE
          /\ Pass("connect", "undo", "done")
          /\ UNCHANGED <<backendVars, nextId, childVars>>
     ELSE /\ Transition("connected")
          /\ \/ Request("connect", "scan", "detect")
             \/ bridge = "connect" /\ Request("connect", "board", "connect")
          /\ UNCHANGED timer
  /\ UNCHANGED <<uiVars, detectId>>

(* A reply without a list of boards counts as an empty list.  Only a       *)
(* command's caller is asked to choose among several.                      *)
Scanned ==
  /\ pc["connect"] = "scan" /\ got["connect"] # "none"
  /\ CASE got["connect"] \notin {"one", "many"} ->
            /\ SessionDisconnect("connect", "undo")
            /\ UNCHANGED <<nextId, childVars>>
       [] got["connect"] = "many" /\ bridge # "connect" ->
            /\ Jump("connect", "pick")
            /\ UNCHANGED <<timer, backendVars, nextId, childVars>>
       [] OTHER ->
            /\ Request("connect", "board", "connect")
            /\ UNCHANGED timer
  /\ UNCHANGED <<state, uiVars, readyVars, detectId>>

Pick(selected) ==
  /\ Quiet
  /\ pc["connect"] = "pick"
  /\ IF selected
     THEN Request("connect", "board", "connect") /\ UNCHANGED timer
     ELSE SessionDisconnect("connect", "undo") /\ UNCHANGED <<nextId, childVars>>
  /\ UNCHANGED <<state, uiVars, readyVars, detectId>>

(* Mutant: any reply is kept as it is.                                     *)
RawInfo(r) == r

(* Any response is taken for the board's information.                      *)
InfoOf(r) == IF r = "v2" THEN "v2" ELSE "legacy"

Answered ==
  /\ pc["connect"] = "board" /\ got["connect"] # "none"
  /\ IF got["connect"] = "err"
     THEN /\ SessionDisconnect("connect", "undo")
          /\ UNCHANGED <<uiVars, readyVars>>
     ELSE /\ cached' = InfoOf(got["connect"])
          /\ ready' = (pendingReady \/ cached' = "legacy")
          /\ Jump("connect", "idle")
          /\ Return
          /\ UNCHANGED <<timer, backendVars, pendingReady>>
  /\ UNCHANGED <<state, nextId, detectId, childVars>>

(* The failed connect ends: the session is disconnected, and               *)
(* connectBoardRuntime still reads boardInfo().                            *)
Undone ==
  /\ pc["connect"] = "undo" /\ got["connect"] # "none"
  /\ state' = "disconnected"
  /\ pendingReady' = (pendingReady /\ state = "disconnected")
  /\ ready' = (cached # "none" /\ (pendingReady' \/ cached = "legacy"))
  /\ Jump("connect", "idle")
  /\ Return
  /\ UNCHANGED <<timer, backendVars, nextId, cached, detectId, childVars>>

(* disconnectBoardRuntime and boardService.disconnectBoard.                *)
Disconnect(viaBridge) ==
  /\ Quiet
  /\ pc["disconnect"] = "idle" /\ Connected /\ ~busy /\ pc["op"] = "idle"
  /\ viaBridge => Bridge /\ bridge = "idle"
  /\ busy' = TRUE
  /\ bridge' = IF viaBridge THEN "disconnect" ELSE bridge
  /\ ResetReadiness
  /\ SessionDisconnect("disconnect", "closing")
  /\ UNCHANGED <<state, nextId, cached, detectId, childVars>>

Disconnected ==
  /\ pc["disconnect"] = "closing" /\ got["disconnect"] # "none"
  /\ Transition("disconnected")
  /\ cached' = "none"
  /\ busy' = FALSE
  /\ bridge' = IF bridge = "disconnect" THEN "idle" ELSE bridge
  /\ Jump("disconnect", "idle")
  /\ UNCHANGED <<timer, backendVars, nextId, detectId, childVars>>

(* scheduleReconnect's callback.                                           *)
TimerFires ==
  /\ Quiet /\ Room
  /\ timer /\ pc["timer"] = "idle"
  /\ timer' = FALSE
  /\ Open("timer", nextId)
  /\ UNCHANGED <<state, uiVars, readyVars, detectId>>

Reconnected ==
  /\ pc["timer"] = "opened" /\ got["timer"] # "none"
  /\ IF got["timer"] = "err"
     THEN timer' = TRUE /\ Transition("connecting")
     ELSE Transition("connected") /\ UNCHANGED timer
  /\ Jump("timer", "idle")
  /\ UNCHANGED <<backendVars, nextId, uiVars, detectId, childVars>>

(* sendBridgeRequest(detectBoards) while disconnected: the request is      *)
(* created, then the backend is opened (which restarts the ids).           *)
Detect ==
  /\ Quiet /\ Room /\ Bridge
  /\ bridge = "idle" /\ state = "disconnected" /\ pc["detect"] = "idle"
  /\ bridge' = "detect"
  /\ detectId' = nextId
  /\ Open("detect", nextId + 1)
  /\ UNCHANGED <<sessionVars, busy, cached, readyVars>>

DetectOpened ==
  /\ pc["detect"] = "opened" /\ got["detect"] # "none"
  /\ IF got["detect"] = "err"
     THEN Close("detect", "closing") /\ UNCHANGED childVars
     ELSE Ask("detect", "asking", detectId, "detect")
  /\ UNCHANGED <<sessionVars, nextId, uiVars, readyVars, detectId>>

(* Mutant: the backend stays open after the bridge's detectBoards.         *)
DetectAnsweredOnly ==
  /\ pc["detect"] = "asking" /\ got["detect"] # "none"
  /\ Pass("detect", "closing", "done")
  /\ UNCHANGED <<sessionVars, backendVars, nextId, uiVars, readyVars, detectId, childVars>>

(* The `finally` of the bridge's detectBoards.                             *)
DetectAnswered ==
  /\ pc["detect"] = "asking" /\ got["detect"] # "none"
  /\ Close("detect", "closing")
  /\ UNCHANGED <<sessionVars, nextId, uiVars, readyVars, detectId, childVars>>

DetectClosed ==
  /\ pc["detect"] = "closing" /\ got["detect"] # "none"
  /\ Jump("detect", "idle")
  /\ bridge' = "idle"
  /\ detectId' = 0
  /\ UNCHANGED <<sessionVars, backendVars, nextId, busy, cached, readyVars, childVars>>

(* Any other request of the user, under setScriptBusyContext.              *)
Operate ==
  /\ Quiet /\ Room
  /\ Connected /\ ~busy /\ pc["op"] = "idle"
  /\ Request("op", "asking", "op")
  /\ UNCHANGED <<sessionVars, uiVars, readyVars, detectId>>

Operated ==
  /\ pc["op"] = "asking" /\ got["op"] # "none"
  /\ Jump("op", "idle")
  /\ UNCHANGED <<sessionVars, backendVars, nextId, uiVars, readyVars, detectId, childVars>>

-----------------------------------------------------------------------------
Resume == \/ LostDone \/ ConnectOpened \/ Scanned \/ Answered \/ Undone \/ Disconnected
          \/ Reconnected \/ DetectOpened \/ DetectAnswered \/ DetectClosed \/ Operated
          \/ \E f \in {"connect", "timer", "detect"} : Reopened(f)

Children == \E p \in Procs : Exit(p) \/ Tear(p) \/ BoardReady(p) \/ BoardLost(p)
Answers  == \E w \in wire : BoardOpened(w) \/ \E r \in Replies : Answer(w, r)
Users    == \/ \E b \in BOOLEAN : Connect(b) \/ Disconnect(b) \/ Pick(b)
            \/ Detect \/ Operate

Next == Resume \/ Children \/ Answers \/ Users \/ TimerFires \/ \E f \in Flows : Timeout(f)

Spec == Init /\ [][Next]_vars

(* Settled awaits go on, an expired timer is run by the event loop however *)
(* busy it is, and a child that was sent SIGTERM and SIGKILL ends.  Users, *)
(* boards and backends owe nothing.                                        *)
FairSpec == /\ Spec
            /\ WF_vars(Resume)
            /\ \A f \in {"connect", "detect", "op"} : SF_vars(Timeout(f))
            /\ SF_vars(\E p \in Procs : closing = p /\ Exit(p))
-----------------------------------------------------------------------------
(* Type invariant of the state that native.ts, session.ts, boardService.ts *)
(* and extension.ts keep about the connection.                             *)
TypeOK ==
  /\ state \in {"disconnected", "connecting", "connected"}
  /\ {timer, isOpen, busy, ready, pendingReady} \subseteq BOOLEAN
  /\ proc \in 0 .. MaxProcs /\ closing \in 0 .. MaxProcs /\ torn \in 0 .. MaxProcs
  /\ spawned \in 0 .. MaxProcs /\ asked \in Nat
  /\ nextId \in Nat /\ detectId \in Nat
  /\ pending \in [DOMAIN pending -> Nat] /\ DOMAIN pending \subseteq Nat
  /\ cached \in {"none", "v2", "legacy"}
  /\ bridge \in {"idle", "connect", "disconnect", "detect"}
  /\ pc \in [Flows -> {"idle", "opened", "reopen", "scan", "pick", "board", "undo",
                       "closing", "asking"}]
  /\ waits \in [Flows -> Nat]
  /\ got \in [Flows -> Replies \cup {"none"}]
  /\ alive \subseteq Procs /\ hasBoard \subseteq Procs /\ announced \subseteq Procs
  /\ wire \subseteq [proc : Nat, id : Nat, ask : Nat, kind : Kinds]

Idle(f) == pc[f] = "idle"
Resting == \A f \in Flows : Idle(f)

(* A backend process holds the serial port: open() never starts one while  *)
(* another still runs, whatever closes are under way (native.ts open,      *)
(* close and the exit handler).                                            *)
OneBackend == \A p \in alive : p = proc

(* No request is left in pendingRequests that its backend can no longer    *)
(* answer: the exit handler and close() settle all of them.                *)
NoStrandedRequest ==
  pending # NoRequests => isOpen /\ proc \in alive

(* When nothing is in progress and the session is disconnected, no backend *)
(* process is left behind holding the board's port.                        *)
NoOrphanBackend ==
  Resting /\ state = "disconnected" => alive = {} /\ proc = 0

(* A user's disconnect is final: a reconnect timer is armed only while the *)
(* session says "connecting" (disconnect clears it, whoever calls it).     *)
TimerMeansConnecting == timer => state = "connecting"

(* A boardReady event is not lost, whether it comes before or after the    *)
(* answer to connectBoard (pendingBoardReadyEvent).                        *)
ReadyIsNotLost ==
  Connected /\ isOpen /\ Idle("connect") /\ proc \in announced \cap hasBoard
    /\ cached # "none"
    => ready \/ pc["lost"] # "idle" \/ pc["disconnect"] # "idle"

(* connectBoardRuntime and disconnectBoardRuntime end (or wait for the     *)
(* user to pick a port): connectionBusy does not block the commands for    *)
(* ever.                                                                   *)
BusyEnds == busy ~> (~busy \/ pc["connect"] = "pick")

(* The bridge answers: its queue, which serialises all MCP clients, moves. *)
BridgeAnswers == bridge # "idle" ~> bridge = "idle"

(* "Once connected, the port stays open across state transitions until     *)
(* explicit disconnect" (session.ts:21-22): at rest, a connected session   *)
(* has an open backend.                                                    *)
ConnectedStaysOpen == Resting /\ Connected => isOpen

(* A reply settles the request it was written for.                         *)
ReplyMatchesRequest ==
  \A w \in wire : w.id \in DOMAIN pending => pending[w.id] = w.ask

(* A connected session has connected its board, also after a reconnect.    *)
ConnectedHasBoard ==
  Resting /\ Connected /\ isOpen => proc \in hasBoard

(* connectBoardRuntime returns board information only for a board that is  *)
(* connected; the bridge turns it into the answer to connect_board.        *)
InfoMeansConnected ==
  [][busy /\ ~busy' /\ Idle("disconnect") /\ cached' # "none" => state' = "connected"]_vars

(* A new backend's first bytes meet a reader that holds nothing.           *)
FreshReader == [][spawned' # spawned => torn' = 0]_vars
=============================================================================
