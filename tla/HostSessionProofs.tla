-------------------------- MODULE HostSessionProofs --------------------------
(***************************************************************************)
(* Theorems about HostSession, for every setting and any number of backend *)
(* processes and requests: one backend at a time, no request left behind,  *)
(* no backend left behind, no boardReady lost.  They follow from one       *)
(* inductive invariant, the conjunction of the named parts below: which    *)
(* flows can be under way together, and what each of them may rely on when *)
(* its await settles.  ReadinessIsKept needs a second one over it.         *)
(* The last part is about the pipe behind the client: FramedReader hands   *)
(* the messages over in order, whatever the texts, frames and chunks.      *)
(***************************************************************************)
EXTENDS HostSession, PipeMessages, FiniteSetTheorems, SequenceTheorems, TLAPS

LEMMA Bounds == MaxProcs \in Nat \ {0} /\ MaxAsked \in Nat \ {0}
  BY ConstantsAssumption DEF ConstantsAssumption



-----------------------------------------------------------------------------
(* The inductive invariant.                                                *)

(* The type invariant in parts, after the actions that change them.        *)
ProcTyped == /\ proc \in 0 .. MaxProcs /\ closing \in 0 .. MaxProcs
             /\ torn \in 0 .. MaxProcs
PendingTyped == pending \in [DOMAIN pending -> Nat] /\ DOMAIN pending \subseteq Nat
BackendTyped == isOpen \in BOOLEAN /\ ProcTyped /\ PendingTyped
FlowsTyped ==
  /\ pc \in [Flows -> {"idle", "opened", "reopen", "scan", "pick", "board", "undo",
                       "closing", "asking"}]
  /\ waits \in [Flows -> Nat]
  /\ got \in [Flows -> Replies \cup {"none"}]
ChildTyped ==
  /\ spawned \in 0 .. MaxProcs /\ asked \in Nat
  /\ alive \subseteq Procs /\ hasBoard \subseteq Procs /\ announced \subseteq Procs
  /\ wire \subseteq [proc : Nat, id : Nat, ask : Nat, kind : Kinds]
SessionTyped ==
  /\ state \in {"disconnected", "connecting", "connected"} /\ timer \in BOOLEAN
  /\ ready \in BOOLEAN /\ pendingReady \in BOOLEAN
UiTyped ==
  /\ busy \in BOOLEAN /\ cached \in {"none", "v2", "legacy"}
  /\ bridge \in {"idle", "connect", "disconnect", "detect"}
  /\ nextId \in Nat /\ detectId \in Nat
PartsTyped == BackendTyped /\ FlowsTyped /\ ChildTyped

(* Each flow goes through its own awaits.                                  *)
Labels(f) ==
  IF f = "connect" THEN {"idle", "reopen", "opened", "scan", "pick", "board", "undo"}
  ELSE IF f = "timer" THEN {"idle", "opened"}
  ELSE IF f = "detect" THEN {"idle", "opened", "asking", "closing"}
  ELSE IF f = "op" THEN {"idle", "asking"}
  ELSE {"idle", "closing"}

FlowsLabelled ==
  \A f \in Flows : pc[f] \in Labels(f) /\ (pc[f] \in {"idle", "pick"} => got[f] = "none")

(* The extension's view of the child is right: the process it holds is the *)
(* only one, which has all unanswered requests, and unless it is open it   *)
(* has been told to end.                                                   *)
ChildTracked ==
  /\ alive = IF proc = 0 THEN {} ELSE {proc}
  /\ closing = IF isOpen \/ proc = 0 THEN 0 ELSE proc
  /\ isOpen => proc # 0
  /\ proc <= spawned
  /\ \A w \in wire : w.proc \in alive

PendingAnswerable == ~isOpen => pending = NoRequests

(* Whoever awaits an exit awaits that of the process held, which has been  *)
(* told to end; and for a disconnect the session stays connected until     *)
(* then and finds no process afterwards.                                   *)
ClosersAwaitExit ==
  /\ \A f \in Flows : pc[f] \in {"closing", "undo", "reopen"} /\ got[f] = "none" =>
       proc # 0 /\ ~isOpen /\ waits[f] = proc
  /\ \A f \in {"lost", "disconnect"} : pc[f] = "closing" =>
       /\ pc["connect"] \notin {"opened", "reopen"} /\ pc["timer"] = "idle"
       /\ got[f] # "none" => proc = 0
       /\ got[f] = "none" => state = "connected"
  /\ pc["connect"] = "undo" /\ got["connect"] # "none" => proc = 0 \/ state = "disconnected"

(* No two flows open a backend at a time.                                  *)
OpeningsAlone ==
  /\ pc["connect"] = "reopen" =>
       pc["detect"] \in {"idle", "closing"} /\ (got["connect"] # "none" => proc = 0)
  /\ pc["connect"] = "opened" =>
       /\ pc["detect"] = "asking" => got["detect"] = "none"
       /\ got["connect"] \in {"done", "err"}
       /\ got["connect"] = "done" => isOpen
       /\ got["connect"] = "err" => proc = 0
  /\ pc["connect"] \in {"reopen", "opened"} => state = "connecting" /\ pc["timer"] = "idle"
  /\ \A f \in {"timer", "detect"} : pc[f] = "opened" =>
       got[f] \in {"done", "err"} /\ \A g \in Flows \ {f} : got[g] = "none"
  /\ pc["timer"] = "opened" /\ got["timer"] = "err" => proc = 0

(* The reconnect timer is armed only after a backend is gone, and nothing  *)
(* that opens or closes one overlaps with it.                              *)
TimerAlone ==
  /\ timer \/ pc["timer"] = "opened" =>
       state = "connecting" /\ pc["connect"] \notin {"reopen", "opened", "undo"}
  /\ timer => proc = 0 /\ \A f \in {"timer", "lost", "disconnect"} : pc[f] = "idle"

(* While disconnected only the bridge's detectBoards holds a backend.      *)
DisconnectedChild ==
  /\ state = "disconnected" /\ proc # 0 =>
       pc["detect"] \in (IF isOpen THEN {"opened", "asking"} ELSE {"closing"})
  /\ pc["detect"] = "closing" /\ got["detect"] # "none" =>
       proc = 0 \/ (isOpen /\ (pc["connect"] = "opened" \/ got["connect"] = "none"))

(* connectionBusy is set while, and only while, one of the two flows runs. *)
BusyFlows ==
  /\ busy <=> pc["connect"] # "idle" \/ pc["disconnect"] # "idle"
  /\ pc["connect"] = "idle" \/ pc["disconnect"] = "idle"

(* The bound on processes holds, also for a flow that will spawn one.      *)
RoomKept == spawned + (IF pc["connect"] = "reopen" THEN 1 ELSE 0) <= MaxProcs

FlowInv == /\ FlowsLabelled /\ ChildTracked /\ PendingAnswerable /\ ClosersAwaitExit
           /\ OpeningsAlone /\ TimerAlone /\ DisconnectedChild /\ BusyFlows

IInv == PartsTyped /\ SessionTyped /\ UiTyped /\ RoomKept /\ FlowInv

USE DEF Flows, Labels, sessionVars, backendVars, uiVars, readyVars, flowVars, childVars

-----------------------------------------------------------------------------
(* A flow starts only where there is room for the process it may spawn.    *)
LEMMA RoomForOne ==
  ASSUME PartsTyped, Room, \A f \in Flows : pc[f] # "reopen"
  PROVE  spawned + 1 <= MaxProcs
<1>1. {f \in Flows : pc[f] = "reopen"} = {}
  OBVIOUS
<1>2. Cardinality({f \in Flows : pc[f] = "reopen"}) = 0
  BY <1>1, FS_EmptySet
<1> QED
  BY <1>2, Bounds DEF Room, PartsTyped, ChildTyped

LEMMA TypeParts == TypeOK <=> PartsTyped /\ SessionTyped /\ UiTyped
  BY DEF TypeOK, PartsTyped, BackendTyped, ProcTyped, PendingTyped, FlowsTyped, ChildTyped,
     SessionTyped, UiTyped

LEMMA ReplyNames == {"done", "err"} \subseteq Replies
  BY DEF Replies, OpReplies

LEMMA NoRequestsTyped ==
  pending' = NoRequests => PendingTyped'
  BY DEF PendingTyped, NoRequests

(* A request, a close and a spawn keep their parts of the type invariant.  *)
LEMMA AskTyped ==
  ASSUME PartsTyped, NEW f \in Flows, NEW l \in {"scan", "board", "asking"}, NEW id \in Nat,
         NEW kind \in Kinds, Ask(f, l, id, kind)
  PROVE  PartsTyped'
<1> USE DEF PartsTyped, BackendTyped
<1>1. asked' \in Nat /\ proc \in Nat
  BY DEF Ask, ChildTyped, ProcTyped
<1>2. isOpen' \in BOOLEAN /\ ProcTyped'
  BY DEF Ask, ProcTyped
<1>3. CASE isOpen
  <2>1. [proc |-> proc, id |-> id, ask |-> asked', kind |-> kind]
          \in [proc : Nat, id : Nat, ask : Nat, kind : Kinds]
    BY <1>1
  <2>2. PendingTyped'
    BY <1>1, <1>3 DEF Ask, PendingTyped
  <2>3. FlowsTyped'
    BY <1>1, <1>3 DEF Ask, FlowsTyped
  <2>4. ChildTyped'
    BY <1>1, <1>3, <2>1 DEF Ask, ChildTyped
  <2> QED
    BY <1>2, <2>2, <2>3, <2>4
<1>4. CASE ~isOpen
  BY <1>1, <1>2, <1>4, ReplyNames DEF Ask, PendingTyped, FlowsTyped, ChildTyped
<1> QED
  BY <1>3, <1>4

LEMMA CloseTyped ==
  ASSUME PartsTyped, NEW f \in Flows, NEW l \in {"reopen", "undo", "closing"}, Close(f, l)
  PROVE  BackendTyped' /\ FlowsTyped'
<1> USE DEF PartsTyped, BackendTyped
<1>1. PendingTyped'
  BY NoRequestsTyped DEF Close
<1>2. ProcTyped'
  BY Bounds DEF Close, ProcTyped
<1>3. isOpen' \in BOOLEAN
  BY DEF Close
<1>4. FlowsTyped'
  BY ReplyNames, Bounds DEF Close, ProcTyped, FlowsTyped
<1> QED
  BY <1>1, <1>2, <1>3, <1>4

LEMMA SpawnTyped ==
  ASSUME PartsTyped, spawned + 1 <= MaxProcs, NEW f \in Flows, Spawn(f)
  PROVE  PartsTyped' /\ nextId' \in Nat
<1> USE DEF PartsTyped, BackendTyped
<1>1. PendingTyped' /\ nextId' \in Nat
  BY DEF Spawn, PendingTyped
<1>2. ProcTyped'
  BY Bounds DEF Spawn, ProcTyped, ChildTyped
<1>3. isOpen' \in BOOLEAN
  BY DEF Spawn
<1>4. FlowsTyped'
  BY ReplyNames DEF Spawn, Pass, FlowsTyped
<1>5. spawned' \in 0 .. MaxProcs /\ asked' \in Nat /\ wire' = wire
  BY Bounds DEF Spawn, ChildTyped
<1>6. spawned + 1 \in Procs
  BY Bounds DEF Spawn, ChildTyped, Procs
<1>7. alive' \subseteq Procs /\ hasBoard' = hasBoard /\ announced' = announced
  BY <1>6 DEF Spawn, ChildTyped
<1> QED
  BY <1>1, <1>2, <1>3, <1>4, <1>5, <1>7 DEF ChildTyped

LEMMA PassTyped ==
  ASSUME FlowsTyped, NEW f \in Flows, NEW l \in {"idle", "opened", "undo", "closing"},
         NEW r \in {"done", "err"}, Pass(f, l, r)
  PROVE  FlowsTyped'
  BY ReplyNames DEF Pass, FlowsTyped

LEMMA JumpTyped ==
  ASSUME FlowsTyped, NEW f \in Flows, NEW l \in {"idle", "pick"}, Jump(f, l)
  PROVE  FlowsTyped'
  BY DEF Jump, FlowsTyped

LEMMA OpenTyped ==
  ASSUME PartsTyped, spawned + 1 <= MaxProcs, NEW f \in Flows, NEW n \in Nat, Open(f, n)
  PROVE  PartsTyped' /\ nextId' \in Nat
<1>1. CASE isOpen
  <2>1. Pass(f, "opened", "done") /\ nextId' = n /\ UNCHANGED <<backendVars, childVars>>
    BY <1>1 DEF Open
  <2> QED
    BY <2>1, PassTyped DEF PartsTyped, BackendTyped, ProcTyped, PendingTyped, ChildTyped
<1>2. CASE ~isOpen /\ proc # 0
  BY <1>2, CloseTyped DEF Open, PartsTyped, ChildTyped
<1>3. CASE ~isOpen /\ proc = 0
  BY <1>3, SpawnTyped DEF Open
<1> QED
  BY <1>1, <1>2, <1>3

-----------------------------------------------------------------------------
(* Every step preserves the invariant: first the steps of the flows whose  *)
(* await is settled.                                                       *)
USE DEF IInv, FlowInv, FlowsLabelled, ChildTracked, PendingAnswerable, ClosersAwaitExit,
        OpeningsAlone, TimerAlone, DisconnectedChild, BusyFlows, RoomKept,
        PartsTyped, BackendTyped

LEMMA ConnectOpenedStep == IInv /\ ConnectOpened => IInv'
<1> SUFFICES ASSUME IInv, ConnectOpened PROVE IInv'
  OBVIOUS
<1>1. CASE got["connect"] = "err"
  <2>1. PartsTyped'
    BY <1>1, PassTyped DEF ConnectOpened, ProcTyped, PendingTyped, ChildTyped
  <2>2. SessionTyped' /\ UiTyped'
    BY <1>1 DEF ConnectOpened, Transition, ResetReadiness, SessionTyped, UiTyped
  <2>3. FlowInv' /\ RoomKept'
    BY <1>1 DEF ConnectOpened, Pass, Transition, FlowsTyped
  <2> QED
    BY <2>1, <2>2, <2>3
<1>2. CASE got["connect"] # "err"
  <2>1. PICK l \in {"scan", "board"}, k \in Kinds : Ask("connect", l, nextId, k)
    BY <1>2 DEF ConnectOpened, Request, Kinds
  <2>2. PartsTyped'
    BY <2>1, AskTyped DEF UiTyped
  <2>3. SessionTyped' /\ UiTyped'
    BY <1>2 DEF ConnectOpened, Transition, Request, ResetReadiness, SessionTyped, UiTyped
  <2>4. FlowInv' /\ RoomKept'
    BY <1>2, <2>1 DEF ConnectOpened, Transition, Ask, FlowsTyped
  <2> QED
    BY <2>2, <2>3, <2>4
<1> QED
  BY <1>1, <1>2

(* session.disconnect() of the connect flow, from any of its awaits.       *)
LEMMA ConnectGivesUp ==
  ASSUME IInv, pc["connect"] \in {"scan", "pick", "board"}, Quiet \/ got["connect"] # "none",
         SessionDisconnect("connect", "undo"),
         UNCHANGED <<state, nextId, uiVars, readyVars, detectId, childVars>>
  PROVE  IInv'
<1>1. PartsTyped'
  BY PassTyped, CloseTyped DEF SessionDisconnect, ProcTyped, PendingTyped, ChildTyped
<1>2. SessionTyped' /\ UiTyped'
  BY DEF SessionDisconnect, SessionTyped, UiTyped
<1>3. FlowInv' /\ RoomKept'
  BY DEF SessionDisconnect, Pass, Close, Failed, Requesting, FlowsTyped, Quiet
<1> QED
  BY <1>1, <1>2, <1>3

LEMMA ConnectAsks ==
  ASSUME IInv, pc["connect"] \in {"scan", "pick"}, Quiet \/ got["connect"] # "none",
         Request("connect", "board", "connect"),
         UNCHANGED <<sessionVars, uiVars, readyVars, detectId>>
  PROVE  IInv'
<1>1. PartsTyped'
  BY AskTyped DEF UiTyped, Request, Kinds
<1>2. SessionTyped' /\ UiTyped'
  BY DEF Request, SessionTyped, UiTyped
<1>3. FlowInv' /\ RoomKept'
  BY DEF Request, Ask, FlowsTyped, Quiet
<1> QED
  BY <1>1, <1>2, <1>3

LEMMA ScannedStep == IInv /\ Scanned => IInv'
<1> SUFFICES ASSUME IInv, Scanned PROVE IInv'
  OBVIOUS
<1>1. CASE got["connect"] \notin {"one", "many"}
  BY <1>1, ConnectGivesUp DEF Scanned
<1>2. CASE got["connect"] = "many" /\ bridge # "connect"
  <2>1. PartsTyped'
    BY <1>2, JumpTyped DEF Scanned, ProcTyped, PendingTyped, ChildTyped
  <2>2. SessionTyped' /\ UiTyped'
    BY <1>2 DEF Scanned, SessionTyped, UiTyped
  <2>3. FlowInv' /\ RoomKept'
    BY <1>2 DEF Scanned, Jump, FlowsTyped
  <2> QED
    BY <2>1, <2>2, <2>3
<1>3. CASE /\ got["connect"] \in {"one", "many"}
           /\ ~(got["connect"] = "many" /\ bridge # "connect")
  BY <1>3, ConnectAsks DEF Scanned
<1> QED
  BY <1>1, <1>2, <1>3

LEMMA AnsweredStep == IInv /\ Answered => IInv'
<1> SUFFICES ASSUME IInv, Answered PROVE IInv'
  OBVIOUS
<1>1. CASE got["connect"] = "err"
  BY <1>1, ConnectGivesUp DEF Answered
<1>2. CASE got["connect"] # "err"
  <2>1. PartsTyped'
    BY <1>2, JumpTyped DEF Answered, ProcTyped, PendingTyped, ChildTyped
  <2>2. SessionTyped' /\ UiTyped'
    BY <1>2 DEF Answered, Return, InfoOf, SessionTyped, UiTyped
  <2>3. FlowInv' /\ RoomKept'
    BY <1>2 DEF Answered, Return, Jump, FlowsTyped
  <2> QED
    BY <2>1, <2>2, <2>3
<1> QED
  BY <1>1, <1>2

LEMMA UndoneStep == IInv /\ Undone => IInv'
<1> SUFFICES ASSUME IInv, Undone PROVE IInv'
  OBVIOUS
<1>1. PartsTyped'
  BY JumpTyped DEF Undone, ProcTyped, PendingTyped, ChildTyped
<1>2. SessionTyped' /\ UiTyped'
  BY DEF Undone, Return, SessionTyped, UiTyped
<1>3. FlowInv' /\ RoomKept'
  BY DEF Undone, Return, Jump, FlowsTyped
<1> QED
  BY <1>1, <1>2, <1>3

LEMMA DisconnectedStep == IInv /\ Disconnected => IInv'
<1> SUFFICES ASSUME IInv, Disconnected PROVE IInv'
  OBVIOUS
<1>1. PartsTyped'
  BY JumpTyped DEF Disconnected, ProcTyped, PendingTyped, ChildTyped
<1>2. SessionTyped' /\ UiTyped'
  BY DEF Disconnected, Transition, ResetReadiness, SessionTyped, UiTyped
<1>3. FlowInv' /\ RoomKept'
  BY DEF Disconnected, Transition, Jump, FlowsTyped
<1> QED
  BY <1>1, <1>2, <1>3

LEMMA LostDoneStep == IInv /\ LostDone => IInv'
<1> SUFFICES ASSUME IInv, LostDone PROVE IInv'
  OBVIOUS
<1>1. PartsTyped'
  BY JumpTyped DEF LostDone, ProcTyped, PendingTyped, ChildTyped
<1>2. SessionTyped' /\ UiTyped'
  BY DEF LostDone, Transition, ResetReadiness, SessionTyped, UiTyped
<1>3. FlowInv' /\ RoomKept'
  BY DEF LostDone, Transition, Jump, FlowsTyped
<1> QED
  BY <1>1, <1>2, <1>3

LEMMA ReconnectedStep == IInv /\ Reconnected => IInv'
<1> SUFFICES ASSUME IInv, Reconnected PROVE IInv'
  OBVIOUS
<1>1. PartsTyped'
  BY JumpTyped DEF Reconnected, ProcTyped, PendingTyped, ChildTyped
<1>2. SessionTyped' /\ UiTyped'
  BY DEF Reconnected, Transition, ResetReadiness, SessionTyped, UiTyped
<1>3. FlowInv' /\ RoomKept'
  BY DEF Reconnected, Transition, Jump, FlowsTyped
<1> QED
  BY <1>1, <1>2, <1>3

LEMMA DetectCloses ==
  ASSUME IInv, pc["detect"] \in {"opened", "asking"}, got["detect"] # "none",
         Close("detect", "closing"),
         UNCHANGED <<sessionVars, nextId, uiVars, readyVars, detectId, childVars>>
  PROVE  IInv'
<1>1. PartsTyped'
  BY CloseTyped DEF ChildTyped
<1>2. SessionTyped' /\ UiTyped'
  BY DEF SessionTyped, UiTyped
<1>3. FlowInv' /\ RoomKept'
  BY DEF Close, Failed, Requesting, FlowsTyped
<1> QED
  BY <1>1, <1>2, <1>3

LEMMA DetectOpenedStep == IInv /\ DetectOpened => IInv'
<1> SUFFICES ASSUME IInv, DetectOpened PROVE IInv'
  OBVIOUS
<1>1. CASE got["detect"] = "err"
  BY <1>1, DetectCloses DEF DetectOpened
<1>2. CASE got["detect"] # "err"
  <2>1. PartsTyped'
    BY <1>2, AskTyped DEF DetectOpened, UiTyped, Kinds
  <2>2. SessionTyped' /\ UiTyped'
    BY <1>2 DEF DetectOpened, SessionTyped, UiTyped
  <2>3. FlowInv' /\ RoomKept'
    BY <1>2 DEF DetectOpened, Ask, FlowsTyped
  <2> QED
    BY <2>1, <2>2, <2>3
<1> QED
  BY <1>1, <1>2

LEMMA DetectAnsweredStep == IInv /\ DetectAnswered => IInv'
  BY DetectCloses DEF DetectAnswered

LEMMA DetectClosedStep == IInv /\ DetectClosed => IInv'
<1> SUFFICES ASSUME IInv, DetectClosed PROVE IInv'
  OBVIOUS
<1>1. PartsTyped'
  BY JumpTyped DEF DetectClosed, ProcTyped, PendingTyped, ChildTyped
<1>2. SessionTyped' /\ UiTyped'
  BY DEF DetectClosed, SessionTyped, UiTyped
<1>3. FlowInv' /\ RoomKept'
  BY DEF DetectClosed, Jump, FlowsTyped
<1> QED
  BY <1>1, <1>2, <1>3

LEMMA OperatedStep == IInv /\ Operated => IInv'
<1> SUFFICES ASSUME IInv, Operated PROVE IInv'
  OBVIOUS
<1>1. PartsTyped'
  BY JumpTyped DEF Operated, ProcTyped, PendingTyped, ChildTyped
<1>2. SessionTyped' /\ UiTyped'
  BY DEF Operated, SessionTyped, UiTyped
<1>3. FlowInv' /\ RoomKept'
  BY DEF Operated, Jump, FlowsTyped
<1> QED
  BY <1>1, <1>2, <1>3

LEMMA ReopenedStep ==
  ASSUME IInv, NEW f \in {"connect", "timer", "detect"}, Reopened(f) PROVE IInv'
<1>1. f = "connect"
  BY DEF Reopened
<1>2. PartsTyped' /\ nextId' \in Nat
  BY <1>1, SpawnTyped DEF Reopened
<1>3. SessionTyped' /\ UiTyped'
  BY <1>1, <1>2 DEF Reopened, SessionTyped, UiTyped
<1>4. FlowInv' /\ RoomKept'
  BY <1>1 DEF Reopened, Spawn, Pass, FlowsTyped, ChildTyped
<1> QED
  BY <1>2, <1>3, <1>4

-----------------------------------------------------------------------------
(* The steps of users, timers and the child, taken when nothing else runs. *)

LEMMA ConnectStep ==
  ASSUME IInv, NEW b \in BOOLEAN, Connect(b) PROVE IInv'
<1>1. spawned + 1 <= MaxProcs
  BY RoomForOne DEF Connect, Quiet, FlowsTyped
<1>2. PartsTyped' /\ nextId' \in Nat
  BY <1>1, OpenTyped DEF Connect, UiTyped
<1>3. SessionTyped' /\ UiTyped'
  BY <1>2 DEF Connect, ResetReadiness, SessionTyped, UiTyped
<1>4. FlowInv' /\ RoomKept'
  <2>1. CASE isOpen
    BY <2>1 DEF Connect, Quiet, Open, Pass, FlowsTyped
  <2>2. CASE ~isOpen /\ proc # 0
    <3>1. /\ pc["detect"] = "closing" /\ got["detect"] = "none"
          /\ \A f \in {"lost", "disconnect", "timer"} : pc[f] = "idle"
      BY <2>2 DEF Connect, Quiet
    <3>2. /\ pc' = [pc EXCEPT !["connect"] = "reopen"]
          /\ waits' = [waits EXCEPT !["connect"] = proc]
          /\ closing' = proc /\ isOpen' = FALSE /\ pending' = NoRequests
          /\ UNCHANGED <<proc, alive, wire, spawned>>
          /\ state' = "connecting" /\ timer' = FALSE /\ busy' = TRUE
      BY <2>2 DEF Connect, Open, Close
    <3>3. \A f \in Flows : ~Requesting(f) => got'[f] = "none"
      <4>1. got' = [g \in Flows |-> IF g = "connect" THEN "none" ELSE IF g \in Failed THEN "err" ELSE got[g]]
        BY <2>2 DEF Connect, Open, Close
      <4>2. \A f \in Flows : got[f] = "none"
        BY DEF Connect, Quiet
      <4> QED
        BY <4>1, <4>2 DEF Failed
    <3> QED
      BY <1>1, <2>2, <3>1, <3>2, <3>3, Bounds DEF Connect, Quiet, Requesting, FlowsTyped,
         ChildTyped
  <2>3. CASE ~isOpen /\ proc = 0
    BY <1>1, <2>3, Bounds DEF Connect, Quiet, Open, Spawn, Pass, FlowsTyped, ChildTyped
  <2> QED
    BY <2>1, <2>2, <2>3
<1> QED
  BY <1>2, <1>3, <1>4

LEMMA PickStep ==
  ASSUME IInv, NEW b \in BOOLEAN, Pick(b) PROVE IInv'
<1>1. CASE b
  BY <1>1, ConnectAsks DEF Pick
<1>2. CASE ~b
  BY <1>2, ConnectGivesUp DEF Pick
<1> QED
  BY <1>1, <1>2

LEMMA DisconnectStep ==
  ASSUME IInv, NEW b \in BOOLEAN, Disconnect(b) PROVE IInv'
<1>1. PartsTyped'
  BY PassTyped, CloseTyped DEF Disconnect, SessionDisconnect, ProcTyped, PendingTyped,
     ChildTyped
<1>2. SessionTyped' /\ UiTyped'
  BY DEF Disconnect, SessionDisconnect, ResetReadiness, SessionTyped, UiTyped
<1>3. FlowInv' /\ RoomKept'
  BY DEF Disconnect, Connected, SessionDisconnect, Pass, Close, Failed, Requesting, FlowsTyped,
     Quiet
<1> QED
  BY <1>1, <1>2, <1>3

LEMMA TimerFiresStep == IInv /\ TimerFires => IInv'
<1> SUFFICES ASSUME IInv, TimerFires PROVE IInv'
  OBVIOUS
<1>1. spawned + 1 <= MaxProcs
  BY RoomForOne DEF TimerFires, Quiet, FlowsTyped
<1>2. PartsTyped' /\ nextId' \in Nat
  BY <1>1, OpenTyped DEF TimerFires, UiTyped
<1>3. SessionTyped' /\ UiTyped'
  BY <1>2 DEF TimerFires, SessionTyped, UiTyped
<1>4. FlowInv' /\ RoomKept'
  <2>1. ~isOpen /\ proc = 0
    BY DEF TimerFires
  <2> QED
    BY <1>1, <2>1, Bounds DEF TimerFires, Quiet, Open, Spawn, Pass, FlowsTyped, ChildTyped
<1> QED
  BY <1>2, <1>3, <1>4

LEMMA DetectStep == IInv /\ Detect => IInv'
<1> SUFFICES ASSUME IInv, Detect PROVE IInv'
  OBVIOUS
<1>1. spawned + 1 <= MaxProcs
  BY RoomForOne DEF Detect, Quiet, FlowsTyped
<1>2. PartsTyped' /\ nextId' \in Nat
  BY <1>1, OpenTyped DEF Detect, UiTyped
<1>3. SessionTyped' /\ UiTyped'
  BY <1>2 DEF Detect, SessionTyped, UiTyped
<1>4. FlowInv' /\ RoomKept'
  <2>1. CASE isOpen
    BY <2>1 DEF Detect, Quiet, Open, Pass, FlowsTyped
  <2>2. CASE ~isOpen
    <3>1. proc = 0
      BY <2>2 DEF Detect
    <3> QED
      BY <1>1, <2>2, <3>1, Bounds DEF Detect, Quiet, Open, Spawn, Pass, FlowsTyped, ChildTyped
  <2> QED
    BY <2>1, <2>2
<1> QED
  BY <1>2, <1>3, <1>4

LEMMA OperateStep == IInv /\ Operate => IInv'
<1> SUFFICES ASSUME IInv, Operate PROVE IInv'
  OBVIOUS
<1>1. PartsTyped'
  BY AskTyped DEF Operate, UiTyped, Request, Kinds
<1>2. SessionTyped' /\ UiTyped'
  BY DEF Operate, Request, SessionTyped, UiTyped
<1>3. FlowInv' /\ RoomKept'
  BY DEF Operate, Request, Ask, FlowsTyped, Quiet
<1> QED
  BY <1>1, <1>2, <1>3

LEMMA ExitStep ==
  ASSUME IInv, NEW p \in Procs, Exit(p) PROVE IInv'
<1>1. proc = p /\ proc # 0
  BY DEF Exit
<1>2. ProcTyped' /\ ChildTyped' /\ PendingTyped'
  BY <1>1, Bounds, NoRequestsTyped DEF Exit, ProcTyped, ChildTyped
<1>3. FlowsTyped'
  BY <1>1, ReplyNames DEF Exit, FlowsTyped
<1>4. isOpen' \in BOOLEAN /\ SessionTyped' /\ UiTyped'
  BY <1>1 DEF Exit, OnBackendDisconnect, ResetReadiness, SessionTyped, UiTyped
<1>5. FlowInv' /\ RoomKept'
  <2>0. \A f \in Flows : got[f] = "none"
    BY DEF Exit, Quiet
  <2>1. \A f \in Flows : pc[f] \in {"closing", "undo", "reopen"} => got'[f] = "done"
    BY <1>1 DEF Exit, Quiet, Waiting
  <2>2. \A f \in Flows : pc[f] \in {"idle", "pick"} => got'[f] = "none"
    BY <1>1 DEF Exit, Quiet, Waiting, Failed, Requesting
  <2>3. /\ alive' = {} /\ wire' = {} /\ pc' = pc /\ waits' = waits /\ pending' = NoRequests
        /\ isOpen' = FALSE /\ proc' = 0 /\ closing' = 0 /\ busy' = busy /\ spawned' = spawned
    BY <1>1 DEF Exit, ProcTyped
  <2>4. CASE closing = p
    <3>1. UNCHANGED <<timer, state>>
      BY <1>1, <2>4 DEF Exit
    <3>2. FlowsLabelled'
      BY <2>2, <2>3
    <3>6. ChildTracked'
      BY <2>3 DEF ChildTyped
    <3>7. PendingAnswerable' /\ BusyFlows' /\ RoomKept'
      BY <2>3
    <3>3. ClosersAwaitExit'
      BY <1>1, <2>1, <2>2, <2>3, <2>4, <3>1, <2>0
    <3>4. OpeningsAlone'
      BY <1>1, <2>1, <2>2, <2>3, <2>4, <3>1, <2>0
    <3>5. TimerAlone' /\ DisconnectedChild'
      BY <1>1, <2>1, <2>2, <2>3, <2>4, <3>1, <2>0
    <3> QED
      BY <3>2, <3>3, <3>4, <3>5, <3>6, <3>7
  <2>5. CASE closing # p
    <3>9. isOpen /\ ~timer
      BY <1>1, <2>5 DEF Exit
    <3>1. /\ timer' => state' = "connecting"
          /\ state' \in {"connecting", "disconnected"}
      BY <1>1, <2>5, <3>9 DEF Exit, OnBackendDisconnect
    <3>2. FlowsLabelled'
      BY <2>2, <2>3
    <3>6. ChildTracked'
      BY <2>3 DEF ChildTyped
    <3>7. PendingAnswerable' /\ BusyFlows' /\ RoomKept'
      BY <2>3
    <3>3. ClosersAwaitExit'
      BY <1>1, <2>1, <2>2, <2>3, <2>5, <3>1, <2>0
    <3>4. OpeningsAlone'
      BY <1>1, <2>1, <2>2, <2>3, <2>5, <3>1, <2>0
    <3>8. /\ pc["connect"] \notin {"reopen", "opened", "undo"}
          /\ \A f \in {"timer", "lost", "disconnect"} : pc[f] = "idle"
          /\ pc["detect"] # "closing"
      BY <3>9, <2>0
    <3>5. TimerAlone' /\ DisconnectedChild'
      BY <2>3, <3>1, <3>8
    <3> QED
      BY <3>2, <3>3, <3>4, <3>5, <3>6, <3>7
  <2> QED
    BY <2>4, <2>5
<1> QED
  BY <1>2, <1>3, <1>4, <1>5

LEMMA TearStep ==
  ASSUME IInv, NEW p \in Procs, Tear(p) PROVE IInv'
<1>1. PartsTyped' /\ SessionTyped' /\ UiTyped'
  BY DEF Tear, ProcTyped, PendingTyped, FlowsTyped, ChildTyped, SessionTyped, UiTyped
<1>2. FlowInv' /\ RoomKept'
  BY DEF Tear
<1> QED
  BY <1>1, <1>2

LEMMA BoardReadyStep ==
  ASSUME IInv, NEW p \in Procs, BoardReady(p) PROVE IInv'
<1>1. ProcTyped' /\ PendingTyped' /\ FlowsTyped' /\ ChildTyped'
  BY Bounds DEF BoardReady, ProcTyped, PendingTyped, FlowsTyped, ChildTyped
<1>2. isOpen' \in BOOLEAN /\ SessionTyped' /\ UiTyped'
  BY DEF BoardReady, MarkBoardReadyEvent, SessionTyped, UiTyped
<1>3. FlowInv' /\ RoomKept'
  BY DEF BoardReady
<1> QED
  BY <1>1, <1>2, <1>3

LEMMA BoardLostStep ==
  ASSUME IInv, NEW p \in Procs, BoardLost(p) PROVE IInv'
<1>1. ChildTyped'
  BY DEF BoardLost, SessionDisconnect, Close, ChildTyped
<1>2. SessionTyped' /\ UiTyped'
  BY DEF BoardLost, SessionDisconnect, ResetReadiness, SessionTyped, UiTyped
<1>3. CASE Connected
  <2>1. BackendTyped' /\ FlowsTyped'
    BY <1>3, PassTyped, CloseTyped DEF BoardLost, SessionDisconnect, ProcTyped, PendingTyped
  <2>2. FlowInv' /\ RoomKept'
    BY <1>3 DEF BoardLost, Connected, SessionDisconnect, Close, Failed, Requesting, FlowsTyped,
       Quiet
  <2> QED
    BY <1>1, <1>2, <2>1, <2>2
<1>4. CASE ~Connected
  <2>1. ProcTyped' /\ PendingTyped' /\ FlowsTyped'
    BY <1>4, Bounds DEF BoardLost, ProcTyped, PendingTyped, FlowsTyped
  <2>2. isOpen' \in BOOLEAN
    BY <1>4 DEF BoardLost
  <2>3. FlowInv' /\ RoomKept'
    BY <1>4 DEF BoardLost
  <2> QED
    BY <1>1, <1>2, <2>1, <2>2, <2>3
<1> QED
  BY <1>3, <1>4

LEMMA BoardOpenedStep ==
  ASSUME IInv, NEW w \in wire, BoardOpened(w) PROVE IInv'
<1>1. w.proc \in alive /\ alive \subseteq Procs
  BY DEF ChildTyped
<1>2. wire' \subseteq [proc : Nat, id : Nat, ask : Nat, kind : Kinds]
  BY DEF BoardOpened, ChildTyped, Kinds
<1>3. \A v \in wire' : v.proc \in alive
  BY <1>1 DEF BoardOpened, ChildTyped
<1>4. PartsTyped' /\ SessionTyped' /\ UiTyped'
  BY <1>1, <1>2 DEF BoardOpened, ProcTyped, PendingTyped, FlowsTyped, ChildTyped, SessionTyped,
     UiTyped
<1>5. FlowInv' /\ RoomKept'
  BY <1>3 DEF BoardOpened
<1> QED
  BY <1>4, <1>5

LEMMA AnswerStep ==
  ASSUME IInv, NEW w \in wire, NEW r \in Replies, Answer(w, r) PROVE IInv'
<1>1. SessionTyped' /\ UiTyped' /\ isOpen' \in BOOLEAN
  BY DEF Answer, SessionTyped, UiTyped
<1>0. w.proc \in alive /\ alive \subseteq Procs
  BY DEF ChildTyped
<1>2. ProcTyped' /\ ChildTyped'
  BY <1>0, Bounds DEF Answer, ProcTyped, ChildTyped
<1>3. PendingTyped'
  BY DEF Answer, PendingTyped
<1>4. FlowsTyped'
  BY DEF Answer, FlowsTyped
<1>5. FlowInv' /\ RoomKept'
  <2>1. \A f \in Flows : ~Requesting(f) => got'[f] = "none"
    BY DEF Answer, Quiet
  <2>2. /\ UNCHANGED <<sessionVars, proc, isOpen, closing, uiVars, pc, waits, alive, spawned>>
        /\ wire' \subseteq wire
    BY DEF Answer
  <2>3. ~isOpen => pending' = pending
    BY DEF Answer, NoRequests
  <2> QED
    BY <2>1, <2>2, <2>3 DEF Answer, Quiet, Requesting
<1> QED
  BY <1>1, <1>2, <1>3, <1>4, <1>5

LEMMA TimeoutStep ==
  ASSUME IInv, NEW f \in Flows, Timeout(f) PROVE IInv'
<1>1. SessionTyped' /\ UiTyped' /\ isOpen' \in BOOLEAN
  BY DEF Timeout, SessionTyped, UiTyped
<1>2. ProcTyped' /\ PendingTyped' /\ FlowsTyped' /\ ChildTyped'
  BY ReplyNames DEF Timeout, ProcTyped, PendingTyped, FlowsTyped, ChildTyped
<1>3. FlowInv' /\ RoomKept'
  BY DEF Timeout, Quiet, Requesting, FlowsTyped
<1> QED
  BY <1>1, <1>2, <1>3

-----------------------------------------------------------------------------
LEMMA IInvInit == Init => IInv
<1> SUFFICES ASSUME Init PROVE IInv
  OBVIOUS
<1>1. ProcTyped /\ PendingTyped
  BY Bounds DEF Init, ProcTyped, PendingTyped, NoRequests
<1>2. isOpen \in BOOLEAN /\ SessionTyped
  BY DEF Init, SessionTyped
<1>3. FlowsTyped
  BY DEF Init, FlowsTyped
<1>4. ChildTyped
  BY Bounds DEF Init, ChildTyped
<1>5. UiTyped
  BY DEF Init, UiTyped
<1>6. FlowInv /\ RoomKept
  BY Bounds DEF Init
<1> QED
  BY <1>1, <1>2, <1>3, <1>4, <1>5, <1>6

LEMMA IInvStep == IInv /\ [Next]_vars => IInv'
<1> SUFFICES ASSUME IInv, [Next]_vars PROVE IInv'
  OBVIOUS
<1>1. CASE Resume
  BY <1>1, LostDoneStep, ConnectOpenedStep, ScannedStep, AnsweredStep, UndoneStep,
     DisconnectedStep,
     ReconnectedStep, DetectOpenedStep, DetectAnsweredStep, DetectClosedStep, OperatedStep,
     ReopenedStep DEF Resume
<1>2. CASE Children
  BY <1>2, ExitStep, TearStep, BoardReadyStep, BoardLostStep DEF Children
<1>3. CASE Answers
  BY <1>3, BoardOpenedStep, AnswerStep DEF Answers
<1>4. CASE Users
  BY <1>4, ConnectStep, DisconnectStep, PickStep, DetectStep, OperateStep DEF Users
<1>5. CASE TimerFires
  BY <1>5, TimerFiresStep
<1>6. CASE \E f \in Flows : Timeout(f)
  BY <1>6, TimeoutStep
<1>7. CASE UNCHANGED vars
  <2>1. ProcTyped' /\ PendingTyped' /\ FlowsTyped' /\ ChildTyped'
    BY <1>7 DEF vars, ProcTyped, PendingTyped, FlowsTyped, ChildTyped
  <2>2. isOpen' \in BOOLEAN /\ SessionTyped' /\ UiTyped'
    BY <1>7 DEF vars, SessionTyped, UiTyped
  <2>3. FlowInv' /\ RoomKept'
    BY <1>7 DEF vars
  <2> QED
    BY <2>1, <2>2, <2>3
<1> QED
  BY <1>1, <1>2, <1>3, <1>4, <1>5, <1>6, <1>7 DEF Next

HIDE DEF IInv

(* The flows of extension.ts, session.ts and native.ts keep the invariant. *)
THEOREM Invariant == Spec => []IInv
  BY IInvInit, IInvStep, PTL DEF Spec

(* The variables keep their types; in particular the numbers of processes  *)
(* stay within the bound, also for opens that wait for an old child.       *)
THEOREM TypeCorrect == Spec => []TypeOK
<1>1. IInv => TypeOK
  BY TypeParts DEF IInv
<1> QED
  BY <1>1, Invariant, PTL

(* open() never starts a backend while another one runs (native.ts:58-75). *)
THEOREM OneBackendAtATime == Spec => []OneBackend
<1>1. IInv => OneBackend
  BY DEF IInv, OneBackend
<1> QED
  BY <1>1, Invariant, PTL

(* A pending request always has an open backend that can answer it.        *)
THEOREM RequestsAreSettled == Spec => []NoStrandedRequest
<1>1. IInv => NoStrandedRequest
  BY DEF IInv, NoStrandedRequest
<1> QED
  BY <1>1, Invariant, PTL

(* Disconnected and at rest, the extension holds no backend process.       *)
THEOREM BackendsAreEnded == Spec => []NoOrphanBackend
<1>1. IInv => NoOrphanBackend
  BY DEF IInv, NoOrphanBackend, Resting, Idle
<1> QED
  BY <1>1, Invariant, PTL

(* A disconnect is final: the reconnect timer is armed only while the      *)
(* session says that it is connecting (session.ts).                        *)
THEOREM DisconnectIsFinal == Spec => []TimerMeansConnecting
<1>1. IInv => TimerMeansConnecting
  BY DEF IInv, TimerMeansConnecting
<1> QED
  BY <1>1, Invariant, PTL

-----------------------------------------------------------------------------
(* A boardReady event is kept: an invariant of its own, over IInv.         *)

ForBoard(w) == w.kind \in {"connect", "opened"}
NoBoardSoFar == proc \notin hasBoard /\ \A w \in wire : ~ForBoard(w)
Foreign == torn \notin {0, proc}

(* Ids, requests and processes have the numbers given out so far; only the *)
(* bridge's detectBoards has its id from before the process it asks.       *)
Numbered ==
  /\ \A w \in wire : ForBoard(w) => w.id < nextId
  /\ \A i \in DOMAIN pending : pending[i] <= asked
  /\ pc["connect"] = "board" => waits["connect"] <= asked
  /\ \A p \in hasBoard : p <= spawned

KnownIsReady == pendingReady /\ cached # "none" => ready

(* A process whose bytes the reader swallows opens no board for a session  *)
(* that relies on it, and one that the reconnect opened has none yet.      *)
SilentChild ==
  /\ pc["timer"] = "opened" /\ got["timer"] = "done" => NoBoardSoFar
  /\ isOpen /\ Foreign /\ Connected /\ Idle("connect") => NoBoardSoFar
  /\ pc["connect"] = "board" /\ got["connect"] \notin {"none", "err"} /\ isOpen => ~Foreign

(* The connect under way has not opened its board: what was announced was  *)
(* the board of an earlier one.                                            *)
NotServedYet ==
  /\ state # "disconnected"
  /\ \/ pc["connect"] \in {"opened", "scan", "pick"}
     \/ /\ pc["connect"] = "board" /\ got["connect"] # "v2"
        /\ got["connect"] = "none" =>
             \A w \in wire : w.kind = "opened" /\ w.id \in DOMAIN pending
                               => pending[w.id] # waits["connect"]

ReadyKept ==
  isOpen /\ proc \in announced \cap hasBoard /\ Idle("lost") /\ Idle("disconnect") =>
    \/ pendingReady
    \/ Idle("connect") /\ ready
    \/ Foreign
    \/ NotServedYet

ReadyInv == SilentChild /\ ReadyKept

LEMMA ReadyInit == Init => Numbered /\ KnownIsReady /\ ReadyInv
  BY DEF Init, Numbered, KnownIsReady, ReadyInv, SilentChild, ReadyKept, NoRequests, Idle,
     Connected

(* A fresh process meets no request of an earlier one.                     *)
LEMMA FreshChild ==
  ASSUME IInv, Numbered, proc = 0, NEW f \in Flows, Spawn(f)
  PROVE  /\ wire = {} /\ wire' = {}
         /\ proc' \notin hasBoard' /\ hasBoard' = hasBoard
         /\ \A p \in hasBoard : p <= spawned'
<1>1. spawned \in Nat /\ hasBoard \subseteq Nat
  BY Bounds DEF IInv, ChildTyped, Procs
<1>2. wire = {}
  BY DEF IInv, ChildTyped
<1>3. \A p \in hasBoard : p <= spawned
  BY DEF Numbered
<1>4. 0 \notin hasBoard
  BY DEF IInv, ChildTyped, Procs
<1> QED
  BY <1>1, <1>2, <1>3, <1>4 DEF Spawn

LEMMA KnownIsReadyStep == IInv /\ KnownIsReady /\ [Next]_vars => KnownIsReady'
<1> SUFFICES ASSUME IInv, KnownIsReady, [Next]_vars PROVE KnownIsReady'
  OBVIOUS
<1> USE DEF KnownIsReady
<1>1. CASE Resume
  BY <1>1 DEF Resume, LostDone, ConnectOpened, Scanned, Answered, Undone, Disconnected,
     Reconnected, DetectOpened, DetectAnswered, DetectClosed, Operated, Reopened, Transition,
     ResetReadiness, InfoOf, Return
<1>2. CASE Children
  <2>1. PICK p \in Procs : Exit(p) \/ Tear(p) \/ BoardReady(p) \/ BoardLost(p)
    BY <1>2 DEF Children
  <2>2. CASE Exit(p)
    BY <2>2 DEF Exit, OnBackendDisconnect, ResetReadiness
  <2>3. CASE Tear(p) \/ BoardReady(p) \/ BoardLost(p)
    BY <2>3 DEF Tear, BoardReady, BoardLost, MarkBoardReadyEvent, ResetReadiness
  <2> QED
    BY <2>1, <2>2, <2>3
<1>3. CASE Answers
  <2>1. readyVars' = readyVars /\ cached' = cached
    BY <1>3 DEF Answers, BoardOpened, Answer
  <2> QED
    BY <2>1
<1>4. CASE Users
  BY <1>4 DEF Users, Connect, Disconnect, Pick, Detect, Operate, ResetReadiness
<1>5. CASE TimerFires \/ (\E f \in Flows : Timeout(f))
  BY <1>5 DEF TimerFires, Timeout
<1>6. CASE UNCHANGED vars
  BY <1>6 DEF vars
<1> QED
  BY <1>1, <1>2, <1>3, <1>4, <1>5, <1>6 DEF Next

(* The numbers: a request takes a new one, nothing else gives one out.     *)
LEMMA AskNumbered ==
  ASSUME IInv, Numbered, NEW f \in Flows, NEW l \in {"scan", "board", "asking"},
         NEW id \in Nat, NEW kind \in Kinds, Ask(f, l, id, kind),
         nextId' \in Nat, nextId <= nextId', kind # "detect" => id < nextId'
  PROVE  Numbered'
<1>1. asked \in Nat /\ nextId \in Nat /\ waits["connect"] \in Nat
      /\ \A i \in DOMAIN pending : pending[i] \in Nat
  BY DEF IInv, ChildTyped, UiTyped, FlowsTyped, PendingTyped
<1>2. asked' = asked + 1 /\ hasBoard' = hasBoard /\ spawned' = spawned
  BY DEF Ask
<1>3. \A w \in wire' : ForBoard(w) => w.id < nextId'
  <2>1. \A w \in wire : w.id \in Nat
    BY DEF IInv, ChildTyped
  <2>2. \A w \in wire : ForBoard(w) => w.id < nextId'
    BY <1>1, <2>1 DEF Numbered
  <2>3. \A w \in wire' : w \in wire \/ (w.id = id /\ w.kind = kind)
    BY DEF Ask
  <2> QED
    BY <2>2, <2>3 DEF ForBoard
<1>4. \A i \in DOMAIN pending' : pending'[i] <= asked'
  BY <1>1, <1>2 DEF Ask, Numbered
<1>5. pc'["connect"] = "board" => waits'["connect"] <= asked'
  BY <1>1, <1>2 DEF Ask, Numbered, IInv, FlowsTyped
<1>6. \A p \in hasBoard' : p <= spawned'
  BY <1>2 DEF Numbered
<1> QED
  BY <1>3, <1>4, <1>5, <1>6 DEF Numbered

LEMMA NoNewNumber ==
  ASSUME IInv, Numbered, wire' \subseteq wire, nextId' \in {nextId, nextId + 1},
         asked' = asked, spawned' = spawned, hasBoard' \subseteq hasBoard,
         \A i \in DOMAIN pending' : i \in DOMAIN pending /\ pending'[i] = pending[i],
         pc'["connect"] = "board" =>
           pc["connect"] = "board" /\ waits'["connect"] \in {waits["connect"], 0}
  PROVE  Numbered'
<1>1. asked \in Nat /\ nextId \in Nat /\ \A w \in wire : w.id \in Nat
  BY DEF IInv, ChildTyped, UiTyped
<1> QED
  BY <1>1 DEF Numbered

LEMMA SpawnNumbered ==
  ASSUME IInv, Numbered, proc = 0, NEW f \in Flows, Spawn(f)
  PROVE  Numbered'
<1>1. wire' = {} /\ \A p \in hasBoard' : p <= spawned'
  BY FreshChild
<1>2. asked' = asked /\ pending' = pending
  BY DEF Spawn
<1>3. pc'["connect"] = "board" => pc["connect"] = "board" /\ waits'["connect"] = waits["connect"]
  BY DEF Spawn, Pass, IInv, FlowsTyped
<1> QED
  BY <1>1, <1>2, <1>3 DEF Numbered

LEMMA CloseNumbered ==
  ASSUME IInv, Numbered, NEW f \in Flows, NEW l \in {"reopen", "undo", "closing"}, Close(f, l),
         nextId' \in {nextId, nextId + 1}, UNCHANGED <<wire, asked, spawned>>,
         hasBoard' \subseteq hasBoard
  PROVE  Numbered'
<1>1. DOMAIN pending' = {}
  BY DEF Close, NoRequests
<1>2. pc'["connect"] = "board" => pc["connect"] = "board" /\ waits'["connect"] = waits["connect"]
  BY DEF Close, IInv, FlowsTyped
<1> QED
  BY <1>1, <1>2, NoNewNumber

LEMMA OpenNumbered ==
  ASSUME IInv, Numbered, NEW f \in Flows, NEW n \in {nextId, nextId + 1}, Open(f, n)
  PROVE  Numbered'
<1>1. CASE isOpen
  <2>1. pc'["connect"] = "board" => pc["connect"] = "board" /\ waits'["connect"] = waits["connect"]
    BY <1>1 DEF Open, Pass, IInv, FlowsTyped
  <2> QED
    BY <1>1, <2>1, NoNewNumber DEF Open
<1>2. CASE ~isOpen /\ proc # 0
  BY <1>2, CloseNumbered DEF Open
<1>3. CASE ~isOpen /\ proc = 0
  BY <1>3, SpawnNumbered DEF Open
<1> QED
  BY <1>1, <1>2, <1>3

LEMMA NumberedResume == IInv /\ Numbered /\ Resume => Numbered'
<1> SUFFICES ASSUME IInv, Numbered, Resume PROVE Numbered'
  OBVIOUS
<1>0. nextId \in Nat /\ detectId \in Nat /\ FlowsTyped
  BY DEF IInv, UiTyped
<1>1. CASE LostDone \/ Disconnected \/ Reconnected \/ DetectClosed \/ Operated \/ Undone
  <2>1. PICK f \in Flows : Jump(f, "idle")
    BY <1>1 DEF LostDone, Disconnected, Reconnected, DetectClosed, Operated, Undone
  <2>2. UNCHANGED <<childVars, nextId, pending>>
    BY <1>1 DEF LostDone, Disconnected, Reconnected, DetectClosed, Operated, Undone
  <2>3. pc'["connect"] = "board" => pc["connect"] = "board" /\ waits'["connect"] = waits["connect"]
    BY <1>0, <2>1 DEF Jump, FlowsTyped
  <2> QED
    BY <2>2, <2>3, NoNewNumber
<1>2. CASE ConnectOpened
  <2>1. CASE got["connect"] = "err"
    BY <1>0, <1>2, <2>1, NoNewNumber DEF ConnectOpened, Pass, FlowsTyped
  <2>2. CASE got["connect"] # "err"
    BY <1>0, <1>2, <2>2, AskNumbered DEF ConnectOpened, Request, Kinds
  <2> QED
    BY <2>1, <2>2
<1>3. CASE Scanned
  <2>1. CASE SessionDisconnect("connect", "undo") /\ UNCHANGED <<nextId, childVars>>
    BY <1>0, <2>1, NoNewNumber, CloseNumbered DEF SessionDisconnect, Pass, FlowsTyped
  <2>2. CASE Jump("connect", "pick") /\ UNCHANGED <<timer, backendVars, nextId, childVars>>
    BY <1>0, <2>2, NoNewNumber DEF Jump, FlowsTyped
  <2>3. CASE Request("connect", "board", "connect")
    BY <1>0, <2>3, AskNumbered DEF Request, Kinds
  <2> QED
    BY <1>3, <2>1, <2>2, <2>3 DEF Scanned
<1>4. CASE Answered
  <2>1. CASE got["connect"] = "err"
    BY <1>0, <1>4, <2>1, NoNewNumber, CloseNumbered DEF Answered, SessionDisconnect, Pass,
       FlowsTyped
  <2>2. CASE got["connect"] # "err"
    BY <1>0, <1>4, <2>2, NoNewNumber DEF Answered, Jump, FlowsTyped
  <2> QED
    BY <2>1, <2>2
<1>5. CASE DetectOpened
  BY <1>0, <1>5, AskNumbered, CloseNumbered DEF DetectOpened, Kinds
<1>6. CASE DetectAnswered
  BY <1>0, <1>6, CloseNumbered DEF DetectAnswered
<1>7. ASSUME NEW f \in {"connect", "timer", "detect"}, Reopened(f) PROVE Numbered'
  <2>1. proc = 0
    BY <1>7 DEF Reopened, IInv
  <2> QED
    BY <1>7, <2>1, SpawnNumbered DEF Reopened
<1> QED
  BY <1>1, <1>2, <1>3, <1>4, <1>5, <1>6, <1>7 DEF Resume

LEMMA NumberedStep == IInv /\ Numbered /\ [Next]_vars => Numbered'
<1> SUFFICES ASSUME IInv, Numbered, [Next]_vars PROVE Numbered'
  OBVIOUS
<1>0. nextId \in Nat /\ waits \in [Flows -> Nat] /\ spawned \in Nat
  BY Bounds DEF IInv, UiTyped, FlowsTyped, ChildTyped
<1>1. CASE Resume
  BY <1>1, NumberedResume
<1>2. CASE Children
  <2>1. PICK p \in Procs : Exit(p) \/ Tear(p) \/ BoardReady(p) \/ BoardLost(p)
    BY <1>2 DEF Children
  <2>2. CASE Exit(p)
    <3>1. \A i \in DOMAIN pending' : i \in DOMAIN pending /\ pending'[i] = pending[i]
      BY <2>2 DEF Exit, NoRequests
    <3> QED
      BY <2>2, <3>1, NoNewNumber DEF Exit
  <2>3. CASE Tear(p) \/ BoardReady(p)
    BY <2>3, NoNewNumber DEF Tear, BoardReady
  <2>4. CASE BoardLost(p)
    BY <2>4, NoNewNumber, CloseNumbered DEF BoardLost, SessionDisconnect, Pass, Connected
  <2> QED
    BY <2>1, <2>2, <2>3, <2>4
<1>3. ASSUME NEW w \in wire, BoardOpened(w) PROVE Numbered'
  <2>1. \A v \in wire' : ForBoard(v) => v.id < nextId'
    BY <1>3 DEF BoardOpened, Numbered, ForBoard, IInv, ChildTyped
  <2>2. w.proc <= spawned
    BY DEF IInv, ChildTyped
  <2> QED
    BY <1>3, <2>1, <2>2 DEF BoardOpened, Numbered
<1>4. ASSUME NEW w \in wire, NEW r \in Replies, Answer(w, r) PROVE Numbered'
  <2>1. \A i \in DOMAIN pending' : i \in DOMAIN pending /\ pending'[i] = pending[i]
    BY <1>4 DEF Answer
  <2> QED
    BY <1>4, <2>1, NoNewNumber DEF Answer
<1>5. CASE Users
  <2>1. CASE \E b \in BOOLEAN : Connect(b)
    BY <2>1, OpenNumbered DEF Connect
  <2>2. CASE \E b \in BOOLEAN : Disconnect(b)
    BY <2>2, NoNewNumber, CloseNumbered DEF Disconnect, SessionDisconnect, Connected, Pass
  <2>3. CASE \E b \in BOOLEAN : Pick(b)
    <3>1. CASE SessionDisconnect("connect", "undo") /\ UNCHANGED <<nextId, childVars>>
      BY <1>0, <3>1, NoNewNumber, CloseNumbered DEF SessionDisconnect, Pass, IInv, FlowsTyped
    <3>2. CASE Request("connect", "board", "connect")
      BY <1>0, <3>2, AskNumbered DEF Request, Kinds
    <3> QED
      BY <2>3, <3>1, <3>2 DEF Pick
  <2>4. CASE Detect
    BY <2>4, OpenNumbered DEF Detect
  <2>5. CASE Operate
    BY <1>0, <2>5, AskNumbered DEF Operate, Request, Kinds
  <2> QED
    BY <1>5, <2>1, <2>2, <2>3, <2>4, <2>5 DEF Users
<1>6. CASE TimerFires
  BY <1>6, OpenNumbered DEF TimerFires
<1>7. CASE \E f \in Flows : Timeout(f)
  BY <1>0, <1>7, NoNewNumber DEF Timeout
<1>8. CASE UNCHANGED vars
  BY <1>8, NoNewNumber DEF vars
<1> QED
  BY <1>1, <1>2, <1>3, <1>4, <1>5, <1>6, <1>7, <1>8 DEF Next, Answers

-----------------------------------------------------------------------------
(* What may happen to the child: it is closed, replaced by a fresh one, or *)
(* asked, or nothing about it changes.                                     *)

LEMMA ReadyIfClosed ==
  ASSUME ~isOpen', ~(pc'["timer"] = "opened" /\ got'["timer"] = "done")
  PROVE  ReadyInv'
  BY DEF ReadyInv, SilentChild, ReadyKept

LEMMA ReadyIfFresh ==
  ASSUME NoBoardSoFar', pc'["connect"] = "board" => got'["connect"] = "none"
  PROVE  ReadyInv'
  BY DEF ReadyInv, SilentChild, ReadyKept, NoBoardSoFar

LEMMA ReadyIfClosing ==
  ASSUME IInv, NEW f \in Flows \ {"timer"}, NEW l \in {"reopen", "undo", "closing"}, Close(f, l),
         Quiet \/ got[f] # "none"
  PROVE  ReadyInv'
<1>1. isOpen' = FALSE /\ pc'["timer"] = pc["timer"]
  BY DEF Close, IInv, FlowsTyped
<1>2. pc["timer"] # "opened"
  BY DEF IInv, Quiet
<1> QED
  BY <1>1, <1>2, ReadyIfClosed

LEMMA ReadyIfSpawning ==
  ASSUME IInv, Numbered, proc = 0, NEW f \in Flows, Spawn(f),
         f = "connect" \/ got["connect"] = "none", f = "timer" \/ pc["timer"] # "opened"
  PROVE  ReadyInv'
<1>1. FlowsTyped /\ isOpen = FALSE
  BY DEF IInv
<1>2. pc'["connect"] = "board" => got'["connect"] = "none"
  BY <1>1 DEF Spawn, Pass, FlowsTyped
<1>3. NoBoardSoFar'
  BY FreshChild DEF NoBoardSoFar
<1> QED
  BY <1>2, <1>3, ReadyIfFresh

(* A request of the connect flow: it has not been served yet.              *)
LEMMA AskNotServed ==
  ASSUME IInv, Numbered, NEW l \in {"scan", "board"}, NEW kind \in {"detect", "connect"},
         Ask("connect", l, nextId, kind), isOpen
  PROVE  /\ pc'["connect"] = l /\ got'["connect"] = "none"
         /\ \A w \in wire' : w.kind = "opened" /\ w.id \in DOMAIN pending'
                             => pending'[w.id] # waits'["connect"]
<1>1. /\ asked \in Nat /\ nextId \in Nat /\ FlowsTyped
      /\ \A i \in DOMAIN pending : pending[i] \in Nat
  BY DEF IInv, ChildTyped, UiTyped, PendingTyped
<1>2. pc'["connect"] = l /\ got'["connect"] = "none" /\ waits'["connect"] = asked + 1
  BY <1>1 DEF Ask, FlowsTyped
<1>3. \A w \in wire' : w.kind = "opened" => w \in wire /\ w.id # nextId
  <2>1. \A w \in wire : w.id \in Nat
    BY DEF IInv, ChildTyped
  <2> QED
    BY <1>1, <2>1 DEF Ask, Numbered, ForBoard
<1>4. \A i \in DOMAIN pending' : i # nextId => pending'[i] <= asked
  BY <1>1 DEF Ask, Numbered
<1> QED
  BY <1>1, <1>2, <1>3, <1>4

LEMMA ConnectAsksReady ==
  ASSUME IInv, Numbered, ReadyInv, NEW l \in {"scan", "board"},
         NEW kind \in {"detect", "connect"}, Ask("connect", l, nextId, kind),
         pc["connect"] \in {"opened", "scan", "pick"}, Quiet \/ got["connect"] # "none",
         UNCHANGED readyVars, state' = state \/ state' # "disconnected"
  PROVE  ReadyInv'
<1>1. pc["timer"] # "opened" /\ pc'["timer"] = pc["timer"] /\ isOpen' = isOpen
  BY DEF IInv, Quiet, Ask, FlowsTyped
<1>2. CASE ~isOpen
  BY <1>1, <1>2, ReadyIfClosed
<1>3. CASE isOpen
  <2>1. /\ pc'["connect"] = l /\ got'["connect"] = "none"
        /\ \A w \in wire' : w.kind = "opened" /\ w.id \in DOMAIN pending'
                            => pending'[w.id] # waits'["connect"]
    BY <1>3, AskNotServed
  <2>2. SilentChild'
    BY <1>1, <2>1 DEF SilentChild, Idle
  <2>3. CASE state' # "disconnected"
    BY <2>1, <2>2, <2>3 DEF ReadyInv, ReadyKept, NotServedYet
  <2>4. CASE state' = "disconnected"
    <3>1. \A f \in {"lost", "disconnect"} : pc'[f] = pc[f]
      BY DEF IInv, FlowsTyped, Ask
    <3>2. UNCHANGED <<isOpen, proc, hasBoard, announced, torn>>
      BY DEF Ask
    <3> QED
      BY <2>2, <2>4, <3>1, <3>2 DEF ReadyInv, ReadyKept, NotServedYet, Idle, Foreign
  <2> QED
    BY <2>2, <2>3, <2>4 DEF ReadyInv
<1> QED
  BY <1>2, <1>3

LEMMA ConnectGivesUpReady ==
  ASSUME IInv, Numbered, ReadyInv, SessionDisconnect("connect", "undo"),
         pc["connect"] \in {"scan", "pick", "board"}, Quiet \/ got["connect"] # "none",
         UNCHANGED <<state, readyVars, childVars>>
  PROVE  ReadyInv'
<1>1. CASE state # "disconnected"
  BY <1>1, ReadyIfClosing DEF SessionDisconnect
<1>2. CASE state = "disconnected"
  <2>1. /\ \A f \in Flows \ {"connect"} : pc'[f] = pc[f] /\ got'[f] = got[f]
        /\ pc'["connect"] = "undo" /\ UNCHANGED backendVars
    BY <1>2 DEF SessionDisconnect, Pass, IInv, FlowsTyped
  <2>2. pc["timer"] # "opened"
    BY DEF IInv, Quiet
  <2> QED
    BY <1>2, <2>1, <2>2 DEF ReadyInv, ReadyKept, SilentChild, NotServedYet, Idle, Foreign,
       Connected
<1> QED
  BY <1>1, <1>2

LEMMA DetectAsksReady ==
  ASSUME IInv, Numbered, ReadyInv, NEW f \in {"detect", "op"}, NEW id \in Nat,
         Ask(f, "asking", id, f), Quiet \/ got[f] # "none",
         UNCHANGED <<state, readyVars>>
  PROVE  ReadyInv'
<1>1. /\ \A g \in Flows \ {f} : pc'[g] = pc[g] /\ got'[g] = got[g] /\ waits'[g] = waits[g]
      /\ UNCHANGED <<isOpen, proc, torn, hasBoard, announced>>
  BY DEF IInv, FlowsTyped, Ask
<1>2. pc["timer"] # "opened"
  BY DEF IInv, Quiet
<1>3. CASE ~isOpen
  BY <1>1, <1>2, <1>3, ReadyIfClosed
<1>4. CASE isOpen
  <2>1. \A w \in wire' : ForBoard(w) => w \in wire
    BY <1>4 DEF Ask, ForBoard
  <2>2. SilentChild'
    BY <1>1, <1>2, <2>1 DEF ReadyInv, SilentChild, Foreign, Connected, Idle, NoBoardSoFar
  <2>3. NotServedYet => NotServedYet'
    <3>1. asked \in Nat /\ waits["connect"] \in Nat
      BY DEF IInv, ChildTyped, FlowsTyped
    <3>2. pc["connect"] = "board" => waits["connect"] # asked + 1
      BY <3>1 DEF Numbered
    <3>3. \A i \in DOMAIN pending' : pending'[i] = asked + 1
                                     \/ (i \in DOMAIN pending /\ pending'[i] = pending[i])
      BY <1>4 DEF Ask
    <3> QED
      BY <1>1, <2>1, <3>2, <3>3 DEF NotServedYet, ForBoard
  <2> QED
    BY <1>1, <2>2, <2>3 DEF ReadyInv, ReadyKept, Idle, Foreign
<1> QED
  BY <1>3, <1>4

LEMMA ReadyResume == IInv /\ Numbered /\ ReadyInv /\ Resume => ReadyInv'
<1> SUFFICES ASSUME IInv, Numbered, ReadyInv, Resume PROVE ReadyInv'
  OBVIOUS
<1>0. FlowsTyped
  BY DEF IInv
<1>1. CASE LostDone \/ Disconnected
  <2>1. ~isOpen' /\ pc'["timer"] # "opened"
    BY <1>0, <1>1 DEF LostDone, Disconnected, IInv, Jump, FlowsTyped
  <2> QED
    BY <2>1, ReadyIfClosed
<1>2. CASE ConnectOpened
  <2>1. CASE got["connect"] = "err"
    <3>1. ~isOpen' /\ pc'["timer"] # "opened"
      BY <1>0, <1>2, <2>1 DEF ConnectOpened, IInv, Pass, FlowsTyped
    <3> QED
      BY <3>1, ReadyIfClosed
  <2>2. CASE got["connect"] # "err"
    <3>1. UNCHANGED readyVars /\ state' = "connected"
      BY <1>2, <2>2 DEF ConnectOpened, Transition
    <3> QED
      BY <1>2, <2>2, <3>1, ConnectAsksReady DEF ConnectOpened, Request
  <2> QED
    BY <2>1, <2>2
<1>3. CASE Scanned
  <2>1. CASE SessionDisconnect("connect", "undo") /\ UNCHANGED <<nextId, childVars>>
    BY <1>3, <2>1, ConnectGivesUpReady DEF Scanned
  <2>2. CASE Jump("connect", "pick") /\ UNCHANGED <<timer, backendVars, nextId, childVars>>
    <3>1. /\ \A f \in Flows \ {"connect"} : pc'[f] = pc[f] /\ got'[f] = got[f]
          /\ pc'["connect"] = "pick"
      BY <1>0, <2>2 DEF Jump, FlowsTyped
    <3>2. UNCHANGED <<state, readyVars>> /\ pc["connect"] = "scan"
      BY <1>3 DEF Scanned
    <3> QED
      BY <2>2, <3>1, <3>2 DEF ReadyInv, ReadyKept, SilentChild, NotServedYet, Idle, Foreign,
         Connected, NoBoardSoFar
  <2>3. CASE Request("connect", "board", "connect")
    BY <1>3, <2>3, ConnectAsksReady DEF Request, Scanned
  <2> QED
    BY <1>3, <2>1, <2>2, <2>3 DEF Scanned
<1>4. CASE Answered
  <2>1. CASE got["connect"] = "err"
    BY <1>4, <2>1, ConnectGivesUpReady DEF Answered
  <2>2. CASE got["connect"] # "err"
    <3>1. /\ \A f \in Flows \ {"connect"} : pc'[f] = pc[f] /\ got'[f] = got[f]
          /\ pc'["connect"] = "idle"
      BY <1>0, <1>4, <2>2 DEF Answered, Jump, FlowsTyped
    <3>2. /\ UNCHANGED <<state, backendVars, childVars, pendingReady>>
          /\ ready' = (pendingReady \/ got["connect"] # "v2")
          /\ pc["connect"] = "board" /\ got["connect"] # "none"
      BY <1>4, <2>2 DEF Answered, InfoOf
    <3>3. SilentChild'
      BY <2>2, <3>1, <3>2 DEF ReadyInv, SilentChild, Foreign, NoBoardSoFar
    <3>4. ReadyKept'
      BY <2>2, <3>1, <3>2 DEF ReadyInv, SilentChild, ReadyKept, NotServedYet, Foreign, Idle
    <3> QED
      BY <3>3, <3>4 DEF ReadyInv
  <2> QED
    BY <2>1, <2>2
<1>5. CASE Undone
  <2>1. /\ \A f \in Flows \ {"connect"} : pc'[f] = pc[f] /\ got'[f] = got[f]
        /\ pc'["connect"] = "idle"
    BY <1>0, <1>5 DEF Undone, Jump, FlowsTyped
  <2>2. pc["timer"] # "opened" /\ (proc = 0 \/ state = "disconnected")
    BY <1>5 DEF Undone, IInv
  <2>3. CASE proc = 0
    BY <1>5, <2>1, <2>2, <2>3, ReadyIfClosed DEF Undone, IInv
  <2>4. CASE state = "disconnected"
    <3>1. /\ UNCHANGED <<state, backendVars, childVars>> /\ pc["connect"] = "undo"
          /\ (pendingReady => pendingReady')
      BY <1>5, <2>4 DEF Undone
    <3> QED
      BY <2>1, <2>2, <2>4, <3>1 DEF ReadyInv, ReadyKept, SilentChild, NotServedYet, Idle,
         Foreign, Connected
  <2> QED
    BY <2>2, <2>3, <2>4
<1>6. CASE Reconnected
  <2>1. pc'["timer"] = "idle" /\ got'["connect"] = "none"
    BY <1>0, <1>6 DEF Reconnected, Jump, FlowsTyped, IInv
  <2>2. CASE got["timer"] = "err"
    BY <1>6, <2>1, <2>2, ReadyIfClosed DEF Reconnected, IInv
  <2>3. CASE got["timer"] # "err"
    <3>1. got["timer"] = "done"
      BY <1>6, <2>3 DEF Reconnected, IInv
    <3>2. NoBoardSoFar'
      BY <1>6, <3>1 DEF Reconnected, ReadyInv, SilentChild, NoBoardSoFar
    <3> QED
      BY <2>1, <3>2, ReadyIfFresh
  <2> QED
    BY <2>2, <2>3
<1>7. CASE DetectOpened
  <2>1. CASE got["detect"] = "err"
    BY <1>7, <2>1, ReadyIfClosing DEF DetectOpened
  <2>2. CASE got["detect"] # "err"
    BY <1>7, <2>2, DetectAsksReady DEF DetectOpened, IInv, UiTyped
  <2> QED
    BY <2>1, <2>2
<1>8. CASE DetectAnswered
  BY <1>8, ReadyIfClosing DEF DetectAnswered
<1>9. CASE DetectClosed \/ Operated
  <2>1. /\ \A f \in Flows \ {"detect", "op"} : pc'[f] = pc[f] /\ got'[f] = got[f]
                                              /\ waits'[f] = waits[f]
        /\ UNCHANGED <<state, readyVars, backendVars, childVars>>
    BY <1>0, <1>9 DEF DetectClosed, Operated, Jump, FlowsTyped
  <2> QED
    BY <2>1 DEF ReadyInv, ReadyKept, SilentChild, NotServedYet, Idle, Foreign, Connected,
       NoBoardSoFar
<1>10. ASSUME NEW f \in {"connect", "timer", "detect"}, Reopened(f) PROVE ReadyInv'
  <2>1. proc = 0 /\ f = "connect" /\ pc["timer"] # "opened"
    BY <1>10 DEF Reopened, IInv
  <2> QED
    BY <1>10, <2>1, ReadyIfSpawning DEF Reopened
<1> QED
  BY <1>1, <1>2, <1>3, <1>4, <1>5, <1>6, <1>7, <1>8, <1>9, <1>10 DEF Resume

LEMMA ReadyChildren ==
  ASSUME IInv, Numbered, ReadyInv, NEW p \in Procs,
         Exit(p) \/ Tear(p) \/ BoardReady(p) \/ BoardLost(p)
  PROVE  ReadyInv'
<1>0. FlowsTyped /\ p = proc /\ pc["timer"] # "opened"
  BY DEF Exit, Tear, BoardReady, BoardLost, IInv, Quiet
<1>1. CASE Exit(p)
  BY <1>0, <1>1, ReadyIfClosed DEF Exit
<1>2. CASE Tear(p)
  BY <1>0, <1>2 DEF Tear, ReadyInv, ReadyKept, SilentChild, NotServedYet, Idle, Foreign,
     Connected,
     NoBoardSoFar
<1>3. CASE BoardReady(p)
  <2>1. UNCHANGED <<state, isOpen, proc, pc, got, hasBoard, wire, pending, waits>>
    BY <1>3 DEF BoardReady
  <2>2. CASE Deliverable(p)
    BY <1>0, <1>3, <2>1, <2>2 DEF BoardReady, MarkBoardReadyEvent, ReadyInv, ReadyKept,
       SilentChild,
       Idle, Foreign, Connected, NoBoardSoFar
  <2>3. CASE ~Deliverable(p)
    BY <1>0, <1>3, <2>1, <2>3 DEF BoardReady, ReadyInv, ReadyKept, SilentChild, Deliverable,
       Idle, Foreign, Connected, NoBoardSoFar
  <2> QED
    BY <2>2, <2>3
<1>4. CASE BoardLost(p)
  <2>1. CASE Connected
    BY <1>4, <2>1, ReadyIfClosing DEF BoardLost, SessionDisconnect, Connected
  <2>2. CASE ~Connected
    <3>1. /\ UNCHANGED <<state, isOpen, proc, pc, got>> /\ hasBoard' = hasBoard \ {proc}
          /\ torn' = 0
      BY <1>0, <1>4, <2>2 DEF BoardLost
    <3> QED
      BY <1>0, <2>2, <3>1 DEF ReadyInv, ReadyKept, SilentChild, Foreign, Connected
  <2> QED
    BY <2>1, <2>2
<1> QED
  BY <1>1, <1>2, <1>3, <1>4

LEMMA ReadyAnswers ==
  ASSUME IInv, Numbered, ReadyInv, NEW w \in wire, NEW r \in Replies,
         BoardOpened(w) \/ Answer(w, r)
  PROVE  ReadyInv'
<1>0. FlowsTyped /\ w.proc = proc /\ pc["timer"] # "opened" /\ \A f \in Flows : got[f] = "none"
  BY DEF BoardOpened, Answer, IInv, Quiet
<1>1. CASE BoardOpened(w)
  <2>1. UNCHANGED <<state, isOpen, proc, torn, pc, got>> /\ proc \notin announced'
    BY <1>0, <1>1 DEF BoardOpened
  <2>2. ~NoBoardSoFar
    BY <1>1 DEF BoardOpened, NoBoardSoFar, ForBoard
  <2> QED
    BY <1>0, <2>1, <2>2 DEF ReadyInv, ReadyKept, SilentChild, Foreign, Connected, Idle
<1>2. CASE Answer(w, r)
  <2>1. /\ UNCHANGED <<state, isOpen, proc, pc, waits, readyVars, announced>>
        /\ wire' \subseteq wire /\ hasBoard' \subseteq hasBoard
        /\ \A i \in DOMAIN pending' : i \in DOMAIN pending /\ pending'[i] = pending[i]
    BY <1>2 DEF Answer
  <2>2. torn' = IF Deliverable(proc) THEN 0 ELSE torn
    BY <1>0, <1>2 DEF Answer
  <2>3. got'["connect"] = "none" \/ Deliverable(proc)
    BY <1>0, <1>2 DEF Answer
  <2>4. SilentChild'
    BY <1>0, <2>1, <2>2, <2>3 DEF ReadyInv, SilentChild, Foreign, Connected, Idle, NoBoardSoFar,
       Deliverable
  <2>5. NotServedYet => NotServedYet'
    <3>1. CASE got'["connect"] = "none"
      BY <1>0, <2>1, <3>1 DEF NotServedYet
    <3>2. CASE got'["connect"] # "none"
      <4>1. /\ w.id \in DOMAIN pending /\ pending[w.id] = waits["connect"]
            /\ got'["connect"] = r /\ r \in RepliesTo(w.kind)
        BY <1>0, <1>2, <3>2 DEF Answer
      <4>2. NotServedYet => pc["connect"] # "board" \/ w.kind # "opened"
        BY <1>0, <4>1 DEF NotServedYet
      <4>3. w.kind # "opened" => r # "v2"
        BY <4>1 DEF RepliesTo, IInv, ChildTyped, Kinds, DetectReplies, OpReplies
      <4> QED
        BY <2>1, <3>2, <4>1, <4>2, <4>3 DEF NotServedYet
    <3> QED
      BY <3>1, <3>2
  <2>6. ReadyKept'
    BY <2>1, <2>2, <2>5 DEF ReadyInv, ReadyKept, Idle, Foreign, Deliverable
  <2> QED
    BY <2>4, <2>6 DEF ReadyInv
<1> QED
  BY <1>1, <1>2

LEMMA ReadyUsers == IInv /\ Numbered /\ ReadyInv /\ Users => ReadyInv'
<1> SUFFICES ASSUME IInv, Numbered, ReadyInv, Users PROVE ReadyInv'
  OBVIOUS
<1>0. FlowsTyped /\ Quiet /\ pc["timer"] # "opened" /\ \A f \in Flows : got[f] = "none"
  BY DEF Users, Connect, Disconnect, Pick, Detect, Operate, IInv, Quiet
<1>1. ASSUME NEW b \in BOOLEAN, Connect(b) PROVE ReadyInv'
  <2>1. Open("connect", nextId) /\ state' = "connecting"
    BY <1>1 DEF Connect
  <2>2. CASE isOpen
    <3>1. /\ pc'["connect"] = "opened" /\ pc'["timer"] = pc["timer"]
      BY <1>0, <2>1, <2>2 DEF Open, Pass, FlowsTyped
    <3> QED
      BY <1>0, <2>1, <3>1 DEF ReadyInv, ReadyKept, SilentChild, NotServedYet, Idle
  <2>3. CASE ~isOpen /\ proc # 0
    BY <1>0, <2>1, <2>3, ReadyIfClosing DEF Open
  <2>4. CASE ~isOpen /\ proc = 0
    BY <1>0, <2>1, <2>4, ReadyIfSpawning DEF Open
  <2> QED
    BY <2>2, <2>3, <2>4
<1>2. ASSUME NEW b \in BOOLEAN, Disconnect(b) PROVE ReadyInv'
  BY <1>0, <1>2, ReadyIfClosing DEF Disconnect, SessionDisconnect, Connected
<1>3. ASSUME NEW b \in BOOLEAN, Pick(b) PROVE ReadyInv'
  <2>1. CASE Request("connect", "board", "connect")
    BY <1>0, <1>3, <2>1, ConnectAsksReady DEF Request, Pick
  <2>2. CASE SessionDisconnect("connect", "undo") /\ UNCHANGED <<nextId, childVars>>
    BY <1>0, <1>3, <2>2, ConnectGivesUpReady DEF Pick
  <2> QED
    BY <1>3, <2>1, <2>2 DEF Pick
<1>4. CASE Detect
  <2>1. Open("detect", nextId + 1) /\ UNCHANGED <<state, readyVars>> /\ state = "disconnected"
    BY <1>4 DEF Detect
  <2>2. CASE isOpen
    <3>1. /\ \A f \in Flows \ {"detect"} : pc'[f] = pc[f] /\ got'[f] = got[f]
          /\ UNCHANGED <<backendVars, childVars>>
      BY <1>0, <2>1, <2>2 DEF Open, Pass, FlowsTyped
    <3> QED
      BY <1>0, <2>1, <3>1 DEF ReadyInv, ReadyKept, SilentChild, NotServedYet, Idle, Foreign,
         Connected
  <2>3. CASE ~isOpen /\ proc # 0
    BY <1>0, <2>1, <2>3, ReadyIfClosing DEF Open
  <2>4. CASE ~isOpen /\ proc = 0
    BY <1>0, <2>1, <2>4, ReadyIfSpawning DEF Open
  <2> QED
    BY <2>2, <2>3, <2>4
<1>5. CASE Operate
  BY <1>0, <1>5, DetectAsksReady DEF Operate, Request, IInv, UiTyped
<1> QED
  BY <1>1, <1>2, <1>3, <1>4, <1>5 DEF Users

LEMMA ReadyStep == IInv /\ Numbered /\ ReadyInv /\ [Next]_vars => ReadyInv'
<1> SUFFICES ASSUME IInv, Numbered, ReadyInv, [Next]_vars PROVE ReadyInv'
  OBVIOUS
<1>1. CASE TimerFires
  <2>1. proc = 0 /\ ~isOpen /\ Quiet /\ Spawn("timer")
    BY <1>1 DEF TimerFires, Open, IInv
  <2> QED
    BY <2>1, ReadyIfSpawning DEF Quiet
<1>2. ASSUME NEW f \in Flows, Timeout(f) PROVE ReadyInv'
  <2>1. /\ UNCHANGED <<sessionVars, backendVars, readyVars, pc, childVars>>
        /\ \/ got'["connect"] = got["connect"] /\ waits'["connect"] = waits["connect"]
           \/ got'["connect"] = "err"
        /\ pc["timer"] # "opened" /\ got["connect"] = "none"
    BY <1>2 DEF Timeout, IInv, FlowsTyped, Quiet
  <2> QED
    BY <2>1 DEF ReadyInv, ReadyKept, SilentChild, NotServedYet, Idle, Foreign, Connected,
       NoBoardSoFar
<1>3. CASE UNCHANGED vars
  BY <1>3 DEF vars, ReadyInv, ReadyKept, SilentChild, NotServedYet, Idle, Foreign, Connected,
     NoBoardSoFar
<1>4. "done" \in Replies
  BY ReplyNames
<1> QED
  BY <1>1, <1>2, <1>3, <1>4, ReadyResume, ReadyChildren, ReadyAnswers, ReadyUsers
  DEF Next, Children, Answers

(* boardReady is not lost, whether it overtakes the answer to connectBoard *)
(* or comes after it (extension.ts:200-209, pendingBoardReadyEvent).       *)
THEOREM ReadinessIsKept == Spec => []ReadyIsNotLost
<1>2. IInv /\ Numbered /\ ReadyInv /\ KnownIsReady => ReadyIsNotLost
  BY DEF ReadyInv, ReadyKept, SilentChild, KnownIsReady, ReadyIsNotLost, NotServedYet,
     NoBoardSoFar, Idle, Connected
<1> QED
  BY <1>2, ReadyInit, Invariant, NumberedStep, KnownIsReadyStep, ReadyStep, PTL DEF Spec

-----------------------------------------------------------------------------
(* The pipe behind the client: FramedReader implements FifoDelivery.        *)
CONSTANTS MaxFrame, MaxSent
VARIABLES bytes, written, buffer, mode, currentType, currentPayloadLen, remainingDiscardBytes,
          frameTimer, looping

(* The reader on an instance of its model, since HostSession has wire,     *)
(* state and other names of its own.  What is buffered and what is still   *)
(* in the pipe form one stream, in which the messages owed lie one behind  *)
(* the other; the reader loses its place only if it takes cells for a      *)
(* header that are none.                                                   *)
Pipe == INSTANCE FramedReader WITH wire <- bytes, sent <- written, state <- mode
USE DEF Pipe!C, Pipe!M, Pipe!Json, Pipe!TEXT, Pipe!FRAME, Pipe!HeaderSize

(* The messages ms lie in s one behind the other, the i-th from at[i] on.  *)
Laid(s, ms, at) ==
  /\ at \in [1 .. Len(ms) + 1 -> Nat \ {0}] /\ at[Len(ms) + 1] = Len(s) + 1
  /\ \A i, j \in 1 .. Len(ms) + 1 : i <= j => at[i] <= at[j]
  /\ \A i \in 1 .. Len(ms) :
       /\ at[i + 1] = at[i] + Pipe!HeaderSize + Len(ms[i].payload)
       /\ s[at[i]] = Pipe!C /\ s[at[i] + 1] = Pipe!M
       /\ s[at[i] + 2] = ms[i].type /\ s[at[i] + 3] = Len(ms[i].payload)
       /\ \A k \in 1 .. Len(ms[i].payload) : s[at[i] + 3 + k] = ms[i].payload[k]

(* The first k cells of s do not hold the magic.                           *)
Unmarked(s, k) == \A i \in 1 .. k - 1 : ~(s[i] = Pipe!C /\ s[i + 1] = Pipe!M)

(* What a stalled frame has still to bring when it is given up does not    *)
(* hold the magic.  FramedReaderMagic shows why that is needed.            *)
StallHypothesis == Pipe!FrameTimeout => Unmarked(bytes, currentPayloadLen - Len(buffer))

(* t is s without its first d cells.                                       *)
Drops(s, t, d) ==
  /\ t \in Seq(Nat) /\ Len(t) = Len(s) - d /\ d \in 0 .. Len(s)
  /\ \A i \in 1 .. Len(t) : t[i] = s[i + d]

(* The messages os are what the writings ms mean.                          *)
Means(os, ms) == Len(os) = Len(ms) /\ \A i \in 1 .. Len(ms) : os[i] = Pipe!Meaning(ms[i])

LEMMA WrittenTyped ==
  ASSUME NEW w \in Pipe!Written
  PROVE  /\ w.payload \in Seq(Nat) /\ Len(w.payload) \in Nat /\ w.type \in {Pipe!TEXT, Pipe!FRAME}
         /\ w.type = Pipe!TEXT => w.payload \in Texts
         /\ w.type = Pipe!FRAME => w.payload \in Frames
BY MessagesAssumption DEF MessagesAssumption, Pipe!Written

-----------------------------------------------------------------------------
(* Sequences of cells.                                                     *)
LEMMA Joined ==
  ASSUME NEW b \in Seq(Nat), NEW w \in Seq(Nat)
  PROVE  /\ b \o w \in Seq(Nat) /\ Len(b \o w) = Len(b) + Len(w) /\ Len(b) \in Nat /\ Len(w) \in Nat
         /\ \A i \in 1 .. Len(b) : (b \o w)[i] = b[i]
         /\ \A i \in Len(b) + 1 .. Len(b) + Len(w) : (b \o w)[i] = w[i - Len(b)]
<1>1. /\ b \o w \in Seq(Nat) /\ Len(b \o w) = Len(b) + Len(w)
      /\ \A i \in 1 .. Len(b) + Len(w) : (b \o w)[i] = IF i <= Len(b) THEN b[i] ELSE w[i - Len(b)]
  BY ConcatProperties
<1>2. Len(b) \in Nat /\ Len(w) \in Nat
  OBVIOUS
<1> DEFINE x == b \o w
<1> HIDE DEF x
<1>3. \A i \in 1 .. Len(b) + Len(w) : x[i] = IF i <= Len(b) THEN b[i] ELSE w[i - Len(b)]
  BY <1>1 DEF x
<1>4. ASSUME NEW i \in 1 .. Len(b) PROVE x[i] = b[i]
  <2>1. i \in 1 .. Len(b) + Len(w) /\ i <= Len(b)
    BY <1>2
  <2> QED
    BY <1>3, <2>1
<1>5. ASSUME NEW i \in Len(b) + 1 .. Len(b) + Len(w) PROVE x[i] = w[i - Len(b)]
  <2>1. i \in 1 .. Len(b) + Len(w) /\ ~(i <= Len(b))
    BY <1>2
  <2> QED
    BY <1>3, <2>1
<1> QED
  BY <1>1, <1>2, <1>4, <1>5 DEF x

LEMMA Regrouped ==
  ASSUME NEW a \in Seq(Nat), NEW b \in Seq(Nat), NEW c \in Seq(Nat)
  PROVE  (a \o b) \o c = a \o (b \o c)
BY ConcatAssociative

(* Positions inside a message, before and after d cells are dropped.       *)
LEMMA Within ==
  ASSUME NEW a \in Nat, NEW k \in Nat, NEW m \in Nat, NEW n \in Nat, a >= 1, k <= 3 + m,
         a + 4 + m <= n + 1
  PROVE  a + k \in 1 .. n
OBVIOUS

LEMMA WithinDropped ==
  ASSUME NEW a \in Nat, NEW b \in Nat, NEW d \in Nat, NEW k \in Nat, NEW m \in Nat, NEW n \in Nat,
         NEW l \in Nat,
         b = a - d, l = n - d, k <= 3 + m, a + 4 + m <= n + 1
  PROVE  b + k <= l
OBVIOUS

LEMMA Shifted ==
  ASSUME NEW a \in Nat, NEW i \in Nat, NEW d \in Nat, NEW n \in Nat, NEW l \in Nat,
         1 <= i, i + d <= a - 2, a <= n + 1, l = n - d
  PROVE  i \in 1 .. l /\ i + 1 \in 1 .. l /\ i + 1 + d = i + d + 1 /\ i + d \in 1 .. a - 1 - 1
OBVIOUS

LEMMA Part ==
  ASSUME NEW b \in Seq(Nat), NEW d \in Nat, NEW n \in Nat, d <= n, n <= Len(b)
  PROVE  /\ SubSeq(b, d + 1, n) \in Seq(Nat) /\ Len(SubSeq(b, d + 1, n)) = n - d
         /\ \A i \in 1 .. n - d : SubSeq(b, d + 1, n)[i] = b[i + d]
<1> DEFINE c == SubSeq(b, d + 1, n)
<1>1. \A i \in d + 1 .. n : b[i] \in Nat
  OBVIOUS
<1>2. d + 1 \in Int /\ n \in Int
  OBVIOUS
<1>3. /\ c \in Seq(Nat) /\ Len(c) = IF d + 1 <= n THEN n - (d + 1) + 1 ELSE 0
      /\ \A i \in 1 .. n - (d + 1) + 1 : c[i] = b[d + 1 + i - 1]
  BY <1>1, <1>2, SubSeqProperties
<1> HIDE DEF c
<1>4. Len(c) = n - d /\ n - (d + 1) + 1 = n - d
  BY <1>3
<1>5. ASSUME NEW i \in 1 .. n - d PROVE c[i] = b[i + d]
  <2>1. i \in 1 .. n - (d + 1) + 1 /\ d + 1 + i - 1 = i + d
    BY <1>4
  <2> QED
    BY <1>3, <2>1
<1> QED
  BY <1>3, <1>4, <1>5 DEF c

LEMMA BufferDrops ==
  ASSUME NEW b \in Seq(Nat), NEW w \in Seq(Nat), NEW d \in 0 .. Len(b)
  PROVE  Drops(b \o w, SubSeq(b, d + 1, Len(b)) \o w, d)
<1> DEFINE c == SubSeq(b, d + 1, Len(b))
           x == b \o w
           y == c \o w
<1>1. c \in Seq(Nat) /\ Len(c) = Len(b) - d /\ \A i \in 1 .. Len(b) - d : c[i] = b[i + d]
  <2>1. d \in Nat /\ Len(b) \in Nat /\ d <= Len(b) /\ Len(b) <= Len(b)
    OBVIOUS
  <2> QED
    BY <2>1, Part
<1> HIDE DEF c
<1>2. /\ y \in Seq(Nat) /\ Len(y) = Len(c) + Len(w)
      /\ \A i \in 1 .. Len(c) : y[i] = c[i]
      /\ \A i \in Len(c) + 1 .. Len(c) + Len(w) : y[i] = w[i - Len(c)]
  BY <1>1, Joined
<1>3. /\ Len(x) = Len(b) + Len(w) /\ Len(b) \in Nat /\ Len(w) \in Nat
      /\ \A i \in 1 .. Len(b) : x[i] = b[i]
      /\ \A i \in Len(b) + 1 .. Len(b) + Len(w) : x[i] = w[i - Len(b)]
  BY Joined
<1> HIDE DEF x, y
<1>4. ASSUME NEW i \in 1 .. Len(y) PROVE y[i] = x[i + d]
  <2>1. CASE i <= Len(c)
    <3>1. i \in 1 .. Len(c) /\ i \in 1 .. Len(b) - d /\ i + d \in 1 .. Len(b)
      <4>1. Len(b) \in Nat /\ d \in Nat /\ d <= Len(b)
        BY <1>3
      <4>2. Len(c) = Len(b) - d
        BY <1>1
      <4>3. i \in Nat /\ 1 <= i
        OBVIOUS
      <4> QED
        BY <2>1, <4>1, <4>2, <4>3
    <3>2. y[i] = c[i] /\ c[i] = b[i + d] /\ x[i + d] = b[i + d]
      BY <1>1, <1>2, <1>3, <3>1
    <3> QED
      BY <3>2
  <2>2. CASE i > Len(c)
    <3>1. i - Len(c) = i + d - Len(b) /\ i + d \in Len(b) + 1 .. Len(b) + Len(w)
      BY <1>1, <1>2, <1>3, <2>2
    <3>2. i \in Len(c) + 1 .. Len(c) + Len(w)
      BY <1>1, <1>2, <1>3, <2>2
    <3>3. y[i] = w[i - Len(c)]
      BY <1>2, <3>2
    <3>4. x[i + d] = w[i + d - Len(b)]
      BY <1>3, <3>1
    <3> QED
      BY <3>1, <3>3, <3>4
  <2> QED
    BY <1>1, <1>2, <1>3, <2>1, <2>2
<1>5. Len(y) = Len(x) - d /\ d \in 0 .. Len(x)
  BY <1>1, <1>2, <1>3
<1> QED
  BY <1>2, <1>4, <1>5 DEF Drops, x, y, c

(* n cells arrive.                                                         *)
LEMMA ChunkArrives ==
  ASSUME NEW b \in Seq(Nat), NEW w \in Seq(Nat), NEW n \in 0 .. Len(w)
  PROVE  /\ SubSeq(w, 1, n) \in Seq(Nat) /\ Len(SubSeq(w, 1, n)) = n
         /\ SubSeq(w, n + 1, Len(w)) \in Seq(Nat)
         /\ b \o SubSeq(w, 1, n) \in Seq(Nat)
         /\ (b \o SubSeq(w, 1, n)) \o SubSeq(w, n + 1, Len(w)) = b \o w
<1> DEFINE h == SubSeq(w, 1, n)
           r == SubSeq(w, n + 1, Len(w))
<1>1. h \in Seq(Nat) /\ Len(h) = n
  <2>1. 0 \in Nat /\ n \in Nat /\ 0 <= n /\ n <= Len(w) /\ 0 + 1 = 1 /\ n - 0 = n
    OBVIOUS
  <2>2. SubSeq(w, 0 + 1, n) \in Seq(Nat) /\ Len(SubSeq(w, 0 + 1, n)) = n - 0
    BY <2>1, Part
  <2> QED
    BY <2>1, <2>2
<1>2. r \in Seq(Nat)
  BY Part
<1>3. h \o r = w
  <2>1. 1 \in 1 .. Len(w) + 1 /\ n \in 1 - 1 .. Len(w) /\ Len(w) \in n .. Len(w)
    OBVIOUS
  <2>2. h \o r = SubSeq(w, 1, Len(w))
    BY <2>1, ConcatAdjacentSubSeq
  <2> QED
    BY <2>2, SubSeqFull
<1> HIDE DEF h, r
<1>4. (b \o h) \o r = b \o (h \o r)
  BY <1>1, <1>2, Regrouped
<1>5. b \o h \in Seq(Nat)
  BY <1>1, Joined
<1>6. (b \o h) \o r = b \o w
  BY <1>3, <1>4
<1> QED
  BY <1>1, <1>2, <1>5, <1>6 DEF h, r

(* Of the cells that arrive in an empty buffer the first d are dropped.    *)
LEMMA ChunkDrops ==
  ASSUME NEW w \in Seq(Nat), NEW n \in 0 .. Len(w), NEW d \in 0 .. n
  PROVE  /\ <<>> \o SubSeq(SubSeq(w, 1, n), d + 1, n) \in Seq(Nat)
         /\ d = n => <<>> \o SubSeq(SubSeq(w, 1, n), d + 1, n) = <<>>
         /\ Drops(<<>> \o w, (<<>> \o SubSeq(SubSeq(w, 1, n), d + 1, n)) \o SubSeq(w, n + 1, Len(w)), d)
<1> DEFINE h == SubSeq(w, 1, n)
           r == SubSeq(w, n + 1, Len(w))
           e == SubSeq(h, d + 1, n)
<1>1. h \in Seq(Nat) /\ Len(h) = n /\ r \in Seq(Nat) /\ <<>> \in Seq(Nat)
  BY ChunkArrives
<1>2. <<>> \o h = h /\ (<<>> \o h) \o r = <<>> \o w /\ <<>> \o w = w
  BY <1>1, ChunkArrives, ConcatEmptySeq
<1> HIDE DEF h, r
<1>3. e \in Seq(Nat) /\ Len(e) = n - d
  BY <1>1, Part
<1>4. <<>> \o e = e
  BY <1>3, ConcatEmptySeq
<1>5. Drops(h \o r, SubSeq(h, d + 1, Len(h)) \o r, d)
  BY <1>1, BufferDrops
<1>6. d = n => e = <<>>
  BY <1>3
<1> QED
  BY <1>1, <1>2, <1>3, <1>4, <1>5, <1>6 DEF h, r

-----------------------------------------------------------------------------
(* Messages in the stream.                                                 *)
LEMMA LaidTyped ==
  ASSUME NEW s \in Seq(Nat), NEW ms \in Seq(Pipe!Written), NEW at, Laid(s, ms, at)
  PROVE  /\ Len(s) \in Nat /\ Len(ms) \in Nat /\ at[1] \in 1 .. Len(s) + 1
         /\ \A i \in 1 .. Len(ms) + 1 : at[i] \in at[1] .. Len(s) + 1
         /\ ms = <<>> => at[1] = Len(s) + 1
         /\ ms # <<>> => 1 \in 1 .. Len(ms)
<1>1. Len(s) \in Nat /\ Len(ms) \in Nat /\ 1 \in 1 .. Len(ms) + 1 /\ Len(ms) + 1 \in 1 .. Len(ms) + 1
  OBVIOUS
<1>2. \A i \in 1 .. Len(ms) + 1 : at[i] \in Nat \ {0}
  BY DEF Laid
<1>8. \A i \in 1 .. Len(ms) + 1 : 1 <= i /\ i <= Len(ms) + 1
  BY <1>1
<1>9. \A i, j \in 1 .. Len(ms) + 1 : i <= j => at[i] <= at[j]
  BY DEF Laid
<1>10. at[Len(ms) + 1] = Len(s) + 1
  BY DEF Laid
<1>3. \A i \in 1 .. Len(ms) + 1 : at[1] <= at[i] /\ at[i] <= Len(s) + 1
  BY <1>1, <1>8, <1>9, <1>10
<1>4. \A i \in 1 .. Len(ms) + 1 : at[i] \in at[1] .. Len(s) + 1
  BY <1>1, <1>2, <1>3
<1>5. at[1] \in 1 .. Len(s) + 1
  BY <1>1, <1>2, <1>3
<1>6. ms = <<>> => Len(ms) = 0
  OBVIOUS
<1>7. ms # <<>> => 1 \in 1 .. Len(ms)
  OBVIOUS
<1> QED
  BY <1>1, <1>4, <1>5, <1>6, <1>7 DEF Laid

(* Where the magic is found a message begins, and none begins before.      *)
LEMMA MagicBegins ==
  ASSUME NEW s \in Seq(Nat), NEW ms \in Seq(Pipe!Written), NEW at, Laid(s, ms, at),
         Unmarked(s, at[1] - 1),
         NEW i \in 1 .. Len(s) - 1, s[i] = Pipe!C, s[i + 1] = Pipe!M
  PROVE  at[1] <= i
<1>1. /\ Len(s) \in Nat /\ at[1] \in 1 .. Len(s) + 1
      /\ ms = <<>> => at[1] = Len(s) + 1
      /\ ms # <<>> => 1 \in 1 .. Len(ms)
  BY LaidTyped
<1>2. SUFFICES ASSUME i < at[1] PROVE FALSE
  BY <1>1
<1>3. CASE i < at[1] - 1
  <2>1. i \in 1 .. at[1] - 1 - 1
    BY <1>1, <1>3
  <2> QED
    BY <2>1 DEF Unmarked
<1>4. CASE i = at[1] - 1
  <2>1. ms # <<>>
    BY <1>1, <1>4
  <2>2. s[at[1]] = Pipe!C
    BY <1>1, <2>1 DEF Laid
  <2>3. at[1] = i + 1
    BY <1>1, <1>4
  <2> QED
    BY <2>2, <2>3
<1> QED
  BY <1>1, <1>2, <1>3, <1>4

(* Cells before the first message are dropped.                             *)
LEMMA LaidDropped ==
  ASSUME NEW s \in Seq(Nat), NEW ms \in Seq(Pipe!Written), NEW at, Laid(s, ms, at),
         NEW t, NEW d, Drops(s, t, d), d < at[1]
  PROVE  \E new : /\ Laid(t, ms, new) /\ new[1] = at[1] - d
                  /\ Unmarked(s, at[1] - 1) => Unmarked(t, new[1] - 1)
<1> DEFINE new == [i \in 1 .. Len(ms) + 1 |-> at[i] - d]
<1>1. /\ Len(s) \in Nat /\ Len(ms) \in Nat /\ at[1] \in 1 .. Len(s) + 1
      /\ \A i \in 1 .. Len(ms) + 1 : at[i] \in at[1] .. Len(s) + 1
  BY LaidTyped
<1>2. /\ t \in Seq(Nat) /\ Len(t) = Len(s) - d /\ d \in 0 .. Len(s)
      /\ \A i \in 1 .. Len(t) : t[i] = s[i + d]
  BY DEF Drops
<1>3. 1 \in 1 .. Len(ms) + 1 /\ Len(ms) + 1 \in 1 .. Len(ms) + 1
  BY <1>1
<1>4. new \in [1 .. Len(ms) + 1 -> Nat \ {0}] /\ \A i \in 1 .. Len(ms) + 1 : new[i] = at[i] - d
  BY <1>1, <1>2
<1> HIDE DEF new
<1>5. new[Len(ms) + 1] = Len(t) + 1 /\ new[1] = at[1] - d
  <2>1. at[Len(ms) + 1] = Len(s) + 1
    BY DEF Laid
  <2>3. \A i \in 1 .. Len(ms) + 1 : new[i] = at[i] - d
    BY <1>4
  <2>2. new[Len(ms) + 1] = Len(s) + 1 - d /\ new[1] = at[1] - d
    <3>1. new[1] = at[1] - d
      BY <1>3, <2>3
    <3>2. new[Len(ms) + 1] = at[Len(ms) + 1] - d
      BY <1>3, <2>3
    <3> QED
      BY <1>1, <1>2, <2>1, <3>1, <3>2
  <2> QED
    BY <1>1, <1>2, <2>2
<1>6. ASSUME NEW i \in 1 .. Len(ms) + 1, NEW j \in 1 .. Len(ms) + 1, i <= j
      PROVE  new[i] <= new[j]
  <2>1. at[i] <= at[j]
    BY <1>6 DEF Laid
  <2>2. at[i] \in Nat /\ at[j] \in Nat /\ d \in Nat
    BY <1>1, <1>2
  <2> QED
    BY <1>4, <2>1, <2>2
<1>7. ASSUME NEW i \in 1 .. Len(ms)
      PROVE  /\ new[i + 1] = new[i] + Pipe!HeaderSize + Len(ms[i].payload)
             /\ t[new[i]] = Pipe!C /\ t[new[i] + 1] = Pipe!M
             /\ t[new[i] + 2] = ms[i].type /\ t[new[i] + 3] = Len(ms[i].payload)
             /\ \A k \in 1 .. Len(ms[i].payload) : t[new[i] + 3 + k] = ms[i].payload[k]
  <2> DEFINE L == Len(ms[i].payload)
  <2>1. /\ at[i + 1] = at[i] + 4 + L
        /\ s[at[i]] = Pipe!C /\ s[at[i] + 1] = Pipe!M
        /\ s[at[i] + 2] = ms[i].type /\ s[at[i] + 3] = L
        /\ \A k \in 1 .. L : s[at[i] + 3 + k] = ms[i].payload[k]
    BY DEF Laid
  <2>2. L \in Nat
    BY DEF Pipe!Written
  <2>3. i \in 1 .. Len(ms) + 1 /\ i + 1 \in 1 .. Len(ms) + 1
    BY <1>1
  <2>4. /\ at[i] \in Nat /\ at[i + 1] \in Nat /\ at[i + 1] <= Len(s) + 1 /\ new[i] = at[i] - d
        /\ new[i + 1] = at[i + 1] - d
        /\ at[i] > d
    <3>1. at[i] \in at[1] .. Len(s) + 1 /\ at[i + 1] \in at[1] .. Len(s) + 1
      BY <1>1, <2>3
    <3>2. new[i] = at[i] - d /\ new[i + 1] = at[i + 1] - d
      BY <1>4, <2>3
    <3> QED
      BY <1>1, <1>2, <3>1, <3>2
  <2> HIDE DEF L
  <2>5. \A k \in 0 .. 3 + L : new[i] + k \in 1 .. Len(t) /\ new[i] + k + d = at[i] + k
    <3>1. ASSUME NEW k \in 0 .. 3 + L
          PROVE  new[i] + k \in 1 .. Len(t) /\ new[i] + k + d = at[i] + k
      <4>1. at[i + 1] = at[i] + 4 + L /\ d \in Nat /\ Len(t) = Len(s) - d /\ k \in Nat /\ k <= 3 + L
        BY <1>2, <2>1, <2>2
      <4>2. at[i] + 4 + L <= Len(s) + 1
        BY <2>4, <4>1
      <4>5. Len(s) \in Nat
        BY <1>1
      <4>3. new[i] + k >= 1 /\ new[i] + k <= Len(t) /\ new[i] + k \in Nat
        <5>1. new[i] \in Nat /\ new[i] >= 1
          BY <2>4, <4>1
        <5>2. new[i] + k <= Len(t)
          <6>1. new[i] = at[i] - d /\ L \in Nat /\ at[i] \in Nat /\ new[i] \in Nat
            BY <2>2, <2>4, <5>1
          <6>2. Len(t) = Len(s) - d /\ d \in Nat /\ k \in Nat /\ k <= 3 + L
            BY <4>1
          <6>3. Len(t) \in Nat
            BY <1>2, <2>1
          <6> QED
            BY <4>2, <4>5, <6>1, <6>2, <6>3, WithinDropped
        <5>3. k \in Nat
          BY <4>1
        <5>4. new[i] + k >= 1 /\ new[i] + k \in Nat
          BY <5>1, <5>3
        <5> QED
          BY <5>2, <5>4
      <4>4. new[i] + k + d = at[i] + k
        BY <2>4, <4>1
      <4> QED
        BY <1>1, <1>2, <4>1, <4>3, <4>4
    <3> QED
      BY <3>1
  <2>6. \A k \in 0 .. 3 + L : t[new[i] + k] = s[at[i] + k]
    BY <1>2, <2>5
  <2>7. new[i + 1] = new[i] + 4 + L
    BY <1>2, <2>1, <2>2, <2>4
  <2>8. /\ new[i] + 0 = new[i] /\ at[i] + 0 = at[i] /\ 0 \in 0 .. 3 + L /\ 1 \in 0 .. 3 + L
        /\ 2 \in 0 .. 3 + L /\ 3 \in 0 .. 3 + L
    BY <1>2, <2>2, <2>4
  <2>9. ASSUME NEW k \in 1 .. L PROVE t[new[i] + 3 + k] = ms[i].payload[k]
    <3>1. 3 + k \in 0 .. 3 + L /\ new[i] + (3 + k) = new[i] + 3 + k /\ at[i] + (3 + k) = at[i] + 3 + k
      <4>1. d \in Nat /\ k \in Nat /\ k <= L
        BY <1>2, <2>2
      <4> QED
        BY <2>2, <2>4, <4>1
    <3>2. t[new[i] + (3 + k)] = s[at[i] + (3 + k)]
      BY <2>6, <3>1
    <3> QED
      BY <2>1, <3>1, <3>2
  <2>10. t[new[i]] = Pipe!C /\ t[new[i] + 1] = Pipe!M /\ t[new[i] + 2] = ms[i].type /\ t[new[i] + 3] = L
    BY <2>1, <2>6, <2>8
  <2> QED
    BY <2>7, <2>9, <2>10 DEF L
<1>8. Laid(t, ms, new)
  BY <1>4, <1>5, <1>6, <1>7 DEF Laid
<1>9. ASSUME Unmarked(s, at[1] - 1) PROVE Unmarked(t, new[1] - 1)
  <2>1. SUFFICES ASSUME NEW i \in 1 .. new[1] - 1 - 1 PROVE ~(t[i] = Pipe!C /\ t[i + 1] = Pipe!M)
    BY DEF Unmarked
  <2>4. d \in Nat /\ i \in Nat /\ 1 <= i /\ i + d <= at[1] - 2 /\ at[1] <= Len(s) + 1
    BY <1>1, <1>2, <1>5
  <2>2. /\ i \in 1 .. Len(t) /\ i + 1 \in 1 .. Len(t) /\ i + 1 + d = i + d + 1
        /\ i + d \in 1 .. at[1] - 1 - 1
    <3>1. Len(s) \in Nat /\ Len(t) = Len(s) - d /\ at[1] \in Nat /\ Len(t) \in Nat
      BY <1>1, <1>2
    <3> QED
      BY <2>4, <3>1, Shifted
  <2>3. t[i] = s[i + d] /\ t[i + 1] = s[i + d + 1]
    <3>1. \A j \in 1 .. Len(t) : t[j] = s[j + d]
      BY <1>2
    <3>2. t[i] = s[i + d] /\ t[i + 1] = s[i + 1 + d]
      BY <2>2, <3>1
    <3> QED
      BY <2>2, <3>2
  <2>5. ~(s[i + d] = Pipe!C /\ s[i + d + 1] = Pipe!M)
    BY <1>9, <2>2 DEF Unmarked
  <2> QED
    BY <2>3, <2>5
<1> QED
  BY <1>5, <1>8, <1>9

(* A stream that begins with a message.                                    *)
LEMMA LaidFirst ==
  ASSUME NEW s \in Seq(Nat), NEW ms \in Seq(Pipe!Written), NEW at, Laid(s, ms, at),
         at[1] = 1, Len(s) > 0
  PROVE  LET w == ms[1]
             new == [i \in 1 .. Len(Tail(ms)) + 1 |-> at[i + 1]] IN
         /\ ms # <<>> /\ w \in Pipe!Written /\ Tail(ms) \in Seq(Pipe!Written)
         /\ Len(w.payload) \in Nat /\ Len(s) >= 4 + Len(w.payload)
         /\ s[1] = Pipe!C /\ s[2] = Pipe!M /\ s[3] = w.type /\ s[4] = Len(w.payload)
         /\ \A k \in 1 .. Len(w.payload) : s[4 + k] = w.payload[k]
         /\ Laid(s, Tail(ms), new) /\ new[1] = 5 + Len(w.payload)
<1> DEFINE w == ms[1]
           new == [i \in 1 .. Len(Tail(ms)) + 1 |-> at[i + 1]]
           L == Len(w.payload)
<1>1. /\ Len(s) \in Nat /\ Len(ms) \in Nat
      /\ \A i \in 1 .. Len(ms) + 1 : at[i] \in at[1] .. Len(s) + 1
      /\ ms = <<>> => at[1] = Len(s) + 1
      /\ ms # <<>> => 1 \in 1 .. Len(ms)
  BY LaidTyped
<1>2. ms # <<>> /\ 1 \in 1 .. Len(ms)
  BY <1>1
<1>3. w \in Pipe!Written
  BY <1>2
<1>4. L \in Nat
  BY <1>3, WrittenTyped
<1>5. /\ Tail(ms) \in Seq(Pipe!Written) /\ Len(Tail(ms)) = Len(ms) - 1
      /\ \A i \in 1 .. Len(Tail(ms)) : Tail(ms)[i] = ms[i + 1]
  BY <1>2, HeadTailProperties
<1>6. /\ at[1 + 1] = at[1] + 4 + L /\ s[at[1]] = Pipe!C /\ s[at[1] + 1] = Pipe!M
      /\ s[at[1] + 2] = w.type /\ s[at[1] + 3] = L
      /\ \A k \in 1 .. L : s[at[1] + 3 + k] = w.payload[k]
  BY <1>2 DEF Laid
<1> HIDE DEF L, w
<1>7. at[2] = 5 + L /\ at[2] <= Len(s) + 1 /\ 1 + 1 = 2 /\ 1 + 2 = 3 /\ 1 + 3 = 4
  <2>1. 2 \in 1 .. Len(ms) + 1
    BY <1>1, <1>2
  <2> QED
    BY <1>1, <1>4, <1>6, <2>1
<1>8. /\ s[1] = Pipe!C /\ s[2] = Pipe!M /\ s[3] = w.type /\ s[4] = L
      /\ \A k \in 1 .. L : s[4 + k] = w.payload[k]
  BY <1>6, <1>7
<1>9. /\ \A i \in 1 .. Len(Tail(ms)) + 1 : i + 1 \in 1 .. Len(ms) + 1
      /\ \A i \in 1 .. Len(Tail(ms)) :
            /\ i + 1 \in 1 .. Len(ms)
            /\ i + 1 \in 1 .. Len(Tail(ms)) + 1 /\ i \in 1 .. Len(Tail(ms)) + 1
      /\ 1 \in 1 .. Len(Tail(ms)) + 1 /\ Len(Tail(ms)) + 1 \in 1 .. Len(Tail(ms)) + 1
      /\ Len(Tail(ms)) + 1 + 1 = Len(ms) + 1
  BY <1>1, <1>2, <1>5
<1>10. /\ new \in [1 .. Len(Tail(ms)) + 1 -> Nat \ {0}]
       /\ \A i \in 1 .. Len(Tail(ms)) + 1 : new[i] = at[i + 1]
  BY <1>9 DEF Laid
<1> HIDE DEF new
<1>11. new[1] = 5 + L /\ new[Len(Tail(ms)) + 1] = Len(s) + 1
  <2>1. new[1] = at[1 + 1] /\ new[Len(Tail(ms)) + 1] = at[Len(Tail(ms)) + 1 + 1]
    BY <1>9, <1>10
  <2>2. at[Len(ms) + 1] = Len(s) + 1
    BY DEF Laid
  <2> QED
    BY <1>7, <1>9, <2>1, <2>2
<1>12. ASSUME NEW i \in 1 .. Len(Tail(ms)) + 1, NEW j \in 1 .. Len(Tail(ms)) + 1, i <= j
       PROVE  new[i] <= new[j]
  <2>1. i + 1 \in 1 .. Len(ms) + 1 /\ j + 1 \in 1 .. Len(ms) + 1 /\ i + 1 <= j + 1
    BY <1>9, <1>12
  <2>2. at[i + 1] <= at[j + 1]
    BY <2>1 DEF Laid
  <2> QED
    BY <1>10, <2>2
<1>13. ASSUME NEW i \in 1 .. Len(Tail(ms))
       PROVE  LET v == Tail(ms)[i] IN
              /\ new[i + 1] = new[i] + Pipe!HeaderSize + Len(v.payload)
              /\ s[new[i]] = Pipe!C /\ s[new[i] + 1] = Pipe!M
              /\ s[new[i] + 2] = v.type /\ s[new[i] + 3] = Len(v.payload)
              /\ \A k \in 1 .. Len(v.payload) : s[new[i] + 3 + k] = v.payload[k]
  <2>1. /\ Tail(ms)[i] = ms[i + 1] /\ new[i] = at[i + 1] /\ new[i + 1] = at[i + 1 + 1]
        /\ i + 1 \in 1 .. Len(ms)
    BY <1>5, <1>9, <1>10
  <2> QED
    BY <2>1 DEF Laid
<1>14. Laid(s, Tail(ms), new)
  BY <1>10, <1>11, <1>12, <1>13 DEF Laid
<1> QED
  BY <1>1, <1>2, <1>3, <1>4, <1>5, <1>7, <1>8, <1>11, <1>14 DEF new, w, L

(* A message is written behind the others.                                 *)
Encoded(w) == <<Pipe!C, Pipe!M, w.type, Len(w.payload)>> \o w.payload

LEMMA EncodedCells ==
  ASSUME NEW w \in Pipe!Written
  PROVE  LET e == Encoded(w) IN
         /\ e \in Seq(Nat) /\ Len(e) = 4 + Len(w.payload) /\ Len(w.payload) \in Nat
         /\ e[1] = Pipe!C /\ e[2] = Pipe!M /\ e[3] = w.type /\ e[4] = Len(w.payload)
         /\ \A k \in 1 .. Len(w.payload) : e[4 + k] = w.payload[k]
<1> DEFINE e == Encoded(w)
           h == <<Pipe!C, Pipe!M, w.type, Len(w.payload)>>
<1>1. w.payload \in Seq(Nat) /\ Len(w.payload) \in Nat /\ w.type \in Nat
  BY WrittenTyped
<1>2. /\ h \in Seq(Nat) /\ Len(h) = 4
      /\ h[1] = Pipe!C /\ h[2] = Pipe!M /\ h[3] = w.type /\ h[4] = Len(w.payload)
  BY <1>1
<1> HIDE DEF h
<1>3. /\ e \in Seq(Nat) /\ Len(e) = 4 + Len(w.payload)
      /\ \A i \in 1 .. 4 : e[i] = h[i]
      /\ \A i \in 4 + 1 .. 4 + Len(w.payload) : e[i] = w.payload[i - 4]
  BY <1>1, <1>2, Joined DEF Encoded, h
<1> HIDE DEF e
<1>5. e[1] = h[1] /\ e[2] = h[2] /\ e[3] = h[3] /\ e[4] = h[4]
  BY <1>3
<1>4. ASSUME NEW k \in 1 .. Len(w.payload) PROVE e[4 + k] = w.payload[k]
  <2>1. 4 + k \in 4 + 1 .. 4 + Len(w.payload) /\ 4 + k - 4 = k
    BY <1>1
  <2> QED
    BY <1>3, <2>1
<1>6. e[1] = Pipe!C /\ e[2] = Pipe!M /\ e[3] = w.type /\ e[4] = Len(w.payload)
  BY <1>2, <1>5
<1> QED
  BY <1>1, <1>3, <1>4, <1>6 DEF e

LEMMA LaidSent ==
  ASSUME NEW s \in Seq(Nat), NEW ms \in Seq(Pipe!Written), NEW at, Laid(s, ms, at),
         NEW w \in Pipe!Written
  PROVE  /\ Append(ms, w) \in Seq(Pipe!Written)
         /\ \E new : /\ Laid(s \o Encoded(w), Append(ms, w), new) /\ new[1] = at[1]
                     /\ Unmarked(s, at[1] - 1) => Unmarked(s \o Encoded(w), new[1] - 1)
<1> DEFINE e == Encoded(w)
           L == Len(w.payload)
           t == s \o e
           n == Len(ms)
           mt == Append(ms, w)
           new == [i \in 1 .. n + 2 |-> IF i <= n + 1 THEN at[i] ELSE Len(t) + 1]
<1>1. /\ Len(s) \in Nat /\ n \in Nat /\ at[1] \in 1 .. Len(s) + 1
      /\ \A i \in 1 .. n + 1 : at[i] \in at[1] .. Len(s) + 1
  BY LaidTyped
<1>2. /\ e \in Seq(Nat) /\ Len(e) = 4 + L /\ L \in Nat
      /\ e[1] = Pipe!C /\ e[2] = Pipe!M /\ e[3] = w.type /\ e[4] = L
      /\ \A k \in 1 .. L : e[4 + k] = w.payload[k]
  BY EncodedCells
<1>3. mt \in Seq(Pipe!Written) /\ Len(mt) = n + 1 /\ (\A i \in 1 .. n : mt[i] = ms[i]) /\ mt[n + 1] = w
  BY AppendProperties
<1> HIDE DEF e, mt, L
<1>4. /\ t \in Seq(Nat) /\ Len(t) = Len(s) + Len(e)
      /\ \A i \in 1 .. Len(s) : t[i] = s[i]
      /\ \A i \in Len(s) + 1 .. Len(s) + Len(e) : t[i] = e[i - Len(s)]
  BY <1>2, Joined
<1> HIDE DEF t
<1>5. Len(t) = Len(s) + 4 + L /\ Len(t) \in Nat
  BY <1>1, <1>2, <1>4
<1>6. \A k \in 1 .. 4 + L : t[Len(s) + k] = e[k]
  <2>1. SUFFICES ASSUME NEW k \in 1 .. 4 + L PROVE t[Len(s) + k] = e[k]
    OBVIOUS
  <2>2. Len(s) + k \in Len(s) + 1 .. Len(s) + Len(e) /\ (Len(s) + k) - Len(s) = k
    BY <1>1, <1>2
  <2> QED
    BY <1>4, <2>2
<1>7. /\ at \in [1 .. n + 1 -> Nat \ {0}] /\ at[n + 1] = Len(s) + 1
      /\ \A i, j \in 1 .. n + 1 : i <= j => at[i] <= at[j]
  BY DEF Laid
<1>8. new \in [1 .. n + 2 -> Nat \ {0}]
  BY <1>1, <1>5, <1>7
<1>9. (\A i \in 1 .. n + 1 : new[i] = at[i]) /\ new[n + 2] = Len(t) + 1
  BY <1>1
<1> HIDE DEF new
<1>10. ASSUME NEW i \in 1 .. n + 2, NEW j \in 1 .. n + 2, i <= j PROVE new[i] <= new[j]
  <2>1. CASE j <= n + 1
    <3>1. i \in 1 .. n + 1 /\ j \in 1 .. n + 1
      BY <1>1, <1>10, <2>1
    <3> QED
      BY <1>7, <1>9, <1>10, <3>1
  <2>2. CASE j = n + 2 /\ i <= n + 1
    <3>1. i \in 1 .. n + 1
      BY <1>1, <2>2
    <3>2. at[i] \in at[1] .. Len(s) + 1 /\ new[i] = at[i] /\ new[j] = Len(t) + 1
      BY <1>1, <1>9, <2>2, <3>1
    <3>3. at[1] \in Nat /\ Len(s) \in Nat
      BY <1>1
    <3>4. at[i] \in Nat /\ at[i] <= Len(s) + 1
      BY <3>2, <3>3
    <3>5. Len(s) <= Len(t) /\ Len(t) \in Nat
      BY <1>1, <1>2, <1>5
    <3> QED
      BY <3>2, <3>3, <3>4, <3>5
  <2>3. CASE j = n + 2 /\ i = n + 2
    BY <1>5, <1>9, <2>3
  <2> QED
    BY <1>1, <2>1, <2>2, <2>3
<1>11. ASSUME NEW i \in 1 .. n + 1
       PROVE  LET v == mt[i] IN
              /\ new[i + 1] = new[i] + Pipe!HeaderSize + Len(v.payload)
              /\ t[new[i]] = Pipe!C /\ t[new[i] + 1] = Pipe!M
              /\ t[new[i] + 2] = v.type /\ t[new[i] + 3] = Len(v.payload)
              /\ \A k \in 1 .. Len(v.payload) : t[new[i] + 3 + k] = v.payload[k]
  <2>1. CASE i = n + 1
    <3>1. mt[i] = w /\ new[i] = Len(s) + 1 /\ new[i + 1] = Len(t) + 1
      <4>1. i \in 1 .. n + 1 /\ i + 1 = n + 2
        BY <1>1, <2>1
      <4> QED
        BY <1>3, <1>7, <1>9, <2>1, <4>1
    <3>2. Len(t) + 1 = Len(s) + 1 + 4 + L
      BY <1>1, <1>2, <1>5
    <3>3. /\ Len(s) + 1 + 1 = Len(s) + 2 /\ Len(s) + 1 + 2 = Len(s) + 3 /\ Len(s) + 1 + 3 = Len(s) + 4
          /\ 1 \in 1 .. 4 + L /\ 2 \in 1 .. 4 + L /\ 3 \in 1 .. 4 + L /\ 4 \in 1 .. 4 + L
      BY <1>1, <1>2
    <3>4. t[Len(s) + 1] = e[1] /\ t[Len(s) + 2] = e[2] /\ t[Len(s) + 3] = e[3] /\ t[Len(s) + 4] = e[4]
      BY <1>6, <3>3
    <3>5. ASSUME NEW k \in 1 .. L PROVE t[Len(s) + 1 + 3 + k] = w.payload[k]
      <4>1. 4 + k \in 1 .. 4 + L /\ Len(s) + (4 + k) = Len(s) + 1 + 3 + k
        BY <1>1, <1>2
      <4>2. t[Len(s) + (4 + k)] = e[4 + k]
        BY <1>6, <4>1
      <4> QED
        BY <1>2, <4>1, <4>2
    <3>6. /\ t[Len(s) + 1] = Pipe!C /\ t[Len(s) + 1 + 1] = Pipe!M
          /\ t[Len(s) + 1 + 2] = w.type /\ t[Len(s) + 1 + 3] = L
      BY <1>2, <3>3, <3>4
    <3> QED
      BY <3>1, <3>2, <3>5, <3>6 DEF L
  <2>2. CASE i # n + 1
    <3>1. i \in 1 .. n /\ i \in 1 .. n + 1 /\ i + 1 \in 1 .. n + 1
      BY <1>1, <2>2
    <3>2. mt[i] = ms[i] /\ new[i] = at[i] /\ new[i + 1] = at[i + 1]
      BY <1>3, <1>9, <3>1
    <3> DEFINE K == Len(ms[i].payload)
    <3>3. /\ at[i + 1] = at[i] + 4 + K
          /\ s[at[i]] = Pipe!C /\ s[at[i] + 1] = Pipe!M
          /\ s[at[i] + 2] = ms[i].type /\ s[at[i] + 3] = K
          /\ \A k \in 1 .. K : s[at[i] + 3 + k] = ms[i].payload[k]
      BY <3>1 DEF Laid
    <3>4. K \in Nat
      BY <3>1, WrittenTyped
    <3> HIDE DEF K
    <3>5. at[i] \in at[1] .. Len(s) + 1 /\ at[i + 1] \in at[1] .. Len(s) + 1
      BY <1>1, <3>1
    <3>6. at[i] \in Nat /\ at[i] >= 1 /\ at[i] + 4 + K <= Len(s) + 1
      <4>1. at[i + 1] = at[i] + 4 + K
        BY <3>3
      <4>2. Len(s) \in Nat /\ at[1] \in Nat /\ at[1] >= 1
        BY <1>1
      <4>3. at[i] \in Nat /\ at[i] >= 1 /\ at[i + 1] <= Len(s) + 1
        BY <3>5, <4>2
      <4> QED
        BY <4>1, <4>3
    <3>10. at[i] \in Nat
      BY <3>6
    <3>7. ASSUME NEW k \in 0 .. 3 + K PROVE t[at[i] + k] = s[at[i] + k]
      <4>1. at[i] + k \in 1 .. Len(s)
        <5>1. Len(s) \in Nat /\ k \in Nat /\ k <= 3 + K
          BY <1>1, <3>4
        <5> QED
          BY <3>4, <3>6, <5>1, Within
      <4> QED
        BY <1>4, <4>1
    <3>8. /\ at[i] + 0 = at[i] /\ 0 \in 0 .. 3 + K /\ 1 \in 0 .. 3 + K /\ 2 \in 0 .. 3 + K
          /\ 3 \in 0 .. 3 + K
      BY <3>4, <3>6
    <3>9. ASSUME NEW k \in 1 .. K PROVE t[at[i] + 3 + k] = ms[i].payload[k]
      <4>1. 3 + k \in 0 .. 3 + K /\ at[i] + (3 + k) = at[i] + 3 + k
        <5>1. k \in Nat /\ k <= K
          BY <3>4
        <5> QED
          BY <3>4, <3>10, <5>1
      <4>2. t[at[i] + (3 + k)] = s[at[i] + (3 + k)]
        BY <3>7, <4>1
      <4> QED
        BY <3>3, <4>1, <4>2
    <3>11. t[at[i]] = Pipe!C /\ t[at[i] + 1] = Pipe!M /\ t[at[i] + 2] = ms[i].type /\ t[at[i] + 3] = K
      BY <3>3, <3>7, <3>8
    <3> QED
      BY <3>2, <3>3, <3>9, <3>11 DEF K
  <2> QED
    BY <2>1, <2>2
<1>12. Laid(t, mt, new)
  <2>1. Len(mt) + 1 = n + 2
    BY <1>1, <1>3
  <2> QED
    BY <1>3, <1>8, <1>9, <1>10, <1>11, <2>1 DEF Laid
<1>13. new[1] = at[1]
  BY <1>1, <1>9
<1>14. ASSUME Unmarked(s, at[1] - 1) PROVE Unmarked(t, new[1] - 1)
  <2>1. SUFFICES ASSUME NEW i \in 1 .. at[1] - 1 - 1 PROVE ~(t[i] = Pipe!C /\ t[i + 1] = Pipe!M)
    BY <1>13 DEF Unmarked
  <2>2. i \in 1 .. Len(s) /\ i + 1 \in 1 .. Len(s)
    BY <1>1
  <2>3. t[i] = s[i] /\ t[i + 1] = s[i + 1]
    BY <1>4, <2>2
  <2> QED
    BY <1>14, <2>3 DEF Unmarked
<1> QED
  BY <1>3, <1>12, <1>13, <1>14 DEF t, mt, e

-----------------------------------------------------------------------------
(* The inductive invariant.                                                *)
Stream == buffer \o bytes
Meanings == {Pipe!Meaning(w) : w \in Pipe!Written}

PipeTyped ==
  /\ bytes \in Seq(Nat) /\ buffer \in Seq(Nat) /\ owed \in Seq(Meanings)
  /\ mode \in {"HEADER", "PAYLOAD", "DISCARD"}
  /\ currentType \in Nat /\ currentPayloadLen \in Nat /\ remainingDiscardBytes \in Nat
  /\ looping \in BOOLEAN /\ frameTimer \in BOOLEAN

(* Outside a message: the rest of a frame that was given up, and then the  *)
(* messages owed.                                                          *)
BeforeMessage(ms, at) ==
  /\ ms \in Seq(Pipe!Written) /\ Laid(Stream, ms, at) /\ Means(owed, ms)
  /\ mode = "HEADER" => Unmarked(Stream, at[1] - 1)
  /\ mode = "DISCARD" => buffer = <<>> /\ at[1] = remainingDiscardBytes + 1

(* Behind the header of w: its payload, and then the messages owed after   *)
(* it.                                                                     *)
InMessage(w, ms, at) ==
  /\ ms \in Seq(Pipe!Written) /\ Laid(Stream, ms, at)
  /\ w \in Pipe!Written /\ owed # <<>> /\ Head(owed) = Pipe!Meaning(w) /\ Means(Tail(owed), ms)
  /\ currentType = w.type /\ currentPayloadLen = Len(w.payload) /\ at[1] = Len(w.payload) + 1
  /\ \A k \in 1 .. Len(w.payload) : Stream[k] = w.payload[k]

InPlace ==
  /\ mode # "PAYLOAD" => \E ms, at : BeforeMessage(ms, at)
  /\ mode = "PAYLOAD" => \E w, ms, at : InMessage(w, ms, at)

(* Between chunks no complete payload is left in the buffer, and the timer *)
(* runs for the payload of a frame only.                                   *)
Settled ==
  /\ mode = "PAYLOAD" /\ ~looping => Len(buffer) <= currentPayloadLen
  /\ frameTimer => mode = "PAYLOAD" /\ currentType = Pipe!FRAME

ReaderInv == PipeTyped /\ InPlace /\ Settled

LEMMA MeansSent ==
  ASSUME NEW os \in Seq(Meanings), NEW ms \in Seq(Pipe!Written), Means(os, ms), NEW w \in Pipe!Written
  PROVE  /\ Means(Append(os, Pipe!Meaning(w)), Append(ms, w))
         /\ Append(os, Pipe!Meaning(w)) \in Seq(Meanings)
<1>1. Pipe!Meaning(w) \in Meanings
  BY DEF Meanings
<1> DEFINE o == Append(os, Pipe!Meaning(w))
           m == Append(ms, w)
<1>2. /\ o \in Seq(Meanings) /\ Len(o) = Len(os) + 1 /\ (\A i \in 1 .. Len(os) : o[i] = os[i])
      /\ o[Len(os) + 1] = Pipe!Meaning(w)
  BY <1>1, AppendProperties
<1>3. Len(m) = Len(ms) + 1 /\ (\A i \in 1 .. Len(ms) : m[i] = ms[i]) /\ m[Len(ms) + 1] = w
  BY AppendProperties
<1>4. Len(os) = Len(ms) /\ Len(ms) \in Nat /\ \A i \in 1 .. Len(ms) : os[i] = Pipe!Meaning(ms[i])
  BY DEF Means
<1> HIDE DEF o, m
<1>5. ASSUME NEW i \in 1 .. Len(ms) + 1 PROVE o[i] = Pipe!Meaning(m[i])
  <2>1. CASE i = Len(ms) + 1
    BY <1>2, <1>3, <1>4, <2>1
  <2>2. CASE i # Len(ms) + 1
    <3>1. i \in 1 .. Len(ms)
      BY <1>4, <2>2
    <3> QED
      BY <1>2, <1>3, <1>4, <3>1
  <2> QED
    BY <2>1, <2>2
<1> QED
  BY <1>2, <1>3, <1>4, <1>5 DEF Means, o, m

LEMMA MeansFirst ==
  ASSUME NEW os \in Seq(Meanings), NEW ms \in Seq(Pipe!Written), Means(os, ms), ms # <<>>
  PROVE  os # <<>> /\ Head(os) = Pipe!Meaning(ms[1]) /\ Means(Tail(os), Tail(ms))
<1>1. /\ Len(os) = Len(ms) /\ Len(ms) \in Nat /\ 1 \in 1 .. Len(ms)
      /\ \A i \in 1 .. Len(ms) : os[i] = Pipe!Meaning(ms[i])
  BY DEF Means
<1>2. os # <<>> /\ Head(os) = Pipe!Meaning(ms[1])
  BY <1>1
<1>3. Len(Tail(os)) = Len(os) - 1 /\ \A i \in 1 .. Len(Tail(os)) : Tail(os)[i] = os[i + 1]
  BY <1>2, HeadTailProperties
<1>4. Len(Tail(ms)) = Len(ms) - 1 /\ \A i \in 1 .. Len(Tail(ms)) : Tail(ms)[i] = ms[i + 1]
  BY HeadTailProperties
<1>5. ASSUME NEW i \in 1 .. Len(Tail(ms)) PROVE Tail(os)[i] = Pipe!Meaning(Tail(ms)[i])
  <2>1. i \in 1 .. Len(Tail(os)) /\ i + 1 \in 1 .. Len(ms)
    BY <1>1, <1>3, <1>4
  <2> QED
    BY <1>1, <1>3, <1>4, <2>1
<1> QED
  BY <1>1, <1>2, <1>3, <1>4, <1>5 DEF Means

(* The message owed first is handed over, dropped or skipped.              *)
LEMMA OwedTail ==
  ASSUME PipeTyped, owed # <<>>
  PROVE  SubSeq(owed, 2, Len(owed)) = Tail(owed) /\ Tail(owed) \in Seq(Meanings)
BY TailIsSubSeq, HeadTailProperties DEF PipeTyped

(* What a stream without the magic in front loses.                         *)
LEMMA ResyncDrops ==
  ASSUME NEW b \in Seq(Nat), b # <<>>, NEW w \in Seq(Nat), NEW ms \in Seq(Pipe!Written), NEW at,
         Laid(b \o w, ms, at), Unmarked(b \o w, at[1] - 1)
  PROVE  \E d \in 0 .. Len(b) : d < at[1] /\ Pipe!Resynchronised(b) = SubSeq(b, d + 1, Len(b))
<1> DEFINE s == b \o w
           found == {i \in 1 .. Len(b) - 1 : b[i] = Pipe!C /\ b[i + 1] = Pipe!M}
<1>1. /\ s \in Seq(Nat) /\ Len(s) = Len(b) + Len(w) /\ Len(b) \in Nat /\ Len(w) \in Nat
      /\ \A i \in 1 .. Len(b) : s[i] = b[i]
  BY Joined
<1>2. Laid(s, ms, at) /\ Unmarked(s, at[1] - 1)
  OBVIOUS
<1> HIDE DEF s
<1>3. /\ at[1] \in 1 .. Len(s) + 1
      /\ ms = <<>> => at[1] = Len(s) + 1
      /\ ms # <<>> => 1 \in 1 .. Len(ms)
  BY <1>1, <1>2, LaidTyped
<1>9. at[1] \in Nat /\ at[1] >= 1 /\ Len(b) \in Nat /\ Len(b) >= 1 /\ Len(b) <= Len(s) /\ Len(s) \in Nat
  <2>1. Len(b) >= 1
    OBVIOUS
  <2>2. Len(s) \in Nat /\ Len(b) \in Nat /\ Len(b) <= Len(s)
    BY <1>1
  <2>3. at[1] \in Nat /\ at[1] >= 1
    BY <1>3, <2>2
  <2> QED
    BY <2>1, <2>2, <2>3
<1>4. ASSUME at[1] <= Len(s) PROVE s[at[1]] = Pipe!C /\ s[at[1] + 1] = Pipe!M
  <2>1. ms # <<>>
    BY <1>1, <1>3, <1>4
  <2> QED
    BY <1>2, <1>3, <2>1 DEF Laid
<1>5. \A i \in found : at[1] <= i
  <2>1. SUFFICES ASSUME NEW i \in 1 .. Len(b) - 1, b[i] = Pipe!C, b[i + 1] = Pipe!M PROVE at[1] <= i
    OBVIOUS
  <2>2. i \in 1 .. Len(b) /\ i + 1 \in 1 .. Len(b) /\ i \in 1 .. Len(s) - 1
    BY <1>1
  <2>3. s[i] = Pipe!C /\ s[i + 1] = Pipe!M
    BY <1>1, <2>1, <2>2
  <2> QED
    BY <1>1, <1>2, <2>2, <2>3, MagicBegins
<1>6. ASSUME at[1] <= Len(b) - 1 PROVE at[1] \in found
  <2>1. /\ at[1] \in 1 .. Len(b) - 1 /\ at[1] \in 1 .. Len(b) /\ at[1] + 1 \in 1 .. Len(b)
        /\ at[1] <= Len(s)
    BY <1>6, <1>9
  <2>2. b[at[1]] = Pipe!C /\ b[at[1] + 1] = Pipe!M
    BY <1>1, <1>4, <2>1
  <2> QED
    BY <2>1, <2>2
<1> HIDE DEF found
<1>10. \A i \in found : i \in Nat /\ i <= Len(b) - 1
  BY <1>9 DEF found
<1>7. CASE found # {}
  <2>1. PICK k \in found : TRUE
    BY <1>7
  <2>2. at[1] <= Len(b) - 1
    <3>1. k \in Nat /\ k <= Len(b) - 1 /\ at[1] <= k
      BY <1>5, <1>10, <2>1
    <3> QED
      BY <1>9, <3>1
  <2>3. at[1] \in found
    BY <1>6, <2>2
  <2> DEFINE first == CHOOSE i \in found : \A j \in found : i <= j
  <2>4. first \in found /\ \A j \in found : first <= j
    BY <1>5, <2>3
  <2>5. first = at[1]
    <3>1. first <= at[1] /\ at[1] <= first
      BY <1>5, <2>3, <2>4
    <3>2. first \in Nat /\ at[1] \in Nat
      BY <1>9, <1>10, <2>4
    <3> HIDE DEF first
    <3> QED
      BY <3>1, <3>2
  <2>6. Pipe!Resynchronised(b) = SubSeq(b, first, Len(b))
    BY <1>7 DEF Pipe!Resynchronised, found
  <2> HIDE DEF first
  <2>7. at[1] - 1 \in 0 .. Len(b) /\ at[1] - 1 < at[1] /\ at[1] - 1 + 1 = at[1]
    BY <1>9, <2>2
  <2> QED
    BY <2>5, <2>6, <2>7
<1>8. CASE found = {}
  <2>1. Len(b) <= at[1] /\ Len(b) >= 1
    BY <1>6, <1>8, <1>9
  <2>2. Pipe!Resynchronised(b) = IF b[Len(b)] = Pipe!C THEN <<Pipe!C>> ELSE <<>>
    BY <1>8 DEF Pipe!Resynchronised, Pipe!Last, found
  <2>3. CASE b[Len(b)] = Pipe!C
    <3>1. Len(b) - 1 \in 0 .. Len(b) /\ Len(b) - 1 < at[1] /\ Len(b) - 1 + 1 = Len(b)
      BY <1>9, <2>1
    <3>2. SubSeq(b, Len(b), Len(b)) = <<Pipe!C>>
      <4>1. /\ SubSeq(b, Len(b) - 1 + 1, Len(b)) \in Seq(Nat)
            /\ Len(SubSeq(b, Len(b) - 1 + 1, Len(b))) = Len(b) - (Len(b) - 1)
            /\ \A i \in 1 .. Len(b) - (Len(b) - 1) : SubSeq(b, Len(b) - 1 + 1, Len(b))[i] = b[i + (Len(b) - 1)]
        BY <1>9, <3>1, Part
      <4>2. Len(b) - (Len(b) - 1) = 1 /\ 1 + (Len(b) - 1) = Len(b) /\ 1 \in 1 .. 1
        BY <1>9
      <4> DEFINE z == SubSeq(b, Len(b), Len(b))
      <4>3. z \in Seq(Nat) /\ Len(z) = 1 /\ z[1] = Pipe!C
        BY <2>3, <3>1, <4>1, <4>2
      <4> HIDE DEF z
      <4>4. z = <<Pipe!C>>
        BY <4>3
      <4> QED
        BY <4>4 DEF z
    <3> QED
      BY <2>2, <2>3, <3>1, <3>2
  <2>4. CASE b[Len(b)] # Pipe!C
    <3>1. Len(b) # at[1]
      <4>1. SUFFICES ASSUME Len(b) = at[1] PROVE FALSE
        OBVIOUS
      <4>2. at[1] <= Len(s) /\ Len(b) \in 1 .. Len(b)
        BY <1>1, <2>1, <4>1
      <4> QED
        BY <1>1, <1>4, <2>4, <4>1, <4>2
    <3>2. Len(b) \in 0 .. Len(b) /\ Len(b) < at[1]
      BY <1>9, <2>1, <3>1
    <3>3. SubSeq(b, Len(b) + 1, Len(b)) = <<>>
      BY <1>1, SubSeqEmpty
    <3> QED
      BY <2>2, <2>4, <3>2, <3>3
  <2> QED
    BY <2>3, <2>4
<1> QED
  BY <1>7, <1>8

LEMMA DropsTwice ==
  ASSUME NEW s \in Seq(Nat), NEW t, NEW u, NEW d, NEW e, Drops(s, t, d), Drops(t, u, e)
  PROVE  Drops(s, u, d + e)
<1>1. Len(s) \in Nat /\ Len(t) = Len(s) - d /\ d \in Nat /\ d <= Len(s)
  BY DEF Drops
<1>2. u \in Seq(Nat) /\ Len(u) = Len(t) - e /\ e \in Nat /\ e <= Len(t) /\ Len(u) \in Nat
  BY <1>1 DEF Drops
<1>3. Len(u) = Len(s) - (d + e) /\ d + e \in 0 .. Len(s)
  BY <1>1, <1>2
<1>4. ASSUME NEW i \in 1 .. Len(u) PROVE u[i] = s[i + (d + e)]
  <2>1. i + e \in 1 .. Len(t) /\ (i + e) + d = i + (d + e)
    BY <1>1, <1>2
  <2>2. u[i] = t[i + e] /\ t[i + e] = s[(i + e) + d]
    BY <2>1 DEF Drops
  <2> QED
    BY <2>1, <2>2
<1> QED
  BY <1>2, <1>3, <1>4 DEF Drops

LEMMA StreamTyped ==
  ASSUME PipeTyped
  PROVE  /\ Stream \in Seq(Nat) /\ Len(Stream) = Len(buffer) + Len(bytes) /\ Len(buffer) \in Nat
         /\ Len(bytes) \in Nat
         /\ \A i \in 1 .. Len(buffer) : Stream[i] = buffer[i]
BY Joined DEF PipeTyped, Stream

LEMMA BeforeDropped ==
  ASSUME PipeTyped, NEW ms, NEW at, BeforeMessage(ms, at), NEW d, Drops(Stream, Stream', d),
         d < at[1], owed' = owed,
         mode' = "HEADER" => mode = "HEADER" \/ at[1] - d = 1,
         mode' = "DISCARD" => buffer' = <<>> /\ at[1] - d = remainingDiscardBytes' + 1
  PROVE  \E mt, new : BeforeMessage(mt, new)'
<1>1. PICK new : /\ Laid(Stream', ms, new) /\ new[1] = at[1] - d
                 /\ Unmarked(Stream, at[1] - 1) => Unmarked(Stream', new[1] - 1)
  BY StreamTyped, LaidDropped DEF BeforeMessage
<1>2. ASSUME mode' = "HEADER" PROVE Unmarked(Stream', new[1] - 1)
  <2>1. CASE mode = "HEADER"
    BY <1>1, <2>1 DEF BeforeMessage
  <2>2. CASE at[1] - d = 1
    BY <1>1, <2>2 DEF Unmarked
  <2> QED
    BY <1>2, <2>1, <2>2
<1>3. BeforeMessage(ms, new)'
  BY <1>1, <1>2 DEF BeforeMessage
<1> QED
  BY <1>3

(* The header in front of the buffer is that of the message owed first.    *)
LEMMA HeaderInFront ==
  ASSUME PipeTyped, InPlace, mode = "HEADER", Len(buffer) >= 4,
         SubSeq(buffer, 1, 2) = <<Pipe!C, Pipe!M>>
  PROVE  \E w, ms, at :
           /\ w \in Pipe!Written /\ ms \in Seq(Pipe!Written) /\ w.type = buffer[3]
           /\ Len(w.payload) = buffer[4]
           /\ owed # <<>> /\ Head(owed) = Pipe!Meaning(w) /\ Means(Tail(owed), ms)
           /\ Laid(Stream, ms, at) /\ at[1] = 5 + Len(w.payload)
           /\ Len(Stream) >= 4 + Len(w.payload)
           /\ \A k \in 1 .. Len(w.payload) : Stream[4 + k] = w.payload[k]
<1>1. PICK ms, at : BeforeMessage(ms, at)
  BY DEF InPlace
<1>2. /\ Stream \in Seq(Nat) /\ Len(Stream) = Len(buffer) + Len(bytes) /\ Len(buffer) \in Nat
      /\ Len(bytes) \in Nat
      /\ \A i \in 1 .. Len(buffer) : Stream[i] = buffer[i]
  BY StreamTyped
<1>3. buffer[1] = Pipe!C /\ buffer[2] = Pipe!M
  <2>1. /\ buffer \in Seq(Nat) /\ 0 \in Nat /\ 2 \in Nat /\ 0 <= 2 /\ 2 <= Len(buffer) /\ 0 + 1 = 1
        /\ 2 - 0 = 2
    BY <1>2 DEF PipeTyped
  <2>2. \A i \in 1 .. 2 - 0 : SubSeq(buffer, 0 + 1, 2)[i] = buffer[i + 0]
    BY <2>1, Part
  <2>3. SubSeq(buffer, 1, 2)[1] = buffer[1] /\ SubSeq(buffer, 1, 2)[2] = buffer[2]
    BY <2>1, <2>2
  <2> DEFINE z == SubSeq(buffer, 1, 2)
  <2>4. z = <<Pipe!C, Pipe!M>>
    OBVIOUS
  <2> HIDE DEF z
  <2>5. z[1] = Pipe!C /\ z[2] = Pipe!M
    BY <2>4
  <2> QED
    BY <2>3, <2>5 DEF z
<1>4. Stream[1] = buffer[1] /\ Stream[2] = buffer[2] /\ Stream[3] = buffer[3] /\ Stream[4] = buffer[4]
  BY <1>2
<1>5. /\ ms \in Seq(Pipe!Written) /\ Laid(Stream, ms, at) /\ Means(owed, ms)
      /\ Unmarked(Stream, at[1] - 1)
  BY <1>1 DEF BeforeMessage
<1>6. at[1] = 1
  <2>1. 1 \in 1 .. Len(Stream) - 1 /\ 1 + 1 = 2
    BY <1>2
  <2>2. at[1] <= 1
    BY <1>2, <1>3, <1>4, <1>5, <2>1, MagicBegins
  <2>3. at[1] \in 1 .. Len(Stream) + 1
    BY <1>2, <1>5, LaidTyped
  <2> QED
    BY <1>2, <2>2, <2>3
<1>7. Len(Stream) > 0
  BY <1>2
<1> DEFINE w == ms[1]
           new == [i \in 1 .. Len(Tail(ms)) + 1 |-> at[i + 1]]
<1>8. /\ ms # <<>> /\ w \in Pipe!Written /\ Tail(ms) \in Seq(Pipe!Written)
      /\ Len(w.payload) \in Nat /\ Len(Stream) >= 4 + Len(w.payload)
      /\ Stream[3] = w.type /\ Stream[4] = Len(w.payload)
      /\ \A k \in 1 .. Len(w.payload) : Stream[4 + k] = w.payload[k]
      /\ Laid(Stream, Tail(ms), new) /\ new[1] = 5 + Len(w.payload)
  <2>1. /\ Stream \in Seq(Nat) /\ ms \in Seq(Pipe!Written) /\ Laid(Stream, ms, at) /\ at[1] = 1
        /\ Len(Stream) > 0
    BY <1>2, <1>5, <1>6, <1>7
  <2> QED
    BY <2>1, LaidFirst
<1>9. owed # <<>> /\ Head(owed) = Pipe!Meaning(w) /\ Means(Tail(owed), Tail(ms))
  BY <1>5, <1>8, MeansFirst DEF PipeTyped
<1> HIDE DEF w, new
<1> QED
  BY <1>4, <1>8, <1>9

-----------------------------------------------------------------------------
(* The actions.                                                            *)
LEMMA SendKeeps ==
  ASSUME ReaderInv, NEW w \in Pipe!Written, Pipe!Send(w)
  PROVE  ReaderInv' /\ Pipe!Fifo!Write(Pipe!Meaning(w)) /\ Pipe!Meaning(w) \in Meanings
<1>1. /\ bytes \in Seq(Nat) /\ buffer \in Seq(Nat) /\ owed \in Seq(Meanings)
  BY DEF ReaderInv, PipeTyped
<1>2. /\ w.payload \in Seq(Nat) /\ <<Pipe!C, Pipe!M, w.type, Len(w.payload)>> \in Seq(Nat)
      /\ Encoded(w) \in Seq(Nat)
      /\ Len(Encoded(w)) = 4 + Len(w.payload) /\ Len(w.payload) \in Nat
  <2>1. w.payload \in Seq(Nat) /\ Len(w.payload) \in Nat /\ w.type \in Nat
    BY WrittenTyped
  <2> QED
    BY <2>1, EncodedCells
<1>3. bytes' = bytes \o Encoded(w)
  <2> DEFINE h == <<Pipe!C, Pipe!M, w.type, Len(w.payload)>>
  <2>1. bytes' = bytes \o h \o w.payload /\ Encoded(w) = h \o w.payload
    BY DEF Pipe!Send, Encoded
  <2>2. h \in Seq(Nat) /\ w.payload \in Seq(Nat) /\ bytes \in Seq(Nat)
    BY <1>1, <1>2
  <2> HIDE DEF h
  <2>3. (bytes \o h) \o w.payload = bytes \o (h \o w.payload)
    BY <2>2, Regrouped
  <2> QED
    BY <2>1, <2>3
<1>4. buffer' = buffer /\ Stream' = Stream \o Encoded(w) /\ bytes' \in Seq(Nat)
  <2>1. buffer' = buffer
    BY DEF Pipe!Send
  <2>2. Stream' = buffer \o (bytes \o Encoded(w))
    BY <1>3, <2>1 DEF Stream
  <2>3. (buffer \o bytes) \o Encoded(w) = buffer \o (bytes \o Encoded(w))
    BY <1>1, <1>2, Regrouped
  <2>4. bytes \o Encoded(w) \in Seq(Nat)
    BY <1>1, <1>2, Joined
  <2> QED
    BY <1>3, <2>1, <2>2, <2>3, <2>4 DEF Stream
<1>5. owed' = Append(owed, Pipe!Meaning(w)) /\ Pipe!Meaning(w) \in Meanings /\ owed' \in Seq(Meanings)
  <2>1. Pipe!Meaning(w) \in Meanings
    BY DEF Meanings
  <2> QED
    BY <1>1, <2>1, AppendProperties DEF Pipe!Send
<1>6. UNCHANGED <<mode, currentType, currentPayloadLen, remainingDiscardBytes, frameTimer,
                  looping, delivered>>
  BY DEF Pipe!Send
<1>7. PipeTyped'
  BY <1>4, <1>5, <1>6 DEF ReaderInv, PipeTyped
<1>8. Settled'
  BY <1>4, <1>6 DEF ReaderInv, Settled
<1>9. Stream \in Seq(Nat) /\ Len(Stream) \in Nat /\ \A k \in 1 .. Len(Stream) : Stream'[k] = Stream[k]
  <2>1. Stream \in Seq(Nat)
    BY StreamTyped DEF ReaderInv
  <2> QED
    BY <1>2, <1>4, <2>1, Joined
<1>10. ASSUME mode # "PAYLOAD" PROVE \E ms, at : BeforeMessage(ms, at)'
  <2>1. PICK ms, at : BeforeMessage(ms, at)
    BY <1>10 DEF ReaderInv, InPlace
  <2>2. /\ ms \in Seq(Pipe!Written) /\ Laid(Stream, ms, at) /\ Means(owed, ms)
        /\ mode = "HEADER" => Unmarked(Stream, at[1] - 1)
    BY <2>1 DEF BeforeMessage
  <2>3. PICK new : /\ Laid(Stream \o Encoded(w), Append(ms, w), new) /\ new[1] = at[1]
                   /\ Unmarked(Stream, at[1] - 1) => Unmarked(Stream \o Encoded(w), new[1] - 1)
    BY <1>9, <2>2, LaidSent
  <2>4. Append(ms, w) \in Seq(Pipe!Written)
    BY <2>2, AppendProperties
  <2>5. Means(owed', Append(ms, w))
    BY <1>1, <1>5, <2>2, MeansSent
  <2>6. BeforeMessage(Append(ms, w), new)'
    BY <1>4, <1>6, <2>1, <2>2, <2>3, <2>4, <2>5 DEF BeforeMessage
  <2> QED
    BY <2>6
<1>11. ASSUME mode = "PAYLOAD" PROVE \E v, ms, at : InMessage(v, ms, at)'
  <2>1. PICK v, ms, at : InMessage(v, ms, at)
    BY <1>11 DEF ReaderInv, InPlace
  <2>2. /\ ms \in Seq(Pipe!Written) /\ Laid(Stream, ms, at) /\ v \in Pipe!Written /\ owed # <<>>
        /\ Head(owed) = Pipe!Meaning(v) /\ Means(Tail(owed), ms) /\ at[1] = Len(v.payload) + 1
        /\ currentType = v.type /\ currentPayloadLen = Len(v.payload)
        /\ \A k \in 1 .. Len(v.payload) : Stream[k] = v.payload[k]
    BY <2>1 DEF InMessage
  <2>3. PICK new : Laid(Stream \o Encoded(w), Append(ms, w), new) /\ new[1] = at[1]
    BY <1>9, <2>2, LaidSent
  <2>4. Append(ms, w) \in Seq(Pipe!Written)
    BY <2>2, AppendProperties
  <2>5. /\ owed' # <<>> /\ Head(owed') = Head(owed)
        /\ Tail(owed') = Append(Tail(owed), Pipe!Meaning(w)) /\ Tail(owed) \in Seq(Meanings)
    <3>1. /\ owed \in Seq(Meanings) /\ owed # <<>> /\ Pipe!Meaning(w) \in Meanings
          /\ owed' = Append(owed, Pipe!Meaning(w))
      BY <1>1, <1>5, <2>2
    <3>2. Tail(owed) \in Seq(Meanings)
      BY <3>1, HeadTailProperties
    <3>3. owed' # <<>>
      BY <3>1, AppendProperties
    <3>4. /\ Head(Append(owed, Pipe!Meaning(w))) = Head(owed)
          /\ Tail(Append(owed, Pipe!Meaning(w))) = Append(Tail(owed), Pipe!Meaning(w))
      BY <3>1, HeadTailAppend
    <3> QED
      BY <3>1, <3>2, <3>3, <3>4
  <2>6. Means(Tail(owed'), Append(ms, w))
    BY <2>2, <2>5, MeansSent
  <2>7. \A k \in 1 .. Len(v.payload) : Stream'[k] = v.payload[k]
    <3>1. Len(v.payload) \in Nat /\ at[1] \in 1 .. Len(Stream) + 1
      BY <1>9, <2>2, WrittenTyped, LaidTyped
    <3>2. Len(v.payload) <= Len(Stream)
      BY <1>9, <2>2, <3>1
    <3>3. \A k \in 1 .. Len(v.payload) : k \in 1 .. Len(Stream)
      BY <1>9, <3>1, <3>2
    <3> QED
      BY <1>9, <2>2, <3>3
  <2>8. InMessage(v, Append(ms, w), new)'
    BY <1>4, <1>6, <2>2, <2>3, <2>4, <2>5, <2>6, <2>7 DEF InMessage
  <2> QED
    BY <2>8
<1>12. InPlace'
  BY <1>6, <1>10, <1>11 DEF InPlace
<1> QED
  BY <1>5, <1>6, <1>7, <1>8, <1>12 DEF ReaderInv, Pipe!Fifo!Write

Same == UNCHANGED <<owed, delivered>>

LEMMA HandleDataKeeps ==
  ASSUME ReaderInv, NEW n \in 1 .. Len(bytes), Pipe!HandleData(n)
  PROVE  ReaderInv' /\ Same
<1>1. /\ bytes \in Seq(Nat) /\ buffer \in Seq(Nat) /\ owed \in Seq(Meanings)
      /\ n \in 0 .. Len(bytes) /\ n \in Nat
      /\ remainingDiscardBytes \in Nat
  BY DEF ReaderInv, PipeTyped
<1>2. /\ bytes' = SubSeq(bytes, n + 1, Len(bytes)) /\ looping' = TRUE
      /\ UNCHANGED <<currentType, currentPayloadLen, frameTimer, owed, delivered>>
  BY DEF Pipe!HandleData
<1>3. bytes' \in Seq(Nat)
  BY <1>1, <1>2, ChunkArrives
<1>4. CASE mode # "DISCARD"
  <2>1. /\ buffer' = buffer \o SubSeq(bytes, 1, n) /\ mode' = mode
        /\ remainingDiscardBytes' = remainingDiscardBytes
    BY <1>4 DEF Pipe!HandleData
  <2>2. buffer' \in Seq(Nat) /\ Stream' = Stream
    BY <1>1, <1>2, <2>1, ChunkArrives DEF Stream
  <2>3. PipeTyped' /\ Settled'
    BY <1>2, <1>3, <2>1, <2>2 DEF ReaderInv, PipeTyped, Settled
  <2>4. InPlace'
    <3>1. ASSUME mode # "PAYLOAD" PROVE \E ms, at : BeforeMessage(ms, at)'
      <4>1. PICK ms, at : BeforeMessage(ms, at)
        BY <3>1 DEF ReaderInv, InPlace
      <4>2. BeforeMessage(ms, at)'
        BY <1>2, <1>4, <2>1, <2>2, <4>1 DEF BeforeMessage
      <4> QED
        BY <4>2
    <3>2. ASSUME mode = "PAYLOAD" PROVE \E w, ms, at : InMessage(w, ms, at)'
      <4>1. PICK w, ms, at : InMessage(w, ms, at)
        BY <3>2 DEF ReaderInv, InPlace
      <4>2. InMessage(w, ms, at)'
        BY <1>2, <2>1, <2>2, <4>1 DEF InMessage
      <4> QED
        BY <4>2
    <3> QED
      BY <2>1, <3>1, <3>2 DEF InPlace
  <2> QED
    BY <1>2, <2>3, <2>4 DEF ReaderInv, Same
<1>5. CASE mode = "DISCARD"
  <2>1. PICK ms, at : BeforeMessage(ms, at)
    BY <1>5 DEF ReaderInv, InPlace
  <2>2. buffer = <<>> /\ at[1] = remainingDiscardBytes + 1
    BY <1>5, <2>1 DEF BeforeMessage
  <2> DEFINE d == IF n <= remainingDiscardBytes THEN n ELSE remainingDiscardBytes
  <2>3. /\ buffer' = buffer \o SubSeq(SubSeq(bytes, 1, n), d + 1, n)
        /\ remainingDiscardBytes' = remainingDiscardBytes - d
        /\ mode' = IF remainingDiscardBytes - d = 0 THEN "HEADER" ELSE mode
    BY <1>5 DEF Pipe!HandleData
  <2>4. /\ d \in 0 .. n /\ d < at[1] /\ remainingDiscardBytes - d \in Nat
        /\ (d = n \/ remainingDiscardBytes - d = 0)
        /\ at[1] - d = (remainingDiscardBytes - d) + 1
    BY <1>1, <2>2
  <2> HIDE DEF d
  <2>5. /\ <<>> \o SubSeq(SubSeq(bytes, 1, n), d + 1, n) \in Seq(Nat)
        /\ d = n => <<>> \o SubSeq(SubSeq(bytes, 1, n), d + 1, n) = <<>>
        /\ Drops(<<>> \o bytes,
                 (<<>> \o SubSeq(SubSeq(bytes, 1, n), d + 1, n)) \o SubSeq(bytes, n + 1, Len(bytes)),
                 d)
    BY <1>1, <2>4, ChunkDrops
  <2>6. buffer' \in Seq(Nat) /\ (d = n => buffer' = <<>>) /\ Drops(Stream, Stream', d)
    <3>1. buffer' = <<>> \o SubSeq(SubSeq(bytes, 1, n), d + 1, n)
      BY <2>2, <2>3
    <3>2. Stream = <<>> \o bytes /\ Stream' = buffer' \o SubSeq(bytes, n + 1, Len(bytes))
      BY <1>2, <2>2 DEF Stream
    <3> QED
      BY <2>5, <3>1, <3>2
  <2>7. /\ mode' \in {"HEADER", "DISCARD"} /\ (mode' = "DISCARD" => d = n)
        /\ mode' = "HEADER" => at[1] - d = 1
    BY <1>5, <2>3, <2>4
  <2>8. PipeTyped'
    BY <1>2, <1>3, <2>3, <2>4, <2>6, <2>7 DEF ReaderInv, PipeTyped
  <2>9. \E mt, new : BeforeMessage(mt, new)'
    BY <1>2, <2>1, <2>3, <2>4, <2>6, <2>7, BeforeDropped DEF ReaderInv
  <2>10. Settled'
    BY <1>2, <1>5, <2>7 DEF ReaderInv, Settled
  <2> QED
    BY <1>2, <2>7, <2>8, <2>9, <2>10 DEF ReaderInv, InPlace, Same
<1> QED
  BY <1>4, <1>5

LEMMA LoopEndsKeeps ==
  ASSUME ReaderInv, Pipe!LoopEnds
  PROVE  ReaderInv' /\ Same
<1>1. UNCHANGED <<bytes, buffer, mode, currentType, currentPayloadLen, remainingDiscardBytes,
                  frameTimer, owed, delivered>>
      /\ looping' = FALSE
  BY DEF Pipe!LoopEnds
<1>2. Stream' = Stream
  BY <1>1 DEF Stream
<1>3. mode = "PAYLOAD" => Len(buffer) <= currentPayloadLen
  <2>1. Len(buffer) \in Nat /\ currentPayloadLen \in Nat
    BY DEF ReaderInv, PipeTyped
  <2> QED
    BY <2>1 DEF Pipe!LoopEnds
<1>4. PipeTyped' /\ Settled'
  BY <1>1, <1>3 DEF ReaderInv, PipeTyped, Settled
<1>5. InPlace'
  BY <1>1, <1>2 DEF ReaderInv, InPlace, BeforeMessage, InMessage
<1> QED
  BY <1>1, <1>4, <1>5 DEF ReaderInv, Same

LEMMA ResyncKeeps ==
  ASSUME ReaderInv, Pipe!Resync
  PROVE  ReaderInv' /\ Same
<1>1. /\ mode = "HEADER" /\ Len(buffer) >= 4 /\ buffer' = Pipe!Resynchronised(buffer)
      /\ looping' = (Len(buffer') >= 4)
      /\ UNCHANGED <<bytes, mode, currentType, currentPayloadLen, remainingDiscardBytes,
                     frameTimer, owed, delivered>>
  BY DEF Pipe!Resync
<1>2. PICK ms, at : BeforeMessage(ms, at)
  BY <1>1 DEF ReaderInv, InPlace
<1>3. buffer \in Seq(Nat) /\ bytes \in Seq(Nat) /\ buffer # <<>> /\ ms \in Seq(Pipe!Written)
  BY <1>1, <1>2 DEF ReaderInv, PipeTyped, BeforeMessage
<1>4. Laid(buffer \o bytes, ms, at) /\ Unmarked(buffer \o bytes, at[1] - 1)
  BY <1>1, <1>2 DEF BeforeMessage, Stream
<1>5. PICK d \in 0 .. Len(buffer) :
        d < at[1] /\ Pipe!Resynchronised(buffer) = SubSeq(buffer, d + 1, Len(buffer))
  BY <1>3, <1>4, ResyncDrops
<1>6. Drops(Stream, Stream', d)
  BY <1>1, <1>3, <1>5, BufferDrops DEF Stream
<1>7. buffer' \in Seq(Nat)
  <2>1. d \in Nat /\ Len(buffer) \in Nat /\ d <= Len(buffer) /\ Len(buffer) <= Len(buffer)
    BY <1>3
  <2> QED
    BY <1>1, <1>3, <1>5, <2>1, Part
<1>8. PipeTyped'
  BY <1>1, <1>7 DEF ReaderInv, PipeTyped
<1>9. \E mt, new : BeforeMessage(mt, new)'
  BY <1>1, <1>2, <1>5, <1>6, BeforeDropped DEF ReaderInv
<1>10. Settled'
  BY <1>1 DEF ReaderInv, Settled
<1> QED
  BY <1>1, <1>8, <1>9, <1>10 DEF ReaderInv, InPlace, Same

(* Nothing lies in an empty stream.                                        *)
LEMMA NothingLaid ==
  LET at == [i \in 1 .. Len(<<>>) + 1 |-> 1] IN
  Laid(<<>>, <<>>, at) /\ Means(<<>>, <<>>) /\ Unmarked(<<>>, at[1] - 1)
<1> DEFINE at == [i \in 1 .. Len(<<>>) + 1 |-> 1]
<1>1. Laid(<<>>, <<>>, at) /\ at[1] = 1
  BY DEF Laid
<1> HIDE DEF at
<1>2. Means(<<>>, <<>>) /\ Unmarked(<<>>, at[1] - 1)
  BY <1>1 DEF Means, Unmarked
<1> QED
  BY <1>1, <1>2 DEF at

LEMMA ResetKeeps ==
  ASSUME ReaderInv, Pipe!Reset
  PROVE  ReaderInv' /\ Pipe!Fifo!Disconnect
<1>1. /\ buffer' = <<>> /\ mode' = "HEADER" /\ currentPayloadLen' = 0 /\ remainingDiscardBytes' = 0
      /\ frameTimer' = FALSE
      /\ currentType' = 0 /\ bytes' = <<>> /\ owed' = <<>> /\ UNCHANGED <<written, looping, delivered>>
  BY DEF Pipe!Reset, Pipe!Fresh
<1>2. PipeTyped' /\ Settled'
  <2>1. <<>> \in Seq(Nat) /\ <<>> \in Seq(Meanings)
    OBVIOUS
  <2>2. PipeTyped'
    BY <1>1, <2>1 DEF ReaderInv, PipeTyped
  <2> QED
    BY <1>1, <2>2 DEF Settled
<1>3. Stream' = <<>>
  <2>1. Stream' = <<>> \o <<>>
    BY <1>1 DEF Stream
  <2>2. <<>> \in Seq(Nat)
    OBVIOUS
  <2> QED
    BY <2>1, <2>2, ConcatEmptySeq
<1>5. <<>> \in Seq(Pipe!Written)
  OBVIOUS
<1>6. BeforeMessage(<<>>, [i \in 1 .. Len(<<>>) + 1 |-> 1])'
  BY <1>1, <1>3, <1>5, NothingLaid DEF BeforeMessage
<1> QED
  BY <1>1, <1>2, <1>6 DEF ReaderInv, InPlace, Pipe!Fifo!Disconnect

(* A frame lost in front of the stream: w, whose meaning is owed first.    *)
LEMMA Lost ==
  ASSUME NEW w \in Pipe!Written, w.type = Pipe!FRAME, PipeTyped, owed # <<>>,
         Head(owed) = Pipe!Meaning(w),
         owed' = SubSeq(owed, 2, Len(owed)), delivered' = delivered
  PROVE  Pipe!Fifo!Lose
<1>1. owed' = Tail(owed)
  BY OwedTail
<1>2. Pipe!Meaning(w) \in {Pipe!Meaning(v) : v \in {x \in Pipe!Written : x.type = Pipe!FRAME}}
  OBVIOUS
<1> QED
  BY <1>1, <1>2 DEF Pipe!Fifo!Lose

LEMMA SkipOversizedKeeps ==
  ASSUME ReaderInv, Pipe!SkipOversized
  PROVE  ReaderInv' /\ Pipe!Fifo!Lose
<1> DEFINE len  == buffer[4]
           rest == SubSeq(buffer, 5, Len(buffer))
           skip == IF Len(rest) <= len THEN Len(rest) ELSE len
<1>1. /\ mode = "HEADER" /\ Len(buffer) >= 4 /\ SubSeq(buffer, 1, 2) = <<Pipe!C, Pipe!M>>
      /\ buffer[3] = Pipe!FRAME
      /\ currentType' = Pipe!FRAME /\ currentPayloadLen' = len /\ remainingDiscardBytes' = len - skip
      /\ buffer' = SubSeq(rest, skip + 1, Len(rest))
      /\ mode' = IF len = skip THEN "HEADER" ELSE "DISCARD"
      /\ looping' = (Len(buffer') >= 4) /\ owed' = SubSeq(owed, 2, Len(owed))
      /\ UNCHANGED <<bytes, frameTimer, delivered>>
  BY DEF Pipe!SkipOversized
<1>2. PICK w, ms, at :
           /\ w \in Pipe!Written /\ ms \in Seq(Pipe!Written) /\ w.type = buffer[3]
           /\ Len(w.payload) = buffer[4]
           /\ owed # <<>> /\ Head(owed) = Pipe!Meaning(w) /\ Means(Tail(owed), ms)
           /\ Laid(Stream, ms, at) /\ at[1] = 5 + Len(w.payload)
           /\ Len(Stream) >= 4 + Len(w.payload)
           /\ \A k \in 1 .. Len(w.payload) : Stream[4 + k] = w.payload[k]
  BY <1>1, HeaderInFront DEF ReaderInv
<1>3. buffer \in Seq(Nat) /\ bytes \in Seq(Nat) /\ Len(buffer) \in Nat /\ Stream \in Seq(Nat)
  BY StreamTyped DEF ReaderInv, PipeTyped
<1>4. len = Len(w.payload) /\ len \in Nat /\ w.payload \in Frames
  BY <1>1, <1>2, WrittenTyped
<1>5. rest \in Seq(Nat) /\ Len(rest) = Len(buffer) - 4 /\ Drops(Stream, rest \o bytes, 4)
  <2>1. 4 \in 0 .. Len(buffer) /\ 4 \in Nat /\ 4 + 1 = 5 /\ Len(buffer) <= Len(buffer)
    BY <1>1, <1>3
  <2>2. /\ SubSeq(buffer, 4 + 1, Len(buffer)) \in Seq(Nat)
        /\ Len(SubSeq(buffer, 4 + 1, Len(buffer))) = Len(buffer) - 4
    BY <1>1, <1>3, <2>1, Part
  <2>3. Drops(buffer \o bytes, SubSeq(buffer, 4 + 1, Len(buffer)) \o bytes, 4)
    BY <1>3, <2>1, BufferDrops
  <2> QED
    BY <2>1, <2>2, <2>3 DEF Stream
<1> HIDE DEF rest
<1>6. skip \in 0 .. Len(rest) /\ skip \in 0 .. len /\ (len = skip \/ skip = Len(rest)) /\ Len(rest) \in Nat
  BY <1>4, <1>5
<1> HIDE DEF skip, len
<1>7. buffer' \in Seq(Nat) /\ Len(buffer') = Len(rest) - skip /\ Drops(rest \o bytes, Stream', skip)
  <2>1. buffer' \in Seq(Nat) /\ Len(buffer') = Len(rest) - skip
    <3>1. /\ skip \in Nat /\ Len(rest) \in Nat /\ skip <= Len(rest) /\ Len(rest) <= Len(rest)
          /\ rest \in Seq(Nat)
      BY <1>5, <1>6
    <3>2. /\ SubSeq(rest, skip + 1, Len(rest)) \in Seq(Nat)
          /\ Len(SubSeq(rest, skip + 1, Len(rest))) = Len(rest) - skip
      BY <3>1, Part
    <3> QED
      BY <1>1, <3>2
  <2>2. Drops(rest \o bytes, SubSeq(rest, skip + 1, Len(rest)) \o bytes, skip)
    BY <1>3, <1>5, <1>6, BufferDrops
  <2> QED
    BY <1>1, <2>1, <2>2 DEF Stream
<1>8. Drops(Stream, Stream', 4 + skip)
  BY <1>3, <1>5, <1>7, DropsTwice
<1>18. ms \in Seq(Pipe!Written) /\ Laid(Stream, ms, at) /\ at[1] = 5 + len
  BY <1>2, <1>4
<1>9. PICK new : Laid(Stream', ms, new) /\ new[1] = at[1] - (4 + skip)
  <2> DEFINE d == 4 + skip
  <2>1. d < at[1]
    BY <1>4, <1>6, <1>18
  <2>2. Drops(Stream, Stream', d)
    BY <1>8
  <2> HIDE DEF d
  <2>3. \E f : Laid(Stream', ms, f) /\ f[1] = at[1] - d
    BY <1>3, <1>18, <2>1, <2>2, LaidDropped
  <2> QED
    BY <2>3 DEF d
<1>10. new[1] - 1 = len - skip /\ new[1] = (len - skip) + 1 /\ len - skip \in Nat
  BY <1>4, <1>6, <1>9, <1>18
<1>11. ASSUME mode' = "HEADER" PROVE Unmarked(Stream', new[1] - 1)
  <2>1. len = skip
    BY <1>1, <1>11
  <2>2. new[1] = 1
    BY <1>4, <1>10, <2>1
  <2> QED
    BY <2>2 DEF Unmarked
<1>12. Means(owed', ms) /\ owed' \in Seq(Meanings)
  BY <1>1, <1>2, OwedTail DEF ReaderInv
<1>13. mode' = "DISCARD" => buffer' = <<>> /\ new[1] = remainingDiscardBytes' + 1
  <2>1. SUFFICES ASSUME mode' = "DISCARD" PROVE buffer' = <<>> /\ new[1] = remainingDiscardBytes' + 1
    OBVIOUS
  <2>2. len # skip
    BY <1>1, <2>1
  <2>3. Len(buffer') = 0
    BY <1>6, <1>7, <2>2
  <2> QED
    BY <1>1, <1>7, <1>10, <2>3
<1>14. BeforeMessage(ms, new)'
  BY <1>9, <1>11, <1>12, <1>13, <1>18 DEF BeforeMessage
<1>15. PipeTyped'
  <2>1. /\ mode' \in {"HEADER", "PAYLOAD", "DISCARD"} /\ looping' \in BOOLEAN
        /\ frameTimer' \in BOOLEAN /\ bytes' \in Seq(Nat)
    BY <1>1 DEF ReaderInv, PipeTyped
  <2>2. currentType' \in Nat /\ currentPayloadLen' \in Nat /\ remainingDiscardBytes' \in Nat
    BY <1>1, <1>4, <1>10
  <2> QED
    BY <1>7, <1>12, <2>1, <2>2 DEF PipeTyped
<1>16. InPlace' /\ Settled'
  BY <1>1, <1>14 DEF InPlace, Settled, ReaderInv
<1>17. Pipe!Fifo!Lose
  BY <1>1, <1>2, Lost DEF ReaderInv
<1> QED
  BY <1>15, <1>16, <1>17 DEF ReaderInv

LEMMA TryReadHeaderKeeps ==
  ASSUME ReaderInv, Pipe!TryReadHeader
  PROVE  ReaderInv' /\ Same
<1>1. /\ mode = "HEADER" /\ Len(buffer) >= 4 /\ SubSeq(buffer, 1, 2) = <<Pipe!C, Pipe!M>>
      /\ currentType' = buffer[3] /\ currentPayloadLen' = buffer[4]
      /\ buffer' = SubSeq(buffer, 5, Len(buffer)) /\ mode' = "PAYLOAD"
      /\ frameTimer' = (frameTimer \/ currentType' = Pipe!FRAME) /\ looping' = (buffer' # <<>>)
      /\ UNCHANGED <<bytes, remainingDiscardBytes, owed, delivered>>
  BY DEF Pipe!TryReadHeader
<1>2. PICK w, ms, at :
           /\ w \in Pipe!Written /\ ms \in Seq(Pipe!Written) /\ w.type = buffer[3]
           /\ Len(w.payload) = buffer[4]
           /\ owed # <<>> /\ Head(owed) = Pipe!Meaning(w) /\ Means(Tail(owed), ms)
           /\ Laid(Stream, ms, at) /\ at[1] = 5 + Len(w.payload)
           /\ Len(Stream) >= 4 + Len(w.payload)
           /\ \A k \in 1 .. Len(w.payload) : Stream[4 + k] = w.payload[k]
  BY <1>1, HeaderInFront DEF ReaderInv
<1>3. buffer \in Seq(Nat) /\ bytes \in Seq(Nat) /\ Len(buffer) \in Nat /\ Stream \in Seq(Nat)
  BY StreamTyped DEF ReaderInv, PipeTyped
<1> DEFINE L == Len(w.payload)
<1>4. L \in Nat /\ w.type \in Nat
  BY <1>2, WrittenTyped
<1>5. ms \in Seq(Pipe!Written) /\ Laid(Stream, ms, at) /\ at[1] = 5 + L /\ Len(Stream) >= 4 + L
      /\ \A k \in 1 .. L : Stream[4 + k] = w.payload[k]
  BY <1>2
<1> HIDE DEF L
<1>6. buffer' \in Seq(Nat) /\ Drops(Stream, Stream', 4)
  <2>1. 4 \in 0 .. Len(buffer) /\ 4 \in Nat /\ 4 + 1 = 5 /\ Len(buffer) <= Len(buffer)
    BY <1>1, <1>3
  <2>2. SubSeq(buffer, 4 + 1, Len(buffer)) \in Seq(Nat)
    BY <1>1, <1>3, <2>1, Part
  <2>3. Drops(buffer \o bytes, SubSeq(buffer, 4 + 1, Len(buffer)) \o bytes, 4)
    BY <1>3, <2>1, BufferDrops
  <2> QED
    BY <1>1, <2>1, <2>2, <2>3 DEF Stream
<1>7. PICK new : Laid(Stream', ms, new) /\ new[1] = at[1] - 4
  <2>1. 4 < at[1]
    BY <1>4, <1>5
  <2> QED
    BY <1>3, <1>5, <1>6, <2>1, LaidDropped
<1>8. new[1] = L + 1
  BY <1>4, <1>5, <1>7
<1>9. \A k \in 1 .. L : Stream'[k] = w.payload[k]
  <2>1. SUFFICES ASSUME NEW k \in 1 .. L PROVE Stream'[k] = w.payload[k]
    OBVIOUS
  <2>2. Len(Stream') = Len(Stream) - 4 /\ Len(Stream) \in Nat
    BY <1>3, <1>6 DEF Drops
  <2>3. k \in 1 .. Len(Stream') /\ k + 4 = 4 + k
    BY <1>4, <1>5, <2>2
  <2>4. Stream'[k] = Stream[k + 4]
    BY <1>6, <2>3 DEF Drops
  <2> QED
    BY <1>5, <2>3, <2>4
<1>10. currentType' = w.type /\ currentPayloadLen' = L
  BY <1>1, <1>2 DEF L
<1>11. InMessage(w, ms, new)'
  <2>1. w \in Pipe!Written /\ owed' # <<>> /\ Head(owed') = Pipe!Meaning(w) /\ Means(Tail(owed'), ms)
    BY <1>1, <1>2
  <2> QED
    BY <1>5, <1>7, <1>8, <1>9, <1>10, <2>1 DEF InMessage, L
<1>12. PipeTyped'
  <2>1. looping' \in BOOLEAN /\ frameTimer' \in BOOLEAN /\ mode' \in {"HEADER", "PAYLOAD", "DISCARD"}
    BY <1>1 DEF ReaderInv, PipeTyped
  <2>2. remainingDiscardBytes' \in Nat /\ owed' \in Seq(Meanings) /\ bytes' \in Seq(Nat)
    BY <1>1 DEF ReaderInv, PipeTyped
  <2> QED
    BY <1>4, <1>6, <1>10, <2>1, <2>2 DEF PipeTyped
<1>13. Settled'
  <2>1. ~looping' => Len(buffer') <= currentPayloadLen'
    <3>1. ~looping' => Len(buffer') = 0
      BY <1>1, <1>6
    <3> QED
      BY <1>4, <1>10, <3>1
  <2>2. frameTimer' => currentType' = Pipe!FRAME
    BY <1>1 DEF ReaderInv, Settled
  <2> QED
    BY <1>1, <2>1, <2>2 DEF Settled
<1> QED
  BY <1>1, <1>11, <1>12, <1>13 DEF ReaderInv, InPlace, Same

(* What dispatch makes of a message that was written.                      *)
LEMMA DispatchedMeans ==
  ASSUME NEW w \in Pipe!Written
  PROVE  LET d == Pipe!Dispatched(w.type, w.payload) IN
         (d = <<>> => w.type = Pipe!FRAME) /\ (d # <<>> => d = <<Pipe!Meaning(w)>>)
<1> DEFINE d == Pipe!Dispatched(w.type, w.payload)
<1>1. w.type \in {Pipe!TEXT, Pipe!FRAME} /\ (w.type = Pipe!TEXT => w.payload \in Texts)
  BY WrittenTyped
<1>2. d = <<>> \/ \E x : d = <<x>>
  BY DEF Pipe!Dispatched
<1>3. w.type = Pipe!TEXT => d # <<>>
  BY <1>1, MessagesAssumption DEF MessagesAssumption, Pipe!Dispatched, Json
<1> HIDE DEF d
<1>4. d # <<>> => d = <<Head(d)>>
  BY <1>2
<1>5. d # <<>> => Pipe!Meaning(w) = Head(d)
  BY DEF Pipe!Meaning, d
<1> QED
  BY <1>1, <1>3, <1>4, <1>5 DEF d

LEMMA TryReadPayloadKeeps ==
  ASSUME ReaderInv, Pipe!TryReadPayload
  PROVE  ReaderInv' /\ (Pipe!Fifo!HandOver \/ Pipe!Fifo!Lose)
<1>1. /\ mode = "PAYLOAD" /\ Len(buffer) >= currentPayloadLen
      /\ buffer' = SubSeq(buffer, currentPayloadLen + 1, Len(buffer)) /\ mode' = "HEADER"
      /\ frameTimer' = (frameTimer /\ currentType # Pipe!FRAME) /\ looping' = (buffer' # <<>>)
      /\ owed' = SubSeq(owed, 2, Len(owed))
      /\ UNCHANGED <<bytes, currentType, currentPayloadLen, remainingDiscardBytes>>
  BY DEF Pipe!TryReadPayload
<1>2. PICK w, ms, at : InMessage(w, ms, at)
  BY <1>1 DEF ReaderInv, InPlace
<1>3. /\ ms \in Seq(Pipe!Written) /\ Laid(Stream, ms, at) /\ w \in Pipe!Written /\ owed # <<>>
      /\ Head(owed) = Pipe!Meaning(w) /\ Means(Tail(owed), ms) /\ at[1] = Len(w.payload) + 1
      /\ currentType = w.type /\ currentPayloadLen = Len(w.payload)
      /\ \A k \in 1 .. Len(w.payload) : Stream[k] = w.payload[k]
  BY <1>2 DEF InMessage
<1>4. /\ buffer \in Seq(Nat) /\ bytes \in Seq(Nat) /\ Len(buffer) \in Nat /\ Stream \in Seq(Nat)
      /\ \A i \in 1 .. Len(buffer) : Stream[i] = buffer[i]
  BY StreamTyped DEF ReaderInv, PipeTyped
<1>5. w.payload \in Seq(Nat) /\ Len(w.payload) \in Nat /\ Len(w.payload) = currentPayloadLen
  BY <1>3, WrittenTyped
<1>6. currentPayloadLen \in 0 .. Len(buffer) /\ currentPayloadLen \in Nat
  BY <1>1, <1>4, <1>5
<1>7. buffer' \in Seq(Nat) /\ Drops(Stream, Stream', currentPayloadLen)
  <2>1. buffer' \in Seq(Nat)
    BY <1>1, <1>4, <1>6, Part
  <2> QED
    BY <1>1, <1>4, <1>6, <2>1, BufferDrops DEF Stream
<1>8. PICK new : Laid(Stream', ms, new) /\ new[1] = at[1] - currentPayloadLen
  <2>1. currentPayloadLen < at[1]
    BY <1>3, <1>5
  <2>2. ms \in Seq(Pipe!Written) /\ Laid(Stream, ms, at) /\ Stream \in Seq(Nat)
    BY <1>3, <1>4
  <2> QED
    BY <1>7, <2>1, <2>2, LaidDropped
<1>9. new[1] = 1
  BY <1>3, <1>5, <1>8
<1>10. owed' = Tail(owed) /\ owed' \in Seq(Meanings)
  BY <1>1, <1>3, OwedTail DEF ReaderInv
<1>11. BeforeMessage(ms, new)'
  <2>1. Unmarked(Stream', new[1] - 1)
    BY <1>9 DEF Unmarked
  <2> QED
    BY <1>1, <1>3, <1>8, <1>10, <2>1 DEF BeforeMessage
<1>12. PipeTyped'
  BY <1>1, <1>7, <1>10 DEF ReaderInv, PipeTyped
<1>13. Settled'
  BY <1>1 DEF ReaderInv, Settled
<1>14. SubSeq(buffer, 1, currentPayloadLen) = w.payload
  <2> DEFINE p == SubSeq(buffer, 1, currentPayloadLen)
  <2>1. 0 \in Nat /\ 0 <= currentPayloadLen /\ currentPayloadLen <= Len(buffer) /\ 0 + 1 = 1
        /\ currentPayloadLen - 0 = currentPayloadLen
    BY <1>1, <1>6
  <2>2. /\ SubSeq(buffer, 0 + 1, currentPayloadLen) \in Seq(Nat)
        /\ Len(SubSeq(buffer, 0 + 1, currentPayloadLen)) = currentPayloadLen - 0
        /\ \A i \in 1 .. currentPayloadLen - 0 : SubSeq(buffer, 0 + 1, currentPayloadLen)[i] = buffer[i + 0]
    BY <1>4, <1>6, <2>1, Part
  <2>3. /\ p \in Seq(Nat) /\ Len(p) = currentPayloadLen
        /\ \A i \in 1 .. currentPayloadLen : p[i] = buffer[i + 0]
    BY <2>1, <2>2
  <2> HIDE DEF p
  <2>4. ASSUME NEW i \in 1 .. currentPayloadLen PROVE p[i] = w.payload[i]
    <3>1. i + 0 = i /\ i \in 1 .. Len(buffer) /\ i \in 1 .. Len(w.payload)
      BY <1>5, <1>6
    <3> QED
      BY <1>3, <1>4, <2>3, <3>1
  <2>5. p = w.payload
    BY <1>5, <2>3, <2>4, SeqEqual
  <2> QED
    BY <2>5 DEF p
<1> DEFINE d == Pipe!Dispatched(w.type, w.payload)
<1>15. delivered' = IF d = <<>> THEN delivered ELSE d
  BY <1>3, <1>14 DEF Pipe!TryReadPayload
<1>16. (d = <<>> => w.type = Pipe!FRAME) /\ (d # <<>> => d = <<Pipe!Meaning(w)>>)
  BY <1>3, DispatchedMeans
<1> HIDE DEF d
<1>17. CASE d = <<>>
  <2>1. w.type = Pipe!FRAME /\ delivered' = delivered
    BY <1>15, <1>16, <1>17
  <2> QED
    BY <1>1, <1>3, <1>11, <1>12, <1>13, <2>1, Lost DEF ReaderInv, InPlace
<1>18. CASE d # <<>>
  <2>1. delivered' = <<Head(owed)>>
    BY <1>3, <1>15, <1>16, <1>18
  <2>2. Pipe!Fifo!HandOver
    BY <1>3, <1>10, <2>1 DEF Pipe!Fifo!HandOver
  <2> QED
    BY <1>1, <1>11, <1>12, <1>13, <2>2 DEF ReaderInv, InPlace
<1> QED
  BY <1>17, <1>18

LEMMA FrameTimeoutKeeps ==
  ASSUME StallHypothesis, ReaderInv, Pipe!FrameTimeout
  PROVE  ReaderInv' /\ Pipe!Fifo!Lose
<1>1. /\ ~looping /\ frameTimer /\ buffer' = <<>> /\ mode' = "HEADER" /\ currentPayloadLen' = 0
      /\ remainingDiscardBytes' = 0 /\ frameTimer' = FALSE
      /\ owed' = SubSeq(owed, 2, Len(owed)) /\ UNCHANGED <<bytes, currentType, looping, delivered>>
  BY DEF Pipe!FrameTimeout, Pipe!Fresh
<1>2. mode = "PAYLOAD" /\ currentType = Pipe!FRAME /\ Len(buffer) <= currentPayloadLen
  BY <1>1 DEF ReaderInv, Settled
<1>3. PICK w, ms, at : InMessage(w, ms, at)
  BY <1>2 DEF ReaderInv, InPlace
<1>4. /\ ms \in Seq(Pipe!Written) /\ Laid(Stream, ms, at) /\ w \in Pipe!Written /\ owed # <<>>
      /\ Head(owed) = Pipe!Meaning(w) /\ Means(Tail(owed), ms) /\ at[1] = Len(w.payload) + 1
      /\ currentType = w.type /\ currentPayloadLen = Len(w.payload)
  BY <1>3 DEF InMessage
<1>5. /\ buffer \in Seq(Nat) /\ bytes \in Seq(Nat) /\ Len(buffer) \in Nat /\ Stream \in Seq(Nat)
      /\ Len(Stream) \in Nat
  BY StreamTyped DEF ReaderInv, PipeTyped
<1> DEFINE L == Len(w.payload)
           d == Len(buffer)
<1>6. w.type = Pipe!FRAME /\ w.payload \in Frames /\ L \in Nat /\ d \in 0 .. L /\ at[1] = L + 1
  BY <1>2, <1>4, <1>5, WrittenTyped
<1>7. Drops(Stream, Stream', d)
  <2>1. d \in 0 .. Len(buffer)
    BY <1>5
  <2>2. SubSeq(buffer, d + 1, Len(buffer)) = <<>>
    BY <1>5, SubSeqEmpty
  <2>3. Drops(buffer \o bytes, SubSeq(buffer, d + 1, Len(buffer)) \o bytes, d)
    BY <1>5, <2>1, BufferDrops
  <2> QED
    BY <1>1, <2>2, <2>3 DEF Stream
<1> HIDE DEF d, L
<1>9. PICK new : Laid(Stream', ms, new) /\ new[1] = at[1] - d
  <2>1. d < at[1]
    BY <1>6
  <2> QED
    BY <1>4, <1>5, <1>7, <2>1, LaidDropped
<1>10. Unmarked(Stream', new[1] - 1)
  <2>1. new[1] - 1 = L - d
    BY <1>6, <1>9
  <2>2. currentPayloadLen - Len(buffer) = L - d
    BY <1>4 DEF L, d
  <2>3. Stream' = bytes
    BY <1>1, <1>5, ConcatEmptySeq DEF Stream
  <2>4. Unmarked(bytes, currentPayloadLen - Len(buffer))
    BY DEF StallHypothesis
  <2> QED
    BY <2>1, <2>2, <2>3, <2>4
<1>11. owed' = Tail(owed) /\ owed' \in Seq(Meanings)
  BY <1>1, <1>4, OwedTail DEF ReaderInv
<1>12. BeforeMessage(ms, new)'
  BY <1>1, <1>4, <1>9, <1>10, <1>11 DEF BeforeMessage
<1>13. PipeTyped'
  <2>1. <<>> \in Seq(Nat)
    OBVIOUS
  <2> QED
    BY <1>1, <1>11, <2>1 DEF ReaderInv, PipeTyped
<1>14. InPlace' /\ Settled'
  BY <1>1, <1>12 DEF InPlace, Settled
<1>15. Pipe!Fifo!Lose
  BY <1>1, <1>4, <1>6, Lost DEF ReaderInv
<1> QED
  BY <1>13, <1>14, <1>15 DEF ReaderInv

-----------------------------------------------------------------------------
LEMMA PipeInit ==
  ASSUME Pipe!Init
  PROVE  ReaderInv /\ Pipe!Fifo!FifoInit
<1>1. /\ bytes = <<>> /\ buffer = <<>> /\ mode = "HEADER" /\ currentType = 0 /\ currentPayloadLen = 0
      /\ remainingDiscardBytes = 0 /\ frameTimer = FALSE /\ looping = FALSE /\ owed = <<>>
      /\ delivered = <<>>
  BY DEF Pipe!Init
<1>2. <<>> \in Seq(Nat) /\ <<>> \in Seq(Meanings) /\ <<>> \in Seq(Pipe!Written)
  OBVIOUS
<1>3. PipeTyped /\ Settled
  <2>1. PipeTyped
    BY <1>1, <1>2 DEF PipeTyped
  <2> QED
    BY <1>1, <2>1 DEF Settled
<1>4. Stream = <<>>
  BY <1>1, <1>2, ConcatEmptySeq DEF Stream
<1>5. BeforeMessage(<<>>, [i \in 1 .. Len(<<>>) + 1 |-> 1])
  BY <1>1, <1>2, <1>4, NothingLaid DEF BeforeMessage
<1> QED
  BY <1>1, <1>3, <1>5 DEF ReaderInv, InPlace, Pipe!Fifo!FifoInit

LEMMA PipeNext ==
  ASSUME StallHypothesis, ReaderInv, Pipe!Next
  PROVE  ReaderInv' /\ [Pipe!Fifo!FifoNext]_(Pipe!Fifo!fifoVars)
<1>1. CASE Pipe!LoopEnds
  BY <1>1, LoopEndsKeeps DEF Same, Pipe!Fifo!fifoVars
<1>2. CASE Pipe!Resync
  BY <1>2, ResyncKeeps DEF Same, Pipe!Fifo!fifoVars
<1>3. CASE Pipe!SkipOversized
  BY <1>3, SkipOversizedKeeps DEF Pipe!Fifo!FifoNext
<1>4. CASE Pipe!TryReadHeader
  BY <1>4, TryReadHeaderKeeps DEF Same, Pipe!Fifo!fifoVars
<1>5. CASE Pipe!TryReadPayload
  BY <1>5, TryReadPayloadKeeps DEF Pipe!Fifo!FifoNext
<1>6. CASE Pipe!Receive
  BY <1>6, HandleDataKeeps DEF Same, Pipe!Fifo!fifoVars, Pipe!Receive
<1>7. CASE Pipe!FrameTimeout
  BY <1>7, FrameTimeoutKeeps DEF Pipe!Fifo!FifoNext
<1>8. CASE Pipe!Reset
  BY <1>8, ResetKeeps DEF Pipe!Fifo!FifoNext
<1>9. ASSUME NEW w \in Pipe!Written, Pipe!Send(w)
      PROVE  ReaderInv' /\ [Pipe!Fifo!FifoNext]_(Pipe!Fifo!fifoVars)
  <2>1. ReaderInv' /\ Pipe!Fifo!Write(Pipe!Meaning(w))
    BY <1>9, SendKeeps
  <2> QED
    BY <2>1 DEF Pipe!Fifo!FifoNext
<1> QED
  BY <1>1, <1>2, <1>3, <1>4, <1>5, <1>6, <1>7, <1>8, <1>9 DEF Pipe!Next, Pipe!Consume

LEMMA PipeStutters ==
  ASSUME ReaderInv, UNCHANGED Pipe!vars
  PROVE  ReaderInv' /\ [Pipe!Fifo!FifoNext]_(Pipe!Fifo!fifoVars)
<1>1. UNCHANGED <<bytes, buffer, mode, currentType, currentPayloadLen, remainingDiscardBytes,
                  frameTimer, looping, owed, delivered>>
  BY DEF Pipe!vars
<1>2. Stream' = Stream
  BY <1>1 DEF Stream
<1>3. PipeTyped' /\ Settled'
  BY <1>1 DEF ReaderInv, PipeTyped, Settled
<1>4. InPlace'
  BY <1>1, <1>2 DEF ReaderInv, InPlace, BeforeMessage, InMessage
<1> QED
  BY <1>1, <1>3, <1>4 DEF ReaderInv, Pipe!Fifo!fifoVars

(* The instance has the codec and the promise of PipeMessages.             *)
LEMMA SamePromise == Pipe!Fifo!FifoSpec => DeliversInOrder
<1>1. Pipe!Written = Written
  BY DEF Pipe!Written, Written, TEXT, FRAME
<1>2. ASSUME NEW w PROVE Pipe!Meaning(w) = Meaning(w)
  BY DEF Pipe!Meaning, Meaning, Pipe!Dispatched, Dispatched, Pipe!Picture, Picture, Pipe!MinFrame, MinFrame,
     Pipe!SOI, SOI, Pipe!EOI, EOI, Json, TEXT, FRAME
<1>3. Pipe!Fifo!FifoInit => Fifo!FifoInit
  BY DEF Pipe!Fifo!FifoInit, Fifo!FifoInit
<1>4. {Pipe!Meaning(w) : w \in Pipe!Written} = {Meaning(w) : w \in Written}
  BY <1>1, <1>2
<1>5. {Pipe!Meaning(w) : w \in {x \in Pipe!Written : x.type = Pipe!FRAME}}
      = {Meaning(w) : w \in {x \in Written : x.type = FRAME}}
  BY <1>1, <1>2 DEF FRAME
<1>6. [Pipe!Fifo!FifoNext]_(Pipe!Fifo!fifoVars) => [Fifo!FifoNext]_(Fifo!fifoVars)
  <2>1. Pipe!Fifo!HandOver => Fifo!HandOver
    BY DEF Pipe!Fifo!HandOver, Fifo!HandOver
  <2>2. Pipe!Fifo!Lose => Fifo!Lose
    BY <1>5 DEF Pipe!Fifo!Lose, Fifo!Lose
  <2>3. Pipe!Fifo!Disconnect => Fifo!Disconnect
    BY DEF Pipe!Fifo!Disconnect, Fifo!Disconnect
  <2>4. \A m : Pipe!Fifo!Write(m) => Fifo!Write(m)
    BY DEF Pipe!Fifo!Write, Fifo!Write
  <2>5. UNCHANGED Pipe!Fifo!fifoVars => UNCHANGED Fifo!fifoVars
    BY DEF Pipe!Fifo!fifoVars, Fifo!fifoVars
  <2> QED
    BY <1>4, <2>1, <2>2, <2>3, <2>4, <2>5 DEF Pipe!Fifo!FifoNext, Fifo!FifoNext
<1> QED
  BY <1>3, <1>6, PTL DEF Pipe!Fifo!FifoSpec, Fifo!FifoSpec, DeliversInOrder

(* Whatever the chunks, and however long frames stall, the reader hands    *)
(* over the messages in order, once and unchanged, and drops none but      *)
(* frames, as long as no frame is given up that has the magic to bring.    *)
THEOREM MessagesArriveInOrder ==
  Pipe!Spec /\ [][StallHypothesis]_(Pipe!vars) => DeliversInOrder
<1>1. Pipe!Init => ReaderInv /\ Pipe!Fifo!FifoInit
  BY PipeInit
<1>2. ReaderInv /\ [Pipe!Next]_(Pipe!vars) /\ [StallHypothesis]_(Pipe!vars)
      => ReaderInv' /\ [Pipe!Fifo!FifoNext]_(Pipe!Fifo!fifoVars)
  BY PipeNext, PipeStutters
<1> QED
  BY <1>1, <1>2, SamePromise, PTL DEF Pipe!Spec, Pipe!Fifo!FifoSpec

=============================================================================
