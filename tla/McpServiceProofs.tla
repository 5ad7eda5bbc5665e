-------------------------- MODULE McpServiceProofs --------------------------
(***************************************************************************)
(* Theorems about McpService, for any windows, processes and ports: no     *)
(* window loses track of a service it started, and a window at rest has    *)
(* the address of one with the settings in force.                          *)
(*                                                                         *)
(* A window spawns a service only when it has no child: a start begins     *)
(* without one, and goes on to another process when that of the first is   *)
(* told to end or gone.  The settings that a start uses are those of the   *)
(* window unless a restart is to follow.                                   *)
(***************************************************************************)
EXTENDS McpService, TLAPS

-----------------------------------------------------------------------------
(* The inductive invariant.                                                *)
Processes == [state : {"none", "new", "up", "ending", "exited"}, owner : Windows \cup {None},
              cfg : Nat, port : Ports \cup {None}]

WindowTyped ==
  /\ status \in [Windows -> {"off", "starting", "on", "disposed"}]
  /\ view \in [Windows -> Nat] /\ env \in [Windows -> Nat]
  /\ op \in [Windows -> {"idle", "probe", "saved", "any", "save"}]
  /\ pref \in [Windows -> Ports \cup {None}]
  /\ awaited \in [Windows -> Services \cup {None}] /\ child \in [Windows -> Services \cup {None}]
  /\ conn \in [Windows -> Connections \cup {None}]
  /\ restart \in [Windows -> {"no", "wait", "stop", "start"}]
FlagsTyped  == timer \in [Windows -> BOOLEAN] /\ again \in [Windows -> BOOLEAN]
SharedTyped == config \in Nat /\ savedPort \in Ports \cup {None} /\ proc \in [Services -> Processes]
Typed == WindowTyped /\ FlagsTyped /\ SharedTyped

(* When a window has a child, an address and a timer.                      *)
Flow(w) ==
  /\ conn[w] # None => op[w] = "idle" /\ ~timer[w] /\ restart[w] \in {"no", "wait"}
  /\ timer[w] => op[w] = "idle" /\ child[w] = None
  /\ op[w] = "probe" => child[w] = None
  /\ op[w] \in {"saved", "any", "save"} => awaited[w] \in Services /\ child[w] \in {awaited[w], None}
  /\ restart[w] = "stop" => op[w] = "idle" /\ ~timer[w] /\ child[w] = None
  /\ restart[w] = "start" => op[w] # "idle"
  /\ status[w] = "off" => /\ op[w] = "idle" /\ restart[w] = "no" /\ ~timer[w]
                          /\ child[w] = None /\ conn[w] = None

Owned(p) == \A s \in Services : p[s].state # "none" => p[s].owner \in Windows

IInv == Typed /\ (\A w \in Windows : Flow(w)) /\ Owned(proc) /\ NoForgottenService

(* The settings a start uses, and those of the service it found.           *)
Current(w) ==
  /\ status[w] = "on" /\ op[w] = "idle" /\ restart[w] = "no" /\ ~timer[w] =>
       conn[w] # None /\ conn[w].cfg = view[w]
  /\ op[w] # "idle" /\ restart[w] # "wait" /\ ~(restart[w] = "start" /\ again[w]) =>
       Disposed(w) \/ env[w] = view[w]
  /\ status[w] = "starting" => view[w] = config

AllCurrent == \A w \in Windows : Current(w)

-----------------------------------------------------------------------------
(* A window that a step leaves alone.                                      *)
Untouched(v) ==
  /\ status'[v] = status[v] /\ view'[v] = view[v] /\ op'[v] = op[v] /\ env'[v] = env[v]
  /\ awaited'[v] = awaited[v] /\ child'[v] = child[v] /\ conn'[v] = conn[v]
  /\ timer'[v] = timer[v] /\ restart'[v] = restart[v] /\ again'[v] = again[v]

LEMMA UntouchedKeeps ==
  ASSUME NEW v \in Windows, Untouched(v)
  PROVE  /\ Flow(v) => Flow(v)'
         /\ Current(v) /\ UNCHANGED config => Current(v)'
BY DEF Untouched, Flow, Current, Disposed

(* The processes that were not told to end stay with their windows.        *)
Subsides(p) ==
  \A s \in Services : p[s].state \in {"new", "up"} =>
    proc[s].state \in {"new", "up"} /\ p[s].owner = proc[s].owner

LEMMA KillSubsides ==
  ASSUME SharedTyped, NEW s \in Services \cup {None}
  PROVE  /\ Kill(s) \in [Services -> Processes] /\ Subsides(Kill(s))
         /\ s # None => Kill(s)[s].state \notin {"new", "up"}
<1>1. ASSUME s # None, Running(s)
      PROVE  /\ Kill(s) \in [Services -> Processes] /\ Subsides(Kill(s))
             /\ Kill(s)[s].state = "ending"
  <2> DEFINE q == [proc[s] EXCEPT !.state = "ending", !.port = None]
  <2>1. q \in Processes /\ q.state = "ending"
    BY <1>1 DEF SharedTyped, Processes
  <2>2. Kill(s) = [proc EXCEPT ![s] = q]
    BY <1>1 DEF Kill, SharedTyped
  <2> HIDE DEF q
  <2> QED
    BY <1>1, <2>1, <2>2 DEF SharedTyped, Subsides
<1>2. ASSUME ~(s # None /\ Running(s))
      PROVE  Kill(s) = proc
  BY <1>2 DEF Kill
<1> QED
  BY <1>1, <1>2 DEF SharedTyped, Subsides, Running

LEMMA KillOwned ==
  ASSUME SharedTyped, Owned(proc), NEW s \in Services \cup {None}
  PROVE  Owned(Kill(s))
<1>1. CASE s # None /\ Running(s)
  <2> DEFINE q == [proc[s] EXCEPT !.state = "ending", !.port = None]
  <2>1. q.owner = proc[s].owner /\ proc[s].state # "none"
    BY <1>1 DEF SharedTyped, Processes, Running
  <2>2. Kill(s) = [proc EXCEPT ![s] = q]
    BY <1>1 DEF Kill, SharedTyped
  <2> HIDE DEF q
  <2> QED
    BY <1>1, <2>1, <2>2 DEF SharedTyped, Owned
<1>2. CASE ~(s # None /\ Running(s))
  BY <1>2 DEF Kill
<1> QED
  BY <1>1, <1>2

LEMMA GoneSubsides ==
  ASSUME SharedTyped, NEW s \in Services
  PROVE  /\ [proc EXCEPT ![s] = NoProc] \in [Services -> Processes]
         /\ Subsides([proc EXCEPT ![s] = NoProc])
         /\ [proc EXCEPT ![s] = NoProc][s].state \notin {"new", "up"}
BY DEF SharedTyped, Subsides, NoProc, Processes

(* When processes end, and a window keeps its child unless it is closed.   *)
LEMMA EndsKeep ==
  ASSUME NoForgottenService, Owned(proc), Subsides(proc'),
         \A w \in Windows : Disposed(w) => Disposed(w)',
         \A s \in Services, w \in Windows :
           proc'[s].state \in {"new", "up"} /\ child[w] = s => child'[w] = s \/ Disposed(w)'
  PROVE  NoForgottenService'
BY DEF NoForgottenService, Subsides, Owned

-----------------------------------------------------------------------------
(* A window without a service of its own spawns one.                       *)
LEMMA StartChildDoes ==
  ASSUME WindowTyped, SharedTyped, NoForgottenService, NEW w \in Windows,
         NEW p \in [Services -> Processes], Subsides(p), Owned(p),
         \A s \in Services : p[s].state \in {"new", "up"} /\ p[s].owner = w => Disposed(w),
         NEW port \in Ports \cup {None}, NEW stage \in {"saved", "any"},
         StartChild(w, p, port, stage)
  PROVE  /\ child' \in [Windows -> Services \cup {None}] /\ awaited' \in [Windows -> Services \cup {None}]
         /\ op' = [op EXCEPT ![w] = stage] /\ op' \in [Windows -> {"idle", "probe", "saved", "any", "save"}]
         /\ child'[w] \in Services /\ awaited'[w] = child'[w]
         /\ \A v \in Windows \ {w} : child'[v] = child[v] /\ awaited'[v] = awaited[v]
         /\ UNCHANGED <<status, env, pref, restart, again, timer>>
         /\ proc' \in [Services -> Processes] /\ Owned(proc') /\ NoForgottenService'
<1> DEFINE s == CHOOSE t \in Services : p[t].state = "none"
           q == [state |-> "new", owner |-> w, cfg |-> env[w], port |-> port]
<1>1. /\ s \in Services /\ p[s].state = "none"
      /\ proc' = [p EXCEPT ![s] = q]
      /\ child' = [child EXCEPT ![w] = s] /\ awaited' = [awaited EXCEPT ![w] = s]
      /\ op' = [op EXCEPT ![w] = stage]
      /\ UNCHANGED <<status, env, pref, restart, again, timer>>
  BY DEF StartChild
<1>2. q \in Processes /\ q.state = "new" /\ q.owner = w
  BY DEF WindowTyped, Processes
<1> HIDE DEF s, q
<1>3. /\ proc' \in [Services -> Processes] /\ proc'[s] = q
      /\ \A t \in Services : t # s => proc'[t] = p[t]
  BY <1>1, <1>2
<1>4. /\ child' \in [Windows -> Services \cup {None}] /\ child'[w] = s
      /\ \A v \in Windows \ {w} : child'[v] = child[v]
  BY <1>1 DEF WindowTyped
<1>5. /\ awaited' \in [Windows -> Services \cup {None}] /\ awaited'[w] = s
      /\ \A v \in Windows \ {w} : awaited'[v] = awaited[v]
  BY <1>1 DEF WindowTyped
<1>6. op' \in [Windows -> {"idle", "probe", "saved", "any", "save"}]
  BY <1>1 DEF WindowTyped
<1>7. Owned(proc')
  BY <1>2, <1>3 DEF Owned
<1>8. NoForgottenService'
  <2> SUFFICES ASSUME NEW t \in Services, proc'[t].state \in {"new", "up"}
               PROVE  Disposed(proc[t].owner)' \/ child'[proc'[t].owner] = t
    BY DEF NoForgottenService, Disposed
  <2>1. CASE t = s
    BY <1>2, <1>3, <1>4, <2>1
  <2>2. CASE t # s
    <3>1. /\ p[t].state \in {"new", "up"} /\ proc'[t] = p[t] /\ proc[t].state \in {"new", "up"}
          /\ p[t].owner = proc[t].owner /\ p[t].owner \in Windows
      BY <1>3, <2>2 DEF Subsides, Owned
    <3>2. Disposed(p[t].owner) \/ child[p[t].owner] = t
      BY <3>1 DEF NoForgottenService
    <3>3. p[t].owner = w => Disposed(w)
      BY <3>1
    <3> QED
      BY <1>1, <1>4, <3>1, <3>2, <3>3 DEF Disposed
  <2> QED
    BY <2>1, <2>2
<1> QED
  BY <1>1, <1>3, <1>4, <1>5, <1>6, <1>7, <1>8

(* A start settles.                                                        *)
LEMMA SettleDoes ==
  ASSUME WindowTyped, FlagsTyped, NEW w \in Windows, Settle(w)
  PROVE  /\ op' \in [Windows -> {"idle", "probe", "saved", "any", "save"}]
         /\ again' \in [Windows -> BOOLEAN] /\ env' \in [Windows -> Nat]
         /\ awaited' \in [Windows -> Services \cup {None}]
         /\ status' \in [Windows -> {"off", "starting", "on", "disposed"}]
         /\ restart' \in [Windows -> {"no", "wait", "stop", "start"}]
         /\ op'[w] = "idle" /\ status'[w] = IF Disposed(w) THEN "disposed" ELSE "on"
         /\ restart'[w] = IF restart[w] = "wait" \/ (restart[w] = "start" /\ again[w]) THEN "wait" ELSE "no"
         /\ \A v \in Windows \ {w} :
              /\ op'[v] = op[v] /\ again'[v] = again[v] /\ env'[v] = env[v]
              /\ awaited'[v] = awaited[v] /\ status'[v] = status[v] /\ restart'[v] = restart[v]
<1>1. again' \in [Windows -> BOOLEAN] /\ \A v \in Windows \ {w} : again'[v] = again[v]
  BY DEF Settle, FlagsTyped
<1>2. /\ op' \in [Windows -> {"idle", "probe", "saved", "any", "save"}] /\ env' \in [Windows -> Nat]
      /\ awaited' \in [Windows -> Services \cup {None}]
      /\ op'[w] = "idle"
      /\ \A v \in Windows \ {w} : op'[v] = op[v] /\ env'[v] = env[v] /\ awaited'[v] = awaited[v]
  BY DEF Settle, WindowTyped
<1>3. /\ status' \in [Windows -> {"off", "starting", "on", "disposed"}]
      /\ status'[w] = IF Disposed(w) THEN "disposed" ELSE "on"
      /\ \A v \in Windows \ {w} : status'[v] = status[v]
  BY DEF Settle, WindowTyped, Disposed
<1> DEFINE r == IF restart[w] = "wait" \/ (restart[w] = "start" /\ again[w]) THEN "wait" ELSE "no"
<1>4. restart' = [restart EXCEPT ![w] = r]
  BY DEF Settle
<1>5. r \in {"no", "wait", "stop", "start"}
  OBVIOUS
<1>6. /\ restart' \in [Windows -> {"no", "wait", "stop", "start"}] /\ restart'[w] = r
      /\ \A v \in Windows \ {w} : restart'[v] = restart[v]
  BY <1>4, <1>5 DEF WindowTyped
<1> QED
  BY <1>1, <1>2, <1>3, <1>6

LEMMA RejectDoes ==
  ASSUME WindowTyped, FlagsTyped, NEW w \in Windows, Reject(w)
  PROVE  /\ timer' \in [Windows -> BOOLEAN] /\ timer'[w] = ~Disposed(w)
         /\ \A v \in Windows \ {w} : timer'[v] = timer[v]
         /\ UNCHANGED <<conn, pref>> /\ Settle(w)
BY DEF Reject, ScheduleRestart, FlagsTyped

(* The steps that end a start, with what is left of the processes.         *)
LEMMA ResolveKeeps ==
  ASSUME IInv, NEW w \in Windows, op[w] # "idle", NEW c \in Connections, Resolve(w, c),
         UNCHANGED <<config, savedPort, view>>
  PROVE  IInv' /\ (AllCurrent /\ c.cfg = env[w] => AllCurrent')
<1>1. /\ op' \in [Windows -> {"idle", "probe", "saved", "any", "save"}]
      /\ again' \in [Windows -> BOOLEAN] /\ env' \in [Windows -> Nat]
      /\ awaited' \in [Windows -> Services \cup {None}]
      /\ status' \in [Windows -> {"off", "starting", "on", "disposed"}]
      /\ restart' \in [Windows -> {"no", "wait", "stop", "start"}]
      /\ op'[w] = "idle" /\ status'[w] = IF Disposed(w) THEN "disposed" ELSE "on"
      /\ restart'[w] = IF restart[w] = "wait" \/ (restart[w] = "start" /\ again[w]) THEN "wait" ELSE "no"
      /\ \A v \in Windows \ {w} :
           /\ op'[v] = op[v] /\ again'[v] = again[v] /\ env'[v] = env[v]
           /\ awaited'[v] = awaited[v] /\ status'[v] = status[v] /\ restart'[v] = restart[v]
  BY SettleDoes DEF Resolve, IInv, Typed
<1>2. /\ conn' \in [Windows -> Connections \cup {None}] /\ conn'[w] = c
      /\ \A v \in Windows \ {w} : conn'[v] = conn[v]
      /\ pref' \in [Windows -> Ports \cup {None}] /\ UNCHANGED <<timer, child, proc>>
  BY DEF Resolve, IInv, Typed, WindowTyped
<1>3. Typed'
  BY <1>1, <1>2 DEF IInv, Typed, WindowTyped, FlagsTyped, SharedTyped
<1>4. \A v \in Windows \ {w} : Untouched(v)
  BY <1>1, <1>2 DEF Untouched
<1>5. Flow(w) /\ ~timer[w] /\ conn[w] = None
  BY DEF IInv, Flow
<1>6. Flow(w)'
  BY <1>1, <1>2, <1>5 DEF Flow
<1>7. \A v \in Windows : Flow(v)'
  BY <1>4, <1>6, UntouchedKeeps DEF IInv
<1>8. Owned(proc)' /\ NoForgottenService'
  BY <1>1, <1>2 DEF IInv, Owned, NoForgottenService, Disposed
<1>9. ASSUME AllCurrent, c.cfg = env[w] PROVE AllCurrent'
  <2>1. Current(w)'
    <3>1. restart[w] # "stop" /\ c # None
      BY <1>5, NoneAssumption DEF Flow
    <3>2. Current(w)
      BY <1>9 DEF AllCurrent
    <3> QED
      BY <1>1, <1>2, <1>5, <1>9, <3>1, <3>2 DEF Current, Disposed
  <2> QED
    BY <1>4, <1>9, <2>1, UntouchedKeeps DEF AllCurrent
<1> QED
  BY <1>3, <1>7, <1>8, <1>9 DEF IInv

LEMMA RejectKeeps ==
  ASSUME IInv, NEW w \in Windows, op[w] # "idle", Reject(w), UNCHANGED <<config, savedPort, view>>,
         child' \in [Windows -> Services \cup {None}], child'[w] = None,
         \A v \in Windows \ {w} : child'[v] = child[v],
         proc' \in [Services -> Processes], Subsides(proc'), Owned(proc'),
         \A s \in Services : child[w] = s => proc'[s].state \notin {"new", "up"}
  PROVE  IInv' /\ (AllCurrent => AllCurrent')
<1>1. /\ op' \in [Windows -> {"idle", "probe", "saved", "any", "save"}]
      /\ again' \in [Windows -> BOOLEAN] /\ env' \in [Windows -> Nat]
      /\ awaited' \in [Windows -> Services \cup {None}]
      /\ status' \in [Windows -> {"off", "starting", "on", "disposed"}]
      /\ restart' \in [Windows -> {"no", "wait", "stop", "start"}]
      /\ op'[w] = "idle" /\ status'[w] = IF Disposed(w) THEN "disposed" ELSE "on"
      /\ restart'[w] = IF restart[w] = "wait" \/ (restart[w] = "start" /\ again[w]) THEN "wait" ELSE "no"
      /\ \A v \in Windows \ {w} :
           /\ op'[v] = op[v] /\ again'[v] = again[v] /\ env'[v] = env[v]
           /\ awaited'[v] = awaited[v] /\ status'[v] = status[v] /\ restart'[v] = restart[v]
  BY RejectDoes, SettleDoes DEF IInv, Typed
<1>2. /\ timer' \in [Windows -> BOOLEAN] /\ timer'[w] = ~Disposed(w)
      /\ \A v \in Windows \ {w} : timer'[v] = timer[v]
      /\ UNCHANGED <<conn, pref>>
  BY RejectDoes DEF IInv, Typed
<1>3. Typed'
  BY <1>1, <1>2 DEF IInv, Typed, WindowTyped, FlagsTyped, SharedTyped
<1>4. \A v \in Windows \ {w} : Untouched(v)
  BY <1>1, <1>2 DEF Untouched
<1>5. Flow(w) /\ ~timer[w] /\ conn[w] = None
  BY DEF IInv, Flow
<1>6. Flow(w)'
  BY <1>1, <1>2, <1>5 DEF Flow
<1>7. \A v \in Windows : Flow(v)'
  BY <1>4, <1>6, UntouchedKeeps DEF IInv
<1>8. NoForgottenService'
  <2>1. \A v \in Windows : Disposed(v) => Disposed(v)'
    BY <1>1 DEF Disposed
  <2>2. \A s \in Services, v \in Windows :
           proc'[s].state \in {"new", "up"} /\ child[v] = s => child'[v] = s \/ Disposed(v)'
    OBVIOUS
  <2> QED
    BY <2>1, <2>2, EndsKeep DEF IInv
<1>9. ASSUME AllCurrent PROVE AllCurrent'
  <2>1. Current(w)'
    <3>1. Current(w)
      BY <1>9 DEF AllCurrent
    <3> QED
      BY <1>1, <1>2, <3>1 DEF Current, Disposed
  <2> QED
    BY <1>4, <1>9, <2>1, UntouchedKeeps DEF AllCurrent
<1> QED
  BY <1>3, <1>7, <1>8, <1>9 DEF IInv

(* The steps that go on to a process of the window.                        *)
LEMMA SpawnKeeps ==
  ASSUME IInv, NEW w \in Windows, op[w] \in {"probe", "saved"},
         NEW p \in [Services -> Processes], Subsides(p), Owned(p),
         \A s \in Services : p[s].state \in {"new", "up"} => child[w] # s,
         NEW port \in Ports \cup {None}, NEW stage \in {"saved", "any"},
         StartChild(w, p, port, stage), UNCHANGED <<config, savedPort, view, conn>>
  PROVE  IInv' /\ (AllCurrent => AllCurrent')
<1>1. \A s \in Services : p[s].state \in {"new", "up"} /\ p[s].owner = w => Disposed(w)
  BY DEF IInv, NoForgottenService, Subsides
<1>2. /\ child' \in [Windows -> Services \cup {None}] /\ awaited' \in [Windows -> Services \cup {None}]
      /\ op' = [op EXCEPT ![w] = stage] /\ op' \in [Windows -> {"idle", "probe", "saved", "any", "save"}]
      /\ child'[w] \in Services /\ awaited'[w] = child'[w]
      /\ \A v \in Windows \ {w} : child'[v] = child[v] /\ awaited'[v] = awaited[v]
      /\ UNCHANGED <<status, env, pref, restart, again, timer>>
      /\ proc' \in [Services -> Processes] /\ Owned(proc') /\ NoForgottenService'
  BY <1>1, StartChildDoes DEF IInv, Typed
<1>3. Typed'
  BY <1>2 DEF IInv, Typed, WindowTyped, FlagsTyped, SharedTyped
<1>4. op'[w] = stage /\ \A v \in Windows \ {w} : op'[v] = op[v]
  BY <1>2 DEF IInv, Typed, WindowTyped
<1>5. \A v \in Windows \ {w} : Untouched(v)
  BY <1>2, <1>4 DEF Untouched
<1>6. Flow(w)'
  BY <1>2, <1>4 DEF IInv, Flow
<1>7. \A v \in Windows : Flow(v)'
  BY <1>5, <1>6, UntouchedKeeps DEF IInv
<1>8. ASSUME AllCurrent PROVE AllCurrent'
  <2>1. Current(w)'
    BY <1>2, <1>4, <1>8 DEF AllCurrent, Current, Disposed
  <2> QED
    BY <1>5, <1>8, <2>1, UntouchedKeeps DEF AllCurrent
<1> QED
  BY <1>2, <1>3, <1>7, <1>8 DEF IInv

LEMMA StartFailsKeeps ==
  ASSUME IInv, NEW w \in Windows, op[w] \in {"saved", "any"},
         NEW p \in [Services -> Processes], Subsides(p), Owned(p),
         p[awaited[w]].state \notin {"new", "up"},
         StartFails(w, p), UNCHANGED <<config, savedPort, view>>
  PROVE  IInv' /\ (AllCurrent => AllCurrent')
<1>1. child[w] \in {awaited[w], None} /\ None \notin Services
  BY NoneAssumption DEF IInv, Flow
<1>2. CASE op[w] = "saved"
  <2>1. StartChild(w, p, None, "any") /\ UNCHANGED conn
    BY <1>2 DEF StartFails
  <2>2. \A s \in Services : p[s].state \in {"new", "up"} => child[w] # s
    BY <1>1
  <2> QED
    BY <1>2, <2>1, <2>2, SpawnKeeps
<1>3. CASE op[w] = "any"
  <2>1. child' = [child EXCEPT ![w] = None] /\ proc' = p /\ Reject(w)
    BY <1>3 DEF StartFails
  <2>2. /\ child' \in [Windows -> Services \cup {None}] /\ child'[w] = None
        /\ \A v \in Windows \ {w} : child'[v] = child[v]
    BY <2>1 DEF IInv, Typed, WindowTyped
  <2> QED
    BY <1>1, <1>3, <2>1, <2>2, RejectKeeps
<1> QED
  BY <1>2, <1>3

-----------------------------------------------------------------------------
(* The steps of a start.                                                   *)
LEMMA BeginStartDoes ==
  ASSUME WindowTyped, savedPort \in Ports \cup {None}, NEW w \in Windows, NEW port \in Ports \cup {None},
         view' \in [Windows -> Nat], BeginStart(w, port)
  PROVE  /\ env' \in [Windows -> Nat] /\ pref' \in [Windows -> Ports \cup {None}]
         /\ op' \in [Windows -> {"idle", "probe", "saved", "any", "save"}]
         /\ env'[w] = view'[w] /\ op'[w] = "probe"
         /\ \A v \in Windows \ {w} : env'[v] = env[v] /\ op'[v] = op[v]
BY DEF BeginStart, WindowTyped

LEMMA StartKeeps ==
  ASSUME IInv, NEW w \in Windows, Start(w)
  PROVE  IInv' /\ (AllCurrent => AllCurrent')
<1>1. /\ status[w] = "off" /\ status' = [status EXCEPT ![w] = "starting"]
      /\ view' = [view EXCEPT ![w] = config] /\ BeginStart(w, None)
      /\ UNCHANGED <<config, savedPort, awaited, child, conn, timer, restart, again, proc>>
  BY DEF Start
<1>2. view' \in [Windows -> Nat] /\ view'[w] = config /\ \A v \in Windows \ {w} : view'[v] = view[v]
  BY <1>1 DEF IInv, Typed, WindowTyped, SharedTyped
<1>3. /\ env' \in [Windows -> Nat] /\ pref' \in [Windows -> Ports \cup {None}]
      /\ op' \in [Windows -> {"idle", "probe", "saved", "any", "save"}]
      /\ env'[w] = view'[w] /\ op'[w] = "probe"
      /\ \A v \in Windows \ {w} : env'[v] = env[v] /\ op'[v] = op[v]
  BY <1>1, <1>2, BeginStartDoes DEF IInv, Typed, SharedTyped
<1>4. /\ status' \in [Windows -> {"off", "starting", "on", "disposed"}] /\ status'[w] = "starting"
      /\ \A v \in Windows \ {w} : status'[v] = status[v]
  BY <1>1 DEF IInv, Typed, WindowTyped
<1>5. Typed'
  BY <1>1, <1>2, <1>3, <1>4 DEF IInv, Typed, WindowTyped, FlagsTyped, SharedTyped
<1>6. \A v \in Windows \ {w} : Untouched(v)
  BY <1>1, <1>2, <1>3, <1>4 DEF Untouched
<1>7. Flow(w)' /\ Current(w)'
  BY <1>1, <1>2, <1>3, <1>4 DEF IInv, Flow, Current, Disposed
<1>8. Owned(proc)' /\ NoForgottenService'
  BY <1>1, <1>4 DEF IInv, Owned, NoForgottenService, Disposed
<1> QED
  BY <1>1, <1>5, <1>6, <1>7, <1>8, UntouchedKeeps DEF IInv, AllCurrent

LEMMA ProbeKeeps ==
  ASSUME IInv, NEW w \in Windows, ProbeHttpService(w)
  PROVE  IInv' /\ (AllCurrent => AllCurrent')
<1>1. op[w] = "probe" /\ restart[w] # "stop" /\ UNCHANGED <<config, savedPort, view>>
  BY DEF ProbeHttpService
<1>2. child[w] = None /\ pref[w] \in Ports \cup {None} /\ env[w] \in Nat
  BY <1>1 DEF IInv, Flow, Typed, WindowTyped
<1>3. CASE Resolve(w, [port |-> pref[w], cfg |-> env[w], own |-> None])
  <2> DEFINE c == [port |-> pref[w], cfg |-> env[w], own |-> None]
  <2>1. c \in Connections /\ c.cfg = env[w]
    BY <1>2 DEF Connections
  <2> HIDE DEF c
  <2>2. Resolve(w, c)
    BY <1>3 DEF c
  <2> QED
    BY <1>1, <2>1, <2>2, ResolveKeeps
<1>4. CASE StartChild(w, proc, pref[w], IF pref[w] = None THEN "any" ELSE "saved") /\ UNCHANGED conn
  <2>1. Subsides(proc) /\ Owned(proc) /\ proc \in [Services -> Processes]
        /\ \A s \in Services : proc[s].state \in {"new", "up"} => child[w] # s
    BY <1>2, NoneAssumption DEF IInv, Typed, SharedTyped, Subsides
  <2>2. (IF pref[w] = None THEN "any" ELSE "saved") \in {"saved", "any"}
    OBVIOUS
  <2> QED
    BY <1>1, <1>2, <1>4, <2>1, <2>2, SpawnKeeps
<1> QED
  BY <1>3, <1>4 DEF ProbeHttpService

LEMMA ReadyKeeps ==
  ASSUME IInv, NEW w \in Windows, Ready(w)
  PROVE  IInv' /\ (AllCurrent => AllCurrent')
<1>1. /\ op[w] \in {"saved", "any"} /\ op' = [op EXCEPT ![w] = "save"]
      /\ savedPort' = proc[awaited[w]].port
      /\ UNCHANGED <<config, status, view, env, pref, awaited, child, conn, timer, restart, again, proc>>
  BY DEF Ready
<1>2. awaited[w] \in Services
  BY <1>1 DEF IInv, Flow
<1>3. savedPort' \in Ports \cup {None}
  BY <1>1, <1>2 DEF IInv, Typed, SharedTyped, Processes
<1>4. /\ op' \in [Windows -> {"idle", "probe", "saved", "any", "save"}] /\ op'[w] = "save"
      /\ \A v \in Windows \ {w} : op'[v] = op[v]
  BY <1>1 DEF IInv, Typed, WindowTyped
<1>5. Typed'
  BY <1>1, <1>3, <1>4 DEF IInv, Typed, WindowTyped, FlagsTyped, SharedTyped
<1>6. \A v \in Windows \ {w} : Untouched(v)
  BY <1>1, <1>4 DEF Untouched
<1>7. Flow(w)'
  BY <1>1, <1>4 DEF IInv, Flow
<1>8. Current(w) => Current(w)'
  BY <1>1, <1>4 DEF Current, Disposed
<1>9. Owned(proc)' /\ NoForgottenService'
  BY <1>1 DEF IInv, Owned, NoForgottenService, Disposed
<1> QED
  BY <1>1, <1>5, <1>6, <1>7, <1>8, <1>9, UntouchedKeeps DEF IInv, AllCurrent

LEMMA SavedKeeps ==
  ASSUME IInv, NEW w \in Windows, Saved(w)
  PROVE  IInv' /\ (AllCurrent => AllCurrent')
<1>1. op[w] = "save" /\ UNCHANGED <<config, savedPort, view>>
  BY DEF Saved
<1>2. awaited[w] \in Services /\ child[w] \in {awaited[w], None} /\ env[w] \in Nat
  BY <1>1 DEF IInv, Flow, Typed, WindowTyped
<1>3. CASE child[w] = awaited[w]
  <2> DEFINE c == [port |-> proc[awaited[w]].port, cfg |-> env[w], own |-> awaited[w]]
  <2>1. c \in Connections /\ c.cfg = env[w]
    BY <1>2 DEF Connections, IInv, Typed, SharedTyped, Processes
  <2> HIDE DEF c
  <2>2. Resolve(w, c)
    BY <1>3 DEF Saved, c
  <2> QED
    BY <1>1, <2>1, <2>2, ResolveKeeps
<1>4. CASE child[w] # awaited[w]
  <2>1. Reject(w) /\ UNCHANGED <<child, proc>> /\ child[w] = None
    BY <1>2, <1>4 DEF Saved
  <2>2. Subsides(proc') /\ Owned(proc') /\ proc' \in [Services -> Processes]
        /\ child' \in [Windows -> Services \cup {None}]
    BY <2>1 DEF IInv, Typed, WindowTyped, SharedTyped, Subsides, Owned
  <2>3. \A s \in Services : child[w] # s
    BY <2>1, NoneAssumption
  <2> QED
    BY <1>1, <2>1, <2>2, <2>3, RejectKeeps
<1> QED
  BY <1>3, <1>4

LEMMA StartTimeoutKeeps ==
  ASSUME IInv, NEW w \in Windows, StartTimeout(w)
  PROVE  IInv' /\ (AllCurrent => AllCurrent')
<1>1. /\ op[w] \in {"saved", "any"} /\ StartFails(w, Kill(awaited[w])) /\ awaited[w] # None
      /\ UNCHANGED <<config, savedPort, view>>
  BY DEF StartTimeout
<1>2. awaited[w] \in Services \cup {None}
  BY DEF IInv, Typed, WindowTyped
<1>3. /\ Kill(awaited[w]) \in [Services -> Processes] /\ Subsides(Kill(awaited[w]))
      /\ Kill(awaited[w])[awaited[w]].state \notin {"new", "up"}
  BY <1>1, <1>2, KillSubsides DEF IInv, Typed
<1>4. Owned(Kill(awaited[w]))
  BY <1>2, KillOwned DEF IInv, Typed
<1> QED
  BY <1>1, <1>3, <1>4, StartFailsKeeps

LEMMA RestartTimerKeeps ==
  ASSUME IInv, NEW w \in Windows, RestartTimer(w)
  PROVE  IInv' /\ (AllCurrent => AllCurrent')
<1>1. /\ timer[w] /\ timer' = [timer EXCEPT ![w] = FALSE] /\ BeginStart(w, pref[w])
      /\ UNCHANGED <<config, savedPort, status, view, awaited, child, conn, restart, again, proc>>
  BY DEF RestartTimer
<1>2. pref[w] \in Ports \cup {None} /\ view' \in [Windows -> Nat]
  BY <1>1 DEF IInv, Typed, WindowTyped
<1>3. /\ env' \in [Windows -> Nat] /\ pref' \in [Windows -> Ports \cup {None}]
      /\ op' \in [Windows -> {"idle", "probe", "saved", "any", "save"}]
      /\ env'[w] = view'[w] /\ op'[w] = "probe"
      /\ \A v \in Windows \ {w} : env'[v] = env[v] /\ op'[v] = op[v]
  BY <1>1, <1>2, BeginStartDoes DEF IInv, Typed, SharedTyped
<1>4. timer' \in [Windows -> BOOLEAN] /\ ~timer'[w] /\ \A v \in Windows \ {w} : timer'[v] = timer[v]
  BY <1>1 DEF IInv, Typed, FlagsTyped
<1>5. Typed'
  BY <1>1, <1>3, <1>4 DEF IInv, Typed, WindowTyped, FlagsTyped, SharedTyped
<1>6. \A v \in Windows \ {w} : Untouched(v)
  BY <1>1, <1>3, <1>4 DEF Untouched
<1>7. Flow(w)'
  BY <1>1, <1>3, <1>4 DEF IInv, Flow
<1>8. Current(w) => Current(w)'
  BY <1>1, <1>3, <1>4 DEF Current, Disposed
<1>9. Owned(proc)' /\ NoForgottenService'
  BY <1>1 DEF IInv, Owned, NoForgottenService, Disposed
<1> QED
  BY <1>1, <1>5, <1>6, <1>7, <1>8, <1>9, UntouchedKeeps DEF IInv, AllCurrent

-----------------------------------------------------------------------------
(* The exit of a process is seen by its window.                            *)
LEMMA ExitKeeps ==
  ASSUME IInv, NEW s \in Services, Exit(s)
  PROVE  IInv' /\ (AllCurrent => AllCurrent')
<1> DEFINE p == [proc EXCEPT ![s] = NoProc]
<1>0. PICK w \in Windows : w = proc[s].owner
  BY DEF Exit, IInv, Owned
<1>1. /\ proc[s].state = "exited" /\ UNCHANGED <<config, savedPort, view>>
      /\ p \in [Services -> Processes] /\ Subsides(p) /\ p[s].state \notin {"new", "up"}
      /\ \A t \in Services : t # s => p[t] = proc[t]
  BY GoneSubsides DEF Exit, IInv, Typed, SharedTyped, Owned
<1>2. Owned(p)
  BY DEF IInv, Typed, SharedTyped, Owned, NoProc
<1>3. CASE op[w] \in {"saved", "any"} /\ awaited[w] = s
  <2>1. StartFails(w, p)
    BY <1>0, <1>3 DEF Exit
  <2> HIDE DEF p
  <2> QED
    BY <1>1, <1>2, <1>3, <2>1, StartFailsKeeps
<1>4. CASE ~(op[w] \in {"saved", "any"} /\ awaited[w] = s)
  <2> DEFINE lost == child[w] = s /\ conn[w] # None /\ ~Disposed(w)
  <2>1. /\ proc' = p /\ UNCHANGED <<status, op, env, restart, again>>
        /\ awaited' = [awaited EXCEPT ![w] = IF @ = s /\ op[w] # "save" THEN None ELSE @]
        /\ child' = [child EXCEPT ![w] = IF @ = s THEN None ELSE @]
        /\ lost => ServiceLost(w)
        /\ ~lost => UNCHANGED <<conn, timer, pref>>
    BY <1>0, <1>4 DEF Exit
  <2> HIDE DEF p, lost
  <2>2. /\ awaited' \in [Windows -> Services \cup {None}]
        /\ child' \in [Windows -> Services \cup {None}]
        /\ \A v \in Windows \ {w} : awaited'[v] = awaited[v] /\ child'[v] = child[v]
        /\ awaited'[w] = IF awaited[w] = s /\ op[w] # "save" THEN None ELSE awaited[w]
        /\ child'[w] = IF child[w] = s THEN None ELSE child[w]
    BY <1>1, <2>1 DEF IInv, Typed, WindowTyped
  <2>3. lost => /\ conn' = [conn EXCEPT ![w] = None] /\ timer' = [timer EXCEPT ![w] = TRUE]
                /\ pref' = [pref EXCEPT ![w] = conn[w].port] /\ conn[w].port \in Ports \cup {None}
                /\ child[w] = s /\ conn[w] # None
    BY <1>1, <2>1 DEF ServiceLost, ScheduleRestart, lost, IInv, Typed, WindowTyped, Connections
  <2>4. /\ timer' \in [Windows -> BOOLEAN] /\ (timer'[w] <=> timer[w] \/ lost)
        /\ \A v \in Windows \ {w} : timer'[v] = timer[v]
    BY <1>1, <2>1, <2>3 DEF IInv, Typed, FlagsTyped
  <2>5. /\ conn' \in [Windows -> Connections \cup {None}] /\ pref' \in [Windows -> Ports \cup {None}]
        /\ conn'[w] = IF lost THEN None ELSE conn[w]
        /\ \A v \in Windows \ {w} : conn'[v] = conn[v]
    BY <1>1, <2>1, <2>3 DEF IInv, Typed, WindowTyped
  <2>6. Typed'
    BY <1>1, <2>1, <2>2, <2>4, <2>5 DEF IInv, Typed, WindowTyped, FlagsTyped, SharedTyped
  <2>7. \A v \in Windows \ {w} : Untouched(v)
    BY <1>1, <2>1, <2>2, <2>4, <2>5 DEF Untouched
  <2>8. Flow(w)'
    <3>1. Flow(w)
      BY <1>1 DEF IInv
    <3>2. CASE lost
      <4>1. conn'[w] = None /\ timer'[w] /\ child'[w] = None
        BY <2>2, <2>3, <2>4, <2>5, <3>2
      <4>2. op[w] = "idle" /\ restart[w] \in {"no", "wait"} /\ status[w] # "off"
        BY <2>3, <3>1, <3>2 DEF Flow
      <4> QED
        BY <2>1, <4>1, <4>2 DEF Flow
    <3>3. CASE ~lost
      <4>1. conn'[w] = conn[w] /\ timer'[w] = timer[w] /\ child'[w] \in {child[w], None}
        BY <1>1, <2>1, <2>2, <3>3
      <4>2. op[w] \in {"saved", "any", "save"} => awaited'[w] = awaited[w]
        BY <1>4, <2>2
      <4> QED
        BY <2>1, <3>1, <4>1, <4>2 DEF Flow
    <3> QED
      BY <3>2, <3>3
  <2>9. Current(w) => Current(w)'
    <3>1. CASE lost
      <4>1. timer'[w] /\ op[w] = "idle" /\ status'[w] = status[w]
        BY <1>1, <2>1, <2>3, <2>4, <3>1 DEF IInv, Flow
      <4> QED
        BY <1>1, <2>1, <4>1 DEF Current, Disposed
    <3>2. CASE ~lost
      <4>1. conn'[w] = conn[w] /\ timer'[w] = timer[w]
        BY <1>1, <2>1, <3>2
      <4> QED
        BY <1>1, <2>1, <4>1 DEF Current, Disposed
    <3> QED
      BY <3>1, <3>2
  <2>10. NoForgottenService'
    <3>1. \A v \in Windows : Disposed(v) => Disposed(v)'
      BY <2>1 DEF Disposed
    <3>2. \A t \in Services, v \in Windows :
            proc'[t].state \in {"new", "up"} /\ child[v] = t => child'[v] = t \/ Disposed(v)'
      BY <1>1, <2>1, <2>2
    <3> QED
      BY <1>1, <2>1, <3>1, <3>2, EndsKeep DEF IInv
  <2>11. Owned(proc)' /\ UNCHANGED config
    BY <1>1, <1>2, <2>1
  <2>12. \A v \in Windows : Flow(v)'
    BY <2>7, <2>8, UntouchedKeeps DEF IInv
  <2>13. AllCurrent => AllCurrent'
    BY <2>7, <2>9, <2>11, UntouchedKeeps, <1>1 DEF AllCurrent
  <2> QED
    BY <2>6, <2>10, <2>11, <2>12, <2>13 DEF IInv
<1> QED
  BY <1>3, <1>4

-----------------------------------------------------------------------------
(* Settings, restarts and the end of a window.                             *)
LEMMA SettingsKeep ==
  ASSUME IInv, NEW w \in Windows, Settings(w)
  PROVE  IInv' /\ (AllCurrent => AllCurrent')
<1>1. /\ status[w] \in {"starting", "on"} /\ view[w] # config /\ view' = [view EXCEPT ![w] = config]
      /\ UNCHANGED <<config, savedPort, status, op, env, pref, awaited, child, conn, timer, proc>>
  BY DEF Settings, service
<1>2. /\ view' \in [Windows -> Nat] /\ view'[w] = config
      /\ \A v \in Windows \ {w} : view'[v] = view[v]
  BY <1>1 DEF IInv, Typed, WindowTyped, SharedTyped
<1>3. \/ status[w] # "on" /\ UNCHANGED <<restart, again>>
      \/ /\ status[w] = "on" /\ restart[w] = "no"
         /\ restart' = [restart EXCEPT ![w] = "wait"] /\ UNCHANGED again
      \/ /\ status[w] = "on" /\ restart[w] # "no"
         /\ again' = [again EXCEPT ![w] = TRUE] /\ UNCHANGED restart
  BY DEF Settings, RestartHttpService
<1>4. /\ restart' \in [Windows -> {"no", "wait", "stop", "start"}]
      /\ \A v \in Windows \ {w} : restart'[v] = restart[v]
      /\ restart'[w] = IF status[w] = "on" /\ restart[w] = "no" THEN "wait" ELSE restart[w]
  BY <1>3 DEF IInv, Typed, WindowTyped
<1>5. /\ again' \in [Windows -> BOOLEAN] /\ \A v \in Windows \ {w} : again'[v] = again[v]
      /\ status[w] = "on" /\ restart[w] # "no" => again'[w]
  BY <1>3 DEF IInv, Typed, FlagsTyped
<1>6. Typed'
  BY <1>1, <1>2, <1>4, <1>5 DEF IInv, Typed, WindowTyped, FlagsTyped, SharedTyped
<1>7. \A v \in Windows \ {w} : Untouched(v)
  BY <1>1, <1>2, <1>4, <1>5 DEF Untouched
<1>8. Flow(w)'
  BY <1>1, <1>4 DEF IInv, Flow
<1>9. Current(w) => Current(w)'
  <2>1. restart[w] = "stop" => op[w] = "idle"
    BY DEF IInv, Flow
  <2>2. restart[w] \in {"no", "wait", "stop", "start"}
    BY DEF IInv, Typed, WindowTyped
  <2> QED
    BY <1>1, <1>2, <1>4, <1>5, <2>1, <2>2 DEF Current, Disposed
<1>10. Owned(proc)' /\ NoForgottenService'
  BY <1>1 DEF IInv, Owned, NoForgottenService, Disposed
<1> QED
  BY <1>1, <1>6, <1>7, <1>8, <1>9, <1>10, UntouchedKeeps DEF IInv, AllCurrent

LEMMA ChangeSettingsKeep ==
  ASSUME IInv, ChangeSettings
  PROVE  IInv' /\ (AllCurrent /\ ~EarlyChange => AllCurrent')
<1>1. /\ config' = config + 1 /\ (EarlyChange \/ \A w \in Windows : status[w] # "starting")
      /\ UNCHANGED <<savedPort, status, view, op, env, pref, awaited, child, conn, timer, restart, again, proc>>
  BY DEF ChangeSettings, service
<1>2. \A v \in Windows : Untouched(v)
  BY <1>1 DEF Untouched
<1>3. Typed'
  BY <1>1 DEF IInv, Typed, WindowTyped, FlagsTyped, SharedTyped
<1>4. Owned(proc)' /\ NoForgottenService'
  BY <1>1 DEF IInv, Owned, NoForgottenService, Disposed
<1>5. AllCurrent /\ ~EarlyChange => AllCurrent'
  BY <1>1 DEF AllCurrent, Current, Disposed
<1> QED
  BY <1>2, <1>3, <1>4, <1>5, UntouchedKeeps DEF IInv

LEMMA RestartKeeps ==
  ASSUME IInv, NEW w \in Windows, Restart(w)
  PROVE  IInv' /\ (AllCurrent => AllCurrent')
<1>1. /\ restart[w] = "wait" /\ op[w] = "idle" /\ restart' = [restart EXCEPT ![w] = "stop"]
      /\ timer' = [timer EXCEPT ![w] = FALSE] /\ conn' = [conn EXCEPT ![w] = None]
      /\ child' = [child EXCEPT ![w] = None] /\ proc' = Kill(child[w])
      /\ pref' = [pref EXCEPT ![w] = IF conn[w] # None THEN conn[w].port ELSE savedPort]
      /\ awaited' = [awaited EXCEPT ![w] = child[w]]
      /\ UNCHANGED <<config, savedPort, status, view, op, env, again>>
  BY DEF Restart, StopChild
<1>2. child[w] \in Services \cup {None}
  BY DEF IInv, Typed, WindowTyped
<1>3. /\ proc' \in [Services -> Processes] /\ Subsides(proc') /\ Owned(proc')
      /\ child[w] # None => proc'[child[w]].state \notin {"new", "up"}
  BY <1>1, <1>2, KillSubsides, KillOwned DEF IInv, Typed
<1>4. /\ restart' \in [Windows -> {"no", "wait", "stop", "start"}]
      /\ conn' \in [Windows -> Connections \cup {None}] /\ child' \in [Windows -> Services \cup {None}]
      /\ awaited' \in [Windows -> Services \cup {None}]
      /\ restart'[w] = "stop" /\ conn'[w] = None /\ child'[w] = None
      /\ \A v \in Windows \ {w} : /\ restart'[v] = restart[v] /\ conn'[v] = conn[v]
                                  /\ child'[v] = child[v] /\ awaited'[v] = awaited[v]
  BY <1>1, <1>2 DEF IInv, Typed, WindowTyped
<1>5. timer' \in [Windows -> BOOLEAN] /\ ~timer'[w] /\ \A v \in Windows \ {w} : timer'[v] = timer[v]
  BY <1>1 DEF IInv, Typed, FlagsTyped
<1>6. pref' \in [Windows -> Ports \cup {None}]
  <2>1. (IF conn[w] # None THEN conn[w].port ELSE savedPort) \in Ports \cup {None}
    BY DEF IInv, Typed, WindowTyped, SharedTyped, Connections
  <2> QED
    BY <1>1, <2>1 DEF IInv, Typed, WindowTyped
<1>7. Typed'
  BY <1>1, <1>3, <1>4, <1>5, <1>6 DEF IInv, Typed, WindowTyped, FlagsTyped, SharedTyped
<1>8. \A v \in Windows \ {w} : Untouched(v)
  BY <1>1, <1>4, <1>5 DEF Untouched
<1>9. Flow(w)' /\ (Current(w) => Current(w)')
  BY <1>1, <1>4, <1>5 DEF IInv, Flow, Current, Disposed
<1>10. NoForgottenService'
  <2>1. \A s \in Services, v \in Windows :
          proc'[s].state \in {"new", "up"} /\ child[v] = s => child'[v] = s \/ Disposed(v)'
    BY <1>3, <1>4, NoneAssumption
  <2>2. \A v \in Windows : Disposed(v) => Disposed(v)'
    BY <1>1 DEF Disposed
  <2> QED
    BY <1>3, <2>1, <2>2, EndsKeep DEF IInv
<1> QED
  BY <1>1, <1>3, <1>7, <1>8, <1>9, <1>10, UntouchedKeeps DEF IInv, AllCurrent

LEMMA RestartBeginsKeeps ==
  ASSUME IInv, NEW w \in Windows, RestartBegins(w)
  PROVE  IInv' /\ (AllCurrent => AllCurrent')
<1>1. /\ restart[w] = "stop" /\ op[w] = "idle" /\ child[w] = None /\ ~timer[w]
      /\ UNCHANGED <<config, savedPort, status, awaited, child, conn, timer, again, proc>>
  BY DEF RestartBegins, IInv, Flow
<1>2. CASE Disposed(w)
  <2>1. restart' = [restart EXCEPT ![w] = "no"] /\ UNCHANGED <<view, env, pref, op>>
    BY <1>2 DEF RestartBegins
  <2>2. /\ restart' \in [Windows -> {"no", "wait", "stop", "start"}] /\ restart'[w] = "no"
        /\ \A v \in Windows \ {w} : restart'[v] = restart[v]
    BY <2>1 DEF IInv, Typed, WindowTyped
  <2>3. Typed'
    BY <1>1, <2>1, <2>2 DEF IInv, Typed, WindowTyped, FlagsTyped, SharedTyped
  <2>4. \A v \in Windows \ {w} : Untouched(v)
    BY <1>1, <2>1, <2>2 DEF Untouched
  <2>5. Flow(w)' /\ (Current(w) => Current(w)')
    BY <1>1, <1>2, <2>1, <2>2 DEF IInv, Flow, Current, Disposed
  <2>6. Owned(proc)' /\ NoForgottenService'
    BY <1>1 DEF IInv, Owned, NoForgottenService, Disposed
  <2> QED
    BY <1>1, <2>3, <2>4, <2>5, <2>6, UntouchedKeeps DEF IInv, AllCurrent
<1>3. CASE ~Disposed(w)
  <2>1. /\ restart' = [restart EXCEPT ![w] = "start"] /\ view' = view /\ BeginStart(w, pref[w])
        /\ pref[w] \in Ports \cup {None} /\ view \in [Windows -> Nat]
    BY <1>3 DEF RestartBegins, IInv, Typed, WindowTyped
  <2>2. /\ env' \in [Windows -> Nat] /\ pref' \in [Windows -> Ports \cup {None}]
        /\ op' \in [Windows -> {"idle", "probe", "saved", "any", "save"}]
        /\ env'[w] = view'[w] /\ op'[w] = "probe"
        /\ \A v \in Windows \ {w} : env'[v] = env[v] /\ op'[v] = op[v]
    BY <2>1, BeginStartDoes DEF IInv, Typed, SharedTyped
  <2>3. /\ restart' \in [Windows -> {"no", "wait", "stop", "start"}] /\ restart'[w] = "start"
        /\ \A v \in Windows \ {w} : restart'[v] = restart[v]
    BY <2>1 DEF IInv, Typed, WindowTyped
  <2>4. Typed'
    BY <1>1, <2>1, <2>2, <2>3 DEF IInv, Typed, WindowTyped, FlagsTyped, SharedTyped
  <2>5. \A v \in Windows \ {w} : Untouched(v)
    BY <1>1, <2>1, <2>2, <2>3 DEF Untouched
  <2>6. Flow(w)'
    BY <1>1, <2>2, <2>3 DEF IInv, Flow
  <2>7. Current(w) => Current(w)'
    BY <1>1, <2>1, <2>2, <2>3 DEF Current, Disposed
  <2>8. Owned(proc)' /\ NoForgottenService'
    BY <1>1 DEF IInv, Owned, NoForgottenService, Disposed
  <2> QED
    BY <1>1, <2>4, <2>5, <2>6, <2>7, <2>8, UntouchedKeeps DEF IInv, AllCurrent
<1> QED
  BY <1>2, <1>3

LEMMA DisposeKeeps ==
  ASSUME IInv, NEW w \in Windows, Dispose(w)
  PROVE  IInv' /\ (AllCurrent => AllCurrent')
<1>1. /\ status[w] \in {"starting", "on"} /\ status' = [status EXCEPT ![w] = "disposed"]
      /\ timer' = [timer EXCEPT ![w] = FALSE] /\ conn' = [conn EXCEPT ![w] = None]
      /\ child' = [child EXCEPT ![w] = None] /\ proc' = Kill(child[w])
      /\ UNCHANGED <<config, savedPort, view, op, env, pref, awaited, restart, again>>
  BY DEF Dispose, StopChild
<1>2. child[w] \in Services \cup {None}
  BY DEF IInv, Typed, WindowTyped
<1>3. proc' \in [Services -> Processes] /\ Subsides(proc') /\ Owned(proc')
  BY <1>1, <1>2, KillSubsides, KillOwned DEF IInv, Typed
<1>4. /\ status' \in [Windows -> {"off", "starting", "on", "disposed"}]
      /\ conn' \in [Windows -> Connections \cup {None}] /\ child' \in [Windows -> Services \cup {None}]
      /\ status'[w] = "disposed" /\ conn'[w] = None /\ child'[w] = None
      /\ \A v \in Windows \ {w} :
           status'[v] = status[v] /\ conn'[v] = conn[v] /\ child'[v] = child[v]
  BY <1>1 DEF IInv, Typed, WindowTyped
<1>5. timer' \in [Windows -> BOOLEAN] /\ ~timer'[w] /\ \A v \in Windows \ {w} : timer'[v] = timer[v]
  BY <1>1 DEF IInv, Typed, FlagsTyped
<1>6. Typed'
  BY <1>1, <1>3, <1>4, <1>5 DEF IInv, Typed, WindowTyped, FlagsTyped, SharedTyped
<1>7. \A v \in Windows \ {w} : Untouched(v)
  BY <1>1, <1>4, <1>5 DEF Untouched
<1>8. Flow(w)' /\ Current(w)'
  BY <1>1, <1>4, <1>5 DEF IInv, Flow, Current, Disposed
<1>9. NoForgottenService'
  <2>1. \A s \in Services, v \in Windows :
          proc'[s].state \in {"new", "up"} /\ child[v] = s => child'[v] = s \/ Disposed(v)'
    BY <1>4 DEF Disposed
  <2>2. \A v \in Windows : Disposed(v) => Disposed(v)'
    BY <1>4 DEF Disposed
  <2> QED
    BY <1>3, <2>1, <2>2, EndsKeep DEF IInv
<1> QED
  BY <1>1, <1>3, <1>6, <1>7, <1>8, <1>9, UntouchedKeeps DEF IInv, AllCurrent

-----------------------------------------------------------------------------
(* The steps of the processes.                                             *)
LEMMA BecomesKeeps ==
  ASSUME IInv, NEW s \in Services, proc[s].state # "none",
         NEW state \in {"up", "exited"}, NEW port \in Ports \cup {None},
         proc[s].state = "new" \/ state = "exited",
         Becomes(s, state, port)
  PROVE  IInv' /\ (AllCurrent => AllCurrent')
<1> DEFINE q == [proc[s] EXCEPT !.state = state, !.port = port]
<1>1. /\ proc' = [proc EXCEPT ![s] = q]
      /\ UNCHANGED <<config, savedPort, status, view, op, env, pref, awaited, child, conn, timer, restart, again>>
  BY DEF Becomes, service, IInv, Typed, SharedTyped
<1>2. q \in Processes /\ q.owner = proc[s].owner /\ q.state = state
  BY DEF IInv, Typed, SharedTyped, Processes
<1> HIDE DEF q
<1>3. /\ proc' \in [Services -> Processes] /\ proc'[s] = q
      /\ \A t \in Services : t # s => proc'[t] = proc[t]
  BY <1>1, <1>2 DEF IInv, Typed, SharedTyped
<1>4. Typed'
  BY <1>1, <1>3 DEF IInv, Typed, WindowTyped, FlagsTyped, SharedTyped
<1>5. \A v \in Windows : Untouched(v)
  BY <1>1 DEF Untouched
<1>6. Owned(proc)' /\ NoForgottenService'
  BY <1>1, <1>2, <1>3 DEF IInv, Owned, NoForgottenService, Disposed
<1> QED
  BY <1>1, <1>4, <1>5, <1>6, UntouchedKeeps DEF IInv, AllCurrent

LEMMA ProcessKeeps ==
  ASSUME IInv, NEW s \in Services, Listen(s) \/ Shutdown(s) \/ Crash(s)
  PROVE  IInv' /\ (AllCurrent => AllCurrent')
<1>1. proc[s].port \in Ports \cup {None}
  BY DEF IInv, Typed, SharedTyped, Processes
<1>2. ASSUME NEW q \in Ports, proc[s].state = "new", Becomes(s, "up", q)
      PROVE  IInv' /\ (AllCurrent => AllCurrent')
  BY <1>2, BecomesKeeps
<1>3. ASSUME NEW q \in Ports \cup {None}, proc[s].state # "none", Becomes(s, "exited", q)
      PROVE  IInv' /\ (AllCurrent => AllCurrent')
  BY <1>3, BecomesKeeps
<1> QED
  BY <1>1, <1>2, <1>3 DEF Listen, Shutdown, Crash

-----------------------------------------------------------------------------
LEMMA InitEstablishes == Init => IInv /\ AllCurrent
<1> SUFFICES ASSUME Init PROVE IInv /\ AllCurrent
  OBVIOUS
<1>1. WindowTyped
  BY DEF Init, WindowTyped
<1>2. FlagsTyped
  BY DEF Init, FlagsTyped
<1>3. SharedTyped
  BY DEF Init, SharedTyped, NoProc, Processes
<1>4. \A w \in Windows : Flow(w) /\ Current(w)
  BY DEF Init, Flow, Current
<1>5. Owned(proc) /\ NoForgottenService
  BY DEF Init, Owned, NoForgottenService, NoProc
<1> QED
  BY <1>1, <1>2, <1>3, <1>4, <1>5 DEF IInv, Typed, AllCurrent

LEMMA StepKeeps ==
  ASSUME IInv, [Next]_vars
  PROVE  IInv' /\ (AllCurrent /\ ~EarlyChange => AllCurrent')
<1>1. ASSUME NEW w \in Windows, WindowStep(w) \/ Start(w) \/ StartTimeout(w) \/ Dispose(w)
      PROVE  IInv' /\ (AllCurrent => AllCurrent')
  BY <1>1, ProbeKeeps, ReadyKeeps, SavedKeeps, RestartTimerKeeps, SettingsKeep, RestartKeeps,
     RestartBeginsKeeps, StartKeeps, StartTimeoutKeeps, DisposeKeeps
  DEF WindowStep
<1>2. ASSUME NEW s \in Services, ServiceStep(s) \/ Crash(s)
      PROVE  IInv' /\ (AllCurrent => AllCurrent')
  BY <1>2, ExitKeeps, ProcessKeeps DEF ServiceStep
<1>3. CASE ChangeSettings
  BY <1>3, ChangeSettingsKeep
<1>4. CASE UNCHANGED vars
  <2>1. UNCHANGED <<config, savedPort, status, view, op, env, pref, awaited, child, conn, timer, restart,
                    again, proc>>
    BY <1>4 DEF vars, service
  <2>2. \A v \in Windows : Untouched(v)
    BY <2>1 DEF Untouched
  <2>3. Typed'
    BY <2>1 DEF IInv, Typed, WindowTyped, FlagsTyped, SharedTyped
  <2>4. Owned(proc)' /\ NoForgottenService'
    BY <2>1 DEF IInv, Owned, NoForgottenService, Disposed
  <2> QED
    BY <2>1, <2>2, <2>3, <2>4, UntouchedKeeps DEF IInv, AllCurrent
<1> QED
  BY <1>1, <1>2, <1>3, <1>4 DEF Next

-----------------------------------------------------------------------------
(* Every state of every behaviour satisfies the invariant.                 *)
THEOREM Invariant == Spec => []IInv
<1>1. Init => IInv
  BY InitEstablishes
<1>2. IInv /\ [Next]_vars => IInv'
  BY StepKeeps
<1> QED
  BY <1>1, <1>2, PTL DEF Spec

(* A window that is open knows every service it started and has not told   *)
(* to end, through timeouts, exits, restarts and reused ids (startChild,   *)
(* stopChild and the exit handler of httpService.ts).                      *)
THEOREM NoServiceIsForgotten == Spec => []NoForgottenService
<1>1. IInv => NoForgottenService
  BY DEF IInv
<1> QED
  BY <1>1, Invariant, PTL

(* A window at rest has the address of a service with the settings in      *)
(* force, as long as they do not change during an activation (start and    *)
(* restart of httpService.ts, restartHttpService of provider.ts).          *)
THEOREM WindowsAreServed == ~EarlyChange => (Spec => []ServedAtRest)
<1>1. Init => IInv /\ AllCurrent
  BY InitEstablishes
<1>2. ~EarlyChange /\ IInv /\ AllCurrent /\ [Next]_vars => (IInv /\ AllCurrent)'
  BY StepKeeps
<1>3. IInv /\ AllCurrent => ServedAtRest
  BY DEF AllCurrent, Current, ServedAtRest
<1>4. CASE ~EarlyChange
  <2>1. IInv /\ AllCurrent /\ [Next]_vars => (IInv /\ AllCurrent)'
    BY <1>2, <1>4
  <2> QED
    BY <1>1, <1>3, <2>1, PTL DEF Spec
<1>5. CASE EarlyChange
  BY <1>5
<1> QED
  BY <1>4, <1>5
=============================================================================
