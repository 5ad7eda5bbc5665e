----------------------------- MODULE McpService -----------------------------
(***************************************************************************)
(* The MCP service of several VS Code windows (mcp/httpService.ts, the     *)
(* restarts of mcp/provider.ts, main of mcp/server.ts).  The windows share *)
(* a saved port and a token: a window first probes the saved port for a    *)
(* service with its own settings, spawns one there otherwise, and one on a *)
(* free port if that fails.  Service ids are reused once a process is gone.*)
(***************************************************************************)
EXTENDS Naturals, FiniteSets

CONSTANTS Windows, Services, Ports, None,
          MaxChange,    \* bound: changes of the settings
          MaxFaults,    \* bound: crashes, timeouts and probes without an answer
          EarlyChange,  \* settings may change while a window activates
          Closing       \* windows that may be closed

\* What startService resolves with.
Connections == [port : Ports \cup {None}, cfg : Nat, own : Services \cup {None}]
ASSUME NoneAssumption == None \notin Services \cup Ports \cup Connections

VARIABLES
  config, faults, savedPort,   \* the settings, the faults so far, the global state
  status, view,                \* a window's activation, its view of the settings
  op, env, pref, awaited,      \* startService: progress, settings, port, process
  child, conn, timer,          \* this.child, connectionInfo, restartTimer
  restart, again,              \* restart() and the provider's restartAgain
  proc                         \* the service processes

service == <<op, env, pref, awaited, child, conn, timer>>
vars == <<config, faults, savedPort, status, view, service, restart, again, proc>>

NoProc == [state |-> "none", owner |-> None, cfg |-> 0, port |-> None]
TypeOK ==
  /\ config \in 0..MaxChange /\ faults \in 0..MaxFaults /\ savedPort \in Ports \cup {None}
  /\ status \in [Windows -> {"off", "starting", "on", "disposed"}]
  /\ view \in [Windows -> 0..MaxChange] /\ env \in [Windows -> 0..MaxChange]
  /\ op \in [Windows -> {"idle", "probe", "saved", "any", "save"}]
  /\ pref \in [Windows -> Ports \cup {None}]
  /\ {awaited, child} \subseteq [Windows -> Services \cup {None}]
  /\ \A w \in Windows : conn[w] = None
       \/ conn[w] \in [port : Ports, cfg : 0..MaxChange, own : Services \cup {None}]
  /\ timer \in [Windows -> BOOLEAN] /\ again \in [Windows -> BOOLEAN]
  /\ restart \in [Windows -> {"no", "wait", "stop", "start"}]
  /\ proc \in [Services -> [state : {"none", "new", "up", "ending", "exited"},
                            owner : Windows \cup {None}, cfg : 0..MaxChange, port : Ports \cup {None}]]

Init ==
  /\ config = 0 /\ faults = 0 /\ savedPort = None
  /\ status = [w \in Windows |-> "off"] /\ view = [w \in Windows |-> 0]
  /\ op = [w \in Windows |-> "idle"] /\ env = view
  /\ pref = [w \in Windows |-> None] /\ awaited = pref /\ child = pref /\ conn = pref
  /\ timer = [w \in Windows |-> FALSE] /\ again = timer
  /\ restart = [w \in Windows |-> "no"] /\ proc = [s \in Services |-> NoProc]

Disposed(w) == status[w] = "disposed"
\* Code that runs before any other event of the window: restart() once no start is
\* under way, and a start that has no port to probe.
Urgent(w) == \/ restart[w] = "wait" /\ op[w] = "idle"
             \/ op[w] = "probe" /\ pref[w] = None
Running(s) == proc[s].state \in {"new", "up", "ending"}
Fault == faults < MaxFaults /\ faults' = faults + 1

-----------------------------------------------------------------------------
\* startService, up to the probe of the port it will try.
BeginStart(w, port) ==
  /\ env' = [env EXCEPT ![w] = view'[w]]
  /\ pref' = [pref EXCEPT ![w] = IF port # None THEN port ELSE savedPort]
  /\ op' = [op EXCEPT ![w] = "probe"]

\* startChild; p are the processes as they are by then.  Which id is free is no matter.
StartChild(w, p, port, stage) ==
  LET s == CHOOSE t \in Services : p[t].state = "none" IN
    /\ \E t \in Services : p[t].state = "none"
    /\ proc' = [p EXCEPT ![s] = [state |-> "new", owner |-> w, cfg |-> env[w], port |-> port]]
    /\ child' = [child EXCEPT ![w] = s] /\ awaited' = [awaited EXCEPT ![w] = s]
    /\ op' = [op EXCEPT ![w] = stage] /\ UNCHANGED <<status, env, pref, restart, again, timer>>

\* SIGTERM, followed by SIGKILL: the process no longer listens.
(* Mutant: the process of a start that failed is left running. *)
Spare(s) == proc
Kill(s) == IF s # None /\ Running(s) THEN [proc EXCEPT ![s].state = "ending", ![s].port = None] ELSE proc
StopChild(w) == child' = [child EXCEPT ![w] = None] /\ proc' = Kill(child[w])

\* The promise of a start settles: activation goes on, and the provider's loop
\* restarts once more if settings changed meanwhile.
Settle(w) ==
  /\ op' = [op EXCEPT ![w] = "idle"] /\ again' = [again EXCEPT ![w] = FALSE]
  /\ env' = [env EXCEPT ![w] = 0] /\ awaited' = [awaited EXCEPT ![w] = None]
  /\ status' = [status EXCEPT ![w] = IF Disposed(w) THEN @ ELSE "on"]
  /\ restart' = [restart EXCEPT ![w] = IF @ = "wait" \/ (@ = "start" /\ again[w]) THEN "wait" ELSE "no"]
ScheduleRestart(w) == timer' = [timer EXCEPT ![w] = ~Disposed(w)]
Reject(w) == Settle(w) /\ ScheduleRestart(w) /\ UNCHANGED <<conn, pref>>
Resolve(w, c) ==
  /\ Settle(w) /\ conn' = [conn EXCEPT ![w] = c] /\ pref' = [pref EXCEPT ![w] = None]
  /\ UNCHANGED <<timer, child, proc>>

\* A process did not start: another one is tried on a free port.
StartFails(w, p) ==
  /\ UNCHANGED conn
  /\ IF op[w] = "saved" THEN StartChild(w, p, None, "any")
     ELSE child' = [child EXCEPT ![w] = None] /\ proc' = p /\ Reject(w)

-----------------------------------------------------------------------------
\* registerMcpSupport: start() is awaited before settings are listened to.
Start(w) ==
  /\ status[w] = "off" /\ status' = [status EXCEPT ![w] = "starting"]
  /\ view' = [view EXCEPT ![w] = config] /\ BeginStart(w, None)
  /\ UNCHANGED <<config, faults, savedPort, awaited, child, conn, timer, restart, again, proc>>

Serving(w) == \E s \in Services : proc[s].state = "up" /\ proc[s].port = pref[w] /\ proc[s].cfg = env[w]
ProbeHttpService(w) ==
  /\ op[w] = "probe" /\ restart[w] # "stop" /\ UNCHANGED <<config, savedPort, view>>
  /\ \/ /\ pref[w] # None /\ Serving(w) /\ UNCHANGED faults
        /\ Resolve(w, [port |-> pref[w], cfg |-> env[w], own |-> None])
     \/ /\ IF pref[w] # None /\ Serving(w) THEN Fault ELSE UNCHANGED faults
        /\ StartChild(w, proc, pref[w], IF pref[w] = None THEN "any" ELSE "saved") /\ UNCHANGED conn

\* finish(undefined, ready), then globalState.update.
Ready(w) ==
  /\ ~Urgent(w) /\ op[w] \in {"saved", "any"} /\ awaited[w] # None /\ proc[awaited[w]].state = "up"
  /\ op' = [op EXCEPT ![w] = "save"] /\ savedPort' = proc[awaited[w]].port
  /\ UNCHANGED <<config, faults, status, view, env, pref, awaited, child, conn, timer, restart, again, proc>>
(* Mutant: the service is taken to run still. *)
SavedUnchecked(w) ==
  /\ ~Urgent(w) /\ op[w] = "save" /\ UNCHANGED <<config, faults, savedPort, view>>
  /\ Resolve(w, [port |-> savedPort, cfg |-> env[w], own |-> awaited[w]])
Saved(w) ==
  /\ ~Urgent(w) /\ op[w] = "save" /\ UNCHANGED <<config, faults, savedPort, view>>
  /\ IF child[w] = awaited[w]
     THEN Resolve(w, [port |-> proc[awaited[w]].port, cfg |-> env[w], own |-> awaited[w]])
     ELSE Reject(w) /\ UNCHANGED <<child, proc>>
StartTimeout(w) ==
  /\ ~Urgent(w) /\ op[w] \in {"saved", "any"} /\ awaited[w] # None /\ Fault
  /\ StartFails(w, Kill(awaited[w])) /\ UNCHANGED <<config, savedPort, view>>

\* The exit event.
ServiceLost(w) ==
  /\ conn' = [conn EXCEPT ![w] = None] /\ ScheduleRestart(w)
  /\ pref' = [pref EXCEPT ![w] = conn[w].port]
Exit(s) == LET w == proc[s].owner
               p == [proc EXCEPT ![s] = NoProc] IN
  /\ proc[s].state = "exited" /\ ~Urgent(w) /\ UNCHANGED <<config, faults, savedPort, view>>
  /\ IF op[w] \in {"saved", "any"} /\ awaited[w] = s THEN StartFails(w, p)
     ELSE /\ proc' = p /\ awaited' = [awaited EXCEPT ![w] = IF @ = s /\ op[w] # "save" THEN None ELSE @]
          /\ child' = [child EXCEPT ![w] = IF @ = s THEN None ELSE @]
          /\ UNCHANGED <<status, op, env, restart, again>>
          /\ IF child[w] = s /\ conn[w] # None /\ ~Disposed(w) THEN ServiceLost(w)
             ELSE UNCHANGED <<conn, timer, pref>>

RestartTimer(w) ==
  /\ timer[w] /\ ~Urgent(w) /\ timer' = [timer EXCEPT ![w] = FALSE]
  /\ UNCHANGED <<config, faults, savedPort, status, view, awaited, child, conn, restart, again, proc>>
  /\ BeginStart(w, pref[w])

-----------------------------------------------------------------------------
\* onDidChangeConfiguration, restartHttpService.
(* Mutant: a change during a restart is left to that restart. *)
RestartUnderWay(w) == restart' = [restart EXCEPT ![w] = IF @ = "no" THEN "wait" ELSE @] /\ UNCHANGED again
RestartHttpService(w) ==
  IF restart[w] = "no" THEN restart' = [restart EXCEPT ![w] = "wait"] /\ UNCHANGED again
  ELSE again' = [again EXCEPT ![w] = TRUE] /\ UNCHANGED restart
Settings(w) ==
  /\ status[w] \in {"starting", "on"} /\ view[w] # config /\ ~Urgent(w)
  /\ view' = [view EXCEPT ![w] = config]
  /\ IF status[w] = "on" THEN RestartHttpService(w) ELSE UNCHANGED <<restart, again>>
  /\ UNCHANGED <<config, faults, savedPort, status, service, proc>>
ChangeSettings ==
  /\ config < MaxChange
  /\ EarlyChange \/ \A w \in Windows : status[w] # "starting"
  /\ config' = config + 1 /\ UNCHANGED <<faults, savedPort, status, view, service, restart, again, proc>>

\* restart(), once the start under way has settled, and once the child has ended.
Restart(w) ==
  /\ restart[w] = "wait" /\ op[w] = "idle" /\ restart' = [restart EXCEPT ![w] = "stop"]
  /\ timer' = [timer EXCEPT ![w] = FALSE] /\ conn' = [conn EXCEPT ![w] = None] /\ StopChild(w)
  /\ pref' = [pref EXCEPT ![w] = IF conn[w] # None THEN conn[w].port ELSE savedPort]
  /\ awaited' = [awaited EXCEPT ![w] = child[w]]
  /\ UNCHANGED <<config, faults, savedPort, status, view, op, env, again>>
RestartBegins(w) ==
  /\ restart[w] = "stop" /\ awaited[w] = None
  /\ IF Disposed(w) THEN restart' = [restart EXCEPT ![w] = "no"] /\ UNCHANGED <<view, env, pref, op>>
     ELSE /\ restart' = [restart EXCEPT ![w] = "start"] /\ UNCHANGED view /\ BeginStart(w, pref[w])
  /\ UNCHANGED <<config, faults, savedPort, status, awaited, child, conn, timer, again, proc>>

Dispose(w) ==
  /\ w \in Closing /\ status[w] \in {"starting", "on"} /\ ~Urgent(w) /\ status' = [status EXCEPT ![w] = "disposed"]
  /\ timer' = [timer EXCEPT ![w] = FALSE] /\ conn' = [conn EXCEPT ![w] = None] /\ StopChild(w)
  /\ UNCHANGED <<config, faults, savedPort, view, op, env, pref, awaited, restart, again>>

-----------------------------------------------------------------------------
\* main of the server: it listens on the port it was given, or on a free one.
Free(q) == \A s \in Services : proc[s].state # "up" \/ proc[s].port # q
Becomes(s, state, port) ==
  /\ proc' = [proc EXCEPT ![s].state = state, ![s].port = port]
  /\ UNCHANGED <<config, savedPort, status, view, service, restart, again>>
Listen(s) ==
  /\ proc[s].state = "new" /\ UNCHANGED faults
  /\ \/ \E q \in Ports : proc[s].port \in {q, None} /\ Free(q) /\ Becomes(s, "up", q)
     \/ proc[s].port # None /\ ~Free(proc[s].port) /\ Becomes(s, "exited", None)
Shutdown(s) == proc[s].state = "ending" /\ UNCHANGED faults /\ Becomes(s, "exited", None)
Crash(s) == proc[s].state \in {"new", "up"} /\ Fault /\ Becomes(s, "exited", proc[s].port)

WindowStep(w) ==
  \/ ProbeHttpService(w) \/ Ready(w) \/ Saved(w) \/ RestartTimer(w)
  \/ Settings(w) \/ Restart(w) \/ RestartBegins(w)
ServiceStep(s) == Exit(s) \/ Listen(s) \/ Shutdown(s)
Next ==
  \/ \E w \in Windows : WindowStep(w) \/ Start(w) \/ StartTimeout(w) \/ Dispose(w)
  \/ \E s \in Services : ServiceStep(s) \/ Crash(s)
  \/ ChangeSettings

\* Events, continuations and timers of a window run; processes start and end.
Fairness == /\ \A w \in Windows : WF_vars(WindowStep(w))
            /\ \A s \in Services : WF_vars(ServiceStep(s))
Spec == Init /\ [][Next]_vars /\ Fairness

-----------------------------------------------------------------------------
\* Every service that was not told to end is the current child of its window, which
\* notices its exit; but a window closed during a start may leave one behind.
NoForgottenService ==
  \A s \in Services : proc[s].state \in {"new", "up"} => Disposed(proc[s].owner) \/ child[proc[s].owner] = s

\* The address a window gives out is its own child's, or one it found in use.
OwnServiceIsWatched ==
  \A w \in Windows : conn[w] # None /\ ~Disposed(w) => conn[w].own \in {None, child[w]}

\* An open window with nothing under way (no start, no restart, no timer, no change
\* of the settings to come) has the address of a service that was started with the
\* settings in force: no failure and no change leaves it without.
ServedAtRest ==
  \A w \in Windows :
    status[w] = "on" /\ op[w] = "idle" /\ restart[w] = "no" /\ ~timer[w] /\ view[w] = config
      => conn[w] # None /\ conn[w].cfg = config

\* Not so in the code (README, section 8).
\* A closed window leaves no service behind.
NoOrphanService ==
  \A w \in Windows : [](Disposed(w) => <>(\A s \in Services : proc[s].state = "up" => proc[s].owner # w))
\* The address a window has is that of a service that runs.
ServiceRuns ==
  \A w \in Windows : <>[](conn[w] # None => \E s \in Services : proc[s].state = "up" /\ proc[s].port = conn[w].port)
=============================================================================
