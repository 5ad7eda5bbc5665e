----------------------------- MODULE McpClients -----------------------------
(***************************************************************************)
(* The registration of the MCP service with other programs' clients        *)
(* (mcp/clientRegistration.ts, configureClients of mcp/provider.ts) and    *)
(* the relay to a client inside WSL (mcp/wslHttpRelay.ts), in one window.  *)
(* Codex is registered on the host the settings select, Claude Code on the *)
(* native one.  A relay listens on one address in its distribution.        *)
(***************************************************************************)
EXTENDS Naturals, FiniteSets

CONSTANTS Urls, Relay, None,   \* addresses of the service, and of the relay in WSL
          Kids,                \* relay processes; ids are reused
          MaxChanges,          \* bound: changes of the connection and of the host
          MaxFaults,           \* bound: commands that fail or time out, processes that die
          HostChangesOffline   \* Codex's host may change while there is no service

VARIABLES
  conn, lastUrl, host,         \* httpConnection, lastRelayUpstreamUrl, Codex's host
  entry, foreign, disabled,    \* what the clients saved; the user's doing
  run, again, failed,          \* configurePromise, configureAgain, its result
  generation, instance, startingChildren, start, kid, savedPort,   \* the relay service
  changes, faults

clients == <<entry, foreign, disabled>>
relay == <<generation, instance, startingChildren, start, kid, savedPort>>
vars == <<conn, lastUrl, host, clients, run, again, failed, relay, changes, faults>>

Targets == {"native", "WSL", "Claude"}    \* Codex on either host, and Claude Code
Entries == [url : Urls \cup {Relay}, managed : BOOLEAN, enabled : BOOLEAN]
ASSUME NoneAssumption == None \notin Urls \cup Kids \cup Entries
NoRun == [at |-> "idle", target |-> None, conn |-> None, keep |-> FALSE]
NoStart == [stage |-> "none", gen |-> 0, up |-> None, last |-> FALSE, kid |-> None]
NoKid == [state |-> "none", up |-> None]

TypeOK ==
  /\ {conn, lastUrl} \subseteq Urls \cup {None} /\ host \in {"native", "WSL"}
  /\ entry \in [Targets -> Entries \cup {None}] /\ {foreign, disabled} \subseteq SUBSET Targets
  /\ run.at \in {"idle", "resolve", "relay", "get", "read", "remove", "add", "headers", "undo", "verify"}
  /\ start.stage \in {"none", "path", "child"} /\ startingChildren \subseteq Kids
  /\ instance \in Kids \cup {None}
  /\ \A k \in Kids : kid[k].state \in {"none", "new", "up", "stopping", "exited"}
  /\ {again, failed, savedPort} \subseteq BOOLEAN

Init ==
  /\ conn = None /\ lastUrl = None /\ host \in {"native", "WSL"}
  /\ entry \in [Targets -> {None} \cup {e \in Entries : e.url # Relay /\ e.managed}]
  /\ entry["native"] = None /\ entry["WSL"] = None
  /\ foreign \in {{}, {"Claude"}} /\ (entry["Claude"] # None => foreign = {})
  /\ disabled = {} /\ run = NoRun /\ again = FALSE /\ failed = FALSE
  /\ generation = 0 /\ instance = None /\ startingChildren = {} /\ start = NoStart
  /\ kid = [k \in Kids |-> NoKid] /\ savedPort = FALSE /\ changes = 0 /\ faults = 0

Fault == faults < MaxFaults /\ faults' = faults + 1

-----------------------------------------------------------------------------
\* configureClients.  codexRequiresWsl is read when a run begins.
BeginRun ==
  /\ run' = [at |-> IF host' = "WSL" THEN "resolve" ELSE "get", target |-> host', conn |-> conn', keep |-> FALSE]
  /\ failed' = FALSE
(* Mutant: a run under way is taken to do for the new connection as well. *)
JoinRun(force) == IF run.at = "idle" /\ conn' # None THEN BeginRun /\ UNCHANGED again ELSE UNCHANGED <<run, failed, again>>
ConfigureAutomatically(force) ==
  CASE conn' = None -> UNCHANGED <<run, failed, again>>
    [] conn' # None /\ run.at = "idle" -> BeginRun /\ UNCHANGED again
    [] OTHER -> again' = (again \/ force \/ run.conn # conn') /\ UNCHANGED <<run, failed>>

\* stopInstances, reset: a start of an earlier generation comes to nothing.
Stop(ks) == [k \in Kids |-> IF k \in ks /\ kid[k].state # "exited" THEN [kid[k] EXCEPT !.state = "stopping"] ELSE kid[k]]
(* Mutant: the processes that are being started are forgotten. *)
StopUp == kid' = Stop({instance}) /\ instance' = None /\ startingChildren' = {}
StopInstances == kid' = Stop({instance} \cup startingChildren) /\ instance' = None /\ startingChildren' = {}
Reset == generation' = generation + 1 /\ StopInstances /\ UNCHANGED <<start, savedPort>>

\* onDidChangeConnection.
ChangeConnection ==
  /\ changes < MaxChanges /\ changes' = changes + 1
  /\ \E c \in Urls \cup {None} : c # conn /\ conn' = c
  /\ IF None \notin {conn', lastUrl} /\ conn' # lastUrl THEN Reset ELSE UNCHANGED relay
  /\ lastUrl' = (IF conn' # None THEN conn' ELSE lastUrl)
  /\ UNCHANGED <<host, clients, faults>> /\ ConfigureAutomatically(FALSE)
\* onDidChangeConfiguration.
ChangeHost ==
  /\ changes < MaxChanges /\ changes' = changes + 1 /\ (conn # None \/ HostChangesOffline)
  /\ host' = (IF host = "WSL" THEN "native" ELSE "WSL") /\ Reset
  /\ UNCHANGED <<conn, lastUrl, clients, faults>> /\ ConfigureAutomatically(TRUE)

-----------------------------------------------------------------------------
\* The run goes on with Claude Code, or ends, and begins anew if it has to.
Outcome(fails) == failed' = (failed \/ fails)
NextClient(fails) ==
  /\ UNCHANGED <<conn, lastUrl, host, changes>>
  /\ IF run.target # "Claude"
     THEN run' = [run EXCEPT !.at = "get", !.target = "Claude"] /\ Outcome(fails) /\ UNCHANGED again
     ELSE /\ again' = FALSE
          /\ IF again /\ conn # None THEN BeginRun ELSE run' = NoRun /\ Outcome(fails)
Goto(at) == run' = [run EXCEPT !.at = at] /\ UNCHANGED <<conn, lastUrl, host, again, failed, changes>>

\* resolveWslClientTarget and start.
ResolveWslClientTarget ==
  /\ run.at = "resolve" /\ UNCHANGED clients
  /\ \/ Fault /\ NextClient(TRUE) /\ UNCHANGED relay
     \/ /\ UNCHANGED faults
        /\ IF instance # None THEN Goto("get") /\ UNCHANGED relay
           ELSE /\ Goto("relay")
                /\ start' = [stage |-> "path", gen |-> generation, up |-> run.conn, last |-> ~savedPort, kid |-> None]
                /\ UNCHANGED <<generation, instance, startingChildren, kid, savedPort>>
(* Mutant: the generation is not looked at. *)
NeverSuperseded == FALSE
Superseded == start.gen # generation
\* A start on the saved port that failed is followed by one on another port.
StartFails ==
  IF Superseded \/ start.last THEN start' = NoStart /\ NextClient(TRUE)
  ELSE /\ start' = [start EXCEPT !.stage = "path", !.last = TRUE, !.kid = None]
       /\ UNCHANGED <<conn, lastUrl, host, run, again, failed, changes>>

\* startRelay, after resolveRelayPath.
StartRelay ==
  /\ start.stage = "path" /\ UNCHANGED <<clients, generation, instance, savedPort>>
  /\ \/ /\ IF Superseded THEN UNCHANGED faults ELSE Fault
        /\ StartFails /\ UNCHANGED <<startingChildren, kid>>
     \/ /\ ~Superseded /\ UNCHANGED <<conn, lastUrl, host, run, again, failed, changes, faults>>
        /\ \E k \in Kids :
             /\ kid[k].state = "none" /\ kid' = [kid EXCEPT ![k] = [state |-> "new", up |-> start.up]]
             /\ startingChildren' = startingChildren \cup {k}
             /\ start' = [start EXCEPT !.stage = "child", !.kid = k]
\* The relay's self-test passes through it to the service, which must answer.
Verified(k) ==
  /\ instance' = k /\ kid' = [kid EXCEPT ![k].state = "up"] /\ savedPort' = TRUE
  /\ start' = NoStart /\ Goto("get")
Finish(k) ==
  /\ start.kid = k /\ kid[k].state \in {"new", "stopping"}
  /\ startingChildren' = startingChildren \ {k} /\ UNCHANGED <<clients, generation>>
  /\ \/ /\ start.up = conn \/ kid[k].state = "stopping"      \* its result was on the way
        /\ ~Superseded /\ UNCHANGED faults /\ Verified(k)
     \/ /\ IF start.up = conn THEN Fault ELSE UNCHANGED faults
        /\ kid' = Stop({k}) /\ UNCHANGED <<instance, savedPort>> /\ StartFails
RelayExit(k) ==
  /\ kid[k].state = "exited" /\ kid' = [kid EXCEPT ![k] = NoKid]
  /\ startingChildren' = startingChildren \ {k} /\ instance' = (IF instance = k THEN None ELSE instance)
  /\ UNCHANGED <<clients, faults, generation, savedPort>>
  /\ IF start.kid = k THEN StartFails ELSE UNCHANGED <<start, conn, lastUrl, host, run, again, failed, changes>>
Die(k) ==
  /\ kid[k].state \in {"new", "up", "stopping"} /\ kid' = [kid EXCEPT ![k].state = "exited"]
  /\ IF kid[k].state = "stopping" THEN UNCHANGED faults ELSE Fault
  /\ UNCHANGED <<conn, lastUrl, host, clients, run, again, failed, changes>>
  /\ UNCHANGED <<generation, instance, startingChildren, start, savedPort>>

-----------------------------------------------------------------------------
\* configureCodex and configureClaude: one command of the client at a time.
Definition == IF run.target = "WSL" THEN Relay ELSE run.conn
Saved == entry[run.target]
IsCurrent == Saved # None /\ Saved.url = Definition /\ Saved.managed
Save(e) == entry' = [entry EXCEPT ![run.target] = e]
Command(at) == run.at = at /\ UNCHANGED <<foreign, disabled, relay>>

Get ==
  /\ Command("get") /\ UNCHANGED entry
  /\ \/ Fault /\ Goto("add")     \* taken for no entry
     \/ /\ UNCHANGED faults
        /\ CASE run.target \in foreign \/ IsCurrent -> NextClient(FALSE)
             [] run.target \notin foreign /\ Saved = None -> Goto("add")
             [] run.target \notin foreign /\ Saved # None /\ ~Saved.managed -> NextClient(FALSE)
             [] OTHER -> Goto(IF run.target = "Claude" THEN "remove" ELSE "read")
\* isCodexEntryExplicitlyDisabled.
Read ==
  /\ Command("read") /\ UNCHANGED entry
  /\ \/ Fault /\ NextClient(TRUE)
     \/ /\ UNCHANGED <<faults, conn, lastUrl, host, again, failed, changes>>
        /\ run' = [run EXCEPT !.at = "remove", !.keep = Saved # None /\ ~Saved.enabled]
Remove ==
  /\ Command("remove")
  /\ \/ Fault /\ NextClient(TRUE) /\ UNCHANGED entry
     \/ UNCHANGED faults /\ Save(None) /\ Goto("add")
\* The client refuses a name that is taken.
Add ==
  /\ Command("add")
  /\ \/ /\ IF run.target \in foreign THEN UNCHANGED faults ELSE Fault
        /\ NextClient(TRUE) /\ UNCHANGED entry
     \/ /\ UNCHANGED faults /\ run.target \notin foreign
        /\ Save([url |-> Definition, managed |-> run.target = "Claude", enabled |-> TRUE])
        /\ Goto(IF run.target = "Claude" THEN "verify" ELSE "headers")
\* The file is replaced as a whole or not at all, and may fail to be read back then.
WritePrivateFile(e) ==
  \/ Fault /\ Goto("undo") /\ UNCHANGED entry
  \/ Save(e) /\ UNCHANGED faults /\ Goto("verify")
  \/ Save(e) /\ Fault /\ Goto("undo")
WriteHeaders ==
  Command("headers") /\ WritePrivateFile([Saved EXCEPT !.managed = TRUE, !.enabled = ~run.keep /\ Saved.enabled])
Undo ==
  /\ Command("undo") /\ NextClient(TRUE)
  /\ \/ Fault /\ UNCHANGED entry
     \/ UNCHANGED faults /\ Save(None)
Verify ==
  /\ Command("verify") /\ UNCHANGED entry
  /\ \/ IsCurrent /\ UNCHANGED faults /\ NextClient(FALSE)
     \/ Fault /\ IF run.target = "Claude" THEN Goto("undo") ELSE NextClient(TRUE)

\* The user disables the server in Codex.
UserDisables(t) ==
  /\ t # "Claude" /\ run.at = "idle" /\ entry[t] # None /\ entry[t].managed /\ t \notin disabled
  /\ disabled' = disabled \cup {t} /\ entry' = [entry EXCEPT ![t].enabled = FALSE]
  /\ UNCHANGED <<conn, lastUrl, host, foreign, run, again, failed, relay, changes, faults>>

Next ==
  \/ ChangeConnection \/ ChangeHost \/ ResolveWslClientTarget \/ StartRelay
  \/ \E k \in Kids : Finish(k) \/ RelayExit(k) \/ Die(k)
  \/ Get \/ Read \/ Remove \/ Add \/ WriteHeaders \/ Undo \/ Verify
  \/ \E t \in Targets : UserDisables(t)
Spec == Init /\ [][Next]_vars

-----------------------------------------------------------------------------
\* Once a run is over without a failure the clients have the address in force, also
\* when the connection or the host changed meanwhile.
RegisteredAtRest ==
  run = NoRun /\ ~failed /\ conn # None =>
    \A t \in {host, "Claude"} \ foreign :
      \/ entry[t] # None /\ entry[t].url = (IF t = "WSL" THEN Relay ELSE conn) /\ entry[t].managed
      \/ entry[t] # None /\ ~entry[t].managed

\* The relay in use forwards to the service in use.
RelayIsCurrent == instance # None /\ conn # None => kid[instance].up = conn

\* A relay process that was not told to end is in use or being started.
NoStrayRelay == \A k \in Kids : kid[k].state \in {"new", "up"} => k = instance \/ k \in startingChildren

\* Not so in the code (README, section 8).
\* A server the user disabled in Codex stays disabled (extension README, 131).
DisabledStaysDisabled ==
  \A t \in disabled : run = NoRun /\ entry[t] # None => ~entry[t].enabled
\* A client registered with the relay finds one.
RelayIsThere ==
  run = NoRun /\ ~failed /\ conn # None /\ host = "WSL" => instance # None
\* The name of the server is never left to an entry no later run will touch.
NothingHalfRegistered == \A t \in Targets : run = NoRun /\ entry[t] # None => entry[t].managed
=============================================================================
