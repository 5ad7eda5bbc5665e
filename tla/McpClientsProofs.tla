-------------------------- MODULE McpClientsProofs --------------------------
(***************************************************************************)
(* Theorems about McpClients, for any addresses and relay processes: the   *)
(* relay in use forwards to the service in use, no relay process is        *)
(* forgotten, and a run that ended well left the clients registered.       *)
(*                                                                         *)
(* A relay is started by the run alone, which waits for it: while one is   *)
(* being started none is in use.  What is reset meanwhile has another      *)
(* generation.  A run registers the address and host it began with, and    *)
(* is repeated when either is another by its end.                          *)
(***************************************************************************)
EXTENDS McpClients, TLAPS

-----------------------------------------------------------------------------
(* The inductive invariant.                                                *)
Places == {"idle", "resolve", "relay", "get", "read", "remove", "add", "headers", "undo", "verify"}
KidStates == {"none", "new", "up", "stopping", "exited"}

WindowTyped == conn \in Urls \cup {None} /\ lastUrl \in Urls \cup {None} /\ host \in {"native", "WSL"}
RunTyped ==
  /\ run \in [at : Places, target : Targets \cup {None}, conn : Urls \cup {None}, keep : BOOLEAN]
  /\ run.at # "idle" => run.target \in Targets /\ run.conn \in Urls
EntryTyped ==
  /\ entry \in [Targets -> Entries \cup {None}]
  /\ run.at = "headers" => entry[run.target] \in Entries
RelayTyped ==
  /\ generation \in Nat /\ instance \in Kids \cup {None} /\ startingChildren \subseteq Kids
  /\ start \in [stage : {"none", "path", "child"}, gen : Nat, up : Urls \cup {None}, last : BOOLEAN,
                kid : Kids \cup {None}]
  /\ kid \in [Kids -> [state : KidStates, up : Urls \cup {None}]]

(* A relay that is being started, for the run that waits for it.           *)
StartFlow ==
  /\ start.stage # "none" <=> run.at = "relay"
  /\ start.stage # "none" => instance = None /\ start.up \in Urls
  /\ start.kid # None => start.stage = "child"
  /\ start.gen <= generation
  /\ start.kid # None /\ start.gen = generation =>
       kid[start.kid].state \in {"new", "exited"} /\ kid[start.kid].up = start.up
(* The relay in use: lastUrl is the address of the service that is, or was *)
(* before it went away.                                                    *)
InUse ==
  /\ instance # None =>
       kid[instance].state \in {"up", "exited"} /\ kid[instance].up = lastUrl /\ lastUrl # None
  /\ conn # None => lastUrl = conn

IInv == WindowTyped /\ RunTyped /\ EntryTyped /\ RelayTyped /\ StartFlow /\ InUse /\ NoStrayRelay

(* A client's entry has address c, or was left to somebody else.           *)
Good(t, c) == entry[t] # None /\ (entry[t].managed => entry[t].url = IF t = "WSL" THEN Relay ELSE c)

(* What a run that is not to be repeated has done, and what it leaves.     *)
Registered ==
  /\ run.at # "idle" /\ ~again =>
       /\ run.target \in {host, "Claude"}
       /\ conn # None => conn = run.conn
       /\ run.target = "Claude" /\ ~failed => host \in foreign \/ Good(host, run.conn)
  /\ run.at = "idle" /\ ~failed /\ conn # None => \A t \in {host, "Claude"} \ foreign : Good(t, conn)

-----------------------------------------------------------------------------
(* What the parts of the actions do.                                       *)
LEMMA Goes ==
  ASSUME RunTyped, NEW there \in Places, run' = [run EXCEPT !.at = there]
  PROVE  /\ run'.at = there /\ run'.target = run.target /\ run'.conn = run.conn
         /\ run.at # "idle" => RunTyped'
<1>1. run'.at = there /\ run'.target = run.target /\ run'.conn = run.conn
  BY DEF RunTyped
<1>2. run' \in [at : Places, target : Targets \cup {None}, conn : Urls \cup {None}, keep : BOOLEAN]
  BY DEF RunTyped
<1> QED
  BY <1>1, <1>2 DEF RunTyped

LEMMA Begins ==
  ASSUME BeginRun, conn' \in Urls, host' \in {"native", "WSL"}
  PROVE  /\ run'.at \in {"resolve", "get"} /\ run'.target = host' /\ run'.conn = conn'
         /\ failed' = FALSE /\ RunTyped'
BY DEF BeginRun, RunTyped, Places, Targets

LEMMA Configures ==
  ASSUME NEW force \in BOOLEAN, ConfigureAutomatically(force)
  PROVE  \/ conn' = None /\ UNCHANGED <<run, failed, again>>
         \/ conn' # None /\ run.at = "idle" /\ BeginRun /\ UNCHANGED again
         \/ /\ conn' # None /\ run.at # "idle" /\ UNCHANGED <<run, failed>>
            /\ again' = (again \/ force \/ run.conn # conn')
<1>1. CASE conn' = None
  BY <1>1 DEF ConfigureAutomatically
<1>2. CASE conn' # None /\ run.at = "idle"
  BY <1>2 DEF ConfigureAutomatically
<1>3. CASE conn' # None /\ run.at # "idle"
  BY <1>3 DEF ConfigureAutomatically
<1> QED
  BY <1>1, <1>2, <1>3

(* The run goes on with the other client, ends, or begins anew.            *)
LEMMA NextClientDoes ==
  ASSUME WindowTyped, RunTyped, run.at # "idle", NEW fails \in BOOLEAN, NextClient(fails)
  PROVE  /\ UNCHANGED <<conn, lastUrl, host>> /\ RunTyped'
         /\ \/ /\ run.target # "Claude" /\ run'.at = "get"
               /\ run'.target = "Claude" /\ run'.conn = run.conn
               /\ failed' = (failed \/ fails) /\ UNCHANGED again
            \/ run.target = "Claude" /\ run'.at = "idle" /\ (~again \/ conn = None)
               /\ failed' = (failed \/ fails)
            \/ run.target = "Claude" /\ run'.at \in {"resolve", "get"} /\ run'.target = host
               /\ run'.conn = conn
<1>1. UNCHANGED <<conn, lastUrl, host>>
  BY DEF NextClient
<1>2. CASE run.target # "Claude"
  <2>1. run' = [run EXCEPT !.at = "get", !.target = "Claude"] /\ failed' = (failed \/ fails) /\ again' = again
    BY <1>2 DEF NextClient, Outcome
  <2>2. /\ run'.at = "get" /\ run'.target = "Claude" /\ run'.conn = run.conn
        /\ run' \in [at : Places, target : Targets \cup {None}, conn : Urls \cup {None}, keep : BOOLEAN]
    BY <2>1 DEF RunTyped, Places, Targets
  <2> QED
    BY <1>1, <1>2, <2>1, <2>2 DEF RunTyped, Targets
<1>3. CASE run.target = "Claude" /\ again /\ conn # None
  <2>1. BeginRun
    BY <1>3 DEF NextClient
  <2> QED
    BY <1>1, <1>3, <2>1, Begins DEF WindowTyped
<1>4. CASE run.target = "Claude" /\ ~(again /\ conn # None)
  <2>1. run' = NoRun /\ failed' = (failed \/ fails)
    BY <1>4 DEF NextClient, Outcome
  <2>2. run'.at = "idle" /\ RunTyped'
    BY <2>1 DEF NoRun, RunTyped, Places
  <2> QED
    BY <1>1, <1>4, <2>1, <2>2
<1> QED
  BY <1>2, <1>3, <1>4

(* After it the clients that this run has seen to are registered.          *)
LEMMA SuccessRegisters ==
  ASSUME WindowTyped, RunTyped, Registered, run.at # "idle", NextClient(FALSE),
         UNCHANGED <<foreign, entry>>, run.target \in foreign \/ Good(run.target, run.conn)
  PROVE  Registered'
<1> DEFINE on    == /\ run.target # "Claude" /\ run'.at = "get"
                    /\ run'.target = "Claude" /\ run'.conn = run.conn
                    /\ failed' = (failed \/ FALSE) /\ UNCHANGED again
           ends  == /\ run.target = "Claude" /\ run'.at = "idle" /\ (~again \/ conn = None)
                    /\ failed' = (failed \/ FALSE)
           anew  == /\ run.target = "Claude" /\ run'.at \in {"resolve", "get"} /\ run'.target = host
                    /\ run'.conn = conn
<1>1. UNCHANGED <<conn, lastUrl, host>> /\ (on \/ ends \/ anew)
  BY NextClientDoes
<1>2. host # "Claude"
  BY DEF WindowTyped
<1>3. CASE on
  BY <1>1, <1>2, <1>3 DEF Registered, Good
<1>4. CASE ends
  BY <1>1, <1>2, <1>4 DEF Registered, Good
<1>5. CASE anew
  BY <1>1, <1>2, <1>5 DEF Registered
<1> QED
  BY <1>1, <1>3, <1>4, <1>5

LEMMA FailureRegisters ==
  ASSUME WindowTyped, RunTyped, Registered, run.at # "idle", NextClient(TRUE)
  PROVE  Registered'
<1> DEFINE on    == /\ run.target # "Claude" /\ run'.at = "get"
                    /\ run'.target = "Claude" /\ run'.conn = run.conn
                    /\ failed' = (failed \/ TRUE) /\ UNCHANGED again
           ends  == /\ run.target = "Claude" /\ run'.at = "idle" /\ (~again \/ conn = None)
                    /\ failed' = (failed \/ TRUE)
           anew  == /\ run.target = "Claude" /\ run'.at \in {"resolve", "get"} /\ run'.target = host
                    /\ run'.conn = conn
<1>1. UNCHANGED <<conn, lastUrl, host>> /\ (on \/ ends \/ anew)
  BY NextClientDoes
<1>2. host # "Claude"
  BY DEF WindowTyped
<1> QED
  BY <1>1, <1>2 DEF Registered

(* Between its commands nothing but the entry of its client changes.       *)
LEMMA GoingOnRegisters ==
  ASSUME WindowTyped, RunTyped, Registered, run.at # "idle", run'.at # "idle",
         run'.target = run.target, run'.conn = run.conn,
         UNCHANGED <<conn, host, foreign, again, failed>>,
         \A t \in Targets : t # run.target => entry'[t] = entry[t]
  PROVE  Registered'
<1>1. host # "Claude" /\ host \in Targets
  BY DEF WindowTyped, Targets
<1> QED
  BY <1>1 DEF Registered, Good

-----------------------------------------------------------------------------
(* The relay while the clients are seen to.                                *)
Relayed == RelayTyped /\ StartFlow /\ InUse /\ NoStrayRelay

LEMMA RelayUntouched ==
  ASSUME Relayed, UNCHANGED <<relay, conn, lastUrl>>, run'.at = "relay" <=> run.at = "relay"
  PROVE  Relayed'
BY DEF Relayed, RelayTyped, StartFlow, InUse, NoStrayRelay, relay

LEMMA Stops ==
  ASSUME RelayTyped, NEW ks
  PROVE  /\ Stop(ks) \in [Kids -> [state : KidStates, up : Urls \cup {None}]]
         /\ \A k \in Kids : Stop(ks)[k].up = kid[k].up
         /\ \A k \in Kids : k \notin ks => Stop(ks)[k] = kid[k]
         /\ \A k \in ks \cap Kids : Stop(ks)[k].state \in {"stopping", "exited"}
<1>1. \A k \in Kids : [kid[k] EXCEPT !.state = "stopping"] \in [state : KidStates, up : Urls \cup {None}]
  BY DEF RelayTyped, KidStates
<1>2. \A k \in Kids : /\ [kid[k] EXCEPT !.state = "stopping"].up = kid[k].up
                      /\ [kid[k] EXCEPT !.state = "stopping"].state = "stopping"
  BY DEF RelayTyped
<1>3. kid \in [Kids -> [state : KidStates, up : Urls \cup {None}]]
  BY DEF RelayTyped
<1> QED
  BY <1>1, <1>2, <1>3 DEF Stop

(* A reset ends what is in use and what is being started.                  *)
LEMMA ResetKeeps ==
  ASSUME Relayed, Reset, run'.at = "relay" <=> run.at = "relay"
  PROVE  RelayTyped' /\ StartFlow' /\ NoStrayRelay' /\ instance' = None
<1> DEFINE ks == {instance} \cup startingChildren
<1>1. /\ generation' = generation + 1 /\ instance' = None /\ startingChildren' = {}
      /\ kid' = Stop(ks) /\ start' = start
  BY DEF Reset, StopInstances
<1>2. /\ Stop(ks) \in [Kids -> [state : KidStates, up : Urls \cup {None}]]
      /\ \A k \in Kids : k \notin ks => Stop(ks)[k] = kid[k]
      /\ \A k \in ks \cap Kids : Stop(ks)[k].state \in {"stopping", "exited"}
  BY Stops DEF Relayed
<1> HIDE DEF ks
<1>3. RelayTyped'
  BY <1>1, <1>2 DEF Relayed, RelayTyped
<1>4. start.gen \in Nat /\ generation \in Nat /\ start.gen <= generation
  BY DEF Relayed, RelayTyped, StartFlow
<1>5. StartFlow'
  BY <1>1, <1>4 DEF Relayed, StartFlow
<1>6. NoStrayRelay'
  BY <1>1, <1>2 DEF Relayed, NoStrayRelay, ks
<1> QED
  BY <1>1, <1>3, <1>5, <1>6

LEMMA ChangeConnectionKeeps ==
  ASSUME IInv, ChangeConnection
  PROVE  IInv' /\ (Registered => Registered')
<1>1. /\ WindowTyped' /\ UNCHANGED <<host, clients>> /\ conn' # conn
      /\ lastUrl' = IF conn' # None THEN conn' ELSE lastUrl
      /\ conn' \in Urls \cup {None}
  BY DEF ChangeConnection, IInv, WindowTyped
<1>2. ConfigureAutomatically(FALSE)
  BY DEF ChangeConnection
<1> DEFINE same == conn' = None /\ UNCHANGED <<run, failed, again>>
           new  == conn' # None /\ run.at = "idle" /\ BeginRun /\ UNCHANGED again
           more == /\ conn' # None /\ run.at # "idle" /\ UNCHANGED <<run, failed>>
                   /\ again' = (again \/ FALSE \/ run.conn # conn')
<1>3. same \/ new \/ more
  BY <1>2, Configures
<1>4. new => /\ run'.at \in {"resolve", "get"} /\ run'.target = host' /\ run'.conn = conn'
             /\ failed' = FALSE /\ RunTyped'
  BY <1>1, Begins DEF WindowTyped
<1>5. RunTyped' /\ EntryTyped' /\ (run'.at = "relay" <=> run.at = "relay")
  BY <1>1, <1>3, <1>4 DEF IInv, RunTyped, EntryTyped, clients
<1>6. Relayed'
  <2>1. CASE None \notin {conn', lastUrl} /\ conn' # lastUrl
    <3>1. Reset
      BY <2>1 DEF ChangeConnection
    <3>2. RelayTyped' /\ StartFlow' /\ NoStrayRelay' /\ instance' = None
      BY <1>5, <3>1, ResetKeeps DEF IInv, Relayed
    <3>3. InUse'
      BY <1>1, <3>2 DEF InUse
    <3> QED
      BY <3>2, <3>3 DEF Relayed
  <2>2. CASE ~(None \notin {conn', lastUrl} /\ conn' # lastUrl)
    <3>1. UNCHANGED relay
      BY <2>2 DEF ChangeConnection
    <3>2. RelayTyped' /\ StartFlow' /\ NoStrayRelay'
      BY <1>5, <3>1 DEF IInv, RelayTyped, StartFlow, NoStrayRelay, relay
    <3>3. InUse'
      BY <1>1, <2>2, <3>1 DEF IInv, InUse, relay
    <3> QED
      BY <3>2, <3>3 DEF Relayed
  <2> QED
    BY <2>1, <2>2
<1>7. Registered => Registered'
  <2> HAVE Registered
  <2>1. CASE same
    BY <1>1, <2>1 DEF Registered, Good, clients
  <2>2. CASE new
    BY <1>1, <1>4, <2>2 DEF Registered, IInv, WindowTyped
  <2>3. CASE more
    BY <1>1, <2>3 DEF Registered, Good, clients
  <2> QED
    BY <1>3, <2>1, <2>2, <2>3
<1> QED
  BY <1>1, <1>5, <1>6, <1>7 DEF IInv, Relayed

(* While there is a service a change of the host repeats the run.          *)
LEMMA ChangeHostKeeps ==
  ASSUME IInv, ChangeHost
  PROVE  IInv' /\ (Registered /\ ~HostChangesOffline => Registered')
<1>1. /\ WindowTyped' /\ UNCHANGED <<conn, lastUrl, clients>> /\ Reset
      /\ conn # None \/ HostChangesOffline
  BY DEF ChangeHost, IInv, WindowTyped
<1>2. ConfigureAutomatically(TRUE)
  BY DEF ChangeHost
<1> DEFINE same == conn' = None /\ UNCHANGED <<run, failed, again>>
           new  == conn' # None /\ run.at = "idle" /\ BeginRun /\ UNCHANGED again
           more == /\ conn' # None /\ run.at # "idle" /\ UNCHANGED <<run, failed>>
                   /\ again' = (again \/ TRUE \/ run.conn # conn')
<1>3. same \/ new \/ more
  BY <1>2, Configures
<1>4. new => /\ run'.at \in {"resolve", "get"} /\ run'.target = host' /\ run'.conn = conn'
             /\ failed' = FALSE /\ RunTyped'
  BY <1>1, Begins DEF WindowTyped
<1>5. RunTyped' /\ EntryTyped' /\ (run'.at = "relay" <=> run.at = "relay")
  BY <1>1, <1>3, <1>4 DEF IInv, RunTyped, EntryTyped, clients
<1>6. RelayTyped' /\ StartFlow' /\ NoStrayRelay' /\ instance' = None
  BY <1>1, <1>5, ResetKeeps DEF IInv, Relayed
<1>7. InUse'
  BY <1>1, <1>6 DEF IInv, InUse
<1>8. Registered /\ ~HostChangesOffline => Registered'
  BY <1>1, <1>3, <1>4 DEF Registered, WindowTyped
<1> QED
  BY <1>1, <1>5, <1>6, <1>7, <1>8 DEF IInv

-----------------------------------------------------------------------------
(* The start of the relay.                                                 *)
LEMMA ResolveKeeps ==
  ASSUME IInv, ResolveWslClientTarget
  PROVE  IInv' /\ (Registered => Registered')
<1>1. run.at = "resolve" /\ UNCHANGED clients
  BY DEF ResolveWslClientTarget
<1>2. CASE NextClient(TRUE) /\ UNCHANGED relay
  <2>1. /\ UNCHANGED <<conn, lastUrl, host>> /\ RunTyped' /\ run'.at \in {"get", "idle", "resolve"}
    BY <1>1, <1>2, NextClientDoes DEF IInv
  <2>2. Relayed'
    BY <1>1, <1>2, <2>1, RelayUntouched DEF IInv, Relayed
  <2>3. Registered => Registered'
    BY <1>1, <1>2, FailureRegisters DEF IInv
  <2> QED
    BY <1>1, <2>1, <2>2, <2>3 DEF IInv, Relayed, WindowTyped, EntryTyped, clients
<1>3. CASE instance # None /\ Goto("get") /\ UNCHANGED relay
  <2>1. /\ UNCHANGED <<conn, lastUrl, host, again, failed>> /\ run'.at = "get"
        /\ run'.target = run.target /\ run'.conn = run.conn /\ RunTyped'
    BY <1>1, <1>3, Goes DEF Goto, IInv, Places
  <2>2. Relayed'
    BY <1>1, <1>3, <2>1, RelayUntouched DEF IInv, Relayed
  <2>3. Registered => Registered'
    BY <1>1, <2>1, GoingOnRegisters DEF IInv, clients
  <2> QED
    BY <1>1, <2>1, <2>2, <2>3 DEF IInv, Relayed, WindowTyped, EntryTyped, clients
<1>4. CASE /\ instance = None /\ Goto("relay")
           /\ start' = [stage |-> "path", gen |-> generation, up |-> run.conn, last |-> ~savedPort,
                        kid |-> None]
           /\ UNCHANGED <<generation, instance, startingChildren, kid, savedPort>>
  <2>1. /\ UNCHANGED <<conn, lastUrl, host, again, failed>> /\ run'.at = "relay"
        /\ run'.target = run.target /\ run'.conn = run.conn /\ RunTyped' /\ run.conn \in Urls
    BY <1>1, <1>4, Goes DEF Goto, IInv, RunTyped, Places
  <2>2. RelayTyped'
    BY <1>4, <2>1 DEF IInv, RelayTyped
  <2>3. StartFlow' /\ InUse' /\ NoStrayRelay'
    BY <1>4, <2>1 DEF IInv, RelayTyped, StartFlow, InUse, NoStrayRelay
  <2>4. Registered => Registered'
    BY <1>1, <2>1, GoingOnRegisters DEF IInv, clients
  <2> QED
    BY <1>1, <2>1, <2>2, <2>3, <2>4 DEF IInv, WindowTyped, EntryTyped, clients
<1> QED
  BY <1>2, <1>3, <1>4 DEF ResolveWslClientTarget

(* A start that fails is over, or tries another port.                      *)
LEMMA StartFailsDoes ==
  ASSUME IInv, start.stage # "none", StartFails, UNCHANGED clients
  PROVE  /\ UNCHANGED <<conn, lastUrl, host>> /\ RunTyped' /\ WindowTyped' /\ EntryTyped'
         /\ start' \in [stage : {"none", "path", "child"}, gen : Nat, up : Urls \cup {None},
                        last : BOOLEAN, kid : Kids \cup {None}]
         /\ start'.kid = None /\ start'.gen \in {0, start.gen}
         /\ start'.stage # "none" => start'.up = start.up
         /\ start'.stage # "none" <=> run'.at = "relay"
         /\ Registered => Registered'
<1>1. run.at = "relay"
  BY DEF IInv, StartFlow
<1>2. CASE Superseded \/ start.last
  <2>1. start' = NoStart /\ NextClient(TRUE)
    BY <1>2 DEF StartFails
  <2>2. UNCHANGED <<conn, lastUrl, host>> /\ RunTyped' /\ run'.at \in {"get", "idle", "resolve"}
    BY <1>1, <2>1, NextClientDoes DEF IInv
  <2>3. Registered => Registered'
    BY <1>1, <2>1, FailureRegisters DEF IInv
  <2> QED
    BY <2>1, <2>2, <2>3 DEF IInv, NoStart, WindowTyped, EntryTyped, clients
<1>3. CASE ~(Superseded \/ start.last)
  <2>1. /\ start' = [start EXCEPT !.stage = "path", !.last = TRUE, !.kid = None]
        /\ UNCHANGED <<conn, lastUrl, host, run, again, failed, changes>>
    BY <1>3 DEF StartFails
  <2>2. Registered => Registered'
    BY <2>1 DEF Registered, Good, clients
  <2> QED
    BY <1>1, <2>1, <2>2 DEF IInv, RelayTyped, RunTyped, WindowTyped, EntryTyped, clients
<1> QED
  BY <1>2, <1>3

LEMMA StartRelayKeeps ==
  ASSUME IInv, StartRelay
  PROVE  IInv' /\ (Registered => Registered')
<1>1. /\ start.stage = "path" /\ UNCHANGED <<clients, generation, instance, savedPort>>
      /\ instance = None /\ start.gen \in Nat /\ start.gen <= generation
  BY DEF StartRelay, IInv, RelayTyped, StartFlow
<1>2. CASE StartFails /\ UNCHANGED <<startingChildren, kid>>
  <2>1. /\ UNCHANGED <<conn, lastUrl, host>> /\ RunTyped' /\ WindowTyped' /\ EntryTyped'
        /\ start' \in [stage : {"none", "path", "child"}, gen : Nat, up : Urls \cup {None},
                       last : BOOLEAN, kid : Kids \cup {None}]
        /\ start'.kid = None /\ start'.gen \in {0, start.gen}
        /\ start'.stage # "none" => start'.up = start.up
        /\ start'.stage # "none" <=> run'.at = "relay"
        /\ Registered => Registered'
    BY <1>1, <1>2, StartFailsDoes
  <2>2. RelayTyped'
    BY <1>1, <1>2, <2>1 DEF IInv, RelayTyped
  <2>3. StartFlow' /\ InUse' /\ NoStrayRelay'
    BY <1>1, <1>2, <2>1 DEF IInv, RelayTyped, StartFlow, InUse, NoStrayRelay
  <2> QED
    BY <2>1, <2>2, <2>3 DEF IInv
<1>3. CASE \E k \in Kids :
             /\ ~Superseded /\ UNCHANGED <<conn, lastUrl, host, run, again, failed, changes, faults>>
             /\ kid[k].state = "none" /\ kid' = [kid EXCEPT ![k] = [state |-> "new", up |-> start.up]]
             /\ startingChildren' = startingChildren \cup {k}
             /\ start' = [start EXCEPT !.stage = "child", !.kid = k]
  <2>1. PICK k \in Kids :
             /\ ~Superseded /\ UNCHANGED <<conn, lastUrl, host, run, again, failed, changes, faults>>
             /\ kid[k].state = "none" /\ kid' = [kid EXCEPT ![k] = [state |-> "new", up |-> start.up]]
             /\ startingChildren' = startingChildren \cup {k}
             /\ start' = [start EXCEPT !.stage = "child", !.kid = k]
    BY <1>3
  <2>2. /\ start' \in [stage : {"none", "path", "child"}, gen : Nat, up : Urls \cup {None},
                       last : BOOLEAN, kid : Kids \cup {None}]
        /\ start'.stage = "child" /\ start'.kid = k /\ start'.up = start.up /\ start'.gen = start.gen
    BY <2>1 DEF IInv, RelayTyped
  <2>3. /\ kid' \in [Kids -> [state : KidStates, up : Urls \cup {None}]]
        /\ kid'[k].state = "new" /\ kid'[k].up = start.up /\ \A j \in Kids : j # k => kid'[j] = kid[j]
    BY <2>1 DEF IInv, RelayTyped, KidStates
  <2>4. RelayTyped'
    BY <1>1, <2>1, <2>2, <2>3 DEF IInv, RelayTyped
  <2>5. StartFlow' /\ InUse' /\ NoStrayRelay'
    BY <1>1, <2>1, <2>2, <2>3, NoneAssumption
    DEF IInv, RelayTyped, StartFlow, InUse, NoStrayRelay
  <2>6. RunTyped' /\ WindowTyped' /\ EntryTyped' /\ (Registered => Registered')
    BY <1>1, <2>1 DEF IInv, RunTyped, WindowTyped, EntryTyped, Registered, Good, clients
  <2> QED
    BY <2>4, <2>5, <2>6 DEF IInv
<1> QED
  BY <1>2, <1>3 DEF StartRelay

LEMMA FinishKeeps ==
  ASSUME IInv, NEW k \in Kids, Finish(k)
  PROVE  IInv' /\ (Registered => Registered')
<1>1. /\ start.kid = k /\ kid[k].state \in {"new", "stopping"} /\ UNCHANGED <<clients, generation>>
      /\ startingChildren' = startingChildren \ {k}
  BY DEF Finish
<1>2. /\ start.stage = "child" /\ run.at = "relay" /\ instance = None /\ start.up \in Urls
      /\ start.gen \in Nat /\ generation \in Nat /\ start.gen <= generation
  BY <1>1, NoneAssumption DEF IInv, RelayTyped, StartFlow
<1>3. CASE (start.up = conn \/ kid[k].state = "stopping") /\ ~Superseded /\ Verified(k)
  <2>1. kid[k].state = "new" /\ kid[k].up = start.up
    BY <1>1, <1>3, NoneAssumption DEF IInv, StartFlow, Superseded
  <2>2. start.up = conn /\ lastUrl = conn /\ conn # None
    BY <1>2, <1>3, <2>1, NoneAssumption DEF IInv, InUse
  <2>3. /\ instance' = k /\ kid' = [kid EXCEPT ![k].state = "up"] /\ start' = NoStart
        /\ run' = [run EXCEPT !.at = "get"] /\ UNCHANGED <<conn, lastUrl, host, again, failed>>
    BY <1>3 DEF Verified, Goto
  <2>4. run'.at = "get" /\ run'.target = run.target /\ run'.conn = run.conn /\ RunTyped'
    BY <1>2, <2>3, Goes DEF IInv, Places
  <2>5. /\ kid' \in [Kids -> [state : KidStates, up : Urls \cup {None}]]
        /\ kid'[k].state = "up" /\ kid'[k].up = conn /\ \A j \in Kids : j # k => kid'[j] = kid[j]
    BY <2>1, <2>2, <2>3 DEF IInv, RelayTyped, KidStates
  <2>6. RelayTyped'
    BY <1>1, <2>3, <2>5 DEF IInv, RelayTyped, NoStart
  <2>7. StartFlow' /\ InUse'
    BY <1>1, <1>2, <2>2, <2>3, <2>4, <2>5, NoneAssumption DEF IInv, StartFlow, InUse, NoStart
  <2>9. NoStrayRelay'
    BY <1>1, <1>2, <2>3, <2>5, NoneAssumption DEF IInv, NoStrayRelay
  <2>8. Registered => Registered'
    BY <1>1, <1>2, <2>3, <2>4, GoingOnRegisters DEF IInv, clients
  <2> QED
    BY <1>1, <2>3, <2>4, <2>6, <2>7, <2>8, <2>9 DEF IInv, WindowTyped, EntryTyped, clients
<1>4. CASE kid' = Stop({k}) /\ UNCHANGED <<instance, savedPort>> /\ StartFails
  <2>1. /\ UNCHANGED <<conn, lastUrl, host>> /\ RunTyped' /\ WindowTyped' /\ EntryTyped'
        /\ start' \in [stage : {"none", "path", "child"}, gen : Nat, up : Urls \cup {None},
                       last : BOOLEAN, kid : Kids \cup {None}]
        /\ start'.kid = None /\ start'.gen \in {0, start.gen}
        /\ start'.stage # "none" => start'.up = start.up
        /\ start'.stage # "none" <=> run'.at = "relay"
        /\ Registered => Registered'
    BY <1>1, <1>2, <1>4, StartFailsDoes
  <2>2. /\ kid' \in [Kids -> [state : KidStates, up : Urls \cup {None}]]
        /\ \A j \in Kids : j # k => kid'[j] = kid[j]
        /\ kid'[k].state \in {"stopping", "exited"}
    BY <1>4, Stops DEF IInv
  <2>3. RelayTyped'
    BY <1>1, <1>4, <2>1, <2>2 DEF IInv, RelayTyped
  <2>4. StartFlow' /\ InUse'
    BY <1>1, <1>2, <1>4, <2>1, <2>2 DEF IInv, StartFlow, InUse
  <2>5. NoStrayRelay'
    BY <1>1, <1>2, <1>4, <2>2, NoneAssumption DEF IInv, NoStrayRelay
  <2> QED
    BY <2>1, <2>3, <2>4, <2>5 DEF IInv
<1> QED
  BY <1>3, <1>4 DEF Finish

(* The exit of a relay process is seen.                                    *)
LEMMA RelayExitKeeps ==
  ASSUME IInv, NEW k \in Kids, RelayExit(k)
  PROVE  IInv' /\ (Registered => Registered')
<1>1. /\ kid[k].state = "exited" /\ kid' = [kid EXCEPT ![k] = NoKid] /\ UNCHANGED <<clients, generation>>
      /\ startingChildren' = startingChildren \ {k} /\ instance' = IF instance = k THEN None ELSE instance
      /\ start.gen \in Nat /\ generation \in Nat /\ start.gen <= generation
  BY DEF RelayExit, IInv, RelayTyped, StartFlow
<1>2. /\ kid' \in [Kids -> [state : KidStates, up : Urls \cup {None}]]
      /\ kid'[k].state = "none" /\ \A j \in Kids : j # k => kid'[j] = kid[j]
  BY <1>1 DEF IInv, RelayTyped, NoKid, KidStates
<1>3. CASE start.kid = k
  <2>1. start.stage = "child" /\ instance = None /\ start.up \in Urls
    BY <1>3, NoneAssumption DEF IInv, StartFlow
  <2>2. StartFails
    BY <1>3 DEF RelayExit
  <2>3. /\ UNCHANGED <<conn, lastUrl, host>> /\ RunTyped' /\ WindowTyped' /\ EntryTyped'
        /\ start' \in [stage : {"none", "path", "child"}, gen : Nat, up : Urls \cup {None},
                       last : BOOLEAN, kid : Kids \cup {None}]
        /\ start'.kid = None /\ start'.gen \in {0, start.gen}
        /\ start'.stage # "none" => start'.up = start.up
        /\ start'.stage # "none" <=> run'.at = "relay"
        /\ Registered => Registered'
    BY <1>1, <2>1, <2>2, StartFailsDoes
  <2>4. RelayTyped'
    BY <1>1, <1>2, <2>1, <2>3 DEF IInv, RelayTyped
  <2>5. StartFlow' /\ InUse' /\ NoStrayRelay'
    BY <1>1, <1>2, <2>1, <2>3 DEF IInv, StartFlow, InUse, NoStrayRelay
  <2> QED
    BY <2>3, <2>4, <2>5 DEF IInv
<1>4. CASE start.kid # k
  <2>1. UNCHANGED <<start, conn, lastUrl, host, run, again, failed>>
    BY <1>4 DEF RelayExit
  <2>2. RelayTyped'
    BY <1>1, <1>2, <2>1 DEF IInv, RelayTyped
  <2>3. StartFlow' /\ InUse' /\ NoStrayRelay'
    BY <1>1, <1>2, <1>4, <2>1 DEF IInv, RelayTyped, StartFlow, InUse, NoStrayRelay
  <2>4. RunTyped' /\ WindowTyped' /\ EntryTyped' /\ (Registered => Registered')
    BY <1>1, <2>1 DEF IInv, RunTyped, WindowTyped, EntryTyped, Registered, Good, clients
  <2> QED
    BY <2>2, <2>3, <2>4 DEF IInv
<1> QED
  BY <1>3, <1>4

LEMMA DieKeeps ==
  ASSUME IInv, NEW k \in Kids, Die(k)
  PROVE  IInv' /\ (Registered => Registered')
<1>1. /\ kid' = [kid EXCEPT ![k].state = "exited"]
      /\ UNCHANGED <<conn, lastUrl, host, clients, run, again, failed>>
      /\ UNCHANGED <<generation, instance, startingChildren, start, savedPort>>
  BY DEF Die
<1>2. /\ kid' \in [Kids -> [state : KidStates, up : Urls \cup {None}]]
      /\ kid'[k].state = "exited" /\ kid'[k].up = kid[k].up /\ \A j \in Kids : j # k => kid'[j] = kid[j]
  BY <1>1 DEF IInv, RelayTyped, KidStates
<1>3. RelayTyped'
  BY <1>1, <1>2 DEF IInv, RelayTyped
<1>4. StartFlow' /\ InUse' /\ NoStrayRelay'
  BY <1>1, <1>2 DEF IInv, RelayTyped, StartFlow, InUse, NoStrayRelay
<1>5. RunTyped' /\ WindowTyped' /\ EntryTyped' /\ (Registered => Registered')
  BY <1>1 DEF IInv, RunTyped, WindowTyped, EntryTyped, Registered, Good, clients
<1> QED
  BY <1>3, <1>4, <1>5 DEF IInv

-----------------------------------------------------------------------------
(* The commands of a client.  Each goes on with another one, fails, or     *)
(* finds the client registered.                                            *)
Commands == {"get", "read", "remove", "add", "headers", "undo", "verify"}

LEMMA CommandKeeps ==
  ASSUME IInv, run.at \in Commands, UNCHANGED <<relay, conn, lastUrl, host>>,
         run'.at # "relay", RunTyped', EntryTyped'
  PROVE  IInv'
<1>1. Relayed'
  BY RelayUntouched DEF IInv, Relayed, Commands
<1> QED
  BY <1>1 DEF IInv, Relayed, WindowTyped

LEMMA GoesOn ==
  ASSUME IInv, run.at \in Commands, UNCHANGED <<relay, conn, lastUrl, host, foreign, again, failed>>,
         NEW there \in Commands, RunTyped',
         run'.at = there, run'.target = run.target, run'.conn = run.conn,
         entry' \in [Targets -> Entries \cup {None}],
         \A t \in Targets : t # run.target => entry'[t] = entry[t],
         there = "headers" => entry'[run.target] \in Entries
  PROVE  IInv' /\ (Registered => Registered')
<1>1. run.at # "idle" /\ run'.at \notin {"idle", "relay"}
  BY DEF Commands
<1>2. EntryTyped'
  BY DEF EntryTyped
<1>3. IInv'
  BY <1>1, <1>2, CommandKeeps
<1>4. Registered => Registered'
  BY <1>1, GoingOnRegisters DEF IInv
<1> QED
  BY <1>3, <1>4

LEMMA GoesTo ==
  ASSUME IInv, run.at \in Commands, UNCHANGED <<relay, foreign>>,
         NEW there \in Commands, Goto(there),
         entry' \in [Targets -> Entries \cup {None}],
         \A t \in Targets : t # run.target => entry'[t] = entry[t],
         there = "headers" => entry'[run.target] \in Entries
  PROVE  IInv' /\ (Registered => Registered')
<1>1. run' = [run EXCEPT !.at = there] /\ UNCHANGED <<conn, lastUrl, host, again, failed>>
  BY DEF Goto
<1>2. run'.at = there /\ run'.target = run.target /\ run'.conn = run.conn /\ RunTyped'
  BY <1>1, Goes DEF IInv, Commands, Places
<1> QED
  BY <1>1, <1>2, GoesOn

LEMMA Fails ==
  ASSUME IInv, run.at \in Commands, UNCHANGED relay, NextClient(TRUE),
         entry' \in [Targets -> Entries \cup {None}]
  PROVE  IInv' /\ (Registered => Registered')
<1>1. run.at # "idle"
  BY DEF Commands
<1>2. UNCHANGED <<conn, lastUrl, host>> /\ RunTyped' /\ run'.at \in {"idle", "get", "resolve"}
  BY <1>1, NextClientDoes DEF IInv
<1>3. EntryTyped'
  BY <1>2 DEF EntryTyped
<1>4. Registered => Registered'
  BY <1>1, FailureRegisters DEF IInv
<1> QED
  BY <1>2, <1>3, <1>4, CommandKeeps

LEMMA Succeeds ==
  ASSUME IInv, run.at \in Commands, UNCHANGED <<relay, foreign, entry>>, NextClient(FALSE),
         run.target \in foreign \/ Good(run.target, run.conn)
  PROVE  IInv' /\ (Registered => Registered')
<1>1. run.at # "idle"
  BY DEF Commands
<1>2. UNCHANGED <<conn, lastUrl, host>> /\ RunTyped' /\ run'.at \in {"idle", "get", "resolve"}
  BY <1>1, NextClientDoes DEF IInv
<1>3. EntryTyped'
  BY <1>2 DEF EntryTyped, IInv
<1>4. Registered => Registered'
  BY <1>1, SuccessRegisters DEF IInv
<1> QED
  BY <1>2, <1>3, <1>4, CommandKeeps

LEMMA CurrentIsGood == IsCurrent => Good(run.target, run.conn)
BY DEF IsCurrent, Saved, Definition, Good

LEMMA Saves ==
  ASSUME IInv, NEW e \in Entries \cup {None}, Save(e), run.at # "idle"
  PROVE  /\ entry' \in [Targets -> Entries \cup {None}] /\ entry'[run.target] = e
         /\ \A t \in Targets : t # run.target => entry'[t] = entry[t]
BY DEF IInv, RunTyped, EntryTyped, Save

LEMMA GetKeeps ==
  ASSUME IInv, Get
  PROVE  IInv' /\ (Registered => Registered')
<1>1. run.at \in Commands /\ UNCHANGED <<relay, foreign, entry>> /\ {"read", "remove", "add"} \subseteq Commands
      /\ entry \in [Targets -> Entries \cup {None}]
  BY DEF Get, Command, Commands, IInv, EntryTyped
<1>2. \/ Goto("add") \/ Goto("remove") \/ Goto("read")
      \/ NextClient(FALSE) /\ (run.target \in foreign \/ IsCurrent \/ (Saved # None /\ ~Saved.managed))
  <2>1. CASE run.target \in foreign \/ IsCurrent
    <3>1. \/ run.target \in foreign
          \/ run.target \notin foreign /\ Saved # None /\ Saved.managed
      BY <2>1 DEF IsCurrent
    <3>2. CASE run.target \in foreign
      BY <2>1, <3>2 DEF Get
    <3>3. CASE run.target \notin foreign /\ Saved # None /\ Saved.managed
      BY <2>1, <3>3 DEF Get
    <3> QED
      BY <3>1, <3>2, <3>3
  <2>2. CASE ~IsCurrent /\ run.target \notin foreign /\ Saved = None
    BY <2>2 DEF Get
  <2>3. CASE ~IsCurrent /\ run.target \notin foreign /\ Saved # None /\ ~Saved.managed
    BY <2>3 DEF Get
  <2>4. CASE ~IsCurrent /\ run.target \notin foreign /\ Saved # None /\ Saved.managed
    BY <2>4 DEF Get
  <2> QED
    BY <2>1, <2>2, <2>3, <2>4
<1>3. CASE Goto("add")
  BY <1>1, <1>3, GoesTo
<1>4. CASE Goto("remove")
  BY <1>1, <1>4, GoesTo
<1>5. CASE Goto("read")
  BY <1>1, <1>5, GoesTo
<1>6. CASE NextClient(FALSE) /\ (run.target \in foreign \/ IsCurrent \/ (Saved # None /\ ~Saved.managed))
  <2>1. run.target \in foreign \/ Good(run.target, run.conn)
    BY <1>6, CurrentIsGood DEF Good, Saved
  <2> QED
    BY <1>1, <1>6, <2>1, Succeeds
<1> QED
  BY <1>2, <1>3, <1>4, <1>5, <1>6

LEMMA ReadKeeps ==
  ASSUME IInv, Read
  PROVE  IInv' /\ (Registered => Registered')
<1>1. run.at \in Commands /\ UNCHANGED <<relay, foreign, entry>> /\ "remove" \in Commands
      /\ entry \in [Targets -> Entries \cup {None}]
  BY DEF Read, Command, Commands, IInv, EntryTyped
<1>2. CASE NextClient(TRUE)
  BY <1>1, <1>2, Fails
<1>3. CASE /\ UNCHANGED <<conn, lastUrl, host, again, failed>>
           /\ run' = [run EXCEPT !.at = "remove", !.keep = Saved # None /\ ~Saved.enabled]
  <2>1. /\ run'.at = "remove" /\ run'.target = run.target /\ run'.conn = run.conn
        /\ run' \in [at : Places, target : Targets \cup {None}, conn : Urls \cup {None}, keep : BOOLEAN]
    BY <1>3 DEF IInv, RunTyped, Places
  <2>2. RunTyped'
    BY <1>1, <2>1 DEF IInv, RunTyped, Commands
  <2> QED
    BY <1>1, <1>3, <2>1, <2>2, GoesOn
<1> QED
  BY <1>2, <1>3 DEF Read

LEMMA RemoveKeeps ==
  ASSUME IInv, Remove
  PROVE  IInv' /\ (Registered => Registered')
<1>1. run.at \in Commands /\ UNCHANGED <<relay, foreign>> /\ "add" \in Commands /\ run.at # "idle"
      /\ entry \in [Targets -> Entries \cup {None}]
  BY DEF Remove, Command, Commands, IInv, EntryTyped
<1>2. CASE NextClient(TRUE) /\ UNCHANGED entry
  BY <1>1, <1>2, Fails
<1>3. CASE Save(None) /\ Goto("add")
  BY <1>1, <1>3, Saves, GoesTo
<1> QED
  BY <1>2, <1>3 DEF Remove

LEMMA AddKeeps ==
  ASSUME IInv, Add
  PROVE  IInv' /\ (Registered => Registered')
<1> DEFINE e == [url |-> Definition, managed |-> run.target = "Claude", enabled |-> TRUE]
<1>1. run.at \in Commands /\ UNCHANGED <<relay, foreign>> /\ {"verify", "headers"} \subseteq Commands
      /\ run.at # "idle" /\ entry \in [Targets -> Entries \cup {None}]
  BY DEF Add, Command, Commands, IInv, EntryTyped
<1>2. e \in Entries
  <2>1. Definition \in Urls \cup {Relay} /\ (run.target = "Claude") \in BOOLEAN
    BY <1>1 DEF Definition, IInv, RunTyped
  <2> QED
    BY <2>1 DEF Entries
<1>3. CASE NextClient(TRUE) /\ UNCHANGED entry
  BY <1>1, <1>3, Fails
<1>4. CASE Save(e) /\ Goto(IF run.target = "Claude" THEN "verify" ELSE "headers")
  <2> HIDE DEF e
  <2>1. /\ entry' \in [Targets -> Entries \cup {None}] /\ entry'[run.target] \in Entries
        /\ \A t \in Targets : t # run.target => entry'[t] = entry[t]
    BY <1>1, <1>2, <1>4, Saves
  <2>2. CASE run.target = "Claude"
    <3>1. Goto("verify")
      BY <1>4, <2>2
    <3> QED
      BY <1>1, <2>1, <3>1, GoesTo
  <2>3. CASE run.target # "Claude"
    <3>1. Goto("headers")
      BY <1>4, <2>3
    <3> QED
      BY <1>1, <2>1, <3>1, GoesTo
  <2> QED
    BY <2>2, <2>3
<1> QED
  BY <1>3, <1>4 DEF Add

LEMMA WriteHeadersKeeps ==
  ASSUME IInv, WriteHeaders
  PROVE  IInv' /\ (Registered => Registered')
<1> DEFINE e == [Saved EXCEPT !.managed = TRUE, !.enabled = ~run.keep /\ Saved.enabled]
<1>1. run.at \in Commands /\ UNCHANGED <<relay, foreign>> /\ {"verify", "undo"} \subseteq Commands
      /\ run.at # "idle" /\ entry \in [Targets -> Entries \cup {None}] /\ Saved \in Entries
  BY DEF WriteHeaders, Command, Commands, IInv, EntryTyped, Saved
<1>2. e \in Entries
  <2>1. (~run.keep /\ Saved.enabled) \in BOOLEAN
    OBVIOUS
  <2> QED
    BY <1>1, <2>1 DEF Entries
<1>3. \/ Goto("undo") /\ UNCHANGED entry
      \/ Save(e) /\ (Goto("verify") \/ Goto("undo"))
  BY DEF WriteHeaders, WritePrivateFile
<1> HIDE DEF e
<1>4. CASE Goto("undo") /\ UNCHANGED entry
  BY <1>1, <1>4, GoesTo
<1>5. CASE Save(e) /\ (Goto("verify") \/ Goto("undo"))
  <2>1. /\ entry' \in [Targets -> Entries \cup {None}]
        /\ \A t \in Targets : t # run.target => entry'[t] = entry[t]
    BY <1>1, <1>2, <1>5, Saves
  <2> QED
    BY <1>1, <1>5, <2>1, GoesTo
<1> QED
  BY <1>3, <1>4, <1>5

LEMMA UndoKeeps ==
  ASSUME IInv, Undo
  PROVE  IInv' /\ (Registered => Registered')
<1>1. run.at \in Commands /\ UNCHANGED relay /\ run.at # "idle" /\ NextClient(TRUE)
      /\ entry \in [Targets -> Entries \cup {None}]
  BY DEF Undo, Command, Commands, IInv, EntryTyped
<1>2. entry' \in [Targets -> Entries \cup {None}]
  BY <1>1, Saves DEF Undo
<1> QED
  BY <1>1, <1>2, Fails

LEMMA VerifyKeeps ==
  ASSUME IInv, Verify
  PROVE  IInv' /\ (Registered => Registered')
<1>1. run.at \in Commands /\ UNCHANGED <<relay, foreign, entry>> /\ "undo" \in Commands
      /\ entry \in [Targets -> Entries \cup {None}]
  BY DEF Verify, Command, Commands, IInv, EntryTyped
<1>2. CASE IsCurrent /\ NextClient(FALSE)
  BY <1>1, <1>2, CurrentIsGood, Succeeds
<1>3. CASE Goto("undo")
  BY <1>1, <1>3, GoesTo
<1>4. CASE NextClient(TRUE)
  BY <1>1, <1>4, Fails
<1> QED
  BY <1>2, <1>3, <1>4 DEF Verify

LEMMA UserDisablesKeeps ==
  ASSUME IInv, NEW t \in Targets, UserDisables(t)
  PROVE  IInv' /\ (Registered => Registered')
<1>1. /\ run.at = "idle" /\ entry[t] # None /\ entry' = [entry EXCEPT ![t].enabled = FALSE]
      /\ UNCHANGED <<conn, lastUrl, host, foreign, run, again, failed, relay>>
  BY DEF UserDisables
<1>2. entry[t] \in Entries /\ entry \in [Targets -> Entries \cup {None}]
  BY <1>1 DEF IInv, EntryTyped
<1> DEFINE e == [entry[t] EXCEPT !.enabled = FALSE]
<1>3. e \in Entries /\ e # None /\ e.url = entry[t].url /\ e.managed = entry[t].managed
  BY <1>2, NoneAssumption DEF Entries
<1>4. entry' = [entry EXCEPT ![t] = e]
  BY <1>1
<1> HIDE DEF e
<1>5. EntryTyped'
  BY <1>1, <1>2, <1>3, <1>4 DEF EntryTyped
<1>6. RunTyped' /\ WindowTyped' /\ Relayed'
  BY <1>1, RelayUntouched DEF IInv, RunTyped, WindowTyped, Relayed
<1>7. Registered => Registered'
  <2>1. host \in Targets /\ "Claude" \in Targets
    BY DEF IInv, WindowTyped, Targets
  <2>2. \A c \in {host, "Claude"} :
          /\ entry[c] # None => entry'[c] # None
          /\ entry'[c].managed = entry[c].managed /\ entry'[c].url = entry[c].url
    BY <1>2, <1>3, <1>4, <2>1
  <2> QED
    BY <1>1, <2>2 DEF Registered, Good
<1> QED
  BY <1>1, <1>5, <1>6, <1>7 DEF IInv, Relayed

-----------------------------------------------------------------------------
LEMMA InitEstablishes == Init => IInv /\ Registered
<1> SUFFICES ASSUME Init PROVE IInv /\ Registered
  OBVIOUS
<1>1. WindowTyped /\ RunTyped
  BY DEF Init, WindowTyped, RunTyped, NoRun, Places
<1>2. EntryTyped
  BY DEF Init, EntryTyped, NoRun
<1>3. RelayTyped
  BY DEF Init, RelayTyped, NoStart, NoKid, KidStates
<1>4. StartFlow /\ InUse /\ NoStrayRelay
  BY DEF Init, StartFlow, InUse, NoStrayRelay, NoStart, NoRun, NoKid
<1>5. Registered
  BY DEF Init, Registered, NoRun
<1> QED
  BY <1>1, <1>2, <1>3, <1>4, <1>5 DEF IInv

LEMMA StepKeeps ==
  ASSUME IInv, [Next]_vars
  PROVE  IInv' /\ (Registered /\ ~HostChangesOffline => Registered')
<1>1. CASE ChangeConnection
  BY <1>1, ChangeConnectionKeeps
<1>2. CASE ChangeHost
  BY <1>2, ChangeHostKeeps
<1>3. CASE ResolveWslClientTarget
  BY <1>3, ResolveKeeps
<1>4. CASE StartRelay
  BY <1>4, StartRelayKeeps
<1>5. ASSUME NEW k \in Kids, Finish(k) \/ RelayExit(k) \/ Die(k)
      PROVE  IInv' /\ (Registered => Registered')
  BY <1>5, FinishKeeps, RelayExitKeeps, DieKeeps
<1>6. CASE Get
  BY <1>6, GetKeeps
<1>7. CASE Read
  BY <1>7, ReadKeeps
<1>8. CASE Remove
  BY <1>8, RemoveKeeps
<1>9. CASE Add
  BY <1>9, AddKeeps
<1>10. CASE WriteHeaders
  BY <1>10, WriteHeadersKeeps
<1>11. CASE Undo
  BY <1>11, UndoKeeps
<1>12. CASE Verify
  BY <1>12, VerifyKeeps
<1>13. ASSUME NEW t \in Targets, UserDisables(t)
       PROVE  IInv' /\ (Registered => Registered')
  BY <1>13, UserDisablesKeeps
<1>14. CASE UNCHANGED vars
  <2>1. UNCHANGED <<relay, conn, lastUrl, host, clients, run, again, failed>>
    BY <1>14 DEF vars
  <2>2. Relayed'
    BY <2>1, RelayUntouched DEF IInv, Relayed
  <2> QED
    BY <2>1, <2>2
    DEF IInv, Relayed, WindowTyped, RunTyped, EntryTyped, Registered, Good, clients
<1> QED
  BY <1>1, <1>2, <1>3, <1>4, <1>5, <1>6, <1>7, <1>8, <1>9, <1>10, <1>11, <1>12, <1>13, <1>14 DEF Next

-----------------------------------------------------------------------------
(* Every state of every behaviour satisfies the invariant.                 *)
THEOREM Invariant == Spec => []IInv
<1>1. Init => IInv
  BY InitEstablishes
<1>2. IInv /\ [Next]_vars => IInv'
  BY StepKeeps
<1> QED
  BY <1>1, <1>2, PTL DEF Spec

(* The relay a client in WSL is given forwards to the service in use,      *)
(* whatever was started, reset or exited in between (reset, start and      *)
(* finish of wslHttpRelay.ts).                                             *)
THEOREM RelayForwardsToService == Spec => []RelayIsCurrent
<1>1. IInv => RelayIsCurrent
  BY DEF IInv, InUse, RelayIsCurrent
<1> QED
  BY <1>1, Invariant, PTL

(* No relay process runs that is neither in use, being started nor told to *)
(* end (stopInstances of wslHttpRelay.ts).                                 *)
THEOREM NoRelayIsForgotten == Spec => []NoStrayRelay
<1>1. IInv => NoStrayRelay
  BY DEF IInv
<1> QED
  BY <1>1, Invariant, PTL

(* Once a run ended without a failure the clients have the address in      *)
(* force, as long as the host changes only while there is a service        *)
(* (configureClients of provider.ts).                                      *)
THEOREM ClientsAreRegistered == ~HostChangesOffline => (Spec => []RegisteredAtRest)
<1>1. Init => IInv /\ Registered
  BY InitEstablishes
<1>2. ~HostChangesOffline /\ IInv /\ Registered /\ [Next]_vars => (IInv /\ Registered)'
  BY StepKeeps
<1>3. IInv /\ Registered => RegisteredAtRest
  BY DEF Registered, RegisteredAtRest, Good, NoRun
<1>4. CASE ~HostChangesOffline
  <2>1. IInv /\ Registered /\ [Next]_vars => (IInv /\ Registered)'
    BY <1>2, <1>4
  <2> QED
    BY <1>1, <1>3, <2>1, PTL DEF Spec
<1>5. CASE HostChangesOffline
  BY <1>5
<1> QED
  BY <1>4, <1>5
=============================================================================
