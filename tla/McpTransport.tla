---------------------------- MODULE McpTransport ----------------------------
(***************************************************************************)
(* How the MCP server process reaches a board: class CanmvBackend of       *)
(* mcp/server.ts, with the extension's McpBridgeServer (mcp/bridge.ts) and *)
(* the standalone backend process at the other ends.                       *)
(*                                                                         *)
(* A call is one HTTP request: it synchronises with the bridge, then sends *)
(* requests one after the other.  Calls run concurrently on one event loop:*)
(* an event handler is one action, and the continuations of a settled      *)
(* promise (at[c] in Continuing) run before the next event.                *)
(*                                                                         *)
(* Request ids come from one counter; `old` holds the ids in flight that   *)
(* were given out before the counter was last reset, and may be given out  *)
(* again, so that finitely many ids stand for a growing counter.           *)
(***************************************************************************)
EXTENDS Naturals, Sequences

CONSTANTS Calls, Sockets, Procs, Ids, None,
          Configured,     \* CANMV_MCP_BRIDGE_ENDPOINT and _TOKEN are set
          Required,       \* CANMV_MCP_BRIDGE_REQUIRED
          MaxQueue        \* bound: requests waiting at the bridge server

ASSUME ModesAssumption == Configured \in BOOLEAN /\ Required \in BOOLEAN
ASSUME NoneAssumption == None \notin Calls \cup Sockets \cup Procs \cup Ids

VARIABLES
  at, id,               \* the calls: where they are, and their request
  old, owner,           \* ids given out before the reset; the pending table
  isOpen, child, bridgeSocket, connecting, bridgeUnavailable,
  sock,                 \* the bridge connections
  todo, up,             \* the bridge server's requestQueue, and whether it runs
  proc, inbox,          \* backend processes and the requests they hold
  alone, crossed        \* history: a standalone backend was started, a call was
                        \* given the response to another one

calls == <<at, id, crossed>>
table == <<old, owner>>
link == <<isOpen, child, bridgeSocket, connecting, bridgeUnavailable>>
bridge == <<todo, up>>
backends == <<proc, inbox, alone>>
vars == <<calls, table, link, sock, bridge, backends>>

Continuing == {"synced", "unsynced", "opened", "refused", "standalone"}
Places == {"idle", "syncing", "ready", "waiting", "pending"} \cup Continuing

Elements(q) == {q[i] : i \in DOMAIN q}
\* Every id that is still written somewhere.
InUse == {i \in Ids : owner[i] # None}
  \cup ({id[c] : c \in Calls} \ {None})
  \cup {r.id : r \in Elements(todo)} \cup {r.id : r \in UNION {inbox[k] : k \in Procs}}

TypeOK ==
  /\ at \in [Calls -> Places] /\ id \in [Calls -> Ids \cup {None}]
  /\ alone \in BOOLEAN /\ crossed \in BOOLEAN
  /\ old \subseteq Ids /\ owner \in [Ids -> Calls \cup {None}]
  /\ isOpen \in BOOLEAN /\ bridgeUnavailable \in BOOLEAN
  /\ child \in Procs \cup {None} /\ {bridgeSocket, connecting} \subseteq Sockets \cup {None}
  /\ sock \in [Sockets -> {"free", "dialing", "open", "gone", "ended", "dead"}]
  /\ proc \in [Procs -> {"free", "running", "dying", "broken"}]

Init ==
  /\ at = [c \in Calls |-> "idle"] /\ id = [c \in Calls |-> None]
  /\ old = {} /\ owner = [i \in Ids |-> None]
  /\ isOpen = FALSE /\ child = None /\ bridgeSocket = None /\ connecting = None
  /\ bridgeUnavailable = FALSE
  /\ sock = [s \in Sockets |-> "free"] /\ todo = <<>> /\ up = TRUE
  /\ proc = [k \in Procs |-> "free"] /\ inbox = [k \in Procs |-> {}] /\ alone = FALSE /\ crossed = FALSE

Quiet == \A c \in Calls : at[c] \notin Continuing
\* "gone": closed at the far end, which the client has not noticed.
Writable(s) == s # None /\ sock[s] \in {"dialing", "open", "gone"}
\* A socket this process destroyed closes before more is read from the network.
Settled == \A s \in Sockets : sock[s] # "dead"

\* The waiters of bridgeConnectPromise, resolved or rejected.
Resolved(a) == [c \in Calls |-> CASE a[c] = "syncing" -> "synced"
                                  [] a[c] = "waiting" -> "opened" [] OTHER -> a[c]]
Rejected(a) == [c \in Calls |-> CASE a[c] = "syncing" -> "unsynced"
                                  [] a[c] = "waiting" -> "refused" [] OTHER -> a[c]]

\* resolvePending: every entry of the table is answered with an error.
Owners == {owner[i] : i \in Ids} \ {None}
ResolvePending(a) ==
  /\ at' = [c \in Calls |-> IF c \in Owners THEN "ready" ELSE a[c]]
  /\ id' = [c \in Calls |-> IF c \in Owners THEN None ELSE id[c]]
  /\ owner' = [i \in Ids |-> None]

\* One call's request is settled.
Settle(c) == at' = [at EXCEPT ![c] = "ready"] /\ id' = [id EXCEPT ![c] = None]

-----------------------------------------------------------------------------
\* openBridge, on behalf of call c: join the attempt, use the connection, or dial.
Joins == connecting # None
Connected == isOpen /\ Writable(bridgeSocket)
Dial(s) == /\ sock[s] = "free" /\ sock' = [sock EXCEPT ![s] = "dialing"]
           /\ bridgeSocket' = s /\ connecting' = s
OpenBridge(c, waits, done) ==
  \/ /\ Joins /\ at' = [at EXCEPT ![c] = waits] /\ UNCHANGED <<sock, bridgeSocket, connecting>>
  \/ /\ ~Joins /\ Connected /\ at' = [at EXCEPT ![c] = done]
     /\ UNCHANGED <<sock, bridgeSocket, connecting>>
  \/ /\ ~Joins /\ ~Connected /\ at' = [at EXCEPT ![c] = waits] /\ \E s \in Sockets : Dial(s)

KeepsLink == UNCHANGED <<isOpen, child, bridgeUnavailable>>

\* handleHttpRequest: syncBridgeState comes before the tool call.
SyncBridgeState(c) ==
  /\ Quiet /\ at[c] = "idle"
  /\ IF Configured THEN OpenBridge(c, "syncing", "synced")
     ELSE at' = [at EXCEPT ![c] = "ready"] /\ UNCHANGED <<sock, bridgeSocket, connecting>>
  /\ KeepsLink /\ UNCHANGED <<id, crossed, table, bridge, backends>>

Synced(c) == /\ at[c] = "synced" /\ at' = [at EXCEPT ![c] = "ready"]
             /\ UNCHANGED <<id, crossed, table, link, sock, bridge, backends>>
\* With the bridge required the HTTP request ends with status 503.
Unsynced(c) ==
  /\ at[c] = "unsynced" /\ at' = [at EXCEPT ![c] = IF Required THEN "idle" ELSE "ready"]
  /\ bridgeUnavailable' = TRUE
  /\ UNCHANGED <<id, crossed, table, isOpen, child, bridgeSocket, connecting,
                 sock, bridge, backends>>
Leave(c) == /\ Quiet /\ at[c] = "ready" /\ at' = [at EXCEPT ![c] = "idle"]
            /\ UNCHANGED <<id, crossed, table, link, sock, bridge, backends>>

\* request: the id is taken when the request is created, before open().
NewId(c, i) == /\ i \in (Ids \ InUse) \cup old
               /\ id' = [id EXCEPT ![c] = i] /\ old' = old \ {i}
Spawnable(k) == proc[k] = "free" \/ (proc[k] = "broken" /\ child # k)
HasTransport == isOpen /\ (child # None \/ bridgeSocket # None)
Open(c) ==
  \/ /\ HasTransport /\ at' = [at EXCEPT ![c] = "opened"]
     /\ UNCHANGED <<sock, bridgeSocket, connecting>>
  \/ ~HasTransport /\ Configured /\ ~bridgeUnavailable /\ OpenBridge(c, "waiting", "opened")
  \/ /\ ~HasTransport /\ (~Configured \/ bridgeUnavailable) /\ \E k \in Procs : Spawnable(k)
     /\ at' = [at EXCEPT ![c] = "standalone"] /\ UNCHANGED <<sock, bridgeSocket, connecting>>
Request(c) ==
  /\ Quiet /\ at[c] = "ready" /\ Len(todo) < MaxQueue /\ \E i \in Ids : NewId(c, i)
  /\ Open(c) /\ KeepsLink
  /\ UNCHANGED <<owner, crossed, bridge, backends>>

Alive == {k \in Procs : proc[k] \in {"running", "dying"}}
\* request, after open(): enter the table, write to the bridge, else to the child.
Send(c, k, stdin) ==
  LET r == [id |-> id[c], call |-> c] IN
  \/ /\ Writable(bridgeSocket)
     /\ todo' = Append(todo, [id |-> id[c], call |-> c, from |-> bridgeSocket])
     /\ owner' = [owner EXCEPT ![id[c]] = c] /\ at' = [at EXCEPT ![c] = "pending"]
     /\ UNCHANGED <<id, inbox>>
  \/ /\ ~Writable(bridgeSocket) /\ k \in stdin
     /\ inbox' = [inbox EXCEPT ![k] = @ \cup {r}] /\ owner' = [owner EXCEPT ![id[c]] = c]
     /\ at' = [at EXCEPT ![c] = "pending"] /\ UNCHANGED <<id, todo>>
  \/ /\ ~Writable(bridgeSocket) /\ k \notin stdin
     /\ owner' = [owner EXCEPT ![id[c]] = None] /\ Settle(c) /\ UNCHANGED <<todo, inbox>>
Opened(c) ==
  /\ at[c] = "opened" /\ UNCHANGED proc /\ Send(c, child, Alive)
  /\ UNCHANGED <<old, link, sock, up, alone, crossed>>
Refused(c) ==
  /\ at[c] = "refused" /\ bridgeUnavailable' = TRUE
  /\ IF Required THEN Settle(c) ELSE at' = [at EXCEPT ![c] = "standalone"] /\ UNCHANGED id
  /\ UNCHANGED <<crossed, table, isOpen, child, bridgeSocket, connecting,
                 sock, bridge, backends>>
\* The counter is reset and a backend is spawned, whichever it replaces.
Standalone(c) ==
  \E k \in Procs, fate \in {"running", "broken"} :
    /\ at[c] = "standalone" /\ Spawnable(k) /\ proc' = [proc EXCEPT ![k] = fate]
    /\ child' = k /\ isOpen' = TRUE /\ old' = InUse /\ alone' = TRUE
    /\ Send(c, k, {j \in {k} : fate = "running"})
    /\ UNCHANGED <<bridgeSocket, connecting, bridgeUnavailable,
                   sock, up, crossed>>

-----------------------------------------------------------------------------
(* Mutant: the timer answers the call and leaves its entry in the table. *)
TimeoutKeepsEntry(c) ==
  /\ Quiet /\ at[c] = "pending" /\ Settle(c)
  /\ UNCHANGED <<crossed, table, link, sock, bridge, backends>>
\* The request's timer removes whatever the table holds under its id.
Timeout(c) ==
  /\ Quiet /\ at[c] = "pending" /\ owner' = [owner EXCEPT ![id[c]] = None] /\ Settle(c)
  /\ UNCHANGED <<crossed, old, link, sock, bridge, backends>>
(* Mutant: a response is given to some waiting request, not to the one of its id. *)
HandleAnyResponse(r) ==
  IF Owners = {} THEN UNCHANGED <<calls, owner>>
  ELSE LET c == CHOOSE d \in Owners : TRUE IN
    /\ owner' = [i \in Ids |-> IF owner[i] = c THEN None ELSE owner[i]]
    /\ Settle(c) /\ crossed' = (crossed \/ c # r.call)
\* handleMessage: a response resolves the request its id stands for now.
HandleResponse(r) ==
  /\ owner' = [owner EXCEPT ![r.id] = None]
  /\ IF owner[r.id] = None THEN UNCHANGED calls
     ELSE Settle(owner[r.id]) /\ crossed' = (crossed \/ owner[r.id] # r.call)
\* handleBridgeData: the bridge's greeting.  The server, for its part, accepts the
\* connection, checks the token and answers the hello.
Hello(s) ==
  /\ Quiet /\ Settled /\ up /\ sock[s] = "dialing" /\ sock' = [sock EXCEPT ![s] = "open"]
  /\ isOpen' = TRUE /\ connecting' = None /\ at' = Resolved(at)
  /\ UNCHANGED <<id, crossed, table, child, bridgeSocket, bridgeUnavailable, bridge, backends>>

\* rejectBridgeConnect: the attempt under way fails, whosever failure it was.
RejectBridgeConnect(a) == connecting' = None /\ at' = Rejected(a)

\* openBridge's 3 s timer, and a dialled endpoint that nobody serves.
ConnectFails(s) ==
  /\ Quiet /\ \/ s = connecting /\ sock[s] \in {"dialing", "open", "gone", "ended"}
              \/ ~up /\ sock[s] = "dialing"
  /\ RejectBridgeConnect(at) /\ sock' = [sock EXCEPT ![s] = "dead"]
  /\ UNCHANGED <<id, crossed, table, isOpen, child, bridgeSocket,
                 bridgeUnavailable, bridge, backends>>

\* The 'close' event of a socket, then the close() calls that wait for it.
SocketClosed(s) ==
  /\ Quiet /\ sock[s] \in {"gone", "ended", "dead"} /\ sock' = [sock EXCEPT ![s] = "free"]
  /\ bridgeSocket' = (IF bridgeSocket = s THEN None ELSE bridgeSocket)
  /\ isOpen' = (isOpen /\ bridgeSocket # s)
  /\ connecting' = None /\ ResolvePending(Rejected(at))
  \* what it wrote may still be carried out, but nobody reads the replies
  /\ todo' = [i \in DOMAIN todo |-> IF todo[i].from = s THEN [todo[i] EXCEPT !.from = None] ELSE todo[i]]
  /\ UNCHANGED <<old, child, bridgeUnavailable, up, backends, crossed>>

\* close(): the bridge connection when there is one, else the backend process.
Close ==
  /\ Quiet
  /\ \/ /\ bridgeSocket # None
        /\ sock' = [sock EXCEPT ![bridgeSocket] = IF Writable(bridgeSocket) THEN "ended" ELSE @]
        /\ UNCHANGED <<at, id, owner, isOpen, child, proc>>
     \/ /\ bridgeSocket = None /\ child # None /\ child' = None /\ isOpen' = FALSE
        /\ proc' = [proc EXCEPT ![child] = IF @ = "running" THEN "dying" ELSE "free"]
        /\ ResolvePending(at) /\ UNCHANGED sock
  /\ UNCHANGED <<old, bridgeSocket, connecting, bridgeUnavailable, bridge, inbox, alone, crossed>>

-----------------------------------------------------------------------------
\* The bridge server: the requests of all clients join one queue and the
\* extension answers them in turn; `from` is the client, which may have closed its
\* connection since.  The client's handler resolves the request of that id.
Reply ==
  /\ Quiet /\ todo # <<>> /\ todo' = Tail(todo)
  /\ LET r == Head(todo) IN
     \/ /\ \E s \in Sockets : s = r.from /\ sock[s] \in {"open", "gone", "ended"}
        /\ Settled /\ HandleResponse(r)
     \/ r.from = None /\ UNCHANGED <<calls, owner>>
  /\ UNCHANGED <<old, link, sock, up, backends>>
\* The extension host is disposed, or activated again.
Dispose ==
  /\ Quiet /\ up /\ up' = FALSE /\ todo' = <<>>
  /\ sock' = [s \in Sockets |-> IF sock[s] = "open" THEN "gone" ELSE sock[s]]
  /\ UNCHANGED <<calls, table, link, backends>>
Start == Quiet /\ ~up /\ up' = TRUE /\ UNCHANGED <<calls, table, link, sock, todo, backends>>

\* The standalone backend answers, or exits, told to or not.
ChildAnswers(k) ==
  /\ Quiet /\ proc[k] = "running"
  /\ \E r \in inbox[k] : HandleResponse(r) /\ inbox' = [inbox EXCEPT ![k] = @ \ {r}]
  /\ UNCHANGED <<old, link, sock, bridge, proc, alone>>
ChildExits(k) ==
  /\ Quiet /\ proc[k] \in {"running", "dying"} /\ isOpen' = FALSE
  /\ child' = (IF child = k \/ (child # None /\ proc[child] = "broken") THEN None ELSE child)
  /\ proc' = [j \in Procs |-> IF j = k \/ (j = child /\ proc[j] = "broken") THEN "free" ELSE proc[j]]
  /\ inbox' = [inbox EXCEPT ![k] = {}] /\ ResolvePending(at)
  /\ UNCHANGED <<old, bridgeSocket, connecting, bridgeUnavailable,
                 sock, bridge, alone, crossed>>

Continue(c) == Synced(c) \/ Unsynced(c) \/ Opened(c) \/ Refused(c) \/ Standalone(c)
Next ==
  \/ \E c \in Calls : SyncBridgeState(c) \/ Continue(c) \/ Request(c) \/ Timeout(c) \/ Leave(c)
  \/ \E s \in Sockets : Hello(s) \/ ConnectFails(s) \/ SocketClosed(s)
  \/ \E k \in Procs : ChildAnswers(k) \/ ChildExits(k)
  \/ Close \/ Reply \/ Dispose \/ Start

Spec == Init /\ [][Next]_vars

-----------------------------------------------------------------------------
\* Nobody waits for nothing: a call that waits for the bridge waits for an attempt
\* whose timer or 'close' event is still to come, a request waiting in the table is
\* the one its call waits for, and unless ids were given out again every waiting
\* request is in the table.
NobodyStranded ==
  /\ \A c \in Calls : at[c] \in {"syncing", "waiting"} =>
       connecting # None /\ sock[connecting] \notin {"free", "open"}
  /\ \A i \in Ids : owner[i] # None => at[owner[i]] = "pending" /\ id[owner[i]] = i
  /\ \A c \in Calls : at[c] = "pending" => owner[id[c]] = c \/ alone

\* As long as no standalone backend has reset the counter, a call is only ever
\* given the response to its own request, also when answers are late.
OwnAnswers == crossed => alone

\* Not so in the code (README, section 8): the 'close' event of an earlier socket
\* rejects the attempt of its successor, which the next call then dials again;
\* the forgotten connection goes on delivering its events.
NoForgottenSocket == alone \/ \A s \in Sockets : Writable(s) => bridgeSocket = s

\* Not so in the code either: while the extension is active, board operations
\* are routed through its backend and session (extension README, 135).
RoutedThroughExtension == [][child' \notin {child, None} => ~up]_vars
=============================================================================
