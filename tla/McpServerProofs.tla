---------------------------- MODULE McpServerProofs ---------------------------
(***************************************************************************)
(* Theorems about the two models of mcp/server.ts: McpTransport (class     *)
(* CanmvBackend), which this module extends, and McpTools (CanmvMcpHandler)*)
(* over McpBoard: the instance Handler of the second half.                 *)
(*                                                                         *)
(* McpTransport, for any calls, connections and processes: no call waits   *)
(* for something that cannot come, and without a standalone backend none   *)
(* is given the response to another one.  A waiting call has its entry in  *)
(* the table under its own id, and every way of taking an entry out wakes  *)
(* the call.  As long as the counter was not reset an id belongs to one    *)
(* call, also while what was written under it waits in the bridge server's *)
(* queue after its call gave up.                                           *)
(***************************************************************************)
EXTENDS McpTransport, McpBoard, SequenceTheorems, TLAPS

-----------------------------------------------------------------------------
(* The inductive invariant.                                                *)
Written == [id : Ids, call : Calls, from : Sockets \cup {None}]
Held    == [id : Ids, call : Calls]
SocketStates == {"free", "dialing", "open", "gone", "ended", "dead"}

CallsTyped == at \in [Calls -> Places] /\ id \in [Calls -> Ids \cup {None}]
TableTyped == old \subseteq Ids /\ owner \in [Ids -> Calls \cup {None}]
LinkTyped ==
  /\ child \in Procs \cup {None} /\ sock \in [Sockets -> SocketStates]
  /\ bridgeSocket \in Sockets \cup {None} /\ connecting \in Sockets \cup {None}
EndsTyped ==
  /\ todo \in Seq(Written) /\ proc \in [Procs -> {"free", "running", "dying", "broken"}]
  /\ inbox \in [Procs -> SUBSET Held]
Typed == CallsTyped /\ TableTyped /\ LinkTyped /\ EndsTyped

(* An attempt that is joined is one that is still to end.                  *)
Dialled ==
  /\ connecting # None => sock[connecting] \notin {"free", "open"}
  /\ \A c \in Calls : at[c] \in {"syncing", "waiting"} => connecting # None

(* A request that was created has an id.                                   *)
Numbered ==
  \A c \in Calls : at[c] \in {"waiting", "opened", "refused", "standalone", "pending"} => id[c] \in Ids

Entered ==
  /\ \A i \in Ids : owner[i] # None => at[owner[i]] = "pending" /\ id[owner[i]] = i
  /\ \A c \in Calls : at[c] = "pending" => owner[id[c]] = c \/ alone

(* Before the counter is first reset an id is that of one call.            *)
Unshared ==
  /\ \A c, d \in Calls : id[c] # None /\ id[c] = id[d] => c = d
  /\ \A n \in 1 .. Len(todo), c \in Calls : id[c] = todo[n].id => todo[n].call = c
Fresh ==
  ~alone => /\ old = {} /\ ~crossed /\ Unshared
            /\ \A k \in Procs : proc[k] = "free" /\ inbox[k] = {}

IInv == Typed /\ Dialled /\ Numbered /\ Entered /\ Fresh

-----------------------------------------------------------------------------
(* What the parts of the actions do.                                       *)

(* Calls that a step may give up their requests and leaves the others be.  *)
GivesUp == \A c \in Calls : \/ at'[c] = at[c] /\ id'[c] = id[c]
                            \/ at'[c] = "ready" /\ id'[c] = None

LEMMA FreshKeeps ==
  ASSUME Typed, Fresh, ~alone' => ~alone /\ old' = {} /\ ~crossed' /\ UNCHANGED <<proc, inbox>>,
         \A c \in Calls : id'[c] \in {id[c], None},
         Len(todo') \in Nat,
         \A n \in 1 .. Len(todo') :
           \E m \in 1 .. Len(todo) : todo'[n].id = todo[m].id /\ todo'[n].call = todo[m].call
  PROVE  Fresh'
<1>1. \A m \in 1 .. Len(todo) : todo[m] \in Written
  BY ElementOfSeq DEF Typed, EndsTyped
<1>2. \A m \in 1 .. Len(todo) : todo[m].id # None
  BY <1>1, NoneAssumption DEF Written
<1>3. ~alone' => Unshared'
  BY <1>2, SMTT(20) DEF Fresh, Unshared
<1> QED
  BY <1>3 DEF Fresh

LEMMA SameTodo ==
  ASSUME Typed, UNCHANGED todo
  PROVE  /\ Len(todo') \in Nat
         /\ \A n \in 1 .. Len(todo') :
              \E m \in 1 .. Len(todo) : todo'[n].id = todo[m].id /\ todo'[n].call = todo[m].call
BY LenProperties DEF Typed, EndsTyped

LEMMA SettleDoes ==
  ASSUME CallsTyped, NEW c \in Calls, Settle(c)
  PROVE  CallsTyped' /\ at'[c] = "ready" /\ id'[c] = None
         /\ \A d \in Calls \ {c} : at'[d] = at[d] /\ id'[d] = id[d]
BY DEF Settle, CallsTyped, Places

(* resolvePending, of what the waiters of an attempt became.               *)
LEMMA ResolvePendingDoes ==
  ASSUME Typed, Numbered, Entered, NEW a \in [Calls -> Places], ResolvePending(a),
         \A c \in Calls : a[c] = "pending" <=> at[c] = "pending"
  PROVE  /\ CallsTyped' /\ owner' \in [Ids -> Calls \cup {None}] /\ (alone' = alone => Entered')
         /\ \A c \in Calls : \/ at'[c] = a[c] /\ id'[c] = id[c]
                             \/ at'[c] = "ready" /\ id'[c] = None
<1>1. /\ at' = [c \in Calls |-> IF c \in Owners THEN "ready" ELSE a[c]]
      /\ id' = [c \in Calls |-> IF c \in Owners THEN None ELSE id[c]]
      /\ owner' = [i \in Ids |-> None]
  BY DEF ResolvePending
<1>2. CallsTyped' /\ owner' \in [Ids -> Calls \cup {None}]
  BY <1>1 DEF Typed, CallsTyped, Places
<1>3. \A c \in Calls : \/ at'[c] = a[c] /\ id'[c] = id[c]
                       \/ at'[c] = "ready" /\ id'[c] = None
  BY <1>1
<1>4. ASSUME alone' = alone PROVE Entered'
  <2>1. \A i \in Ids : owner'[i] = None
    BY <1>1
  <2>2. ASSUME NEW c \in Calls, at'[c] = "pending" PROVE alone'
    <3>1. c \notin Owners /\ at[c] = "pending" /\ c # None
      BY <1>1, <2>2, NoneAssumption
    <3>2. id[c] \in Ids /\ owner[id[c]] # c
      BY <3>1 DEF Owners, Numbered
    <3>3. owner[id[c]] = c \/ alone
      BY <3>1 DEF Entered
    <3> QED
      BY <1>4, <3>1, <3>2, <3>3 DEF Entered
  <2> QED
    BY <2>1, <2>2 DEF Entered
<1> QED
  BY <1>2, <1>3, <1>4

(* A response, to the request its id stands for by now.                    *)
LEMMA HandleResponseDoes ==
  ASSUME Typed, Entered, Fresh, NEW r, r.id \in Ids, r.call \in Calls, HandleResponse(r),
         ~alone => \A c \in Calls : id[c] = r.id => c = r.call, UNCHANGED alone
  PROVE  /\ CallsTyped' /\ owner' \in [Ids -> Calls \cup {None}] /\ Entered' /\ GivesUp
         /\ ~alone => ~crossed'
<1>1. /\ owner' = [owner EXCEPT ![r.id] = None]
      /\ owner \in [Ids -> Calls \cup {None}] /\ CallsTyped
  BY DEF HandleResponse, Typed, TableTyped
<1>2. /\ owner' \in [Ids -> Calls \cup {None}] /\ owner'[r.id] = None
      /\ \A i \in Ids \ {r.id} : owner'[i] = owner[i]
  BY <1>1
<1>3. CASE owner[r.id] = None
  <2>1. UNCHANGED <<at, id, crossed>> /\ owner' = owner
    BY <1>1, <1>3 DEF HandleResponse, calls
  <2> QED
    BY <1>1, <1>2, <2>1 DEF CallsTyped, Entered, GivesUp, Fresh
<1>4. CASE owner[r.id] # None
  <2> DEFINE c == owner[r.id]
  <2>1. c \in Calls /\ at[c] = "pending" /\ id[c] = r.id
    BY <1>1, <1>4 DEF Entered
  <2>2. Settle(c) /\ crossed' = (crossed \/ c # r.call)
    BY <1>4 DEF HandleResponse
  <2>3. PICK d \in Calls : d = c
    BY <2>1
  <2> HIDE DEF c
  <2>4. CallsTyped' /\ at'[d] = "ready" /\ id'[d] = None
        /\ \A e \in Calls \ {d} : at'[e] = at[e] /\ id'[e] = id[e]
    BY <1>1, <2>1, <2>2, <2>3, SettleDoes
  <2>5. GivesUp
    BY <2>4 DEF GivesUp
  <2>6. Entered'
    <3>1. ASSUME NEW i \in Ids, owner'[i] # None
          PROVE  at'[owner'[i]] = "pending" /\ id'[owner'[i]] = i
      <4>1. i # r.id /\ owner'[i] = owner[i] /\ owner[i] \in Calls
        BY <1>1, <1>2, <3>1
      <4>2. at[owner[i]] = "pending" /\ id[owner[i]] = i
        BY <3>1, <4>1 DEF Entered
      <4>3. owner[i] # d
        BY <2>1, <2>3, <4>1, <4>2
      <4> QED
        BY <2>4, <4>1, <4>2, <4>3
    <3>2. ASSUME NEW e \in Calls, at'[e] = "pending"
          PROVE  owner'[id'[e]] = e \/ alone'
      <4>1. e # d /\ at[e] = "pending" /\ id'[e] = id[e]
        BY <2>4, <3>2
      <4>2. owner[id[e]] = e \/ alone
        BY <4>1 DEF Entered
      <4>3. id[e] # r.id \/ alone
        BY <2>1, <2>3, <4>1, <4>2 DEF c
      <4>4. id[e] # r.id => owner'[id[e]] = owner[id[e]]
        BY <1>1
      <4> QED
        BY <4>1, <4>2, <4>3, <4>4
    <3> QED
      BY <3>1, <3>2 DEF Entered
  <2>7. ~alone => ~crossed'
    BY <2>1, <2>2 DEF Fresh
  <2> QED
    BY <1>2, <2>4, <2>5, <2>6, <2>7
<1> QED
  BY <1>3, <1>4

(* openBridge, on behalf of a call, which then waits for an attempt.       *)
LEMMA OpenBridgeDoes ==
  ASSUME Typed, Dialled, NEW c \in Calls, NEW waits, NEW done,
         OpenBridge(c, waits, done), UNCHANGED child
  PROVE  /\ LinkTyped' /\ (connecting # None => connecting' # None)
         /\ connecting' # None => sock'[connecting'] \notin {"free", "open"}
         /\ \E w \in {waits, done} : at' = [at EXCEPT ![c] = w] /\ (w = done \/ connecting' # None)
<1>1. CASE UNCHANGED <<sock, bridgeSocket, connecting>>
  BY <1>1 DEF OpenBridge, Typed, LinkTyped, Dialled, Joins, Dial
<1>2. CASE at' = [at EXCEPT ![c] = waits] /\ ~Joins /\ \E s \in Sockets : Dial(s)
  <2>1. PICK s \in Sockets : Dial(s)
    BY <1>2
  <2>2. /\ sock' = [sock EXCEPT ![s] = "dialing"] /\ bridgeSocket' = s /\ connecting' = s
        /\ s # None
    BY <2>1, NoneAssumption DEF Dial
  <2>3. LinkTyped' /\ sock'[s] = "dialing"
    BY <2>2 DEF Typed, LinkTyped, SocketStates
  <2> QED
    BY <1>2, <2>2, <2>3 DEF Joins
<1> QED
  BY <1>1, <1>2 DEF OpenBridge

-----------------------------------------------------------------------------
(* What the steps that one call takes before its request is written have in *)
(* common.                                                                 *)
LEMMA CallMoves ==
  ASSUME IInv, NEW c \in Calls, NEW w \in Places \ {"pending"}, NEW n \in Ids \cup {None},
         at' = [at EXCEPT ![c] = w], id' = [id EXCEPT ![c] = n], at[c] # "pending",
         n = id[c] \/ n = None \/ n \notin InUse \/ alone,
         w \in {"waiting", "opened", "refused", "standalone"} => n \in Ids,
         w \in {"syncing", "waiting"} => connecting' # None,
         connecting # None => connecting' # None,
         connecting' # None => sock'[connecting'] \notin {"free", "open"},
         LinkTyped', old' \subseteq old, UNCHANGED <<owner, crossed, bridge, backends>>
  PROVE  IInv'
<1>1. /\ CallsTyped' /\ at'[c] = w /\ id'[c] = n
      /\ \A d \in Calls \ {c} : at'[d] = at[d] /\ id'[d] = id[d]
  BY DEF IInv, Typed, CallsTyped
<1>2. Typed'
  BY <1>1 DEF IInv, Typed, TableTyped, EndsTyped, bridge, backends
<1>3. Dialled'
  BY <1>1 DEF IInv, Dialled
<1>4. Numbered'
  BY <1>1 DEF IInv, Numbered
<1>5. Entered'
  <2>1. ASSUME NEW i \in Ids, owner'[i] # None
        PROVE  at'[owner'[i]] = "pending" /\ id'[owner'[i]] = i
    <3>1. owner[i] \in Calls /\ at[owner[i]] = "pending" /\ id[owner[i]] = i /\ owner'[i] = owner[i]
      BY <2>1 DEF IInv, Typed, TableTyped, Entered
    <3> QED
      BY <1>1, <3>1
  <2>2. ASSUME NEW d \in Calls, at'[d] = "pending" PROVE owner'[id'[d]] = d \/ alone'
    BY <1>1, <2>2 DEF IInv, Entered, backends
  <2> QED
    BY <2>1, <2>2 DEF Entered
<1>6. Fresh'
  <2>1. \A m \in 1 .. Len(todo) : todo[m] \in Written
    BY ElementOfSeq DEF IInv, Typed, EndsTyped
  <2>2. \A m \in 1 .. Len(todo) : todo[m].id \in Ids
    BY <2>1 DEF Written
  <2>3. n \notin InUse => /\ n = None \/ \A d \in Calls : id[d] # n
                          /\ \A m \in 1 .. Len(todo) : todo[m].id # n
    <3>1. ASSUME NEW m \in 1 .. Len(todo) PROVE todo[m].id \in InUse
      <4>1. m \in DOMAIN todo
        BY <3>1 DEF IInv, Typed, EndsTyped
      <4> QED
        BY <4>1 DEF InUse, Elements
    <3> QED
      BY <3>1 DEF InUse
  <2>4. ~alone => Unshared'
    <3>1. ASSUME ~alone, NEW d \in Calls, NEW e \in Calls, id'[d] # None, id'[d] = id'[e]
          PROVE  d = e
      BY <1>1, <2>3, <3>1 DEF IInv, Fresh, Unshared
    <3>2. ASSUME ~alone, NEW m \in 1 .. Len(todo), NEW d \in Calls, id'[d] = todo[m].id
          PROVE  todo[m].call = d
      BY <1>1, <2>2, <2>3, <3>2, NoneAssumption DEF IInv, Fresh, Unshared
    <3> QED
      BY <3>1, <3>2 DEF Unshared, bridge
  <2> QED
    BY <2>4 DEF IInv, Fresh, backends
<1> QED
  BY <1>2, <1>3, <1>4, <1>5, <1>6 DEF IInv

LEMMA SyncBridgeStateKeeps ==
  ASSUME IInv, NEW c \in Calls, SyncBridgeState(c)
  PROVE  IInv'
<1>1. /\ at[c] = "idle" /\ id' = [id EXCEPT ![c] = id[c]] /\ id[c] \in Ids \cup {None}
      /\ UNCHANGED <<old, owner, crossed, bridge, backends, child>>
  BY DEF SyncBridgeState, KeepsLink, table, IInv, Typed, CallsTyped
<1>2. CASE Configured
  <2>1. OpenBridge(c, "syncing", "synced")
    BY <1>2 DEF SyncBridgeState
  <2>2. /\ LinkTyped' /\ (connecting # None => connecting' # None)
        /\ connecting' # None => sock'[connecting'] \notin {"free", "open"}
        /\ \E w \in {"syncing", "synced"} :
             at' = [at EXCEPT ![c] = w] /\ (w = "synced" \/ connecting' # None)
    BY <1>1, <2>1, OpenBridgeDoes DEF IInv
  <2>3. PICK w \in {"syncing", "synced"} :
          at' = [at EXCEPT ![c] = w] /\ (w = "synced" \/ connecting' # None)
    BY <2>2
  <2>4. w \in Places \ {"pending"} /\ w \notin {"waiting", "opened", "refused", "standalone"}
    BY <2>3 DEF Places, Continuing
  <2> QED
    BY <1>1, <2>2, <2>3, <2>4, CallMoves
<1>3. CASE ~Configured
  <2>1. at' = [at EXCEPT ![c] = "ready"] /\ UNCHANGED <<sock, bridgeSocket, connecting>>
    BY <1>3 DEF SyncBridgeState
  <2>2. "ready" \in Places \ {"pending"}
    BY DEF Places
  <2>3. LinkTyped' /\ (connecting' # None => sock'[connecting'] \notin {"free", "open"})
    BY <1>1, <2>1 DEF IInv, Typed, LinkTyped, Dialled
  <2> QED
    BY <1>1, <2>1, <2>2, <2>3, CallMoves
<1> QED
  BY <1>2, <1>3

(* Steps that leave the link as it is and give up or keep the id.          *)
LEMMA CallAlone ==
  ASSUME IInv, NEW c \in Calls, NEW w \in {"idle", "ready", "standalone"},
         at' = [at EXCEPT ![c] = w], at[c] # "pending",
         id' = id \/ id' = [id EXCEPT ![c] = None], w = "standalone" => id' = id /\ id[c] \in Ids,
         UNCHANGED <<crossed, table, child, bridgeSocket, connecting, sock, bridge, backends>>
  PROVE  IInv'
<1>1. PICK n \in {id[c], None} : id' = [id EXCEPT ![c] = n] /\ (w = "standalone" => n = id[c])
  BY DEF IInv, Typed, CallsTyped
<1>2. n \in Ids \cup {None} /\ w \in Places \ {"pending"}
  BY DEF IInv, Typed, CallsTyped, Places, Continuing
<1>3. LinkTyped' /\ (connecting' # None => sock'[connecting'] \notin {"free", "open"})
  BY DEF IInv, Typed, LinkTyped, Dialled
<1>4. UNCHANGED <<old, owner>>
  BY DEF table
<1> QED
  BY <1>1, <1>2, <1>3, <1>4, CallMoves

LEMMA RequestKeeps ==
  ASSUME IInv, NEW c \in Calls, Request(c)
  PROVE  IInv'
<1>1. PICK i \in Ids : NewId(c, i)
  BY DEF Request
<1>2. /\ at[c] = "ready" /\ Open(c) /\ id' = [id EXCEPT ![c] = i] /\ old' \subseteq old
      /\ UNCHANGED <<owner, crossed, bridge, backends, child>>
  BY <1>1 DEF Request, NewId, KeepsLink
<1>3. i \notin InUse \/ alone
  BY <1>1 DEF NewId, IInv, Fresh
<1>4. CASE ~HasTransport /\ Configured /\ ~bridgeUnavailable /\ OpenBridge(c, "waiting", "opened")
  <2>1. /\ LinkTyped' /\ (connecting # None => connecting' # None)
        /\ connecting' # None => sock'[connecting'] \notin {"free", "open"}
        /\ \E w \in {"waiting", "opened"} :
             at' = [at EXCEPT ![c] = w] /\ (w = "opened" \/ connecting' # None)
    BY <1>2, <1>4, OpenBridgeDoes DEF IInv
  <2>2. PICK w \in {"waiting", "opened"} :
          at' = [at EXCEPT ![c] = w] /\ (w = "opened" \/ connecting' # None)
    BY <2>1
  <2>3. w \in Places \ {"pending"} /\ w # "syncing"
    BY <2>2 DEF Places, Continuing
  <2> QED
    BY <1>2, <1>3, <2>1, <2>2, <2>3, CallMoves
<1>5. ASSUME NEW w \in {"opened", "standalone"}, at' = [at EXCEPT ![c] = w],
             UNCHANGED <<sock, bridgeSocket, connecting>>
      PROVE  IInv'
  <2>1. w \in Places \ {"pending"} /\ w \notin {"syncing", "waiting"}
    BY <1>5 DEF Places, Continuing
  <2>2. LinkTyped' /\ (connecting' # None => sock'[connecting'] \notin {"free", "open"})
    BY <1>2, <1>5 DEF IInv, Typed, LinkTyped, Dialled
  <2> QED
    BY <1>2, <1>3, <1>5, <2>1, <2>2, CallMoves
<1> QED
  BY <1>2, <1>4, <1>5 DEF Open

-----------------------------------------------------------------------------
(* The request is written, to the bridge or to one of the processes in     *)
(* `stdin', or there is nothing to write it to.                            *)
LEMMA SendDoes ==
  ASSUME Typed, NEW c \in Calls, NEW k, NEW stdin \in SUBSET Procs, id[c] \in Ids,
         Send(c, k, stdin), UNCHANGED sock
  PROVE  /\ CallsTyped' /\ owner' \in [Ids -> Calls \cup {None}]
         /\ todo' \in Seq(Written) /\ inbox' \in [Procs -> SUBSET Held]
         /\ \A d \in Calls \ {c} : at'[d] = at[d] /\ id'[d] = id[d]
         /\ \A i \in Ids \ {id[c]} : owner'[i] = owner[i]
         /\ \/ at'[c] = "pending" /\ id'[c] = id[c] /\ owner'[id[c]] = c
            \/ at'[c] = "ready" /\ id'[c] = None /\ owner'[id[c]] = None
         /\ \/ UNCHANGED todo
            \/ id' = id /\ \E s \in Sockets : todo' = Append(todo, [id |-> id[c], call |-> c, from |-> s])
         /\ UNCHANGED inbox \/ stdin # {}
<1>1. CASE /\ Writable(bridgeSocket)
           /\ todo' = Append(todo, [id |-> id[c], call |-> c, from |-> bridgeSocket])
           /\ owner' = [owner EXCEPT ![id[c]] = c] /\ at' = [at EXCEPT ![c] = "pending"]
           /\ UNCHANGED <<id, inbox>>
  <2>1. bridgeSocket \in Sockets
    BY <1>1 DEF Writable, Typed, LinkTyped
  <2>2. [id |-> id[c], call |-> c, from |-> bridgeSocket] \in Written
    BY <2>1 DEF Written
  <2>3. todo' \in Seq(Written)
    BY <1>1, <2>2, AppendProperties DEF Typed, EndsTyped
  <2> QED
    BY <1>1, <2>1, <2>3 DEF Typed, CallsTyped, TableTyped, EndsTyped, Places
<1>2. CASE /\ k \in stdin /\ inbox' = [inbox EXCEPT ![k] = @ \cup {[id |-> id[c], call |-> c]}]
           /\ owner' = [owner EXCEPT ![id[c]] = c] /\ at' = [at EXCEPT ![c] = "pending"]
           /\ UNCHANGED <<id, todo>>
  <2>1. [id |-> id[c], call |-> c] \in Held
    BY DEF Held
  <2>2. inbox' \in [Procs -> SUBSET Held]
    BY <1>2, <2>1 DEF Typed, EndsTyped
  <2> QED
    BY <1>2, <2>2 DEF Typed, CallsTyped, TableTyped, EndsTyped, Places
<1>3. CASE owner' = [owner EXCEPT ![id[c]] = None] /\ Settle(c) /\ UNCHANGED <<todo, inbox>>
  <2>1. CallsTyped' /\ at'[c] = "ready" /\ id'[c] = None
        /\ \A d \in Calls \ {c} : at'[d] = at[d] /\ id'[d] = id[d]
    BY <1>3, SettleDoes DEF Typed
  <2> QED
    BY <1>3, <2>1 DEF Typed, TableTyped, EndsTyped
<1> QED
  BY <1>1, <1>2, <1>3 DEF Send

(* What both steps that send have in common: everything but Fresh.         *)
LEMMA SendKeeps ==
  ASSUME IInv, NEW c \in Calls, NEW k, NEW stdin \in SUBSET Procs, Send(c, k, stdin),
         at[c] \in {"opened", "standalone"}, UNCHANGED <<sock, bridgeSocket, connecting>>,
         old' \subseteq Ids, child' \in Procs \cup {None}, UNCHANGED alone \/ alone',
         proc' \in [Procs -> {"free", "running", "dying", "broken"}]
  PROVE  Typed' /\ Dialled' /\ Numbered' /\ Entered'
<1>1. id[c] \in Ids
  BY DEF IInv, Numbered
<1>2. /\ CallsTyped' /\ owner' \in [Ids -> Calls \cup {None}]
      /\ todo' \in Seq(Written) /\ inbox' \in [Procs -> SUBSET Held]
      /\ \A d \in Calls \ {c} : at'[d] = at[d] /\ id'[d] = id[d]
      /\ \A i \in Ids \ {id[c]} : owner'[i] = owner[i]
      /\ \/ at'[c] = "pending" /\ id'[c] = id[c] /\ owner'[id[c]] = c
         \/ at'[c] = "ready" /\ id'[c] = None /\ owner'[id[c]] = None
  BY <1>1, SendDoes DEF IInv
<1>3. Typed'
  BY <1>2 DEF IInv, Typed, TableTyped, LinkTyped, EndsTyped
<1>4. Dialled'
  BY <1>2 DEF IInv, Dialled
<1>5. Numbered'
  BY <1>1, <1>2 DEF IInv, Numbered
<1>6. Entered'
  <2>1. ASSUME NEW i \in Ids, owner'[i] # None
        PROVE  at'[owner'[i]] = "pending" /\ id'[owner'[i]] = i
    <3>1. CASE i = id[c]
      BY <1>2, <2>1, <3>1
    <3>2. CASE i # id[c]
      <4>1. owner'[i] = owner[i] /\ owner[i] \in Calls
        BY <1>2, <2>1, <3>2 DEF IInv, Typed, TableTyped
      <4>2. at[owner[i]] = "pending" /\ id[owner[i]] = i
        BY <2>1, <4>1 DEF IInv, Entered
      <4> QED
        BY <1>2, <4>1, <4>2
    <3> QED
      BY <3>1, <3>2
  <2>2. ASSUME NEW d \in Calls, at'[d] = "pending" PROVE owner'[id'[d]] = d \/ alone'
    <3>1. CASE d = c
      BY <1>2, <2>2, <3>1
    <3>2. CASE d # c
      <4>1. at[d] = "pending" /\ id'[d] = id[d] /\ id[d] \in Ids
        BY <1>2, <2>2, <3>2 DEF IInv, Numbered
      <4>2. owner[id[d]] = d \/ alone
        BY <4>1 DEF IInv, Entered
      <4>3. id[d] # id[c] \/ alone
        BY <1>1, <3>2, NoneAssumption DEF IInv, Fresh, Unshared
      <4> QED
        BY <1>2, <4>1, <4>2, <4>3
    <3> QED
      BY <3>1, <3>2
  <2> QED
    BY <2>1, <2>2 DEF Entered
<1> QED
  BY <1>3, <1>4, <1>5, <1>6

LEMMA OpenedKeeps ==
  ASSUME IInv, NEW c \in Calls, Opened(c)
  PROVE  IInv'
<1>1. /\ at[c] = "opened" /\ UNCHANGED <<proc, old, sock, bridgeSocket, connecting, child, alone, crossed>>
      /\ Send(c, child, Alive) /\ Alive \in SUBSET Procs
  BY DEF Opened, link, Alive
<1>2. Typed' /\ Dialled' /\ Numbered' /\ Entered'
  BY <1>1, SendKeeps DEF IInv, Typed, TableTyped, LinkTyped, EndsTyped
<1>3. ~alone => Alive = {}
  BY DEF IInv, Fresh, Alive
<1>4. id[c] \in Ids
  BY <1>1 DEF IInv, Numbered
<1>5. /\ \A d \in Calls \ {c} : at'[d] = at[d] /\ id'[d] = id[d]
      /\ id'[c] \in {id[c], None}
      /\ \/ UNCHANGED todo
         \/ id' = id /\ \E s \in Sockets : todo' = Append(todo, [id |-> id[c], call |-> c, from |-> s])
      /\ UNCHANGED inbox \/ Alive # {}
  BY <1>1, <1>4, SendDoes DEF IInv
<1>6. CASE UNCHANGED todo \/ alone
  <2>1. CASE UNCHANGED todo
    <3>1. ~alone' => ~alone /\ old' = {} /\ ~crossed' /\ UNCHANGED <<proc, inbox>>
      BY <1>1, <1>3, <1>5 DEF IInv, Fresh
    <3>2. /\ Len(todo') \in Nat
          /\ \A n \in 1 .. Len(todo') :
               \E m \in 1 .. Len(todo) : todo'[n].id = todo[m].id /\ todo'[n].call = todo[m].call
      BY <2>1, SameTodo DEF IInv
    <3>3. \A d \in Calls : id'[d] \in {id[d], None}
      BY <1>5
    <3>4. Typed /\ Fresh
      BY DEF IInv
    <3>5. Fresh'
      BY <3>1, <3>2, <3>3, <3>4, FreshKeeps
    <3> QED
      BY <1>2, <3>5 DEF IInv
  <2>2. CASE alone
    BY <1>1, <1>2, <2>2 DEF IInv, Fresh
  <2> QED
    BY <1>2, <1>6, <2>1, <2>2 DEF IInv
<1>7. CASE ~alone /\ id' = id
           /\ \E s \in Sockets : todo' = Append(todo, [id |-> id[c], call |-> c, from |-> s])
  <2>1. PICK s \in Sockets : todo' = Append(todo, [id |-> id[c], call |-> c, from |-> s])
    BY <1>7
  <2>2. [id |-> id[c], call |-> c, from |-> s] \in Written
    BY <1>4 DEF Written
  <2>3. /\ Len(todo') = Len(todo) + 1 /\ Len(todo) \in Nat
        /\ \A m \in 1 .. Len(todo) : todo'[m] = todo[m]
        /\ todo'[Len(todo) + 1] = [id |-> id[c], call |-> c, from |-> s]
    BY <2>1, <2>2, AppendProperties, LenProperties DEF IInv, Typed, EndsTyped
  <2>4. ASSUME NEW m \in 1 .. Len(todo'), NEW d \in Calls, id'[d] = todo'[m].id
        PROVE  todo'[m].call = d
    <3>1. CASE m = Len(todo) + 1
      <4>1. id[d] = id[c] /\ todo'[m].call = c
        BY <1>7, <2>3, <2>4, <3>1
      <4> QED
        BY <1>4, <1>7, <4>1, NoneAssumption DEF IInv, Fresh, Unshared
    <3>2. CASE m # Len(todo) + 1
      <4>1. m \in 1 .. Len(todo)
        BY <2>3, <3>2
      <4>2. todo'[m] = todo[m] /\ id[d] = todo[m].id
        BY <1>7, <2>3, <2>4, <4>1
      <4> QED
        BY <1>7, <4>1, <4>2 DEF IInv, Fresh, Unshared
    <3> QED
      BY <3>1, <3>2
  <2>5. Unshared'
    BY <1>7, <2>4 DEF IInv, Fresh, Unshared
  <2>6. Fresh'
    BY <1>1, <1>3, <1>5, <1>7, <2>5 DEF IInv, Fresh
  <2> QED
    BY <1>2, <2>6 DEF IInv
<1> QED
  BY <1>5, <1>6, <1>7

LEMMA StandaloneKeeps ==
  ASSUME IInv, NEW c \in Calls, Standalone(c)
  PROVE  IInv'
<1>1. PICK k \in Procs, fate \in {"running", "broken"} :
        /\ at[c] = "standalone" /\ proc' = [proc EXCEPT ![k] = fate] /\ child' = k
        /\ old' = InUse /\ alone' = TRUE /\ Send(c, k, {j \in {k} : fate = "running"})
        /\ UNCHANGED <<bridgeSocket, connecting, sock>>
  BY DEF Standalone
<1>2. InUse \subseteq Ids
  <2>1. {r.id : r \in Elements(todo)} \subseteq Ids
    <3>1. \A m \in DOMAIN todo : todo[m] \in Written
      BY ElementOfSeq, LenProperties DEF IInv, Typed, EndsTyped
    <3> QED
      BY <3>1 DEF Elements, Written
  <2>2. {r.id : r \in UNION {inbox[j] : j \in Procs}} \subseteq Ids
    BY DEF IInv, Typed, EndsTyped, Held
  <2>3. {id[d] : d \in Calls} \ {None} \subseteq Ids
    BY DEF IInv, Typed, CallsTyped
  <2> QED
    BY <2>1, <2>2, <2>3 DEF InUse
<1>3. {j \in {k} : fate = "running"} \in SUBSET Procs
  OBVIOUS
<1>4. proc' \in [Procs -> {"free", "running", "dying", "broken"}]
  BY <1>1 DEF IInv, Typed, EndsTyped
<1>5. Typed' /\ Dialled' /\ Numbered' /\ Entered'
  BY <1>1, <1>2, <1>3, <1>4, SendKeeps
<1> QED
  BY <1>1, <1>5 DEF IInv, Fresh

-----------------------------------------------------------------------------
(* Timers, responses and the ends of a connection.                         *)

(* What a step keeps that gives up some calls' requests, if that.          *)
LEMMA NumberedKeeps ==
  ASSUME Numbered, NEW a \in [Calls -> Places],
         \A c \in Calls : \/ a[c] = at[c]
                          \/ at[c] = "syncing" /\ a[c] \in {"synced", "unsynced"}
                          \/ at[c] = "waiting" /\ a[c] \in {"opened", "refused"},
         \A c \in Calls : \/ at'[c] = a[c] /\ id'[c] = id[c]
                          \/ at'[c] = "ready" /\ id'[c] = None
  PROVE  Numbered'
BY DEF Numbered

LEMMA TimeoutKeeps ==
  ASSUME IInv, NEW c \in Calls, Timeout(c)
  PROVE  IInv'
<1>1. /\ at[c] = "pending" /\ owner' = [owner EXCEPT ![id[c]] = None] /\ Settle(c)
      /\ UNCHANGED <<crossed, old, link, sock, bridge, backends>>
  BY DEF Timeout
<1>2. id[c] \in Ids
  BY <1>1 DEF IInv, Numbered
<1>3. CallsTyped' /\ at'[c] = "ready" /\ id'[c] = None
      /\ \A d \in Calls \ {c} : at'[d] = at[d] /\ id'[d] = id[d]
  BY <1>1, SettleDoes DEF IInv, Typed
<1>4. /\ owner' \in [Ids -> Calls \cup {None}] /\ owner'[id[c]] = None
      /\ \A i \in Ids \ {id[c]} : owner'[i] = owner[i]
  BY <1>1, <1>2 DEF IInv, Typed, TableTyped
<1>5. Typed' /\ Dialled' /\ Numbered'
  <2>1. Typed'
    BY <1>1, <1>3, <1>4
    DEF IInv, Typed, TableTyped, LinkTyped, EndsTyped, link, bridge, backends
  <2>2. Dialled'
    BY <1>1, <1>3 DEF IInv, Dialled, link
  <2>3. Numbered'
    BY <1>3 DEF IInv, Numbered
  <2> QED
    BY <2>1, <2>2, <2>3
<1>6. Entered'
  <2>1. ASSUME NEW i \in Ids, owner'[i] # None
        PROVE  at'[owner'[i]] = "pending" /\ id'[owner'[i]] = i
    <3>1. i # id[c] /\ owner'[i] = owner[i] /\ owner[i] \in Calls
      BY <1>4, <2>1
    <3>2. at[owner[i]] = "pending" /\ id[owner[i]] = i
      BY <2>1, <3>1 DEF IInv, Entered
    <3> QED
      BY <1>3, <3>1, <3>2
  <2>2. ASSUME NEW d \in Calls, at'[d] = "pending" PROVE owner'[id'[d]] = d \/ alone'
    <3>1. d # c /\ at[d] = "pending" /\ id'[d] = id[d] /\ id[d] \in Ids
      BY <1>3, <2>2 DEF IInv, Numbered
    <3>2. owner[id[d]] = d \/ alone
      BY <3>1 DEF IInv, Entered
    <3>3. id[d] # id[c] \/ alone
      BY <1>2, <3>1, NoneAssumption DEF IInv, Fresh, Unshared
    <3> QED
      BY <1>1, <1>4, <3>1, <3>2, <3>3 DEF backends
  <2> QED
    BY <2>1, <2>2 DEF Entered
<1>7. Fresh'
  <2>1. ~alone' => ~alone /\ old' = {} /\ ~crossed' /\ UNCHANGED <<proc, inbox>>
    BY <1>1 DEF IInv, Fresh, backends
  <2>2. /\ Len(todo') \in Nat
        /\ \A n \in 1 .. Len(todo') :
             \E m \in 1 .. Len(todo) : todo'[n].id = todo[m].id /\ todo'[n].call = todo[m].call
    BY <1>1, SameTodo DEF IInv, bridge
  <2>3. \A d \in Calls : id'[d] \in {id[d], None}
    BY <1>3
  <2> QED
    BY <2>1, <2>2, <2>3, FreshKeeps DEF IInv
<1> QED
  BY <1>5, <1>6, <1>7 DEF IInv

(* Resolved and Rejected touch those that wait for an attempt, and no other.*)
LEMMA WaitersGo ==
  ASSUME CallsTyped, NEW a, a = Resolved(at) \/ a = Rejected(at)
  PROVE  /\ a \in [Calls -> Places]
         /\ \A c \in Calls : /\ a[c] \notin {"syncing", "waiting"}
                             /\ a[c] = "pending" <=> at[c] = "pending"
                             /\ \/ a[c] = at[c]
                                \/ at[c] = "syncing" /\ a[c] \in {"synced", "unsynced"}
                                \/ at[c] = "waiting" /\ a[c] \in {"opened", "refused"}
<1>1. CASE a = Resolved(at)
  <2>1. ASSUME NEW c \in Calls
        PROVE  /\ at[c] = "syncing" => a[c] = "synced"
               /\ at[c] = "waiting" => a[c] = "opened"
               /\ at[c] \notin {"syncing", "waiting"} => a[c] = at[c]
    BY <1>1 DEF Resolved
  <2>2. DOMAIN a = Calls /\ a = [c \in Calls |-> a[c]]
    BY <1>1 DEF Resolved
  <2>3. \A c \in Calls : a[c] \in Places
    BY <2>1 DEF CallsTyped, Places, Continuing
  <2> QED
    BY <2>1, <2>2, <2>3
<1>2. CASE a = Rejected(at)
  <2>1. ASSUME NEW c \in Calls
        PROVE  /\ at[c] = "syncing" => a[c] = "unsynced"
               /\ at[c] = "waiting" => a[c] = "refused"
               /\ at[c] \notin {"syncing", "waiting"} => a[c] = at[c]
    BY <1>2 DEF Rejected
  <2>2. DOMAIN a = Calls /\ a = [c \in Calls |-> a[c]]
    BY <1>2 DEF Rejected
  <2>3. \A c \in Calls : a[c] \in Places
    BY <2>1 DEF CallsTyped, Places, Continuing
  <2> QED
    BY <2>1, <2>2, <2>3
<1> QED
  BY <1>1, <1>2

(* An attempt ends, well or not: hello, timer, nobody there.               *)
LEMMA AttemptEnds ==
  ASSUME IInv, NEW a, a = Resolved(at) \/ a = Rejected(at), at' = a, connecting' = None,
         sock' \in [Sockets -> SocketStates],
         UNCHANGED <<id, crossed, table, child, bridgeSocket, bridge, backends>>
  PROVE  IInv'
<1>1. /\ a \in [Calls -> Places]
      /\ \A c \in Calls : /\ at'[c] \notin {"syncing", "waiting"}
                          /\ at'[c] = "pending" <=> at[c] = "pending"
                          /\ \/ a[c] = at[c]
                             \/ at[c] = "syncing" /\ a[c] \in {"synced", "unsynced"}
                             \/ at[c] = "waiting" /\ a[c] \in {"opened", "refused"}
  BY WaitersGo DEF IInv, Typed
<1>2. Typed'
  BY <1>1 DEF IInv, Typed, CallsTyped, TableTyped, LinkTyped, EndsTyped, table, bridge, backends
<1>3. Dialled' /\ Numbered'
  <2>1. Dialled'
    BY <1>1 DEF Dialled
  <2>2. Numbered'
    BY <1>1, NumberedKeeps DEF IInv
  <2> QED
    BY <2>1, <2>2
<1>4. Entered'
  <2>1. \A i \in Ids : owner[i] # None => owner[i] \in Calls
    BY DEF IInv, Typed, TableTyped
  <2> QED
    BY <1>1, <2>1 DEF IInv, Entered, table, backends
<1>5. Fresh'
  BY DEF IInv, Fresh, Unshared, table, bridge, backends
<1> QED
  BY <1>2, <1>3, <1>4, <1>5 DEF IInv

LEMMA SocketClosedKeeps ==
  ASSUME IInv, NEW s \in Sockets, SocketClosed(s)
  PROVE  IInv'
<1> DEFINE a == Rejected(at)
<1>1. /\ sock' = [sock EXCEPT ![s] = "free"] /\ ResolvePending(a)
      /\ bridgeSocket' = (IF bridgeSocket = s THEN None ELSE bridgeSocket)
      /\ connecting' = None /\ UNCHANGED <<old, child, proc, inbox, alone, crossed>>
      /\ todo' = [i \in DOMAIN todo |->
                    IF todo[i].from = s THEN [todo[i] EXCEPT !.from = None] ELSE todo[i]]
  BY DEF SocketClosed, backends
<1>2. /\ a \in [Calls -> Places]
      /\ \A c \in Calls : /\ a[c] \notin {"syncing", "waiting"}
                          /\ a[c] = "pending" <=> at[c] = "pending"
                          /\ \/ a[c] = at[c]
                             \/ at[c] = "syncing" /\ a[c] \in {"synced", "unsynced"}
                             \/ at[c] = "waiting" /\ a[c] \in {"opened", "refused"}
  BY WaitersGo DEF IInv, Typed
<1> HIDE DEF a
<1>3. /\ CallsTyped' /\ owner' \in [Ids -> Calls \cup {None}] /\ Entered'
      /\ \A c \in Calls : \/ at'[c] = a[c] /\ id'[c] = id[c]
                          \/ at'[c] = "ready" /\ id'[c] = None
  BY <1>1, <1>2, ResolvePendingDoes DEF IInv
<1>4. /\ todo' \in Seq(Written) /\ Len(todo') = Len(todo) /\ Len(todo) \in Nat
      /\ \A n \in 1 .. Len(todo) : todo'[n].id = todo[n].id /\ todo'[n].call = todo[n].call
  <2>1. todo \in Seq(Written) /\ Len(todo) \in Nat /\ DOMAIN todo = 1 .. Len(todo)
    BY LenProperties DEF IInv, Typed, EndsTyped
  <2>2. \A n \in 1 .. Len(todo) : todo[n] \in Written
    BY <2>1, ElementOfSeq
  <2>3. ASSUME NEW n \in 1 .. Len(todo)
        PROVE  todo'[n] \in Written /\ todo'[n].id = todo[n].id /\ todo'[n].call = todo[n].call
    <3>1. todo'[n] = IF todo[n].from = s THEN [todo[n] EXCEPT !.from = None] ELSE todo[n]
      BY <1>1, <2>1
    <3> QED
      BY <2>2, <3>1 DEF Written
  <2>4. todo' = [n \in 1 .. Len(todo) |-> todo'[n]]
    BY <1>1, <2>1
  <2>5. todo' \in Seq(Written) /\ Len(todo') = Len(todo)
    BY <2>1, <2>3, <2>4
  <2> QED
    BY <2>1, <2>3, <2>5
<1>5. Typed'
  BY <1>1, <1>3, <1>4 DEF IInv, Typed, TableTyped, LinkTyped, EndsTyped, SocketStates
<1>6. Dialled'
  BY <1>1, <1>2, <1>3 DEF Dialled
<1>7. Numbered'
  BY <1>2, <1>3, NumberedKeeps DEF IInv
<1>8. Fresh'
  BY <1>1, <1>3, <1>4, FreshKeeps DEF IInv, Fresh
<1> QED
  BY <1>3, <1>5, <1>6, <1>7, <1>8 DEF IInv

(* A backend process ends or is given up: its requests are settled.        *)
LEMMA ProcessEnds ==
  ASSUME IInv, ResolvePending(at), child' \in Procs \cup {None},
         proc' \in [Procs -> {"free", "running", "dying", "broken"}],
         inbox' \in [Procs -> SUBSET Held], ~alone => UNCHANGED <<proc, inbox>>,
         UNCHANGED <<old, bridgeSocket, connecting, sock, bridge, alone, crossed>>
  PROVE  IInv'
<1>1. at \in [Calls -> Places]
  BY DEF IInv, Typed, CallsTyped
<1>2. /\ CallsTyped' /\ owner' \in [Ids -> Calls \cup {None}] /\ Entered'
      /\ \A c \in Calls : \/ at'[c] = at[c] /\ id'[c] = id[c]
                          \/ at'[c] = "ready" /\ id'[c] = None
  BY <1>1, ResolvePendingDoes DEF IInv
<1>3. Typed'
  BY <1>2 DEF IInv, Typed, TableTyped, LinkTyped, EndsTyped, bridge
<1>4. Dialled' /\ Numbered'
  BY <1>1, <1>2, NumberedKeeps DEF IInv, Dialled
<1>5. /\ Len(todo') \in Nat
      /\ \A n \in 1 .. Len(todo') :
           \E m \in 1 .. Len(todo) : todo'[n].id = todo[m].id /\ todo'[n].call = todo[m].call
  BY SameTodo DEF IInv, bridge
<1>6. Fresh'
  BY <1>2, <1>5, FreshKeeps DEF IInv, Fresh
<1> QED
  BY <1>2, <1>3, <1>4, <1>6 DEF IInv

LEMMA CloseKeeps ==
  ASSUME IInv, Close
  PROVE  IInv'
<1>1. UNCHANGED <<old, bridgeSocket, connecting, bridge, inbox, alone, crossed>>
  BY DEF Close
<1>2. CASE /\ bridgeSocket # None
           /\ sock' = [sock EXCEPT ![bridgeSocket] = IF Writable(bridgeSocket) THEN "ended" ELSE @]
           /\ UNCHANGED <<at, id, owner, child, proc>>
  <2>1. /\ LinkTyped'
        /\ \A s \in Sockets : sock'[s] \in {sock[s], "ended"}
    BY <1>1, <1>2 DEF IInv, Typed, LinkTyped, SocketStates
  <2>2. Typed'
    BY <1>1, <1>2, <2>1 DEF IInv, Typed, CallsTyped, TableTyped, EndsTyped, bridge
  <2>3. Dialled'
    BY <1>1, <1>2, <2>1 DEF IInv, Dialled, Typed, LinkTyped
  <2>4. Numbered' /\ Entered' /\ Fresh'
    BY <1>1, <1>2 DEF IInv, Numbered, Entered, Fresh, Unshared, bridge
  <2> QED
    BY <2>2, <2>3, <2>4 DEF IInv
<1>3. CASE /\ child # None /\ child' = None /\ ResolvePending(at) /\ UNCHANGED sock
           /\ proc' = [proc EXCEPT ![child] = IF @ = "running" THEN "dying" ELSE "free"]
  <2>1. /\ proc' \in [Procs -> {"free", "running", "dying", "broken"}]
        /\ inbox' \in [Procs -> SUBSET Held]
    BY <1>1, <1>3 DEF IInv, Typed, EndsTyped
  <2>2. ~alone => proc' = proc
    BY <1>3 DEF IInv, Fresh, Typed, EndsTyped, LinkTyped
  <2> QED
    BY <1>1, <1>3, <2>1, <2>2, ProcessEnds
<1> QED
  BY <1>2, <1>3 DEF Close

LEMMA ChildExitsKeeps ==
  ASSUME IInv, NEW k \in Procs, ChildExits(k)
  PROVE  IInv'
<1>1. /\ proc[k] \in {"running", "dying"} /\ ResolvePending(at)
      /\ child' = (IF child = k \/ (child # None /\ proc[child] = "broken") THEN None ELSE child)
      /\ proc' = [j \in Procs |->
                    IF j = k \/ (j = child /\ proc[j] = "broken") THEN "free" ELSE proc[j]]
      /\ inbox' = [inbox EXCEPT ![k] = {}]
      /\ UNCHANGED <<old, bridgeSocket, connecting, sock, bridge, alone, crossed>>
  BY DEF ChildExits
<1>2. alone
  BY <1>1 DEF IInv, Fresh
<1>3. /\ child' \in Procs \cup {None}
      /\ proc' \in [Procs -> {"free", "running", "dying", "broken"}]
      /\ inbox' \in [Procs -> SUBSET Held]
  BY <1>1 DEF IInv, Typed, EndsTyped, LinkTyped
<1> QED
  BY <1>1, <1>2, <1>3, ProcessEnds

(* A response is handled, or nobody hears it.                              *)
LEMMA ResponseKeeps ==
  ASSUME IInv, NEW r, r.id \in Ids, r.call \in Calls,
         HandleResponse(r) \/ UNCHANGED <<calls, owner>>,
         ~alone => \A c \in Calls : id[c] = r.id => c = r.call,
         todo' \in Seq(Written), inbox' \in [Procs -> SUBSET Held], ~alone => inbox' = inbox,
         \A n \in 1 .. Len(todo') :
           \E m \in 1 .. Len(todo) : todo'[n].id = todo[m].id /\ todo'[n].call = todo[m].call,
         UNCHANGED <<old, link, sock, up, proc, alone>>
  PROVE  IInv'
<1>1. /\ CallsTyped' /\ owner' \in [Ids -> Calls \cup {None}] /\ Entered' /\ GivesUp
      /\ ~alone => ~crossed'
  <2>1. CASE HandleResponse(r)
    BY <2>1, HandleResponseDoes DEF IInv
  <2>2. CASE UNCHANGED <<calls, owner>>
    BY <2>2 DEF IInv, Typed, CallsTyped, TableTyped, Entered, GivesUp, Fresh, calls
  <2> QED
    BY <2>1, <2>2
<1>2. Typed'
  BY <1>1 DEF IInv, Typed, TableTyped, LinkTyped, EndsTyped, link
<1>3. Dialled' /\ Numbered'
  BY <1>1 DEF IInv, Dialled, Numbered, GivesUp, link
<1>4. Len(todo') \in Nat
  BY LenProperties
<1>5. \A c \in Calls : id'[c] \in {id[c], None}
  BY <1>1 DEF GivesUp
<1>6. Fresh'
  BY <1>1, <1>4, <1>5, FreshKeeps DEF IInv, Fresh
<1> QED
  BY <1>1, <1>2, <1>3, <1>6 DEF IInv

LEMMA ReplyKeeps ==
  ASSUME IInv, Reply
  PROVE  IInv'
<1>1. /\ todo # <<>> /\ todo' = Tail(todo) /\ UNCHANGED <<old, link, sock, up, backends>>
      /\ HandleResponse(Head(todo)) \/ UNCHANGED <<calls, owner>>
  BY DEF Reply
<1>2. todo \in Seq(Written) /\ Len(todo) \in Nat
  BY LenProperties DEF IInv, Typed, EndsTyped
<1>3. /\ todo' \in Seq(Written) /\ Len(todo') = Len(todo) - 1
      /\ \A n \in 1 .. Len(todo') : n + 1 \in 1 .. Len(todo) /\ todo'[n] = todo[n + 1]
      /\ Head(todo) = todo[1] /\ 1 \in 1 .. Len(todo)
  BY <1>1, <1>2, HeadTailProperties
<1>4. Head(todo) \in Written
  BY <1>2, <1>3, ElementOfSeq
<1>5. ~alone => \A c \in Calls : id[c] = Head(todo).id => c = Head(todo).call
  BY <1>3 DEF IInv, Fresh, Unshared
<1>6. Head(todo).id \in Ids /\ Head(todo).call \in Calls
  BY <1>4 DEF Written
<1>7. inbox' \in [Procs -> SUBSET Held] /\ UNCHANGED <<inbox, proc, alone>>
  BY <1>1 DEF IInv, Typed, EndsTyped, backends
<1>8. \A n \in 1 .. Len(todo') :
        \E m \in 1 .. Len(todo) : todo'[n].id = todo[m].id /\ todo'[n].call = todo[m].call
  BY <1>3
<1> QED
  BY <1>1, <1>3, <1>5, <1>6, <1>7, <1>8, ResponseKeeps

LEMMA ChildAnswersKeeps ==
  ASSUME IInv, NEW k \in Procs, ChildAnswers(k)
  PROVE  IInv'
<1>1. PICK r \in inbox[k] : HandleResponse(r) /\ inbox' = [inbox EXCEPT ![k] = @ \ {r}]
  BY DEF ChildAnswers
<1>2. alone /\ UNCHANGED <<old, link, sock, bridge, proc, alone>>
  BY DEF ChildAnswers, IInv, Fresh
<1>3. r.id \in Ids /\ r.call \in Calls /\ inbox' \in [Procs -> SUBSET Held] /\ todo' \in Seq(Written)
  BY <1>1, <1>2 DEF IInv, Typed, EndsTyped, Held, bridge
<1>4. \A n \in 1 .. Len(todo') :
        \E m \in 1 .. Len(todo) : todo'[n].id = todo[m].id /\ todo'[n].call = todo[m].call
  BY <1>2, SameTodo DEF IInv, bridge
<1>5. UNCHANGED <<old, link, sock, up, proc, alone>>
  BY <1>2 DEF bridge
<1> QED
  BY <1>1, <1>2, <1>3, <1>4, <1>5, ResponseKeeps

LEMMA DisposeKeeps ==
  ASSUME IInv, Dispose
  PROVE  IInv'
<1>1. /\ todo' = <<>> /\ UNCHANGED <<calls, table, link, backends>>
      /\ sock' = [s \in Sockets |-> IF sock[s] = "open" THEN "gone" ELSE sock[s]]
  BY DEF Dispose
<1>2. Typed'
  BY <1>1 DEF IInv, Typed, CallsTyped, TableTyped, LinkTyped, EndsTyped, SocketStates,
              calls, table, link, backends
<1>3. Dialled'
  BY <1>1 DEF IInv, Dialled, Typed, LinkTyped, calls, link
<1>4. Numbered' /\ Entered'
  BY <1>1 DEF IInv, Numbered, Entered, calls, table, backends
<1>5. Fresh'
  BY <1>1 DEF IInv, Fresh, Unshared, calls, table, backends
<1> QED
  BY <1>2, <1>3, <1>4, <1>5 DEF IInv

-----------------------------------------------------------------------------
(* Every step keeps the invariant.                                         *)
LEMMA Initially == Init => IInv
<1> SUFFICES ASSUME Init PROVE IInv
  OBVIOUS
<1>1. todo \in Seq(Written) /\ Len(todo) = 0
  BY DEF Init
<1>2. Typed
  BY <1>1 DEF Init, Typed, CallsTyped, TableTyped, LinkTyped, EndsTyped, Places, SocketStates
<1>3. Dialled /\ Numbered /\ Entered
  BY DEF Init, Dialled, Numbered, Entered
<1>4. Fresh
  BY <1>1 DEF Init, Fresh, Unshared
<1> QED
  BY <1>2, <1>3, <1>4 DEF IInv

LEMMA StuttersKeep == IInv /\ UNCHANGED vars => IInv'
<1> SUFFICES ASSUME IInv, UNCHANGED vars PROVE IInv'
  OBVIOUS
<1> USE DEF vars, calls, table, link, bridge, backends, IInv
<1>1. Typed'
  BY DEF Typed, CallsTyped, TableTyped, LinkTyped, EndsTyped
<1>2. Dialled' /\ Numbered' /\ Entered'
  BY DEF Dialled, Numbered, Entered
<1>3. Fresh'
  BY DEF Fresh, Unshared
<1> QED
  BY <1>1, <1>2, <1>3

LEMMA StepKeeps ==
  ASSUME IInv, [Next]_vars
  PROVE  IInv'
<1>1. ASSUME NEW c \in Calls, SyncBridgeState(c) PROVE IInv'
  BY <1>1, SyncBridgeStateKeeps
<1>2. ASSUME NEW c \in Calls, Synced(c) \/ Unsynced(c) \/ Leave(c) PROVE IInv'
  <2>1. PICK w \in {"idle", "ready"} :
          /\ at' = [at EXCEPT ![c] = w] /\ at[c] # "pending"
          /\ UNCHANGED <<id, crossed, table, child, bridgeSocket, connecting, sock, bridge, backends>>
    BY <1>2 DEF Synced, Unsynced, Leave, link
  <2> QED
    BY <2>1, CallAlone
<1>3. ASSUME NEW c \in Calls, Refused(c) PROVE IInv'
  <2>1. /\ at[c] = "refused"
        /\ UNCHANGED <<crossed, table, child, bridgeSocket, connecting, sock, bridge, backends>>
    BY <1>3 DEF Refused
  <2>2. id[c] \in Ids
    BY <2>1 DEF IInv, Numbered
  <2>3. PICK w \in {"ready", "standalone"} :
          /\ at' = [at EXCEPT ![c] = w] /\ (w = "standalone" => id' = id)
          /\ id' = id \/ id' = [id EXCEPT ![c] = None]
    BY <1>3 DEF Refused, Settle
  <2> QED
    BY <2>1, <2>2, <2>3, CallAlone
<1>4. ASSUME NEW c \in Calls, Opened(c) \/ Standalone(c) \/ Request(c) \/ Timeout(c) PROVE IInv'
  BY <1>4, OpenedKeeps, StandaloneKeeps, RequestKeeps, TimeoutKeeps
<1>5. ASSUME NEW s \in Sockets, Hello(s) PROVE IInv'
  <2>1. /\ at' = Resolved(at) /\ connecting' = None /\ sock' = [sock EXCEPT ![s] = "open"]
        /\ UNCHANGED <<id, crossed, table, child, bridgeSocket, bridge, backends>>
    BY <1>5 DEF Hello
  <2>2. sock' \in [Sockets -> SocketStates]
    BY <2>1 DEF IInv, Typed, LinkTyped, SocketStates
  <2> QED
    BY <2>1, <2>2, AttemptEnds
<1>6. ASSUME NEW s \in Sockets, ConnectFails(s) PROVE IInv'
  <2>1. /\ at' = Rejected(at) /\ connecting' = None /\ sock' = [sock EXCEPT ![s] = "dead"]
        /\ UNCHANGED <<id, crossed, table, child, bridgeSocket, bridge, backends>>
    BY <1>6 DEF ConnectFails, RejectBridgeConnect
  <2>2. sock' \in [Sockets -> SocketStates]
    BY <2>1 DEF IInv, Typed, LinkTyped, SocketStates
  <2> QED
    BY <2>1, <2>2, AttemptEnds
<1>7. ASSUME NEW s \in Sockets, SocketClosed(s) PROVE IInv'
  BY <1>7, SocketClosedKeeps
<1>8. ASSUME NEW k \in Procs, ChildAnswers(k) \/ ChildExits(k) PROVE IInv'
  BY <1>8, ChildAnswersKeeps, ChildExitsKeeps
<1>9. CASE Close \/ Reply \/ Dispose
  BY <1>9, CloseKeeps, ReplyKeeps, DisposeKeeps
<1>10. CASE Start
  <2>1. UNCHANGED <<calls, table, link, sock, todo, backends>>
    BY <1>10 DEF Start
  <2> USE DEF calls, table, link, backends, IInv
  <2>2. Typed'
    BY <2>1 DEF Typed, CallsTyped, TableTyped, LinkTyped, EndsTyped
  <2>3. Dialled' /\ Numbered' /\ Entered'
    BY <2>1 DEF Dialled, Numbered, Entered
  <2>4. Fresh'
    BY <2>1 DEF Fresh, Unshared
  <2> QED
    BY <2>2, <2>3, <2>4
<1>11. CASE UNCHANGED vars
  BY <1>11, StuttersKeep
<1> QED
  BY <1>1, <1>2, <1>3, <1>4, <1>5, <1>6, <1>7, <1>8, <1>9, <1>10, <1>11 DEF Next, Continue

-----------------------------------------------------------------------------
(* The inductive invariant holds in every reachable state.                 *)
THEOREM Invariant == Spec => []IInv
<1>1. Init => IInv
  BY Initially
<1>2. IInv /\ [Next]_vars => IInv'
  BY StepKeeps
<1> QED
  BY <1>1, <1>2, PTL DEF Spec

(* Without a standalone backend, whose start resets the counter of request *)
(* ids, no call of any number of concurrent ones is given the response to  *)
(* another: not after a timeout whose answer comes late, not after a lost  *)
(* connection or a restart of the extension.                               *)
THEOREM AnswersAreOwn == Spec => []OwnAnswers
<1>1. IInv => OwnAnswers
  BY DEF IInv, Fresh, OwnAnswers
<1> QED
  BY <1>1, Invariant, PTL

(* No call waits for something that cannot come: those that wait for the   *)
(* bridge wait for an attempt that is still to end, and a request of the   *)
(* table is the one its call waits for.                                    *)
THEOREM NobodyIsStranded == Spec => []NobodyStranded
<1>1. IInv => NobodyStranded
  BY DEF IInv, Dialled, Entered, NobodyStranded
<1> QED
  BY <1>1, Invariant, PTL

-----------------------------------------------------------------------------
(* McpTools, for any number of concurrent tool calls: the handler          *)
(* remembers a board only while a backend is in use.                       *)
(*                                                                         *)
(* Several backends take turns, and what an earlier one wrote is still     *)
(* read.  The argument is that whatever could make the handler remember a  *)
(* board - a request, an answer on its way, an answer that is settled and  *)
(* whose continuation has not run - is addressed to a call only while a    *)
(* backend is in use, and every way of ending its use takes the address    *)
(* off all three.                                                          *)
CONSTANTS Idler, MaxWire, MaxBackends
VARIABLES tool, place, res, timer, latestFrame, frameWaiters, session, streaming, reqs, others, wire, chunk

Handler == INSTANCE McpTools WITH at <- place

(* What McpTools assumes of None, which its instance does not bring along. *)
NobodyIsNone == None \notin Handler!Callers

(* Its inductive invariant.                                                *)
CallPlaces == Handler!Pending \cup {"idle", "ready", "frame", "fresh"}
Methods == {"detect", "connect", "preview", "use", "disconnect"}
Answers(callers) == [kind : {"response"}, call : callers, n : {"ok", "error"}]
Events == [kind : {"boardDisconnected"}, call : {None}, n : {None}]
Requests(callers) == [call : callers, method : Methods]
(* Written for somebody, and for nobody any more.                          *)
Addressees == Handler!Callers \cup {None}
Messages == Answers(Addressees) \cup Events
Lost == Answers({None}) \cup Events

ToolsTyped ==
  /\ place \in [Handler!Callers -> CallPlaces] /\ res \in [Handler!Callers -> {"none", "ok", "error"}]
  /\ backendChild \in {"none", "up", "dead"}
  /\ reqs \in Seq(Requests(Addressees)) /\ wire \in Seq(Messages)

Remembered == boardInfo => backendOpen
UsedRuns == backendOpen => backendChild # "none"
Answered == \A c \in Handler!Callers : place[c] \in Handler!Pending /\ res[c] = "ok" => backendOpen
Addressed == ~backendOpen => reqs \in Seq(Requests({None})) /\ wire \in Seq(Lost)

ToolsIInv == ToolsTyped /\ Remembered /\ UsedRuns /\ Answered /\ Addressed

-----------------------------------------------------------------------------
(* What the parts of the actions do.                                       *)

(* A stale queue is as long as it was, and addressed to nobody.            *)
LEMMA StaleIn ==
  ASSUME NEW S, NEW T, NEW q \in Seq(S), \A e \in S : [e EXCEPT !.call = None] \in T
  PROVE  Handler!Stale(q) \in Seq(T)
<1>1. DOMAIN q = 1 .. Len(q) /\ Len(q) \in Nat
  BY LenProperties
<1>2. \A i \in 1 .. Len(q) : [q[i] EXCEPT !.call = None] \in T
  BY ElementOfSeq
<1> QED
  BY <1>1, <1>2 DEF Handler!Stale

LEMMA StaleRequests ==
  ASSUME NEW q \in Seq(Requests(Addressees))
  PROVE  Handler!Stale(q) \in Seq(Requests({None}))
<1>1. \A e \in Requests(Addressees) : [e EXCEPT !.call = None] \in Requests({None})
  BY DEF Requests
<1> QED
  BY <1>1, StaleIn

LEMMA StaleMessages ==
  ASSUME NEW q \in Seq(Messages)
  PROVE  Handler!Stale(q) \in Seq(Lost)
<1>1. \A e \in Messages : [e EXCEPT !.call = None] \in Lost
  BY DEF Messages, Lost, Answers, Events
<1> QED
  BY <1>1, StaleIn

LEMMA LostIsTyped ==
  /\ Seq(Lost) \subseteq Seq(Messages)
  /\ Seq(Requests({None})) \subseteq Seq(Requests(Addressees))
<1>1. Lost \subseteq Messages
  BY DEF Lost, Messages, Answers, Addressees
<1>2. Requests({None}) \subseteq Requests(Addressees)
  BY DEF Requests, Addressees
<1> QED
  BY <1>1, <1>2, SeqMonotonic

(* A request: a backend is in use after it, if not before.                 *)
LEMMA AsksKeeps ==
  ASSUME ToolsIInv, NEW c \in Handler!Callers, NEW method \in Handler!Pending, Handler!Send(c, method),
         res' \in [Handler!Callers -> {"none", "ok", "error"}], wire' \in Seq(Messages)
  PROVE  ToolsIInv'
<1> DEFINE r == [call |-> c, method |-> method]
<1>1. r \in Requests(Addressees)
  BY DEF Requests, Addressees, Handler!Pending, Methods
<1>2. /\ place' = [place EXCEPT ![c] = method] /\ backendOpen'
      /\ IF backendOpen THEN /\ reqs' = (IF backendChild = "up" THEN Append(reqs, r) ELSE reqs)
                        /\ UNCHANGED backendChild
                   ELSE backendChild' = "up" /\ reqs' = <<r>>
  BY DEF Handler!Send
<1> HIDE DEF r
<1>3. Append(reqs, r) \in Seq(Requests(Addressees)) /\ <<r>> \in Seq(Requests(Addressees))
  BY <1>1 DEF ToolsIInv, ToolsTyped
<1>4. ToolsTyped'
  BY <1>2, <1>3 DEF ToolsIInv, ToolsTyped, CallPlaces
<1>5. backendChild' # "none"
  BY <1>2 DEF ToolsIInv, UsedRuns
<1> QED
  BY <1>2, <1>4, <1>5 DEF ToolsIInv, Remembered, UsedRuns, Answered, Addressed

(* Steps that leave the backend in use as it is.                           *)
LEMMA BackendStays ==
  ASSUME ToolsIInv, UNCHANGED <<backendChild, backendOpen>>, boardInfo' => boardInfo \/ backendOpen,
         place' \in [Handler!Callers -> CallPlaces], res' \in [Handler!Callers -> {"none", "ok", "error"}],
         \A c \in Handler!Callers : place'[c] \in Handler!Pending /\ res'[c] = "ok" =>
                              backendOpen \/ (place[c] \in Handler!Pending /\ res[c] = "ok"),
         reqs' \in Seq(Requests(Addressees)), ~backendOpen => reqs' \in Seq(Requests({None})),
         wire' \in Seq(Messages), ~backendOpen => wire' \in Seq(Lost)
  PROVE  ToolsIInv'
<1>1. ToolsTyped'
  BY DEF ToolsIInv, ToolsTyped
<1>2. Remembered' /\ UsedRuns'
  BY DEF ToolsIInv, Remembered, UsedRuns
<1>3. Answered'
  BY DEF ToolsIInv, Answered
<1>4. Addressed'
  BY DEF Addressed
<1> QED
  BY <1>1, <1>2, <1>3, <1>4 DEF ToolsIInv

(* A call goes on, with a request or without.                              *)
MovesOn(c) ==
  \/ \E method \in Handler!Pending : Handler!Send(c, method)
  \/ \E p \in {"idle", "ready", "frame", "fresh"} : place' = [place EXCEPT ![c] = p] /\ UNCHANGED Handler!backend

LEMMA MovesOnKeeps ==
  ASSUME ToolsIInv, NEW c \in Handler!Callers, MovesOn(c), boardInfo' => boardInfo \/ backendOpen,
         res' = res \/ res' = [res EXCEPT ![c] = "none"], UNCHANGED wire
  PROVE  ToolsIInv'
<1>1. res' \in [Handler!Callers -> {"none", "ok", "error"}] /\ wire' \in Seq(Messages)
  BY DEF ToolsIInv, ToolsTyped
<1>2. CASE \E method \in Handler!Pending : Handler!Send(c, method)
  BY <1>1, <1>2, AsksKeeps
<1>3. CASE \E p \in {"idle", "ready", "frame", "fresh"} :
             place' = [place EXCEPT ![c] = p] /\ UNCHANGED Handler!backend
  <2>1. PICK p \in {"idle", "ready", "frame", "fresh"} :
          place' = [place EXCEPT ![c] = p] /\ UNCHANGED Handler!backend
    BY <1>3
  <2>2. UNCHANGED <<backendChild, backendOpen, reqs>> /\ place' \in [Handler!Callers -> CallPlaces]
    BY <2>1 DEF Handler!backend, ToolsIInv, ToolsTyped, CallPlaces
  <2>3. \A d \in Handler!Callers : place'[d] \in Handler!Pending /\ res'[d] = "ok" =>
                             place[d] \in Handler!Pending /\ res[d] = "ok"
    BY <2>1 DEF ToolsIInv, ToolsTyped, Handler!Pending
  <2>4. /\ reqs' \in Seq(Requests(Addressees)) /\ (~backendOpen => reqs' \in Seq(Requests({None})))
        /\ (~backendOpen => wire' \in Seq(Lost))
    BY <2>2 DEF ToolsIInv, ToolsTyped, Addressed
  <2> QED
    BY <1>1, <2>2, <2>3, <2>4, BackendStays
<1> QED
  BY <1>2, <1>3 DEF MovesOn

LEMMA Going ==
  ASSUME NEW c \in Handler!Callers
  PROVE  /\ Handler!Proceed(c) => MovesOn(c)
         /\ Handler!ConnectBoard(c) => MovesOn(c)
         /\ \A which \in {"frame", "fresh"} : Handler!WaitForFrame(c, which) => MovesOn(c)
         /\ Handler!End(c) => MovesOn(c)
<1>1. Handler!Proceed(c) => MovesOn(c)
  BY DEF Handler!Proceed, Handler!Use, Handler!End, MovesOn, Handler!Pending
<1>2. Handler!ConnectBoard(c) => MovesOn(c)
  BY <1>1 DEF Handler!ConnectBoard, MovesOn, Handler!Pending
<1>3. \A which \in {"frame", "fresh"} : Handler!WaitForFrame(c, which) => MovesOn(c)
  BY DEF Handler!WaitForFrame, MovesOn
<1>4. Handler!End(c) => MovesOn(c)
  BY DEF Handler!End, MovesOn
<1> QED
  BY <1>1, <1>2, <1>3, <1>4

(* The end of a backend's use takes the address off everything.            *)
LEMMA CloseBackendKeeps ==
  ASSUME ToolsIInv, NEW c \in Handler!Callers, Handler!CloseBackend(c), boardInfo' = FALSE,
         place' = [place EXCEPT ![c] = "idle"]
  PROVE  ToolsIInv'
<1>1. /\ backendChild' = "none" /\ backendOpen' = FALSE /\ reqs' = <<>> /\ wire' = Handler!Stale(wire)
      /\ res' = [d \in Handler!Callers |-> IF d # c /\ place[d] \in Handler!Pending THEN "error"
                                   ELSE IF d = c THEN "none" ELSE res[d]]
  BY DEF Handler!CloseBackend
<1>2. wire' \in Seq(Lost)
  BY <1>1, StaleMessages DEF ToolsIInv, ToolsTyped
<1>3. /\ wire' \in Seq(Messages) /\ reqs' \in Seq(Requests({None}))
      /\ reqs' \in Seq(Requests(Addressees))
  BY <1>1, <1>2, LostIsTyped
<1>4. ToolsTyped'
  BY <1>1, <1>3 DEF ToolsIInv, ToolsTyped, CallPlaces
<1>5. Answered'
  BY <1>1 DEF ToolsIInv, ToolsTyped, Answered, Handler!Pending
<1> QED
  BY <1>1, <1>2, <1>3, <1>4, <1>5 DEF ToolsIInv, Remembered, UsedRuns, Addressed

LEMMA DisconnectKeeps ==
  ASSUME ToolsIInv, NEW c \in Handler!Callers, Handler!DisconnectBoardSession(c)
  PROVE  ToolsIInv'
<1>1. CASE boardInfo
  <2>1. Handler!Send(c, "disconnect") /\ UNCHANGED <<res, wire>> /\ "disconnect" \in Handler!Pending
    BY <1>1 DEF Handler!DisconnectBoardSession, Handler!Pending
  <2> QED
    BY <2>1, AsksKeeps DEF ToolsIInv, ToolsTyped
<1>2. CASE ~boardInfo
  BY <1>2, CloseBackendKeeps DEF Handler!DisconnectBoardSession, Handler!Forget
<1> QED
  BY <1>1, <1>2

-----------------------------------------------------------------------------
(* The steps of the server process.                                        *)
LEMMA CallToolKeeps ==
  ASSUME ToolsIInv, NEW c \in Handler!Callers, Handler!CallTool(c)
  PROVE  ToolsIInv'
<1>1. CASE Handler!ConnectBoard(c) /\ UNCHANGED <<res, boardInfo, wire>>
  BY <1>1, Going, MovesOnKeeps
<1>2. CASE Handler!LatestFrameForArgs(c) /\ UNCHANGED <<res, boardInfo, wire>>
  <2>1. MovesOn(c)
    BY <1>2, Going DEF Handler!LatestFrameForArgs
  <2> QED
    BY <1>2, <2>1, MovesOnKeeps
<1>3. CASE Handler!DisconnectBoardSession(c)
  BY <1>3, DisconnectKeeps
<1>4. CASE Handler!Send(c, "connect") /\ UNCHANGED <<res, boardInfo, wire>>
  <2>1. MovesOn(c)
    BY <1>4 DEF MovesOn, Handler!Pending
  <2> QED
    BY <1>4, <2>1, MovesOnKeeps
<1> QED
  BY <1>1, <1>2, <1>3, <1>4 DEF Handler!CallTool, Handler!frames

LEMMA ContinueKeeps ==
  ASSUME ToolsIInv, NEW c \in Handler!Callers, Handler!Continue(c)
  PROVE  ToolsIInv'
<1>1. CASE /\ place[c] \in Handler!Pending \ {"disconnect"} /\ res' = [res EXCEPT ![c] = "none"]
           /\ place[c] = "connect" /\ res[c] = "ok" /\ boardInfo' = TRUE /\ UNCHANGED wire
           /\ (place' = [place EXCEPT ![c] = "ready"] /\ UNCHANGED Handler!backend) \/ Handler!Proceed(c)
  <2>1. backendOpen
    BY <1>1 DEF ToolsIInv, Answered
  <2>2. MovesOn(c)
    BY <1>1, Going DEF MovesOn
  <2> QED
    BY <1>1, <2>1, <2>2, MovesOnKeeps
<1>2. CASE /\ res' = [res EXCEPT ![c] = "none"] /\ UNCHANGED <<boardInfo, wire>>
           /\ \/ Handler!WaitForFrame(c, "frame") \/ Handler!NextPart(c)
              \/ Handler!Send(c, "connect") \/ Handler!End(c)
  <2>1. MovesOn(c)
    BY <1>2, Going DEF Handler!NextPart, MovesOn, Handler!Pending
  <2> QED
    BY <1>2, <2>1, MovesOnKeeps
<1>3. CASE Handler!CloseBackend(c) /\ Handler!Forget /\ place' = [place EXCEPT ![c] = "idle"]
  BY <1>3, CloseBackendKeeps DEF Handler!Forget
<1> QED
  BY <1>1, <1>2, <1>3 DEF Handler!Continue

LEMMA ExpiryKeeps ==
  ASSUME ToolsIInv, NEW c \in Handler!Callers, Handler!Timeout(c)
  PROVE  ToolsIInv'
<1>1. /\ res' = [res EXCEPT ![c] = "error"] /\ UNCHANGED <<place, boardInfo, backendChild, backendOpen>>
      /\ reqs' = [i \in DOMAIN reqs |->
                    IF reqs[i].call = c THEN [reqs[i] EXCEPT !.call = None] ELSE reqs[i]]
      /\ wire' = [i \in DOMAIN wire |->
                    IF wire[i].call = c THEN [wire[i] EXCEPT !.call = None] ELSE wire[i]]
  BY DEF Handler!Timeout
<1>2. /\ reqs \in Seq(Requests(Addressees)) /\ wire \in Seq(Messages)
      /\ (~backendOpen => reqs \in Seq(Requests({None})) /\ wire \in Seq(Lost))
  BY DEF ToolsIInv, ToolsTyped, Addressed
<1>3. ASSUME NEW callers, reqs \in Seq(Requests(callers)), None \in callers
      PROVE  reqs' \in Seq(Requests(callers))
  <2>1. DOMAIN reqs = 1 .. Len(reqs) /\ Len(reqs) \in Nat
    BY <1>3, LenProperties
  <2>2. \A i \in 1 .. Len(reqs) : reqs[i] \in Requests(callers)
    BY <1>3, ElementOfSeq
  <2>3. \A i \in 1 .. Len(reqs) : [reqs[i] EXCEPT !.call = None] \in Requests(callers)
    BY <1>3, <2>2 DEF Requests
  <2> QED
    BY <1>1, <2>1, <2>2, <2>3
<1>4. ASSUME NEW callers, NEW S, S = Answers(callers) \cup Events,
             wire \in Seq(S), None \in callers
      PROVE  wire' \in Seq(S)
  <2>1. DOMAIN wire = 1 .. Len(wire) /\ Len(wire) \in Nat
    BY <1>4, LenProperties
  <2>2. \A i \in 1 .. Len(wire) : wire[i] \in S
    BY <1>4, ElementOfSeq
  <2>3. \A i \in 1 .. Len(wire) : [wire[i] EXCEPT !.call = None] \in S
    BY <1>4, <2>2 DEF Answers, Events
  <2> QED
    BY <1>1, <2>1, <2>2, <2>3
<1>5. reqs' \in Seq(Requests(Addressees)) /\ (~backendOpen => reqs' \in Seq(Requests({None})))
  BY <1>2, <1>3 DEF Addressees
<1>6. wire' \in Seq(Messages) /\ (~backendOpen => wire' \in Seq(Lost))
  BY <1>2, <1>4 DEF Addressees, Messages, Lost
<1>7. /\ place' \in [Handler!Callers -> CallPlaces] /\ res' \in [Handler!Callers -> {"none", "ok", "error"}]
      /\ \A d \in Handler!Callers : place'[d] \in Handler!Pending /\ res'[d] = "ok" =>
                              backendOpen \/ (place[d] \in Handler!Pending /\ res[d] = "ok")
  BY <1>1 DEF ToolsIInv, ToolsTyped
<1> QED
  BY <1>1, <1>5, <1>6, <1>7, BackendStays

(* Steps of which no request and no message knows.                         *)
LEMMA ElsewhereKeeps ==
  ASSUME ToolsIInv, UNCHANGED <<res, backendChild, backendOpen, reqs, wire>>, boardInfo' => boardInfo,
         place' \in [Handler!Callers -> CallPlaces],
         \A c \in Handler!Callers : place'[c] \in {place[c], "idle"}
  PROVE  ToolsIInv'
<1>1. /\ reqs' \in Seq(Requests(Addressees)) /\ (~backendOpen => reqs' \in Seq(Requests({None})))
      /\ wire' \in Seq(Messages) /\ (~backendOpen => wire' \in Seq(Lost))
      /\ res' \in [Handler!Callers -> {"none", "ok", "error"}]
  BY DEF ToolsIInv, ToolsTyped, Addressed
<1>2. \A c \in Handler!Callers :
        place'[c] \in Handler!Pending /\ res'[c] = "ok" => place[c] \in Handler!Pending /\ res[c] = "ok"
  BY DEF Handler!Pending
<1> QED
  BY <1>1, <1>2, BackendStays

LEMMA DeliverKeeps ==
  ASSUME NobodyIsNone, ToolsIInv, NEW last \in BOOLEAN, Handler!Deliver(last)
  PROVE  ToolsIInv'
<1>1. /\ wire # <<>> /\ wire' = Tail(wire)
      /\ UNCHANGED <<backendChild, backendOpen, reqs>>
      /\ \/ Head(wire).kind = "response" /\ Handler!HandleResponse(Head(wire))
         \/ boardInfo' = FALSE /\ UNCHANGED <<place, res>>
  BY DEF Handler!Deliver, Handler!BoardDisconnected, Handler!backend
<1>2. /\ wire \in Seq(Messages) /\ (~backendOpen => wire \in Seq(Lost))
      /\ reqs' \in Seq(Requests(Addressees)) /\ (~backendOpen => reqs' \in Seq(Requests({None})))
      /\ place \in [Handler!Callers -> CallPlaces] /\ res \in [Handler!Callers -> {"none", "ok", "error"}]
  BY <1>1 DEF ToolsIInv, ToolsTyped, Addressed
<1>3. /\ wire' \in Seq(Messages) /\ (~backendOpen => wire' \in Seq(Lost))
      /\ Head(wire) \in Messages /\ (~backendOpen => Head(wire) \in Lost)
  BY <1>1, <1>2, HeadTailProperties
<1>4. CASE boardInfo' = FALSE /\ UNCHANGED <<place, res>>
  BY <1>1, <1>2, <1>3, <1>4, BackendStays
<1>5. CASE Head(wire).kind = "response" /\ Handler!HandleResponse(Head(wire))
  <2>1. PICK m : m = Head(wire)
    OBVIOUS
  <2>2. m.n \in {"ok", "error"} /\ (~backendOpen => m.call = None)
    BY <1>3, <1>5, <2>1 DEF Messages, Lost, Answers, Events
  <2>3. /\ res' = [c \in Handler!Callers |-> IF c = m.call THEN m.n ELSE res[c]]
        /\ UNCHANGED <<place, boardInfo>>
    BY <1>5, <2>1 DEF Handler!HandleResponse
  <2>4. \A c \in Handler!Callers : c # None
    BY DEF NobodyIsNone
  <2>5. /\ res' \in [Handler!Callers -> {"none", "ok", "error"}] /\ place' \in [Handler!Callers -> CallPlaces]
        /\ \A c \in Handler!Callers : place'[c] \in Handler!Pending /\ res'[c] = "ok" =>
                                backendOpen \/ (place[c] \in Handler!Pending /\ res[c] = "ok")
    BY <1>2, <2>2, <2>3, <2>4
  <2> QED
    BY <1>1, <1>2, <1>3, <2>3, <2>5, BackendStays
<1> QED
  BY <1>1, <1>4, <1>5

(* The exit of any backend, in use or not.                                 *)
LEMMA HandleExitKeeps ==
  ASSUME ToolsIInv, Handler!HandleExit, backendChild' \in {"none", backendChild}
  PROVE  ToolsIInv'
<1>1. /\ wire' = Handler!Stale(wire) /\ reqs' = Handler!Stale(reqs)
      /\ res' = [c \in Handler!Callers |-> IF place[c] \in Handler!Pending THEN "error" ELSE res[c]]
      /\ boardInfo' = FALSE /\ backendOpen' = FALSE /\ UNCHANGED place
  BY DEF Handler!HandleExit, Handler!BoardDisconnected
<1>2. wire' \in Seq(Lost) /\ reqs' \in Seq(Requests({None}))
  BY <1>1, StaleMessages, StaleRequests DEF ToolsIInv, ToolsTyped
<1>3. ToolsTyped'
  BY <1>1, <1>2, LostIsTyped DEF ToolsIInv, ToolsTyped
<1>4. Answered'
  BY <1>1 DEF Answered
<1> QED
  BY <1>1, <1>2, <1>3, <1>4 DEF ToolsIInv, Remembered, UsedRuns, Addressed

LEMMA ExitsKeep ==
  ASSUME ToolsIInv, Handler!DeliverExit \/ \E b \in Handler!Others : Handler!OtherExits(b)
  PROVE  ToolsIInv'
<1>1. Handler!HandleExit /\ backendChild' \in {"none", backendChild}
  BY DEF Handler!DeliverExit, Handler!OtherExits
<1> QED
  BY <1>1, HandleExitKeeps

-----------------------------------------------------------------------------
(* The steps of the backends.                                              *)

(* One writes a message, to somebody only while it is in use.              *)
LEMMA WritesKeeps ==
  ASSUME ToolsIInv, NEW m \in Messages, ~backendOpen => m \in Lost, wire' = Append(wire, m),
         UNCHANGED <<place, res, boardInfo, backendChild, backendOpen>>,
         reqs' \in Seq(Requests(Addressees)), ~backendOpen => reqs' \in Seq(Requests({None}))
  PROVE  ToolsIInv'
<1>1. wire' \in Seq(Messages) /\ (~backendOpen => wire' \in Seq(Lost))
  BY DEF ToolsIInv, ToolsTyped, Addressed
<1>2. ToolsTyped'
  BY <1>1 DEF ToolsIInv, ToolsTyped
<1>3. Remembered' /\ UsedRuns' /\ Answered'
  BY DEF ToolsIInv, Remembered, UsedRuns, Answered
<1>4. Addressed'
  BY <1>1 DEF Addressed
<1> QED
  BY <1>2, <1>3, <1>4 DEF ToolsIInv

LEMMA ServeKeeps ==
  ASSUME ToolsIInv, Handler!Serve
  PROVE  ToolsIInv'
<1>1. /\ reqs # <<>> /\ reqs' = Tail(reqs)
      /\ \E ok \in {"ok", "error"} : wire' = Append(wire, Handler!Message("response", Head(reqs).call, ok))
      /\ UNCHANGED <<place, res, boardInfo, backendOpen, backendChild>>
  BY DEF Handler!Serve, Handler!calls
<1>2. PICK ok \in {"ok", "error"} : wire' = Append(wire, Handler!Message("response", Head(reqs).call, ok))
  BY <1>1
<1>3. /\ reqs \in Seq(Requests(Addressees))
      /\ (~backendOpen => reqs \in Seq(Requests({None})))
  BY DEF ToolsIInv, ToolsTyped, Addressed
<1>4. /\ reqs' \in Seq(Requests(Addressees)) /\ (~backendOpen => reqs' \in Seq(Requests({None})))
      /\ Head(reqs) \in Requests(Addressees) /\ (~backendOpen => Head(reqs) \in Requests({None}))
  BY <1>1, <1>3, HeadTailProperties
<1>5. /\ Handler!Message("response", Head(reqs).call, ok) \in Messages
      /\ ~backendOpen => Handler!Message("response", Head(reqs).call, ok) \in Lost
  BY <1>4 DEF Handler!Message, Messages, Lost, Answers, Requests
<1> QED
  BY <1>1, <1>2, <1>4, <1>5, WritesKeeps

LEMMA UnpluggedKeeps ==
  ASSUME ToolsIInv, Handler!Unplug \/ \E b \in Handler!Others : Handler!OtherUnplugged(b)
  PROVE  ToolsIInv'
<1>1. /\ wire' = Append(wire, Handler!Message("boardDisconnected", None, None))
      /\ UNCHANGED <<place, res, boardInfo, backendChild, backendOpen, reqs>>
  BY DEF Handler!Unplug, Handler!OtherUnplugged, Handler!calls
<1>2. Handler!Message("boardDisconnected", None, None) \in Messages \cap Lost
  BY DEF Handler!Message, Messages, Lost, Events
<1>3. reqs' \in Seq(Requests(Addressees)) /\ (~backendOpen => reqs' \in Seq(Requests({None})))
  BY <1>1 DEF ToolsIInv, ToolsTyped, Addressed
<1> QED
  BY <1>1, <1>2, <1>3, WritesKeeps

LEMMA CrashKeeps ==
  ASSUME ToolsIInv, Handler!Crash
  PROVE  ToolsIInv'
<1>1. /\ backendChild' = "dead" /\ reqs' = <<>>
      /\ UNCHANGED <<place, res, boardInfo, backendOpen, wire>>
  BY DEF Handler!Crash, Handler!calls
<1>2. reqs' \in Seq(Requests(Addressees)) /\ reqs' \in Seq(Requests({None}))
  BY <1>1
<1> QED
  BY <1>1, <1>2 DEF ToolsIInv, ToolsTyped, Remembered, UsedRuns, Answered, Addressed

-----------------------------------------------------------------------------
(* Every step keeps the invariant.                                         *)
LEMMA ToolsInitially == Handler!Init => ToolsIInv
BY DEF Handler!Init, ToolsIInv, ToolsTyped, Remembered, UsedRuns, Answered, Addressed,
   CallPlaces

LEMMA ToolsStepKeeps ==
  ASSUME NobodyIsNone, ToolsIInv, [Handler!Next]_Handler!vars
  PROVE  ToolsIInv'
<1>1. ASSUME NEW c \in Handler!Callers,
             Handler!CallTool(c) \/ Handler!Continue(c) \/ Handler!Timeout(c)
      PROVE  ToolsIInv'
  BY <1>1, CallToolKeeps, ContinueKeeps, ExpiryKeeps
<1>2. ASSUME NEW c \in Handler!Callers, Handler!BoardReady(c) PROVE ToolsIInv'
  <2>1. Handler!Proceed(c) /\ UNCHANGED <<res, boardInfo, wire>>
    BY <1>2 DEF Handler!BoardReady
  <2> QED
    BY <2>1, Going, MovesOnKeeps
<1>3. ASSUME NEW c \in Handler!Callers, Handler!FrameTimeout(c) PROVE ToolsIInv'
  <2>1. place' = [place EXCEPT ![c] = "idle"] /\ UNCHANGED <<res, boardInfo, backendChild, backendOpen, reqs, wire>>
    BY <1>3 DEF Handler!FrameTimeout, Handler!backend
  <2>2. place' \in [Handler!Callers -> CallPlaces] /\ \A d \in Handler!Callers : place'[d] \in {place[d], "idle"}
    BY <2>1 DEF ToolsIInv, ToolsTyped, CallPlaces
  <2> QED
    BY <2>1, <2>2, ElsewhereKeeps
<1>4. CASE Handler!IdleTimer
  <2>1. Idler \in Handler!Callers /\ Handler!DisconnectBoardSession(Idler)
    BY <1>4 DEF Handler!IdleTimer, Handler!Callers
  <2> QED
    BY <2>1, DisconnectKeeps
<1>5. ASSUME NEW last \in BOOLEAN, Handler!Deliver(last) PROVE ToolsIInv'
  BY <1>5, DeliverKeeps
<1>6. CASE Handler!HandleFrame
  <2>1. PICK same \in SUBSET {c \in frameWaiters : place[c] = "fresh"} :
          place' = [c \in Handler!Callers |-> IF c \in frameWaiters \ same THEN "idle" ELSE place[c]]
    BY <1>6 DEF Handler!HandleFrame
  <2>2. UNCHANGED <<res, boardInfo, backendChild, backendOpen, reqs, wire>>
    BY <1>6 DEF Handler!HandleFrame, Handler!backend
  <2>3. place' \in [Handler!Callers -> CallPlaces] /\ \A d \in Handler!Callers : place'[d] \in {place[d], "idle"}
    BY <2>1 DEF ToolsIInv, ToolsTyped, CallPlaces
  <2> QED
    BY <2>2, <2>3, ElsewhereKeeps
<1>7. CASE Handler!EndChunk \/ UNCHANGED Handler!vars
  <2>1. UNCHANGED <<place, res, boardInfo, backendChild, backendOpen, reqs, wire>>
    BY <1>7 DEF Handler!EndChunk, Handler!vars, Handler!calls, Handler!backend
  <2>2. place' \in [Handler!Callers -> CallPlaces]
    BY <2>1 DEF ToolsIInv, ToolsTyped
  <2> QED
    BY <2>1, <2>2, ElsewhereKeeps
<1>8. CASE \/ Handler!DeliverExit \/ Handler!Serve \/ Handler!Unplug \/ Handler!Crash
           \/ \E b \in Handler!Others : Handler!OtherExits(b) \/ Handler!OtherUnplugged(b)
  BY <1>8, ExitsKeep, ServeKeeps, UnpluggedKeeps, CrashKeeps
<1> QED
  BY <1>1, <1>2, <1>3, <1>4, <1>5, <1>6, <1>7, <1>8 DEF Handler!Next

-----------------------------------------------------------------------------
(* The inductive invariant of McpTools holds in every reachable state.     *)
THEOREM ToolsInvariant ==
  ASSUME NobodyIsNone
  PROVE  Handler!Spec => []ToolsIInv
<1>1. Handler!Init => ToolsIInv
  BY ToolsInitially
<1>2. ToolsIInv /\ [Handler!Next]_Handler!vars => ToolsIInv'
  BY ToolsStepKeeps
<1> QED
  BY <1>1, <1>2, PTL DEF Handler!Spec

(* The handler remembers a board only while a backend is in use that runs  *)
(* or whose exit is still to be seen, so that the next tool connects       *)
(* instead of failing - whatever the idle timer, timeouts, crashes and     *)
(* disconnections of concurrent calls do in between.                       *)
THEOREM BoardsNeedBackends ==
  ASSUME NobodyIsNone
  PROVE  Handler!Spec => []BoardNeedsBackend
<1>1. ToolsIInv => BoardNeedsBackend
  BY DEF ToolsIInv, Remembered, UsedRuns, BoardNeedsBackend
<1> QED
  BY <1>1, ToolsInvariant, PTL
=============================================================================
