-------------------------------- MODULE UsbLink --------------------------------
(***************************************************************************)
(* The USBDBG link of a capability-protocol board: usbdbg/board.go, the    *)
(* negotiation in boardprotocol/protocol.go and the poller's use of the    *)
(* link in main.go.  Commands carry no number: a reply is paired with its  *)
(* command only by its place in the byte stream, and a reply that comes    *)
(* after its command was given up shifts every later one until Sync finds  *)
(* the marker of a QUERY_STATUS reply.                                     *)
(*                                                                         *)
(* The unit is a cell of four bytes: every field of the replies below is a *)
(* multiple of it.  An operation is what runs under opMu (BackendServer):  *)
(* operations exclude each other, so there is one host process, but a      *)
(* round of the poller is three of them, and others may come between.      *)
(***************************************************************************)
EXTENDS Naturals, Sequences, SequencesExt

CONSTANTS
  VersionParts,  \* the numbers a firmware version is made of
  Slow,          \* the exchanges whose reply may come after the timeout
  Operations,    \* the operations the host starts: "negotiate", "read", "poll"
  MaxTimeouts,   \* bound: replies given up though they are still to come
  MaxOps,        \* bound: operations started
  MaxNoise       \* bound: stale cells on the line when the port is opened

Exchanges == {"sync1", "version", "caps", "sync2", "caps2", "full",   \* Negotiate
              "stat", "read", "resync", "reread",                     \* ReadFileAll
              "txlen", "tx", "running", "recover"}                    \* the poller
Syncs == {"sync1", "sync2", "resync", "recover"}

(* The exchanges that are followed by a Sync when they fail.               *)
FollowedBySync == {"version", "caps", "read", "txlen", "tx"}

(* Words that are no plausible length: Big + i.                            *)
Big == 1000

ASSUME ConstantsAssumption ==
  /\ VersionParts \subseteq 0 .. Big - 1
  /\ Slow \subseteq Exchanges
  /\ Operations \subseteq {"negotiate", "read", "poll"}
  /\ {MaxTimeouts, MaxOps, MaxNoise} \subseteq Nat

VARIABLES
  inbox,      \* commands the board has not served
  line,       \* cells on their way to the host
  sent,       \* number of commands sent
  step, got,  \* the exchange in progress ("idle" if none) and its cells so far
  turn,       \* what the poller does next under opMu: "drain", "sync" or "state"
  off, size, out,          \* ReadFileAll: offset, stat.Size (the poller: length of
                           \* the transmit buffer) and the bytes so far
  profile,    \* what was negotiated: its kind and the capability flags
  timeouts, ops,
  unsynced,   \* history: a Sync was left out or overtaken, and none returned since
  exposed,    \* history: the last operation began so
  mixed,      \* history: its exchanges that took a foreign cell for their reply
  read        \* history: what it returned, if it is a ReadFileAll

vars == <<inbox, line, sent, step, got, turn, off, size, out, profile, timeouts, ops,
          unsynced, exposed, mixed, read>>

-----------------------------------------------------------------------------
(* The board.  Values are small numbers as they are and Big + i for text,  *)
(* a time, file contents and the marker.                                   *)
Magic == Big                     \* queryStatusMagic
Junk  == Big + 1
FileBytes == 8
Word(o) == Big + 10 + o          \* the file's word at offset o
File  == <<Word(0), Word(4)>>
Flags == 5
capProtocolVersion == 2
maxTxBufPayload == 100
Chunk == 4                       \* bytes asked for at a time

(* What a command may be answered with.  Past the end of the file there is *)
(* nothing to read; the transmit buffer is empty or holds one word, and    *)
(* the board may abandon the reply that sends it (main.go:1527-1529).  A   *)
(* chunk is asked for whole, unless the size was misread.                  *)
RepliesOf(c) ==
  CASE c.of \in Syncs              -> {<<Magic>>}
    [] c.of = "version"            -> VersionParts \X VersionParts \X VersionParts
    [] c.of \in {"caps", "caps2"}  -> {<<capProtocolVersion, Flags>>}
    [] c.of = "full"               -> {<<Junk, Junk>>}
    [] c.of = "stat"               -> {<<0, 0, FileBytes, Junk>>}
    [] c.of \in {"read", "reread"} -> {IF c.arg < FileBytes THEN <<0, Chunk, 0, Word(c.arg)>>
                                       ELSE <<0, 0, 0>>}
    [] c.of = "txlen"              -> {<<0>>, <<4>>}
    [] c.of = "tx"                 -> {<<>>, <<Junk>>}
    [] c.of = "running"            -> {<<0>>, <<1>>}

Serve ==
  /\ inbox # <<>>
  /\ \E r \in RepliesOf(Head(inbox)) :
       line' = line \o [i \in DOMAIN r |-> [req |-> Head(inbox).req, val |-> r[i]]]
  /\ inbox' = Tail(inbox)
  /\ UNCHANGED <<sent, step, got, turn, off, size, out, profile, timeouts, ops,
                 unsynced, exposed, mixed, read>>

-----------------------------------------------------------------------------
Profile(kind, flags) == [kind |-> kind, flags |-> flags]

Init ==
  /\ inbox = <<>> /\ sent = 0
  /\ line \in {[i \in 1 .. n |-> [req |-> 0, val |-> Junk]] : n \in 0 .. MaxNoise}
  /\ step = "idle" /\ got = <<>> /\ turn = "drain"
  /\ off = 0 /\ size = 0 /\ out = <<>>
  /\ profile = IF "negotiate" \in Operations THEN Profile("none", 0) ELSE Profile("v2", Flags)
  /\ timeouts = 0 /\ ops = 0
  /\ unsynced = FALSE /\ exposed = FALSE /\ mixed = {} /\ read = <<"none">>

(* writeCommandLocked: the next exchange of the operation.                 *)
Send(next, arg) ==
  /\ sent' = sent + 1
  /\ inbox' = Append(inbox, [of |-> next, arg |-> arg, req |-> sent'])
  /\ step' = next
  /\ got' = <<>>

(* The operation is over.                                                  *)
Over == step' = "idle" /\ got' = <<>> /\ UNCHANGED <<sent, inbox>>

(* connectBoard negotiates first; a legacy board is served otherwise.  The *)
(* poller drains the transmit buffer, then asks whether the script runs;   *)
(* after a drain that failed it calls recoverStreamDesync.  It holds opMu  *)
(* for each of them only, so that a file read may come in between.         *)
Start(op) ==
  /\ step = "idle" /\ ops < MaxOps /\ op \in Operations
  /\ profile.kind # "legacy" /\ (op = "negotiate" <=> profile.kind = "none")
  /\ ops' = ops + 1
  /\ CASE op = "negotiate"                -> Send("sync1", 0)
       [] op = "read"                     -> Send("stat", 0)
       [] op = "poll" /\ turn = "drain"   -> Send("txlen", 0)
       [] op = "poll" /\ turn = "sync"    -> Send("recover", 0)
       [] op = "poll" /\ turn = "state"   -> Send("running", 0)
  /\ off' = 0 /\ size' = 0 /\ out' = <<>>
  /\ unsynced' = (unsynced \/ (turn = "sync" /\ op # "poll"))
  /\ exposed' = unsynced' /\ mixed' = {} /\ read' = <<"none">>
  /\ UNCHANGED <<line, turn, profile, timeouts>>

(* What was due is not done: withWorkerBoardOperation refuses a worker     *)
(* that was stopped, and the next poller begins with a drain; a drain of   *)
(* stableDrain or of a user operation ignores its error; the state of an   *)
(* idle board is not asked for every time.                                 *)
PassTurn ==
  /\ step = "idle" /\ turn # "drain"
  /\ turn' = "drain"
  /\ unsynced' = (unsynced \/ turn = "sync")
  /\ UNCHANGED <<inbox, line, sent, step, got, off, size, out, profile, timeouts, ops,
                 exposed, mixed, read>>

-----------------------------------------------------------------------------
(* Reading a reply.                                                        *)
Val(cells) == [i \in DOMAIN cells |-> cells[i].val]

(* The bytes ReadFileAll asks for next, and a READ_FILE header's data      *)
(* length: readFileResponse rejects more than was asked for.               *)
Wanted == IF size - off < Chunk THEN size - off ELSE Chunk
DataLen(v) == v[2]
BadLength(v) == DataLen(v) # 0 /\ DataLen(v) > Wanted

(* The cells an exchange reads: fixed, or told by a header of three.       *)
Need(v) ==
  CASE step = "version" -> 3
    [] step \in {"caps", "caps2", "full"} -> 2
    [] step = "stat" -> 4
    [] step \in {"txlen", "running"} -> 1
    [] step = "tx" -> (size + 3) \div 4
    [] step \in {"read", "reread"} ->
         IF Len(v) < 3 \/ DataLen(v) = 0 \/ BadLength(v) THEN 3 ELSE 4

(* Mutant: Sync returns with the first bytes.                              *)
ReturnsAtOnce(v) == IF step \in Syncs THEN Len(v) >= 1 ELSE Len(v) >= Need(v)
Complete(v) == IF step \in Syncs THEN Contains(v, Magic) ELSE Len(v) >= Need(v)

(* The error checks within an exchange.                                    *)
Accepted(v) ==
  CASE step \in {"caps", "caps2"}  -> v[1] = capProtocolVersion
    [] step \in {"read", "reread"} -> ~BadLength(v)
    [] step = "txlen"              -> v[1] <= maxTxBufPayload
    [] OTHER                       -> TRUE

-----------------------------------------------------------------------------
(* What follows an exchange that returned v (ok) or an error.              *)

(* DrainInput takes what has arrived; the rest stays on its way.           *)
Drain(rest) == \E n \in 0 .. Len(rest) : line' = SubSeq(rest, n + 1, Len(rest))

(* Mutant: the second Capabilities is not preceded by a Sync.              *)
NegotiateWithoutSync(ok, v, rest) ==
  CASE step = "sync1"   -> Send("version", 0) /\ line' = rest /\ UNCHANGED profile
    [] step = "version" -> Send("caps", 0) /\ line' = rest /\ UNCHANGED profile
    [] step \in {"caps", "caps2"} /\ ok ->
         Send("full", 0) /\ profile' = Profile("v2", v[2]) /\ line' = rest
    [] step = "caps" /\ ~ok  -> Send("caps2", 0) /\ line' = rest /\ UNCHANGED profile
    [] step = "caps2" /\ ~ok -> Over /\ profile' = Profile("legacy", 0) /\ Drain(rest)
    [] step = "full"         -> Over /\ line' = rest /\ UNCHANGED profile

(* Negotiate.                                                              *)
Negotiate(ok, v, rest) ==
  CASE step = "sync1"   -> Send("version", 0) /\ line' = rest /\ UNCHANGED profile
    [] step = "version" -> Send("caps", 0) /\ line' = rest /\ UNCHANGED profile
    [] step \in {"caps", "caps2"} /\ ok ->
         Send("full", 0) /\ profile' = Profile("v2", v[2]) /\ line' = rest
    [] step = "caps" /\ ~ok  -> Send("sync2", 0) /\ line' = rest /\ UNCHANGED profile
    [] step = "sync2"        -> /\ Send("caps2", 0) /\ UNCHANGED profile
                                /\ IF ok THEN line' = rest ELSE Drain(rest)
    [] step = "caps2" /\ ~ok -> Over /\ profile' = Profile("legacy", 0) /\ Drain(rest)
    [] step = "full"         -> Over /\ line' = rest /\ UNCHANGED profile

Failed == Over /\ read' = <<"failed">> /\ UNCHANGED <<off, size, out>>

AfterStat(v) ==
  CASE v[1] # 0 \/ v[2] = 1 -> Failed
    [] v[1] = 0 /\ v[2] # 1 /\ v[3] = 0 ->
         Over /\ read' = <<>> /\ size' = 0 /\ UNCHANGED <<off, out>>
    [] OTHER -> Send("read", 0) /\ size' = v[3] /\ UNCHANGED <<off, out, read>>

(* Mutant: the end of the file is compared before the chunk is added.      *)
AsksPastTheEnd(v) ==
  LET data == SubSeq(v, 4, 4) IN
  CASE v[1] # 0 \/ DataLen(v) = 0 -> Failed
    [] v[1] = 0 /\ DataLen(v) # 0 /\ off >= size ->
         Over /\ read' = out \o data /\ UNCHANGED <<off, size, out>>
    [] OTHER -> /\ Send("read", off + DataLen(v))
                /\ off' = off + DataLen(v) /\ out' = out \o data
                /\ UNCHANGED <<size, read>>

AfterChunk(v) ==
  LET data == SubSeq(v, 4, 4) IN
  CASE v[1] # 0 \/ DataLen(v) = 0 -> Failed
    [] v[1] = 0 /\ DataLen(v) # 0 /\ off + DataLen(v) >= size ->
         Over /\ read' = out \o data /\ UNCHANGED <<off, size, out>>
    [] OTHER -> /\ Send("read", off + DataLen(v))
                /\ off' = off + DataLen(v) /\ out' = out \o data
                /\ UNCHANGED <<size, read>>

(* Mutant: the retry is not preceded by a Sync.                            *)
RetryWithoutSync(ok, v) ==
  CASE step = "stat"   -> IF ok THEN AfterStat(v) ELSE Failed
    [] step = "read"   -> IF ok THEN AfterChunk(v)
                          ELSE Send("reread", off) /\ UNCHANGED <<off, size, out, read>>
    [] step = "reread" -> IF ok THEN AfterChunk(v) ELSE Failed

(* ReadFileAll and ReadFile: a failed READ_FILE is repeated once, after a  *)
(* Sync.                                                                   *)
ReadFileAll(ok, v) ==
  CASE step = "stat"   -> IF ok THEN AfterStat(v) ELSE Failed
    [] step = "read"   -> IF ok THEN AfterChunk(v)
                          ELSE Send("resync", 0) /\ UNCHANGED <<off, size, out, read>>
    [] step = "resync" -> IF ok THEN Send("reread", off) /\ UNCHANGED <<off, size, out, read>>
                          ELSE Failed
    [] step = "reread" -> IF ok THEN AfterChunk(v) ELSE Failed

(* Mutant: a failed drain is not followed by a Sync.                       *)
PollWithoutSync(ok, v) ==
  CASE step \in {"txlen", "tx"} /\ ~ok     -> Over /\ turn' = "drain" /\ UNCHANGED size
    [] step = "txlen" /\ ok /\ v[1] # 0     -> Send("tx", v[1]) /\ size' = v[1] /\ UNCHANGED turn
    [] \/ step = "txlen" /\ ok /\ v[1] = 0
       \/ step = "tx" /\ ok                 -> Over /\ turn' = "state" /\ UNCHANGED size
    [] step \in {"running", "recover"}      -> Over /\ turn' = "drain" /\ UNCHANGED size

(* The poller: DrainTxBuf, ScriptRunning and recoverStreamDesync.          *)
Poll(ok, v) ==
  CASE step \in {"txlen", "tx"} /\ ~ok     -> Over /\ turn' = "sync" /\ UNCHANGED size
    [] step = "txlen" /\ ok /\ v[1] # 0     -> Send("tx", v[1]) /\ size' = v[1] /\ UNCHANGED turn
    [] \/ step = "txlen" /\ ok /\ v[1] = 0
       \/ step = "tx" /\ ok                 -> Over /\ turn' = "state" /\ UNCHANGED size
    [] step \in {"running", "recover"}      -> Over /\ turn' = "drain" /\ UNCHANGED size

(* Whether a Sync is missing once the exchange is over.                    *)
Note(ok) ==
  unsynced' = CASE ok /\ step \in Syncs            -> FALSE
                [] ~ok /\ step \notin FollowedBySync -> TRUE
                [] OTHER                           -> unsynced

Continue(ok, v, rest) ==
  /\ Note(ok) /\ UNCHANGED exposed
  /\ CASE step \in {"sync1", "version", "caps", "sync2", "caps2", "full"} ->
            Negotiate(ok, v, rest) /\ UNCHANGED <<turn, off, size, out, read>>
       [] step \in {"stat", "read", "resync", "reread"} ->
            ReadFileAll(ok, v) /\ line' = rest /\ UNCHANGED <<turn, profile>>
       [] step \in {"txlen", "tx", "running", "recover"} ->
            Poll(ok, v) /\ line' = rest /\ UNCHANGED <<off, out, read, profile>>

Foreign(cells) == step \notin Syncs /\ \E i \in 1 .. Need(Val(cells)) : cells[i].req # sent

(* port.Read returns n cells.  What an exchange has read beyond its reply  *)
(* is dropped with its receive buffer.                                     *)
Receive(n) ==
  LET cells == got \o SubSeq(line, 1, n)
      rest  == SubSeq(line, n + 1, Len(line))
      v     == Val(cells)
  IN /\ step # "idle"
     /\ n \in 1 .. Len(line)
     /\ IF Complete(v)
        THEN /\ Continue(Accepted(v), v, rest)
             /\ mixed' = IF Accepted(v) /\ Foreign(cells) THEN mixed \cup {step} ELSE mixed
        ELSE /\ got' = cells /\ line' = rest
             /\ UNCHANGED <<inbox, sent, step, turn, off, size, out, profile, unsynced, exposed,
                            mixed, read>>
     /\ UNCHANGED <<timeouts, ops>>

(* frameContinuationTimeout without a byte: the board is slow, or nothing  *)
(* more will come.                                                         *)
NeverStarved == FALSE    \* mutant: an empty read counts as progress
Starved == line = <<>> /\ inbox = <<>>
Timeout ==
  /\ step # "idle"
  /\ \/ Starved /\ UNCHANGED timeouts
     \/ /\ ~Starved /\ step \in Slow /\ timeouts < MaxTimeouts
        /\ timeouts' = timeouts + 1
  /\ Continue(FALSE, <<>>, line)
  /\ UNCHANGED <<ops, mixed>>

Host == \/ Timeout \/ (\E n \in 1 .. Len(line) : Receive(n))
        \/ PassTurn \/ \E op \in Operations : Start(op)
Next == Serve \/ Host
Spec == Init /\ [][Next]_vars

(* The board serves what it is sent, and reads and timeouts end.  The      *)
(* backend may stop starting operations.                                   *)
FairSpec == /\ Spec /\ WF_vars(Serve)
            /\ WF_vars(Timeout \/ \E n \in 1 .. Len(line) : Receive(n))

-----------------------------------------------------------------------------
TypeOK ==
  /\ step \in Exchanges \cup {"idle"} /\ turn \in {"drain", "sync", "state"}
  /\ \A i \in DOMAIN inbox : inbox[i].of \in Exchanges /\ inbox[i].req \in 1 .. sent
  /\ \A i \in DOMAIN line : line[i].req \in 0 .. sent /\ line[i].val \in Nat
  /\ off \in Nat /\ size \in Nat
  /\ step \in {"read", "reread"} => off < size
  /\ mixed \subseteq Exchanges \ Syncs

(* A file is read as it is or not at all: no reply to another command ends *)
(* up in its bytes, whatever chunks the port delivers and however late the *)
(* replies of the read itself and of what went before (ReadFileAll).  Not  *)
(* promised of a read that begins while a Sync is missing (unsynced).      *)
EveryFileIsRead == read \in {<<"none">>, <<"failed">>, File}
ReadsTheFile == exposed \/ EveryFileIsRead

(* What the poller publishes of the script's state and output are the      *)
(* board's replies to its questions, not to earlier ones: the Sync of      *)
(* recoverStreamDesync suffices where nothing comes before it and nothing  *)
(* that it does not follow was given up.                                   *)
EverySampleIsPaired == mixed \cap {"txlen", "tx", "running"} = {}
SamplesArePaired == exposed \/ EverySampleIsPaired

(* A board with the capability protocol is never taken for a legacy one,   *)
(* nor its capabilities for others, in spite of stale bytes on the line    *)
(* (Negotiate).                                                            *)
NegotiatesTruly == profile \in {Profile("none", 0), Profile("v2", Flags)}

SyncReturns  == step \in Syncs /\ step' # step /\ timeouts' = timeouts /\ ~Starved
NothingOlder == line = <<>> /\ \A i \in DOMAIN inbox : inbox[i].req = sent

(* "After Sync returns nil the next framed reply read by the caller is     *)
(* byte-aligned" (board.go:240-241): no earlier reply is still to come.    *)
SyncAligns ==
  [][SyncReturns => NothingOlder']_vars

(* Every operation ends, although a misaligned read waits for bytes that   *)
(* never come.                                                             *)
OperationsEnd == step # "idle" ~> step = "idle"
=============================================================================
