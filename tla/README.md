# Verification of the CanMV extension

TLA+ models of the CanMV VS Code extension and its Go backend, the TLC runs that
check them on small instances, and the theorems TLAPS proves about them.
`PROJECT.json` lists the runs, the mutants that show each property can fail, the
source lines each definition stands for, the hazards and the theorems. Configurations
that are not listed there are larger instances or show where the code does not do what
one would expect; section 8 explains each of the latter.

## 1. The system and its parts

    VS Code windows ── extension.ts ── session.ts ── native.ts ═ CM frames ═ canmv-backend ── USBDBG ── board
                        │  services, trees, panels                (one process)   main.go       board.go
    MCP clients ── httpService.ts / wslHttpRelay.ts / http_relay.go ── server.ts ── bridge.ts ─┘

| part | state it keeps | operations | what is hard | what makes it correct |
|---|---|---|---|---|
| backend request loop (`cmd/canmv-backend/main.go`) | `board`, `closing`, `operationSeq`, `protocolHandler`, `fileWrite`, registered poller and preview, `opMu` | connect, disconnect, run, stop, preview, file requests, shutdown | goroutines that outlive their stop timeout, three critical sections per operation, a shutdown path that ignores `opMu` | board operations exclude each other; a session ends once; every request is answered; a connected board is watched |
| USBDBG link (`internal/usbdbg/board.go`) | bytes in flight on the serial port | command/reply exchanges, Sync, file and directory transfers | late replies, lost alignment, retries after a timeout | a reply is paired with its command; a retry returns the file's own bytes |
| protocol profiles (`internal/boardprotocol`) | negotiated version and capabilities | Negotiate, drains, state queries | falling back from v2 to legacy on errors | never claims capabilities nobody reported |
| CM framing (`internal/protocol`, `framed_reader.ts`) | partial frames | push, parse, deliver | chunk boundaries anywhere, stalled and oversized frames | frames are delivered once, in order, and parsing recovers |
| backend client (`backend/native.ts`) | pending requests, process generation | start, request, stop | timeouts racing answers, process exit with requests pending | each request ends once |
| session (`session/session.ts`) | state, port, reconnect timer | connect, disconnect, reconnect | events of an old backend, disconnect during reconnect | state follows the backend's |
| file service (`service/fileService.ts`) | operation queue, read cache, upload | list, read, write, delete, rename, upload | cached reads against writes, aborted uploads | a cached read is never older than a finished write |
| explorer (`explorer/treeProvider.ts`) | pages per directory, generation | refresh, load more | answers of an earlier generation | the tree shows one generation |
| scripts and preview (`extension.ts`, `videoService.ts`, `scriptService.ts`) | `scriptRunning`, `scriptOperationBusy`, preview flags and timers | run, stop, start and stop preview, MCP requests, events | flags and tokens checked across awaits, MCP requests that do not ask | the window knows the script; the preview follows it and the user |
| MCP server's transport (`mcp/server.ts`, `mcp/bridge.ts`) | request table, bridge socket, child, `bridgeUnavailable` | open, request, timeout, close, reply | several HTTP calls on one connection, a bridge that comes and goes | every call is answered once, with its own answer |
| MCP tools (`mcp/server.ts`) | `boardInfo`, latest frame, waiters, idle timer | tool calls, idle disconnection | events overtaking the continuations of answers | what is remembered of the board is true; an idle session ends |
| MCP service (`mcp/httpService.ts`, `mcp/provider.ts`) | saved port, child, restart timer, connection | start, probe, restart, exit, dispose | several windows, settings that change meanwhile | one watched service with the settings in force |
| client registration, WSL relay (`mcp/clientRegistration.ts`, `mcp/wslHttpRelay.ts`) | entries of other programs, relay processes | configure, start, reset | commands that fail half-way, overtaken starts | clients hold the address in force |
| resources (`stubsService.ts`, ...) | caches, files on disk | download, unpack | partial downloads | a cache is complete or absent |

## 2. Modules and runs

| module | models | section |
|---|---|---|
| `BackendServer`, `BackendServerMC`, `BackendServerProofs` | `main.go`: request loop, poller, preview, connect setup, streamed writes, shutdown; theorems | 3.1, 6 |
| `UsbLink`, `UsbLinkProofs` | `board.go` (exchanges, Sync, file reads), `protocol.go` (Negotiate), the poller's round in `main.go` | 3.2, 6 |
| `HostSession`, `HostSessionProofs` | `native.ts`, `session.ts`, `boardService.ts` (connect, disconnect), the connection flows of `extension.ts`, the bridge's queue | 4.1, 6 |
| `PreviewFlows`, `PreviewFlowsProofs` | scripts and preview in `extension.ts`, `videoService.ts`, `scriptService.ts` | 4.2, 6 |
| `PipeMessages`, `FramedReader`, `FramedReaderMC` | the codec, `framed_reader.ts`; implements `FifoDelivery` (proved in `HostSessionProofs`) | 4.3, 6 |
| `FileService`, `FileServiceMC` | `fileService.ts`; implements `AtomicFiles` | 4.4, 6 |
| `Explorer`, `DirectoryListings`, `ExplorerMC` | `treeProvider.ts`, the tree of the board's files | 4.5, 6 |
| `FileProofs` | theorems about the file service and the tree | 6 |
| `McpTransport`, `McpTransportMC` | class `CanmvBackend` of `server.ts`, the bridge server of `bridge.ts` | 5.1, 6 |
| `McpTools`, `McpBoard` | class `CanmvMcpHandler` of `server.ts`; what it knows of its board | 5.2, 6 |
| `McpServerProofs` | theorems about the two models of `server.ts` | 6 |
| `McpService`, `McpServiceProofs` | `httpService.ts`, restarts in `provider.ts`, `main` of `server.ts` | 5.3, 6 |
| `McpClients`, `McpClientsProofs` | `clientRegistration.ts`, `wslHttpRelay.ts`, `configureClients` of `provider.ts` | 5.4, 6 |
| `FifoDelivery`, `AtomicFiles` | abstract specifications: what the pipe and the file service promise | 4.3, 4.4 |

The models meet at these interfaces, where one takes for granted what another shows:

- `BackendServer` treats a device exchange as one step that succeeds or fails, because
  `opMu` keeps exchanges apart; `UsbLink` opens that step and shows when a "success" may
  be somebody else's reply.
- `HostSession`, `PreviewFlows` and `McpTools` treat the backend as a child that answers
  requests in order, may stop at any time and may report its board lost. `BackendServer`
  shows that it answers (`EveryRequestAnswered`), `FramedReader` that messages arrive
  once and in order, which is what "in order" in the other modules rests on.
- `FileService` takes from `BackendServer` that a write session excludes every other file
  request (`UploadUndisturbed`), and owes it in return that no session is left open
  (`NoStrandedWrite`), without which the backend's workers would wait for ever.
- `Explorer` puts its page requests into `FileService`'s queue and keeps one folder on the
  firmware's only directory cursor (`OneCursor`).
- `HostSession` serves the requests of MCP clients one by one (`BridgeAnswers`);
  `McpTransport` is the other end of that connection; `PreviewFlows` shows what they do to
  a script the user started.
- `McpTools` takes from `McpTransport` that a request is answered or times out, and by its
  own answer: the ids that a new backend sets back are `McpTransport`'s (section 8).
- `McpClients` hands out the address that `McpService` produces.

Runs (distinct states; `PROJECT.json` lists the properties of each):

| run | instance | states | shows |
|---|---|---|---|
| `backend` | `BackendServer.cfg` | 8.5 M | board operations exclude each other, a session ends once, a board is watched, one preview goroutine at most that was not told to stop, beside an abandoned one |
| `live` | `BackendServerLive.cfg` | 465 k | a transfer is not interleaved; every request is answered; goroutines told to stop end; the setup spares user scripts |
| `link` | `UsbLink.cfg` | 671 k | capabilities are right, so are the files and samples of operations that begin with no Sync missing, Sync aligns the stream |
| `host` | `HostSession.cfg` | 113 k | one backend at a time, none left over, no stranded request, no lost boardReady, `connectionBusy` and the bridge's queue are released |
| `flows` | `PreviewFlows.cfg` | 527 k | at rest the window knows whether a script runs; an automatic preview is wanted and watched; the board does not stream unseen |
| `pipe` | `FramedReader.cfg` | 39 k | the reader implements `FifoDelivery` and never waits for what is not owed |
| `files` | `FileService.cfg` | 877 k | with fine modification times or none: the service implements `AtomicFiles`, its cache is current, no write session is left, operations end |
| `explorer` | `Explorer.cfg` | 493 k | listings hold their pages in order, one folder uses the cursor, the tree comes to show what was listed |
| `transport` | `McpTransport.cfg` | 2.2 M | calls get their own answers and nobody waits for nothing |
| `tools` | `McpTools.cfg` | 2.9 M | a remembered board has a backend; an idle session ends, unless a request forgot its backend |
| `service` | `McpService.cfg` | 2.9 M | no service runs unwatched; a window at rest has one with the settings in force |
| `clients` | `McpClients.cfg` | 769 k | clients at rest hold the address in force, no relay is stale or stray |

The type invariants of the modules hold in the same instances; only `BackendServer`'s is
listed. Every inductive invariant of section 6 was checked in the instance of its module's
run before it was proved. Liveness runs use no symmetry.

## 3. The backend

### 3.1 BackendServer

State: the fields of `server` under their own names; `pollerReg` / `previewReg`
name the goroutine behind `pollerStop` / `previewStop`; `wpc`, `wk` are the control
points and locals of the worker goroutines, `pc`, `loc` those of the request loop
and of the `scheduleConnectSoftReset` goroutines. `script` is the board's side: which
boards run an IDE script. `endings`, `ran` and `uiRunning` are history variables that
no guard reads.

Granularity. A `boardMu` critical section is one atomic step; code between two
locks, waits or device exchanges touches only locals and belongs to the step before
it. A device exchange may succeed or fail, and can only fail on a closed port. `fn` of
`withWorkerBoardOperation` runs from the step that takes `opMu` to `WorkerOp`.
`reportWorkerBoardDisconnected` is two steps, as its two checks are two critical
sections.

Timers. The 300 ms (`stopPoller`) and 3 s (`stopPreview`) waits may run out only
while their goroutine is `Blocked`: inside a serial read or waiting for `opMu` that
somebody holds. All other work of a worker is much shorter than the timers.

Request kinds. `run` stands for `runScript`, `exec` for `io.fileExec` (same control,
other error texts), `runEmpty` for a `runScript` without a script or a `fileExec` the
firmware does not support, `fsOp` for the file requests that are refused during a
streamed write, `query` for the remaining single exchanges (status, terminal input,
touch), `eof` for the end of standard input with the deferred `cleanupBoard`.

Abstractions. "settle" stands for the up to five drains of `stableDrain`; the setup's
two busy attempts are "settle" and "resettle"; the probes under
`CANMV_DEBUG_PREVIEW` and the cached touch status are left out.

Bounds. `MaxBoards` opens of a port, `MaxSeq` user operations, `MaxWrites` streamed
writes, `FileSize` chunks, `LinkErrorLimit` = 2 instead of 6 (one error that is forgiven
and one that is not). `Room`: the client sends nothing while abandoned workers use up
the worker slots; the instances have two poller slots, enough for an abandoned poller
beside its successor. The connect setup has one slot, without which a connect could only
meet a legacy board. The run `backend` has connects, disconnects, scripts, the preview
and the end of input, with two preview slots: a goroutine that `stopPreview` gave up
waiting for lives on beside the next one. The run `live` has the streamed writes, with
`fsOp` and `stopPreview`, and no preview, to leave room for liveness; `abortWrite`,
which the model treats like `finish`, `exec` (controlled like `run`), `query` and
`runEmpty` are in neither. Both have one board, one user operation and (`live`) one
write: one board is enough for every pair of goroutines to meet on it. What several
boards, operations and writes, or a preview beside a write, could add is covered by the
theorems of section 6, which hold for any number of them; `NoLostWakeup` (a worker does
not wait on a channel nobody will close) and `ChunksReachTheirBoard` (a write that
outlives its board does not reach the next one) are proved and in no run. Under
`AnsweringSpec` the end of a script is published (`ScriptEndIsPublished`):
`BackendServerFinish.cfg`, 18 k states.

Fairness. `FairSpec` gives weak fairness to the request loop and to every
goroutine (Go's scheduler runs every runnable goroutine; every serial read ends
with its timeout), strong fairness to taking `opMu` (Go's mutex hands itself to a
waiter that has waited 1 ms). Clients, signals and user scripts owe nothing.
`AnsweringSpec` adds strong fairness of an answered drain and of an answered state
query: without it a board may fail for ever, alternating so that the error limit is
never reached. The drain matters by itself: as long as drains fail and Sync repairs
the stream, the poller starts its round again and never asks for the script's state
(main.go:1210-1213), so a script's end goes unnoticed that long.

Who watches the board. `BoardIsWatched` asks for *some* live poller of the current operation
and not for the registered one, because the code does not keep that one: a connect setup may
read `operationSeq` inside `startPoller` (main.go:1169), be overtaken by a lost board, a
rejected connect and a successful one, and then register its stale poller over the fresh one.
The board is watched nevertheless, by a poller that `stopPoller` no longer knows and that
ends with the next change of the operation (`WatcherIsRegistered`, section 8).

Left out: `BoardIsWatched` fails when the request kind `runEmpty` is allowed:
`runScript` with an empty script (main.go:364-366) and `fileExec` without the
capability (main.go:521-523) return after stopping the poller and start no other one,
so nobody notices an unplugged cable until the next request. No document says
otherwise; the run leaves the request kind out, and the theorem has it as a hypothesis.

### 3.2 UsbLink

The unit is a *cell* of four bytes, since every field of the replies is a multiple of
four; a length that is not is rounded up. `inbox` holds the commands the board has not
served, `line` the cells on their way, tagged with the command they answer, which only
properties read. `step` is the exchange in progress, `got` its cells so far.

`Receive(n)` is one `port.Read` of any size followed by everything up to the next
read; `Complete` says when an exchange has its reply (for Sync: the marker),
`Accepted` holds its checks, and `Continue` the rest of the function: `Negotiate`,
`ReadFileAll` or `Poll`, each giving the next exchange for success and for error.
`Timeout` is the one second without a byte: it comes when nothing more will arrive
(`Starved`), or when the reply is merely late (the exchanges in `Slow`, at most
`MaxTimeouts` times). Bytes of a late reply stay on the line. The firmware is
external: it serves commands in order, and may abandon a transmit-buffer reply, as
the comment at main.go:1527-1529 reports.

A round of the poller is not one operation: it drains the transmit buffer, asks for the
script's state, and after a failed drain calls `recoverStreamDesync`, each in a section of
its own under `opMu` (main.go:1199, 1231, 1210). `turn` is the section that is due; `Start`
runs it, or any other operation before it, and `PassTurn` drops it, as
`withWorkerBoardOperation` does for a worker that was stopped. So a file may be read, or a
new poller may drain, between a failed drain and its Sync, and the Sync may never come.

The code promises nothing of what is asked then: the late reply to the drain answers it. The
same holds after an exchange that no Sync follows (QUERY_FILE_STAT, SCRIPT_RUNNING, a repeated
READ_FILE). Two history variables say so: `unsynced` is true from the moment a Sync is
overtaken, left out or not foreseen until one returns, `exposed` says that the last operation
began in that state. `ReadsTheFile` and `SamplesArePaired` are about all other operations;
`EveryFileIsRead` and `EverySampleIsPaired`, the same without the exemption, are false (section
8). That the state is left again is part of what is checked and proved: the next Sync aligns
the stream, whatever had come before (`SyncAligns`).

Left out: the 512 KiB limit of Sync (the line is short), firmware error codes in file
replies, the disconnect after six errors in a row (which ends the link), and every operation
the component table does not name.

The run `link` has stale bytes at connection and late replies to every exchange but a Sync
and the second CAPABILITIES, and a firmware version of zeros and ones: section 8 shows what
late markers do, and a late version that looks like capabilities (`VersionParts`).

Bounds. The file has two words, read in two chunks: the retry of the second can meet the
late reply to the first. Three late replies let a retry and the poller be hit in one
run; six operations are a negotiation, a failed drain, a read before its Sync, the Sync, and
two operations after it; five stale cells are what FW_VERSION and CAPABILITIES together read.
Fairness: the board serves its commands, reads return or time out.

## 4. The extension host

### 4.1 HostSession

State: `Session`'s state and reconnect timer; `NativeBackend`'s process, `_isOpen`,
the child a close waits for, `pendingRequests` and the reader (`torn`: whose
unfinished message it holds); the id counter of `methods.ts`; `connectionBusy`,
`cachedInfo`, `boardReady`, `pendingBoardReadyEvent` and the bridge's queue. The
children are `alive`, `hasBoard` (the backend has opened its board), `announced` (it has sent
the boardReady that every successful connectBoard causes) and `wire` (requests a child has
not answered; a connectBoard whose board is open is "opened").

JavaScript runs to completion, so concurrency comes from awaits. A *flow* is a chain of
awaits: `connect` (connectBoardRuntime), `disconnect`, `lost` (the disconnect after a
boardDisconnected event), `timer` (the reconnect callback), `detect` (a bridge's
detectBoards) and `op` (any other request). `pc[f]` is the await a flow stands at,
`waits[f]` the request or child it waits for, `got[f]` what settled it. External
events need `Quiet`: settled awaits run first (microtasks), in any order among
themselves. Each action's comment names its function.

Abstractions. Requests carry a number (`asked`) that the code does not have; only the
property `ReplyMatchesRequest` reads it. A child produces no output after its exit. A
child that is closed exits within the 1.5 s after which it is killed, so the 10 s
connection timeout never interrupts `open`. A second boardDisconnected while the first
is handled is left out, and so is the stop of a running script in a disconnect.

Bounds. `MaxProcs` spawned children, `MaxAsked` requests; `Room` starts a flow only if
it can finish within them. Three children are what a reconnect racing a detection needs,
with one before it.

The run `host` lets a bridge client detect boards at any time. Without a bridge
(`HostSessionUser.cfg`, 102 k states) two more properties hold: a connected session keeps
its backend (`ConnectedStaysOpen`) and replies settle their own requests
(`ReplyMatchesRequest`); with one, both fail (section 8).

Fairness. Weak for settled awaits (the event loop), strong for request timeouts (a due
timer runs however many events there are) and for the exit of a child that is being
closed (it is sent SIGTERM, then SIGKILL). Users, boards and backends owe nothing; a
connect may wait for ever at the port picker, and `BusyEnds` says so.

### 4.2 PreviewFlows

State: `ui` holds the variables of `activate()` (`session` for the session's state,
`running` for `scriptRunning`, `stopped` and `paused` for the user's and the script
operation's stop of the preview, `timer` and `fresh` for the automatic start and its
token, `subscribed` for the frame subscription, `watchdog`, `auto`). `th` are the threads:
a command, an MCP request, the end of a script being dealt with, the automatic start, the
watchdog's restart; `at` is the request a thread awaits. `wire` carries requests, `pipe`
answers and events in one order; `board` is the backend's view.

A thread runs until it awaits an answer or the automatic start, so an action is one
command, one timer or one delivered message with everything up to the next await.
`Proceed` is what follows `waitForPreviewAutoStart`, `Answered` what follows an answer,
`Superseded` the tests that an automatic start makes when its answer comes. A busy flag
belongs to the thread that set it, but it is one variable: an MCP request
(`SendBridgeRequest`) sets it without a test and clears it when it ends. The requests of MCP
clients come one at a time, because the bridge serves them from a queue (bridge.ts:195).

Abstractions. `disconnectBoard`'s exchange with the backend is one step (`HostSession`
opens it); frames are only "they arrive" or "they do not" (`RecoverStalePreview`).

Bounds. Three commands and two faults among late frames, a request that times out, a
script that does not start or does not stop, and a lost board. Three commands let a
command, an MCP request and a third one that finds what they left overlap; the theorems of
section 6 hold for any number of commands, threads and faults. The constants name the
events that are left out of the run because the code does not cope with them: `Coalesced`,
"slow stop", "slow start", "unseen", "overrun" (section 8).

Why these properties: each relates what the window believes to what the board does, and is
asked of states at rest, in which no event is left to correct it.

### 4.3 FramedReader

State: the fields of `FramedMessageReader` under their names, the `wire` with what the
backend wrote, and `looping`, which says that `handleData`'s loop runs. A cell of `wire` is
a byte of the magic or the type, the length, or a field of a payload. `HandleData(n)`
receives a chunk of `n` cells; `Resync`, `SkipOversized`, `TryReadHeader` and
`TryReadPayload` are turns of the loop; `Reset` is the end of a process; `FrameTimeout`
the five seconds after a frame's header. `PipeMessages` holds what the messages are to the
extension and the promise. `Dispatched` is the codec: a text must parse, a frame must begin
like a picture and loses its padding. That every text parses is the assumption
`MessagesAssumption`: the backend writes what its JSON encoder made.

`owed` and `delivered` are what `FifoDelivery` is about: a message is owed when it was
written; the step that hands it over, skips it or gives it up removes it. Only frames are
expendable. `DeliversInOrder` is `Fifo!FifoSpec`; `PipeDrains` says that always eventually
nothing is owed, which a reader that waits for bytes nobody owes would break.

Bounds. Three messages of two texts and four frames (sound, padded with a byte of the
magic, without a picture, oversized): one message before, one that disturbs and one behind it. Fairness: the event loop
runs the loop and reads what the pipe holds; the timer owes nothing.

### 4.4 FileService

State: `queue` holds the callers in the order of `runFileOperation`; `pc` and `op` are the
request a caller stands at and its locals; `readCache`; and the board's side, `file` and
`mtime` for the files, `session` for the backend's open write. `stamps` says what the
firmware's modification times are worth: `"fine"` ones tell every two modifications apart,
`"coarse"` ones (the stat has whole seconds) may not, and with `"none"` a stat reports 0.

A request and its settling are one step, because the queue lets no other operation in. The
operations are `read` (stat, cache, chunks or payload), `write` (begin, chunks, finish,
then a stat for the cache), `upload` (with a verification), `delete`, `rename`, `mkdir`,
`rmdir`, `query`, `exec`. Any request may fail or time out, whatever the modification times,
and a failed change may have happened. Scripts of the board write files between any two
requests.

What the cache cannot see. Only a change that the service knows to have happened, or to have
been refused, makes it forget an entry; a streamed write that failed, a rename or deletion
that timed out and a script leave the entry (fileService.ts:266-277, 285-308, 434-452,
619-622). The next read compares size and time, and the size alone where the time is 0 (801-809). With fine
times that is enough. With coarse times or none a change of the same size goes unseen: the
history variable `unseen` holds the files whose entry became stale in such a step, until
the service forgets or renews the entry. `CacheIsCurrent` and `AtomicFiles` excuse these
files, and nothing else: with fine times no file is excused, and in every case an operation
that ended well, or a read that a script overtook, leaves no stale entry. That the excuse is
needed, without any script, is shown in section 8 (`FileServiceStale.cfg`).

Refinement. `AtomicFiles` has one step per change and per read. `before[p]` keeps the
content that `p` had when its streamed write began; the mapping shows `p` with it until the
write ends, so a write of many requests is one change, and a failed one is a change to
whatever it left. `ReadsAreAtomic` then says that a read answers with what the file holds
at its end, although it takes several requests and may be served from the cache. Of the
files in `unseen` it promises nothing, and only a `Change` or `Move` of a file can bring that
file into it.

Bounds. Two callers, three operations, three files of one directory, contents of one and
two chunks, and two modifications beyond the files' first ones. The run has boards with fine
times and boards without; the two properties also hold of coarse ones (`Stamps = {"coarse"}`,
`MaxClock = 4`, under `Spec`: 1.9 M states), for which they are proved. Scripts write one-chunk files only, and not those
that callers write: what happens otherwise is in section 8. Fairness: a request is answered
or times out.

### 4.5 Explorer

State: the fields of `CanmvExplorer` (`generation`, `listings`, `cancelled`, `active`), the
`DirectoryListing` objects (`listing`), the page requests in the file service's queue
(`requests`), and VS Code's view: the folders it shows expanded, those it must ask for
(`wanted`), the calls under way and what it shows. A page is its number. `DirectoryListings`
declares the fields and listings and says what must hold of them; `Explorer` extends it.

`GetChildren(d)` is VS Code's call with everything up to its await, `PageArrives` the
settling of the first request, and `Settle` what `loadNextPage` and the background load do
with a page, a failure or an answer that came too late. The user expands, collapses,
refreshes; the connection comes and goes; a command may block browsing.

Bounds. A root of one page and two folders of two: enough for one folder to take the cursor
from the other between its pages. Three events of the user or the connection; five listings
at a time. Fairness: VS Code answers what is fired and the queue moves on.

## 5. MCP

### 5.1 McpTransport

State: the pending table (`owner`), the fields of class `CanmvBackend` (`isOpen`, `child`,
`bridgeSocket`, `connecting` for `bridgeConnectPromise`, `bridgeUnavailable`), the sockets
as the network sees them, the bridge server (`up`, `todo`) and the standalone backend
process. A call stands `at` an await; the continuations of a settled promise
(`Continuing`) run before the next event, which `Quiet` says.

`SyncBridgeState`, `Open`, `Request` follow the methods of these names; `Hello`,
`ConnectFails`, `SocketClosed`, `ChildExits`, `Timeout`, `HandleResponse` are the event
handlers; `Reply`, `Dispose` and `Start` the bridge's end. A connection can be `gone`
without the client knowing.

Ids are finite: `old` holds those given out before the counter was reset
(`CanmvBackend.open` of a standalone backend sets it back to 1), which may be given out
again while they are still in use; all others are fresh. `OwnAnswers` therefore says that
answers are crossed only once a standalone backend was started, which section 8 explains.

Bounds. Two calls, two sockets, one backend, one queued request: two calls are what share a
connection attempt or a table entry. The endpoint is configured and required, which is how
the extension starts the server.

### 5.2 McpTools

State: what `CanmvMcpHandler` remembers (`boardInfo`, `latestFrame`, `frameWaiters`, the
idle `timer`) against the backend in use (`this.child`), with a board session, a stream and
an output `wire`, and the backends no longer in use (`others`, a bag), whose output the
same reader gets. A chunk of output may hold several messages: all of them are handled before the
continuations of the requests they answer (`chunk`, `res`). `CallTool` begins a tool,
`Continue` is what follows an answer, `Deliver` handles one message, `IdleTimer` starts the
disconnection. The tools are modelled by what they ask of the board: nothing but a
connection (to a port, or after `detectBoards`), one or several requests, the preview, a
frame, a disconnection.

A backend leaves use in two ways. `CloseBackend` sends it SIGTERM; its exit comes some time
later, also when its successor has a board. That exit clears `isOpen` while `this.child`
still runs (server.ts:1114-1118), so the next request spawns another backend over it
(1082, 1096-1105): it is forgotten, serves what it was sent and may keep its board. Its
frames and its loss of the board reach the handler as if they came from the backend in use,
and its exit clears `isOpen` again.

`IdleSessionEnds` is a liveness property: once no tool is called any more, the backend in
use ends, and so does every backend that was closed, whatever was under way and whatever
the exits of earlier backends cleared. A forgotten backend is excused, since nothing in the
code can end it: that makes the promise of extension/README.md:137 false as it stands
(`EverySessionEnds`, section 8). Fairness: timers fire, continuations run, the process's
events are delivered and a closed backend ends; none need answer and nobody need call a tool.

Bounds. Two concurrent calls and the idle timer's disconnection, two messages on the wire.
A tool is called only while fewer than two backends live; the calls under way may bring
more. A second backend beside one that is closing or forgotten, and a third over it, are
reached.

### 5.3 McpService

State per window: the progress of `startService` (`op`), the settings it uses (`env`), the
port it tries (`pref`), the child, the address in use (`conn`), the restart timer,
`restart` and the provider's `restartAgain`; the service processes; and what the windows
share: the settings and the saved port. A window probes the saved port, spawns a service
there, or one on a free port.

Bounds. Two windows, three processes, two ports, two changes of the settings, one fault
among a crash, a start that times out and a probe without an answer. A window may be closed
at any point, also during a start. Service ids are reused once a process is gone.

### 5.4 McpClients

State: the address in force (`conn`), the entries that Codex (on its host) and Claude Code
saved, the registration under way (`run`, one command of a client at a time), and the relay
into WSL: `generation`, `instance`, `startingChildren`, the start under way and the
processes. `foreign` marks a client with an entry of that name that the extension must not
touch, `disabled` a server the user switched off in Codex.

Each command may fail or time out, an entry is replaced by removing and adding it, and a
relay start is overtaken by a reset. `RegisteredAtRest` asks only of a run that ended
without a failure; a failed one is reported to the user and repeated with the next change.

Bounds. Two addresses, three relay processes, three changes of the address or the host, two
faults. The host does not change while there is no service (section 8).

## 6. Proofs

Thirty-five theorems of `PROJECT.json` hold for every value
of the constants: any sets of goroutines, windows, calls, folders and contents, and any
bounds. Each module follows the same plan: an inductive invariant as a conjunction of named
parts, a lemma for each part that a step preserves it with one step per action, and the
properties as consequences. The assumptions on the constants are the named `ASSUME`s of
the models, and say nothing but that the constants are of the expected kinds, that the
"nobody" value (`None`) is none of the things it stands in for, and that the texts the
backend writes are JSON.

Thirteen theorems have hypotheses on what happens. Each excludes a behaviour under which the
property is false (section 8), and the listed runs satisfy it:

| hypothesis | theorems | excludes |
|---|---|---|
| `"runEmpty" \notin Requests` | `BoardsAreWatched` | the requests that stop the poller and start none |
| `~EarlyChange` | `WindowsAreServed` | settings that change during an activation |
| `~HostChangesOffline` | `ClientsAreRegistered` | a host of Codex that changes while there is no service |
| `ScriptsKeepOut`, `ScriptsWriteSmall`, `~LateBegin` | `CacheStaysCurrent` (the first, and with times that are not fine the second), `WritesAreClosed` (the first and last), `ImplementsAtomicFiles` (the first two) | scripts that write the callers' files, files of a script that take several requests to read, a backend that begins a write after its client gave it up |
| `FlowsHypothesis` | `RunningIsKnown` | an event in the chunk of the answer it follows (`Coalesced`), a stop that works after its request timed out ("slow stop"), a script that ends before a poller saw it ("unseen"), a run over a script that still runs that fails ("overrun") |
| `StreamHypothesis` | `StreamsAreShown` | a start of the preview that works after its request timed out ("slow start") |
| `StallHypothesis` | `MessagesArriveInOrder` | a frame that is given up as stalled and has bytes still to bring that look like the magic of a header |
| `LinkHypothesis` | `FilesAreRead`, `SamplesArePairs`, `NegotiationIsTrue`, `SyncsAlign` | late replies to a Sync or to the second CAPABILITIES; a late FW_VERSION reply of a firmware that has the capability version among its numbers; stale bytes on a port that is not negotiated (no state of the program) |

(`BoardsNeedBackends` states in `NobodyIsNone` what `McpTools` assumes of `None`, because an
instance of a module does not bring its assumptions along.)

`BackendServerProofs`

- `TypeCorrect`: `TypeOK` with `BusyWithABoard`. `TypeOK` alone is not inductive: a
  worker or a cleanup that names board 0 would close a port that does not exist, so
  the invariant carries that whoever is past its lookup names a real board.
- `MutualExclusion`: `BoardOperationsExclusive` is inductive over `TypeOK`; each
  `opMu` release is shown to belong to the owner.
- `UploadsUndisturbed`: uses exclusion: a session begins under `opMu`, when no worker is
  inside `fn`, and `WorkerLock` refuses to enter while it lasts.
- `SessionsEndOnce`: strengthened by `EndingsAccounted`: the attached board's session has
  not ended, nor has that of a port not opened yet, and the session of a closing
  backend is not ended again.
- `SetupsSpareUserScripts`: `SetupsAreOlder` says that a setup that waits for `opMu` is
  older than the operation under way and than any that ran a script on its board, so that
  its test of `operationSeq` fails; one that holds `opMu` keeps the operations out.
- `PreviewsAreRegistered`: `PreviewReplaced`: between the end of the old preview goroutine
  and the start of the new one nothing is registered.
- `BoardsAreWatched`: `WatchIsKept`: while a board is attached, a poller watches it, or the
  request loop is on a path that starts one before its handler ends, or a setup that is
  still current is. The three cases hand the duty to each other; `BoardsAreKnown` says that
  nobody works on a board that is no longer attached.
- `NobodyMissesTheEnd`, `ChunksAreHome`: channels exist exactly during a write
  (`WaitsAreReal`), and a handler under `opMu` whose port is open works on the attached
  board (`LockedOnBoard`).

`UsbLinkProofs`. Commands and replies carry no number, so the invariant speaks of places: what
an exchange has read and what is on its way to it form one stream (`Stream`), which is in one
of four states. It holds the exchange's own command or its own reply and nothing else
(`Aligned`); or a marker is coming and is the last thing to come (`MarkerAsked`,
`MarkerComing`), because the exchange before was given up and a Sync follows it; or a late
FW_VERSION reply precedes CAPABILITIES (`VersionFirst`), whose version check refuses it, so
that the Sync of the retry is reached; or nothing is known of it but that no marker is in it
(`Shifted`), which is the state while a Sync is missing (`Doubtful`) and all the next Sync
needs. In the first state port.Read can hand over the reply in any pieces, and the exchange
completes exactly with its last cell (`AlignedReceives`); in the second a Sync completes
exactly with the last cell of the line (`MarkerReceives`), which is what makes the next
command's stream `Aligned`. `Progress` ties the bytes read so far to the offset. The proof also
shows where it would break: `TimeoutKeeps` needs that no Sync is given up.

`HostSessionProofs`. The invariant says which flows can be under way together. The
extension's view of its child is right (`ChildTracked`: the process it holds is the only
one, has all unanswered requests, and unless it is open it was told to end); whoever awaits
an exit awaits that of this process (`ClosersAwaitExit`); no two flows open a backend at a
time (`OpeningsAlone`, `TimerAlone`); while disconnected only a bridge's `detectBoards` holds
one (`DisconnectedChild`). `OneBackendAtATime`, `RequestsAreSettled`, `BackendsAreEnded` and
`DisconnectIsFinal` follow. `ReadinessIsKept` needs a second invariant over it: a board that
was announced is remembered as ready or pending, unless a connect is under way that has not
been served (`NotServedYet`), in which case what was announced is the board of an earlier
one; ids are numbered so that no other connect's answer can settle it (`Numbered`); and a
process whose bytes a reader with an older process's remains swallows opens no board for a
session that relies on it (`SilentChild`).

Its last part extends `PipeMessages` and proves that `FramedReader`, as the instance `Pipe`,
implements `FifoDelivery`.
What is buffered and what is still in the pipe form one `Stream`. Instead of folding over
the messages, `Laid(s, ms, at)` says by their positions that the messages `ms` lie in `s` one
behind the other, the i-th from `at[i]` on, up to the end. Outside a message (`BeforeMessage`)
the messages owed lie behind cells that are to be dropped: in "DISCARD" they are counted by
`remainingDiscardBytes`, in "HEADER" they hold no magic (`Unmarked`); behind a header
(`InMessage`) the stream begins with the payload that is awaited. Every step drops cells in
front of the first message or its header or payload (`LaidDropped`), or writes a message behind
the others (`LaidSent`). The first magic in the stream is therefore a header's (`MagicBegins`),
`Resynchronised` stops at it or before it (`ResyncDrops`), and what `TryReadPayload` hands over
is what was written. Since the argument is about the stream, it does not matter where a chunk
ends: the next one completes half a magic that `Resynchronised` kept. A picture may hold the
magic, since payloads are taken and skipped by count; only `FrameTimeout` leaves cells to be
searched, which is what `StallHypothesis` is about.

`FileProofs` extends `FileService` and `DirectoryListings` and has `Explorer` as an instance.
`FileService`: with fine modification times (`Fine`) the argument rests on them: a time is
that of one file at most, since every modification takes a new one and a move takes it along
(`TimesKnown`), so what is remembered under a time is current while some file has it
(`Stamped`), and nothing goes unseen. Coarse or missing times say nothing; there the argument
is that every step that changes a file either makes the cache forget it or puts it into
`unseen` if its entry would be taken (`Noticed`, `NoticedStep`). What is remembered after a
read is what the file holds because a read of several requests has got a prefix of a file
that scripts do not write (`WritesTracked`, `ReadsTracked`, `Whole`), or, with fine times,
because the time of its stat is nobody's any more; and only the head of the queue
holds a write session (`SessionHeld`). `ImplementsAtomicFiles` maps every step to one of
`AtomicFiles` or to a stutter: a write takes effect abstractly when its data is complete
(`before` holds the content until then, `BeforeHeld`).

`Explorer`: the invariant follows a page on its way: a listing that waits has one
request in the queue, for the page behind its last (`Answerable`), and a complete listing
waits for none (`Rests`); so a folder that is selected finds the cursor free, because the
listing that had it is complete or forgotten in the same step.

`PreviewFlowsProofs`. Any number of threads share one pipe, so the invariant says first that a
thread awaits at most one request or answer, which is its own and of the kind it awaits
(`Awaits`). `AutomaticPreviewsAreWanted` has no hypothesis: an automatic start whose token is
still fresh was not stopped since it was taken (`Heed`), and an automatic preview against the
user's stop or without its watchdog (`Stray`) has a thread that is about to end it (`Clears`).
`RunningIsKnown`: the message in
the pipe that speaks of the script last says what the backend knows, and without such a
message the window knows it, unless a thread is at a request of its own that will tell
(`Believed`); a run that timed out is on the wire until the backend takes it (`LateRun`).
`StreamsAreShown`: if the board streams, the message in the pipe that shows or clears the
preview last shows it, and without such a message the window shows it, unless a stop is still
to reach the board (`Followed`, `Seen`); a stop that timed out is on the wire until the
backend takes it (`LateStop`). `StepCases` reduces the actions to the ten kinds of step that these parts tell apart.

`McpServerProofs` extends `McpTransport` and `McpBoard` and has `McpTools` as an instance.
`McpTransport`: a waiting call has its entry in the table under its own id (`Entered`),
attempts that are joined are still to end (`Dialled`), and as long as no standalone backend
reset the counter an id belongs to one call, also while what was written under it waits in
the bridge server's queue after its call gave up (`Unshared`).

`McpTools`: whatever could make the handler remember a board - a request, an answer on
its way, a settled answer whose continuation has not run - is addressed to a call only
while a backend is in use (`Addressed`, `Answered`), and every way of ending its use takes
the address off all three.

`McpServiceProofs`. A window spawns a service only without a child (`Flow`), so it knows each
of its own; and the settings a start uses are the window's unless a restart is to follow
(`Current`).

`McpClientsProofs`. A relay is started by the run alone, which waits for it (`StartFlow`), and
what was reset meanwhile has another generation; a run that is not to be repeated has
registered the address and host it began with, which are still those in force
(`Registered`).

## 7. What is only model-checked, and what is not modelled

Model-checked only, on the instances of section 2, are the liveness properties: the prover
reaches neither fairness nor `ENABLED`. Every other property of the runs is a theorem.

Worth composing: `PreviewFlows` with `HostSession` (a disconnect is one step in the former)
and `McpTools` over `McpTransport` (a request is answered or times out in the former).

Not modelled:

- Parts of modelled components: virtual touch, output chunking and parameter parsing of the
  backend; writes, directory listings, frames and touch of the USBDBG link; the operations of
  the legacy protocol profile; `notify` and the disposal at deactivation in `native.ts`;
  terminal, threshold editor, touch and the file commands of `extension.ts`; transfers of
  folders, which are sequences of modelled operations; authentication, endpoints and
  snapshots of the bridge; resource and prompt listings of the server; the search for the
  executables of MCP clients.
- Components whose work is sequential input and output over the operating system, without a
  protocol or a concurrent actor to relate: port discovery, the Go side of the framing, the
  startup script, the remote mirror, stubs and archives, the backend's HTTP relay.
- User interface and text: webviews, profiler, output channels, translations.

Hazards that are visible in the models but have no entry in `PROJECT.json`, because no
property of a listed run speaks about them:

- `runScript` with an empty script and `fileExec` without the capability stop the poller and
  start no other one (main.go:364, 521; request kind `runEmpty`).
- `previewStop` outlives its goroutine (main.go:573; `BackendServerStalePreview.cfg`).
- Two callers of `startPoller`, the connect setup and a request, may stop the same poller
  (main.go:1168); a poller abandoned after 300 ms finishes its drain (main.go:1248). Both
  happen in the runs of `BackendServer`; the events that would tell the difference do not
  reach a property.
- A write session may outlive its board (main.go:755): theorem `ChunksAreHome`.
- Short writes (board.go:1065): `UsbLink` has none.
- The frame reader is shared by successive backends (native.ts:86), and a dead child's output
  may be read after its exit (native.ts:102).
- A read while a script writes the same file, and a write that the backend begins after the
  client gave it up (section 8, `FileServiceLate.cfg`).

## 8. Where the code does less than it says, or than one would expect

Each row can be reproduced: `tlc -config X.cfg M.tla` ends in the violation of the property,
where the first column names a configuration; where it names a change, make it in a copy of
the configuration. "For" means that the property takes the place of the configuration's own.

| X.cfg, M | property | what happens |
|---|---|---|
| `BackendServerForgetful`, `BackendServerMC` | `EndCanBePublished` | `stopPreview` starts the poller anew without the knowledge that a script runs (main.go:215). If the script ends before the next sample, "finished" is never published, although the poller is there "so it can publish an accurate finished event" (main.go:344-346) |
| `BackendServerStalePreview`, `BackendServerMC` | `StartedMeansStreaming` | a preview goroutine that ended with its lost board stays registered (main.go:573-579, 254); after the next connect `startPreview` answers "started" and streams nothing, while extension/README.md:148 calls the tool "Start framebuffer streaming" |
| `BackendServer` with `Setups = {c1}`, `Pollers = {p1, p2, p3}`, `Previews = {v1}`, `Requests = {"connect", "startPreview"}`, `MaxBoards = 3`, `MaxSeq = 0`, `MaxWrites = 0`, for | `WatcherIsRegistered` | a setup that is overtaken inside `startPoller` (main.go:1169) registers its stale poller over the fresh one, which runs on unknown to `stopPoller`; `BoardIsWatched` holds there |
| `BackendServer` with `"runEmpty"` in `Requests` | `BoardIsWatched` | `runScript` without a script (main.go:364-366) and `fileExec` without the capability (main.go:521-523) stop the poller and start no other: nobody notices an unplugged cable until the next request |
| `UsbLinkLegacy`, `UsbLink` | `NegotiatesTruly` | a first Sync that times out is only logged (protocol.go:58-60); its marker and the stale bytes then answer FW_VERSION and CAPABILITIES, and a capability board becomes a legacy one. protocol.go:53-57 says the resynchronisation is there so that the reads do not "consume those bytes as the FW_VERSION/Capabilities reply and falsely negotiate down to legacy" |
| `UsbLinkSync`, `UsbLink` | `SyncAligns` | a marker that was given up satisfies the next Sync (board.go:278), although "After Sync returns nil the next framed reply read by the caller is byte-aligned" (board.go:240-241) |
| `UsbLinkSync` with `Slow = {"running"}`, `MaxTimeouts = 1`, for | `EverySampleIsPaired` | a late SCRIPT_RUNNING reply is followed by no Sync (main.go:1259) and read as the length of the transmit buffer |
| `UsbLinkSync` with `Slow = {"txlen"}`, `Operations = {"poll", "read"}`, `MaxTimeouts = 1`, for | `EveryFileIsRead` | a drain fails, and before the poller has `opMu` again for its Sync (main.go:1199, 1210) a file is read: the late length of the transmit buffer is the first word of its QUERY_FILE_STAT, and the file is returned empty, without an error |
| `UsbLinkSync` with `Slow = {"read", "resync"}`, `Operations = {"read"}`, `MaxTimeouts = 2`, for | `EveryFileIsRead` | after a read whose Sync timed out too, the late READ_FILE reply answers the next QUERY_FILE_STAT: the file is returned empty, without an error |
| `UsbLink` with `VersionParts = {0, 1, 2}`, `Slow = {"version"}`, `MaxTimeouts = 1`, `MaxNoise = 0` | `NegotiatesTruly` | a late FW_VERSION reply of a firmware 2.x passes the version check of CAPABILITIES (board.go:456) and gives its next number for the flags |
| `HostSessionShared`, `HostSession` | `ConnectedStaysOpen` | a bridge's `detectBoards` creates its request before `open()` restarts the ids, and closes the backend in a finally: the user's connect in between takes over its entry in `pendingRequests`, succeeds, and loses its backend. session.ts:21-22: "the port stays open across state transitions [...] until explicit disconnect". `ReplyMatchesRequest` fails for the same reason |
| `HostSessionReconnect`, `HostSession` | `ConnectedHasBoard` | a reconnect opens a new backend and reports "connected" without `connectBoard` (session.ts:153-155); every board request then fails, while extension/README.md:196 promises "Automatically reconnect after an unexpected disconnect." |
| `HostSessionReconnect` for | `InfoMeansConnected` (PROPERTY) | `cachedInfo` is cleared by `disconnectBoard` only: a connect that fails after a board was lost returns the old board's information (extension.ts:1294), where extension.ts:1861 means "Unable to connect to the CanMV board" |
| `HostSessionReconnect` with `MayTear = TRUE`, for | `FreshReader` (PROPERTY) | the exit handler does not reset the reader (native.ts:86), though framed_reader.ts:74 says it is "called on disconnect": the next process's first bytes are swallowed |
| `PreviewFlows` with `Coalesced = TRUE`, `MaxFaults = 0` | `RunningIsCurrent` | a script that ends in the chunk that answers its start: the event is handled before the continuation of the answer, which then says that the script runs |
| `PreviewFlows` with `Faults = {"stop", "unseen"}` | `RunningIsCurrent` | a stop that did not stop, an MCP client that asks and learns "running", and a script that ends before a poller saw it: no event corrects the window |
| `PreviewFlows` with `Faults = {"slow stop"}`, `MaxFaults = 1` | `RunningIsCurrent` | an MCP client's `stopScript` times out but succeeds later: the extension keeps "running", and the backend publishes no "finished" for a script it was told to stop |
| `PreviewFlows` with `Faults = {"overrun"}`, `MaxFaults = 1` | `RunningIsCurrent` | an MCP client's `runScript` over the user's running script fails: that script is gone, and the poller that could have said so was stopped for the new one, so the window shows it as running |
| `PreviewFlows` with `Faults = {"slow start"}`, `MaxFaults = 1` | `StreamIsShown` | a start of the preview by hand times out in the window but works later: the board streams and nothing is shown |
| `PreviewFlows` with `MaxCommands = 4`, `Faults = {"stop"}`, `MaxFaults = 1`, for | `PreviewIsReal` | the "started" event of a script that went on does not start the watchdog, so a preview that is no more is shown on |
| `PreviewFlows` for | `OneScriptOperation` | an MCP request sets and clears `scriptBusy` without asking (extension.ts:1908): its end releases the user's own operation |
| `PreviewFlows` for | `PreviewIsPursued` | the timer of the automatic start fires while an MCP request is busy and gives up (extension.ts:840); nothing tries again |
| `PreviewFlows` for | `PreviewNeedsScript` | an MCP client's `stopScript` leaves the session streaming without a script |
| `PreviewFlows` for | `PreviewIsSeen` | a watchdog's restart overlaps a manual start and disposes of its subscription: the backend streams, nobody listens, and no watchdog runs |
| `FramedReaderMagic`, `FramedReaderMC` | `DeliversInOrder` | a stalled frame is given up after its five seconds, and the rest of it is searched for a header: a magic inside the picture is taken for one and the length behind it swallows the messages that follow |
| `FileServiceLate`, `FileServiceMC` | `NoStrandedWrite` | the client gives up a `beginFileWrite` that the backend then begins: no abort is sent, since the code does not know of it, and the backend refuses file requests until the next write |
| `FileServiceStale` | `NoEntryIsStale` | on a firmware without modification times a rename that times out is carried out all the same, or a write fails between two chunks or at its verification: the entry of the cache stays (fileService.ts:266-277, 285-308, 434-452, 619-622), and a file of the same size is answered from it (801-809). The same with `Stamps = {"coarse"}`, `MaxClock = 4`, for two changes within one second |
| `FileService` with `ScriptContents <- TwoChunks`, `Stamps = {"none"}` | `CacheIsCurrent` | the torn read of the next row is kept in the cache: on a firmware without modification times every later read answers with a content the file never had |
| `FileService` with `ScriptContents <- TwoChunks` | `ReadsAreAtomic` (PROPERTY) | a script writes a file of several chunks while it is read: the answer mixes both contents and is cached; sizes agree, and the time is not looked at again |
| `FileServiceScript` | `CacheIsCurrent` | a script writes a file between the end of an upload and the stat that follows it: the cache keeps what was sent, with the script's time |
| `ExplorerCut`, `ExplorerMC` | `NothingIsCut` | a request is blocked while the tree is displayed: the folder then looks as if it were listed to its end |
| `McpTransport` for | `RoutedThroughExtension` (PROPERTY) | `bridgeUnavailable` is set by one failure and never cleared (server.ts:1012, 1084): a later request starts a standalone backend although the extension is active and the bridge required. extension/README.md:135 limits that to "If the bridge is unavailable when the service starts" |
| `McpTransport` for | `NoForgottenSocket` | the 'close' event of an earlier socket ends the attempt that replaced it; the connection that then comes up belongs to nobody and stays open |
| `McpTools` for | `KnownBoardIsOpen` | a `connectBoard` answer and a `boardDisconnected` in one chunk: the event clears `boardInfo`, then the continuation sets it (server.ts:602) |
| `McpTools` for | `EverySessionEnds` (PROPERTY) or `NothingIsForgotten` | disconnect, connect, and only then the exit of the first backend: it clears `isOpen` (server.ts:1115), the next tool spawns a third backend over the second (1082, 1097), which keeps its board until the server ends. extension/README.md:137: "Standalone sessions also disconnect when the MCP client exits or after an idle timeout." |
| `McpTools` for | `IdleMeansInactive` (PROPERTY) | the idle timer is armed by one answer and not disarmed by the next request, so it ends the session under a request that takes long (server.ts:874) |
| `McpTools` for | `AutoConnectSparesSession` | two tools without a board both connect: the second connect ends the session of the first |
| `McpTools` for | `WaitersAreKept` | a frame with the number a waiter already has takes it off the list (server.ts:915), so the next frame does not reach it and the tool answers with a timeout |
| `McpServiceEarly`, `McpService` | `ServedAtRest` | settings that change while the extension activates, before it listens for changes, are not used until the next change |
| `McpServiceOrphan` | `NoOrphanService` (PROPERTY) | a window closed during the probe or the first attempt spawns its service afterwards and leaves it |
| `McpServiceShared` | `ServiceRuns` (PROPERTY) | a window that found another window's service keeps its address when that window is closed |
| `McpClientsOffline`, `McpClients` | `RegisteredAtRest` | Codex's host changes while there is no service: nothing is registered on it when the same service comes back, because the registration that was under way is taken to do |
| `McpClients` for | `DisabledStaysDisabled` | that an entry was disabled is remembered within one run only: when adding it anew fails, the next run adds it enabled. extension/README.md:131: "If the user disables the CanMV server in Codex, later endpoint refreshes preserve that disabled state." |
| `McpClients` for | `NothingHalfRegistered` | an entry added whose headers could be neither written nor undone is taken for somebody else's and never touched again |
| `McpClients` for | `RelayIsThere` | a relay that dies after its registration is not started again until the next change |

One more has no property of its own: a standalone backend sets the request ids back to 1
while requests are under way, which `OwnAnswers` exempts. The exit of a standalone backend
that clears `isOpen` of its successor is also in `McpTransport` (`ChildExits`).
