----------------------------- MODULE FileService -----------------------------
(***************************************************************************)
(* The file operations of service/fileService.ts: their queue              *)
(* (runFileOperation), the read cache, and the requests that one operation *)
(* makes of the backend, against the board's files and the backend's write *)
(* session.  Scripts on the board may write files between any two          *)
(* requests, and any request may fail or time out, also one that the board *)
(* has carried out.  It implements AtomicFiles.                            *)
(*                                                                         *)
(* How far the cache can be trusted depends on the board's modification    *)
(* times: "fine" ones tell every two modifications apart, "coarse" ones    *)
(* may not, and with "none" every file reports 0.                          *)
(*                                                                         *)
(* A request and its settling are one step: no other operation runs in     *)
(* between, and the code up to the next request runs in the same turn.     *)
(* A content is a sequence of chunks.                                      *)
(***************************************************************************)
EXTENDS Naturals, Sequences, FiniteSets

CONSTANTS
  Callers,       \* concurrent users of the service
  Paths,         \* remote files, all of them below one directory
  OwnPaths,      \* files that callers write
  ScriptPaths,   \* files that scripts of the board write
  Contents,      \* what callers write
  ScriptContents,
  Stamps,        \* kinds of modification times: "none", "coarse", "fine"
  LateBegin,     \* may the backend begin a write after the client gave it up?
  MaxCalls,      \* bound: operations started
  MaxClock       \* bound: the board's clock

Absent == <<0>>       \* no content: chunks are positive
None == "none"
ReadChunk == 1        \* REMOTE_FILE_READ_CHUNK_SIZE in chunks

ASSUME FilesAssumption ==
  /\ OwnPaths \subseteq Paths /\ ScriptPaths \subseteq Paths
  /\ IsFiniteSet(Paths) /\ None \notin Paths /\ Contents # {}
  /\ Contents \cup ScriptContents \subseteq Seq(Nat \ {0})
  /\ Stamps \subseteq {"none", "coarse", "fine"} /\ LateBegin \in BOOLEAN
  /\ MaxCalls \in Nat /\ MaxClock \in Nat

VARIABLES
  file, mtime, clock, stamps,   \* the board: contents, modification times and their kind
  session,                      \* the backend's write session: a path or None
  readCache, queue,             \* FileService; queue holds the callers in order
  pc, op,                       \* the callers' operations
  calls, answer, before,        \* bound; history for AtomicFiles
  unseen                        \* history: files whose entry went stale unnoticed

boardVars == <<file, mtime, clock, session>>
cacheVars == <<readCache, unseen>>
vars == <<boardVars, cacheVars, stamps, queue, pc, op, calls, answer, before>>

NoEntry == [data |-> Absent, size |-> 0, mtime |-> 0]
NoOp == [kind |-> None, path |-> None, to |-> None, content |-> <<>>,
         size |-> 0, mtime |-> 0, got |-> <<>>]

Atomic == INSTANCE AtomicFiles WITH
            files  <- [p \in Paths |-> IF before[p] = <<>> THEN file[p] ELSE before[p][1]],
            unseen <- IF stamps = "fine" THEN {} ELSE unseen

Init ==
  /\ file = [p \in Paths |-> CHOOSE content \in Contents : TRUE]
  /\ mtime = CHOOSE m \in [Paths -> 1 .. Cardinality(Paths)] : \A p, q \in Paths : m[p] = m[q] => p = q
  /\ clock = Cardinality(Paths)
  /\ stamps \in Stamps
  /\ session = None
  /\ readCache = [p \in Paths |-> NoEntry] /\ queue = <<>>
  /\ pc = [c \in Callers |-> "idle"] /\ op = [c \in Callers |-> NoOp]
  /\ calls = 0 /\ answer = <<>>
  /\ before = [p \in Paths |-> <<>>] /\ unseen = {}

-----------------------------------------------------------------------------
(* The board's side.                                                       *)

(* The clock at the next modification.                                     *)
Tick ==
  /\ clock' \in {clock, clock + 1} /\ clock' <= MaxClock
  /\ stamps = "fine" => clock' # clock
  /\ stamps = "none" => clock' = clock

(* The files in S are modified at the same time.                           *)
Modify(S, contents) ==
  /\ Tick
  /\ file' = [p \in Paths |-> IF p \in S THEN contents[p] ELSE file[p]]
  /\ mtime' = [p \in Paths |-> IF p \in S THEN clock' ELSE mtime[p]]

(* A file is moved with its modification time.                             *)
Move(p, q) ==
  /\ file' = [file EXCEPT ![q] = file[p], ![p] = Absent]
  /\ mtime' = [mtime EXCEPT ![q] = mtime[p]]
  /\ UNCHANGED clock

SetFile(p, content) == Modify({p}, [q \in {p} |-> content])

(* The modification time as the board reports it.                          *)
Stamp(p) == IF stamps = "none" THEN 0 ELSE mtime[p]

(* Requests other than those of a write are refused while one is open.     *)
MayAnswer == session = None

-----------------------------------------------------------------------------
(* The cache.                                                              *)

(* Mutant: the modification time is not looked at. *)
MatchesSize(cached, exists, size, time) == exists /\ cached.data # Absent /\ cached.size = size

CacheMatchesStat(cached, exists, size, time) ==
  /\ exists /\ cached.data # Absent
  /\ cached.size = size
  /\ time > 0 => cached.mtime = time

Hits(p) == CacheMatchesStat(readCache[p], file[p] # Absent, Len(file[p]), Stamp(p))

Remember(p, content, size, time) ==
  /\ readCache' = [readCache EXCEPT ![p] = [data |-> content, size |-> size, mtime |-> time]]
  /\ unseen' = unseen \ {p}

(* Mutant: nothing is forgotten. *)
InvalidateNone(S) == UNCHANGED cacheVars

Invalidate(S) ==
  /\ readCache' = [p \in Paths |-> IF p \in S THEN NoEntry ELSE readCache[p]]
  /\ unseen' = unseen \ S

ClearCache ==
  /\ Invalidate(Paths)
  /\ UNCHANGED <<boardVars, stamps, queue, pc, op, calls, answer, before>>

(* The operation in front of the queue is replacing p.                     *)
Replacing(p) ==
  /\ queue # <<>>
  /\ LET c == Head(queue) IN
       op[c].kind \in {"write", "upload"} /\ op[c].path = p /\ pc[c] # "start"

(* An entry that the next read would take, but not the file's content.     *)
Stale(p) == Hits(p) /\ ~Replacing(p) /\ readCache[p].data # file[p]

(* Files changed and the service does not know of it: the cache stays.     *)
BehindItsBack ==
  /\ UNCHANGED readCache
  /\ unseen' = unseen \cup {p \in Paths : Stale(p)'}

(* A script writes a file.                                                 *)
ScriptWrites(p, content) ==
  /\ SetFile(p, content)
  /\ UNCHANGED <<stamps, session, queue, pc, op, calls, answer, before>>
  /\ BehindItsBack

-----------------------------------------------------------------------------
(* The queue.                                                              *)

Call(c, kind, p, q, content) ==
  /\ pc[c] = "idle" /\ calls < MaxCalls
  /\ calls' = calls + 1
  /\ op' = [op EXCEPT ![c] = [NoOp EXCEPT !.kind = kind, !.path = p, !.to = q, !.content = content]]
  /\ pc' = [pc EXCEPT ![c] = "start"]
  /\ queue' = Append(queue, c)
  /\ UNCHANGED <<boardVars, stamps, cacheVars, answer, before>>

Invoke(c) ==
  \/ \E p \in Paths : Call(c, "read", p, p, <<>>)
  \/ \E kind \in {"query", "exec", "mkdir", "rmdir"} : Call(c, kind, None, None, <<>>)
  \/ \E kind \in {"write", "upload"}, p \in OwnPaths, content \in Contents : Call(c, kind, p, p, content)
  \/ \E p \in OwnPaths : Call(c, "delete", p, p, <<>>)
  \/ \E p, q \in OwnPaths : p # q /\ Call(c, "rename", p, q, <<>>)

(* c's operation has the queue and stands at a request.                    *)
Runs(c, at) == queue # <<>> /\ Head(queue) = c /\ pc[c] = at

(* Mutant: a throw that does not release the queue. *)
KeepQueue(c) ==
  /\ UNCHANGED queue
  /\ pc' = [pc EXCEPT ![c] = "idle"]
  /\ op' = [op EXCEPT ![c] = NoOp]
  /\ UNCHANGED <<stamps, calls>>

(* The operation returns or throws: release().                             *)
Release(c) ==
  /\ queue' = Tail(queue)
  /\ pc' = [pc EXCEPT ![c] = "idle"]
  /\ op' = [op EXCEPT ![c] = NoOp]
  /\ UNCHANGED <<stamps, calls>>

(* On to the next request.                                                 *)
Goto(c, at) == pc' = [pc EXCEPT ![c] = at] /\ UNCHANGED <<stamps, queue, calls>>

(* A request fails or times out, or its answer ends the operation so.      *)
Throw(c) == Release(c) /\ UNCHANGED <<boardVars, cacheVars, answer, before>>

-----------------------------------------------------------------------------
(* readFile.                                                               *)

ReadStat(c) ==
  LET p == op[c].path IN
  /\ Runs(c, "start") /\ op[c].kind = "read"
  /\ \/ Throw(c)
     \/ /\ MayAnswer /\ file[p] # Absent /\ Hits(p)
        /\ answer' = <<p, readCache[p].data>>
        /\ Release(c)
        /\ UNCHANGED <<boardVars, cacheVars, before>>
     \/ /\ MayAnswer /\ file[p] # Absent /\ ~Hits(p)
        /\ op' = [op EXCEPT ![c].size = Len(file[p]), ![c].mtime = Stamp(p)]
        /\ Goto(c, IF Len(file[p]) > ReadChunk THEN "chunk" ELSE "payload")
        /\ UNCHANGED <<boardVars, cacheVars, answer, before>>

(* data is complete: it is cached under the size and time of the stat.     *)
ReadEnds(c, data) ==
  /\ answer' = <<op[c].path, data>>
  /\ Remember(op[c].path, data, op[c].size, op[c].mtime)
  /\ Release(c)
  /\ UNCHANGED <<boardVars, before>>

ReadIncomplete(c) ==
  /\ Invalidate({op[c].path})
  /\ Release(c)
  /\ UNCHANGED <<boardVars, answer, before>>

(* readFilePayload of a whole file.                                        *)
ReadPayload(c) ==
  LET data == file[op[c].path] IN
  /\ Runs(c, "payload")
  /\ \/ Throw(c)
     \/ /\ MayAnswer /\ data # Absent
        /\ IF Len(data) = op[c].size THEN ReadEnds(c, data) ELSE ReadIncomplete(c)

(* readFileInChunks: one chunk.                                            *)
ReadNextChunk(c) ==
  LET f    == file[op[c].path]
      off  == Len(op[c].got)
      data == SubSeq(f, off + 1, off + ReadChunk)
  IN
  /\ Runs(c, "chunk")
  /\ \/ Throw(c)
     \/ /\ MayAnswer /\ f # Absent /\ Len(f) <= off
        /\ ReadIncomplete(c)
     \/ /\ MayAnswer /\ f # Absent /\ Len(f) > off
        /\ IF off + Len(data) < op[c].size
           THEN /\ op' = [op EXCEPT ![c].got = @ \o data]
                /\ Goto(c, "chunk")
                /\ UNCHANGED <<boardVars, cacheVars, answer, before>>
           ELSE ReadEnds(c, op[c].got \o data)

-----------------------------------------------------------------------------
(* writeFile and uploadLocalFile.                                          *)

Writing(c, at) == Runs(c, at) /\ op[c].kind \in {"write", "upload"}

(* The write was refused: no exception, the entry of the cache goes.       *)
Refused(c) ==
  /\ Invalidate({op[c].path})
  /\ Release(c)
  /\ before' = [before EXCEPT ![op[c].path] = <<>>]
  /\ UNCHANGED answer

BeginFileWrite(c) ==
  LET p == op[c].path IN
  /\ Writing(c, "start")
  /\ \/ Refused(c) /\ UNCHANGED boardVars
     \/ Throw(c)
     \/ /\ LateBegin                     \* timed out, and carried out late
        /\ SetFile(p, <<>>) /\ session' = p
        /\ Release(c) /\ UNCHANGED <<answer, before>>
        /\ BehindItsBack
     \/ /\ SetFile(p, <<>>) /\ session' = p
        /\ before' = [before EXCEPT ![p] = <<file[p]>>]
        /\ Goto(c, IF op[c].content = <<>> THEN "finish" ELSE "send")
        /\ UNCHANGED <<op, cacheVars, answer>>

(* writeFileChunk; got holds the chunks sent.                              *)
WriteFileChunk(c) ==
  LET p    == op[c].path
      next == Len(op[c].got) + 1
  IN
  /\ Writing(c, "send")
  /\ UNCHANGED answer
  /\ \/ Refused(c) /\ session' = None /\ UNCHANGED <<file, mtime, clock>>
     \/ Goto(c, "abort") /\ UNCHANGED <<op, cacheVars, before, boardVars>>
     \/ /\ file' = [file EXCEPT ![p] = Append(@, op[c].content[next])]
        /\ op' = [op EXCEPT ![c].got = Append(@, op[c].content[next])]
        /\ Goto(c, IF next = Len(op[c].content) THEN "finish" ELSE "send")
        /\ UNCHANGED <<mtime, clock, session, cacheVars, before>>

(* The verified write ends; uploads forget the entry, writes renew it.     *)
FinishFileWrite(c) ==
  LET p == op[c].path IN
  /\ Writing(c, "finish")
  /\ UNCHANGED <<file, mtime, clock, answer>>
  /\ \/ Refused(c) /\ session' = None
     \/ /\ session' \in {session, None}
        /\ Goto(c, "abort") /\ UNCHANGED <<op, cacheVars, before>>
     \/ /\ session' = None
        /\ before' = [before EXCEPT ![p] = <<>>]
        /\ \/ op[c].kind = "upload" /\ Invalidate({p}) /\ Release(c)
           \/ op[c].kind = "write" /\ Goto(c, "restat") /\ UNCHANGED <<op, cacheVars>>

(* Mutant: a failed write is not aborted. *)
ForgetWrite(c) ==
  /\ Writing(c, "abort")
  /\ before' = [before EXCEPT ![op[c].path] = <<>>]
  /\ Release(c)
  /\ UNCHANGED <<boardVars, answer>>
  /\ BehindItsBack

(* abortFileWrite, in the finally block of a write that threw: the entry   *)
(* of the cache stays.                                                     *)
AbortFileWrite(c) ==
  /\ Writing(c, "abort")
  /\ session' = None
  /\ before' = [before EXCEPT ![op[c].path] = <<>>]
  /\ Release(c)
  /\ UNCHANGED <<file, mtime, clock, answer>>
  /\ BehindItsBack

(* Mutant: the entry stays when the file cannot be looked at. *)
KeepCachedWrite(c) ==
  LET p == op[c].path IN
  /\ Runs(c, "restat")
  /\ \/ UNCHANGED cacheVars
     \/ Remember(p, op[c].content, IF file[p] = Absent THEN 0 ELSE Len(file[p]), Stamp(p))
  /\ Release(c)
  /\ UNCHANGED <<boardVars, answer, before>>

(* updateCachedWrite.                                                      *)
UpdateCachedWrite(c) ==
  LET p == op[c].path IN
  /\ Runs(c, "restat")
  /\ \/ Invalidate({p})
     \/ Remember(p, op[c].content, IF file[p] = Absent THEN 0 ELSE Len(file[p]), Stamp(p))
  /\ Release(c)
  /\ UNCHANGED <<boardVars, answer, before>>

-----------------------------------------------------------------------------
(* The operations of one request.  A request that fails may have been      *)
(* carried out all the same.                                               *)

Mutation(c, kind, S, Effect) ==
  /\ Runs(c, "start") /\ op[c].kind = kind
  /\ Release(c)
  /\ UNCHANGED <<session, answer, before>>
  /\ \/ /\ MayAnswer                       \* done, or refused by the board
        /\ \/ Effect /\ Invalidate(S)
           \/ UNCHANGED <<file, mtime, clock, cacheVars>>
     \/ /\ \/ MayAnswer /\ Effect
           \/ UNCHANGED <<file, mtime, clock>>
        /\ BehindItsBack

DeleteFile(c) == Mutation(c, "delete", {op[c].path}, SetFile(op[c].path, Absent))

RenameFile(c) ==
  LET p == op[c].path
      q == op[c].to
  IN  /\ Runs(c, "start") /\ op[c].kind = "rename" /\ file[p] # Absent
      /\ Mutation(c, "rename", {p, q}, Move(p, q))

Rmdir(c) == Mutation(c, "rmdir", Paths, Modify(Paths, [p \in Paths |-> Absent]))

Mkdir(c) == Mutation(c, "mkdir", Paths, UNCHANGED <<file, mtime, clock>>)

(* statFile and listDir answer and keep nothing.                           *)
Query(c) == Runs(c, "start") /\ op[c].kind = "query" /\ Throw(c)

FileExec(c) == Runs(c, "start") /\ op[c].kind = "exec" /\ Throw(c)

(* A rename of nothing.                                                    *)
RenameMissing(c) ==
  /\ Runs(c, "start") /\ op[c].kind = "rename" /\ file[op[c].path] = Absent
  /\ Throw(c)

-----------------------------------------------------------------------------
Run(c) ==
  \/ ReadStat(c) \/ ReadPayload(c) \/ ReadNextChunk(c)
  \/ BeginFileWrite(c) \/ WriteFileChunk(c) \/ FinishFileWrite(c) \/ AbortFileWrite(c)
  \/ UpdateCachedWrite(c)
  \/ DeleteFile(c) \/ RenameFile(c) \/ RenameMissing(c) \/ Rmdir(c) \/ Mkdir(c)
  \/ Query(c) \/ FileExec(c)

Next ==
  \/ ClearCache
  \/ \E c \in Callers : Invoke(c) \/ Run(c)
  \/ \E p \in ScriptPaths, content \in ScriptContents : ScriptWrites(p, content)

Spec == Init /\ [][Next]_vars

(* A request is answered or times out.                                     *)
FairSpec == Spec /\ \A c \in Callers : WF_vars(Run(c))
-----------------------------------------------------------------------------
(* The read of a file answers with what the file holds then, although      *)
(* reads and writes take several requests each and the cache may answer.   *)
(* Excused are, unless the modification times are fine, the files that     *)
(* changed unnoticed, as long as nothing makes the service forget them.    *)
ReadsAreAtomic == Atomic!FilesSpec

(* Whatever wrote a file last, a script, a write, one that failed half-way *)
(* or a rename: an entry that the next read would take is its content.     *)
(* Where modification times are missing or coarse, a script or a request   *)
(* that failed may leave a stale entry, and nothing else may: no operation *)
(* that ends well, no read that a script overtakes.                        *)
CacheIsCurrent ==
  /\ stamps = "fine" => unseen = {}
  /\ \A p \in Paths \ unseen : ~Stale(p)

(* Not so of every board: the next read may answer with what a file held   *)
(* before a write, a rename or a script.                                   *)
NoEntryIsStale == \A p \in Paths : ~Stale(p)

(* The backend refuses every other file request while a write is open and  *)
(* its workers wait for it: none stays open without its operation.         *)
NoStrandedWrite == session # None => Replacing(session)

(* Every operation ends, whichever of its requests fail or time out.       *)
OperationsEnd == \A c \in Callers : pc[c] # "idle" ~> pc[c] = "idle"
=============================================================================
