----------------------------- MODULE FileProofs ------------------------------
(***************************************************************************)
(* Theorems about FileService, for any callers, paths and contents: the    *)
(* read cache is current, no write session stays open without its          *)
(* operation, and the service implements AtomicFiles.                      *)
(*                                                                         *)
(* Where modification times are fine, the argument rests on them.  A time  *)
(* is that of one file at most, since every modification takes a new one   *)
(* and a move takes it along; so a content remembered under a time is      *)
(* current as long as some file still has that time.  Elsewhere the queue  *)
(* has to do: what changes a file is the running operation, which renews   *)
(* or drops the file's entry, or it is a change that goes unseen.          *)
(***************************************************************************)
EXTENDS FileService, DirectoryListings, SequenceTheorems, FiniteSetTheorems, FunctionTheorems, TLAPS

(* Scripts write no file that callers write, and only files that are read  *)
(* with one request.                                                       *)
ScriptsKeepOut    == ScriptPaths \cap OwnPaths = {}
ScriptsWriteSmall == \A content \in ScriptContents : Len(content) <= ReadChunk

(* All boards tell any two modifications apart.                            *)
TimesAreFine == Stamps \subseteq {"fine"}

-----------------------------------------------------------------------------
(* The inductive invariant.                                                *)
Chunks == Seq(Nat \ {0})
Labels == {"idle", "start", "payload", "chunk", "send", "finish", "abort", "restat"}
Kinds  == {None, "read", "query", "exec", "mkdir", "rmdir", "write", "upload", "delete", "rename"}

BoardTyped ==
  /\ file \in [Paths -> Chunks \cup {Absent}]
  /\ mtime \in [Paths -> Nat] /\ clock \in Nat
  /\ session \in Paths \cup {None}
CacheTyped == readCache \in [Paths -> [data : Chunks \cup {Absent}, size : Nat, mtime : Nat]]
QueueTyped ==
  /\ queue \in Seq(Callers)
  /\ pc \in [Callers -> Labels]
  /\ op \in [Callers -> [kind : Kinds, path : Paths \cup {None}, to : Paths \cup {None},
                         content : Chunks, size : Nat, mtime : Nat, got : Chunks]]
BeforeTyped == before \in [Paths -> {<<>>} \cup {<<f>> : f \in Chunks \cup {Absent}}]
Typed == stamps \in Stamps /\ BoardTyped /\ CacheTyped /\ QueueTyped /\ BeforeTyped

Fine == stamps = "fine"

(* Times seen so far, and that a fine time names one file.                 *)
TimesKnown ==
  /\ \A p \in Paths : mtime[p] \in 1 .. clock /\ readCache[p].mtime <= clock
  /\ Fine => \A p, q \in Paths : file[p] # Absent /\ file[q] # Absent /\ mtime[p] = mtime[q] => p = q

(* Only the head of the queue is past its first request; an operation      *)
(* takes the steps of its kind, on files that it may write.                *)
InFront ==
  \A c \in Callers :
    /\ pc[c] \notin {"idle", "start"} => queue # <<>> /\ Head(queue) = c
    /\ pc[c] = "idle" => op[c].kind = None
    /\ op[c].kind = "read" => op[c].path \in Paths
    /\ op[c].kind \in {"write", "upload", "delete", "rename"} => op[c].path \in OwnPaths
    /\ op[c].kind = "rename" => op[c].to \in OwnPaths /\ op[c].path # op[c].to
    /\ pc[c] = "start" => op[c].got = <<>>
    /\ pc[c] \in {"payload", "chunk"} => op[c].kind = "read"
    /\ pc[c] \in {"send", "finish", "abort"} => op[c].kind \in {"write", "upload"}
    /\ pc[c] = "restat" => op[c].kind = "write"

Begins(s, t) == Len(s) <= Len(t) /\ \A i \in 1 .. Len(s) : s[i] = t[i]

(* What a write has sent is what the file holds.                           *)
WritesTracked ==
  \A c \in Callers :
    /\ pc[c] = "send" => /\ file[op[c].path] = op[c].got
                         /\ Len(op[c].got) < Len(op[c].content)
                         /\ Begins(op[c].got, op[c].content)
    /\ pc[c] \in {"finish", "restat"} => file[op[c].path] = op[c].content
    /\ pc[c] = "restat" => session = None

(* What a read in chunks has got are chunks of the present content, or the *)
(* file has shrunk to one chunk, which the read will notice.               *)
Whole(o) ==
  /\ o.size > ReadChunk
  /\ \/ Len(file[o.path]) <= ReadChunk
     \/ o.size = Len(file[o.path]) /\ Begins(o.got, file[o.path])

(* With fine times, what a read has got is what the file holds unless its  *)
(* time changed; and then no file has the time of its stat any more.       *)
Timely(o) ==
  /\ file[o.path] # Absent /\ mtime[o.path] = o.mtime =>
       o.size = Len(file[o.path]) /\ Begins(o.got, file[o.path])
  /\ \A q \in Paths : file[q] # Absent /\ mtime[q] = o.mtime => q = o.path

ReadsTracked ==
  \A c \in Callers : pc[c] \in {"payload", "chunk"} =>
    /\ op[c].mtime <= clock
    /\ Fine => Timely(op[c])
    /\ ScriptsWriteSmall /\ pc[c] = "chunk" => Whole(op[c])

SessionHeld == session # None => Replacing(session) \/ LateBegin

(* With fine times, a remembered content is that of whatever file has its  *)
(* time; without them, it is that of its path, if not unseen.              *)
Stamped ==
  Fine => \A p, q \in Paths :
    readCache[p].data # Absent /\ file[q] # Absent /\ readCache[p].mtime = mtime[q]
      => ~Replacing(q) /\ readCache[p].data = file[q]
Noticed ==
  /\ unseen \subseteq Paths
  /\ Fine => unseen = {}
  /\ ~Fine /\ ScriptsWriteSmall => \A p \in Paths \ unseen : ~Stale(p)

(* The content before a write is kept until its data is complete.          *)
BeforeHeld ==
  \A p \in Paths : before[p] # <<>> => Replacing(p) /\ pc[Head(queue)] # "restat"

IInv == /\ Typed /\ TimesKnown /\ InFront /\ WritesTracked /\ ReadsTracked /\ SessionHeld
        /\ Stamped /\ Noticed /\ BeforeHeld

-----------------------------------------------------------------------------
(* Facts about sequences and the constants.                                *)
LEMMA Constants ==
  /\ OwnPaths \subseteq Paths /\ ScriptPaths \subseteq Paths /\ None \notin Paths
  /\ Contents \subseteq Chunks /\ ScriptContents \subseteq Chunks /\ Contents # {}
  BY FilesAssumption DEF FilesAssumption, Chunks

LEMMA AbsentIsNoContent == Absent \notin Chunks /\ <<>> \in Chunks /\ Absent # <<>>
<1>1. SUFFICES ASSUME Absent \in Chunks PROVE FALSE
  BY DEF Absent, Chunks
<1>2. Absent[1] \in Nat \ {0}
  BY <1>1 DEF Absent, Chunks
<1> QED
  BY <1>2 DEF Absent

LEMMA NoEntryTyped == NoEntry \in [data : Chunks \cup {Absent}, size : Nat, mtime : Nat]
  BY DEF NoEntry

(* Two contents of which one begins the other are equal if as long.        *)
LEMMA WholeContent ==
  ASSUME NEW s \in Chunks, NEW t \in Chunks, Begins(s, t), Len(s) = Len(t)
  PROVE  s = t
  BY DEF Begins, Chunks

LEMMA OneMore ==
  ASSUME NEW s \in Chunks, NEW t \in Chunks, Begins(s, t), Len(s) < Len(t)
  PROVE  /\ Append(s, t[Len(s) + 1]) \in Chunks
         /\ Begins(Append(s, t[Len(s) + 1]), t)
         /\ Len(Append(s, t[Len(s) + 1])) = Len(s) + 1
  BY DEF Begins, Chunks

(* The chunk that a read gets at its offset.                               *)
LEMMA NextChunk ==
  ASSUME NEW s \in Chunks, NEW t \in Chunks, Len(t) > Len(s)
  PROVE  /\ SubSeq(t, Len(s) + 1, Len(s) + ReadChunk) = <<t[Len(s) + 1]>>
         /\ s \o SubSeq(t, Len(s) + 1, Len(s) + ReadChunk) = Append(s, t[Len(s) + 1])
<1>1. SubSeq(t, Len(s) + 1, Len(s) + ReadChunk) = <<t[Len(s) + 1]>>
  <2> DEFINE n == Len(s) + 1
  <2>1. n \in 1 .. Len(t) /\ Len(s) + ReadChunk = n
    BY DEF ReadChunk, Chunks
  <2>2. SubSeq(t, n, n) \in Seq(Nat \ {0}) /\ Len(SubSeq(t, n, n)) = 1
    BY <2>1 DEF Chunks
  <2>3. SubSeq(t, n, n)[1] = t[n]
    BY <2>1 DEF Chunks
  <2>4. <<t[n]>> \in Seq(Nat \ {0}) /\ Len(<<t[n]>>) = 1 /\ <<t[n]>>[1] = t[n]
    BY <2>1 DEF Chunks
  <2>5. \A i \in 1 .. Len(SubSeq(t, n, n)) : SubSeq(t, n, n)[i] = <<t[n]>>[i]
    BY <2>2, <2>3, <2>4
  <2>6. SubSeq(t, n, n) = <<t[n]>>
    BY <2>2, <2>4, <2>5, SeqEqual, Zenon
  <2> QED
    BY <2>1, <2>6
<1>2. t[Len(s) + 1] \in Nat \ {0}
  BY DEF Chunks
<1>3. s \o <<t[Len(s) + 1]>> = Append(s, t[Len(s) + 1])
  BY <1>2 DEF Chunks
<1> QED
  BY <1>1, <1>3

-----------------------------------------------------------------------------
(* The ways in which an operation leaves the queue or goes on.             *)
USE DEF IInv, Typed, Runs

(* After an operation has left the queue none is past its first request.   *)
LEMMA Released ==
  ASSUME IInv, NEW c \in Callers, NEW at \in Labels, Runs(c, at), Release(c)
  PROVE  /\ QueueTyped' /\ InFront' /\ UNCHANGED stamps
         /\ \A d \in Callers : pc'[d] \in {"idle", "start"}
         /\ \A p \in Paths : ~Replacing(p)'
<1>1. QueueTyped'
  <2>1. queue' \in Seq(Callers)
    BY DEF Release, QueueTyped
  <2>2. NoOp \in [kind : Kinds, path : Paths \cup {None}, to : Paths \cup {None},
                  content : Chunks, size : Nat, mtime : Nat, got : Chunks]
    BY AbsentIsNoContent DEF NoOp, Kinds
  <2> QED
    BY <2>1, <2>2 DEF Release, QueueTyped, Labels
<1>2. \A d \in Callers : pc'[d] \in {"idle", "start"}
  BY DEF Release, QueueTyped, InFront, Labels
<1>3. InFront'
  <2>1. \A d \in Callers : op'[d] = IF d = c THEN NoOp ELSE op[d]
    BY DEF Release, QueueTyped
  <2>2. \A d \in Callers : pc'[d] = IF d = c THEN "idle" ELSE pc[d]
    BY DEF Release, QueueTyped
  <2>3. NoOp.kind = None
    BY DEF NoOp
  <2> QED
    BY <1>2, <2>1, <2>2, <2>3 DEF InFront, None, Release
<1>4. ASSUME NEW p \in Paths, Replacing(p)' PROVE FALSE
  <2>1. Head(queue') \in Callers
    BY <1>1, <1>4 DEF Replacing, QueueTyped
  <2> QED
    BY <1>2, <1>3, <1>4, <2>1 DEF Replacing, InFront, None
<1> QED
  BY <1>1, <1>2, <1>3, <1>4 DEF Release

(* A write in front of the queue replaces its file and no other.           *)
LEMMA ReplacingHead ==
  ASSUME IInv, NEW c \in Callers, NEW at \in Labels, Runs(c, at), NEW p \in Paths
  PROVE  Replacing(p) <=> op[c].kind \in {"write", "upload"} /\ op[c].path = p /\ at # "start"
  BY DEF Replacing

(* A step forgets the entries in S, or files change behind its back.       *)
Forgets(S) == Invalidate(S) \/ BehindItsBack

LEMMA Forgotten ==
  ASSUME IInv, NEW S \in SUBSET Paths, Forgets(S)
  PROVE  /\ CacheTyped'
         /\ \A p \in Paths : readCache'[p] \in {readCache[p], NoEntry}
         /\ ~BehindItsBack => \A p \in S : readCache'[p] = NoEntry
  BY NoEntryTyped DEF Forgets, Invalidate, BehindItsBack, CacheTyped

LEMMA KeepsAll ==
  ASSUME IInv, UNCHANGED cacheVars PROVE Forgets({})
  BY DEF cacheVars, Forgets, Invalidate, CacheTyped

(* The files do not change, the cache forgets at most.                     *)
LEMMA CacheShrinks ==
  ASSUME IInv, UNCHANGED <<file, mtime, clock, stamps>>,
         NEW S \in SUBSET Paths, Forgets(S),
         \A p \in Paths : Replacing(p)' => Replacing(p)
  PROVE  CacheTyped' /\ TimesKnown' /\ Stamped'
<1>1. CacheTyped' /\ \A p \in Paths : readCache'[p] \in {readCache[p], NoEntry}
  BY Forgotten
<1>2. NoEntry.data = Absent /\ NoEntry.mtime = 0
  BY DEF NoEntry
<1>3. TimesKnown'
  BY <1>1, <1>2 DEF TimesKnown, BoardTyped, CacheTyped, Fine
<1>4. Stamped'
  BY <1>1, <1>2 DEF Stamped, Fine
<1> QED
  BY <1>1, <1>3, <1>4

(* With fine times the next read takes no entry that is stale.             *)
LEMMA FineEntries ==
  ASSUME TimesKnown, Stamped, Fine, NEW p \in Paths PROVE ~Stale(p)
<1>1. Hits(p) => /\ readCache[p].data # Absent /\ file[p] # Absent
                 /\ readCache[p].mtime = mtime[p]
  BY DEF Hits, CacheMatchesStat, Stamp, TimesKnown, Fine
<1> QED
  BY <1>1 DEF Stale, Stamped

(* Every other change of a file renews or drops its entry.                 *)
LEMMA NoticedStep ==
  ASSUME IInv, NEW S \in SUBSET Paths, Forgets(S), UNCHANGED stamps, TimesKnown', Stamped',
         BehindItsBack \/ \A p \in Paths \ S :
           Replacing(p)' \/ (~Replacing(p) /\ file'[p] = file[p] /\ mtime'[p] = mtime[p])
  PROVE  Noticed'
<1>1. CASE BehindItsBack
  <2>1. unseen' = unseen \cup {p \in Paths : Stale(p)'}
    BY <1>1 DEF BehindItsBack
  <2>2. Fine => \A p \in Paths : ~Stale(p)'
    <3> SUFFICES ASSUME Fine', NEW p \in Paths PROVE ~Stale(p)'
      BY DEF Fine
    <3>1. Hits(p)' => /\ readCache'[p].data # Absent /\ file'[p] # Absent
                      /\ readCache'[p].mtime = mtime'[p]
      BY DEF Hits, CacheMatchesStat, Stamp, TimesKnown, Fine
    <3> QED
      BY <3>1 DEF Stale, Stamped
  <2>3. Fine' <=> Fine
    BY DEF Fine
  <2>4. \A p \in Paths \ unseen' : ~Stale(p)'
    BY <2>1
  <2> QED
    BY <2>1, <2>2, <2>3, <2>4 DEF Noticed
<1>2. CASE ~BehindItsBack
  <2>1. unseen' = unseen \ S /\ \A p \in Paths : readCache'[p] = IF p \in S THEN NoEntry ELSE readCache[p]
    BY <1>2 DEF Forgets, Invalidate
  <2>2. NoEntry.data = Absent
    BY DEF NoEntry
  <2>3. ASSUME NEW p \in Paths, p \notin unseen', p \notin unseen => ~Stale(p) PROVE ~Stale(p)'
    <3>1. CASE p \in S
      BY <2>1, <2>2, <3>1 DEF Stale, Hits, CacheMatchesStat
    <3>2. CASE p \notin S /\ Replacing(p)'
      BY <3>2 DEF Stale
    <3>3. CASE p \notin S /\ ~Replacing(p)'
      <4>1. /\ readCache'[p] = readCache[p] /\ file'[p] = file[p] /\ mtime'[p] = mtime[p]
            /\ ~Replacing(p) /\ ~Stale(p)
        BY <1>2, <2>1, <2>3, <3>3
      <4>2. Hits(p)' => Hits(p)
        BY <4>1 DEF Hits, CacheMatchesStat, Stamp
      <4> QED
        BY <4>1, <4>2 DEF Stale
    <3> QED
      BY <3>1, <3>2, <3>3
  <2> QED
    BY <2>1, <2>3 DEF Noticed, Fine
<1> QED
  BY <1>1, <1>2

(* The requests of nobody are under way.                                   *)
LEMMA NobodyTracked ==
  ASSUME \A d \in Callers : pc'[d] \in {"idle", "start"}
  PROVE  WritesTracked' /\ ReadsTracked'
  BY DEF WritesTracked, ReadsTracked

LEMMA Leaves ==
  ASSUME IInv, NEW c \in Callers, NEW at \in Labels, Runs(c, at), Release(c),
         BoardTyped', CacheTyped', TimesKnown', Stamped', Noticed', BeforeTyped',
         \A p \in Paths : before'[p] = <<>>,
         session' # None => LateBegin
  PROVE  IInv'
<1>1. WritesTracked' /\ ReadsTracked'
  BY Released, NobodyTracked
<1>2. SessionHeld' /\ BeforeHeld' /\ stamps' \in Stamps
  BY DEF SessionHeld, BeforeHeld, Release
<1> QED
  BY <1>1, <1>2, Released

(* Outside of a write nothing is open and nothing half-written.            *)
LEMMA NothingOpen ==
  ASSUME IInv, NEW c \in Callers, NEW at \in {"start", "payload", "chunk", "restat"}, Runs(c, at)
  PROVE  /\ \A p \in Paths : before[p] = <<>>
         /\ session # None => LateBegin
<1>1. at = "restat" => session = None
  BY DEF WritesTracked
<1>2. at # "restat" => \A p \in Paths : ~Replacing(p)
  BY DEF Replacing, InFront
<1>3. \A p \in Paths : before[p] = <<>>
  BY <1>2 DEF BeforeHeld
<1> QED
  BY <1>1, <1>2, <1>3 DEF SessionHeld, BoardTyped

(* The operation leaves, the files are as before, the cache forgets at     *)
(* most: a read that fails or hits, a mutation that is refused.            *)
LEMMA LeavesFiles ==
  ASSUME IInv, NEW c \in Callers, NEW at \in {"start", "payload", "chunk"},
         Runs(c, at), Release(c), UNCHANGED <<boardVars, before>>,
         NEW S \in SUBSET Paths, Forgets(S)
  PROVE  IInv'
<1>1. UNCHANGED <<file, mtime, clock, session, stamps>>
  BY DEF boardVars, Release
<1>2. \A p \in Paths : ~Replacing(p) /\ ~Replacing(p)'
  BY Released, ReplacingHead DEF InFront, Labels
<1>3. CacheTyped' /\ TimesKnown' /\ Stamped'
  BY <1>1, <1>2, CacheShrinks
<1>4. Noticed'
  BY <1>1, <1>2, <1>3, NoticedStep
<1>5. BoardTyped' /\ BeforeTyped' /\ \A p \in Paths : before'[p] = <<>>
  BY <1>1, NothingOpen DEF BoardTyped, BeforeTyped
<1>6. session' # None => LateBegin
  BY <1>1, NothingOpen
<1> QED
  BY <1>3, <1>4, <1>5, <1>6, Leaves DEF Labels

LEMMA ThrowStep ==
  ASSUME IInv, NEW c \in Callers, NEW at \in {"start", "payload", "chunk"}, Runs(c, at), Throw(c)
  PROVE  IInv'
  BY LeavesFiles, KeepsAll DEF Throw

-----------------------------------------------------------------------------
(* Reads.                                                                  *)
(* An entry is renewed with what the file holds.                           *)
LEMMA RenewedEntry ==
  ASSUME IInv, NEW p \in Paths, NEW e, ScriptsWriteSmall => e.data = file[p],
         readCache' = [readCache EXCEPT ![p] = e], unseen' = unseen \ {p},
         UNCHANGED <<file, mtime, stamps>>, \A q \in Paths \ {p} : ~Replacing(q)
  PROVE  Noticed'
<1>1. \A q \in Paths : readCache'[q] = IF q = p THEN e ELSE readCache[q]
  BY DEF CacheTyped
<1>2. ASSUME ScriptsWriteSmall PROVE ~Stale(p)'
  BY <1>1, <1>2 DEF Stale
<1>3. ASSUME NEW q \in Paths \ {p}, ~Stale(q) PROVE ~Stale(q)'
  <2>1. Hits(q)' => Hits(q)
    BY <1>1 DEF Hits, CacheMatchesStat, Stamp
  <2> QED
    BY <1>1, <1>3, <2>1 DEF Stale
<1> QED
  BY <1>2, <1>3 DEF Noticed, Fine

LEMMA ReadEndsStep ==
  ASSUME IInv, NEW c \in Callers, NEW at \in {"payload", "chunk"}, Runs(c, at),
         NEW data \in Chunks, ReadEnds(c, data),
         file[op[c].path] # Absent,
         Fine /\ mtime[op[c].path] = op[c].mtime => data = file[op[c].path],
         ScriptsWriteSmall => data = file[op[c].path]
  PROVE  IInv'
<1> DEFINE p == op[c].path
           e == [data |-> data, size |-> op[c].size, mtime |-> op[c].mtime]
<1>1. p \in Paths /\ op[c].mtime \in Nat /\ op[c].mtime <= clock /\ op[c].kind = "read"
  BY DEF InFront, ReadsTracked, QueueTyped
<1>2. /\ readCache' = [readCache EXCEPT ![p] = e] /\ unseen' = unseen \ {p}
      /\ e \in [data : Chunks \cup {Absent}, size : Nat, mtime : Nat]
  BY <1>1 DEF ReadEnds, Remember, QueueTyped
<1>3. CacheTyped'
  BY <1>2 DEF CacheTyped
<1>4. UNCHANGED <<file, mtime, clock, session, before, stamps>>
  BY DEF ReadEnds, boardVars, Release
<1>5. TimesKnown'
  BY <1>1, <1>2, <1>4 DEF TimesKnown, CacheTyped, Fine
<1>6. \A q \in Paths : ~Replacing(q) /\ ~Replacing(q)'
  BY <1>1, Released, ReplacingHead DEF ReadEnds, Labels
<1>7. ASSUME Fine, NEW q \in Paths, file[q] # Absent, mtime[q] = op[c].mtime
      PROVE  data = file[q]
  BY <1>7 DEF ReadsTracked, Timely
<1>8. Stamped'
  BY <1>2, <1>4, <1>6, <1>7 DEF Stamped, CacheTyped, Fine
<1>9. Noticed'
  BY <1>1, <1>2, <1>3, <1>4, <1>6, RenewedEntry
<1> QED
  BY <1>3, <1>4, <1>5, <1>8, <1>9, Leaves, NothingOpen DEF ReadEnds, BoardTyped, BeforeTyped,
     Labels

(* The operation goes on to its next request; the files and the cache are  *)
(* as they were.                                                           *)
LEMMA ReadGoesOn ==
  ASSUME IInv, NEW c \in Callers, NEW at \in {"start", "chunk"}, Runs(c, at), op[c].kind = "read",
         NEW to \in {"payload", "chunk"}, Goto(c, to),
         NEW o, op' = [op EXCEPT ![c] = o],
         o \in [kind : Kinds, path : Paths \cup {None}, to : Paths \cup {None},
                content : Chunks, size : Nat, mtime : Nat, got : Chunks],
         o.kind = "read", o.path = op[c].path,
         o.mtime <= clock, Fine => Timely(o), ScriptsWriteSmall /\ to = "chunk" => Whole(o),
         UNCHANGED <<boardVars, cacheVars, before>>
  PROVE  IInv'
<1>1. Typed'
  BY DEF Goto, boardVars, cacheVars, BoardTyped, CacheTyped, QueueTyped, BeforeTyped, Labels
<1>2. /\ \A d \in Callers \ {c} : op'[d] = op[d] /\ pc'[d] = pc[d]
      /\ op'[c] = o /\ pc'[c] = to /\ queue' = queue
      /\ UNCHANGED <<file, mtime, clock, session, stamps, readCache, unseen, before>>
  BY DEF Goto, QueueTyped, boardVars, cacheVars
<1>3. \A d \in Callers \ {c} : pc[d] \in {"idle", "start"}
  BY DEF InFront, QueueTyped, Labels
<1>4. InFront'
  BY <1>2, <1>3 DEF InFront
<1>5. WritesTracked'
  BY <1>2, <1>3 DEF WritesTracked
<1>6. ReadsTracked'
  BY <1>2, <1>3 DEF ReadsTracked, Timely, Whole, Fine
<1>7. \A p \in Paths : ~Replacing(p) /\ ~Replacing(p)'
  BY <1>2 DEF Replacing
<1>8. TimesKnown' /\ Stamped' /\ SessionHeld' /\ BeforeHeld'
  BY <1>2, <1>7, NothingOpen DEF TimesKnown, Stamped, Fine, SessionHeld, BeforeHeld, BoardTyped
<1>9. Noticed'
  BY <1>2, <1>7, <1>8, KeepsAll, NoticedStep DEF cacheVars
<1> QED
  BY <1>1, <1>4, <1>5, <1>6, <1>8, <1>9

LEMMA ReadStatStep ==
  ASSUME IInv, NEW c \in Callers, ReadStat(c) PROVE IInv'
<1> DEFINE p == op[c].path
           o == [op[c] EXCEPT !.size = Len(file[p]), !.mtime = Stamp(p)]
           to == IF Len(file[p]) > ReadChunk THEN "chunk" ELSE "payload"
<1>1. p \in Paths /\ Runs(c, "start")
  BY DEF ReadStat, InFront
<1>2. CASE Throw(c)
  BY <1>1, <1>2, ThrowStep
<1>3. CASE Release(c) /\ UNCHANGED <<boardVars, cacheVars, before>>
  BY <1>1, <1>3, LeavesFiles, KeepsAll
<1>4. CASE /\ file[p] # Absent /\ Goto(c, to) /\ UNCHANGED <<boardVars, cacheVars, before>>
           /\ op' = [op EXCEPT ![c].size = Len(file[p]), ![c].mtime = Stamp(p)]
  <2>1. op' = [op EXCEPT ![c] = o]
    BY <1>4 DEF QueueTyped
  <2>2. file[p] \in Chunks /\ Len(file[p]) \in Nat
    BY <1>1, <1>4 DEF BoardTyped, Chunks
  <2>3. mtime[p] \in Nat /\ mtime[p] <= clock /\ Stamp(p) \in Nat /\ Stamp(p) <= clock
    BY <1>1 DEF TimesKnown, BoardTyped, Stamp
  <2>4. op[c] \in [kind : Kinds, path : Paths \cup {None}, to : Paths \cup {None},
                   content : Chunks, size : Nat, mtime : Nat, got : Chunks]
    BY DEF QueueTyped
  <2>5. o \in [kind : Kinds, path : Paths \cup {None}, to : Paths \cup {None},
               content : Chunks, size : Nat, mtime : Nat, got : Chunks]
    BY <2>2, <2>3, <2>4
  <2>6. /\ o.kind = "read" /\ o.path = p /\ o.mtime = Stamp(p) /\ o.size = Len(file[p])
        /\ o.got = <<>>
    BY <2>4 DEF ReadStat, InFront, Runs
  <2>7. Begins(o.got, file[p])
    BY <2>2, <2>6 DEF Begins
  <2>8. Fine => Timely(o)
    BY <1>1, <1>4, <2>6, <2>7 DEF Stamp, TimesKnown, Timely, Fine
  <2>9. to = "chunk" => Whole(o)
    BY <2>2, <2>6, <2>7 DEF Whole
  <2>10. op[c].kind = "read" /\ to \in {"payload", "chunk"} /\ o.mtime <= clock
    BY <2>3, <2>6 DEF ReadStat
  <2>11. o.path = op[c].path /\ Goto(c, to) /\ UNCHANGED <<boardVars, cacheVars, before>>
    BY <1>4, <2>6
  <2> HIDE DEF o, to
  <2> QED
    BY <1>1, <2>1, <2>5, <2>6, <2>8, <2>9, <2>10, <2>11, ReadGoesOn
<1> QED
  BY <1>2, <1>3, <1>4 DEF ReadStat

LEMMA ReadIncompleteStep ==
  ASSUME IInv, NEW c \in Callers, NEW at \in {"payload", "chunk"}, Runs(c, at), ReadIncomplete(c)
  PROVE  IInv'
<1>1. op[c].path \in Paths
  BY DEF InFront
<1> QED
  BY <1>1, LeavesFiles DEF ReadIncomplete, Forgets

LEMMA ReadPayloadStep ==
  ASSUME IInv, NEW c \in Callers, ReadPayload(c) PROVE IInv'
<1>1. CASE Throw(c)
  BY <1>1, ThrowStep DEF ReadPayload
<1>2. CASE ReadIncomplete(c)
  BY <1>2, ReadIncompleteStep DEF ReadPayload
<1>3. CASE file[op[c].path] # Absent /\ ReadEnds(c, file[op[c].path])
  <2>1. op[c].path \in Paths
    BY DEF ReadPayload, InFront
  <2>2. file[op[c].path] \in Chunks
    BY <1>3, <2>1 DEF BoardTyped
  <2> QED
    BY <1>3, <2>2, ReadEndsStep DEF ReadPayload
<1> QED
  BY <1>1, <1>2, <1>3 DEF ReadPayload

LEMMA ReadNextChunkStep ==
  ASSUME IInv, NEW c \in Callers, ReadNextChunk(c) PROVE IInv'
<1> DEFINE p == op[c].path
           f == file[p]
           got == op[c].got
           data == SubSeq(f, Len(got) + 1, Len(got) + ReadChunk)
           more == got \o data
           o == [op[c] EXCEPT !.got = more]
<1>1. p \in Paths /\ Runs(c, "chunk") /\ op[c].kind = "read"
  BY DEF ReadNextChunk, InFront
<1>2. CASE Throw(c)
  BY <1>1, <1>2, ThrowStep
<1>3. CASE ReadIncomplete(c)
  BY <1>1, <1>3, ReadIncompleteStep
<1>4. CASE /\ f # Absent /\ Len(f) > Len(got)
           /\ IF Len(got) + Len(data) < op[c].size
              THEN /\ op' = [op EXCEPT ![c].got = more]
                   /\ Goto(c, "chunk")
                   /\ UNCHANGED <<boardVars, cacheVars, answer, before>>
              ELSE ReadEnds(c, more)
  <2>1. f \in Chunks /\ got \in Chunks /\ op[c].size \in Nat
    BY <1>1, <1>4 DEF BoardTyped, QueueTyped
  <2>2. /\ data = <<f[Len(got) + 1]>> /\ Len(data) = 1
        /\ more = Append(got, f[Len(got) + 1])
    <3>1. data = <<f[Len(got) + 1]>> /\ more = Append(got, f[Len(got) + 1])
      BY <1>4, <2>1, NextChunk
    <3> HIDE DEF data
    <3> QED
      BY <3>1
  <2>3. f[Len(got) + 1] \in Nat \ {0} /\ Len(got) \in Nat
    BY <1>4, <2>1 DEF Chunks
  <2>4. more \in Chunks /\ Len(more) = Len(got) + 1
    <3>1. Append(got, f[Len(got) + 1]) \in Seq(Nat \ {0})
      BY <2>1, <2>3, AppendProperties DEF Chunks
    <3>2. Len(Append(got, f[Len(got) + 1])) = Len(got) + 1
      BY <2>1, <2>3, AppendProperties DEF Chunks
    <3> QED
      BY <2>2, <3>1, <3>2 DEF Chunks
  <2>5. Begins(got, f) => Begins(more, f)
    BY <1>4, <2>1, <2>2, OneMore
  <2>6. /\ op[c].mtime <= clock /\ (Fine => Timely(op[c])) /\ (ScriptsWriteSmall => Whole(op[c]))
    BY <1>1 DEF ReadsTracked
  <2>7. CASE Len(got) + 1 < op[c].size
    <3>1. /\ op' = [op EXCEPT ![c].got = more] /\ Goto(c, "chunk")
          /\ UNCHANGED <<boardVars, cacheVars, answer, before>>
      BY <1>4, <2>2, <2>7
    <3>2. op' = [op EXCEPT ![c] = o]
      BY <3>1 DEF QueueTyped
    <3>3. op[c] \in [kind : Kinds, path : Paths \cup {None}, to : Paths \cup {None},
                     content : Chunks, size : Nat, mtime : Nat, got : Chunks]
      BY DEF QueueTyped
    <3>4. o \in [kind : Kinds, path : Paths \cup {None}, to : Paths \cup {None},
                 content : Chunks, size : Nat, mtime : Nat, got : Chunks]
      BY <2>4, <3>3
    <3>5. /\ o.kind = "read" /\ o.path = p /\ o.got = more
          /\ o.mtime = op[c].mtime /\ o.size = op[c].size
      BY <3>3, <1>1
    <3>6. /\ o.mtime <= clock /\ (Fine => Timely(o)) /\ (ScriptsWriteSmall => Whole(o))
      <4> HIDE DEF o, more
      <4> QED
        BY <2>5, <2>6, <3>5 DEF Timely, Whole
    <3> HIDE DEF o, more
    <3> QED
      BY <1>1, <3>1, <3>2, <3>4, <3>5, <3>6, ReadGoesOn
  <2>8. CASE ~(Len(got) + 1 < op[c].size)
    <3>1. ReadEnds(c, more)
      BY <1>4, <2>2, <2>8
    <3>2. ASSUME op[c].size = Len(f), Begins(more, f) PROVE more = f
      <4>1. Len(f) \in Nat /\ Len(more) <= Len(f)
        BY <2>1, <3>2 DEF Begins, Chunks
      <4> HIDE DEF more, f, got
      <4>2. Len(more) = Len(f)
        BY <2>3, <2>4, <2>8, <3>2, <4>1
      <4> QED
        BY <2>1, <2>4, <3>2, <4>2, WholeContent
    <3>3. Fine /\ mtime[p] = op[c].mtime => more = f
      BY <1>4, <2>5, <2>6, <3>2 DEF Timely
    <3>4. ScriptsWriteSmall => more = f
      <4>1. Len(f) \in Nat /\ Len(got) \in Nat /\ Len(f) > Len(got)
        BY <1>4, <2>1 DEF Chunks
      <4>2. Whole(op[c]) => op[c].size > ReadChunk /\ (Len(f) <= ReadChunk \/ (op[c].size = Len(f) /\ Begins(got, f)))
        BY DEF Whole
      <4> HIDE DEF more, f, got
      <4>3. Whole(op[c]) => op[c].size = Len(f) /\ Begins(got, f)
        BY <2>1, <2>8, <4>1, <4>2 DEF ReadChunk
      <4> QED
        BY <2>5, <2>6, <3>2, <4>3
    <3> HIDE DEF more
    <3> QED
      BY <1>1, <1>4, <2>4, <3>1, <3>3, <3>4, ReadEndsStep
  <2> QED
    BY <2>7, <2>8
<1> QED
  BY <1>2, <1>3, <1>4 DEF ReadNextChunk

-----------------------------------------------------------------------------
(* Changes of files.                                                       *)

(* New contents come with a new time, which with fine times nothing        *)
(* remembered has.                                                         *)
LEMMA Modified ==
  ASSUME IInv, NEW S \in SUBSET Paths, NEW contents,
         \A p \in S : contents[p] \in Chunks \cup {Absent},
         (\E p \in Paths : S = {p}) \/ (\A p \in S : contents[p] = Absent),
         Modify(S, contents), UNCHANGED stamps, session' \in Paths \cup {None},
         NEW T \in SUBSET Paths, Forgets(T),
         \A p \in Paths : Replacing(p)' => Replacing(p) \/ p \in S
  PROVE  /\ BoardTyped' /\ CacheTyped' /\ TimesKnown' /\ Stamped'
         /\ clock' \in {clock, clock + 1} /\ (Fine => clock' = clock + 1)
         /\ \A p \in Paths : /\ file'[p] = IF p \in S THEN contents[p] ELSE file[p]
                             /\ mtime'[p] = IF p \in S THEN clock' ELSE mtime[p]
<1>1. /\ clock' \in {clock, clock + 1} /\ (Fine => clock' = clock + 1)
      /\ \A p \in Paths : /\ file'[p] = IF p \in S THEN contents[p] ELSE file[p]
                          /\ mtime'[p] = IF p \in S THEN clock' ELSE mtime[p]
  BY DEF Modify, Tick, Fine
<1>2. clock \in Nat /\ clock' \in Nat
  BY <1>1 DEF BoardTyped
<1>3. file' \in [Paths -> Chunks \cup {Absent}] /\ mtime' \in [Paths -> Nat]
  BY <1>2 DEF Modify, BoardTyped
<1>4. BoardTyped'
  BY <1>2, <1>3 DEF BoardTyped
<1>5. CacheTyped' /\ \A p \in Paths : readCache'[p] \in {readCache[p], NoEntry}
  BY Forgotten
<1>6. NoEntry.data = Absent /\ NoEntry.mtime = 0
  BY DEF NoEntry
<1>7. \A p \in Paths : /\ mtime[p] \in 1 .. clock
                      /\ readCache[p].mtime <= clock /\ readCache[p].mtime \in Nat
  BY DEF TimesKnown, CacheTyped
<1>8. \A p \in Paths : mtime'[p] \in 1 .. clock'
  <2> SUFFICES ASSUME NEW p \in Paths PROVE mtime'[p] \in 1 .. clock'
    OBVIOUS
  <2>1. mtime[p] \in 1 .. clock /\ mtime'[p] \in {clock', mtime[p]}
    BY <1>1, <1>7
  <2> QED
    BY <1>1, <1>2, <2>1
<1>9. \A p \in Paths : readCache'[p].mtime <= clock'
  <2> SUFFICES ASSUME NEW p \in Paths PROVE readCache'[p].mtime <= clock'
    OBVIOUS
  <2>1. readCache'[p].mtime \in {readCache[p].mtime, 0}
    BY <1>5, <1>6
  <2> QED
    BY <1>1, <1>2, <1>7, <2>1
<1>10. Fine => \A p, q \in Paths :
                 file'[p] # Absent /\ file'[q] # Absent /\ mtime'[p] = mtime'[q] => p = q
  BY <1>1, <1>2, <1>7 DEF TimesKnown
<1>11. TimesKnown'
  BY <1>8, <1>9, <1>10 DEF TimesKnown, Fine
<1>12. Stamped'
  <2> SUFFICES ASSUME Fine, NEW p \in Paths, NEW q \in Paths, readCache'[p].data # Absent,
                      file'[q] # Absent, readCache'[p].mtime = mtime'[q]
               PROVE  ~Replacing(q)' /\ readCache'[p].data = file'[q]
    BY DEF Stamped, Fine
  <2>1. readCache'[p] = readCache[p]
    BY <1>5, <1>6
  <2>2. q \notin S /\ mtime[q] = readCache[p].mtime /\ file'[q] = file[q]
    BY <1>1, <1>2, <1>7, <2>1
  <2> QED
    BY <2>1, <2>2 DEF Stamped
<1> QED
  BY <1>1, <1>4, <1>5, <1>11, <1>12

(* A move takes the time along, and the source is gone.                    *)
LEMMA Moved ==
  ASSUME IInv, NEW p \in Paths, NEW q \in Paths, p # q, file[p] # Absent, Move(p, q),
         UNCHANGED <<stamps, session>>,
         CacheTyped', \A r \in Paths : readCache'[r] \in {readCache[r], NoEntry},
         \A r \in Paths : ~Replacing(r) /\ ~Replacing(r)'
  PROVE  /\ BoardTyped' /\ TimesKnown' /\ Stamped'
         /\ \A r \in Paths \ {p, q} : file'[r] = file[r] /\ mtime'[r] = mtime[r]
<1>1. /\ clock' = clock
      /\ \A r \in Paths : /\ file'[r] = IF r = p THEN Absent
                                       ELSE IF r = q THEN file[p] ELSE file[r]
                          /\ mtime'[r] = IF r = q THEN mtime[p] ELSE mtime[r]
  BY DEF Move, BoardTyped
<1>2. BoardTyped'
  BY DEF Move, BoardTyped
<1>3. NoEntry.data = Absent /\ NoEntry.mtime = 0
  BY DEF NoEntry
<1>4. TimesKnown'
  BY <1>1, <1>3 DEF TimesKnown, BoardTyped, CacheTyped, Fine
<1>5. Stamped'
  BY <1>1, <1>3 DEF Stamped, Fine
<1> QED
  BY <1>1, <1>2, <1>4, <1>5

-----------------------------------------------------------------------------
(* Writes.                                                                 *)

(* A write ends, whatever became of it.                                    *)
LEMMA WriteLeaves ==
  ASSUME IInv, NEW c \in Callers, NEW at \in {"send", "finish", "abort"}, Runs(c, at), Release(c),
         UNCHANGED <<file, mtime, clock>>, session' = None,
         before' = [before EXCEPT ![op[c].path] = <<>>],
         (at = "abort" /\ BehindItsBack) \/ Invalidate({op[c].path})
  PROVE  IInv'
<1>1. op[c].path \in Paths /\ op[c].kind \in {"write", "upload"} /\ at # "start"
  BY Constants DEF InFront
<1>2. \A p \in Paths : Replacing(p) <=> p = op[c].path
  BY <1>1, ReplacingHead DEF Labels
<1>3. {op[c].path} \in SUBSET Paths /\ Forgets({op[c].path}) /\ UNCHANGED stamps
  BY <1>1 DEF Forgets, Release
<1>4. \A p \in Paths : ~Replacing(p)'
  BY Released DEF Labels
<1>5. CacheTyped' /\ TimesKnown' /\ Stamped'
  BY <1>3, <1>4, CacheShrinks
<1>8. Noticed'
  <2>1. \A p \in Paths \ {op[c].path} : ~Replacing(p) /\ file'[p] = file[p] /\ mtime'[p] = mtime[p]
    BY <1>2
  <2> QED
    BY <1>3, <1>5, <2>1, NoticedStep
<1>6. BoardTyped' /\ BeforeTyped'
  BY <1>1 DEF BoardTyped, BeforeTyped
<1>7. \A p \in Paths : before'[p] = <<>>
  BY <1>1, <1>2 DEF BeforeHeld, BeforeTyped
<1> QED
  BY <1>5, <1>6, <1>7, <1>8, Leaves DEF Labels

(* A write goes on to its request `to` with operation o, its file now f:   *)
(* with or without another chunk.                                          *)
GoesOn(c, to, o, f) ==
  /\ pc[c] \in {"send", "finish"} /\ queue # <<>> /\ Head(queue) = c
  /\ to \in {"send", "finish", "abort", "restat"} /\ Goto(c, to)
  /\ op[c].kind \in {"write", "upload"}
  /\ to = "restat" => op[c].kind = "write" /\ session' = None /\ before'[o.path] = <<>>
  /\ op' = [op EXCEPT ![c] = o]
  /\ o \in [kind : Kinds, path : Paths \cup {None}, to : Paths \cup {None},
            content : Chunks, size : Nat, mtime : Nat, got : Chunks]
  /\ o.kind = op[c].kind /\ o.path = op[c].path /\ o.content = op[c].content
  /\ f \in Chunks /\ file' = [file EXCEPT ![o.path] = f]
  /\ UNCHANGED <<mtime, clock, cacheVars>> /\ session' \in {session, None}
  /\ to = "send" => f = o.got /\ Len(o.got) < Len(o.content) /\ Begins(o.got, o.content)
  /\ to \in {"finish", "restat"} => f = o.content
  /\ before' = before \/ before' = [before EXCEPT ![o.path] = <<>>]

LEMMA WriteGoesOn ==
  ASSUME IInv, NEW c \in Callers, NEW to, NEW o, NEW f, GoesOn(c, to, o, f)
  PROVE  IInv'
<1> USE DEF GoesOn
<1>1. o.path \in OwnPaths /\ o.path \in Paths
  BY Constants DEF InFront
<1>2. Typed'
  <2>1. BoardTyped'
    BY <1>1 DEF BoardTyped
  <2>2. CacheTyped' /\ QueueTyped' /\ BeforeTyped'
    BY DEF Goto, cacheVars, CacheTyped, QueueTyped, BeforeTyped, Labels
  <2> QED
    BY <2>1, <2>2 DEF Goto
<1>3. /\ \A d \in Callers \ {c} : op'[d] = op[d] /\ pc'[d] = pc[d]
      /\ op'[c] = o /\ pc'[c] = to /\ queue' = queue /\ UNCHANGED <<stamps, readCache>>
  BY DEF Goto, QueueTyped, cacheVars
<1>4. \A d \in Callers \ {c} : pc[d] \in {"idle", "start"}
  BY DEF InFront, QueueTyped, Labels
<1>5. InFront'
  BY <1>3, <1>4 DEF InFront, None
<1>6. WritesTracked' /\ ReadsTracked'
  <2>1. file'[o.path] = f /\ to \notin {"idle", "start", "payload", "chunk"}
    BY <1>1 DEF BoardTyped
  <2>2. ASSUME NEW d \in Callers
        PROVE  d = c \/ pc'[d] \in {"idle", "start"}
    BY <1>3, <1>4
  <2>3. WritesTracked'
    BY <1>3, <2>1, <2>2 DEF WritesTracked
  <2>4. ReadsTracked'
    BY <1>3, <2>1, <2>2 DEF ReadsTracked
  <2> QED
    BY <2>3, <2>4
<1>7. \A p \in Paths : (Replacing(p) <=> p = o.path) /\ (Replacing(p)' <=> p = o.path)
  BY <1>3 DEF Replacing
<1>8. file[o.path] \in Chunks
  BY DEF WritesTracked, QueueTyped
<1>9. TimesKnown'
  BY <1>1, <1>3, <1>8, AbsentIsNoContent DEF TimesKnown, BoardTyped, Fine
<1>10. Stamped'
  BY <1>1, <1>3, <1>7, <1>8, AbsentIsNoContent DEF Stamped, BoardTyped, Fine
<1>12. Noticed'
  <2>1. Forgets({})
    BY KeepsAll
  <2>2. \A p \in Paths : Replacing(p)' \/ (~Replacing(p) /\ file'[p] = file[p] /\ mtime'[p] = mtime[p])
    BY <1>7 DEF BoardTyped
  <2> QED
    BY <1>3, <1>9, <1>10, <2>1, <2>2, NoticedStep
<1>11. SessionHeld' /\ BeforeHeld'
  BY <1>1, <1>3, <1>7 DEF SessionHeld, BeforeHeld, BeforeTyped, BoardTyped
<1> QED
  BY <1>2, <1>5, <1>6, <1>9, <1>10, <1>11, <1>12

LEMMA BeginFileWriteStep ==
  ASSUME IInv, NEW c \in Callers, BeginFileWrite(c) PROVE IInv'
<1> DEFINE p == op[c].path
           to == IF op[c].content = <<>> THEN "finish" ELSE "send"
<1>1. /\ p \in Paths /\ Runs(c, "start") /\ op[c].kind \in {"write", "upload"}
      /\ op[c].content \in Chunks /\ op[c].got = <<>>
  BY Constants DEF BeginFileWrite, Writing, InFront, QueueTyped
<1>2. \A q \in Paths : ~Replacing(q) /\ before[q] = <<>>
  BY <1>1, ReplacingHead, NothingOpen DEF Labels
<1>3. CASE Refused(c) /\ UNCHANGED boardVars
  <2>1. UNCHANGED before
    BY <1>1, <1>2, <1>3 DEF Refused, BeforeTyped
  <2> QED
    BY <1>1, <1>3, <2>1, LeavesFiles DEF Refused, Forgets
<1>4. CASE Throw(c)
  BY <1>1, <1>4, ThrowStep
<1>5. CASE /\ LateBegin /\ SetFile(p, <<>>) /\ session' = p
           /\ Release(c) /\ UNCHANGED <<answer, before>> /\ BehindItsBack
  <2>1. \A q \in Paths : ~Replacing(q)'
    BY <1>1, <1>5, Released DEF Labels
  <2>2. Forgets({}) /\ UNCHANGED stamps /\ Modify({p}, [q \in {p} |-> <<>>])
    BY <1>5 DEF Forgets, Release, SetFile
  <2>3. session' \in Paths \cup {None}
    BY <1>1, <1>5
  <2>4. BoardTyped' /\ CacheTyped' /\ TimesKnown' /\ Stamped'
    BY <1>1, <1>2, <2>1, <2>2, <2>3, Modified, AbsentIsNoContent
  <2>5. Noticed'
    BY <1>5, <2>2, <2>4, NoticedStep
  <2> QED
    BY <1>1, <1>2, <1>5, <2>4, <2>5, Leaves DEF BeforeTyped, Labels
<1>6. CASE /\ SetFile(p, <<>>) /\ session' = p
           /\ before' = [before EXCEPT ![p] = <<file[p]>>]
           /\ Goto(c, to) /\ UNCHANGED <<op, cacheVars, answer>>
  <2>1. /\ \A d \in Callers \ {c} : pc'[d] = pc[d]
        /\ pc'[c] = to /\ queue' = queue /\ stamps' = stamps /\ op' = op
    BY <1>6 DEF Goto, QueueTyped
  <2>2. \A d \in Callers \ {c} : pc[d] \in {"idle", "start"}
    BY <1>1 DEF InFront, QueueTyped, Labels
  <2>3. \A q \in Paths : Replacing(q)' <=> q = p
    BY <1>1, <2>1 DEF Replacing
  <2>4. /\ BoardTyped' /\ CacheTyped' /\ TimesKnown' /\ Stamped' /\ file'[p] = <<>>
        /\ \A q \in Paths \ {p} : file'[q] = file[q] /\ mtime'[q] = mtime[q]
    <3>1. /\ Modify({p}, [q \in {p} |-> <<>>]) /\ stamps' = stamps /\ Forgets({})
          /\ session' \in Paths \cup {None}
      BY <1>1, <1>6, <2>1, KeepsAll DEF SetFile
    <3>2. \A q \in Paths : Replacing(q)' => q \in {p}
      BY <2>3
    <3>3. /\ BoardTyped' /\ CacheTyped' /\ TimesKnown' /\ Stamped'
          /\ \A q \in Paths :
               /\ file'[q] = IF q \in {p} THEN [r \in {p} |-> <<>>][q] ELSE file[q]
               /\ mtime'[q] = IF q \in {p} THEN clock' ELSE mtime[q]
      <4> DEFINE contents == [q \in {p} |-> <<>>]
      <4>1. \A q \in {p} : contents[q] \in Chunks \cup {Absent}
        BY AbsentIsNoContent
      <4>2. /\ {p} \in SUBSET Paths /\ {} \in SUBSET Paths /\ \E q \in Paths : {p} = {q}
            /\ \A q \in Paths : Replacing(q)' => Replacing(q) \/ q \in {p}
        BY <1>1, <3>2
      <4>3. Modify({p}, contents)
        BY <3>1
      <4>4. /\ BoardTyped' /\ CacheTyped' /\ TimesKnown' /\ Stamped'
            /\ \A q \in Paths : /\ file'[q] = IF q \in {p} THEN contents[q] ELSE file[q]
                                /\ mtime'[q] = IF q \in {p} THEN clock' ELSE mtime[q]
        <5>1. PICK S \in SUBSET Paths : S = {p}
          BY <4>2
        <5> HIDE DEF contents, IInv, p
        <5>2. /\ \A q \in S : contents[q] \in Chunks \cup {Absent}
              /\ \E q \in Paths : S = {q}
              /\ \A q \in Paths : Replacing(q)' => Replacing(q) \/ q \in S
          BY <4>1, <4>2, <5>1
        <5>3. Modify(S, contents) /\ UNCHANGED stamps
          BY <3>1, <4>3, <5>1
        <5> QED
          BY <3>1, <4>2, <5>1, <5>2, <5>3, Modified
      <4> QED
        BY <4>4
    <3> QED
      BY <1>1, <3>3
  <2>5. QueueTyped' /\ BeforeTyped' /\ stamps' \in Stamps
    BY <1>1, <1>6, <2>1 DEF Goto, QueueTyped, BeforeTyped, BoardTyped, Labels
  <2>9. Noticed'
    <3>1. \A q \in Paths : Replacing(q)' \/ (~Replacing(q) /\ file'[q] = file[q] /\ mtime'[q] = mtime[q])
      BY <1>2, <2>3, <2>4
    <3> QED
      BY <1>6, <2>1, <2>4, <3>1, KeepsAll, NoticedStep
  <2>6. InFront'
    BY <1>1, <2>1, <2>2 DEF InFront, None
  <2>7. WritesTracked' /\ ReadsTracked'
    BY <1>1, <2>1, <2>2, <2>4 DEF WritesTracked, ReadsTracked, Begins, Chunks
  <2>8. SessionHeld' /\ BeforeHeld'
    BY <1>1, <1>2, <1>6, <2>1, <2>3 DEF SessionHeld, BeforeHeld, BeforeTyped
  <2> QED
    BY <2>4, <2>5, <2>6, <2>7, <2>8, <2>9
<1> QED
  BY <1>3, <1>4, <1>5, <1>6 DEF BeginFileWrite

LEMMA WriteFileChunkStep ==
  ASSUME IInv, NEW c \in Callers, WriteFileChunk(c) PROVE IInv'
<1> DEFINE p == op[c].path
           got == op[c].got
           content == op[c].content
           more == Append(got, content[Len(got) + 1])
           to == IF Len(got) + 1 = Len(content) THEN "finish" ELSE "send"
           o == [op[c] EXCEPT !.got = more]
           Types == [kind : Kinds, path : Paths \cup {None}, to : Paths \cup {None},
                     content : Chunks, size : Nat, mtime : Nat, got : Chunks]
<1>1. /\ p \in Paths /\ Runs(c, "send") /\ op[c].kind \in {"write", "upload"} /\ op[c] \in Types
      /\ file[p] = got /\ Len(got) < Len(content) /\ Begins(got, content)
      /\ got \in Chunks /\ content \in Chunks
  BY Constants DEF WriteFileChunk, Writing, InFront, QueueTyped, WritesTracked
<1>2. CASE Refused(c) /\ session' = None /\ UNCHANGED <<file, mtime, clock>>
  BY <1>1, <1>2, WriteLeaves DEF Refused
<1>3. CASE Goto(c, "abort") /\ UNCHANGED <<op, cacheVars, before, boardVars>>
  <2>1. op' = [op EXCEPT ![c] = op[c]] /\ file' = [file EXCEPT ![p] = got]
    BY <1>1, <1>3 DEF QueueTyped, BoardTyped, boardVars
  <2>2. GoesOn(c, "abort", op[c], got)
    BY <1>1, <1>3, <2>1 DEF GoesOn, boardVars
  <2> QED
    BY <2>2, WriteGoesOn
<1>4. CASE /\ file' = [file EXCEPT ![p] = Append(@, content[Len(got) + 1])]
           /\ op' = [op EXCEPT ![c].got = Append(@, content[Len(got) + 1])]
           /\ Goto(c, to)
           /\ UNCHANGED <<mtime, clock, session, cacheVars, before>>
  <2>1. more \in Chunks /\ Begins(more, content) /\ Len(more) = Len(got) + 1
    BY <1>1, OneMore
  <2>2. file' = [file EXCEPT ![p] = more] /\ op' = [op EXCEPT ![c] = o]
    BY <1>1, <1>4 DEF QueueTyped, BoardTyped
  <2>3. /\ o \in Types /\ o.kind = op[c].kind /\ o.path = p /\ o.content = content /\ o.got = more
    BY <1>1, <2>1
  <2>4. Len(content) \in Nat /\ Len(got) \in Nat
    BY <1>1 DEF Chunks
  <2> HIDE DEF more, o
  <2>5. to = "send" => Len(more) < Len(content)
    BY <1>1, <2>1, <2>4
  <2>6. to = "finish" => more = content
    BY <1>1, <2>1, WholeContent
  <2>7. to \in {"send", "finish"}
    OBVIOUS
  <2> HIDE DEF to
  <2>8. GoesOn(c, to, o, more)
    BY <1>1, <1>4, <2>1, <2>2, <2>3, <2>5, <2>6, <2>7 DEF GoesOn
  <2> QED
    BY <2>8, WriteGoesOn
<1> QED
  BY <1>2, <1>3, <1>4 DEF WriteFileChunk

LEMMA FinishFileWriteStep ==
  ASSUME IInv, NEW c \in Callers, FinishFileWrite(c) PROVE IInv'
<1> DEFINE p == op[c].path
           Types == [kind : Kinds, path : Paths \cup {None}, to : Paths \cup {None},
                     content : Chunks, size : Nat, mtime : Nat, got : Chunks]
<1>1. /\ p \in Paths /\ Runs(c, "finish") /\ op[c].kind \in {"write", "upload"} /\ op[c] \in Types
      /\ file[p] = op[c].content /\ op[c].content \in Chunks
      /\ UNCHANGED <<file, mtime, clock>>
  BY Constants DEF FinishFileWrite, Writing, InFront, QueueTyped, WritesTracked
<1>2. file' = [file EXCEPT ![p] = op[c].content]
  BY <1>1 DEF BoardTyped
<1>3. CASE Refused(c) /\ session' = None
  BY <1>1, <1>3, WriteLeaves DEF Refused
<1>4. CASE /\ session' \in {session, None}
           /\ Goto(c, "abort") /\ UNCHANGED <<op, cacheVars, before>>
  <2>1. op' = [op EXCEPT ![c] = op[c]]
    BY <1>4 DEF QueueTyped
  <2>2. GoesOn(c, "abort", op[c], op[c].content)
    BY <1>1, <1>2, <1>4, <2>1 DEF GoesOn
  <2> QED
    BY <2>2, WriteGoesOn
<1>5. CASE /\ session' = None /\ before' = [before EXCEPT ![p] = <<>>]
           /\ Invalidate({p}) /\ Release(c)
  BY <1>1, <1>5, WriteLeaves
<1>6. CASE /\ session' = None /\ before' = [before EXCEPT ![p] = <<>>]
           /\ op[c].kind = "write" /\ Goto(c, "restat") /\ UNCHANGED <<op, cacheVars>>
  <2>1. op' = [op EXCEPT ![c] = op[c]] /\ before'[p] = <<>>
    BY <1>1, <1>6 DEF QueueTyped, BeforeTyped
  <2>2. GoesOn(c, "restat", op[c], op[c].content)
    BY <1>1, <1>2, <1>6, <2>1 DEF GoesOn
  <2> QED
    BY <2>2, WriteGoesOn
<1> QED
  BY <1>3, <1>4, <1>5, <1>6 DEF FinishFileWrite

LEMMA AbortFileWriteStep ==
  ASSUME IInv, NEW c \in Callers, AbortFileWrite(c) PROVE IInv'
  BY WriteLeaves DEF AbortFileWrite, Writing

LEMMA UpdateCachedWriteStep ==
  ASSUME IInv, NEW c \in Callers, UpdateCachedWrite(c) PROVE IInv'
<1> DEFINE p == op[c].path
           e == [data |-> op[c].content, size |-> Len(file[p]), mtime |-> Stamp(p)]
<1>1. /\ p \in Paths /\ Runs(c, "restat") /\ op[c].kind = "write" /\ Release(c)
      /\ file[p] = op[c].content /\ op[c].content \in Chunks /\ file[p] # Absent
      /\ UNCHANGED <<boardVars, before>>
  BY Constants, AbsentIsNoContent DEF UpdateCachedWrite, InFront, QueueTyped, WritesTracked
<1>2. \A q \in Paths : (Replacing(q) <=> q = p) /\ ~Replacing(q)'
  BY <1>1, ReplacingHead, Released DEF Labels
<1>3. /\ BoardTyped' /\ BeforeTyped' /\ session' = None /\ \A q \in Paths : before'[q] = <<>>
  BY <1>1, NothingOpen DEF boardVars, BoardTyped, BeforeTyped, WritesTracked
<1>4. CASE Invalidate({p})
  <2>1. {p} \in SUBSET Paths /\ Forgets({p}) /\ UNCHANGED <<file, mtime, clock, stamps>>
    BY <1>1, <1>4 DEF Forgets, boardVars, Release
  <2>2. CacheTyped' /\ TimesKnown' /\ Stamped'
    BY <1>2, <2>1, CacheShrinks
  <2>3. Noticed'
    <3>1. \A q \in Paths \ {p} : ~Replacing(q) /\ file'[q] = file[q] /\ mtime'[q] = mtime[q]
      BY <1>2, <2>1
    <3> QED
      BY <2>1, <2>2, <3>1, NoticedStep
  <2> QED
    BY <1>1, <1>3, <2>2, <2>3, Leaves DEF Labels
<1>5. CASE readCache' = [readCache EXCEPT ![p] = e] /\ unseen' = unseen \ {p}
  <2>1. Stamp(p) \in Nat /\ Stamp(p) <= clock /\ (Fine => Stamp(p) = mtime[p])
    BY <1>1 DEF Stamp, TimesKnown, BoardTyped, Fine
  <2>2. e \in [data : Chunks \cup {Absent}, size : Nat, mtime : Nat]
    BY <1>1, <2>1 DEF Chunks
  <2>3. CacheTyped'
    BY <1>5, <2>2 DEF CacheTyped
  <2>4. TimesKnown'
    BY <1>1, <1>5, <2>1 DEF TimesKnown, boardVars, CacheTyped, Fine, Release
  <2>5. Stamped'
    BY <1>1, <1>2, <1>5, <2>1 DEF Stamped, TimesKnown, boardVars, CacheTyped, Fine, Release
  <2>6. Noticed'
    <3>1. e.data = file[p] /\ UNCHANGED <<file, mtime, stamps>>
      BY <1>1 DEF boardVars, Release
    <3> HIDE DEF e
    <3> QED
      BY <1>1, <1>2, <1>5, <3>1, RenewedEntry
  <2> QED
    BY <1>1, <1>3, <2>3, <2>4, <2>5, <2>6, Leaves DEF Labels
<1> QED
  BY <1>1, <1>4, <1>5 DEF UpdateCachedWrite, Remember

-----------------------------------------------------------------------------
(* The operations of one request, which may be carried out although they   *)
(* fail: then the cache stays.                                             *)
LEMMA RemovalStep ==
  ASSUME IInv, NEW c \in Callers, Runs(c, "start"), Release(c), NEW S \in SUBSET Paths,
         op[c].kind \notin {"write", "upload"},
         (\E p \in Paths : S = {p}) \/ S = Paths,
         NEW contents, \A p \in S : contents[p] = Absent, Modify(S, contents), Forgets(S),
         UNCHANGED <<session, before>>
  PROVE  IInv'
<1>1. \A p \in Paths : ~Replacing(p) /\ ~Replacing(p)'
  BY ReplacingHead, Released DEF Labels
<1>2. session' \in Paths \cup {None} /\ UNCHANGED stamps
  BY DEF BoardTyped, Release
<1>3. /\ BoardTyped' /\ CacheTyped' /\ TimesKnown' /\ Stamped'
      /\ \A p \in Paths \ S : file'[p] = file[p] /\ mtime'[p] = mtime[p]
  BY <1>1, <1>2, Modified
<1>4. Noticed'
  BY <1>1, <1>2, <1>3, NoticedStep
<1>5. /\ BeforeTyped' /\ \A p \in Paths : before'[p] = <<>>
      /\ session' # None => LateBegin
  BY NothingOpen DEF BeforeTyped
<1> QED
  BY <1>3, <1>4, <1>5, Leaves DEF Labels

(* Refused, or failed without a change.                                    *)
LEMMA NotDone ==
  ASSUME IInv, NEW c \in Callers, Runs(c, "start"), Release(c), UNCHANGED <<boardVars, before>>,
         UNCHANGED cacheVars \/ BehindItsBack
  PROVE  IInv'
  BY LeavesFiles, KeepsAll DEF Forgets

LEMMA DeleteFileStep ==
  ASSUME IInv, NEW c \in Callers, DeleteFile(c) PROVE IInv'
<1> DEFINE p == op[c].path
<1>1. p \in Paths /\ Runs(c, "start") /\ Release(c) /\ op[c].kind = "delete"
  BY Constants DEF DeleteFile, Mutation, InFront
<1>2. CASE SetFile(p, Absent) /\ Forgets({p}) /\ UNCHANGED <<session, before>>
  <2>1. Modify({p}, [q \in {p} |-> Absent]) /\ {p} \in SUBSET Paths
    BY <1>1, <1>2 DEF SetFile
  <2> QED
    BY <1>1, <1>2, <2>1, RemovalStep
<1>3. CASE UNCHANGED <<boardVars, before>> /\ (UNCHANGED cacheVars \/ BehindItsBack)
  BY <1>1, <1>3, NotDone
<1> QED
  BY <1>2, <1>3 DEF DeleteFile, Mutation, Forgets, boardVars, cacheVars

LEMMA RmdirStep ==
  ASSUME IInv, NEW c \in Callers, Rmdir(c) PROVE IInv'
<1>1. Runs(c, "start") /\ Release(c) /\ op[c].kind = "rmdir"
  BY DEF Rmdir, Mutation
<1>2. CASE /\ Modify(Paths, [p \in Paths |-> Absent]) /\ Forgets(Paths)
           /\ UNCHANGED <<session, before>>
  BY <1>1, <1>2, RemovalStep
<1>3. CASE UNCHANGED <<boardVars, before>> /\ (UNCHANGED cacheVars \/ BehindItsBack)
  BY <1>1, <1>3, NotDone
<1> QED
  BY <1>2, <1>3 DEF Rmdir, Mutation, Forgets, boardVars, cacheVars

LEMMA MkdirStep ==
  ASSUME IInv, NEW c \in Callers, Mkdir(c) PROVE IInv'
<1>1. Runs(c, "start") /\ Release(c) /\ UNCHANGED <<boardVars, before>>
  BY DEF Mkdir, Mutation, boardVars
<1>2. CASE UNCHANGED cacheVars \/ BehindItsBack
  BY <1>1, <1>2, NotDone
<1>3. CASE Invalidate(Paths)
  BY <1>1, <1>3, LeavesFiles DEF Forgets
<1> QED
  BY <1>2, <1>3 DEF Mkdir, Mutation, cacheVars

LEMMA RenameFileStep ==
  ASSUME IInv, NEW c \in Callers, RenameFile(c) PROVE IInv'
<1> DEFINE p == op[c].path
           q == op[c].to
<1>1. /\ p \in Paths /\ q \in Paths /\ p # q /\ file[p] # Absent
      /\ Runs(c, "start") /\ Release(c) /\ op[c].kind = "rename"
  BY Constants DEF RenameFile, InFront, Mutation
<1>2. CASE Move(p, q) /\ Forgets({p, q}) /\ UNCHANGED <<session, before>>
  <2>1. \A r \in Paths : ~Replacing(r) /\ ~Replacing(r)'
    BY <1>1, ReplacingHead, Released DEF Labels
  <2>2. CacheTyped' /\ \A r \in Paths : readCache'[r] \in {readCache[r], NoEntry}
    BY <1>1, <1>2, Forgotten
  <2>3. /\ BoardTyped' /\ TimesKnown' /\ Stamped' /\ UNCHANGED stamps
        /\ \A r \in Paths \ {p, q} : file'[r] = file[r] /\ mtime'[r] = mtime[r]
    BY <1>1, <1>2, <2>1, <2>2, Moved DEF Release
  <2>4. /\ BeforeTyped' /\ \A r \in Paths : before'[r] = <<>>
        /\ session' # None => LateBegin
    BY <1>1, <1>2, NothingOpen DEF BeforeTyped
  <2>5. Noticed'
    <3>1. {p, q} \in SUBSET Paths
      BY <1>1
    <3> QED
      BY <1>2, <2>1, <2>3, <3>1, NoticedStep
  <2> QED
    BY <1>1, <2>2, <2>3, <2>4, <2>5, Leaves DEF Labels
<1>3. CASE UNCHANGED <<boardVars, before>> /\ (UNCHANGED cacheVars \/ BehindItsBack)
  BY <1>1, <1>3, NotDone
<1> QED
  BY <1>2, <1>3 DEF RenameFile, Mutation, Forgets, boardVars, cacheVars

-----------------------------------------------------------------------------
(* The steps of callers, of the cache's owner and of scripts.              *)
LEMMA InvokeStep ==
  ASSUME IInv, NEW c \in Callers, Invoke(c) PROVE IInv'
<1> DEFINE Types == [kind : Kinds, path : Paths \cup {None}, to : Paths \cup {None},
                     content : Chunks, size : Nat, mtime : Nat, got : Chunks]
<1>1. PICK kind \in Kinds, p \in Paths \cup {None}, q \in Paths \cup {None}, content \in Chunks :
        /\ Call(c, kind, p, q, content) /\ kind # None
        /\ kind = "read" => p \in Paths
        /\ kind \in {"write", "upload", "delete", "rename"} => p \in OwnPaths
        /\ kind = "rename" => q \in OwnPaths /\ p # q
  BY Constants, AbsentIsNoContent DEF Invoke, Kinds, None
<1> DEFINE o == [NoOp EXCEPT !.kind = kind, !.path = p, !.to = q, !.content = content]
<1>2. /\ o \in Types /\ o.kind = kind /\ o.path = p /\ o.to = q /\ o.got = <<>>
  BY AbsentIsNoContent DEF NoOp
<1>3. /\ pc[c] = "idle" /\ op' = [op EXCEPT ![c] = o] /\ pc' = [pc EXCEPT ![c] = "start"]
      /\ queue' = Append(queue, c) /\ UNCHANGED <<boardVars, stamps, readCache, unseen, before>>
  BY <1>1 DEF Call, cacheVars
<1> HIDE DEF o
<1>4. Typed'
  BY <1>2, <1>3, SMTT(20) DEF boardVars, BoardTyped, CacheTyped, QueueTyped, BeforeTyped, Labels
<1>5. queue # <<>> => queue' # <<>> /\ Head(queue') = Head(queue)
  BY <1>3 DEF QueueTyped
<1>6. /\ \A d \in Callers \ {c} : op'[d] = op[d] /\ pc'[d] = pc[d]
      /\ op'[c] = o /\ pc'[c] = "start"
  BY <1>3 DEF QueueTyped
<1>7. InFront'
  BY <1>1, <1>2, <1>3, <1>5, <1>6 DEF InFront
<1>8. WritesTracked' /\ ReadsTracked'
  BY <1>3, <1>6 DEF WritesTracked, ReadsTracked, Timely, Whole, Fine, boardVars
<1>9. ASSUME NEW p2 \in Paths PROVE Replacing(p2)' <=> Replacing(p2)
  <2>1. CASE queue = <<>>
    <3>1. Head(queue') = c
      BY <1>3, <2>1
    <3> QED
      BY <1>6, <2>1, <3>1 DEF Replacing
  <2>2. CASE queue # <<>>
    <3>1. Head(queue) \in Callers
      BY <2>2 DEF QueueTyped
    <3>2. Head(queue) = c => ~Replacing(p2)
      BY <1>3 DEF Replacing, InFront, None
    <3> QED
      BY <1>5, <1>6, <2>2, <3>1, <3>2 DEF Replacing
  <2> QED
    BY <2>1, <2>2
<1>10. \A p2 \in Paths : Replacing(p2) => pc'[Head(queue')] = pc[Head(queue)]
  BY <1>3, <1>5, <1>6 DEF Replacing, InFront, None, QueueTyped
<1>11. TimesKnown' /\ SessionHeld' /\ Stamped' /\ BeforeHeld'
  BY <1>3, <1>9, <1>10 DEF boardVars, BoardTyped, TimesKnown, SessionHeld, Stamped, Fine,
     BeforeHeld
<1>12. Noticed'
  BY <1>3, <1>9 DEF boardVars, Noticed, Stale, Hits, Stamp, Fine
<1> QED
  BY <1>4, <1>7, <1>8, <1>11, <1>12

LEMMA ClearCacheStep == IInv /\ ClearCache => IInv'
<1> SUFFICES ASSUME IInv, ClearCache PROVE IInv'
  OBVIOUS
<1>1. UNCHANGED <<file, mtime, clock, session, stamps, queue, pc, op, before>>
  BY DEF ClearCache, boardVars
<1>2. BoardTyped' /\ QueueTyped' /\ BeforeTyped' /\ InFront' /\ WritesTracked' /\ ReadsTracked'
      /\ SessionHeld' /\ BeforeHeld' /\ \A p \in Paths : Replacing(p)' <=> Replacing(p)
  BY <1>1 DEF BoardTyped, QueueTyped, BeforeTyped, InFront, WritesTracked, ReadsTracked, Timely,
     Whole, Fine, SessionHeld, BeforeHeld, Replacing
<1>3. Forgets(Paths)
  BY DEF ClearCache, Forgets
<1>4. CacheTyped' /\ TimesKnown' /\ Stamped'
  BY <1>1, <1>2, <1>3, CacheShrinks
<1>5. Noticed'
  <2>1. Paths \ Paths = {}
    OBVIOUS
  <2> QED
    BY <1>1, <1>3, <1>4, <2>1, NoticedStep
<1> QED
  BY <1>1, <1>2, <1>4, <1>5

LEMMA ScriptWritesStep ==
  ASSUME ScriptsKeepOut, IInv, NEW p \in ScriptPaths, NEW content \in ScriptContents,
         ScriptWrites(p, content)
  PROVE  IInv'
<1>1. /\ p \in Paths /\ p \notin OwnPaths /\ content \in Chunks /\ BehindItsBack
      /\ UNCHANGED <<stamps, session, queue, pc, op, before>>
      /\ Modify({p}, [q \in {p} |-> content])
  BY Constants DEF ScriptsKeepOut, ScriptWrites, SetFile
<1>2. \A q \in Paths : Replacing(q)' <=> Replacing(q)
  BY <1>1 DEF Replacing
<1>3. /\ BoardTyped' /\ TimesKnown' /\ Stamped' /\ CacheTyped'
      /\ clock' \in {clock, clock + 1} /\ (Fine => clock' = clock + 1)
      /\ \A q \in Paths : /\ file'[q] = IF q = p THEN content ELSE file[q]
                          /\ mtime'[q] = IF q = p THEN clock' ELSE mtime[q]
  <2>1. session' \in Paths \cup {None} /\ Forgets({})
    BY <1>1 DEF BoardTyped, Forgets
  <2>2. /\ BoardTyped' /\ TimesKnown' /\ Stamped' /\ CacheTyped'
        /\ clock' \in {clock, clock + 1} /\ (Fine => clock' = clock + 1)
        /\ \A q \in Paths : /\ file'[q] = IF q \in {p} THEN [r \in {p} |-> content][q]
                                         ELSE file[q]
                            /\ mtime'[q] = IF q \in {p} THEN clock' ELSE mtime[q]
    BY <1>1, <1>2, <2>1, Modified
  <2> QED
    BY <2>2
<1>4. QueueTyped' /\ BeforeTyped' /\ InFront' /\ SessionHeld' /\ BeforeHeld'
  BY <1>1, <1>2 DEF QueueTyped, BeforeTyped, InFront, SessionHeld, BeforeHeld, BoardTyped
<1>5. WritesTracked'
  BY <1>1, <1>3, Constants DEF WritesTracked, InFront
<1>6. ReadsTracked'
  <2> SUFFICES ASSUME NEW d \in Callers, pc[d] \in {"payload", "chunk"}
               PROVE  /\ op[d].mtime <= clock'
                      /\ Fine => Timely(op[d])'
                      /\ ScriptsWriteSmall /\ pc[d] = "chunk" => Whole(op[d])'
    BY <1>1 DEF ReadsTracked, Fine
  <2>1. /\ op[d].path \in Paths /\ op[d].mtime \in Nat /\ op[d].mtime <= clock
        /\ Fine => Timely(op[d])
        /\ ScriptsWriteSmall /\ pc[d] = "chunk" => Whole(op[d])
    BY DEF ReadsTracked, InFront, QueueTyped
  <2>2. clock \in Nat /\ op'[d] = op[d]
    BY <1>1 DEF BoardTyped
  <2>3. op[d].mtime <= clock'
    BY <1>3, <2>1, <2>2
  <2>4. Fine => Timely(op[d])'
    BY <1>3, <2>1, <2>2 DEF Timely
  <2>5. ScriptsWriteSmall /\ pc[d] = "chunk" => Whole(op[d])'
    BY <1>3, <2>1, <2>2 DEF Whole, ScriptsWriteSmall
  <2> QED
    BY <2>3, <2>4, <2>5
<1>7. Noticed'
  BY <1>1, <1>3, NoticedStep DEF Forgets
<1> QED
  BY <1>1, <1>3, <1>4, <1>5, <1>6, <1>7

-----------------------------------------------------------------------------
(* There are times enough for the first files.                             *)
LEMMA FirstTimes ==
  \E m \in [Paths -> 1 .. Cardinality(Paths)] : \A p, q \in Paths : m[p] = m[q] => p = q
<1>1. IsFiniteSet(Paths)
  BY FilesAssumption DEF FilesAssumption
<1> DEFINE n == Cardinality(Paths)
<1>2. n \in Nat /\ ExistsBijection(1 .. n, Paths)
  BY <1>1, FS_CardinalityType
<1>3. ExistsBijection(Paths, 1 .. n)
  BY <1>2, Fun_ExistsBijSymmetric
<1>4. PICK m : m \in Bijection(Paths, 1 .. n)
  BY <1>3 DEF ExistsBijection
<1>5. m \in [Paths -> 1 .. n] /\ \A p, q \in Paths : m[p] = m[q] => p = q
  BY <1>4 DEF Bijection, Injection, IsInjective
<1> QED
  BY <1>5

LEMMA IInvInit == Init => IInv
<1> SUFFICES ASSUME Init PROVE IInv
  OBVIOUS
<1> DEFINE n == Cardinality(Paths)
           content == CHOOSE content \in Contents : TRUE
<1>1. n \in Nat /\ clock = n
  BY FilesAssumption, FS_CardinalityType DEF FilesAssumption, Init
<1>2. mtime \in [Paths -> 1 .. n] /\ \A p, q \in Paths : mtime[p] = mtime[q] => p = q
  BY FirstTimes DEF Init
<1>3. content \in Chunks
  BY Constants
<1>4. file = [p \in Paths |-> content]
  BY DEF Init
<1> HIDE DEF content, n
<1>5. BoardTyped
  <2>1. file \in [Paths -> Chunks \cup {Absent}] /\ session \in Paths \cup {None} /\ clock \in Nat
    BY <1>1, <1>3, <1>4 DEF Init
  <2>2. mtime \in [Paths -> Nat]
    BY <1>1, <1>2
  <2> QED
    BY <2>1, <2>2 DEF BoardTyped
<1>6. CacheTyped
  BY NoEntryTyped DEF CacheTyped, Init
<1>7. NoOp \in [kind : Kinds, path : Paths \cup {None}, to : Paths \cup {None},
                content : Chunks, size : Nat, mtime : Nat, got : Chunks]
  BY AbsentIsNoContent DEF NoOp, Kinds
<1>8. QueueTyped
  BY <1>7 DEF QueueTyped, Init, Labels
<1>9. BeforeTyped /\ stamps \in Stamps
  BY DEF BeforeTyped, Init
<1>10. NoEntry.data = Absent /\ NoEntry.mtime = 0 /\ NoOp.kind = None
  BY DEF NoEntry, NoOp
<1>11. TimesKnown
  <2>1. \A p \in Paths : readCache[p].mtime = 0
    BY <1>10 DEF Init
  <2> QED
    BY <1>1, <1>2, <2>1 DEF TimesKnown
<1>12. InFront /\ WritesTracked /\ ReadsTracked
  BY <1>10 DEF InFront, WritesTracked, ReadsTracked, Init, None
<1>13. SessionHeld /\ Stamped /\ Noticed /\ BeforeHeld
  BY <1>10 DEF SessionHeld, Stamped, Noticed, Stale, Hits, CacheMatchesStat, BeforeHeld, Init
<1> QED
  BY <1>5, <1>6, <1>8, <1>9, <1>11, <1>12, <1>13

LEMMA IInvStep == ScriptsKeepOut /\ IInv /\ [Next]_vars => IInv'
<1> SUFFICES ASSUME ScriptsKeepOut, IInv, [Next]_vars PROVE IInv'
  OBVIOUS
<1>1. CASE ClearCache
  BY <1>1, ClearCacheStep
<1>2. ASSUME NEW c \in Callers, Invoke(c) PROVE IInv'
  BY <1>2, InvokeStep
<1>3. ASSUME NEW c \in Callers, Run(c) PROVE IInv'
  <2>1. CASE Query(c) \/ FileExec(c) \/ RenameMissing(c)
    <3>1. Runs(c, "start") /\ Throw(c)
      BY <2>1 DEF Query, FileExec, RenameMissing
    <3> QED
      BY <3>1, ThrowStep
  <2> QED
    BY <1>3, <2>1, ReadStatStep, ReadPayloadStep, ReadNextChunkStep, BeginFileWriteStep,
       WriteFileChunkStep, FinishFileWriteStep, AbortFileWriteStep, UpdateCachedWriteStep,
       DeleteFileStep, RenameFileStep, RmdirStep, MkdirStep DEF Run
<1>4. ASSUME NEW p \in ScriptPaths, NEW content \in ScriptContents, ScriptWrites(p, content)
      PROVE  IInv'
  BY <1>4, ScriptWritesStep
<1>5. CASE UNCHANGED vars
  <2>1. UNCHANGED <<file, mtime, clock, session, stamps, readCache, unseen, queue, pc, op, before>>
    BY <1>5 DEF vars, boardVars, cacheVars
  <2> QED
    BY <2>1 DEF BoardTyped, CacheTyped, QueueTyped, BeforeTyped, TimesKnown, InFront,
       WritesTracked, ReadsTracked, Timely, Whole, Fine, SessionHeld, Stamped, Noticed, Stale,
       Hits, BeforeHeld, Stamp, Replacing
<1> QED
  BY <1>1, <1>2, <1>3, <1>4, <1>5 DEF Next

HIDE DEF IInv

LEMMA Invariant == ScriptsKeepOut /\ Spec => []IInv
<1>1. ScriptsKeepOut => (IInv /\ [Next]_vars => IInv')
  BY IInvStep
<1>2. CASE ScriptsKeepOut
  BY <1>1, <1>2, IInvInit, PTL DEF Spec
<1>3. CASE ~ScriptsKeepOut
  BY <1>3
<1> QED
  BY <1>2, <1>3

LEMMA CurrentNow == IInv /\ (ScriptsWriteSmall \/ Fine) => CacheIsCurrent
  BY FineEntries DEF IInv, Noticed, Fine, CacheIsCurrent

(***************************************************************************)
(* The theorems.                                                           *)
(***************************************************************************)

(* Whatever wrote a file last, an entry of the cache that the next read    *)
(* would take is the file's content (fileService.ts, cacheMatchesStat and  *)
(* the invalidations), if scripts leave the callers' files alone: where    *)
(* modification times are fine, of every file; elsewhere, if scripts write *)
(* what is read with one request, of every file but those that a script or *)
(* a failed request changed unnoticed.                                     *)
THEOREM CacheStaysCurrent ==
  ScriptsKeepOut /\ (ScriptsWriteSmall \/ TimesAreFine) /\ Spec => []CacheIsCurrent
<1>1. (ScriptsWriteSmall \/ TimesAreFine) => (IInv => CacheIsCurrent)
  BY CurrentNow DEF IInv, Typed, Fine, TimesAreFine
<1>2. CASE ScriptsWriteSmall \/ TimesAreFine
  BY <1>1, <1>2, Invariant, PTL
<1>3. CASE ~(ScriptsWriteSmall \/ TimesAreFine)
  BY <1>3
<1> QED
  BY <1>2, <1>3

(* If the backend begins no write that its client gave up, it is never     *)
(* left with an open write, during which it refuses every other file       *)
(* request (fileService.ts, the abortFileWrite of the finally blocks).     *)
THEOREM WritesAreClosed == ~LateBegin /\ ScriptsKeepOut /\ Spec => []NoStrandedWrite
<1>1. ~LateBegin => (IInv => NoStrandedWrite)
  BY DEF IInv, SessionHeld, NoStrandedWrite
<1>2. CASE ~LateBegin
  BY <1>1, <1>2, Invariant, PTL
<1>3. CASE LateBegin
  BY <1>3
<1> QED
  BY <1>2, <1>3

-----------------------------------------------------------------------------
(* The file service implements AtomicFiles.                                *)

(* The file as AtomicFiles sees it: while it is replaced, as it was.       *)
Seen(p) == IF before[p] = <<>> THEN file[p] ELSE before[p][1]

(* The files about which a read promises nothing.                          *)
Excused == IF stamps = "fine" THEN {} ELSE unseen

LEMMA Shrinks ==
  ASSUME UNCHANGED stamps, unseen' \subseteq unseen PROVE Excused' \subseteq Excused
  BY DEF Excused

(* A change behind the service's back excuses what it changes at most.     *)
LEMMA Grows ==
  ASSUME IInv, ScriptsWriteSmall, UNCHANGED stamps, BehindItsBack, NEW S \in SUBSET Paths,
         \A p \in Paths \ S : /\ file'[p] = file[p] /\ mtime'[p] = mtime[p]
                              /\ Replacing(p) => Replacing(p)'
  PROVE  Excused' \subseteq Excused \cup S
<1>1. ASSUME NEW p \in Paths \ S, Stale(p)' PROVE Stale(p)
  <2>1. Hits(p)' => Hits(p)
    BY DEF Hits, CacheMatchesStat, Stamp, BehindItsBack
  <2> QED
    BY <1>1, <2>1 DEF Stale, BehindItsBack
<1>2. ~Fine => \A p \in Paths \ unseen : ~Stale(p)
  BY DEF IInv, Noticed
<1>3. unseen' = unseen \cup {p \in Paths : Stale(p)'}
  BY DEF BehindItsBack
<1> QED
  BY <1>1, <1>2, <1>3 DEF Excused, Fine

LEMMA MapsToForget ==
  ASSUME UNCHANGED <<file, before, answer>>, Excused' \subseteq Excused PROVE Atomic!FilesNext
  BY DEF Excused, Atomic!FilesNext, Atomic!Forget, Atomic!Unseen

LEMMA MapsToChange ==
  ASSUME NEW p \in Paths, \A q \in Paths \ {p} : Seen(q)' = Seen(q), UNCHANGED answer,
         Excused' \subseteq Excused \cup {p}
  PROVE  Atomic!FilesNext
  BY DEF Seen, Excused, Atomic!FilesNext, Atomic!Change, Atomic!Unseen

LEMMA MapsToRead ==
  ASSUME NEW p \in Paths, NEW data, before[p] = <<>>, file[p] # Absent, answer' = <<p, data>>,
         p \notin Excused => data = file[p],
         UNCHANGED <<file, before>>, Excused' \subseteq Excused
  PROVE  Atomic!FilesNext
<1>1. answer' # <<>> /\ answer'[1] = p /\ answer'[2] = data
  OBVIOUS
<1>2. Atomic!Read(p)
  BY <1>1 DEF Excused, Atomic!Read, Atomic!Unseen
<1> QED
  BY <1>2 DEF Atomic!FilesNext

LEMMA MapsToMove ==
  ASSUME NEW p \in Paths, NEW q \in Paths, \A r \in Paths : before[r] = <<>>,
         file \in [Paths -> Chunks \cup {Absent}], Excused' \subseteq Excused \cup {p, q},
         file' = [file EXCEPT ![q] = file[p], ![p] = Absent], UNCHANGED <<before, answer>>
  PROVE  Atomic!FilesNext
<1>1. Atomic!Move(p, q)
  BY DEF Excused, Atomic!Move, Atomic!Unseen
<1> QED
  BY <1>1 DEF Atomic!FilesNext

(* A read that ends has what the file holds.                               *)
LEMMA ChunksAreWhole ==
  ASSUME IInv, ScriptsWriteSmall, NEW c \in Callers, Runs(c, "chunk"),
         file[op[c].path] # Absent, Len(file[op[c].path]) > Len(op[c].got),
         ~(Len(op[c].got) + 1 < op[c].size)
  PROVE  op[c].got \o SubSeq(file[op[c].path], Len(op[c].got) + 1, Len(op[c].got) + ReadChunk)
           = file[op[c].path]
<1> DEFINE f == file[op[c].path]
           got == op[c].got
           more == Append(got, f[Len(got) + 1])
<1>1. op[c].path \in Paths
  BY DEF IInv, InFront
<1>2. f \in Chunks /\ got \in Chunks /\ op[c].size \in Nat
  BY <1>1 DEF IInv, BoardTyped, QueueTyped
<1>3. Len(f) \in Nat /\ Len(got) \in Nat
  BY <1>2 DEF Chunks
<1>4. got \o SubSeq(f, Len(got) + 1, Len(got) + ReadChunk) = more
  BY <1>2, NextChunk
<1>5. pc[c] = "chunk"
  OBVIOUS
<1>6. /\ op[c].size > ReadChunk
      /\ Len(f) <= ReadChunk \/ (op[c].size = Len(f) /\ Begins(got, f))
  BY <1>5 DEF IInv, ReadsTracked, Whole, ReadChunk
<1> SUFFICES more = f
  BY <1>4
<1>7. Len(f) > Len(got) /\ ~(Len(got) + 1 < op[c].size)
  OBVIOUS
<1> HIDE DEF f, got
<1>8. op[c].size = Len(f) /\ Begins(got, f) /\ Len(got) < Len(f) /\ Len(got) + 1 = Len(f)
  BY <1>2, <1>3, <1>6, <1>7 DEF ReadChunk
<1>9. more \in Chunks /\ Begins(more, f) /\ Len(more) = Len(f)
  BY <1>2, <1>8, OneMore
<1> QED
  BY <1>2, <1>9, WholeContent

LEMMA ReadMaps ==
  ASSUME IInv, ScriptsWriteSmall, NEW c \in Callers,
         ReadStat(c) \/ ReadPayload(c) \/ ReadNextChunk(c)
  PROVE  Atomic!FilesNext
<1> DEFINE p == op[c].path
           data == SubSeq(file[p], Len(op[c].got) + 1, Len(op[c].got) + ReadChunk)
<1>1. p \in Paths /\ \E at \in {"start", "payload", "chunk"} : Runs(c, at)
  BY DEF IInv, InFront, ReadStat, ReadPayload, ReadNextChunk
<1>2. before[p] = <<>>
  BY <1>1, NothingOpen
<1>7. Excused' \subseteq Excused
  <2>1. UNCHANGED stamps /\ unseen' \subseteq unseen
    BY DEF ReadStat, ReadPayload, ReadNextChunk, Throw, ReadIncomplete, ReadEnds, Remember,
       Invalidate, cacheVars, Release, Goto
  <2> QED
    BY <2>1, Shrinks
<1>3. CASE UNCHANGED <<file, before, answer>>
  BY <1>3, <1>7, MapsToForget
<1>4. CASE /\ ReadStat(c) /\ Hits(p) /\ file[p] # Absent /\ UNCHANGED <<file, before>>
           /\ answer' = <<p, readCache[p].data>>
  <2>1. \E at \in Labels : Runs(c, at) /\ at = "start" /\ op[c].kind = "read"
    BY <1>4 DEF ReadStat, Labels
  <2>2. ~Replacing(p)
    BY <1>1, <2>1, ReplacingHead
  <2>3. p \notin Excused => readCache[p].data = file[p]
    BY <1>1, <2>2, <1>4, CurrentNow DEF CacheIsCurrent, Stale, Excused
  <2> QED
    BY <1>1, <1>2, <1>4, <1>7, <2>3, MapsToRead
<1>5. CASE /\ ReadPayload(c) /\ file[p] # Absent /\ UNCHANGED <<file, before>>
           /\ answer' = <<p, file[p]>>
  BY <1>1, <1>2, <1>5, <1>7, MapsToRead
<1>6. CASE /\ ReadNextChunk(c) /\ file[p] # Absent /\ Len(file[p]) > Len(op[c].got)
           /\ ~(Len(op[c].got) + Len(data) < op[c].size)
           /\ UNCHANGED <<file, before>> /\ answer' = <<p, op[c].got \o data>>
  <2>1. file[p] \in Chunks /\ op[c].got \in Chunks
    BY <1>1, <1>6 DEF IInv, BoardTyped, QueueTyped
  <2>2. Len(data) = 1
    <3>1. data = <<file[p][Len(op[c].got) + 1]>>
      BY <1>6, <2>1, NextChunk
    <3> HIDE DEF data
    <3> QED
      BY <3>1
  <2>3. Runs(c, "chunk")
    BY <1>6 DEF ReadNextChunk
  <2>4. op[c].got \o data = file[p]
    BY <1>6, <2>2, <2>3, ChunksAreWhole
  <2> QED
    BY <1>1, <1>2, <1>6, <1>7, <2>4, MapsToRead
<1> QED
  BY <1>3, <1>4, <1>5, <1>6
     DEF ReadStat, ReadPayload, ReadNextChunk, Throw, ReadIncomplete, ReadEnds, boardVars

(* A write changes its file alone, as seen: when it begins not even that.  *)
LEMMA WriteMaps ==
  ASSUME IInv, ScriptsWriteSmall, NEW c \in Callers,
         BeginFileWrite(c) \/ WriteFileChunk(c) \/ FinishFileWrite(c) \/ AbortFileWrite(c)
  PROVE  Atomic!FilesNext
<1> DEFINE p == op[c].path
<1>1. p \in Paths
  BY Constants DEF IInv, InFront, BeginFileWrite, WriteFileChunk, FinishFileWrite,
     AbortFileWrite, Writing
<1>2. file \in [Paths -> Chunks \cup {Absent}] /\ DOMAIN before = Paths
  BY DEF IInv, BoardTyped, BeforeTyped
<1>3. \A q \in Paths \ {p} : file'[q] = file[q]
  BY <1>1, <1>2 DEF BeginFileWrite, WriteFileChunk, FinishFileWrite, AbortFileWrite, Refused,
     Throw,
        SetFile, Modify, boardVars
<1>4. (\A q \in Paths \ {p} : before'[q] = before[q]) /\ UNCHANGED answer
  BY <1>1, <1>2 DEF BeginFileWrite, WriteFileChunk, FinishFileWrite, AbortFileWrite, Refused,
     Throw
<1>5. \A q \in Paths \ {p} : Seen(q)' = Seen(q)
  BY <1>3, <1>4 DEF Seen
<1>6. UNCHANGED stamps /\ (BehindItsBack \/ unseen' \subseteq unseen)
  BY DEF BeginFileWrite, WriteFileChunk, FinishFileWrite, AbortFileWrite, Refused, Throw,
     Invalidate, cacheVars, Release, Goto
<1>7. CASE unseen' \subseteq unseen
  BY <1>1, <1>4, <1>5, <1>6, <1>7, Shrinks, MapsToChange
<1>8. CASE BehindItsBack
  <2>1. \A q \in Paths \ {p} : mtime'[q] = mtime[q]
    BY <1>1 DEF BeginFileWrite, WriteFileChunk, FinishFileWrite, AbortFileWrite, Refused,
       Throw, SetFile, Modify, boardVars, IInv, BoardTyped
  <2>2. \A q \in Paths \ {p} : ~Replacing(q)
    BY ReplacingHead DEF BeginFileWrite, WriteFileChunk, FinishFileWrite, AbortFileWrite,
       Writing, Labels
  <2>3. {p} \in SUBSET Paths
    BY <1>1
  <2>4. Excused' \subseteq Excused \cup {p}
    BY <1>3, <1>6, <1>8, <2>1, <2>2, <2>3, Grows
  <2> QED
    BY <1>1, <1>4, <1>5, <2>4, MapsToChange
<1> QED
  BY <1>6, <1>7, <1>8

LEMMA MutationMaps ==
  ASSUME IInv, ScriptsWriteSmall, NEW c \in Callers,
         DeleteFile(c) \/ RenameFile(c) \/ Rmdir(c) \/ Mkdir(c)
  PROVE  Atomic!FilesNext
<1> DEFINE p == op[c].path
           q == op[c].to
<1>1. Runs(c, "start") /\ UNCHANGED <<before, answer>>
  BY DEF DeleteFile, RenameFile, Rmdir, Mkdir, Mutation
<1>2. \A r \in Paths : before[r] = <<>>
  BY <1>1, NothingOpen
<1>3. file \in [Paths -> Chunks \cup {Absent}]
  BY DEF IInv, BoardTyped
<1>8. UNCHANGED stamps /\ (BehindItsBack \/ unseen' \subseteq unseen)
  BY DEF DeleteFile, RenameFile, Rmdir, Mkdir, Mutation, Invalidate, cacheVars, Release
<1>9. \A r \in Paths : ~Replacing(r)
  BY <1>1, ReplacingHead DEF Labels
<1>10. ASSUME NEW S \in SUBSET Paths, \A r \in Paths \ S : file'[r] = file[r] /\ mtime'[r] = mtime[r]
       PROVE  Excused' \subseteq Excused \cup S
  <2>1. CASE BehindItsBack
    BY <1>8, <1>9, <1>10, <2>1, Grows
  <2>2. CASE unseen' \subseteq unseen
    BY <1>8, <2>2, Shrinks
  <2> QED
    BY <1>8, <2>1, <2>2
<1>4. CASE UNCHANGED <<file, mtime>>
  <2>1. Excused' \subseteq Excused \cup {}
    <3>1. {} \in SUBSET Paths /\ \A r \in Paths \ {} : file'[r] = file[r] /\ mtime'[r] = mtime[r]
      BY <1>4
    <3> QED
      BY <1>10, <3>1
  <2> QED
    BY <1>1, <1>4, <2>1, MapsToForget
<1>5. CASE DeleteFile(c) /\ SetFile(p, Absent)
  <2>1. p \in Paths
    BY <1>1, <1>5, Constants DEF DeleteFile, Mutation, IInv, InFront
  <2>2. \A r \in Paths \ {p} : file'[r] = file[r] /\ mtime'[r] = mtime[r]
    BY <1>5 DEF SetFile, Modify
  <2>3. \A r \in Paths \ {p} : Seen(r)' = Seen(r)
    BY <1>1, <2>2 DEF Seen
  <2>4. Excused' \subseteq Excused \cup {p}
    <3>1. {p} \in SUBSET Paths
      BY <2>1
    <3> QED
      BY <1>10, <2>2, <3>1
  <2> QED
    BY <1>1, <2>1, <2>3, <2>4, MapsToChange
<1>6. CASE RenameFile(c) /\ Move(p, q)
  <2>1. p \in Paths /\ q \in Paths
    BY <1>1, <1>6, Constants DEF RenameFile, IInv, InFront
  <2>2. file' = [file EXCEPT ![q] = file[p], ![p] = Absent]
    BY <1>6 DEF Move
  <2>3. \A r \in Paths \ {p, q} : file'[r] = file[r] /\ mtime'[r] = mtime[r]
    BY <1>6 DEF Move, IInv, BoardTyped
  <2>4. Excused' \subseteq Excused \cup {p, q}
    <3>1. {p, q} \in SUBSET Paths
      BY <2>1
    <3> QED
      BY <1>10, <2>3, <3>1
  <2> QED
    BY <1>1, <1>2, <1>3, <2>1, <2>2, <2>4, MapsToMove
<1>7. CASE Modify(Paths, [r \in Paths |-> Absent])
  <2>2. \A r \in Paths : ~Stale(r)'
    BY <1>7 DEF Modify, Stale, Hits, CacheMatchesStat
  <2>3. Excused' \subseteq Excused
    BY <1>8, <2>2, Shrinks DEF BehindItsBack
  <2>1. Atomic!RemoveAll
    BY <1>1, <1>2, <1>7, <2>3 DEF Modify, Excused, Atomic!RemoveAll, Atomic!Unseen
  <2> QED
    BY <2>1 DEF Atomic!FilesNext
<1> QED
  BY <1>4, <1>5, <1>6, <1>7 DEF DeleteFile, RenameFile, Rmdir, Mkdir, Mutation

(* Every step of the service is one of AtomicFiles, or stutters.           *)
LEMMA StepMaps ==
  ScriptsWriteSmall /\ IInv /\ [Next]_vars => [Atomic!FilesNext]_Atomic!filesVars
<1> SUFFICES ASSUME ScriptsWriteSmall, IInv, [Next]_vars
             PROVE  Atomic!FilesNext \/ UNCHANGED Atomic!filesVars
  OBVIOUS
<1>1. CASE ClearCache
  <2>1. Excused' \subseteq Excused
    BY <1>1, Shrinks DEF ClearCache, Invalidate
  <2> QED
    BY <1>1, <2>1, MapsToForget DEF ClearCache, boardVars
<1>5. CASE UNCHANGED vars
  BY <1>5 DEF vars, boardVars, cacheVars, Atomic!filesVars
<1>2. ASSUME NEW c \in Callers, Invoke(c) PROVE UNCHANGED Atomic!filesVars
  BY <1>2 DEF Invoke, Call, boardVars, cacheVars, Atomic!filesVars
<1>3. ASSUME NEW c \in Callers, Run(c) PROVE Atomic!FilesNext \/ UNCHANGED Atomic!filesVars
  <2>1. CASE Query(c) \/ FileExec(c) \/ RenameMissing(c) \/ UpdateCachedWrite(c)
    <3>1. UNCHANGED <<file, before, answer, stamps>> /\ unseen' \subseteq unseen
      BY <2>1 DEF Query, FileExec, RenameMissing, UpdateCachedWrite, Throw, Release, Invalidate,
         Remember, boardVars, cacheVars
    <3> QED
      BY <3>1, Shrinks, MapsToForget
  <2> QED
    BY <1>3, <2>1, ReadMaps, WriteMaps, MutationMaps DEF Run
<1>4. ASSUME NEW p \in ScriptPaths, NEW content \in ScriptContents, ScriptWrites(p, content)
      PROVE  Atomic!FilesNext
  <2>1. /\ p \in Paths /\ UNCHANGED <<answer, before, stamps, queue, pc, op>> /\ BehindItsBack
        /\ \A q \in Paths \ {p} : file'[q] = file[q] /\ mtime'[q] = mtime[q]
    BY <1>4, Constants DEF ScriptWrites, SetFile, Modify
  <2>2. \A q \in Paths \ {p} : Seen(q)' = Seen(q)
    BY <2>1 DEF Seen
  <2>3. Excused' \subseteq Excused \cup {p}
    <3>1. {p} \in SUBSET Paths
      BY <2>1
    <3>2. \A q \in Paths : Replacing(q) => Replacing(q)'
      BY <2>1 DEF Replacing
    <3> QED
      BY <2>1, <3>1, <3>2, Grows
  <2> QED
    BY <2>1, <2>2, <2>3, MapsToChange
<1> QED
  BY <1>1, <1>2, <1>3, <1>4, <1>5 DEF Next

(* With scripts that write small files of their own, every read answers    *)
(* with what the file holds when the read ends, although reads and writes  *)
(* take several requests and the cache may answer (runFileOperation,       *)
(* readFileInChunks and readFilePayload of fileService.ts); excused are,   *)
(* unless modification times are fine, files that a script or a failed     *)
(* request changed unnoticed.                                              *)
THEOREM ImplementsAtomicFiles == ScriptsKeepOut /\ ScriptsWriteSmall /\ Spec => ReadsAreAtomic
<1>1. Init => Atomic!FilesInit
  BY DEF Init, Atomic!FilesInit
<1>2. ScriptsWriteSmall => (IInv /\ [Next]_vars => [Atomic!FilesNext]_Atomic!filesVars)
  BY StepMaps
<1>3. CASE ScriptsKeepOut /\ ScriptsWriteSmall
  <2>1. Spec => []IInv
    BY <1>3, Invariant
  <2> QED
    BY <1>1, <1>2, <1>3, <2>1, PTL DEF Spec, ReadsAreAtomic, Atomic!FilesSpec
<1>4. CASE ~(ScriptsKeepOut /\ ScriptsWriteSmall)
  BY <1>4
<1> QED
  BY <1>3, <1>4

-----------------------------------------------------------------------------
(* Explorer, for any folders and numbers of pages: what a folder's listing *)
(* holds are its pages in order, and one listing at most uses the board's  *)
(* directory cursor.                                                       *)
(*                                                                         *)
(* The argument follows the page on its way.  A listing that waits for one *)
(* has one request in the queue, for the page behind its last; a complete  *)
(* listing waits for none.  So a folder that is selected finds the cursor  *)
(* free: the listing that had it is complete, or forgotten with the step.  *)
CONSTANT MaxEvents
VARIABLES up, blocked, cancelled, background, requests, expanded, wanted, asked, shown, events

Tree == INSTANCE Explorer WITH calls <- asked

(* What both see of DirectoryListings.                                     *)
USE DEF Ids, NoListing, IsCurrentListing, Tree!Ids, Tree!NoListing, Tree!IsCurrentListing

(* Its inductive invariant.                                                *)
Listing == [dir : Dirs, entries : Seq(Nat), next : Nat, complete : BOOLEAN, generation : Nat,
            load : {"no", "queued", "blocked"}, error : BOOLEAN, cut : BOOLEAN]
Request == [id : Ids, offset : Nat]

TreeTyped ==
  /\ generation \in Nat
  /\ active \in Ids \cup {NoListing}
  /\ listings \in [Dirs -> Ids \cup {NoListing}]
  /\ listing \in [Ids -> Listing]
  /\ requests \in Seq(Request)

(* A request is that of a listing that waits for it, and its only one.     *)
Answerable(rs, ls) ==
  /\ \A n \in 1 .. Len(rs) : ls[rs[n].id].load = "queued" /\ rs[n].offset = ls[rs[n].id].next
  /\ \A m, n \in 1 .. Len(rs) : rs[m].id = rs[n].id => m = n

Rests(ls) == \A i \in Ids : ls[i].complete => ls[i].load = "no"

(* PagesInOrder and OneCursor, of any selection and listings.              *)
Ordered(l) ==
  /\ l.entries = [k \in 1 .. Len(l.entries) |-> k]
  /\ l.next = Len(l.entries)
  /\ l.complete /\ ~l.error /\ ~l.cut => Len(l.entries) = Pages[l.dir]

InOrder(sel, ls) == \A d \in Dirs : sel[d] # NoListing => ls[sel[d]].dir = d /\ Ordered(ls[sel[d]])

Alone(sel, ls, a) ==
  \A i \in Ids : ls[i].load # "no" /\ ls[i].generation = generation /\ sel[ls[i].dir] = i => i = a

TreeIInv ==
  /\ TreeTyped
  /\ Answerable(requests, listing)
  /\ Rests(listing)
  /\ InOrder(listings, listing)
  /\ OneCursor

-----------------------------------------------------------------------------
(* The queue of requests.                                                  *)
NoRequest(rs, i) == \A n \in 1 .. Len(rs) : rs[n].id # i

(* The listings but i wait as before. *)
SameBut(i, ls, new) == \A j \in Ids \ {i} : new[j].load = ls[j].load /\ new[j].next = ls[j].next

LEMMA NoListingIsNoId == NoListing \notin Ids
BY DEF NoListing, Ids

LEMMA RequestsNameListings ==
  ASSUME NEW rs \in Seq(Request), NEW n \in 1 .. Len(rs)
  PROVE  rs[n].id \in Ids
<1>1. rs[n] \in Request
  BY ElementOfSeq
<1> QED
  BY <1>1 DEF Request

(* The head of the queue is taken: its listing has no request any more.    *)
LEMMA TakesRequest ==
  ASSUME NEW rs \in Seq(Request), NEW ls, Answerable(rs, ls), rs # <<>>
  PROVE  /\ Head(rs) \in Request /\ Tail(rs) \in Seq(Request)
         /\ ls[Head(rs).id].load = "queued" /\ Head(rs).offset = ls[Head(rs).id].next
         /\ Answerable(Tail(rs), ls) /\ NoRequest(Tail(rs), Head(rs).id)
<1>1. /\ Head(rs) \in Request /\ Tail(rs) \in Seq(Request) /\ Len(rs) \in Nat \ {0}
      /\ Head(rs) = rs[1] /\ Len(Tail(rs)) = Len(rs) - 1
      /\ \A n \in 1 .. Len(Tail(rs)) : Tail(rs)[n] = rs[n + 1]
  BY HeadTailProperties, EmptySeq, LenProperties
<1>2. \A n \in 1 .. Len(Tail(rs)) : n + 1 \in 1 .. Len(rs) /\ n + 1 # 1 /\ n \in Nat
  BY <1>1
<1>3. 1 \in 1 .. Len(rs)
  BY <1>1
<1>4. Answerable(Tail(rs), ls)
  <2>1. \A n \in 1 .. Len(Tail(rs)) :
          /\ ls[Tail(rs)[n].id].load = "queued"
          /\ Tail(rs)[n].offset = ls[Tail(rs)[n].id].next
    BY <1>1, <1>2 DEF Answerable
  <2>2. ASSUME NEW m \in 1 .. Len(Tail(rs)), NEW n \in 1 .. Len(Tail(rs)),
               Tail(rs)[m].id = Tail(rs)[n].id
        PROVE  m = n
    <3>1. m + 1 = n + 1
      BY <1>1, <1>2, <2>2 DEF Answerable
    <3> QED
      BY <1>2, <3>1
  <2> QED
    BY <2>1, <2>2 DEF Answerable
<1> QED
  BY <1>1, <1>2, <1>3, <1>4 DEF Answerable, NoRequest

(* A listing without a request may wait for nothing.                       *)
LEMMA KeepsRequests ==
  ASSUME NEW rs \in Seq(Request), NEW ls, NEW new, NEW i \in Ids,
         Answerable(rs, ls), NoRequest(rs, i), SameBut(i, ls, new)
  PROVE  Answerable(rs, new)
<1>1. \A n \in 1 .. Len(rs) : rs[n].id \in Ids \ {i}
  BY RequestsNameListings DEF NoRequest
<1> QED
  BY <1>1 DEF Answerable, SameBut

(* Or ask for its next page.                                               *)
LEMMA AddsRequest ==
  ASSUME NEW rs \in Seq(Request), NEW ls, NEW new, NEW i \in Ids,
         Answerable(rs, ls), NoRequest(rs, i), SameBut(i, ls, new),
         new[i].load = "queued", new[i].next \in Nat
  PROVE  /\ Append(rs, [id |-> i, offset |-> new[i].next]) \in Seq(Request)
         /\ Answerable(Append(rs, [id |-> i, offset |-> new[i].next]), new)
<1> DEFINE r    == [id |-> i, offset |-> new[i].next]
           more == Append(rs, r)
<1>1. r \in Request /\ r.id = i /\ r.offset = new[i].next
  BY DEF Request
<1> HIDE DEF r
<1>2. /\ more \in Seq(Request) /\ Len(more) = Len(rs) + 1 /\ Len(rs) \in Nat
      /\ \A n \in 1 .. Len(rs) : more[n] = rs[n]
      /\ more[Len(rs) + 1] = r
  BY <1>1, AppendProperties, LenProperties
<1> HIDE DEF more
<1>3. Answerable(rs, new)
  BY KeepsRequests
<1>4. \A n \in 1 .. Len(more) : n \in 1 .. Len(rs) \/ n = Len(rs) + 1
  BY <1>2
<1>5. \A n \in 1 .. Len(more) : new[more[n].id].load = "queued" /\ more[n].offset = new[more[n].id].next
  BY <1>1, <1>2, <1>3, <1>4 DEF Answerable
<1>6. \A m, n \in 1 .. Len(more) : more[m].id = more[n].id => m = n
  BY <1>1, <1>2, <1>3, <1>4 DEF Answerable, NoRequest
<1> QED
  BY <1>2, <1>5, <1>6 DEF Answerable, more, r

(* A listing that waits for nothing, or is answered at once, has no        *)
(* request.                                                                *)
LEMMA NoneQueued ==
  ASSUME NEW rs \in Seq(Request), NEW ls, NEW i \in Ids, Answerable(rs, ls), ls[i].load # "queued"
  PROVE  NoRequest(rs, i)
BY DEF Answerable, NoRequest

-----------------------------------------------------------------------------
(* The listings.                                                           *)
LEMMA FreshListing ==
  ASSUME NEW d \in Dirs, generation \in Nat
  PROVE  /\ Tree!ListingOf(d) \in Listing /\ Ordered(Tree!ListingOf(d))
         /\ Tree!ListingOf(d).dir = d /\ Tree!ListingOf(d).load = "no" /\ ~Tree!ListingOf(d).complete
<1>1. <<>> \in Seq(Nat) /\ Len(<<>>) = 0
  BY EmptySeq
<1>2. <<>> = [k \in 1 .. 0 |-> k]
  OBVIOUS
<1> QED
  BY <1>1, <1>2 DEF Tree!ListingOf, Listing, Ordered

(* loadNextPage changes nothing of a listing but that it waits.            *)
LEMMA Loads ==
  ASSUME NEW ls \in [Ids -> Listing], NEW i \in Ids, requests \in Seq(Request),
         Answerable(requests, ls), Rests(ls), ~ls[i].complete, Tree!LoadNextPage(ls, i)
  PROVE  /\ listing' \in [Ids -> Listing] /\ requests' \in Seq(Request)
         /\ Answerable(requests', listing') /\ Rests(listing')
         /\ \A j \in Ids : j # i => listing'[j] = ls[j]
         /\ \A j \in Ids : /\ listing'[j].dir = ls[j].dir /\ listing'[j].entries = ls[j].entries
                           /\ listing'[j].next = ls[j].next /\ listing'[j].complete = ls[j].complete
                           /\ listing'[j].error = ls[j].error /\ listing'[j].cut = ls[j].cut
                           /\ listing'[j].generation = ls[j].generation
<1> DEFINE load == IF ls[i].load # "no" THEN ls[i].load ELSE IF blocked THEN "blocked" ELSE "queued"
<1>1. listing' = [ls EXCEPT ![i] = [ls[i] EXCEPT !.load = load]]
  BY DEF Tree!LoadNextPage
<1>2. load \in {"no", "queued", "blocked"} /\ ls[i] \in Listing
  BY DEF Listing
<1>3. [ls[i] EXCEPT !.load = load] \in Listing
  BY <1>2 DEF Listing
<1>4. listing' \in [Ids -> Listing] /\ \A j \in Ids : j # i => listing'[j] = ls[j]
  BY <1>1, <1>3
<1>5. listing'[i] = [ls[i] EXCEPT !.load = load]
  BY <1>1
<1>6. /\ listing'[i].dir = ls[i].dir /\ listing'[i].entries = ls[i].entries
      /\ listing'[i].next = ls[i].next /\ listing'[i].complete = ls[i].complete
      /\ listing'[i].error = ls[i].error /\ listing'[i].cut = ls[i].cut
      /\ listing'[i].generation = ls[i].generation /\ listing'[i].load = load
  BY <1>2, <1>5 DEF Listing
<1>7. SameBut(i, ls, listing') /\ Rests(listing') /\ ls[i].next \in Nat
  BY <1>2, <1>4, <1>6 DEF SameBut, Rests, Listing
<1>8. requests' \in Seq(Request) /\ Answerable(requests', listing')
  <2>1. CASE ls[i].load = "no" /\ ~blocked
    <3>1. requests' = Append(requests, [id |-> i, offset |-> listing'[i].next])
      BY <1>6, <2>1 DEF Tree!LoadNextPage
    <3> QED
      BY <1>6, <1>7, <2>1, <3>1, NoneQueued, AddsRequest
  <2>2. CASE ls[i].load = "no" /\ blocked
    <3>1. requests' = requests
      BY <2>2 DEF Tree!LoadNextPage
    <3> QED
      BY <1>7, <2>2, <3>1, NoneQueued, KeepsRequests
  <2>3. CASE ls[i].load # "no"
    <3>1. requests' = requests /\ \A j \in Ids : listing'[j].load = ls[j].load /\ listing'[j].next = ls[j].next
      BY <1>4, <1>6, <2>3 DEF Tree!LoadNextPage
    <3>2. \A n \in 1 .. Len(requests) : requests[n].id \in Ids
      BY RequestsNameListings
    <3> QED
      BY <3>1, <3>2 DEF Answerable
  <2> QED
    BY <2>1, <2>2, <2>3
<1> QED
  BY <1>4, <1>6, <1>7, <1>8

-----------------------------------------------------------------------------
LEMMA InitEstablishes == Tree!Init => TreeIInv
<1> SUFFICES ASSUME Tree!Init PROVE TreeIInv
  OBVIOUS
<1>1. \A i \in Ids : listing[i] = Tree!ListingOf(Root)
  BY DEF Tree!Init
<1>2. generation \in Nat /\ Root \in Dirs
  BY ExplorerAssumption DEF Tree!Init
<1>3. Tree!ListingOf(Root) \in Listing /\ Tree!ListingOf(Root).load = "no"
  BY <1>2, FreshListing
<1>4. TreeTyped
  BY <1>2, <1>3, EmptySeq DEF Tree!Init, TreeTyped
<1>5. Answerable(requests, listing) /\ Rests(listing) /\ OneCursor
  BY <1>1, <1>3, NoListingIsNoId DEF Tree!Init, Answerable, Rests, OneCursor
<1>6. InOrder(listings, listing)
  BY DEF Tree!Init, InOrder
<1> QED
  BY <1>4, <1>5, <1>6 DEF TreeIInv

(* A refresh forgets the listings; those that wait keep waiting.           *)
LEMMA RefreshKeeps ==
  ASSUME TreeIInv, Tree!Refresh
  PROVE  TreeIInv'
<1>1. generation \in Nat /\ Root \in Dirs
  BY ExplorerAssumption DEF TreeIInv, TreeTyped
<1>2. Tree!ListingOf(Root) \in Listing /\ Tree!ListingOf(Root).load = "no"
  BY <1>1, FreshListing
<1>3. \A i \in Ids : listing'[i] = IF i \in Tree!Live THEN listing[i] ELSE Tree!ListingOf(Root)
  BY DEF Tree!Refresh
<1>4. \A i \in Ids : listing[i].load # "no" => i \in Tree!Live
  BY DEF Tree!Live
<1>5. listing' \in [Ids -> Listing]
  BY <1>2 DEF Tree!Refresh, TreeIInv, TreeTyped
<1>6. TreeTyped'
  BY <1>1, <1>5 DEF Tree!Refresh, TreeIInv, TreeTyped
<1>7. Answerable(requests, listing)'
  <2>1. requests' = requests /\ \A n \in 1 .. Len(requests) : requests[n].id \in Ids
    BY RequestsNameListings DEF Tree!Refresh, TreeIInv, TreeTyped
  <2>2. \A n \in 1 .. Len(requests) : listing'[requests[n].id] = listing[requests[n].id]
    BY <1>3, <1>4, <2>1 DEF TreeIInv, Answerable
  <2> QED
    BY <2>1, <2>2 DEF TreeIInv, Answerable
<1>8. Rests(listing)'
  BY <1>2, <1>3 DEF TreeIInv, Rests
<1>9. InOrder(listings, listing)' /\ OneCursor'
  BY NoListingIsNoId, <1>5 DEF Tree!Refresh, InOrder, OneCursor, IsCurrentListing, Listing
<1> QED
  BY <1>6, <1>7, <1>8, <1>9 DEF TreeIInv

-----------------------------------------------------------------------------
(* A folder is selected: its listing, and the listings once the one that   *)
(* had the cursor is cancelled.                                            *)
Mine(d)     == IF listings[d] = NoListing THEN CHOOSE j \in Tree!Unused : TRUE ELSE listings[d]
Selected(d) == [Tree!Cancelled(d) EXCEPT ![Mine(d)] = IF listings[d] = NoListing THEN Tree!ListingOf(d) ELSE @]

LEMMA SelectionKeeps ==
  ASSUME TreeIInv, NEW d \in Dirs, Tree!GetDirectoryChildren(d)
  PROVE  /\ Mine(d) \in Ids
         /\ generation' = generation /\ active' \in Ids \cup {NoListing}
         /\ listings' \in [Dirs -> Ids \cup {NoListing}]
         /\ Selected(d) \in [Ids -> Listing]
         /\ Answerable(requests, Selected(d)) /\ Rests(Selected(d))
         /\ InOrder(listings', Selected(d))
         /\ Alone(listings', Selected(d), active')
         /\ ~Selected(d)[Mine(d)].complete => active' = Mine(d)
<1> DEFINE i == Mine(d)  ls == Selected(d)  a == active
<1>1. /\ generation' = generation
      /\ listings' = [Tree!Forgotten(d) EXCEPT ![d] = i]
      /\ active' = IF ~ls[i].complete THEN i ELSE IF active = i THEN active ELSE NoListing
      /\ listings[d] = NoListing => i \in Tree!Unused
  BY DEF Tree!GetDirectoryChildren, Mine, Selected
<1>2. i \in Ids /\ (listings[d] # NoListing => i = listings[d])
  BY <1>1 DEF Mine, Tree!Unused, TreeIInv, TreeTyped
<1>3. /\ listings \in [Dirs -> Ids \cup {NoListing}] /\ listing \in [Ids -> Listing]
      /\ active \in Ids \cup {NoListing} /\ generation \in Nat /\ requests \in Seq(Request)
  BY DEF TreeIInv, TreeTyped
<1>4. \A j \in Ids : listing[j] \in Listing /\ listing[j].dir \in Dirs
  BY <1>3 DEF Listing
<1>5. Tree!Resets(d) => a \in Ids /\ listings[listing[a].dir] = a /\ a # i /\ listing[a].dir # d
  BY <1>1, <1>2, <1>3 DEF Tree!Resets, Mine, Tree!Unused
<1> DEFINE empty == [listing[a] EXCEPT !.entries = <<>>, !.error = FALSE]
           c     == Tree!Cancelled(d)
<1>6. a \in Ids => /\ empty \in Listing
                   /\ empty.dir = listing[a].dir /\ empty.load = listing[a].load
                   /\ empty.next = listing[a].next /\ empty.complete = listing[a].complete
                   /\ empty.generation = listing[a].generation
  BY <1>4, EmptySeq DEF Listing
<1>7. /\ Tree!Resets(d) => c = [listing EXCEPT ![a] = empty]
      /\ ~Tree!Resets(d) => c = listing
  BY <1>3, <1>5 DEF Tree!Cancelled
<1> HIDE DEF empty, c, i, ls
<1>8. /\ c \in [Ids -> Listing]
      /\ \A j \in Ids : (Tree!Resets(d) => j # a) => c[j] = listing[j]
      /\ \A j \in Ids : /\ c[j].dir = listing[j].dir /\ c[j].load = listing[j].load
                        /\ c[j].next = listing[j].next /\ c[j].complete = listing[j].complete
                        /\ c[j].generation = listing[j].generation
  BY <1>3, <1>5, <1>6, <1>7
<1>9. ls = [c EXCEPT ![i] = IF listings[d] = NoListing THEN Tree!ListingOf(d) ELSE c[i]]
  BY DEF ls, Selected, c, i
<1>10. /\ ls \in [Ids -> Listing]
       /\ \A j \in Ids : j # i => ls[j] = c[j]
       /\ listings[d] = NoListing => ls[i] = Tree!ListingOf(d)
       /\ listings[d] # NoListing => ls[i] = listing[i]
  BY <1>2, <1>3, <1>5, <1>8, <1>9, FreshListing
<1>11. /\ Tree!ListingOf(d).load = "no" /\ Tree!ListingOf(d).dir = d /\ Ordered(Tree!ListingOf(d))
       /\ ~Tree!ListingOf(d).complete
  BY <1>3, FreshListing
<1>12. listings[d] = NoListing => listing[i].load = "no"
  BY <1>1, <1>2 DEF Tree!Unused, Tree!Live
<1>13. /\ listings' \in [Dirs -> Ids \cup {NoListing}]
       /\ listings'[d] = i
       /\ \A e \in Dirs : e # d => listings'[e] \in {NoListing, listings[e]}
       /\ Tree!Resets(d) => listings'[listing[a].dir] = NoListing
  BY <1>1, <1>2, <1>3, <1>4, <1>5 DEF Tree!Forgotten
<1>14. Answerable(requests, ls)
  <2>1. \A n \in 1 .. Len(requests) : requests[n].id \in Ids
    BY <1>3, RequestsNameListings
  <2>2. \A n \in 1 .. Len(requests) : listing[requests[n].id].load = "queued"
    BY DEF TreeIInv, Answerable
  <2>3. \A n \in 1 .. Len(requests) :
          /\ ls[requests[n].id].load = listing[requests[n].id].load
          /\ ls[requests[n].id].next = listing[requests[n].id].next
    BY <1>8, <1>10, <1>12, <2>1, <2>2
  <2> QED
    BY <2>3 DEF TreeIInv, Answerable
<1>15. Rests(ls)
  BY <1>8, <1>10, <1>11 DEF TreeIInv, Rests
<1>16. ls[i].dir = d /\ Ordered(ls[i])
  BY <1>2, <1>10, <1>11, NoListingIsNoId DEF TreeIInv, InOrder
<1>17. InOrder(listings', ls)
  <2> SUFFICES ASSUME NEW e \in Dirs, listings'[e] # NoListing
               PROVE  ls[listings'[e]].dir = e /\ Ordered(ls[listings'[e]])
    BY DEF InOrder
  <2>1. CASE e = d
    BY <1>13, <1>16, <2>1
  <2>2. CASE e # d
    <3>1. listings[e] = listings'[e] /\ listings[e] \in Ids
      BY <1>3, <1>13, <2>2
    <3>2. listing[listings[e]].dir = e /\ Ordered(listing[listings[e]])
      BY <3>1 DEF TreeIInv, InOrder
    <3>3. listings[e] # i
      BY <1>1, <1>2, <2>2, <3>1, <3>2 DEF TreeIInv, InOrder, Tree!Unused
    <3>4. Tree!Resets(d) => listings[e] # a
      BY <1>13, <3>1, <3>2
    <3>5. ls[listings[e]] = listing[listings[e]]
      BY <1>8, <1>10, <3>1, <3>3, <3>4
    <3> QED
      BY <3>1, <3>2, <3>5
  <2> QED
    BY <2>1, <2>2
<1>18. Alone(listings', ls, active')
  <2> SUFFICES ASSUME NEW j \in Ids, ls[j].load # "no", ls[j].generation = generation,
                      listings'[ls[j].dir] = j
               PROVE  j = active'
    BY DEF Alone
  <2>1. CASE j = i
    <3>1. ~ls[i].complete
      BY <1>15, <2>1 DEF Rests
    <3> QED
      BY <1>1, <2>1, <3>1 DEF i, ls
  <2>2. CASE j # i
    <3>1. ls[j] = c[j] /\ ls[j].dir = listing[j].dir /\ listing[j].load # "no"
      BY <1>8, <1>10, <2>2
    <3>2. listing[j].dir # d /\ listings[listing[j].dir] = j
      BY <1>4, <1>13, <2>2, <3>1, NoListingIsNoId
    <3>3. j = a
      BY <1>8, <3>1, <3>2 DEF TreeIInv, OneCursor, IsCurrentListing
    <3>4. ~listing[a].complete
      BY <3>1, <3>3 DEF TreeIInv, Rests
    <3>5. a # listings[d]
      BY <1>2, <1>3, <2>2, <3>3, NoListingIsNoId
    <3>6. Tree!Resets(d)
      BY <3>2, <3>3, <3>4, <3>5, NoListingIsNoId DEF Tree!Resets
    <3> QED
      BY <1>13, <3>1, <3>3, <3>6, NoListingIsNoId
  <2> QED
    BY <2>1, <2>2
<1>19. active' \in Ids \cup {NoListing} /\ (~ls[i].complete => active' = i)
  BY <1>1, <1>2, <1>3 DEF i, ls
<1> QED
  BY <1>1, <1>2, <1>10, <1>13, <1>14, <1>15, <1>17, <1>18, <1>19 DEF i, ls

LEMMA GetDirectoryChildrenKeeps ==
  ASSUME TreeIInv, NEW d \in Dirs, Tree!GetDirectoryChildren(d)
  PROVE  TreeIInv'
<1> DEFINE i == Mine(d)  ls == Selected(d)
<1>1. /\ i \in Ids /\ generation' = generation /\ active' \in Ids \cup {NoListing}
      /\ listings' \in [Dirs -> Ids \cup {NoListing}] /\ ls \in [Ids -> Listing]
      /\ Answerable(requests, ls) /\ Rests(ls) /\ InOrder(listings', ls)
      /\ Alone(listings', ls, active') /\ (~ls[i].complete => active' = i)
  BY SelectionKeeps
<1>2. \/ listing' = ls /\ requests' = requests
      \/ ~ls[i].complete /\ Tree!LoadNextPage(ls, i)
  BY DEF Tree!GetDirectoryChildren, Mine, Selected
<1> HIDE DEF i, ls
<1>3. CASE listing' = ls /\ requests' = requests
  <2>1. TreeTyped'
    BY <1>1, <1>3 DEF TreeIInv, TreeTyped
  <2>2. OneCursor'
    BY <1>1, <1>3 DEF Alone, OneCursor, IsCurrentListing
  <2> QED
    BY <1>1, <1>3, <2>1, <2>2 DEF TreeIInv
<1>4. CASE ~ls[i].complete /\ Tree!LoadNextPage(ls, i)
  <2>1. /\ listing' \in [Ids -> Listing] /\ requests' \in Seq(Request)
        /\ Answerable(requests', listing') /\ Rests(listing')
        /\ \A j \in Ids : j # i => listing'[j] = ls[j]
        /\ \A j \in Ids : /\ listing'[j].dir = ls[j].dir /\ listing'[j].entries = ls[j].entries
                          /\ listing'[j].next = ls[j].next /\ listing'[j].complete = ls[j].complete
                          /\ listing'[j].error = ls[j].error /\ listing'[j].cut = ls[j].cut
                          /\ listing'[j].generation = ls[j].generation
    BY <1>1, <1>4, Loads DEF TreeIInv, TreeTyped
  <2>2. TreeTyped'
    BY <1>1, <2>1 DEF TreeIInv, TreeTyped
  <2>3. InOrder(listings, listing)'
    BY <1>1, <2>1 DEF InOrder, Ordered
  <2>4. OneCursor'
    BY <1>1, <1>4, <2>1 DEF Alone, OneCursor, IsCurrentListing
  <2> QED
    BY <2>1, <2>2, <2>3, <2>4 DEF TreeIInv
<1> QED
  BY <1>2, <1>3, <1>4

-----------------------------------------------------------------------------
(* A page is settled.                                                      *)
LEMMA LoadedIsOrdered ==
  ASSUME TreeIInv, NEW i \in Ids, NEW result \in {"page", "failure", "blocked"},
         IsCurrentListing(i)
  PROVE  /\ Tree!Loaded(i, listing[i].next, result) \in Listing
         /\ Ordered(Tree!Loaded(i, listing[i].next, result))
<1> DEFINE l == listing[i]  n == Len(l.entries)
<1>1. l \in Listing /\ l.dir \in Dirs /\ l.entries \in Seq(Nat) /\ Pages[l.dir] \in Nat \ {0}
  BY ExplorerAssumption DEF TreeIInv, TreeTyped, Listing
<1>2. Ordered(l) /\ n \in Nat /\ l.next = n
  <2>1. listings[l.dir] = i /\ i # NoListing
    BY NoListingIsNoId DEF IsCurrentListing
  <2>2. Ordered(l) /\ n \in Nat
    BY <1>1, <2>1, LenProperties DEF TreeIInv, InOrder
  <2> QED
    BY <2>2 DEF Ordered
<1> HIDE DEF l
<1>3. CASE result = "page"
  <2> DEFINE more == Append(l.entries, n + 1)
             new  == [dir |-> l.dir, entries |-> more, next |-> n + 1,
                      complete |-> n + 1 = Pages[l.dir], generation |-> l.generation,
                      load |-> "no", error |-> l.error, cut |-> l.cut]
  <2>1. /\ more \in Seq(Nat) /\ Len(more) = n + 1
        /\ more = [k \in 1 .. n + 1 |-> k]
    <3>1. /\ more \in Seq(Nat) /\ Len(more) = n + 1 /\ more[n + 1] = n + 1
          /\ \A k \in 1 .. n : more[k] = l.entries[k]
      BY <1>1, <1>2, AppendProperties
    <3>2. \A k \in 1 .. n : l.entries[k] = k
      BY <1>2 DEF Ordered
    <3>3. more = [k \in 1 .. n + 1 |-> more[k]]
      BY <3>1
    <3>4. \A k \in 1 .. n + 1 : more[k] = k
      BY <1>2, <3>1, <3>2
    <3> QED
      BY <3>1, <3>3, <3>4
  <2> HIDE DEF more
  <2>2. Tree!Loaded(i, l.next, result) = new
    BY <1>1, <1>2, <1>3 DEF Tree!Loaded, Listing, l, more
  <2>3. new \in Listing /\ Ordered(new)
    BY <1>1, <1>2, <2>1 DEF Listing, Ordered
  <2> QED
    BY <2>2, <2>3 DEF l
<1>4. CASE result # "page"
  <2> DEFINE new == [dir |-> l.dir, entries |-> l.entries, next |-> l.next, complete |-> TRUE,
                     generation |-> l.generation, load |-> "no",
                     error |-> result = "failure", cut |-> result = "blocked"]
  <2>1. Tree!Loaded(i, l.next, result) = new
    BY <1>1, <1>4 DEF Tree!Loaded, Listing, l
  <2>2. new \in Listing /\ (new.error \/ new.cut)
    BY <1>1, <1>4 DEF Listing
  <2>3. new.entries = l.entries /\ new.next = l.next
    OBVIOUS
  <2> HIDE DEF new
  <2>4. Ordered(new)
    BY <1>2, <2>2, <2>3 DEF Ordered
  <2> QED
    BY <2>1, <2>2, <2>4 DEF l
<1> QED
  BY <1>3, <1>4

LEMMA LoadedKeeps ==
  ASSUME TreeIInv, NEW i \in Ids, NEW result \in {"page", "failure", "blocked"}
  PROVE  LET new == Tree!Loaded(i, listing[i].next, result) IN
         /\ new \in Listing /\ new.load = "no"
         /\ new.dir = listing[i].dir /\ new.generation = listing[i].generation
         /\ listings[listing[i].dir] = i => Ordered(new)
<1>1. listing[i] \in Listing
  BY DEF TreeIInv, TreeTyped
<1>2. CASE IsCurrentListing(i)
  <2>1. /\ Tree!Loaded(i, listing[i].next, result).load = "no"
        /\ Tree!Loaded(i, listing[i].next, result).dir = listing[i].dir
        /\ Tree!Loaded(i, listing[i].next, result).generation = listing[i].generation
    BY <1>1 DEF Tree!Loaded, Listing
  <2> QED
    BY <1>2, <2>1, LoadedIsOrdered
<1>3. CASE ~IsCurrentListing(i)
  <2> DEFINE new == [listing[i] EXCEPT !.load = "no"]
  <2>1. Tree!Loaded(i, listing[i].next, result) = new
    BY <1>3 DEF Tree!Loaded
  <2>2. /\ new \in Listing /\ new.load = "no"
        /\ new.dir = listing[i].dir /\ new.generation = listing[i].generation
        /\ new.entries = listing[i].entries /\ new.next = listing[i].next
        /\ new.complete = listing[i].complete /\ new.error = listing[i].error
        /\ new.cut = listing[i].cut
    BY <1>1 DEF Listing
  <2>3. ASSUME listings[listing[i].dir] = i PROVE Ordered(listing[i])
    BY <1>1, <2>3, NoListingIsNoId DEF TreeIInv, InOrder, Listing
  <2>4. Ordered(listing[i]) => Ordered(new)
    BY <2>2 DEF Ordered
  <2> QED
    BY <2>1, <2>2, <2>3, <2>4
<1> QED
  BY <1>2, <1>3

(* The queue behind the page, and the listing asks on or rests.            *)
LEMMA SettleKeeps ==
  ASSUME TreeIInv, NEW i \in Ids, NEW result \in {"page", "failure", "blocked"},
         Tree!Settle(i, listing[i].next, result),
         NEW rest \in Seq(Request),
         rest = IF result = "blocked" THEN requests ELSE Tail(requests),
         Answerable(rest, listing), NoRequest(rest, i)
  PROVE  TreeIInv'
<1> DEFINE new  == Tree!Loaded(i, listing[i].next, result)
           more == Tree!IsActiveListing(i) /\ ~new.complete
           load == IF blocked THEN "blocked" ELSE "queued"
           asks == [new EXCEPT !.load = load]
<1>1. /\ UNCHANGED <<generation, listings, active, blocked>>
      /\ more => /\ listing' = [listing EXCEPT ![i] = asks]
                 /\ requests' = IF blocked THEN rest
                                ELSE Append(rest, [id |-> i, offset |-> new.next])
      /\ ~more => listing' = [listing EXCEPT ![i] = new] /\ requests' = rest
  BY DEF Tree!Settle
<1>2. /\ new \in Listing /\ new.load = "no"
      /\ new.dir = listing[i].dir /\ new.generation = listing[i].generation
      /\ listings[listing[i].dir] = i => Ordered(new)
  BY LoadedKeeps
<1>3. /\ listing \in [Ids -> Listing] /\ listings \in [Dirs -> Ids \cup {NoListing}]
  BY DEF TreeIInv, TreeTyped
<1> HIDE DEF new
<1>4. /\ asks \in Listing /\ asks.load = load
      /\ asks.dir = new.dir /\ asks.generation = new.generation /\ asks.next = new.next
      /\ asks.complete = new.complete /\ Ordered(asks) = Ordered(new)
  <2>1. load \in {"no", "queued", "blocked"}
    OBVIOUS
  <2> HIDE DEF load
  <2>2. /\ asks \in Listing /\ asks.load = load
        /\ asks.dir = new.dir /\ asks.generation = new.generation /\ asks.next = new.next
        /\ asks.complete = new.complete /\ asks.entries = new.entries
        /\ asks.error = new.error /\ asks.cut = new.cut
    BY <1>2, <2>1 DEF Listing
  <2> QED
    BY <2>2 DEF Ordered
<1> HIDE DEF asks
<1> DEFINE l == listing'[i]
<1>5. /\ l = IF more THEN asks ELSE new
      /\ listing' \in [Ids -> Listing] /\ \A j \in Ids \ {i} : listing'[j] = listing[j]
  BY <1>1, <1>2, <1>3, <1>4
<1>6. /\ l.dir = listing[i].dir /\ l.generation = listing[i].generation
      /\ listings[listing[i].dir] = i => Ordered(l)
      /\ l.load # "no" => more
      /\ l.complete => l.load = "no"
  BY <1>2, <1>4, <1>5
<1>7. SameBut(i, listing, listing')
  BY <1>5 DEF SameBut
<1>8. requests' \in Seq(Request) /\ Answerable(requests', listing')
  <2>1. CASE more /\ ~blocked
    <3>1. /\ listing'[i].load = "queued" /\ listing'[i].next = new.next /\ new.next \in Nat
      BY <1>2, <1>4, <1>5, <2>1 DEF Listing
    <3>2. requests' = Append(rest, [id |-> i, offset |-> listing'[i].next])
      BY <1>1, <2>1, <3>1
    <3> HIDE DEF l, more, load
    <3> QED
      BY <1>7, <3>1, <3>2, AddsRequest
  <2>2. CASE ~(more /\ ~blocked)
    BY <1>1, <1>7, <2>2, KeepsRequests
  <2> QED
    BY <2>1, <2>2
<1>9. TreeTyped'
  BY <1>1, <1>5, <1>8 DEF TreeIInv, TreeTyped
<1>10. Rests(listing)'
  BY <1>5, <1>6 DEF TreeIInv, Rests
<1>11. InOrder(listings, listing)'
  <2> SUFFICES ASSUME NEW d \in Dirs, listings[d] # NoListing
               PROVE  listing'[listings[d]].dir = d /\ Ordered(listing'[listings[d]])
    BY <1>1 DEF InOrder
  <2>1. listing[listings[d]].dir = d /\ Ordered(listing[listings[d]]) /\ listings[d] \in Ids
    BY <1>3 DEF TreeIInv, InOrder
  <2> QED
    BY <1>5, <1>6, <2>1
<1>12. OneCursor'
  BY <1>1, <1>5, <1>6 DEF TreeIInv, OneCursor, IsCurrentListing, Tree!IsActiveListing
<1> QED
  BY <1>8, <1>9, <1>10, <1>11, <1>12 DEF TreeIInv

LEMMA PageArrivesKeeps == TreeIInv /\ Tree!PageArrives => TreeIInv'
<1> SUFFICES ASSUME TreeIInv, Tree!PageArrives PROVE TreeIInv'
  OBVIOUS
<1> DEFINE r == Head(requests)
<1>1. /\ requests \in Seq(Request) /\ Answerable(requests, listing) /\ requests # <<>>
  BY DEF TreeIInv, TreeTyped, Tree!PageArrives
<1>2. PICK result \in {"page", "failure"} : Tree!Settle(r.id, r.offset, result)
  BY DEF Tree!PageArrives
<1>3. /\ r \in Request /\ Tail(requests) \in Seq(Request) /\ r.offset = listing[r.id].next
      /\ Answerable(Tail(requests), listing) /\ NoRequest(Tail(requests), r.id)
  BY <1>1, TakesRequest
<1>4. r.id \in Ids /\ Tree!Settle(r.id, listing[r.id].next, result)
  BY <1>2, <1>3 DEF Request
<1> HIDE DEF r
<1> QED
  BY <1>3, <1>4, SettleKeeps

LEMMA BlockedPageKeeps ==
  ASSUME TreeIInv, NEW i \in Ids, Tree!BlockedPage(i)
  PROVE  TreeIInv'
<1>1. /\ requests \in Seq(Request) /\ Answerable(requests, listing)
      /\ listing[i].load = "blocked" /\ Tree!Settle(i, listing[i].next, "blocked")
  BY DEF TreeIInv, TreeTyped, Tree!BlockedPage
<1>2. NoRequest(requests, i)
  BY <1>1, NoneQueued
<1> QED
  BY <1>1, <1>2, SettleKeeps

-----------------------------------------------------------------------------
LEMMA Untouched ==
  ASSUME TreeIInv, UNCHANGED Tree!provider
  PROVE  TreeIInv'
BY DEF TreeIInv, TreeTyped, Answerable, Rests, InOrder, Ordered, OneCursor, IsCurrentListing, Tree!provider

LEMMA ResumeListingKeeps ==
  ASSUME TreeIInv, NEW d \in Dirs, Tree!ResumeListing(d)
  PROVE  TreeIInv'
BY DEF Tree!ResumeListing, TreeIInv, TreeTyped, Answerable, Rests, InOrder, Ordered, OneCursor, IsCurrentListing

LEMMA StepKeeps == TreeIInv /\ [Tree!Next]_Tree!vars => TreeIInv'
<1> SUFFICES ASSUME TreeIInv, [Tree!Next]_Tree!vars PROVE TreeIInv'
  OBVIOUS
<1>1. CASE Tree!SetConnectionState
  BY <1>1, RefreshKeeps DEF Tree!SetConnectionState
<1>2. CASE Tree!RefreshExplorer
  BY <1>2, RefreshKeeps DEF Tree!RefreshExplorer
<1>3. CASE Tree!SetBlocked
  BY <1>3, Untouched DEF Tree!SetBlocked
<1>4. ASSUME NEW d \in Dirs, Tree!ResumeListing(d) PROVE TreeIInv'
  BY <1>4, ResumeListingKeeps
<1>5. ASSUME NEW d \in Dirs, Tree!GetChildren(d) PROVE TreeIInv'
  BY <1>5, Untouched, GetDirectoryChildrenKeeps DEF Tree!GetChildren
<1>6. CASE Tree!PageArrives
  BY <1>6, PageArrivesKeeps
<1>7. ASSUME NEW i \in Ids, Tree!BlockedPage(i) PROVE TreeIInv'
  BY <1>7, BlockedPageKeeps
<1>8. CASE UNCHANGED Tree!vars
  BY <1>8, Untouched DEF Tree!vars
<1> QED
  BY <1>1, <1>2, <1>3, <1>4, <1>5, <1>6, <1>7, <1>8 DEF Tree!Next

-----------------------------------------------------------------------------
(* Every state of every behaviour satisfies the invariant.                 *)
THEOREM TreeInvariant == Tree!Spec => []TreeIInv
<1> USE DEF Tree!Spec
<1>1. Tree!Init => TreeIInv
  BY InitEstablishes
<1>2. TreeIInv /\ [Tree!Next]_Tree!vars => TreeIInv'
  BY StepKeeps
<1> QED
  BY <1>1, <1>2, PTL

(* Whichever folders are visited, left and refreshed, and however pages    *)
(* fail or are blocked on the way: a listing holds its folder's pages in   *)
(* order, none twice, and one that ended well is whole (loadNextPage,      *)
(* cancelListing and refresh of treeProvider.ts).                          *)
THEOREM ListingsAreInOrder == Tree!Spec => []PagesInOrder
<1>1. TreeIInv => PagesInOrder
  <2> SUFFICES ASSUME TreeIInv, NEW d \in Dirs, listings[d] # NoListing
               PROVE  LET l == listing[listings[d]] IN
                      /\ l.dir = d
                      /\ l.entries = [k \in 1 .. Len(l.entries) |-> k]
                      /\ l.next = Len(l.entries)
                      /\ l.complete /\ ~l.error /\ ~l.cut => Len(l.entries) = Pages[d]
    BY DEF PagesInOrder
  <2>1. listing[listings[d]].dir = d /\ Ordered(listing[listings[d]])
    BY DEF TreeIInv, InOrder
  <2> QED
    BY <2>1 DEF Ordered
<1> QED
  BY <1>1, TreeInvariant, PTL

(* No two folders page through the board's one directory cursor            *)
(* (getDirectoryChildren, isActiveListing).                                *)
THEOREM OneListingHasTheCursor == Tree!Spec => []OneCursor
<1>1. TreeIInv => OneCursor
  BY DEF TreeIInv
<1> QED
  BY <1>1, TreeInvariant, PTL
==============================================================================
