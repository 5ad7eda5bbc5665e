---------------------------- MODULE UsbLinkProofs ----------------------------
(***************************************************************************)
(* Theorems about UsbLink, for any number of operations, late replies and  *)
(* stale cells: what an exchange takes for its reply is its reply.         *)
(*                                                                         *)
(* Whatever exchange is in progress, what it has read (got) and what is on *)
(* its way to it (line) are one stream, and the stream is in one of four   *)
(* states.  It is Aligned: nothing but the exchange's own command or its   *)
(* own reply.  A marker is coming (MarkerAsked, MarkerComing): everything  *)
(* before it is skipped by the Sync in progress.  The version is still to  *)
(* come (VersionFirst), where no Sync follows at once: Negotiate goes on   *)
(* to the capabilities, whose header check refuses the version and is      *)
(* followed by a Sync.  Or it is Shifted: nothing is known but that there  *)
(* is no marker in it, so that the next Sync stops at its own; that is the *)
(* state while a Sync is missing (Doubtful).                               *)
(*                                                                         *)
(* LinkHypothesis says where the argument ends: a Sync given up while its  *)
(* marker is still to come, or a version that looks like capabilities.     *)
(* TLC then finds the properties violated.                                 *)
(***************************************************************************)
EXTENDS UsbLink, SequenceTheorems, TLAPS

-----------------------------------------------------------------------------
(* The inductive invariant.                                                *)

(* No marker comes late, a late version is no version of the capability    *)
(* protocol, no legacy verdict comes of a late second reply, and a port    *)
(* with stale bytes is negotiated.                                         *)
LinkHypothesis ==
  /\ Slow \cap (Syncs \cup {"caps2"}) = {}
  /\ capProtocolVersion \notin VersionParts \/ "version" \notin Slow
  /\ "negotiate" \in Operations \/ MaxNoise = 0

Cells == [req : Nat, val : Nat]
Commands == [of : Exchanges, arg : Nat, req : Nat]

Typed ==
  /\ inbox \in Seq(Commands) /\ line \in Seq(Cells) /\ got \in Seq(Cells)
  /\ sent \in Nat /\ off \in Nat /\ size \in Nat /\ step \in Exchanges \cup {"idle"}
  /\ turn \in {"drain", "sync", "state"} /\ unsynced \in BOOLEAN /\ exposed \in BOOLEAN

(* What the exchange in progress has read and what is on its way to it.    *)
Stream == got \o line
Unmarked(s) == \A i \in 1 .. Len(s) : s[i].val # Magic
NoSyncs == \A i \in 1 .. Len(inbox) : inbox[i].of \notin Syncs
Expected == RepliesOf([of |-> step, arg |-> off, req |-> sent])
IsReply(s, r) == Len(s) = Len(r) /\ \A i \in 1 .. Len(r) : s[i] = [req |-> sent, val |-> r[i]]

(* Nothing is under way but the exchange in progress.                      *)
Asked ==
  /\ Stream = <<>> /\ Len(inbox) = 1
  /\ inbox[1].of = step /\ inbox[1].req = sent /\ RepliesOf(inbox[1]) = Expected
Answering == inbox = <<>> /\ \E r \in Expected : IsReply(Stream, r) /\ (line = <<>> => r = <<>>)
Aligned == Asked \/ Answering

(* The marker is the last thing to come.                                   *)
MarkerAsked ==
  /\ inbox # <<>> /\ Unmarked(Stream) /\ inbox[Len(inbox)].of = step /\ inbox[Len(inbox)].req = sent
  /\ \A i \in 1 .. Len(inbox) - 1 : inbox[i].of \notin Syncs
MarkerComing ==
  /\ inbox = <<>> /\ line # <<>>
  /\ Stream[Len(Stream)].val = Magic /\ \A i \in 1 .. Len(Stream) - 1 : Stream[i].val # Magic

(* There is no marker to come.                                             *)
Shifted == Unmarked(Stream) /\ NoSyncs

(* The version is still to come, or a part of it: no capabilities.         *)
VersionFirst ==
  /\ Shifted /\ capProtocolVersion \notin VersionParts
  /\ IF Stream = <<>> THEN inbox # <<>> /\ inbox[1].of = "version" ELSE Stream[1].val \in VersionParts

(* Between two operations something may still be to come.                  *)
Doubtful == unsynced \/ turn = "sync"

Pairing ==
  CASE step = "idle" -> /\ got = <<>>
                        /\ IF Doubtful THEN Shifted
                           ELSE inbox = <<>> /\ (line = <<>> \/ (profile.kind = "none" /\ Unmarked(line)))
    [] step \in Syncs -> MarkerAsked \/ MarkerComing
    [] OTHER -> IF unsynced THEN Shifted ELSE Aligned \/ (step = "caps" /\ VersionFirst)

(* Negotiate comes first.                                                  *)
Negotiating == {"sync1", "version", "caps", "sync2", "caps2", "full"}
First ==
  /\ profile.kind = "none" => step \in (Negotiating \ {"full"}) \cup {"idle"} /\ turn = "drain" /\ ~unsynced /\ ~exposed
  /\ step \in Negotiating => ~exposed
  /\ step # "idle" /\ ~exposed => ~unsynced

Progress ==
  /\ First
  /\ step = "stat" => off = 0 /\ out = <<>>
  /\ step \in {"read", "resync", "reread"} /\ ~exposed =>
       size = FileBytes /\ ((off = 0 /\ out = <<>>) \/ (off = Chunk /\ out = <<Word(0)>>))
  /\ step = "tx" /\ ~unsynced => size = 4

Samples == exposed \/ mixed = {}

IInv == Typed /\ Pairing /\ Progress /\ ReadsTheFile /\ NegotiatesTruly /\ Samples

-----------------------------------------------------------------------------
(* Reading from the line.                                                  *)

(* Two parts of a stream make the stream.                                  *)
LEMMA Rejoined ==
  ASSUME NEW c \in Seq(Cells), NEW r \in Seq(Cells), NEW w \in Seq(Cells), Len(w) = Len(c) + Len(r),
         \A i \in 1 .. Len(c) : c[i] = w[i], \A i \in 1 .. Len(r) : r[i] = w[Len(c) + i]
  PROVE  c \o r = w
<1>1. Len(c) \in Nat /\ Len(r) \in Nat
  BY LenProperties
<1>2. /\ c \o r \in Seq(Cells) /\ Len(c \o r) = Len(c) + Len(r)
      /\ \A i \in 1 .. Len(c) + Len(r) : (c \o r)[i] = IF i <= Len(c) THEN c[i] ELSE r[i - Len(c)]
  BY ConcatProperties
<1>3. ASSUME NEW i \in 1 .. Len(w)
      PROVE  (c \o r)[i] = w[i]
  <2>1. CASE i <= Len(c)
    BY <1>1, <1>2, <2>1
  <2>2. CASE ~(i <= Len(c))
    <3>1. i \in Nat /\ i <= Len(c) + Len(r) /\ i > Len(c)
      BY <1>1, <2>2
    <3>2. i - Len(c) \in 1 .. Len(r) /\ Len(c) + (i - Len(c)) = i
      BY <1>1, <3>1
    <3>3. r[i - Len(c)] = w[i]
      BY <3>2
    <3>4. (c \o r)[i] = r[i - Len(c)]
      BY <1>1, <1>2, <3>1
    <3> QED
      BY <3>3, <3>4
  <2> QED
    BY <2>1, <2>2
<1> QED
  BY <1>2, <1>3, SeqEqual

(* port.Read moves cells along the stream.                                 *)
LEMMA Reading ==
  ASSUME NEW g \in Seq(Cells), NEW l \in Seq(Cells), NEW n \in 1 .. Len(l)
  PROVE  LET cells == g \o SubSeq(l, 1, n)
             rest  == SubSeq(l, n + 1, Len(l))
         IN /\ cells \in Seq(Cells) /\ rest \in Seq(Cells)
            /\ Len(cells) = Len(g) + n /\ Len(rest) = Len(l) - n
            /\ g \o l \in Seq(Cells) /\ Len(g \o l) = Len(g) + Len(l)
            /\ cells \o rest = g \o l
            /\ \A i \in 1 .. Len(cells) : cells[i] = (g \o l)[i]
            /\ \A i \in 1 .. Len(rest) : rest[i] = (g \o l)[Len(cells) + i]
<1> DEFINE a == SubSeq(l, 1, n)
           rest == SubSeq(l, n + 1, Len(l))
           cells == g \o a
           w == g \o l
<1>1. Len(l) \in Nat /\ Len(g) \in Nat /\ n \in Nat /\ 1 <= n /\ n <= Len(l)
  BY LenProperties
<1>2. a \in Seq(Cells) /\ Len(a) = n /\ \A i \in 1 .. n : a[i] = l[i]
  BY <1>1, SubSeqProperties
<1>3. rest \in Seq(Cells) /\ Len(rest) = Len(l) - n /\ \A i \in 1 .. Len(l) - n : rest[i] = l[n + i]
  BY <1>1, SubSeqProperties
<1>4. cells \in Seq(Cells) /\ Len(cells) = Len(g) + n
  BY <1>1, <1>2, ConcatProperties
<1>5. \A i \in 1 .. Len(cells) : cells[i] = IF i <= Len(g) THEN g[i] ELSE a[i - Len(g)]
  BY <1>1, <1>2, <1>4, ConcatProperties
<1>6. /\ w \in Seq(Cells) /\ Len(w) = Len(g) + Len(l)
      /\ \A i \in 1 .. Len(g) + Len(l) : w[i] = IF i <= Len(g) THEN g[i] ELSE l[i - Len(g)]
  BY <1>1, ConcatProperties
<1> HIDE DEF a, rest, cells, w
<1>7. \A i \in 1 .. Len(cells) : cells[i] = w[i]
  <2> SUFFICES ASSUME NEW i \in 1 .. Len(cells)
               PROVE  cells[i] = w[i]
    OBVIOUS
  <2>1. i \in Nat /\ 1 <= i /\ i <= Len(g) + n /\ i <= Len(g) + Len(l)
    BY <1>1, <1>4
  <2>2. CASE i <= Len(g)
    BY <1>5, <1>6, <2>1, <2>2
  <2>3. CASE ~(i <= Len(g))
    <3>1. i - Len(g) \in 1 .. n
      BY <1>1, <2>1, <2>3
    <3>2. cells[i] = a[i - Len(g)] /\ w[i] = l[i - Len(g)]
      BY <1>1, <1>5, <1>6, <2>1, <2>3
    <3> QED
      BY <1>2, <3>1, <3>2
  <2> QED
    BY <2>2, <2>3
<1>8. \A i \in 1 .. Len(rest) : rest[i] = w[Len(cells) + i]
  <2> SUFFICES ASSUME NEW i \in 1 .. Len(rest)
               PROVE  rest[i] = w[Len(cells) + i]
    OBVIOUS
  <2>1. i \in Nat /\ 1 <= i /\ i <= Len(l) - n
    BY <1>1, <1>3
  <2>2. rest[i] = l[n + i]
    BY <1>1, <1>3, <2>1
  <2>3. /\ Len(cells) + i \in 1 .. Len(g) + Len(l) /\ ~(Len(cells) + i <= Len(g))
        /\ Len(cells) + i - Len(g) = n + i
    BY <1>1, <1>4, <2>1
  <2>4. w[Len(cells) + i] = l[n + i]
    BY <1>6, <2>3
  <2> QED
    BY <2>2, <2>4
<1>9. cells \o rest = w
  <2>1. Len(w) = Len(cells) + Len(rest)
    BY <1>1, <1>3, <1>4, <1>6
  <2> QED
    BY <1>3, <1>4, <1>6, <1>7, <1>8, <2>1, Rejoined
<1> QED
  BY <1>3, <1>4, <1>6, <1>7, <1>8, <1>9 DEF cells, rest, w, a

(* The values of a sequence of cells.                                      *)
LEMMA Values ==
  ASSUME NEW s \in Seq(Cells)
  PROVE  /\ Val(s) \in Seq(Nat) /\ Len(Val(s)) = Len(s)
         /\ \A i \in 1 .. Len(s) : Val(s)[i] = s[i].val /\ s[i] \in Cells /\ s[i].val \in Nat
<1>1. DOMAIN s = 1 .. Len(s) /\ Len(s) \in Nat
  BY LenProperties
<1>2. \A i \in 1 .. Len(s) : s[i] \in Cells
  BY ElementOfSeq
<1>3. \A i \in 1 .. Len(s) : s[i].val \in Nat
  BY <1>2 DEF Cells
<1> QED
  BY <1>1, <1>2, <1>3 DEF Val

(* What the board may answer with: a Sync by the marker, no other command. *)
Plain(r) == r \in Seq(Nat) /\ \A i \in 1 .. Len(r) : r[i] # Magic

(* The replies' shapes.                                                    *)
LEMMA PlainTuples ==
  /\ Plain(<<>>) /\ \A a \in Nat \ {Magic} : Plain(<<a>>) /\ <<a>> # <<>>
  /\ Plain(<<0, 0, 0>>) /\ <<0, 0, 0>> # <<>>
  /\ \A a \in Nat \ {Magic} : Plain(<<0, Chunk, 0, a>>) /\ <<0, Chunk, 0, a>> # <<>>
  /\ \A a, b, c \in Nat \ {Magic} : Plain(<<a, b, c>>) /\ <<a, b, c>> # <<>>
<1> USE DEF Plain, Magic, Big, Chunk
<1>1. Plain(<<>>)
  OBVIOUS
<1>2. \A a \in Nat \ {Magic} : Plain(<<a>>) /\ <<a>> # <<>>
  OBVIOUS
<1>3. Plain(<<0, 0, 0>>) /\ <<0, 0, 0>> # <<>>
  OBVIOUS
<1>4. \A a \in Nat \ {Magic} : Plain(<<0, Chunk, 0, a>>) /\ <<0, Chunk, 0, a>> # <<>>
  OBVIOUS
<1>5. \A a, b, c \in Nat \ {Magic} : Plain(<<a, b, c>>) /\ <<a, b, c>> # <<>>
  OBVIOUS
<1> QED
  BY <1>1, <1>2, <1>3, <1>4, <1>5

(* A version is made of small numbers.                                     *)
LEMMA Versions ==
  ASSUME NEW c \in Commands, c.of = "version", NEW r \in RepliesOf(c)
  PROVE  \E x, y, z \in VersionParts : r = <<x, y, z>> /\ Len(r) = 3 /\ r[1] = x /\ r[2] = y /\ r[3] = z
<1>1. r \in VersionParts \X VersionParts \X VersionParts
  BY DEF RepliesOf, Syncs
<1>2. PICK x, y, z \in VersionParts : r = <<x, y, z>>
  BY <1>1
<1>3. Len(r) = 3 /\ r[1] = x /\ r[2] = y /\ r[3] = z
  BY <1>2
<1> QED
  BY <1>2, <1>3

LEMMA PartsAreSmall == VersionParts \subseteq Nat \ {Magic}
  BY ConstantsAssumption DEF Magic, Big

(* The marker answers every Sync and nothing else; only a transmit buffer  *)
(* may be answered by nothing.                                             *)
LEMMA Answers ==
  ASSUME NEW c \in Commands, NEW r \in RepliesOf(c)
  PROVE  /\ r \in Seq(Nat)
         /\ c.of \in Syncs => r = <<Magic>>
         /\ c.of \notin Syncs => Plain(r)
         /\ r = <<>> => c.of = "tx"
<1> DEFINE Known == r \in Seq(Nat) /\ (c.of \in Syncs => r = <<Magic>>)
                    /\ (c.of \notin Syncs => Plain(r)) /\ (r = <<>> => c.of = "tx")
<1>0. c.of \in Exchanges /\ c.arg \in Nat
  BY DEF Commands
<1>1. CASE c.of \in Syncs
  <2>1. r = <<Magic>>
    BY <1>1 DEF RepliesOf, Syncs
  <2>2. r \in Seq(Nat) /\ r # <<>>
    BY <2>1 DEF Magic, Big
  <2> QED
    BY <1>1, <2>1, <2>2
<1>2. CASE c.of = "version"
  <2>1. PICK x, y, z \in VersionParts : r = <<x, y, z>>
    BY <1>2, Versions
  <2>3. x \in Nat \ {Magic} /\ y \in Nat \ {Magic} /\ z \in Nat \ {Magic}
    BY PartsAreSmall
  <2>2. Plain(r) /\ r # <<>>
    BY <2>1, <2>3, PlainTuples
  <2> QED
    BY <1>2, <2>2 DEF Syncs, Plain
<1>3. CASE c.of = "caps"
  <2>1. r = <<capProtocolVersion, Flags>>
    BY <1>3 DEF RepliesOf, Syncs
  <2>2. Plain(r) /\ r # <<>>
    BY <2>1 DEF Plain, Magic, Big, capProtocolVersion, Flags
  <2> QED
    BY <1>3, <2>2 DEF Syncs, Plain
<1>4. CASE c.of = "caps2"
  <2>1. r = <<capProtocolVersion, Flags>>
    BY <1>4 DEF RepliesOf, Syncs
  <2>2. Plain(r) /\ r # <<>>
    BY <2>1 DEF Plain, Magic, Big, capProtocolVersion, Flags
  <2> QED
    BY <1>4, <2>2 DEF Syncs, Plain
<1>5. CASE c.of = "full"
  <2>1. r = <<Junk, Junk>>
    BY <1>5 DEF RepliesOf, Syncs
  <2>2. Plain(r) /\ r # <<>>
    BY <2>1 DEF Plain, Magic, Big, Junk
  <2> QED
    BY <1>5, <2>2 DEF Syncs, Plain
<1>6. CASE c.of = "stat"
  <2>1. r = <<0, 0, FileBytes, Junk>>
    BY <1>6 DEF RepliesOf, Syncs
  <2>2. Plain(r) /\ r # <<>>
    BY <2>1 DEF Plain, Magic, Big, FileBytes, Junk
  <2> QED
    BY <1>6, <2>2 DEF Syncs, Plain
<1>7. CASE c.of = "read"
  <2>1. r \in {<<0, Chunk, 0, Word(c.arg)>>, <<0, 0, 0>>}
    BY <1>7 DEF RepliesOf, Syncs
  <2>2. Word(c.arg) \in Nat /\ Word(c.arg) # Magic
    BY <1>0 DEF Word, Magic, Big
  <2>3. Plain(r) /\ r # <<>>
    BY <2>1, <2>2, PlainTuples
  <2> QED
    BY <1>7, <2>3 DEF Syncs, Plain
<1>8. CASE c.of = "reread"
  <2>1. r \in {<<0, Chunk, 0, Word(c.arg)>>, <<0, 0, 0>>}
    BY <1>8 DEF RepliesOf, Syncs
  <2>2. Word(c.arg) \in Nat /\ Word(c.arg) # Magic
    BY <1>0 DEF Word, Magic, Big
  <2>3. Plain(r) /\ r # <<>>
    BY <2>1, <2>2, PlainTuples
  <2> QED
    BY <1>8, <2>3 DEF Syncs, Plain
<1>9. CASE c.of = "txlen"
  <2>1. r \in {<<0>>, <<4>>}
    BY <1>9 DEF RepliesOf, Syncs
  <2>2. Plain(r) /\ r # <<>>
    BY <2>1, PlainTuples DEF Magic, Big, Junk
  <2> QED
    BY <1>9, <2>2 DEF Syncs, Plain
<1>10. CASE c.of = "running"
  <2>1. r \in {<<0>>, <<1>>}
    BY <1>10 DEF RepliesOf, Syncs
  <2>2. Plain(r) /\ r # <<>>
    BY <2>1, PlainTuples DEF Magic, Big, Junk
  <2> QED
    BY <1>10, <2>2 DEF Syncs, Plain
<1>11. CASE c.of = "tx"
  <2>1. r \in {<<>>, <<Junk>>}
    BY <1>11 DEF RepliesOf, Syncs
  <2>2. Plain(r)
    BY <2>1, PlainTuples DEF Magic, Big, Junk
  <2> QED
    BY <1>11, <2>2 DEF Syncs, Plain
<1> QED
  BY <1>0, <1>1, <1>2, <1>3, <1>4, <1>5, <1>6, <1>7, <1>8, <1>9, <1>10, <1>11 DEF Exchanges,
     Syncs

-----------------------------------------------------------------------------
(* The next command.                                                       *)

(* Only what is read from a file depends on a command's argument.          *)
LEMMA SameReplies ==
  ASSUME NEW c \in Commands, NEW d \in Commands, c.of = d.of, c.of \in {"read", "reread"} => c.arg = d.arg
  PROVE  RepliesOf(c) = RepliesOf(d)
<1>1. CASE c.of \in {"read", "reread"}
  BY <1>1 DEF RepliesOf, Syncs
<1>2. CASE c.of \notin {"read", "reread"}
  <2>1. c.of \in Exchanges
    BY DEF Commands
  <2> QED
    BY <1>2, <2>1 DEF RepliesOf, Syncs, Exchanges
<1> QED
  BY <1>1, <1>2

(* A command that is sent joins the queue.                                 *)
LEMMA SendTyped ==
  ASSUME Typed, NEW next \in Exchanges, NEW arg \in Nat, Send(next, arg)
  PROVE  LET c == [of |-> next, arg |-> arg, req |-> sent'] IN
         /\ c \in Commands /\ sent' \in Nat
         /\ inbox' = Append(inbox, c) /\ inbox' \in Seq(Commands) /\ Len(inbox') = Len(inbox) + 1
         /\ inbox'[Len(inbox) + 1] = c /\ \A i \in 1 .. Len(inbox) : inbox'[i] = inbox[i]
         /\ got' = <<>> /\ got' \in Seq(Cells) /\ step' = next
<1> DEFINE c == [of |-> next, arg |-> arg, req |-> sent']
<1>1. sent' \in Nat /\ inbox' = Append(inbox, c) /\ got' = <<>> /\ step' = next
  BY DEF Send, Typed
<1>2. c \in Commands
  BY <1>1 DEF Commands
<1> HIDE DEF c
<1>3. /\ inbox' \in Seq(Commands) /\ Len(inbox') = Len(inbox) + 1
      /\ inbox'[Len(inbox) + 1] = c /\ \A i \in 1 .. Len(inbox) : inbox'[i] = inbox[i]
  BY <1>1, <1>2, AppendProperties DEF Typed
<1>4. got' \in Seq(Cells)
  BY <1>1
<1> QED
  BY <1>1, <1>2, <1>3, <1>4 DEF c

(* Nothing precedes it.                                                    *)
LEMMA AskedAlone ==
  ASSUME Typed, inbox = <<>>, line' = <<>>, NEW next \in Exchanges, NEW arg \in Nat, Send(next, arg),
         off' \in Nat, next \in {"read", "reread"} => arg = off'
  PROVE  Asked'
<1> DEFINE c == [of |-> next, arg |-> arg, req |-> sent']
           d == [of |-> next, arg |-> off', req |-> sent']
<1>1. /\ c \in Commands /\ sent' \in Nat /\ Len(inbox') = Len(inbox) + 1
      /\ inbox'[Len(inbox) + 1] = c /\ got' = <<>> /\ step' = next
  BY SendTyped
<1>2. Len(inbox) = 0
  OBVIOUS
<1>3. Stream' = <<>>
  BY <1>1 DEF Stream
<1>4. RepliesOf(c) = RepliesOf(d)
  BY <1>1, SameReplies DEF Commands
<1>5. Expected' = RepliesOf(d)
  BY <1>1 DEF Expected
<1>6. inbox'[1] = c /\ Len(inbox') = 1
  BY <1>1, <1>2
<1>7. c.of = step' /\ c.req = sent'
  BY <1>1
<1> HIDE DEF c, d
<1> QED
  BY <1>3, <1>4, <1>5, <1>6, <1>7 DEF Asked

(* Nothing is left of an exchange, or nothing with a marker and a Sync is  *)
(* missing or next.                                                        *)
Nothing == inbox = <<>> /\ line' = <<>>
Unclear == Unmarked(line') /\ NoSyncs

LEMMA NothingIsUnclear == Nothing => Unclear
  BY DEF Nothing, Unclear, Unmarked, NoSyncs

(* It is a Sync: nothing with the marker precedes it.                      *)
LEMMA AskedMarker ==
  ASSUME Typed, line' \in Seq(Cells), Unclear, NEW next \in Syncs, Send(next, 0)
  PROVE  MarkerAsked'
<1> DEFINE c == [of |-> next, arg |-> 0, req |-> sent']
<1>1. /\ next \in Exchanges
      /\ inbox' \in Seq(Commands) /\ Len(inbox') = Len(inbox) + 1 /\ got' = <<>> /\ step' = next
      /\ inbox'[Len(inbox) + 1] = c /\ \A i \in 1 .. Len(inbox) : inbox'[i] = inbox[i]
  <2>1. next \in Exchanges
    BY DEF Syncs, Exchanges
  <2> QED
    BY <2>1, SendTyped
<1>2. c.of = step' /\ c.req = sent'
  BY <1>1
<1> HIDE DEF c
<1>3. Len(inbox) \in Nat
  BY DEF Typed
<1>4. Stream' = line'
  BY <1>1 DEF Stream
<1>5. Unmarked(Stream)'
  BY <1>4 DEF Unmarked, Unclear
<1>6. inbox' # <<>> /\ inbox'[Len(inbox')] = c
  BY <1>1, <1>3
<1>7. \A i \in 1 .. Len(inbox') - 1 : inbox'[i].of \notin Syncs
  BY <1>1, <1>3 DEF Unclear, NoSyncs
<1> QED
  BY <1>2, <1>5, <1>6, <1>7 DEF MarkerAsked

-----------------------------------------------------------------------------
(* What follows an exchange.                                               *)

(* The version, late: its first cell is no protocol version of interest.   *)
LateVersion(rest) ==
  /\ capProtocolVersion \notin VersionParts
  /\ \/ inbox = <<>> /\ rest # <<>> /\ rest[1].val \in VersionParts
     \/ rest = <<>> /\ inbox # <<>> /\ inbox[1].of = "version"

(* An exchange has its own reply and leaves nothing; or it leaves no       *)
(* marker, and it failed or was exposed already.                           *)
Outcome(ok, v, rest) ==
  \/ step \in Syncs /\ ok /\ inbox = <<>> /\ rest = <<>>
  \/ step \in Exchanges \ Syncs /\ ok /\ ~unsynced /\ inbox = <<>> /\ rest = <<>> /\ v \in Expected
  \/ /\ step \in Exchanges \ (Syncs \cup {"caps2"})
     /\ ~ok \/ (unsynced /\ v \in Seq(Nat) /\ Len(v) >= Need(v))
     /\ Unmarked(rest) /\ NoSyncs /\ (step = "version" => LateVersion(rest))

(* The operation is over.                                                  *)
LEMMA OverIdles ==
  ASSUME Typed, line' \in Seq(Cells), Over, Nothing \/ (Unclear /\ Doubtful')
  PROVE  /\ Pairing' /\ inbox' \in Seq(Commands) /\ got' \in Seq(Cells) /\ sent' \in Nat
         /\ step' = "idle"
<1>1. inbox' = inbox /\ got' = <<>> /\ sent' = sent /\ step' = "idle"
  BY DEF Over
<1>2. got' \in Seq(Cells) /\ inbox' \in Seq(Commands)
  BY <1>1 DEF Typed
<1>3. Unclear
  BY NothingIsUnclear
<1>4. Stream' = line'
  BY <1>1 DEF Stream
<1>5. Shifted'
  BY <1>1, <1>3, <1>4 DEF Shifted, Unclear, Unmarked, NoSyncs
<1>6. Pairing'
  BY <1>1, <1>5 DEF Pairing, Syncs, Nothing
<1> QED
  BY <1>1, <1>2, <1>6 DEF Typed

(* The next exchange is asked alone, or after what a missing Sync left.    *)
LEMMA NextPairs ==
  ASSUME Typed, line' \in Seq(Cells), NEW next \in Exchanges \ Syncs, NEW arg \in Nat, Send(next, arg),
         off' \in Nat, next \in {"read", "reread"} => arg = off', Nothing \/ (Unclear /\ unsynced')
  PROVE  /\ Pairing' /\ inbox' \in Seq(Commands) /\ got' \in Seq(Cells) /\ sent' \in Nat
         /\ step' = next
<1> DEFINE c == [of |-> next, arg |-> arg, req |-> sent']
<1>1. /\ inbox' \in Seq(Commands) /\ Len(inbox') = Len(inbox) + 1 /\ got' = <<>> /\ step' = next
      /\ got' \in Seq(Cells) /\ sent' \in Nat
      /\ inbox'[Len(inbox) + 1] = c /\ \A i \in 1 .. Len(inbox) : inbox'[i] = inbox[i]
  BY SendTyped
<1>2. c.of \notin Syncs /\ Len(inbox) \in Nat
  BY DEF Typed
<1> HIDE DEF c
<1>3. Unclear
  BY NothingIsUnclear
<1>4. Stream' = line'
  BY <1>1 DEF Stream
<1>5. \A i \in 1 .. Len(inbox') : inbox'[i].of \notin Syncs
  BY <1>1, <1>2, <1>3 DEF Unclear, NoSyncs
<1>6. Shifted'
  BY <1>3, <1>4, <1>5 DEF Shifted, Unclear, Unmarked, NoSyncs
<1>7. Nothing => Asked'
  BY AskedAlone DEF Nothing
<1>8. Nothing => Aligned'
  BY <1>7 DEF Aligned
<1> QED
  BY <1>1, <1>6, <1>8 DEF Pairing, Exchanges, Syncs

(* A Sync is asked after what may still come.                              *)
LEMMA MarkerPairs ==
  ASSUME Typed, line' \in Seq(Cells), Unclear, NEW next \in Syncs, Send(next, 0)
  PROVE  /\ Pairing' /\ inbox' \in Seq(Commands) /\ got' \in Seq(Cells) /\ sent' \in Nat
         /\ step' = next
<1>1. MarkerAsked'
  BY AskedMarker
<1>2. next \in Exchanges
  BY DEF Syncs, Exchanges
<1>3. inbox' \in Seq(Commands) /\ got' \in Seq(Cells) /\ sent' \in Nat /\ step' = next
  BY <1>2, SendTyped
<1> QED
  BY <1>1, <1>3 DEF Pairing, Exchanges, Syncs

(* The capabilities are asked for while the version is still to come.      *)
LEMMA VersionPairs ==
  ASSUME Typed, line' \in Seq(Cells), Unclear, Send("caps", 0), LateVersion(line'), ~unsynced'
  PROVE  /\ Pairing' /\ inbox' \in Seq(Commands) /\ got' \in Seq(Cells) /\ sent' \in Nat
         /\ step' = "caps"
<1> DEFINE c == [of |-> "caps", arg |-> 0, req |-> sent']
<1>0. "caps" \in Exchanges /\ "caps" \notin Syncs
  BY DEF Exchanges, Syncs
<1>1. /\ inbox' \in Seq(Commands) /\ Len(inbox') = Len(inbox) + 1 /\ got' = <<>> /\ step' = "caps"
      /\ got' \in Seq(Cells) /\ sent' \in Nat
      /\ inbox'[Len(inbox) + 1] = c /\ \A i \in 1 .. Len(inbox) : inbox'[i] = inbox[i]
  BY <1>0, SendTyped
<1>2. Len(inbox) \in Nat
  BY DEF Typed
<1>3. c.of \notin Syncs
  BY <1>0
<1> HIDE DEF c
<1>4. \A i \in 1 .. Len(inbox') : inbox'[i].of \notin Syncs
  BY <1>1, <1>2, <1>3 DEF Unclear, NoSyncs
<1>5. Stream' = line'
  BY <1>1 DEF Stream
<1>6. line' = <<>> => inbox' # <<>> /\ inbox'[1].of = "version"
  BY <1>1, <1>2 DEF LateVersion, Typed
<1>7. line' # <<>> => line'[1].val \in VersionParts
  BY DEF LateVersion
<1>8. Shifted'
  BY <1>4, <1>5 DEF Shifted, Unclear, Unmarked, NoSyncs
<1>9. VersionFirst'
  BY <1>5, <1>6, <1>7, <1>8 DEF VersionFirst, LateVersion
<1> QED
  BY <1>0, <1>1, <1>9 DEF Pairing

Kept == Typed /\ Pairing /\ Progress /\ ReadsTheFile /\ NegotiatesTruly

(* Negotiate.                                                              *)
LEMMA NegotiateKeeps ==
  ASSUME Typed, Progress, ReadsTheFile, NegotiatesTruly, NEW ok \in BOOLEAN, NEW v, NEW rest \in Seq(Cells),
         Outcome(ok, v, rest), Note(ok), UNCHANGED exposed,
         Negotiate(ok, v, rest) /\ UNCHANGED <<turn, off, size, out, read>>, step \in Negotiating
  PROVE  Kept'
<1> DEFINE Sent == inbox' \in Seq(Commands) /\ got' \in Seq(Cells) /\ sent' \in Nat /\ line' \in Seq(Cells)
<1>0. ~exposed /\ ~unsynced
  BY DEF Progress, First, Negotiating
<1>1. /\ ReadsTheFile' /\ off' \in Nat /\ size' \in Nat /\ exposed' = exposed /\ turn' = turn
      /\ turn' \in {"drain", "sync", "state"} /\ unsynced' \in BOOLEAN
  BY DEF ReadsTheFile, EveryFileIsRead, Typed, Note
<1>2. SUFFICES /\ Pairing' /\ Sent /\ step' \in (Negotiating \ {"sync1"}) \cup {"idle"}
               /\ ~unsynced' \/ (step = "full" /\ step' = "idle")
               /\ \/ profile' = profile /\ step' # "full"
                  \/ profile' = Profile("v2", Flags)
  <2>1. /\ step' \in Exchanges \cup {"idle"}
        /\ step' \notin {"stat", "read", "resync", "reread", "tx", "sync1"}
    BY <1>2 DEF Exchanges, Negotiating
  <2>2. Typed'
    BY <1>0, <1>1, <1>2, <2>1 DEF Typed
  <2>3. NegotiatesTruly'
    BY <1>2 DEF NegotiatesTruly
  <2>4. profile'.kind = "none" => profile' = profile /\ step' # "full" /\ step # "full" /\ turn = "drain"
    <3>1. Profile("v2", Flags).kind # "none"
      BY DEF Profile
    <3> QED
      BY <1>2, <3>1 DEF Progress, First, Negotiating
  <2>5. First'
    BY <1>0, <1>1, <1>2, <2>4 DEF First, Negotiating
  <2> QED
    BY <1>1, <1>2, <2>1, <2>2, <2>3, <2>5 DEF Kept, Progress
<1>3. Syncs \cap {"version", "caps", "caps2", "full"} = {} /\ {"sync1", "sync2"} \subseteq Syncs
  BY DEF Syncs
<1>4. {"version", "caps", "caps2", "full"} \subseteq Exchanges \ Syncs
  BY DEF Exchanges, Syncs
<1>5. rest \in Seq(Cells) /\ (line' = rest => line' \in Seq(Cells))
  OBVIOUS
<1>12. ok => ~unsynced'
  BY <1>0 DEF Note
<1>13. step \in FollowedBySync => ~unsynced'
  BY <1>0 DEF Note, FollowedBySync, Syncs
<1>6. CASE step = "sync1"
  <2>1. inbox = <<>> /\ rest = <<>> /\ ok
    BY <1>3, <1>6 DEF Outcome
  <2>2. Send("version", 0) /\ line' = rest /\ UNCHANGED profile
    BY <1>6 DEF Negotiate
  <2>3. Nothing
    BY <2>1, <2>2 DEF Nothing
  <2> QED
    BY <1>1, <1>4, <1>5, <1>12, <2>1, <2>2, <2>3, NextPairs DEF Negotiating
<1>7. CASE step = "sync2"
  <2>1. inbox = <<>> /\ rest = <<>> /\ ok
    BY <1>3, <1>7 DEF Outcome
  <2>2. Send("caps2", 0) /\ line' = rest /\ UNCHANGED profile
    BY <1>7, <2>1 DEF Negotiate
  <2>3. Nothing
    BY <2>1, <2>2 DEF Nothing
  <2> QED
    BY <1>1, <1>4, <1>5, <1>12, <2>1, <2>2, <2>3, NextPairs DEF Negotiating
<1>8. CASE step = "version"
  <2>1. Send("caps", 0) /\ line' = rest /\ UNCHANGED profile
    BY <1>8 DEF Negotiate
  <2>4. ~unsynced'
    BY <1>8, <1>13 DEF FollowedBySync
  <2>2. CASE inbox = <<>> /\ rest = <<>>
    <3>1. Nothing
      BY <2>1, <2>2 DEF Nothing
    <3> QED
      BY <1>1, <1>4, <1>5, <2>1, <2>4, <3>1, NextPairs DEF Negotiating
  <2>3. CASE ~(inbox = <<>> /\ rest = <<>>)
    <3>1. Unclear /\ LateVersion(line')
      BY <1>3, <1>8, <2>1, <2>3 DEF Outcome, Unclear
    <3> QED
      BY <1>5, <2>1, <2>4, <3>1, VersionPairs DEF Negotiating
  <2> QED
    BY <2>2, <2>3
<1>9. CASE step \in {"caps", "caps2"} /\ ok
  <2>1. inbox = <<>> /\ rest = <<>> /\ v \in Expected
    BY <1>0, <1>3, <1>9 DEF Outcome
  <2>2. Send("full", 0) /\ line' = rest /\ profile' = Profile("v2", v[2])
    BY <1>9 DEF Negotiate
  <2>3. v = <<capProtocolVersion, Flags>>
    BY <1>3, <1>9, <2>1 DEF Expected, RepliesOf
  <2>4. profile' = Profile("v2", Flags)
    BY <2>2, <2>3
  <2>5. Nothing
    BY <2>1, <2>2 DEF Nothing
  <2> QED
    BY <1>1, <1>4, <1>5, <1>9, <1>12, <2>2, <2>4, <2>5, NextPairs DEF Negotiating
<1>10. CASE step \in {"caps", "caps2"} /\ ~ok
  <2>1. step = "caps" /\ Unmarked(rest) /\ NoSyncs
    BY <1>3, <1>10 DEF Outcome
  <2>2. Send("sync2", 0) /\ line' = rest /\ UNCHANGED profile
    BY <1>10, <2>1 DEF Negotiate
  <2>3. Unclear /\ ~unsynced'
    BY <1>13, <2>1, <2>2 DEF Unclear, FollowedBySync
  <2> QED
    BY <1>3, <1>5, <2>2, <2>3, MarkerPairs DEF Negotiating
<1>11. CASE step = "full"
  <2>1. Over /\ line' = rest /\ UNCHANGED profile
    BY <1>11 DEF Negotiate
  <2>2. Nothing \/ (Unclear /\ unsynced')
    <3>1. CASE ok
      BY <1>0, <1>3, <1>11, <2>1, <3>1 DEF Outcome, Nothing
    <3>2. CASE ~ok
      <4>1. unsynced'
        BY <1>3, <1>11, <3>2 DEF Note, FollowedBySync
      <4> QED
        BY <1>3, <1>11, <2>1, <3>2, <4>1 DEF Outcome, Unclear
    <3> QED
      BY <3>1, <3>2
  <2>3. /\ Pairing' /\ inbox' \in Seq(Commands) /\ got' \in Seq(Cells) /\ sent' \in Nat
        /\ step' = "idle"
    BY <1>5, <2>1, <2>2, OverIdles DEF Doubtful
  <2> QED
    BY <1>5, <1>11, <2>1, <2>3 DEF Negotiating
<1> QED
  BY <1>6, <1>7, <1>8, <1>9, <1>10, <1>11 DEF Negotiating

(* The two words of the file.                                              *)
LEMMA Joined ==
  ASSUME NEW a \in Nat, NEW b \in Nat
  PROVE  <<a>> \o <<b>> = <<a, b>>
<1> DEFINE s == <<a>>
           t == <<b>>
           u == <<a, b>>
<1>1. s \in Seq(Nat) /\ Len(s) = 1 /\ s[1] = a
  OBVIOUS
<1>2. t \in Seq(Nat) /\ Len(t) = 1 /\ t[1] = b
  OBVIOUS
<1>3. u \in Seq(Nat) /\ Len(u) = 2 /\ u[1] = a /\ u[2] = b
  OBVIOUS
<1> HIDE DEF s, t, u
<1>4. /\ s \o t \in Seq(Nat) /\ Len(s \o t) = 2
      /\ \A i \in 1 .. 2 : (s \o t)[i] = IF i <= 1 THEN s[i] ELSE t[i - 1]
  <2>1. /\ s \o t \in Seq(Nat) /\ Len(s \o t) = Len(s) + Len(t)
        /\ \A i \in 1 .. Len(s) + Len(t) : (s \o t)[i] = IF i <= Len(s) THEN s[i] ELSE t[i - Len(s)]
    BY <1>1, <1>2, ConcatProperties
  <2>2. Len(s) + Len(t) = 2
    BY <1>1, <1>2
  <2> QED
    BY <1>1, <2>1, <2>2
<1>5. (s \o t)[1] = a /\ (s \o t)[2] = b
  BY <1>1, <1>2, <1>4
<1>6. \A i \in 1 .. 2 : (s \o t)[i] = u[i]
  <2>1. \A i \in 1 .. 2 : i = 1 \/ i = 2
    OBVIOUS
  <2> QED
    BY <1>3, <1>5, <2>1
<1>7. s \o t = u
  BY <1>3, <1>4, <1>6, SeqEqual
<1> QED
  BY <1>7 DEF s, t, u

(* What an exchange leaves, in one of three cases.                         *)
LEMMA Leaves ==
  ASSUME NEW ok \in BOOLEAN, NEW v, NEW rest, Outcome(ok, v, rest), Note(ok), line' = rest
  PROVE  Unclear /\ (Nothing \/ unsynced' \/ (~ok /\ step \in FollowedBySync))
<1>1. CASE inbox = <<>> /\ rest = <<>>
  BY <1>1, NothingIsUnclear DEF Nothing
<1>2. CASE ~(inbox = <<>> /\ rest = <<>>)
  <2>1. step \notin Syncs /\ Unmarked(rest) /\ NoSyncs /\ (~ok \/ unsynced)
    BY <1>2 DEF Outcome
  <2> QED
    BY <2>1 DEF Unclear, Note
<1> QED
  BY <1>1, <1>2

FileSteps == {"stat", "read", "resync", "reread"}
AtChunk(o, s, b) == s = FileBytes /\ ((o = 0 /\ b = <<>>) \/ (o = Chunk /\ b = <<Word(0)>>))

(* ReadFileAll returns.                                                    *)
LEMMA ReadEnds ==
  ASSUME Typed, Progress, NegotiatesTruly, exposed \/ EveryFileIsRead', NEW ok \in BOOLEAN, NEW v,
         NEW rest \in Seq(Cells), Outcome(ok, v, rest), Note(ok), line' = rest,
         UNCHANGED <<exposed, turn, profile>>, step \in FileSteps, Over, off' \in Nat, size' \in Nat,
         ok \/ step \notin FollowedBySync
  PROVE  Kept'
<1>1. Unclear /\ (Nothing \/ unsynced')
  BY Leaves
<1>2. /\ Pairing' /\ inbox' \in Seq(Commands) /\ got' \in Seq(Cells) /\ sent' \in Nat
      /\ step' = "idle"
  BY <1>1, OverIdles DEF Doubtful
<1>3. ReadsTheFile' /\ NegotiatesTruly' /\ unsynced' \in BOOLEAN
  BY DEF ReadsTheFile, NegotiatesTruly, Note, Typed
<1>4. profile.kind # "none"
  BY DEF Progress, First, FileSteps, Negotiating
<1> QED
  BY <1>2, <1>3, <1>4 DEF Kept, Typed, Progress, First, Negotiating

(* ReadFileAll asks for a chunk.                                           *)
LEMMA ReadGoesOn ==
  ASSUME Typed, Progress, NegotiatesTruly, ReadsTheFile, NEW v, NEW rest \in Seq(Cells),
         Outcome(TRUE, v, rest), Note(TRUE), line' = rest, UNCHANGED <<exposed, turn, profile, read>>,
         step \in FileSteps, NEW next \in {"read", "reread"}, NEW arg, Send(next, arg), arg = off',
         off' \in Nat, size' \in Nat, exposed \/ AtChunk(off', size', out')
  PROVE  Kept'
<1>1. Unclear /\ (Nothing \/ unsynced')
  BY Leaves
<1>2. next \in Exchanges \ Syncs
  BY DEF Exchanges, Syncs
<1>3. /\ Pairing' /\ inbox' \in Seq(Commands) /\ got' \in Seq(Cells) /\ sent' \in Nat
      /\ step' = next
  BY <1>1, <1>2, NextPairs
<1>4. ReadsTheFile' /\ NegotiatesTruly' /\ unsynced' \in BOOLEAN
  BY DEF ReadsTheFile, EveryFileIsRead, NegotiatesTruly, Note, Typed
<1>5. profile.kind # "none" /\ (~exposed => ~unsynced)
  BY DEF Progress, First, FileSteps, Negotiating
<1>6. ~exposed => ~unsynced'
  BY <1>5 DEF Note
<1> QED
  BY <1>2, <1>3, <1>4, <1>5, <1>6 DEF Kept, Typed, Progress, First, Negotiating, AtChunk

(* A chunk is added to what was read, or the file is complete.             *)
LEMMA AfterChunkKeeps ==
  ASSUME Typed, Progress, ReadsTheFile, NegotiatesTruly, NEW v, NEW rest \in Seq(Cells),
         Outcome(TRUE, v, rest), Note(TRUE), line' = rest, UNCHANGED <<exposed, turn, profile>>,
         step \in {"read", "reread"}, DataLen(v) \in Nat, AfterChunk(v)
  PROVE  Kept'
<1> DEFINE data == SubSeq(v, 4, 4)
<1>0. step \in FileSteps /\ off \in Nat /\ size \in Nat
  BY DEF FileSteps, Typed
<1>1. CASE v[1] # 0 \/ DataLen(v) = 0
  <2>1. Failed
    BY <1>1 DEF AfterChunk
  <2>2. Over /\ EveryFileIsRead' /\ UNCHANGED <<off, size, out>>
    BY <2>1 DEF Failed, EveryFileIsRead
  <2> QED
    BY <1>0, <2>2, ReadEnds
<1>2. CASE ~(v[1] # 0 \/ DataLen(v) = 0) /\ exposed
  <2> HIDE DEF data
  <2>1. CASE off + DataLen(v) >= size
    <3>1. Over /\ UNCHANGED <<off, size, out>>
      BY <1>2, <2>1 DEF AfterChunk
    <3> QED
      BY <1>0, <1>2, <3>1, ReadEnds
  <2>2. CASE ~(off + DataLen(v) >= size)
    <3>1. Send("read", off + DataLen(v)) /\ off' = off + DataLen(v) /\ UNCHANGED <<size, read>>
      BY <1>2, <2>2 DEF AfterChunk
    <3>2. off + DataLen(v) \in Nat
      BY <1>0
    <3>3. off' \in Nat /\ size' \in Nat /\ UNCHANGED read
      BY <1>0, <3>1, <3>2
    <3> QED
      BY <1>0, <1>2, <3>1, <3>2, <3>3, ReadGoesOn
  <2> QED
    BY <2>1, <2>2
<1>3. CASE ~(v[1] # 0 \/ DataLen(v) = 0) /\ ~exposed
  <2>1. size = 8 /\ ((off = 0 /\ out = <<>>) \/ (off = 4 /\ out = <<Word(0)>>))
    BY <1>3 DEF Progress, FileBytes, Chunk
  <2>2. ~unsynced /\ step \notin Syncs
    BY <1>3 DEF Progress, First, Syncs
  <2>3. v = <<0, 4, 0, Word(off)>>
    BY <2>1, <2>2 DEF Outcome, Expected, RepliesOf, Syncs, FileBytes, Chunk
  <2>4. v[1] = 0 /\ DataLen(v) = 4
    BY <2>3 DEF DataLen
  <2>5. data = <<Word(off)>>
    <3>1. Word(off) \in Nat
      BY <1>0 DEF Word, Big
    <3>2. v \in Seq(Nat) /\ Len(v) = 4 /\ v[4] = Word(off)
      BY <2>3, <3>1
    <3>3. data \in Seq(Nat) /\ Len(data) = 1 /\ data[1] = v[4]
      <4>1. \A i \in 4 .. 4 : v[i] \in Nat
        BY <3>1, <3>2
      <4> QED
        BY <3>2, <4>1, SubSeqProperties
    <3>4. Len(<<Word(off)>>) = 1 /\ <<Word(off)>>[1] = Word(off) /\ <<Word(off)>> \in Seq(Nat)
      BY <3>1
    <3> HIDE DEF data
    <3>5. \A i \in 1 .. Len(data) : data[i] = <<Word(off)>>[i]
      BY <3>2, <3>3
    <3> QED
      BY <3>3, <3>4, <3>5, SeqEqual
  <2>6. CASE off = 0
    <3>1. ~(off + DataLen(v) >= size)
      BY <2>1, <2>4, <2>6
    <3> HIDE DEF data
    <3>2. Send("read", off + DataLen(v)) /\ off' = off + DataLen(v) /\ out' = out \o data
          /\ UNCHANGED <<size, read>>
      BY <1>3, <3>1 DEF AfterChunk, data
    <3>3. off' = 4 /\ out' = <<Word(0)>>
      BY <2>1, <2>4, <2>5, <2>6, <3>2
    <3>4. AtChunk(off', size', out') /\ off' \in Nat /\ size' \in Nat
      BY <2>1, <3>2, <3>3 DEF AtChunk, FileBytes, Chunk
    <3> QED
      BY <1>0, <3>2, <3>4, ReadGoesOn
  <2>7. CASE off = 4
    <3>1. off + DataLen(v) >= size
      BY <2>1, <2>4, <2>7
    <3> HIDE DEF data
    <3>2. Over /\ read' = out \o data /\ UNCHANGED <<off, size, out>>
      BY <1>3, <3>1 DEF AfterChunk, data
    <3>3. Word(0) \in Nat /\ Word(4) \in Nat
      BY DEF Word, Big
    <3>4. <<Word(0)>> \o <<Word(4)>> = <<Word(0), Word(4)>>
      BY <3>3, Joined
    <3>5. out = <<Word(0)>> /\ data = <<Word(4)>>
      BY <2>1, <2>5, <2>7
    <3>6. read' = File
      BY <3>2, <3>4, <3>5 DEF File
    <3> QED
      BY <1>0, <3>2, <3>6, ReadEnds DEF EveryFileIsRead
  <2> QED
    BY <2>1, <2>6, <2>7
<1> QED
  BY <1>1, <1>2, <1>3

(* The fields of a reply are numbers, its own or not.                      *)
LEMMA Fields ==
  ASSUME Typed, NEW v, NEW rest, Outcome(TRUE, v, rest), step \notin Syncs
  PROVE  /\ step = "stat" => v[3] \in Nat
         /\ step \in {"read", "reread"} => DataLen(v) \in Nat
         /\ step = "txlen" => v[1] \in Nat
<1>1. CASE v \in Expected /\ ~unsynced
  <2>1. step = "stat" => v[3] \in Nat
    BY <1>1 DEF Expected, RepliesOf, Syncs, FileBytes
  <2>2. ASSUME step \in {"read", "reread"}
        PROVE  DataLen(v) \in Nat
    <3>1. v = <<0, Chunk, 0, Word(off)>> \/ v = <<0, 0, 0>>
      BY <1>1, <2>2 DEF Expected, RepliesOf, Syncs
    <3> QED
      BY <3>1 DEF DataLen, Chunk
  <2>3. ASSUME step = "txlen"
        PROVE  v[1] \in Nat
    <3>1. v = <<0>> \/ v = <<4>>
      BY <1>1, <2>3 DEF Expected, RepliesOf, Syncs
    <3> QED
      BY <3>1
  <2> QED
    BY <2>1, <2>2, <2>3
<1>2. CASE v \in Seq(Nat) /\ Len(v) >= Need(v)
  <2>1. \A i \in 1 .. Len(v) : v[i] \in Nat
    BY <1>2, ElementOfSeq
  <2>2. Len(v) \in Nat
    BY <1>2, LenProperties
  <2>3. step = "stat" => Need(v) = 4
    BY DEF Need
  <2>4. step \in {"read", "reread"} => Need(v) \in {3, 4}
    BY DEF Need
  <2>5. step = "txlen" => Need(v) = 1
    BY DEF Need
  <2>6. step = "stat" => v[3] \in Nat
    BY <1>2, <2>1, <2>2, <2>3
  <2>7. step \in {"read", "reread"} => v[2] \in Nat
    BY <1>2, <2>1, <2>2, <2>4
  <2>8. step = "txlen" => v[1] \in Nat
    BY <1>2, <2>1, <2>2, <2>5
  <2> QED
    BY <2>6, <2>7, <2>8 DEF DataLen
<1> QED
  BY <1>1, <1>2 DEF Outcome

(* ReadFileAll.                                                            *)
LEMMA ReadFileAllKeeps ==
  ASSUME Typed, Progress, ReadsTheFile, NegotiatesTruly, NEW ok \in BOOLEAN, NEW v, NEW rest \in Seq(Cells),
         Outcome(ok, v, rest), Note(ok), ReadFileAll(ok, v), line' = rest,
         UNCHANGED <<exposed, turn, profile>>, step \in FileSteps
  PROVE  Kept'
<1>1. off \in Nat /\ size \in Nat
  BY DEF Typed
<1>2. /\ "stat" \notin Syncs /\ "read" \notin Syncs /\ "reread" \notin Syncs /\ "resync" \in Syncs
      /\ FollowedBySync \cap {"stat", "resync", "reread"} = {} /\ "read" \in FollowedBySync
  BY DEF Syncs, FollowedBySync
<1>3. ASSUME Failed, ok \/ step \notin FollowedBySync
      PROVE  Kept'
  <2>1. Over /\ EveryFileIsRead' /\ UNCHANGED <<off, size, out>>
    BY <1>3 DEF Failed, EveryFileIsRead
  <2> QED
    BY <1>1, <1>3, <2>1, ReadEnds
<1>4. CASE step = "stat" /\ ok
  <2>1. v[3] \in Nat /\ AfterStat(v)
    BY <1>2, <1>4, Fields DEF ReadFileAll
  <2>2. exposed \/ v = <<0, 0, 8, Junk>>
    <3>1. ~exposed => ~unsynced
      BY <1>4 DEF Progress, First
    <3> QED
      BY <1>2, <1>4, <3>1 DEF Outcome, Expected, RepliesOf, Syncs, FileBytes
  <2>3. off = 0 /\ out = <<>>
    BY <1>4 DEF Progress
  <2>4. CASE v[1] # 0 \/ v[2] = 1
    BY <1>3, <1>4, <2>1, <2>4 DEF AfterStat
  <2>5. CASE ~(v[1] # 0 \/ v[2] = 1) /\ v[3] = 0
    <3>1. Over /\ size' = 0 /\ UNCHANGED <<off, out>>
      BY <2>1, <2>5 DEF AfterStat
    <3>2. exposed
      <4>1. v = <<0, 0, 8, Junk>> => v[3] = 8
        OBVIOUS
      <4> QED
        BY <2>2, <2>5, <4>1
    <3> QED
      BY <1>1, <1>4, <3>1, <3>2, ReadEnds
  <2>6. CASE ~(v[1] # 0 \/ v[2] = 1) /\ v[3] # 0
    <3>1. Send("read", 0) /\ size' = v[3] /\ UNCHANGED <<off, out, read>>
      BY <2>1, <2>6 DEF AfterStat
    <3>2. exposed \/ AtChunk(off', size', out')
      <4>1. v = <<0, 0, 8, Junk>> => v[3] = 8
        OBVIOUS
      <4> QED
        BY <2>2, <2>3, <3>1, <4>1 DEF AtChunk, FileBytes
    <3> QED
      BY <1>1, <1>4, <2>1, <2>3, <3>1, <3>2, ReadGoesOn
  <2> QED
    BY <2>4, <2>5, <2>6
<1>5. CASE step \in {"stat", "reread"} /\ ~ok
  BY <1>2, <1>3, <1>5 DEF ReadFileAll
<1>6. CASE step \in {"read", "reread"} /\ ok
  <2>1. DataLen(v) \in Nat /\ AfterChunk(v)
    BY <1>2, <1>6, Fields DEF ReadFileAll
  <2> QED
    BY <1>6, <2>1, AfterChunkKeeps
<1>7. CASE step = "read" /\ ~ok
  <2>1. Send("resync", 0) /\ UNCHANGED <<off, size, out, read>>
    BY <1>7 DEF ReadFileAll
  <2>2. Unclear
    BY Leaves
  <2>3. /\ Pairing' /\ inbox' \in Seq(Commands) /\ got' \in Seq(Cells) /\ sent' \in Nat
        /\ step' = "resync"
    BY <1>2, <2>1, <2>2, MarkerPairs
  <2>4. ReadsTheFile' /\ NegotiatesTruly' /\ unsynced' = unsynced
    BY <1>2, <1>7, <2>1 DEF ReadsTheFile, EveryFileIsRead, NegotiatesTruly, Note
  <2>5. profile.kind # "none" /\ (~exposed => ~unsynced)
    BY <1>7 DEF Progress, First, Negotiating
  <2>6. "resync" \in Exchanges
    BY DEF Exchanges
  <2>7. Typed'
    BY <2>1, <2>3, <2>4, <2>6 DEF Typed
  <2>8. Progress'
    BY <1>7, <2>1, <2>3, <2>4, <2>5 DEF Progress, First, Negotiating
  <2> QED
    BY <2>3, <2>4, <2>7, <2>8 DEF Kept
<1>8. CASE step = "resync"
  <2>1. ok
    BY <1>2, <1>8 DEF Outcome
  <2>2. Send("reread", off) /\ UNCHANGED <<off, size, out, read>>
    BY <1>8, <2>1 DEF ReadFileAll
  <2>3. exposed \/ AtChunk(off', size', out')
    BY <1>8, <2>2 DEF Progress, AtChunk
  <2> QED
    BY <1>1, <1>8, <2>1, <2>2, <2>3, ReadGoesOn
<1> QED
  BY <1>4, <1>5, <1>6, <1>7, <1>8 DEF FileSteps

(* The poller, one exchange of it.                                         *)
LEMMA PollKeeps ==
  ASSUME Typed, Progress, ReadsTheFile, NegotiatesTruly, NEW ok \in BOOLEAN, NEW v, NEW rest \in Seq(Cells),
         Outcome(ok, v, rest), Note(ok), Poll(ok, v), line' = rest, UNCHANGED <<exposed, off, out, read, profile>>,
         step \in {"txlen", "tx", "running", "recover"}
  PROVE  Kept'
<1>1. NegotiatesTruly' /\ ReadsTheFile' /\ off' \in Nat /\ unsynced' \in BOOLEAN
  BY DEF NegotiatesTruly, ReadsTheFile, EveryFileIsRead, Typed, Note
<1>2. /\ "txlen" \notin Syncs /\ "tx" \in Exchanges \ Syncs /\ "running" \notin Syncs
      /\ FollowedBySync \cap {"running", "recover"} = {} /\ {"txlen", "tx"} \subseteq FollowedBySync
  BY DEF Exchanges, Syncs, FollowedBySync
<1>3. Unclear /\ (Nothing \/ unsynced' \/ (~ok /\ step \in FollowedBySync))
  BY Leaves
<1>4. profile.kind # "none" /\ (~exposed => ~unsynced)
  BY DEF Progress, First, Negotiating
<1>5. ASSUME Over, turn' \in {"drain", "sync", "state"}, size' = size, Nothing \/ Doubtful'
      PROVE  Kept'
  <2>1. /\ Pairing' /\ inbox' \in Seq(Commands) /\ got' \in Seq(Cells) /\ sent' \in Nat
        /\ step' = "idle"
    BY <1>3, <1>5, OverIdles
  <2> QED
    BY <1>1, <1>4, <1>5, <2>1 DEF Kept, Typed, Progress, First, Negotiating
<1>6. CASE step \in {"txlen", "tx"} /\ ~ok
  BY <1>5, <1>6 DEF Poll, Doubtful
<1>7. CASE step = "txlen" /\ ok /\ v[1] # 0
  <2>1. Send("tx", v[1]) /\ size' = v[1] /\ UNCHANGED turn
    BY <1>7 DEF Poll
  <2>2. v[1] \in Nat
    BY <1>2, <1>7, Fields
  <2>3. unsynced' = unsynced /\ (Nothing \/ unsynced')
    BY <1>2, <1>3, <1>7 DEF Note
  <2>4. /\ Pairing' /\ inbox' \in Seq(Commands) /\ got' \in Seq(Cells) /\ sent' \in Nat
        /\ step' = "tx"
    BY <1>1, <1>2, <1>3, <2>1, <2>2, <2>3, NextPairs
  <2>5. ~unsynced => size' = 4
    <3>1. ASSUME ~unsynced
          PROVE  v = <<0>> \/ v = <<4>>
      BY <1>2, <1>7, <3>1 DEF Outcome, Expected, RepliesOf, Syncs
    <3> QED
      BY <1>7, <2>1, <3>1
  <2> QED
    BY <1>1, <1>2, <1>4, <2>1, <2>2, <2>3, <2>4, <2>5 DEF Kept, Typed, Progress, First, Negotiating
<1>8. CASE ok /\ (step = "tx" \/ (step = "txlen" /\ v[1] = 0))
  BY <1>3, <1>5, <1>8 DEF Poll, Doubtful
<1>9. CASE step \in {"running", "recover"}
  BY <1>2, <1>3, <1>5, <1>9 DEF Poll, Doubtful
<1> QED
  BY <1>6, <1>7, <1>8, <1>9

(* Whatever the exchange, its outcome leads to one of the three states.    *)
LEMMA ContinueKeeps ==
  ASSUME Typed, Progress, ReadsTheFile, NegotiatesTruly, step # "idle",
         NEW ok \in BOOLEAN, NEW v, NEW rest \in Seq(Cells), Outcome(ok, v, rest), Continue(ok, v, rest)
  PROVE  Kept'
<1>1. CASE step \in Negotiating
  BY <1>1, NegotiateKeeps DEF Continue, Negotiating
<1>2. CASE step \in FileSteps
  BY <1>2, ReadFileAllKeeps DEF Continue, FileSteps
<1>3. CASE step \in {"txlen", "tx", "running", "recover"}
  BY <1>3, PollKeeps DEF Continue
<1> QED
  BY <1>1, <1>2, <1>3 DEF Typed, Exchanges, Negotiating, FileSteps

-----------------------------------------------------------------------------
(* Reading a reply.                                                        *)

(* Small facts of arithmetic, which the provers want one at a time.        *)
LEMMA EmptyLength == \A s : s = <<>> => Len(s) = 0
  OBVIOUS

(* Two or more.                                                            *)
LEMMA Several == \A n \in Nat : n >= 1 /\ n # 1 => n - 1 \in Nat /\ n - 1 >= 1 /\ 1 \in 1 .. n - 1
  OBVIOUS

(* Fewer than three.                                                       *)
LEMMA Fewer == \A n, m \in Nat : n < 3 /\ (m = 3 \/ m = 4) => n # m /\ ~(n >= 3)
  OBVIOUS

(* At most and at least.                                                   *)
LEMMA AtMost == \A n, m \in Nat : n <= m => (n >= m <=> n = m)
  OBVIOUS

(* An exchange takes exactly its reply, and finds nothing wrong with it    *)
(* unless it is a chunk of a file whose size was misread.                  *)
LEMMA NeedIsLength ==
  ASSUME Typed, Progress, ~unsynced, step \in Exchanges \ Syncs, NEW r \in Expected, NEW v \in Seq(Nat),
         1 <= Len(v), Len(v) <= Len(r), \A i \in 1 .. Len(v) : v[i] = r[i]
  PROVE  /\ ~Complete(v) => Len(v) # Len(r)
         /\ Complete(v) /\ Accepted(v) => Len(v) = Len(r) /\ Need(v) = Len(r) /\ v = r
         /\ Complete(v) /\ ~Accepted(v) => step \in {"read", "reread"}
<1>0. Len(v) \in Nat /\ v[1] = r[1]
  BY LenProperties
<1>1. Complete(v) <=> Len(v) >= Need(v)
  BY DEF Complete
<1>2. SUFFICES /\ r \in Seq(Nat)
               /\ \/ (Len(v) >= Need(v) <=> Len(v) = Len(r)) /\ (Len(v) = Len(r) => Need(v) = Len(r) /\ Accepted(v))
                  \/ step \in {"read", "reread"} /\ Len(v) >= Need(v) /\ ~Accepted(v)
  BY <1>1, SeqEqual
<1>3. CASE step = "version"
  <2>1. PICK x, y, z \in VersionParts : r = <<x, y, z>>
    BY <1>3, Versions DEF Expected, Commands, Typed
  <2>5. x \in Nat /\ y \in Nat /\ z \in Nat
    BY PartsAreSmall
  <2>2. r \in Seq(Nat) /\ Len(r) = 3
    BY <2>1, <2>5
  <2>3. Need(v) = 3 /\ Accepted(v)
    BY <1>3 DEF Need, Accepted, capProtocolVersion
  <2>4. Len(v) >= 3 <=> Len(v) = 3
    <3>1. Len(v) <= 3
      BY <2>2
    <3> QED
      BY <1>0, <3>1, AtMost
  <2> QED
    BY <1>0, <2>2, <2>3, <2>4
<1>4. CASE step = "caps"
  <2>1. r = <<2, 5>>
    BY <1>4 DEF Expected, RepliesOf, Syncs, capProtocolVersion, Flags
  <2>2. r \in Seq(Nat) /\ Len(r) = 2 /\ r[1] = 2
    BY <2>1
  <2>3. Need(v) = 2 /\ (v[1] = 2 => Accepted(v))
    BY <1>4 DEF Need, Accepted, capProtocolVersion
  <2>4. Len(v) >= 2 <=> Len(v) = 2
    <3>1. Len(v) <= 2
      BY <2>2
    <3> QED
      BY <1>0, <3>1, AtMost
  <2> QED
    BY <1>0, <2>2, <2>3, <2>4
<1>5. CASE step = "caps2"
  <2>1. r = <<2, 5>>
    BY <1>5 DEF Expected, RepliesOf, Syncs, capProtocolVersion, Flags
  <2>2. r \in Seq(Nat) /\ Len(r) = 2 /\ r[1] = 2
    BY <2>1
  <2>3. Need(v) = 2 /\ (v[1] = 2 => Accepted(v))
    BY <1>5 DEF Need, Accepted, capProtocolVersion
  <2>4. Len(v) >= 2 <=> Len(v) = 2
    <3>1. Len(v) <= 2
      BY <2>2
    <3> QED
      BY <1>0, <3>1, AtMost
  <2> QED
    BY <1>0, <2>2, <2>3, <2>4
<1>6. CASE step = "full"
  <2>1. r = <<1001, 1001>>
    BY <1>6 DEF Expected, RepliesOf, Syncs, Junk, Big
  <2>2. r \in Seq(Nat) /\ Len(r) = 2 /\ r[1] = 1001
    BY <2>1
  <2>3. Need(v) = 2 /\ Accepted(v)
    BY <1>6 DEF Need, Accepted, capProtocolVersion
  <2>4. Len(v) >= 2 <=> Len(v) = 2
    <3>1. Len(v) <= 2
      BY <2>2
    <3> QED
      BY <1>0, <3>1, AtMost
  <2> QED
    BY <1>0, <2>2, <2>3, <2>4
<1>7. CASE step = "stat"
  <2>1. r = <<0, 0, 8, 1001>>
    BY <1>7 DEF Expected, RepliesOf, Syncs, Junk, Big, FileBytes
  <2>2. r \in Seq(Nat) /\ Len(r) = 4 /\ r[1] = 0
    BY <2>1
  <2>3. Need(v) = 4 /\ Accepted(v)
    BY <1>7 DEF Need, Accepted, capProtocolVersion
  <2>4. Len(v) >= 4 <=> Len(v) = 4
    <3>1. Len(v) <= 4
      BY <2>2
    <3> QED
      BY <1>0, <3>1, AtMost
  <2> QED
    BY <1>0, <2>2, <2>3, <2>4
<1>8. CASE step = "txlen" \/ step = "running"
  <2>1. r = <<0>> \/ r = <<4>> \/ r = <<1>>
    BY <1>8 DEF Expected, RepliesOf, Syncs
  <2>2. r \in Seq(Nat) /\ Len(r) = 1 /\ r[1] <= 100
    BY <2>1
  <2>3. Need(v) = 1 /\ (v[1] <= 100 => Accepted(v))
    BY <1>8 DEF Need, Accepted, maxTxBufPayload
  <2> QED
    BY <1>0, <2>2, <2>3
<1>9. CASE step = "tx"
  <2>1. r = <<>> \/ r = <<1001>>
    BY <1>9 DEF Expected, RepliesOf, Syncs, Junk, Big
  <2>2. r = <<1001>>
    BY <1>0, <2>1
  <2>3. r \in Seq(Nat) /\ Len(r) = 1
    BY <2>2
  <2>4. Need(v) = 1 /\ Accepted(v)
    BY <1>9 DEF Need, Accepted, Progress
  <2> QED
    BY <1>0, <2>3, <2>4
<1>10. CASE step \in {"read", "reread"}
  <2>1. Word(off) \in Nat
    BY DEF Word, Big, Typed
  <2>2. r = <<0, 4, 0, Word(off)>> \/ r = <<0, 0, 0>>
    BY <1>10 DEF Expected, RepliesOf, Syncs, Chunk
  <2>3. r \in Seq(Nat) /\ ((Len(r) = 4 /\ r[2] = 4) \/ (Len(r) = 3 /\ r[2] = 0))
    <3>1. <<0, 4, 0, Word(off)>> \in Seq(Nat) /\ Len(<<0, 4, 0, Word(off)>>) = 4 /\ <<0, 4, 0, Word(off)>>[2] = 4
      BY <2>1
    <3>2. <<0, 0, 0>> \in Seq(Nat) /\ Len(<<0, 0, 0>>) = 3 /\ <<0, 0, 0>>[2] = 0
      OBVIOUS
    <3> QED
      BY <2>2, <3>1, <3>2
  <2>5. Need(v) = IF Len(v) < 3 \/ DataLen(v) = 0 \/ BadLength(v) THEN 3 ELSE 4
    BY <1>10 DEF Need
  <2>6. Accepted(v) <=> ~BadLength(v)
    BY <1>10 DEF Accepted
  <2>7. CASE Len(v) < 3
    <3>1. Need(v) = 3
      BY <2>5, <2>7
    <3>2. Len(r) = 3 \/ Len(r) = 4
      BY <2>3
    <3>3. Len(v) # Len(r) /\ ~(Len(v) >= 3)
      BY <1>0, <2>7, <3>2, Fewer
    <3> QED
      BY <2>3, <3>1, <3>3
  <2>8. CASE Len(v) >= 3
    <3>1. DataLen(v) = r[2]
      BY <1>0, <2>3, <2>8 DEF DataLen
    <3>2. CASE BadLength(v)
      <4>1. Need(v) = 3 /\ ~Accepted(v)
        BY <2>5, <2>6, <3>2
      <4> QED
        BY <1>10, <2>3, <2>8, <4>1
    <3>3. CASE ~BadLength(v) /\ Len(r) = 4 /\ r[2] = 4
      <4>1. Need(v) = 4 /\ Accepted(v)
        BY <1>0, <2>5, <2>6, <2>8, <3>1, <3>3
      <4>2. Len(v) >= 4 <=> Len(v) = 4
        BY <1>0, <3>3, AtMost
      <4> QED
        BY <2>3, <3>3, <4>1, <4>2
    <3>4. CASE ~BadLength(v) /\ Len(r) = 3 /\ r[2] = 0
      <4>1. Need(v) = 3 /\ Accepted(v)
        BY <2>5, <2>6, <3>1, <3>4
      <4>2. Len(v) <= 3
        BY <3>4
      <4>3. Len(v) = 3
        BY <1>0, <2>8, <4>2, AtMost
      <4> QED
        BY <2>3, <2>8, <3>4, <4>1, <4>3
    <3> QED
      BY <2>3, <3>2, <3>3, <3>4
  <2> QED
    BY <1>0, <2>7, <2>8
<1> QED
  BY <1>3, <1>4, <1>5, <1>6, <1>7, <1>8, <1>9, <1>10 DEF Exchanges, Syncs

(* Somebody has read something: it was not only asked for.                 *)
LEMMA StreamHasLine ==
  ASSUME Typed
  PROVE  /\ Stream \in Seq(Cells) /\ Len(Stream) = Len(got) + Len(line) /\ Len(line) \in Nat /\ Len(got) \in Nat
         /\ Stream = <<>> => line = <<>>
         /\ \A i \in 1 .. Len(line) : line[i] = Stream[Len(got) + i]
<1>1. /\ Stream \in Seq(Cells) /\ Len(Stream) = Len(got) + Len(line)
      /\ \A i \in 1 .. Len(got) + Len(line) : Stream[i] = IF i <= Len(got) THEN got[i] ELSE line[i - Len(got)]
  BY ConcatProperties DEF Typed, Stream
<1>2. Len(line) \in Nat /\ Len(got) \in Nat
  BY DEF Typed
<1>3. ASSUME Stream = <<>>
      PROVE  line = <<>>
  <2>1. Len(Stream) = 0
    BY <1>3
  <2>2. Len(line) = 0
    BY <1>1, <1>2, <2>1
  <2> QED
    BY <2>2 DEF Typed
<1>4. ASSUME NEW i \in 1 .. Len(line)
      PROVE  line[i] = Stream[Len(got) + i]
  <2>1. Len(got) + i \in 1 .. Len(got) + Len(line) /\ ~(Len(got) + i <= Len(got))
            /\ (Len(got) + i) - Len(got) = i
    BY <1>2
  <2> QED
    BY <1>1, <2>1
<1> QED
  BY <1>1, <1>2, <1>3, <1>4

(* The cells an exchange has after port.Read returned n more of them, and  *)
(* those that stay on their way.                                           *)
Taken(n) == got \o SubSeq(line, 1, n)
Left(n) == SubSeq(line, n + 1, Len(line))
LEMMA TakenAndLeft ==
  ASSUME Typed, NEW n \in 1 .. Len(line)
  PROVE  /\ Taken(n) \in Seq(Cells) /\ Left(n) \in Seq(Cells)
         /\ Len(Taken(n)) = Len(got) + n /\ Len(Left(n)) = Len(line) - n /\ Len(Stream) = Len(got) + Len(line)
         /\ Taken(n) \o Left(n) = Stream
         /\ \A i \in 1 .. Len(Taken(n)) : Taken(n)[i] = Stream[i]
         /\ \A i \in 1 .. Len(Left(n)) : Left(n)[i] = Stream[Len(Taken(n)) + i]
<1>1. got \in Seq(Cells) /\ line \in Seq(Cells)
  BY DEF Typed
<1> DEFINE cells == got \o SubSeq(line, 1, n)
           rest == SubSeq(line, n + 1, Len(line))
           both == got \o line
<1>2. /\ cells \in Seq(Cells) /\ rest \in Seq(Cells)
      /\ Len(cells) = Len(got) + n /\ Len(rest) = Len(line) - n
      /\ Len(both) = Len(got) + Len(line)
      /\ cells \o rest = both
      /\ \A i \in 1 .. Len(cells) : cells[i] = both[i]
      /\ \A i \in 1 .. Len(rest) : rest[i] = both[Len(cells) + i]
  BY <1>1, Reading, ZenonT(30)
<1> HIDE DEF cells, rest, both
<1>3. Taken(n) = cells /\ Left(n) = rest /\ Stream = both
  BY DEF Taken, Left, Stream, cells, rest, both
<1> QED
  BY <1>2, <1>3

(* An exchange that nothing precedes takes its own reply, all of it.       *)
LEMMA AlignedReceives ==
  ASSUME Typed, Progress, ~unsynced, step \in Exchanges \ Syncs, Aligned, NEW n \in 1 .. Len(line)
  PROVE  /\ inbox = <<>>
         /\ Complete(Val(Taken(n))) /\ Accepted(Val(Taken(n))) =>
              Left(n) = <<>> /\ Val(Taken(n)) \in Expected /\ ~Foreign(Taken(n))
         /\ Complete(Val(Taken(n))) /\ ~Accepted(Val(Taken(n))) => step \in {"read", "reread"}
         /\ ~Complete(Val(Taken(n))) => Left(n) # <<>> /\ \E r \in Expected : IsReply(Taken(n) \o Left(n), r)
<1>1. /\ Taken(n) \in Seq(Cells) /\ Left(n) \in Seq(Cells)
      /\ Len(Taken(n)) = Len(got) + n /\ Len(Left(n)) = Len(line) - n /\ Len(Stream) = Len(got) + Len(line)
      /\ Taken(n) \o Left(n) = Stream
      /\ \A i \in 1 .. Len(Taken(n)) : Taken(n)[i] = Stream[i]
  BY TakenAndLeft
<1>2. Len(line) \in Nat /\ Len(got) \in Nat /\ n \in Nat /\ 1 <= n /\ n <= Len(line)
  BY DEF Typed
<1>3. line # <<>> /\ Stream # <<>>
  BY <1>2, StreamHasLine
<1>4. inbox = <<>>
  BY <1>3 DEF Aligned, Asked, Answering
<1>5. PICK r \in Expected : IsReply(Stream, r)
  BY <1>3 DEF Aligned, Asked, Answering
<1>6. Len(Stream) = Len(r) /\ \A i \in 1 .. Len(r) : Stream[i] = [req |-> sent, val |-> r[i]]
  BY <1>5 DEF IsReply
<1>7. /\ Val(Taken(n)) \in Seq(Nat) /\ Len(Val(Taken(n))) = Len(Taken(n))
      /\ \A i \in 1 .. Len(Taken(n)) : Val(Taken(n))[i] = Taken(n)[i].val
  BY <1>1, Values
<1>8. 1 <= Len(Val(Taken(n))) /\ Len(Val(Taken(n))) <= Len(r)
  BY <1>1, <1>2, <1>6, <1>7
<1>9. \A i \in 1 .. Len(Taken(n)) : Taken(n)[i] = [req |-> sent, val |-> r[i]]
  <2>1. \A i \in 1 .. Len(Taken(n)) : i \in 1 .. Len(r)
    BY <1>1, <1>2, <1>6
  <2> QED
    BY <1>1, <1>6, <2>1
<1>14. \A i \in 1 .. Len(Taken(n)) : Taken(n)[i].req = sent /\ Taken(n)[i].val = r[i]
  <2> SUFFICES ASSUME NEW i \in 1 .. Len(Taken(n))
               PROVE  Taken(n)[i].req = sent /\ Taken(n)[i].val = r[i]
    OBVIOUS
  <2>1. Taken(n)[i] = [req |-> sent, val |-> r[i]]
    BY <1>9
  <2> QED
    BY <2>1
<1>10. \A i \in 1 .. Len(Val(Taken(n))) : Val(Taken(n))[i] = r[i]
  BY <1>7, <1>14
<1>11. /\ ~Complete(Val(Taken(n))) => Len(Val(Taken(n))) # Len(r)
       /\ Complete(Val(Taken(n))) /\ Accepted(Val(Taken(n))) =>
            Len(Val(Taken(n))) = Len(r) /\ Need(Val(Taken(n))) = Len(r) /\ Val(Taken(n)) = r
       /\ Complete(Val(Taken(n))) /\ ~Accepted(Val(Taken(n))) => step \in {"read", "reread"}
  BY <1>7, <1>8, <1>10, NeedIsLength
<1>12. ASSUME Complete(Val(Taken(n))), Accepted(Val(Taken(n)))
       PROVE  Left(n) = <<>> /\ Val(Taken(n)) \in Expected /\ ~Foreign(Taken(n))
  <2>1. Len(Taken(n)) = Len(r) /\ Need(Val(Taken(n))) = Len(Taken(n))
    BY <1>7, <1>11, <1>12
  <2>2. Len(Left(n)) = 0
    BY <1>1, <1>2, <1>6, <2>1
  <2>3. Left(n) = <<>>
    BY <1>1, <2>2
  <2>4. \A i \in 1 .. Len(Taken(n)) : Taken(n)[i].req = sent
    BY <1>14
  <2>5. ~Foreign(Taken(n))
    BY <2>1, <2>4 DEF Foreign
  <2> QED
    BY <1>11, <1>12, <2>3, <2>5
<1>13. ASSUME ~Complete(Val(Taken(n)))
       PROVE  Left(n) # <<>> /\ \E q \in Expected : IsReply(Taken(n) \o Left(n), q)
  <2>1. Len(Taken(n)) # Len(r)
    BY <1>7, <1>11, <1>13
  <2>2. Len(Taken(n)) # Len(got) + Len(line)
    BY <1>1, <1>6, <2>1
  <2>3. n # Len(line)
    BY <1>1, <2>2
  <2>4. Len(Left(n)) # 0
    BY <1>1, <1>2, <2>3
  <2>5. Left(n) # <<>>
    BY <2>4
  <2> QED
    BY <1>1, <1>5, <2>5
<1> QED
  BY <1>4, <1>11, <1>12, <1>13

(* A Sync takes everything up to the marker.                               *)
LEMMA MarkerReceives ==
  ASSUME Typed, step \in Syncs, MarkerAsked \/ MarkerComing, NEW n \in 1 .. Len(line)
  PROVE  /\ Complete(Val(Taken(n))) => inbox = <<>> /\ Left(n) = <<>>
         /\ ~Complete(Val(Taken(n))) => inbox # <<>> \/ Left(n) # <<>>
<1>1. /\ Taken(n) \in Seq(Cells) /\ Left(n) \in Seq(Cells)
      /\ Len(Taken(n)) = Len(got) + n /\ Len(Left(n)) = Len(line) - n /\ Len(Stream) = Len(got) + Len(line)
      /\ Taken(n) \o Left(n) = Stream
      /\ \A i \in 1 .. Len(Taken(n)) : Taken(n)[i] = Stream[i]
  BY TakenAndLeft
<1>2. Len(line) \in Nat /\ Len(got) \in Nat /\ n \in Nat /\ 1 <= n /\ n <= Len(line)
  BY DEF Typed
<1>3. /\ Len(Val(Taken(n))) = Len(Taken(n)) /\ \A i \in 1 .. Len(Taken(n)) : Val(Taken(n))[i] = Taken(n)[i].val
  BY <1>1, Values
<1>4. Complete(Val(Taken(n))) <=> \E i \in 1 .. Len(Taken(n)) : Stream[i].val = Magic
  <2>1. Complete(Val(Taken(n))) <=> \E i \in 1 .. Len(Val(Taken(n))) : Val(Taken(n))[i] = Magic
    BY DEF Complete, Contains
  <2> QED
    BY <1>1, <1>3, <2>1
<1>5. \A i \in 1 .. Len(Taken(n)) : i \in 1 .. Len(Stream)
  BY <1>1, <1>2
<1>6. CASE MarkerAsked
  BY <1>4, <1>5, <1>6 DEF MarkerAsked, Unmarked
<1>7. CASE MarkerComing
  <2>1. inbox = <<>> /\ Stream[Len(Stream)].val = Magic /\ \A i \in 1 .. Len(Stream) - 1 : Stream[i].val # Magic
    BY <1>7 DEF MarkerComing
  <2>2. CASE Left(n) = <<>>
    <3>1. Len(Left(n)) = 0
      BY <2>2, EmptyLength
    <3>3. n = Len(line)
      BY <1>1, <1>2, <3>1
    <3>2. Len(Taken(n)) = Len(Stream) /\ Len(Stream) \in 1 .. Len(Taken(n))
      BY <1>1, <1>2, <3>3
    <3> QED
      BY <1>4, <2>1, <2>2, <3>2
  <2>3. CASE Left(n) # <<>>
    <3>1. Len(Left(n)) # 0
      BY <1>1, <2>3
    <3>3. n + 1 <= Len(line)
      BY <1>1, <1>2, <3>1
    <3>4. Len(Taken(n)) <= Len(Stream) - 1 /\ Len(Taken(n)) \in Nat /\ Len(Stream) - 1 \in Nat
      BY <1>1, <1>2, <3>3
    <3>2. \A i \in 1 .. Len(Taken(n)) : i \in 1 .. Len(Stream) - 1
      BY <3>4
    <3> QED
      BY <1>4, <2>1, <2>3, <3>2
  <2> QED
    BY <2>2, <2>3
<1> QED
  BY <1>6, <1>7

-----------------------------------------------------------------------------
(* The steps of the host.                                                  *)
(* The error checks decide, whatever was read.                             *)
LEMMA AcceptedIsBoolean ==
  ASSUME NEW v
  PROVE  Accepted(v) \in BOOLEAN
<1>1. CASE step \in {"caps", "caps2"}
  BY <1>1 DEF Accepted
<1>2. CASE step \in {"read", "reread"}
  BY <1>2 DEF Accepted
<1>3. CASE step = "txlen"
  BY <1>3 DEF Accepted
<1>4. CASE step \notin {"caps", "caps2", "read", "reread", "txlen"}
  BY <1>4 DEF Accepted
<1> QED
  BY <1>1, <1>2, <1>3, <1>4

(* What is left of a stream without a marker has none.                     *)
LEMMA Remains ==
  ASSUME Typed, Unmarked(Stream)
  PROVE  Unmarked(line) /\ \A n \in 1 .. Len(line) : Unmarked(Left(n))
<1>1. \A i \in 1 .. Len(line) : Len(got) + i \in 1 .. Len(Stream) /\ line[i] = Stream[Len(got) + i]
  BY StreamHasLine
<1>2. Unmarked(line)
  BY <1>1 DEF Unmarked
<1>3. ASSUME NEW n \in 1 .. Len(line)
      PROVE  Unmarked(Left(n))
  <2>1. /\ Len(Taken(n)) = Len(got) + n /\ Len(Left(n)) = Len(line) - n /\ Len(Stream) = Len(got) + Len(line)
        /\ \A i \in 1 .. Len(Left(n)) : Left(n)[i] = Stream[Len(Taken(n)) + i]
    BY TakenAndLeft
  <2>2. Len(line) \in Nat /\ Len(got) \in Nat /\ n \in Nat /\ 1 <= n /\ n <= Len(line)
    BY DEF Typed
  <2>3. \A i \in 1 .. Len(Left(n)) : Len(Taken(n)) + i \in 1 .. Len(Stream)
    BY <2>1, <2>2
  <2> QED
    BY <2>1, <2>3 DEF Unmarked
<1> QED
  BY <1>2, <1>3

(* An exchange's own reply has no marker.                                  *)
LEMMA AlignedIsPlain ==
  ASSUME Typed, step \in Exchanges \ Syncs, Aligned
  PROVE  /\ Shifted
         /\ line = <<>> /\ inbox = <<>> => step = "tx"
         /\ step = "version" /\ capProtocolVersion \notin VersionParts => LateVersion(line)
<1> DEFINE cmd == [of |-> step, arg |-> off, req |-> sent]
<1>1. cmd \in Commands /\ cmd.of = step
  BY DEF Typed, Commands
<1> HIDE DEF cmd
<1>2. CASE Asked
  <2>1. line = <<>> /\ Len(Stream) = 0
    BY <1>2, StreamHasLine, EmptyLength DEF Asked
  <2>2. Len(inbox) = 1 /\ inbox[1].of = step /\ inbox # <<>>
    BY <1>2, EmptyLength DEF Asked
  <2>3. \A i \in 1 .. Len(inbox) : i = 1
    BY <2>2
  <2> QED
    BY <2>1, <2>2, <2>3 DEF Shifted, NoSyncs, Unmarked, LateVersion
<1>3. CASE Answering
  <2>1. PICK r \in Expected : IsReply(Stream, r) /\ (line = <<>> => r = <<>>)
    BY <1>3 DEF Answering
  <2>2. r \in RepliesOf(cmd)
    BY DEF Expected, cmd
  <2>3. r \in Seq(Nat) /\ Plain(r) /\ (r = <<>> => step = "tx")
    BY <1>1, <2>2, Answers
  <2>4. Len(Stream) = Len(r) /\ \A i \in 1 .. Len(r) : Stream[i] = [req |-> sent, val |-> r[i]]
    BY <2>1 DEF IsReply
  <2>5. \A i \in 1 .. Len(r) : Stream[i].val = r[i]
    <3> SUFFICES ASSUME NEW i \in 1 .. Len(r)
                 PROVE  Stream[i].val = r[i]
      OBVIOUS
    <3>1. Stream[i] = [req |-> sent, val |-> r[i]]
      BY <2>4
    <3> QED
      BY <3>1
  <2>6. Unmarked(Stream)
    BY <2>3, <2>4, <2>5 DEF Unmarked, Plain
  <2>7. inbox = <<>> /\ NoSyncs
    BY <1>3, EmptyLength DEF Answering, NoSyncs
  <2>8. ASSUME step = "version", capProtocolVersion \notin VersionParts
        PROVE  LateVersion(line)
    <3>1. PICK x, y, z \in VersionParts : r = <<x, y, z>> /\ Len(r) = 3 /\ r[1] = x /\ r[2] = y /\ r[3] = z
      BY <1>1, <2>2, <2>8, Versions
    <3>2. line # <<>>
      BY <2>1, <3>1, EmptyLength
    <3>3. 1 \in 1 .. Len(line)
      BY <3>2, StreamHasLine DEF Typed
    <3>4. Len(got) + 1 \in 1 .. Len(r) /\ line[1].val = r[Len(got) + 1]
      <4>1. Len(got) + 1 \in 1 .. Len(r) /\ line[1] = Stream[Len(got) + 1]
        BY <2>4, <3>3, StreamHasLine
      <4> QED
        BY <2>5, <4>1
    <3>5. \A i \in 1 .. Len(r) : i = 1 \/ i = 2 \/ i = 3
      BY <3>1
    <3>6. line[1].val \in VersionParts
      BY <3>1, <3>4, <3>5
    <3> QED
      BY <2>7, <2>8, <3>2, <3>6 DEF LateVersion
  <2> QED
    BY <2>1, <2>3, <2>6, <2>7, <2>8 DEF Shifted
<1> QED
  BY <1>2, <1>3 DEF Aligned

(* The exchange goes on reading.                                           *)
LEMMA ReadsOn ==
  ASSUME IInv, NEW n \in 1 .. Len(line), Receive(n), ~Complete(Val(Taken(n)))
  PROVE  IInv'
<1>1. /\ got' = Taken(n) /\ line' = Left(n) /\ step # "idle"
      /\ UNCHANGED <<inbox, sent, step, turn, off, size, out, profile, unsynced, exposed, mixed, read>>
  BY DEF Receive, Taken, Left
<1>2. Typed /\ Progress
  BY DEF IInv
<1>3. /\ Taken(n) \in Seq(Cells) /\ Left(n) \in Seq(Cells) /\ Taken(n) \o Left(n) = Stream
  BY <1>2, TakenAndLeft
<1>4. Stream' = Stream
  BY <1>1, <1>3 DEF Stream
<1>5. Typed' /\ Progress' /\ ReadsTheFile' /\ NegotiatesTruly' /\ Samples' /\ Expected' = Expected
  BY <1>1, <1>3 DEF IInv, Typed, Progress, First, ReadsTheFile, EveryFileIsRead, NegotiatesTruly,
     Samples, Expected
<1>9. Shifted' = Shifted
  BY <1>1, <1>4 DEF Shifted, NoSyncs, Unmarked
<1>6. CASE step \in Syncs
  <2>1. MarkerAsked \/ MarkerComing
    BY <1>1, <1>6 DEF IInv, Pairing, Syncs
  <2>2. inbox # <<>> \/ Left(n) # <<>>
    BY <1>2, <1>6, <2>1, MarkerReceives
  <2>3. MarkerAsked' \/ MarkerComing'
    BY <1>1, <1>4, <2>1, <2>2 DEF MarkerAsked, MarkerComing, Unmarked
  <2> QED
    BY <1>1, <1>5, <1>6, <2>3 DEF IInv, Pairing, Syncs
<1>7. CASE step \notin Syncs /\ ~unsynced /\ Aligned
  <2>1. step \in Exchanges \ Syncs
    BY <1>1, <1>7 DEF IInv, Typed
  <2>2. inbox = <<>> /\ Left(n) # <<>> /\ \E r \in Expected : IsReply(Taken(n) \o Left(n), r)
    BY <1>2, <1>7, <2>1, AlignedReceives
  <2>3. Answering'
    BY <1>1, <1>3, <1>4, <1>5, <2>2 DEF Answering, IsReply
  <2> QED
    BY <1>1, <1>5, <1>7, <2>3 DEF IInv, Pairing, Aligned
<1>8. CASE step = "caps" /\ ~unsynced /\ VersionFirst
  <2>1. VersionFirst'
    BY <1>1, <1>4, <1>8, <1>9 DEF VersionFirst
  <2> QED
    BY <1>1, <1>5, <1>8, <2>1 DEF IInv, Pairing, Syncs
<1>10. CASE step \notin Syncs /\ unsynced
  <2>1. Shifted
    BY <1>1, <1>10 DEF IInv, Pairing
  <2> QED
    BY <1>1, <1>5, <1>9, <1>10, <2>1 DEF IInv, Pairing
<1> QED
  BY <1>1, <1>6, <1>7, <1>8, <1>10 DEF IInv, Pairing

(* A Sync is missing after Negotiate only.                                 *)
LEMMA Negotiated ==
  ASSUME Progress, unsynced, step # "idle"
  PROVE  exposed /\ step \notin {"version", "caps2"}
  BY DEF Progress, First, Negotiating

(* The exchange is over.                                                   *)
LEMMA Completes ==
  ASSUME IInv, NEW n \in 1 .. Len(line), Receive(n), Complete(Val(Taken(n)))
  PROVE  IInv' /\ (step \in Syncs => inbox = <<>> /\ Left(n) = <<>>)
<1> DEFINE v == Val(Taken(n))
<1>1. /\ Continue(Accepted(v), v, Left(n)) /\ step # "idle" /\ exposed' = exposed
      /\ mixed' = IF Accepted(v) /\ Foreign(Taken(n)) THEN mixed \cup {step} ELSE mixed
  BY DEF Receive, Taken, Left, Continue
<1>2. Typed /\ Progress
  BY DEF IInv
<1>3. /\ Taken(n) \in Seq(Cells) /\ Left(n) \in Seq(Cells) /\ Len(Taken(n)) = Len(got) + n
      /\ Len(Left(n)) = Len(line) - n /\ Len(Stream) = Len(got) + Len(line)
      /\ \A i \in 1 .. Len(Taken(n)) : Taken(n)[i] = Stream[i]
  BY <1>2, TakenAndLeft
<1>4. Len(line) \in Nat /\ Len(got) \in Nat /\ n \in Nat /\ 1 <= n /\ n <= Len(line)
  BY <1>2 DEF Typed
<1>12. v = Val(Taken(n)) /\ Complete(Val(Taken(n)))
  OBVIOUS
<1> HIDE DEF v
<1>5. Accepted(v) \in BOOLEAN
  BY AcceptedIsBoolean
<1>6. SUFFICES /\ Outcome(Accepted(v), v, Left(n)) /\ (exposed \/ ~(Accepted(v) /\ Foreign(Taken(n))))
               /\ step \in Syncs => inbox = <<>> /\ Left(n) = <<>>
  <2>1. Kept'
    BY <1>1, <1>3, <1>5, <1>6, ContinueKeeps DEF IInv
  <2>2. Samples'
    BY <1>1, <1>6 DEF IInv, Samples
  <2> QED
    BY <1>6, <2>1, <2>2 DEF IInv, Kept
<1>7. CASE step \in Syncs
  <2>1. MarkerAsked \/ MarkerComing
    BY <1>1, <1>7 DEF IInv, Pairing, Syncs
  <2>2. inbox = <<>> /\ Left(n) = <<>>
    BY <1>2, <1>7, <1>12, <2>1, MarkerReceives
  <2>3. Accepted(v)
    BY <1>7 DEF Accepted, Syncs
  <2> QED
    BY <1>7, <2>2, <2>3 DEF Outcome, Foreign
<1>8. CASE step \notin Syncs /\ ~unsynced /\ Aligned
  <2>1. step \in Exchanges \ Syncs
    BY <1>1, <1>8 DEF IInv, Typed
  <2>2. /\ inbox = <<>>
        /\ Accepted(v) => Left(n) = <<>> /\ v \in Expected /\ ~Foreign(Taken(n))
        /\ ~Accepted(v) => step \in {"read", "reread"}
    BY <1>2, <1>8, <1>12, <2>1, AlignedReceives
  <2>3. CASE Accepted(v)
    BY <1>5, <1>8, <2>1, <2>2, <2>3 DEF Outcome
  <2>4. CASE ~Accepted(v)
    <3>1. Shifted
      BY <1>2, <1>8, <2>1, AlignedIsPlain
    <3>2. Unmarked(Left(n)) /\ NoSyncs
      BY <1>2, <3>1, Remains DEF Shifted
    <3> QED
      BY <1>8, <2>1, <2>2, <2>4, <3>2 DEF Outcome
  <2> QED
    BY <2>3, <2>4
<1>9. CASE step = "caps" /\ ~unsynced /\ VersionFirst
  <2>1. Len(Taken(n)) >= 1 /\ Len(Stream) >= 1
    BY <1>3, <1>4
  <2>2. Stream[1].val \in VersionParts /\ Shifted /\ capProtocolVersion \notin VersionParts
    BY <1>9, <2>1, EmptyLength DEF VersionFirst
  <2>3. v[1] = Stream[1].val
    <3>1. Taken(n)[1] = Stream[1] /\ v[1] = Taken(n)[1].val
      <4>1. 1 \in 1 .. Len(Taken(n))
        BY <1>3, <2>1, LenProperties
      <4> QED
        BY <1>3, <1>12, <4>1, Values
    <3>2. QED
      BY <3>1
  <2>4. ~Accepted(v)
    <3>1. v[1] # capProtocolVersion
      BY <2>2, <2>3
    <3> QED
      BY <1>9, <3>1 DEF Accepted
  <2>5. Unmarked(Left(n)) /\ NoSyncs
    BY <1>2, <2>2, Remains DEF Shifted
  <2>6. step \in Exchanges \ (Syncs \cup {"caps2"}) /\ step # "version"
    BY <1>9 DEF Exchanges, Syncs
  <2> QED
    BY <2>4, <2>5, <2>6 DEF Outcome
<1>10. CASE step \notin Syncs /\ unsynced
  <2>1. Shifted
    BY <1>1, <1>10 DEF IInv, Pairing
  <2>2. Unmarked(Left(n)) /\ NoSyncs
    BY <1>2, <2>1, Remains DEF Shifted
  <2>3. exposed /\ step \in Exchanges \ (Syncs \cup {"caps2"}) /\ step # "version"
    BY <1>1, <1>2, <1>10, Negotiated DEF Typed
  <2>4. v \in Seq(Nat) /\ Len(v) >= Need(v)
    BY <1>3, <1>10, <1>12, Values DEF Complete
  <2> QED
    BY <1>10, <2>2, <2>3, <2>4 DEF Outcome
<1> QED
  BY <1>1, <1>7, <1>8, <1>9, <1>10 DEF IInv, Pairing

(* port.Read returns.                                                      *)
LEMMA ReceiveKeeps ==
  ASSUME IInv, NEW n \in 1 .. Len(line), Receive(n)
  PROVE  IInv'
  BY ReadsOn, Completes DEF Taken

(* What is given up is no Sync, and leaves no marker.                      *)
LEMMA TimeoutKeeps ==
  ASSUME LinkHypothesis, IInv, Timeout
  PROVE  IInv' /\ step \notin Syncs
<1>1. /\ step # "idle" /\ Continue(FALSE, <<>>, line) /\ mixed' = mixed /\ exposed' = exposed
      /\ Starved \/ step \in Slow
  BY DEF Timeout, Continue
<1>2. line \in Seq(Cells) /\ Typed /\ step \in Exchanges /\ Pairing /\ Progress
  BY <1>1 DEF IInv, Typed
<1>3. SUFFICES /\ step \notin Syncs \cup {"caps2"} /\ Unmarked(line) /\ NoSyncs
               /\ step = "version" => LateVersion(line)
  <2>1. Outcome(FALSE, <<>>, line)
    BY <1>2, <1>3 DEF Outcome
  <2>2. Kept'
    BY <1>1, <1>2, <2>1, ContinueKeeps DEF IInv
  <2> QED
    BY <1>1, <1>3, <2>2 DEF IInv, Kept, Samples
<1>4. CASE step \in Syncs
  <2>1. ~Starved
    BY <1>1, <1>2, <1>4 DEF Pairing, Syncs, MarkerAsked, MarkerComing, Starved
  <2> QED
    BY <1>1, <1>4, <2>1 DEF LinkHypothesis
<1>5. CASE step \notin Syncs /\ Aligned
  <2>1. /\ Shifted /\ (line = <<>> /\ inbox = <<>> => step = "tx")
        /\ step = "version" /\ capProtocolVersion \notin VersionParts => LateVersion(line)
    BY <1>2, <1>5, AlignedIsPlain
  <2>2. step # "tx" => step \in Slow
    BY <1>1, <2>1 DEF Starved
  <2>3. step # "caps2" /\ (step = "version" => LateVersion(line))
    BY <2>1, <2>2 DEF LinkHypothesis
  <2> QED
    BY <1>2, <1>5, <2>1, <2>3, Remains DEF Shifted
<1>6. CASE step = "caps" /\ VersionFirst
  <2>1. Shifted
    BY <1>6 DEF VersionFirst
  <2> QED
    BY <1>2, <1>6, <2>1, Remains DEF Shifted, Syncs
<1>7. CASE step \notin Syncs /\ unsynced
  <2>1. Shifted
    BY <1>1, <1>2, <1>7 DEF Pairing
  <2> QED
    BY <1>1, <1>2, <1>7, <2>1, Remains, Negotiated DEF Shifted
<1> QED
  BY <1>1, <1>2, <1>4, <1>5, <1>6, <1>7 DEF Pairing

-----------------------------------------------------------------------------
(* Between two operations.                                                 *)

(* An operation begins with nothing under way, with a Sync, or exposed.    *)
LEMMA StartKeeps ==
  ASSUME IInv, NEW op \in Operations, Start(op)
  PROVE  IInv'
<1>1. /\ step = "idle" /\ (op = "negotiate" <=> profile.kind = "none")
      /\ off' = 0 /\ size' = 0 /\ out' = <<>> /\ UNCHANGED <<line, turn, profile>>
      /\ unsynced' = (unsynced \/ (turn = "sync" /\ op # "poll"))
      /\ exposed' = unsynced' /\ mixed' = {} /\ read' = <<"none">>
  BY DEF Start
<1>2. Typed /\ got = <<>> /\ First
  BY <1>1 DEF IInv, Progress, Pairing, Syncs
<1>3. Unclear /\ (Doubtful \/ profile.kind = "none" \/ Nothing)
  <2>1. line' = line /\ Stream = line
    BY <1>1, <1>2 DEF Stream, Typed
  <2>2. CASE Doubtful
    <3>1. Shifted
      BY <1>1, <2>2 DEF IInv, Pairing, Syncs
    <3> QED
      BY <2>1, <2>2, <3>1 DEF Shifted, Unclear, Unmarked
  <2>3. CASE ~Doubtful
    <3>1. inbox = <<>> /\ (line = <<>> \/ (profile.kind = "none" /\ Unmarked(line)))
      BY <1>1, <2>3 DEF IInv, Pairing, Syncs
    <3>2. NoSyncs /\ Unmarked(line)
      BY <3>1, EmptyLength DEF NoSyncs, Unmarked
    <3> QED
      BY <2>1, <3>1, <3>2 DEF Unclear, Nothing, Unmarked
  <2> QED
    BY <2>2, <2>3
<1>4. off' \in Nat /\ size' \in Nat /\ line' \in Seq(Cells) /\ unsynced' \in BOOLEAN /\ turn \in {"drain", "sync", "state"}
  BY <1>1, <1>2 DEF Typed
<1>5. ReadsTheFile' /\ NegotiatesTruly' /\ Samples'
  BY <1>1 DEF IInv, ReadsTheFile, EveryFileIsRead, NegotiatesTruly, Samples
<1>6. op \in {"negotiate", "read", "poll"}
  BY ConstantsAssumption
<1>7. SUFFICES ASSUME NEW next \in {"sync1", "stat", "txlen", "recover", "running"}, Send(next, 0),
                      next = "sync1" <=> op = "negotiate", next \in Syncs \/ Doubtful => unsynced' \/ next \in Syncs
               PROVE  IInv'
  <2>1. CASE op = "negotiate"
    BY <1>7, <2>1 DEF Start, Syncs
  <2>2. CASE op = "read"
    BY <1>1, <1>7, <2>2 DEF Start, Doubtful
  <2>3. CASE op = "poll" /\ turn = "drain"
    BY <1>1, <1>7, <2>3 DEF Start, Doubtful
  <2>4. CASE op = "poll" /\ turn = "sync"
    BY <1>1, <1>7, <2>4 DEF Start, Syncs
  <2>5. CASE op = "poll" /\ turn = "state"
    BY <1>1, <1>7, <2>5 DEF Start, Doubtful
  <2> QED
    BY <1>4, <1>6, <2>1, <2>2, <2>3, <2>4, <2>5
<1>8. /\ Pairing' /\ inbox' \in Seq(Commands) /\ got' \in Seq(Cells) /\ sent' \in Nat
      /\ step' = next
  <2>1. CASE next \in Syncs
    BY <1>2, <1>3, <1>4, <1>7, <2>1, MarkerPairs
  <2>2. CASE next \notin Syncs
    <3>1. next \in Exchanges \ Syncs
      BY <2>2 DEF Exchanges
    <3>2. Nothing \/ (Unclear /\ unsynced')
      BY <1>1, <1>3, <1>7, <2>2 DEF Syncs
    <3> QED
      BY <1>1, <1>2, <1>4, <1>7, <3>1, <3>2, NextPairs
  <2> QED
    BY <2>1, <2>2
<1>9. next \in Exchanges
  BY DEF Exchanges
<1>10. Typed'
  BY <1>1, <1>2, <1>4, <1>8, <1>9 DEF Typed
<1>11. First'
  BY <1>1, <1>2, <1>7, <1>8 DEF First, Negotiating
<1>12. Progress'
  BY <1>1, <1>8, <1>11 DEF Progress
<1> QED
  BY <1>5, <1>8, <1>10, <1>12 DEF IInv

(* A Sync that is left out leaves a doubt.                                 *)
LEMMA PassTurnKeeps ==
  ASSUME IInv, PassTurn
  PROVE  IInv'
<1>1. /\ step = "idle" /\ turn # "drain" /\ turn' = "drain" /\ unsynced' = (unsynced \/ turn = "sync")
      /\ UNCHANGED <<inbox, line, sent, step, got, off, size, out, profile, exposed, mixed, read>>
  BY DEF PassTurn
<1>2. Typed /\ Pairing /\ Progress /\ profile.kind # "none"
  BY <1>1 DEF IInv, Progress, First
<1>3. Stream' = Stream /\ Shifted' = Shifted /\ Doubtful' = Doubtful
  BY <1>1 DEF Stream, Shifted, NoSyncs, Unmarked, Doubtful
<1>4. Typed'
  BY <1>1, <1>2 DEF Typed
<1>5. Pairing'
  BY <1>1, <1>2, <1>3 DEF Pairing, Syncs
<1>6. Progress'
  BY <1>1, <1>2 DEF Progress, First, Negotiating
<1> QED
  BY <1>1, <1>4, <1>5, <1>6 DEF IInv, ReadsTheFile, EveryFileIsRead, NegotiatesTruly, Samples

-----------------------------------------------------------------------------
(* The board.                                                              *)
LEMMA ServeKeeps ==
  ASSUME IInv, Serve
  PROVE  IInv'
<1> DEFINE c == inbox[1]
<1>1. Typed /\ Pairing /\ inbox # <<>>
  BY DEF IInv, Serve
<1>2. inbox \in Seq(Commands) /\ line \in Seq(Cells) /\ got \in Seq(Cells) /\ sent \in Nat
  BY <1>1 DEF Typed
<1>3. Head(inbox) = c /\ Len(inbox) \in Nat /\ Len(inbox) >= 1
  BY <1>1, <1>2
<1>4. c \in Commands
  BY <1>2, <1>3
<1>5. PICK r \in RepliesOf(c) : line' = line \o [i \in DOMAIN r |-> [req |-> c.req, val |-> r[i]]]
  BY <1>3 DEF Serve
<1>6. UNCHANGED <<sent, step, got, turn, off, size, out, profile, unsynced, exposed, mixed, read>>
          /\ inbox' = Tail(inbox)
  BY DEF Serve
<1>7. /\ r \in Seq(Nat) /\ (c.of \in Syncs => r = <<Magic>>) /\ (c.of \notin Syncs => Plain(r))
      /\ (r = <<>> => c.of = "tx")
  BY <1>4, Answers
<1>8. inbox' \in Seq(Commands) /\ Len(inbox') = Len(inbox) - 1
          /\ \A i \in 1 .. Len(inbox') : inbox'[i] = inbox[i + 1]
  BY <1>1, <1>2, <1>6, HeadTailProperties
<1> DEFINE cs == [i \in DOMAIN r |-> [req |-> c.req, val |-> r[i]]]
<1>9. Len(r) \in Nat /\ DOMAIN r = 1 .. Len(r) /\ c.req \in Nat /\ \A i \in 1 .. Len(r) : r[i] \in Nat
  BY <1>4, <1>7, LenProperties, ElementOfSeq DEF Commands
<1>10. /\ cs \in Seq(Cells) /\ Len(cs) = Len(r)
       /\ \A i \in 1 .. Len(r) : cs[i] = [req |-> c.req, val |-> r[i]] /\ cs[i].val = r[i]
  BY <1>9 DEF Cells
<1> HIDE DEF cs, c
<1>11. line' = line \o cs
  BY <1>5 DEF cs
<1>12. line' \in Seq(Cells) /\ Len(line') = Len(line) + Len(r)
  <2>1. line \o cs \in Seq(Cells) /\ Len(line \o cs) = Len(line) + Len(cs)
    BY <1>2, <1>10, ConcatProperties
  <2> QED
    BY <1>10, <1>11, <2>1
<1>13. Stream' = Stream \o cs /\ Stream \in Seq(Cells)
  <2>1. (got \o line) \o cs = got \o (line \o cs)
    BY <1>2, <1>10, ConcatAssociative
  <2> QED
    BY <1>1, <1>6, <1>11, <2>1, StreamHasLine DEF Stream
<1>14. /\ Len(Stream') = Len(Stream) + Len(r) /\ Len(Stream) \in Nat
       /\ \A i \in 1 .. Len(Stream) + Len(r) :
             Stream'[i] = IF i <= Len(Stream) THEN Stream[i] ELSE cs[i - Len(Stream)]
  <2>1. /\ Len(Stream \o cs) = Len(Stream) + Len(cs)
        /\ \A i \in 1 .. Len(Stream) + Len(cs) :
             (Stream \o cs)[i] = IF i <= Len(Stream) THEN Stream[i] ELSE cs[i - Len(Stream)]
    <3>1. Stream \in Seq(Cells) /\ cs \in Seq(Cells)
      BY <1>10, <1>13
    <3> QED
      BY <3>1, ConcatProperties
  <2> QED
    BY <1>10, <1>13, <2>1, LenProperties
<1>15. \A i \in 1 .. Len(Stream) : Stream'[i] = Stream[i]
  BY <1>9, <1>14
<1>16. \A i \in 1 .. Len(Stream') : i <= Len(Stream)
           \/ (i - Len(Stream) \in 1 .. Len(r) /\ Stream'[i].val = r[i - Len(Stream)])
  <2> SUFFICES ASSUME NEW i \in 1 .. Len(Stream'), ~(i <= Len(Stream))
               PROVE  i - Len(Stream) \in 1 .. Len(r) /\ Stream'[i].val = r[i - Len(Stream)]
    OBVIOUS
  <2>1. i - Len(Stream) \in 1 .. Len(r)
    BY <1>9, <1>14
  <2>2. Stream'[i] = cs[i - Len(Stream)]
    BY <1>9, <1>14
  <2> QED
    BY <1>10, <2>1, <2>2
<1>17. Typed' /\ Progress' /\ ReadsTheFile' /\ NegotiatesTruly' /\ Samples' /\ Expected' = Expected
  BY <1>6, <1>8, <1>12 DEF IInv, Typed, Progress, First, ReadsTheFile, EveryFileIsRead, NegotiatesTruly,
     Samples, Expected
<1>18. ASSUME Unmarked(Stream), c.of \notin Syncs
       PROVE  Unmarked(Stream')
  <2> SUFFICES ASSUME NEW i \in 1 .. Len(Stream')
               PROVE  Stream'[i].val # Magic
    BY DEF Unmarked
  <2>1. CASE i <= Len(Stream)
    BY <1>14, <1>15, <1>18, <2>1 DEF Unmarked
  <2>2. CASE ~(i <= Len(Stream))
    BY <1>7, <1>16, <1>18, <2>2 DEF Plain
  <2> QED
    BY <2>1, <2>2
<1>19. step # "idle" \/ Doubtful
  BY <1>1 DEF Pairing, Syncs
<1>23. ASSUME Shifted
       PROVE  Shifted' /\ c.of \notin Syncs
  <2>1. Unmarked(Stream) /\ \A i \in 1 .. Len(inbox) : inbox[i].of \notin Syncs
    BY <1>23 DEF Shifted, NoSyncs
  <2>2. 1 \in 1 .. Len(inbox)
    BY <1>3
  <2>3. c.of \notin Syncs
    BY <2>1, <2>2 DEF c
  <2>4. Unmarked(Stream')
    BY <1>18, <2>1, <2>3
  <2>5. \A i \in 1 .. Len(inbox') : i + 1 \in 1 .. Len(inbox)
    BY <1>3, <1>8
  <2>6. \A i \in 1 .. Len(inbox') : inbox'[i].of \notin Syncs
    BY <1>8, <2>1, <2>5
  <2> QED
    BY <2>3, <2>4, <2>6 DEF Shifted, NoSyncs, Unmarked
<1>20. CASE step \in Syncs
  <2>1. MarkerAsked
    BY <1>1, <1>20 DEF Pairing, Syncs, MarkerComing
  <2>2. CASE Len(inbox) = 1
    <3>1. r = <<Magic>> /\ Len(r) = 1 /\ r[1] = Magic
      BY <1>7, <1>20, <2>1, <2>2 DEF MarkerAsked, c
    <3>2. inbox' = <<>>
      BY <1>8, <2>2
    <3>3. line' # <<>>
      BY <1>2, <1>12, <3>1, EmptyLength
    <3>4. Stream'[Len(Stream')].val = Magic
      BY <1>14, <1>16, <3>1
    <3>5. \A i \in 1 .. Len(Stream') - 1 : Stream'[i].val # Magic
      BY <1>14, <1>15, <2>1, <3>1 DEF MarkerAsked, Unmarked
    <3>6. MarkerComing'
      BY <3>2, <3>3, <3>4, <3>5 DEF MarkerComing
    <3> QED
      BY <1>6, <1>17, <1>20, <3>6 DEF IInv, Pairing, Syncs
  <2>3. CASE Len(inbox) # 1
    <3>1. Len(inbox) - 1 \in Nat /\ Len(inbox) - 1 >= 1 /\ 1 \in 1 .. Len(inbox) - 1
      BY <1>3, <2>3, Several
    <3>2. c.of \notin Syncs
      BY <2>1, <3>1 DEF MarkerAsked, c
    <3>3. Unmarked(Stream')
      BY <1>18, <2>1, <3>2 DEF MarkerAsked
    <3>4. inbox' # <<>> /\ inbox'[Len(inbox')] = inbox[Len(inbox)]
      BY <1>3, <1>8, <3>1, EmptyLength
    <3>5. \A i \in 1 .. Len(inbox') - 1 : i \in 1 .. Len(inbox') /\ i + 1 \in 1 .. Len(inbox) - 1
      BY <1>3, <1>8, <3>1
    <3>6. \A i \in 1 .. Len(inbox') - 1 : inbox'[i].of \notin Syncs
      BY <1>8, <2>1, <3>5 DEF MarkerAsked
    <3>7. MarkerAsked'
      BY <1>6, <2>1, <3>3, <3>4, <3>6 DEF MarkerAsked
    <3> QED
      BY <1>6, <1>17, <1>20, <3>7 DEF IInv, Pairing, Syncs
  <2> QED
    BY <2>2, <2>3
<1>21. CASE step \notin Syncs \cup {"idle"} /\ ~unsynced /\ Aligned
  <2>1. Asked
    BY <1>1, <1>21 DEF Aligned, Answering
  <2>2. Stream = <<>> /\ Len(Stream) = 0 /\ Len(inbox) = 1 /\ c.req = sent /\ r \in Expected
    BY <2>1, EmptyLength DEF Asked, c
  <2>3. inbox' = <<>>
    BY <1>8, <2>2
  <2>4. Stream' = cs
    BY <1>10, <1>13, <2>2, ConcatEmptySeq
  <2>5. IsReply(Stream, r)'
    BY <1>6, <1>10, <2>2, <2>4 DEF IsReply
  <2>6. line' = <<>> => r = <<>>
    BY <1>2, <1>7, <1>9, <1>12, EmptyLength
  <2>7. Answering'
    BY <1>17, <2>2, <2>3, <2>5, <2>6 DEF Answering
  <2> QED
    BY <1>6, <1>17, <1>21, <2>7 DEF IInv, Pairing, Aligned
<1>22. CASE step = "caps" /\ ~unsynced /\ VersionFirst
  <2>1. Shifted /\ Shifted' /\ capProtocolVersion \notin VersionParts
    BY <1>22, <1>23 DEF VersionFirst
  <2>7. Stream' # <<>> /\ Stream'[1].val \in VersionParts
    <3>1. CASE Stream = <<>>
      <4>1. c.of = "version"
        BY <1>22, <3>1 DEF VersionFirst, c
      <4>2. PICK x, y, z \in VersionParts : r = <<x, y, z>> /\ Len(r) = 3 /\ r[1] = x /\ r[2] = y /\ r[3] = z
        BY <1>4, <4>1, Versions
      <4>3. Len(r) = 3 /\ r[1] \in VersionParts /\ Len(Stream) = 0
        BY <3>1, <4>2, EmptyLength
      <4>4. Len(Stream') = 3
        BY <1>14, <4>3
      <4>5. 1 \in 1 .. Len(Stream') /\ ~(1 <= Len(Stream)) /\ 1 - Len(Stream) = 1
        BY <4>3, <4>4
      <4>6. Stream'[1].val = r[1 - Len(Stream)]
        BY <1>16, <4>5
      <4>7. Stream'[1].val = r[1]
        BY <4>5, <4>6
      <4>8. Stream' # <<>>
        BY <4>4, EmptyLength
      <4> QED
        BY <4>3, <4>7, <4>8
    <3>2. CASE Stream # <<>>
      <4>1. Len(Stream) # 0
        BY <1>13, <3>2
      <4>2. 1 \in 1 .. Len(Stream) /\ Len(Stream') # 0
        BY <1>9, <1>14, <4>1
      <4> QED
        BY <1>15, <1>22, <3>2, <4>2, EmptyLength DEF VersionFirst
    <3> QED
      BY <3>1, <3>2
  <2>8. VersionFirst'
    BY <2>1, <2>7 DEF VersionFirst
  <2> QED
    BY <1>6, <1>17, <1>22, <2>8 DEF IInv, Pairing, Syncs
<1>24. CASE (step \notin Syncs \cup {"idle"} /\ unsynced) \/ (step = "idle" /\ Doubtful)
  <2>1. Shifted
    BY <1>1, <1>24 DEF Pairing, Syncs
  <2>2. Shifted' /\ got' = got /\ step' = step /\ unsynced' = unsynced /\ Doubtful' = Doubtful
    BY <1>6, <1>23, <2>1 DEF Doubtful
  <2>3. Pairing'
    BY <1>1, <1>24, <2>2 DEF Pairing, Syncs
  <2> QED
    BY <1>17, <2>3 DEF IInv
<1> QED
  BY <1>1, <1>19, <1>20, <1>21, <1>22, <1>24 DEF Pairing

-----------------------------------------------------------------------------
(* Every step keeps the invariant.                                         *)
LEMMA Initially ==
  ASSUME LinkHypothesis, Init
  PROVE  IInv
<1>1. PICK n \in 0 .. MaxNoise : line = [i \in 1 .. n |-> [req |-> 0, val |-> Junk]]
  BY DEF Init
<1>2. n \in Nat /\ MaxNoise \in Nat /\ (MaxNoise = 0 => n = 0)
  BY ConstantsAssumption
<1>3. [req |-> 0, val |-> Junk] \in Cells /\ [req |-> 0, val |-> Junk].val # Magic
  BY DEF Cells, Junk, Big, Magic
<1>4. line \in Seq(Cells) /\ Len(line) = n /\ \A i \in 1 .. n : line[i].val # Magic
  BY <1>1, <1>2, <1>3
<1>5. line = <<>> \/ (profile.kind = "none" /\ Unmarked(line))
  <2>1. CASE "negotiate" \in Operations
    <3>1. profile.kind = "none"
      BY <2>1 DEF Init, Profile
    <3> QED
      BY <1>4, <3>1 DEF Unmarked
  <2>2. CASE MaxNoise = 0
    BY <1>2, <1>4, <2>2
  <2> QED
    BY <2>1, <2>2 DEF LinkHypothesis
<1>6. /\ inbox = <<>> /\ got = <<>> /\ sent = 0 /\ step = "idle" /\ turn = "drain" /\ off = 0 /\ size = 0
      /\ unsynced = FALSE /\ exposed = FALSE /\ mixed = {} /\ read = <<"none">> /\ NegotiatesTruly
  BY DEF Init, NegotiatesTruly
<1>9. unsynced \in BOOLEAN /\ exposed \in BOOLEAN
  BY <1>6
<1>10. inbox \in Seq(Commands) /\ got \in Seq(Cells)
  BY <1>6
<1>11. sent \in Nat /\ off \in Nat /\ size \in Nat /\ turn \in {"drain", "sync", "state"}
  BY <1>6
<1>7. Typed
  BY <1>4, <1>6, <1>9, <1>10, <1>11 DEF Typed
<1>8. Pairing
  BY <1>5, <1>6 DEF Pairing, Doubtful, Syncs
<1> QED
  BY <1>6, <1>7, <1>8 DEF IInv, Progress, First, Negotiating, ReadsTheFile, EveryFileIsRead, Samples

(* A step of the host or of the board.                                     *)
LEMMA StepKeeps ==
  ASSUME LinkHypothesis, IInv, [Next]_vars
  PROVE  IInv'
<1>1. CASE Serve
  BY <1>1, ServeKeeps
<1>2. CASE Timeout
  BY <1>2, TimeoutKeeps
<1>3. ASSUME NEW n \in 1 .. Len(line), Receive(n)
      PROVE  IInv'
  BY <1>3, ReceiveKeeps
<1>4. ASSUME NEW op \in Operations, Start(op)
      PROVE  IInv'
  BY <1>4, StartKeeps
<1>6. CASE PassTurn
  BY <1>6, PassTurnKeeps
<1>5. CASE UNCHANGED vars
  <2>1. UNCHANGED <<inbox, line, sent, step, got, turn, off, size, out, profile, unsynced, exposed, mixed, read>>
    BY <1>5 DEF vars
  <2>2. Stream' = Stream /\ Expected' = Expected /\ Doubtful' = Doubtful
    BY <2>1 DEF Stream, Expected, Doubtful
  <2>4. Shifted' = Shifted
    BY <2>1, <2>2 DEF Shifted, NoSyncs, Unmarked
  <2>3. Aligned' = Aligned /\ MarkerAsked' = MarkerAsked /\ MarkerComing' = MarkerComing
            /\ VersionFirst' = VersionFirst
    BY <2>1, <2>2, <2>4 DEF Aligned, Asked, Answering, MarkerAsked, MarkerComing, VersionFirst,
       IsReply, Unmarked
  <2>5. Pairing' = Pairing
    BY <2>1, <2>2, <2>3, <2>4 DEF Pairing, Unmarked
  <2> QED
    BY <2>1, <2>5 DEF IInv, Typed, Progress, First, ReadsTheFile, EveryFileIsRead, NegotiatesTruly, Samples
<1> QED
  BY <1>1, <1>2, <1>3, <1>4, <1>5, <1>6 DEF Next, Host

(* The inductive invariant holds in every reachable state.                 *)
THEOREM Invariant ==
  ASSUME LinkHypothesis
  PROVE  Spec => []IInv
<1>1. Init => IInv
  BY Initially
<1>2. IInv /\ [Next]_vars => IInv'
  BY StepKeeps
<1> QED
  BY <1>1, <1>2, PTL DEF Spec

(* Under the hypothesis, a file is read as it is or not at all: no reply   *)
(* to another command ends up in its bytes, however late the replies of    *)
(* the read itself and of the operations before it come and whatever       *)
(* chunks the port delivers (ReadFileAll), unless the read began while a   *)
(* Sync was missing.                                                       *)
THEOREM FilesAreRead ==
  ASSUME LinkHypothesis
  PROVE  Spec => []ReadsTheFile
<1>1. IInv => ReadsTheFile
  BY DEF IInv
<1> QED
  BY <1>1, Invariant, PTL

(* Under the hypothesis, no exchange of an operation that began with no    *)
(* Sync missing takes a foreign cell for its reply; what the poller        *)
(* publishes of the script's state and output is then the answer to its    *)
(* own questions (DrainTxBuf, ScriptRunning).                              *)
THEOREM SamplesArePairs ==
  ASSUME LinkHypothesis
  PROVE  Spec => [](SamplesArePaired /\ Samples)
<1>1. IInv => SamplesArePaired /\ Samples
  BY DEF IInv, SamplesArePaired, EverySampleIsPaired, Samples
<1> QED
  BY <1>1, Invariant, PTL

(* Under the hypothesis, a board with the capability protocol is never     *)
(* taken for a legacy one, nor its capabilities for others, in spite of    *)
(* stale bytes on the line and whatever the version (Negotiate): a late    *)
(* version is only excluded if it may look like capabilities.              *)
THEOREM NegotiationIsTrue ==
  ASSUME LinkHypothesis
  PROVE  Spec => []NegotiatesTruly
<1>1. IInv => NegotiatesTruly
  BY DEF IInv
<1> QED
  BY <1>1, Invariant, PTL

(* What follows a Sync is asked with nothing before it.                    *)
LEMMA SyncIsFollowed ==
  ASSUME Typed, step \in Syncs, inbox = <<>>, NEW ok \in BOOLEAN, NEW v, Continue(ok, v, <<>>)
  PROVE  NothingOlder'
<1>1. ASSUME NEW next, NEW arg, Send(next, arg)
      PROVE  \A i \in DOMAIN inbox' : inbox'[i].req = sent'
  <2> DEFINE c == [of |-> next, arg |-> arg, req |-> sent']
  <2>1. inbox' = Append(<<>>, c)
    BY <1>1 DEF Send
  <2>2. inbox' = <<c>> /\ c.req = sent'
    BY <2>1
  <2> HIDE DEF c
  <2> QED
    BY <2>2
<1>2. ASSUME Over
      PROVE  \A i \in DOMAIN inbox' : inbox'[i].req = sent'
  BY <1>2 DEF Over
<1>3. ASSUME Drain(<<>>)
      PROVE  line' = <<>>
  <2>1. PICK n \in 0 .. 0 : line' = SubSeq(<<>>, n + 1, 0)
    BY <1>3 DEF Drain
  <2> QED
    BY <2>1, SubSeqEmpty
<1>4. step \in {"sync1", "sync2", "resync", "recover"}
  BY DEF Syncs
<1>5. CASE step = "sync1"
  BY <1>1, <1>5 DEF Continue, Negotiate, NothingOlder
<1>6. CASE step = "sync2"
  BY <1>1, <1>3, <1>6 DEF Continue, Negotiate, NothingOlder
<1>7. CASE step = "resync"
  BY <1>1, <1>2, <1>7 DEF Continue, ReadFileAll, Failed, NothingOlder
<1>8. CASE step = "recover"
  BY <1>1, <1>2, <1>8 DEF Continue, Poll, NothingOlder
<1> QED
  BY <1>4, <1>5, <1>6, <1>7, <1>8

(* "After Sync returns nil the next framed reply read by the caller is     *)
(* byte-aligned" (board.go:240-241): no earlier reply is still to come.    *)
THEOREM SyncsAlign ==
  ASSUME LinkHypothesis
  PROVE  Spec => SyncAligns
<1>1. ASSUME IInv, [Next]_vars, SyncReturns
      PROVE  NothingOlder'
  <2>1. step \in Syncs /\ step' # step /\ Typed
    BY <1>1 DEF SyncReturns, IInv
  <2>2. ~Timeout
    BY <1>1, <2>1, TimeoutKeeps
  <2>3. ~Serve /\ ~UNCHANGED vars
    BY <2>1 DEF Serve, vars
  <2>4. ASSUME NEW op \in Operations, Start(op)
        PROVE  FALSE
    BY <2>1, <2>4 DEF Start, Syncs
  <2>9. ~PassTurn
    BY <2>1 DEF PassTurn, Syncs
  <2>5. PICK n \in 1 .. Len(line) : Receive(n)
    BY <1>1, <2>2, <2>3, <2>4, <2>9 DEF Next, Host
  <2>6. Complete(Val(Taken(n)))
    BY <2>1, <2>5 DEF Receive, Taken
  <2>7. inbox = <<>> /\ Left(n) = <<>>
    BY <1>1, <2>1, <2>5, <2>6, Completes
  <2>8. Continue(Accepted(Val(Taken(n))), Val(Taken(n)), <<>>)
    <3>1. Continue(Accepted(Val(Taken(n))), Val(Taken(n)), Left(n))
      BY <2>5, <2>6 DEF Receive, Taken, Left
    <3> QED
      BY <2>7, <3>1
  <2> QED
    BY <2>1, <2>7, <2>8, AcceptedIsBoolean, SyncIsFollowed
<1>2. IInv /\ [Next]_vars => [SyncReturns => NothingOlder']_vars
  BY <1>1
<1> QED
  BY <1>2, Invariant, PTL DEF Spec, SyncAligns
==============================================================================
