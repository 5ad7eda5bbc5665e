----------------------------- MODULE AtomicFiles -----------------------------
(***************************************************************************)
(* What the file service promises its callers: the board's files change    *)
(* one operation at a time, and a read answers with the content that the   *)
(* file has when the read ends, never with an older or a mixed one.  Only  *)
(* a file that is being changed can become one that changed unseen, about  *)
(* which a read promises nothing.                                          *)
(***************************************************************************)
CONSTANTS Paths, Absent

VARIABLES files,   \* [Paths -> content or Absent]
          answer,  \* the last answer to a read: <<path, content>>, or <<>>
          unseen   \* files that changed unseen

filesVars == <<files, answer, unseen>>

FilesInit == answer = <<>> /\ unseen = {}

(* Of the files in S some may have changed unseen, others are forgotten.   *)
Unseen(S) == unseen' \subseteq unseen \cup S

Read(p) ==
  /\ files[p] # Absent
  /\ answer' # <<>> /\ answer'[1] = p
  /\ p \notin unseen => answer'[2] = files[p]
  /\ Unseen({})
  /\ UNCHANGED files

(* A write, a failed write, a deletion, a script of the board.             *)
Change(p) ==
  /\ \A q \in Paths \ {p} : files'[q] = files[q]
  /\ Unseen({p})
  /\ UNCHANGED answer

(* A directory is removed with what it holds.                              *)
RemoveAll ==
  /\ files' = [p \in Paths |-> Absent]
  /\ Unseen({})
  /\ UNCHANGED answer

Move(p, q) ==
  /\ files' = [files EXCEPT ![q] = files[p], ![p] = Absent]
  /\ Unseen({p, q})
  /\ UNCHANGED answer

Forget == Unseen({}) /\ UNCHANGED <<files, answer>>

FilesNext ==
  \/ RemoveAll \/ Forget
  \/ \E p \in Paths : Read(p) \/ Change(p)
  \/ \E p, q \in Paths : Move(p, q)

FilesSpec == FilesInit /\ [][FilesNext]_filesVars
=============================================================================
