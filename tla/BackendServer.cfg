CONSTANTS
  Main = main
  None = none
  Setups = {c1}
  Pollers = {p1, p2}
  Previews = {v1, v2}
  Requests = {"connect", "disconnect", "run", "stop", "startPreview", "eof"}
  LinkErrorLimit = 2
  FileSize = 1
  MaxBoards = 1
  MaxSeq = 1
  MaxWrites = 0
SPECIFICATION Spec
SYMMETRY Symmetry
INVARIANT TypeOK
INVARIANT BoardOperationsExclusive
INVARIANT SessionEndsOnce
INVARIANT BoardIsWatched
INVARIANT NoOrphanPreview
