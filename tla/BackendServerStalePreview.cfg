CONSTANTS
  Main = main
  None = none
  Setups = {}
  Pollers = {p1, p2}
  Previews = {v1, v2}
  Requests = {"connect", "startPreview"}
  LinkErrorLimit = 2
  FileSize = 1
  MaxBoards = 2
  MaxSeq = 0
  MaxWrites = 0
SPECIFICATION Spec
INVARIANT StartedMeansStreaming
