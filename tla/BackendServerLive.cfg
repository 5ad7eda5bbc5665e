CONSTANTS
  Main = main
  None = none
  Setups = {c1}
  Pollers = {p1, p2}
  Previews = {}
  Requests = {"connect", "run", "stopPreview", "beginWrite", "chunk", "finish", "fsOp"}
  LinkErrorLimit = 2
  FileSize = 1
  MaxBoards = 1
  MaxSeq = 1
  MaxWrites = 1
SPECIFICATION FairSpec
INVARIANT UploadUndisturbed
INVARIANT SetupSparesUserScript
PROPERTY EveryRequestAnswered
PROPERTY StoppedWorkersEnd
