CONSTANTS
  Main = main
  None = none
  Setups = {}
  Pollers = {p1, p2}
  Previews = {}
  Requests = {"connect", "run", "stopPreview"}
  LinkErrorLimit = 2
  FileSize = 1
  MaxBoards = 1
  MaxSeq = 1
  MaxWrites = 0
SPECIFICATION Spec
INVARIANT EndCanBePublished
