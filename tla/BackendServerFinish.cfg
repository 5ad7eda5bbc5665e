CONSTANTS
  Main = main
  None = none
  Setups = {c1}
  Pollers = {p1, p2}
  Previews = {}
  Requests = {"connect","run","stop"}
  LinkErrorLimit = 2
  FileSize = 1
  MaxBoards = 1
  MaxSeq = 1
  MaxWrites = 0
SPECIFICATION AnsweringSpec
PROPERTY ScriptEndIsPublished
