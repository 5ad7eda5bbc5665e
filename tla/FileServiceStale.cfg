SPECIFICATION Spec
CONSTANTS
  Callers = {c1, c2}
  Paths = {small, large, copy}
  OwnPaths = {large, copy}
  ScriptPaths = {}
  Contents <- TwoChunks
  ScriptContents <- OneChunk
  Stamps = {"none"}
  LateBegin = FALSE
  MaxCalls = 3
  MaxClock = 5
INVARIANT NoEntryIsStale
