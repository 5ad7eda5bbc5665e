SPECIFICATION FairSpec
CONSTANTS
  Callers = {c1, c2}
  Paths = {small, large, copy}
  OwnPaths = {large, copy}
  ScriptPaths = {small}
  Contents <- TwoChunks
  ScriptContents <- OneChunk
  Stamps = {"none", "fine"}
  LateBegin = FALSE
  MaxCalls = 3
  MaxClock = 5
INVARIANTS CacheIsCurrent NoStrandedWrite
PROPERTIES ReadsAreAtomic OperationsEnd
