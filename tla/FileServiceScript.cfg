SPECIFICATION FairSpec
CONSTANTS
  Callers = {c1, c2}
  Paths = {small, large, copy}
  OwnPaths = {large, copy}
  ScriptPaths = {large}
  Contents <- TwoChunks
  ScriptContents <- TwoChunks
  Stamps = {"fine"}
  LateBegin = FALSE
  MaxCalls = 3
  MaxClock = 5
INVARIANT CacheIsCurrent
