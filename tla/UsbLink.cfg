SPECIFICATION FairSpec
CONSTANTS
  VersionParts = {0, 1}
  Slow = {"version", "caps", "full", "stat", "read", "reread", "txlen", "tx", "running"}
  Operations = {"negotiate", "read", "poll"}
  MaxTimeouts = 3
  MaxOps = 6
  MaxNoise = 5
INVARIANTS
  ReadsTheFile
  SamplesArePaired
  NegotiatesTruly
PROPERTIES
  SyncAligns
CHECK_DEADLOCK FALSE
