SPECIFICATION FairSpec
CONSTANTS
  VersionParts = {1}
  Slow = {"sync1"}
  Operations = {"negotiate"}
  MaxTimeouts = 1
  MaxOps = 1
  MaxNoise = 6
INVARIANTS
  NegotiatesTruly
CHECK_DEADLOCK FALSE
