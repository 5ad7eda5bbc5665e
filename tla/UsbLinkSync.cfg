SPECIFICATION Spec
CONSTANTS
  VersionParts = {1}
  Slow = {"txlen", "recover"}
  Operations = {"poll"}
  MaxTimeouts = 3
  MaxOps = 4
  MaxNoise = 0
PROPERTIES
  SyncAligns
CHECK_DEADLOCK FALSE
