SPECIFICATION FairSpec
CONSTANTS
  AutoReconnect = TRUE
  Bridge = TRUE
  OpenMayFail = TRUE
  MayTear = TRUE
  MaxProcs = 3
  MaxAsked = 6
INVARIANTS
  OneBackend
  NoStrandedRequest
  NoOrphanBackend
  ReadyIsNotLost
PROPERTIES
  BusyEnds
  BridgeAnswers
CHECK_DEADLOCK FALSE
