SPECIFICATION Spec
CONSTANTS
  AutoReconnect = TRUE
  Bridge = FALSE
  OpenMayFail = FALSE
  MayTear = FALSE
  MaxProcs = 2
  MaxAsked = 6
INVARIANTS
  ConnectedHasBoard
CHECK_DEADLOCK FALSE
