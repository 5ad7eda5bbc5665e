SPECIFICATION Spec
CONSTANTS
  AutoReconnect = TRUE
  Bridge = TRUE
  OpenMayFail = FALSE
  MayTear = FALSE
  MaxProcs = 2
  MaxAsked = 6
INVARIANTS
  ConnectedStaysOpen
CHECK_DEADLOCK FALSE
