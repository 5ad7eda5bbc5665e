SPECIFICATION Spec
CONSTANTS
  AutoReconnect = TRUE
  Bridge = FALSE
  OpenMayFail = FALSE
  MayTear = TRUE
  MaxProcs = 4
  MaxAsked = 8
INVARIANTS
  ConnectedStaysOpen
  ReplyMatchesRequest
CHECK_DEADLOCK FALSE
