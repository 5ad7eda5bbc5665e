SPECIFICATION Spec
CONSTANTS Calls = {c1, c2}
          Idler = Idler
          None = None
          MaxWire = 2
          MaxBackends = 2
INVARIANT BoardNeedsBackend
PROPERTY IdleSessionEnds
CHECK_DEADLOCK FALSE
