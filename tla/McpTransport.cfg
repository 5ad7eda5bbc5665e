SPECIFICATION Spec
CONSTANTS Calls = {c1, c2}
          Sockets = {s1, s2}
          Procs = {p1}
          Ids = {i1, i2}
          None = None
          Configured = TRUE
          Required = TRUE
          MaxQueue = 1
INVARIANTS OwnAnswers NobodyStranded
CHECK_DEADLOCK FALSE
