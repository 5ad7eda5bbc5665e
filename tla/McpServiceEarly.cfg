SPECIFICATION Spec
CONSTANTS Windows = {w1, w2}
          Services = {s1, s2, s3}
          Ports = {p1, p2}
          None = None
          MaxChange = 1
          MaxFaults = 1
          EarlyChange = TRUE
          Closing = {w2}
INVARIANT ServedAtRest
CHECK_DEADLOCK FALSE
