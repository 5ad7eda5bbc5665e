SPECIFICATION Spec
CONSTANTS Windows = {w1, w2}
          Services = {s1, s2, s3}
          Ports = {p1, p2}
          None = None
          MaxChange = 0
          MaxFaults = 0
          EarlyChange = FALSE
          Closing = {w2}
PROPERTY ServiceRuns
CHECK_DEADLOCK FALSE
