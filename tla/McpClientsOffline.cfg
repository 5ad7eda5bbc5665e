SPECIFICATION Spec
CONSTANTS Urls = {u1, u2}
          Relay = Relay
          None = None
          Kids = {k1, k2, k3}
          MaxChanges = 4
          MaxFaults = 2
          HostChangesOffline = TRUE
INVARIANT RegisteredAtRest
CHECK_DEADLOCK FALSE
