SPECIFICATION Spec
CONSTANTS Urls = {u1, u2}
          Relay = Relay
          None = None
          Kids = {k1, k2, k3}
          MaxChanges = 3
          MaxFaults = 2
          HostChangesOffline = FALSE
INVARIANT RegisteredAtRest
INVARIANT RelayIsCurrent
INVARIANT NoStrayRelay
CHECK_DEADLOCK FALSE
