SPECIFICATION Spec
CONSTANTS Procs = {p1, p2}
          Afters = {f1, f2}
          MaxCommands = 3
          MaxFaults = 2
          Faults = {"late", "timeout", "run", "stop", "lost"}
          Coalesced = FALSE
INVARIANT RunningIsCurrent
INVARIANT AutomaticIsWanted
INVARIANT StreamIsShown
CHECK_DEADLOCK FALSE
