SPECIFICATION Spec
CONSTANTS
  Runners = {r1}
  NoRunner = none
  Timely = TRUE
  MaxDeliver = 5
  ChatterAt = {}
  MaxCancels = 1
  Faults = {}
  MaxFaults = 0
PROPERTY TerminalIsFinal
