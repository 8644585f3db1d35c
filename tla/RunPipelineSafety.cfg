SPECIFICATION Spec
CONSTANTS
  Runners = {r1}
  NoRunner = none
  Timely = FALSE
  MaxDeliver = 2
  ChatterAt = {0, 1, 2}
  MaxCancels = 1
  Faults = {"crash", "stop", "publish", "ack", "error", "cancel", "analysis"}
  MaxFaults = 1
CONSTRAINT CancelChatterOrFault
INVARIANTS TypeOK CompletedIsEarned CancelledIsAsked FinishedCloses FinalizeIsLegal
