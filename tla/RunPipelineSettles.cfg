SPECIFICATION FairSpec
CONSTANTS
  Runners = {r1}
  NoRunner = none
  Timely = TRUE
  MaxDeliver = 2
  ChatterAt = {}
  MaxCancels = 1
  Faults = {"crash", "stop", "publish", "ack", "error", "cancel", "analysis"}
  MaxFaults = 1
CONSTRAINT CancelChatterOrFault
PROPERTIES Settles SparesTheWorking CancelReachesRunner
