SPECIFICATION Spec
CONSTANTS
  MaxEvents = 4
  MaxSamples = 4
  Script <- WholeRun
  FirstState = "QUEUED"
  QueueSize = 6
  SnapshotEvents = 2
  SnapshotTelemetry = 2
  Exists = TRUE
  Faults = {}
  MaxFaults = 0
INVARIANT NothingLost
CHECK_DEADLOCK FALSE
