SPECIFICATION FairSpec
CONSTANTS
  MaxEvents = 4
  MaxSamples = 4
  Script <- ShortRun
  FirstState = "PREPARING"
  QueueSize = 3
  SnapshotEvents = 1
  SnapshotTelemetry = 2
  Exists = TRUE
  Faults = {"drop", "silence", "elsewhere", "miss", "error"}
  MaxFaults = 1
INVARIANTS NothingDoubled CompletedSnapshotIsWhole
PROPERTIES OutcomeStays WatcherIsServed
CHECK_DEADLOCK FALSE
