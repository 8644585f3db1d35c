SPECIFICATION Spec
CONSTANTS
  MaxEvents = 4
  MaxSamples = 4
  Runs <- TwoRuns
  Live = {2}
  Total = 1
  SnapshotEvents = 1
  FetchLimit = 2
  Faults = {"drop", "fail"}
INVARIANT ShowsItsRun
