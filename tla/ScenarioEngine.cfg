SPECIFICATION FairSpec
CONSTANTS
  Components <- MCComponents
  Upstream <- MCUpstream
  InitialHealth <- AllNominal
  Scenarios <- MCScenarios
  Observations <- MCObservations
  BatchSpan = 3
  BatchSize = 3
  MaxFaults = 1
  None = None
CONSTRAINT QuietStays
INVARIANTS JudgedRight OnlyBoundedOutlive EventsTellTrue TelemetryIsComplete
PROPERTIES RunsAsPipeline Returns
CHECK_DEADLOCK FALSE
