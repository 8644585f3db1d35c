SPECIFICATION FairSpec
CONSTANTS
  MaxEvents = 4
  MaxSamples = 4
  Runs <- OneRun
  Live = {1}
  Total = 1
  SnapshotEvents = 1
  FetchLimit = 2
  Faults = {"drop"}
PROPERTIES HistoryComes ScoreComes PanelsCatchUp
CHECK_DEADLOCK FALSE
