SPECIFICATION FairSpec
CONSTANTS
  Metrics <- Definitions
  AnyOther <- Recovery
  None = none
  ScenarioOf <- Scenarios
  EndsAs <- Ends
  AnalysisOf <- Analyses
  StoredRuns = 3
  PAGE_SIZE = 2
  PickLimit = 2
  ANY = any
  MaxIncidents = 1
  MaxClicks = 3
CONSTRAINT ThirdClickTurns
INVARIANTS ShowsWhatIsAsked VerdictMirrors
PROPERTIES PagesSkipNone PagesCatchUp
CHECK_DEADLOCK FALSE
