SPECIFICATION FairSpec
CONSTANTS
  Components = {"gnss", "link", "core", "imu"}
  DomainOf <- Domains
  HealthyState <- Healthy
  FlightCritical = {"gnss", "core", "imu"}
  PROPAGATION_CHAIN = {"link", "core"}
  Core = "core"
  SampleAt <- Samples
  None = none
  Recordings <- ManyRecordings
  EndTime = 5
  Batches = {3, 5}
  Position <- Places
  SampleLimit = 3
  MaxTrail = 2
  MaxIncidents = 1
  MaxClicks = 2
CONSTRAINT ExploresStory
INVARIANTS TwinShowsTrail TracksTile SameStoryObserved PanelsAgree
PROPERTIES PlaysOut OutcomeComes
CHECK_DEADLOCK FALSE
