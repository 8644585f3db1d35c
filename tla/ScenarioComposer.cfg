SPECIFICATION Spec
CONSTANTS
  Subsystems = {"gnss", "link"}
  Allowed <- CatalogAllowed
  Transient = {"restart"}
  Bounded = {"disconnect"}
  ParametersOf <- CatalogParameters
  SlugOf <- CatalogSlugs
  ProfileSlugOf <- ProfileSlugs
  Absent = absent
  Documents <- Library
  IdTexts <- TypedIds
  Times <- TypedTimes
  Values = {"junk", "2", "2s"}
  DurationTexts = {"2s"}
  Collation <- Alphabetical
  CodePoints <- Alphabetical
  MaxDocumentEvents = 3
  MaxExpectations = 1
  Timeouts = {5, 10}
  MaxEdits = 4
INVARIANTS RoundTrips ScheduleMirrors EventsFitCatalog
PROPERTY AppendKeepsValid
CHECK_DEADLOCK FALSE
