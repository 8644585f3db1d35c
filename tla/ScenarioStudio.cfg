SPECIFICATION FairSpec
CONSTANTS
  Names = {"x", "y"}
  Bodies = {"a", "b", "odd"}
  Carried <- Carries
  Target <- Targets
  Stored <- Library
  Starter <- NewDocument
  Typed <- Edits
  Malformed = malformed
  Empty = empty
  None = none
  MaxEdits = 1
  MaxPosts = 2
  MaxTrouble = 1
INVARIANT SavedIsListed
PROPERTIES LateAnswersKeepEdits NewAsksFirst VerdictComes
CONSTRAINT RunsOrSaves
CHECK_DEADLOCK FALSE
