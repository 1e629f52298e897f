SPECIFICATION FairSpec
CONSTANTS
  CommandTimeout = 2
  PromotionTimeout = 8
  RollbackTimeout = 4
  StepTimeout = 45
  MaxSha = 2
  MaxRuns = 2
INVARIANTS
  ReceiptsAreTrue
  RollbackIsComplete
  AllOrNothing
PROPERTIES
  ReleasesNeverRegress
CHECK_DEADLOCK FALSE
