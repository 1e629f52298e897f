SPECIFICATION FairSpec
CONSTANTS
  LineMax = 4
  FragmentMax = 3
  EventMax = 7
  FieldMax = 2
  Frame <- MCFrame
  MaxFrames = 3
  MaxChunk = 3
  MaxBody = 16
  MaxEvents = 3
INVARIANTS
  CutsDoNotMatter
  VerdictsAreTheBodys
  FinishIsEarned
PROPERTIES
  EveryBodyIsReleased
CHECK_DEADLOCK FALSE
