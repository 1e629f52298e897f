SPECIFICATION FairSpec
CONSTANTS
  Nil = Nil
  Login = {l1, l2}
  LastPort = 2
  CallbackTimeout = 1
  LockTtl = 1
  MaxProfiles = 2
  MaxFaults = 1
INVARIANTS
  CodesBelongToTheirLogin
  SubscriptionsAreFenced
PROPERTIES
  WritersReplaceWhatTheyRead
  EveryLoginEnds
CHECK_DEADLOCK FALSE
