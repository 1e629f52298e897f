SPECIFICATION FairSpec
CONSTANTS
  Nil = Nil
  Caller = {c1, c2}
  Login = {}
  LockTtl = 1
  Lifetime = 1
  Skew = 0
  MaxRejected = 2
  MaxFaults = 1
PROPERTIES
  EveryCallReturns
