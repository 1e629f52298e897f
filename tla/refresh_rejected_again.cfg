SPECIFICATION Spec
CONSTANTS
  Nil = Nil
  Caller = {c1, c2}
  Login = {}
  LockTtl = 1
  Lifetime = 2
  Skew = 1
  MaxRejected = 2
  MaxFaults = 0
INVARIANTS
  RecoveryChangesCredential
