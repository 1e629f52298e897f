SPECIFICATION Spec
CONSTANTS
  Nil = Nil
  Caller = {c1, c2}
  Login = {l1}
  LockTtl = 1
  Lifetime = 2
  Skew = 1
  MaxRejected = 1
  MaxFaults = 1
SYMMETRY Interchangeable
INVARIANTS
  ExclusiveRefresh
  LiveGrantIsStored
  RevisionFencesProfile
PROPERTIES
  KeepsRegister
  OnlyOwnersRelease
