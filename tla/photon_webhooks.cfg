SPECIFICATION FairSpec
CONSTANTS
  Urls = {u1, u2}
  ProofUrl = proof
  Stages = {preview, prod}
  Production = prod
  Paths = {p1, p2}
  Torn = torn
  Readbacks = 2
  MaxCommands = 3
  MaxFaults = 2
INVARIANTS
  OrphansCostFaults
  MixedBindingsAreRepairable
PROPERTIES
  FilesLeaveHeld
  ProofsRecover
CHECK_DEADLOCK FALSE
