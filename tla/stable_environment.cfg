SPECIFICATION Spec
CONSTANTS
  None = None
  Managed = {m}
  Observed = {o}
  PatchRetries = 1
  ReadbackRetries = 1
  MaxRevision = 2
  MaxCustody = 2
  MaxWrites = 1
  MaxFaults = 1
PROPERTIES
  CleanReportsAreTrue
  DeploysConverge
