SPECIFICATION Spec
CONSTANTS
  Nil = Nil
  Event = {e1, e2}
  Attempt = {a1, a2, a3}
  LeaseTtl = 1
  RetentionTtl = 2
  Punctual = TRUE
  MaxFaults = 2
SYMMETRY Interchangeable
INVARIANTS
  CompleteIsDelivered
  ExclusiveSend
  ResendsCostFaults
PROPERTIES
  NeverBlindRetry
