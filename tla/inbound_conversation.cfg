SPECIFICATION Spec
CONSTANTS
  Nil = Nil
  t1 = t1
  Message = {m1, m2}
  Token = {t1}
  Session = {s1, s2}
  Delivery = {d1, d2}
  TokenOf <- OneConversation
  LeaseTtl = 1
  RetentionTtl = 2
  ProviderRetryProof = TRUE
  Punctual = FALSE
  MaxFaults = 1
SYMMETRY Interchangeable
INVARIANTS
  RecordsAreEarned
PROPERTIES
  KeepsLedger
  ContinuityNeverForks
