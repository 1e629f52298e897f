SPECIFICATION FairSpec
CONSTANTS
  Nil = Nil
  t1 = t1
  Message = {m1}
  Token = {t1}
  Session = {s1, s2}
  Delivery = {d1, d2, d3}
  TokenOf <- OneConversation
  LeaseTtl = 1
  RetentionTtl = 2
  ProviderRetryProof = FALSE
  Punctual = TRUE
  MaxFaults = 1
INVARIANTS
  ExclusiveDispatch
  RepeatsCostFaults
PROPERTIES
  NoSendAfterAcknowledgement
  EveryDeliveryEnds
