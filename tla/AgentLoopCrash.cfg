CONSTANTS
  u1 = u1
  u2 = u2
  c1 = c1
  Msg <- OneOfEach
  User <- Prompts1
  MaxCrashes = 1
SPECIFICATION FairSpec
INVARIANT IInv
PROPERTIES LedgerImplemented OutcomesSettle
