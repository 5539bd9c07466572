SPECIFICATION FairSpec
CONSTANTS
  w1 = w1
  w2 = w2
  Null = Null
  Attestations = {1, 2, 3}
  Legacy = {2}
  Workers = {w1, w2}
  MaxAttempts = 2
  LedgerLater = TRUE
  MaxSlips = 1
INVARIANTS
  TypeOK
  StatusIsLatestAttempt
  FailureReportedOnce
  GivenUpInTime
PROPERTIES
  ImplementsFundingHandoff
  EveryAttestationSettles
