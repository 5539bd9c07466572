SPECIFICATION Spec
CONSTANTS
  q1 = q1
  q2 = q2
  Null = Null
  Requests = {q1, q2}
  Restrictions = {1}
  AddedTypes = {"jurisdiction_blocked", "withdrawals_blocked"}
  VerificationTtl = 1
  MaxAttempts = 1
  MaxTime = 1
INVARIANTS
  TypeOK
  ProvisionNeverRefused
PROPERTIES
  NothingStandingIsOverlooked
CHECK_DEADLOCK FALSE
