SPECIFICATION FairSpec
CONSTANTS
  r1 = r1
  r2 = r2
  r3 = r3
  h1 = h1
  h2 = h2
  a1 = a1
  a2 = a2
  k1 = k1
  Null = Null
  Attempts = {1, 2}
  Reviews = {1, 2}
  Requests = {r1, r2}
  Keys = {k1}
  Handlers = {h1}
  Admins = {}
  Claims = {TRUE, FALSE}
  SessionTtl = 1
  VerificationTtl = 1
  MaxSkew = 0
  MaxOpen = 0
  MaxAhead = 0
  MaxEvents = 1
  MaxTime = 2
INVARIANTS
  TypeOK
  ProfileFollowsSession
  DatesConsistent
  ActivationNeverRefused
PROPERTIES
  ImplementsVerificationStatus
  SessionsSettle
  VerificationsLapse
