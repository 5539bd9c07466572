SPECIFICATION Spec
CONSTANTS
  r1 = r1
  r2 = r2
  r3 = r3
  h1 = h1
  h2 = h2
  a1 = a1
  a2 = a2
  k1 = k1
  Null = Null
  Attempts = {1}
  Reviews = {1}
  Requests = {r1}
  Keys = {}
  Handlers = {h1}
  Admins = {a1}
  Claims = {TRUE}
  SessionTtl = 2
  VerificationTtl = 1
  MaxSkew = 0
  MaxOpen = 0
  MaxAhead = 0
  MaxEvents = 1
  MaxTime = 3
PROPERTIES
  MismatchChangesNothing
