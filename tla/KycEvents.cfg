SPECIFICATION Spec
CONSTANTS
  r1 = r1
  r2 = r2
  r3 = r3
  h1 = h1
  h2 = h2
  a1 = a1
  a2 = a2
  k1 = k1
  Null = Null
  Attempts = {1}
  Reviews = {1, 2}
  Requests = {r1}
  Keys = {}
  Handlers = {h1, h2}
  Admins = {a1, a2}
  Claims = {FALSE}
  SessionTtl = 2
  VerificationTtl = 3
  MaxSkew = 0
  MaxOpen = 1
  MaxAhead = 1
  MaxEvents = 2
  MaxTime = 2
SYMMETRY Interchangeable
INVARIANTS
  ReviewWhileParked
  EachEventMovesOnce
  ResultsInProviderOrder
PROPERTIES
  VerifiedInTime
  DecidedForGood
  DecidesWhatWasRead
