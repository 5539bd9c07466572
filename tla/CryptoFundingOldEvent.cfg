SPECIFICATION Spec
CONSTANTS
  i1 = i1
  i2 = i2
  e1 = e1
  e2 = e2
  e3 = e3
  r1 = r1
  r2 = r2
  Null = Null
  Foreign = Foreign
  Intents = {i1}
  Requests = {r1}
  Hashes = {"h1"}
  Events = {e1, e2}
  Reports <- LifecycleReports
  Ttl = 2
  FutureSkew = 0
  MaxTime = 3
PROPERTIES
  OlderEventsAreStale
CHECK_DEADLOCK FALSE
