SPECIFICATION Spec
CONSTANTS
  p1 = p1
  p2 = p2
  h1 = h1
  h2 = h2
  u1 = u1
  u2 = u2
  k1 = k1
  s1 = s1
  s2 = s2
  Null = Null
  Requests = {p1, p2}
  Users = {u1, u2}
  Selections = {h1, h2}
  Keys = {k1}
  Settlers = {s1, s2}
  AnswersLost = FALSE
  MaxEntries = 3
SYMMETRY Interchangeable
INVARIANTS
  TypeOK
  LedgerMatchesBalance
  LocalMatchesFinancial
  DriftNotOverlooked
PROPERTY
  ImplementsBettingBook
CHECK_DEADLOCK FALSE
