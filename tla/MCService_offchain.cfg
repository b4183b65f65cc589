SPECIFICATION Spec
CONSTANTS
  SCENES = {"desk", "handing", "watch"}
  p1 = p1
  p2 = p2
  b1 = b1
  b2 = b2
  b3 = b3
  c1 = c1
  c2 = c2
  PAYMENTS = {p1, p2}
  DOMAINS <- MCDomains
  DomainOf <- MCDomainOf
  TimeOf <- MCTimeOf
  NATURES <- MCNatures
  MAX_AGE = 1
  WINDOW = 2
  ANSWER = 1
  WAIT = 1
  LAST = 4
  CALLS = {c1, c2}
  MAX_UNHEARD = 1
  BATCHES = {b1, b2, b3}
  NamesOf <- MCNames
  HANDINGS = {1, 2}
  ON_REQUEST = TRUE
  DECIDE = 1
  MAX_FAILURES = 1
INVARIANTS
  CallsTruthful
  ReceiptsDisjoint
  FreezeEarned
CHECK_DEADLOCK FALSE
