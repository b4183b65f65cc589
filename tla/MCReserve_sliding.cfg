SPECIFICATION LimitSpec
CONSTANTS
  alice = alice
  bob = bob
  carol = carol
  answerer = answerer
  monitor = monitor
  d1 = d1
  d2 = d2
  d3 = d3
  d4 = d4
  root0 = root0
  secret = secret
  NoAddress = NoAddress
  Vault = Vault
  NotSettled = NotSettled
  NoDispute = NoDispute
  Address = {alice, bob, carol}
  Digest = {d1, d2, d3, d4}
  Root = {root0}
  Secret = {secret}
  Principal = {alice, bob}
  Signer = {carol}
  Offer <- LimitOffer
  Payment <- None
  Dispute <- None
  Capacity = {1, 2}
  StakeValue = {}
  Bounty = {}
  Revocation <- None
  MaxAge = 0
  CloseDelay = 6
  Word = 32
  Wealth = 0
  StartTime = 3
  MaxTime = 5
  MaxDelegations = 2
  MaxSigned = 12
  MaxBalance = 0
  MaxHolds = 0
INVARIANTS
  VelocitySliding
SYMMETRY Digests
CHECK_DEADLOCK FALSE
