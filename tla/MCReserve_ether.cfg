SPECIFICATION ScenesSpec
CONSTANTS
  alice = alice
  bob = bob
  carol = carol
  answerer = bob
  monitor = monitor
  d1 = d1
  d2 = d2
  d3 = d3
  d4 = d4
  root0 = root0
  secret = secret
  NoAddress = NoAddress
  Vault = Vault
  NotSettled = NotSettled
  NoDispute = NoDispute
  Address = {alice, bob, carol}
  Digest = {d1, d2, d3, d4}
  Root = {root0}
  Secret = {secret}
  Principal = {alice, bob}
  Signer = {carol}
  Offer <- ScenesOffer
  Payment <- None
  Dispute <- EtherDispute
  Capacity = {0, 1, 2}
  StakeValue = {2}
  Bounty = {1}
  Revocation <- None
  MaxAge = 0
  CloseDelay = 1
  Word = 32
  Wealth = 0
  StartTime = 3
  MaxTime = 8
  MaxDelegations = 2
  MaxSigned = 12
  MaxBalance = 5
  MaxHolds = 1
INVARIANTS
  ReserveTypeOK
  EtherBacked
  VelocityBounded
  CapacityKept
PROPERTIES
  BondRefinesEscrow
ACTION_CONSTRAINT ScenesApart
SYMMETRY Digests
CHECK_DEADLOCK FALSE
