SPECIFICATION Spec
CONSTANTS
  alice = alice
  bob = bob
  carol = carol
  answerer = answerer
  monitor = monitor
  d1 = d1
  d2 = d2
  d3 = d3
  d4 = d4
  root0 = root0
  secret = secret
  NoAddress = NoAddress
  Vault = Vault
  NotSettled = NotSettled
  NoDispute = NoDispute
  Address = {alice, bob, carol}
  Digest = {d1, d2}
  Root = {root0}
  Secret = {secret}
  Principal = {alice}
  Signer = {carol}
  Offer <- SettleOffer
  Payment <- None
  Dispute <- EtherDispute
  Capacity <- None
  StakeValue = {}
  Bounty = {}
  Revocation <- LastRevocation
  MaxAge = 1
  CloseDelay = 2
  Word = 32
  Wealth = 2
  StartTime = 3
  MaxTime = 3
  MaxDelegations = 1
  MaxSigned = 2
  MaxBalance = 3
  MaxHolds = 0
INVARIANTS
  RevocationOpen
CHECK_DEADLOCK FALSE
