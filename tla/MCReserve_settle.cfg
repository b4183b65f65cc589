SPECIFICATION Spec
CONSTANTS
  alice = alice
  bob = bob
  carol = carol
  answerer = answerer
  monitor = monitor
  d1 = d1
  d2 = d2
  d3 = d3
  d4 = d4
  root0 = root0
  secret = secret
  NoAddress = NoAddress
  Vault = Vault
  NotSettled = NotSettled
  NoDispute = NoDispute
  Address = {alice, bob, carol}
  Digest = {d1, d2}
  Root = {root0}
  Secret = {secret}
  Principal = {alice}
  Signer = {carol, bob}
  Offer <- SettleOffer
  Payment <- SettlePayment
  Dispute <- EtherDispute
  Capacity <- None
  StakeValue = {}
  Bounty = {}
  Revocation <- SettleRevocation
  MaxAge = 1
  CloseDelay = 2
  Word = 32
  Wealth = 2
  StartTime = 3
  MaxTime = 7
  MaxDelegations = 1
  MaxSigned = 2
  MaxBalance = 3
  MaxHolds = 0
INVARIANTS
  TokensAccounted
  SettledLive
  BondOutlivesChallenges
  RevokedDisjoint
SYMMETRY Digests
CHECK_DEADLOCK FALSE
