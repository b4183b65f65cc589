SPECIFICATION DeliverySpec
CONSTANTS
  alice = alice
  bob = bob
  carol = carol
  answerer = answerer
  d1 = d1
  d2 = d2
  root0 = root0
  secret = secret
  unknown = unknown
  r1 = r1
  r2 = r2
  h1 = h1
  s1 = s1
  s2 = s2
  NoAddress = NoAddress
  Vault = Vault
  NotSettled = NotSettled
  NoDispute = NoDispute
  NoRoot = NoRoot
  NoHash = NoHash
  NoSeal = NoSeal
  Root = {root0}
  Secret = {secret}
  Payment <- None
  Dispute <- MCDispute
  Capacity = {}
  StakeValue = {}
  Bounty = {}
  Revocation <- None
  MaxAge = 0
  Word = 32
  Wealth = 0
  MaxSigned = 0
  MaxBalance = 0
  MaxHolds = 0
  Signer = {}
  Donation = {1}
  Excess = {0}
  DepositPrice = {1}
  BondPrice = {1}
  MaxDonated = 1
  MaxAsked = 2
  MaxPosted = 2
  MaxReceipts = 2
  Fee = {1}
  Poster = {answerer, bob}
  ProofHash = {h1}
  SealedRoot = {s1, s2}
  Chunks = 2
  MaxChunks = 1
  MaxBatches = 1
  AnswerWindow = 0
  Slot = 1
  DeliveryWait = 1
  ProvingBond = 0
  BatchRoot = {r1, r2}
  Provable = {r1, r2}
  StartTime = 3
  Address = {alice, bob, carol, answerer}
  Digest = {d1}
  Principal = {alice}
  Challenger = {alice, bob}
  Offer <- BaseOffer
  CloseDelay = 1
  MaxTime = 5
  MaxDelegations = 1
  AcceptWindow = 1
  Batched <- DeliveryBatched
INVARIANTS
  DisputeTypeOK
  DisputeSolvent
  StakeOutlivesDuty
  BlamelessUnslashed
  RefundsBounded
PROPERTIES
  PoolOutlivesDuty
ACTION_CONSTRAINT DeliveryScenes
CHECK_DEADLOCK FALSE
