SPECIFICATION BondSpec
CONSTANTS
  alice = alice
  bob = bob
  carol = carol
  answerer = answerer
  d1 = d1
  d2 = d2
  root0 = root0
  secret = secret
  unknown = unknown
  r1 = r1
  r2 = r2
  h1 = h1
  s1 = s1
  s2 = s2
  NoAddress = NoAddress
  Vault = Vault
  NotSettled = NotSettled
  NoDispute = NoDispute
  NoRoot = NoRoot
  NoHash = NoHash
  NoSeal = NoSeal
  Root = {root0}
  Secret = {secret}
  Payment <- None
  Dispute <- MCDispute
  Capacity = {}
  StakeValue = {}
  Bounty = {}
  Revocation <- None
  MaxAge = 1
  Word = 32
  Wealth = 0
  MaxSigned = 0
  MaxBalance = 0
  MaxHolds = 0
  Signer = {}
  Donation = {}
  Excess = {0}
  DepositPrice = {0}
  BondPrice = {0}
  MaxDonated = 0
  MaxAsked = 1
  MaxPosted = 0
  MaxReceipts = 0
  Fee = {}
  Poster = {}
  ProofHash = {}
  SealedRoot = {}
  Chunks = 1
  MaxChunks = 0
  MaxBatches = 1
  AnswerWindow = 1
  Slot = 1
  DeliveryWait = 1
  ProvingBond = 1
  BatchRoot = {r1}
  Provable = {r1}
  StartTime = 3
  Address = {alice, bob, carol}
  Digest = {d1, d2}
  Principal = {alice}
  Challenger = {alice, bob}
  Offer <- BaseOffer
  CloseDelay = 2
  MaxTime = 11
  MaxDelegations = 1
  AcceptWindow = 1
  Batched <- BondBatched
INVARIANTS
  ForfeitReachesPrincipal
PROPERTIES
  HoldStopsSettlement
  ChallengeEnds
  BondReturns
CHECK_DEADLOCK FALSE
