SPECIFICATION Spec
CONSTANTS
  Order = 13
  Points <- Group
  Infinity = 0
  mulG <- Times
  PointAdd <- Plus
  x <- XOf
  even_y <- EvenPoint
  Chains = {0, 1, 2}
  Texts <- Written
  Seeds = {2, 3, 6}
  Identities = {1}
  WellSized = {3, 6}
  MerkleRoots = {1}
  HARDENED = 4
  CASH_PURPOSE = 3
  hmac_left <- LeftHash
  hmac_right <- RightHash
  master_left <- MasterLeftHash
  master_right <- MasterRightHash
  hmac_domain <- DomainHash
  hmac_nostr <- NostrHash
  tagged_derive <- DeriveHash
  tagged_tweak <- TweakHash
  Wallets <- TwoWallets
  Mints <- Services
  Hosts <- Written
  Accounts = {0}
  ShareNumbers = {0, 1}
  MaxSteps = 3
  MaxIndex = 3
INVARIANTS TypeOK EveryCreditOpens OnFileIsSomebodys FoundElsewhere
CHECK_DEADLOCK FALSE
