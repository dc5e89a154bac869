SPECIFICATION RedeemSpec
CONSTANTS
  root = root
  u1 = u1
  u2 = u2
  n1 = n1
  n2 = n2
  s1 = s1
  NULL = NULL
  Genesis = root
  Accounts = {root, u1, u2}
  Names = {n1, n2}
  Subs = {s1}
  Parent <- MCParent
  GenesisReserved = {n2}
  Duration = 1
  Grace = 1
  Capacity = 1
  MaxTime = 3
  Officials = {}
  Reservable = {n2}
  Described = {}
  ListingExpiries = {}
  GiftRecipients = {}
  GenesisOrigins = {root}
  OriginCandidates = {root}
  GenesisRedeems <- MCGenesisRedeems
  MintRanges <- MCMintRanges
  MaxNonce = 7
  Codes <- MCCodes
  AnyCodes <- MCAnyCodes
  LabelLength <- MCLabelLength
INVARIANTS
  OneNamePerAccount
PROPERTIES
  RedeemedLeaseContract
  ClosedLeasesCostNonces
CHECK_DEADLOCK FALSE
