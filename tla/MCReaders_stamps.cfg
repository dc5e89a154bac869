SPECIFICATION ReadersSpec
CONSTANTS
  root = root
  u1 = u1
  u2 = u2
  n1 = n1
  r1 = r1
  h1 = h1
  NULL = NULL
  Genesis = root
  Accounts = {root, u1, u2}
  Names = {n1}
  Subs = {}
  Parent <- MCParent
  GenesisReserved = {}
  Duration = 1
  Grace = 0
  Capacity = 1
  MaxTime = 2
  Officials = {}
  Reservable = {}
  Described = {}
  ListingExpiries = {2}
  GiftRecipients = {u2}
  RpcReaders = {r1}
  HttpReaders = {h1}
INVARIANTS
  RpcStampsHold
CHECK_DEADLOCK FALSE
