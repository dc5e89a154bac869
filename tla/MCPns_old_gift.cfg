SPECIFICATION Spec
CONSTANTS
  root = root
  u1 = u1
  u2 = u2
  u3 = u3
  n1 = n1
  n2 = n2
  s1 = s1
  s2 = s2
  NULL = NULL
  Genesis = root
  Accounts = {root, u1, u2, u3}
  Names = {n1, n2}
  Subs = {s1}
  Parent <- MCParentOne
  GenesisReserved = {}
  Duration = 1
  Grace = 1
  Capacity = 1
  MaxTime = 3
  Officials = {}
  Reservable = {}
  Described = {}
  ListingExpiries = {3}
  GiftRecipients = {u1, u2, u3}
SYMMETRY UserSymmetry
INVARIANTS
  NamesResolveToOwner
CHECK_DEADLOCK FALSE
