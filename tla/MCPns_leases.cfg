SPECIFICATION Spec
CONSTANTS
  root = root
  u1 = u1
  u2 = u2
  u3 = u3
  n1 = n1
  n2 = n2
  s1 = s1
  s2 = s2
  NULL = NULL
  Genesis = root
  Accounts = {root, u1, u2}
  Names = {n1, n2}
  Subs = {s1, s2}
  Parent <- MCParent
  GenesisReserved = {n2}
  Duration = 2
  Grace = 1
  Capacity = 1
  MaxTime = 4
  Officials = {root, u2}
  Reservable = {n2}
  Described = {n1}
  ListingExpiries = {}
  GiftRecipients = {}
INVARIANTS
  TypeOK
  SubtreeConsistent
  ChildrenExact
  IndexExact
  SubnamesResolveToHolder
  RecordsWrittenByOwner
  UnlistedNamesAreSilent
CHECK_DEADLOCK FALSE
