SPECIFICATION PaySpec
CONSTANTS
  root = root
  u1 = u1
  u2 = u2
  n1 = n1
  n2 = n2
  s1 = s1
  NULL = NULL
  Genesis = root
  Accounts = {root, u1, u2}
  Names = {n1, n2}
  Subs = {s1}
  Parent <- MCParent
  GenesisReserved = {}
  Duration = 1
  Grace = 0
  Capacity = 1
  MaxTime = 2
  Officials = {}
  Reservable = {}
  Described = {}
  ListingExpiries = {2}
  GiftRecipients = {u2}
  InitialFree <- MCFree
  Deposit = 1
  LabelLen <- MCLabelLen
  GenesisPrices <- MCGenesisPrices
  PriceLists <- MCPriceLists
  RentLists <- MCRentLists
  Rates = {1}
  AskPrices = {2}
  FeeBps = 7
  FeeScale = 10
INVARIANTS
  MoneyConserved
PROPERTIES
  LeasesArePaid
  GainsAreSales
CHECK_DEADLOCK FALSE
