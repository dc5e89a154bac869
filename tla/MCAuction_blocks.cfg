SPECIFICATION FairAuction
CONSTANTS
  b1 = b1
  b2 = b2
  n1 = n1
  n2 = n2
  NULL = NULL
  Bidders = {b1, b2}
  Nodes = {n1, n2}
  Amounts = {1, 2, 3, 5}
  Funds = 5
  ExistentialDeposit = 1
  MinimalAuctionPrice = 1
  EndingPeriod = 3
  SampleLength = 2
  MaxBlock = 6
INVARIANTS
  WinnerForEverySample
  WinningBidsReserved
  ReservesExact
PROPERTIES
  MintedAgainstPayment
  AuctionsEnd
