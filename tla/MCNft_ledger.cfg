SPECIFICATION LedgerSpec
CONSTANTS
  a1 = a1
  a2 = a2
  a3 = a3
  base = base
  n1 = n1
  n2 = n2
  n3 = n3
  NULL = NULL
  Accounts = {a1, a2, a3}
  TokenIds = {base, n1, n2, n3}
  BaseToken = base
  MaxClass = 2
  MaxTotal = 3
SYMMETRY NftSymmetry
INVARIANTS
  OwnerIndexExact
  IssuanceExact
  OneOfficial
