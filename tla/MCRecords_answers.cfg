SPECIFICATION RecSpec
CONSTANTS
  n1 = n1
  s1 = s1
  Names = {n1}
  Subs = {s1}
  Parent <- MCParent
  QueryNames = {"alice.dot.", "sub.alice.dot.", "dot.", "alice.com.", "a.sub.alice.dot."}
  NodeOf <- MCNodeOf
  Settable <- MCSettable
  Contents <- MCContents
  MaxSet = 2
  QueryCodes <- MCQueryCodes
INVARIANTS
  NxMeansNoRecords
  AnchorsAreTheChains
  StoredIsRetrievable
