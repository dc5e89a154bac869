SPECIFICATION DnsFairSpec
CONSTANTS
  r1 = r1
  r2 = r2
  r3 = r3
  d1 = d1
  net1 = net1
  Requests = {r1, r2, r3}
  Domains = {d1}
  Subnets = {net1}
  Source <- MCSource
  MaxInflight = 2
  MinWait = 1
  FirstTtl = 1
  NegTtl = 2
  PenaltyTtl = 2
  Backoff <- MCBackoff
  Saturation = 1
INVARIANTS
  AdmissionExact
  WaitersQueued
  NegativeConfirmedTwice
PROPERTIES
  
  RequestsEnd
  StaleNegativeEnds
