\* Redis loses its data once, one process has a slow clock, the retention runs out
\* and one of the bids is under the starting price.
SPECIFICATION Spec
CONSTANTS
  r1 = r1  r2 = r2  r3 = r3  w1 = w1  w2 = w2  u1 = u1  u2 = u2
  None = None
  Requests <- TwoRequests
  Workers = {w1}
  Users = {u1, u2}
  Bidder <- OneEach
  Amount <- LowAmounts
  Skew <- SlowFirst
  StartingPrice = 1  OpeningPrice = 1
  Start = 1  End = 2  Retention = 1  Linger = 1
  MaxTime = 5  MaxFaults = 0  MaxLosses = 1
INVARIANTS
  PairConsistent
  WinnerReallyBid
PROPERTIES
  OnlyRedisLosesBids
CHECK_DEADLOCK FALSE
