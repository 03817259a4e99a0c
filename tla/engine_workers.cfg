\* Two bids, two workers, one fault anywhere; the clock, the workers and the
\* handlers are fair.
SPECIFICATION FairSpec
CONSTANTS
  r1 = r1  r2 = r2  r3 = r3  w1 = w1  w2 = w2  u1 = u1  u2 = u2
  None = None
  Requests <- TwoRequests
  Workers = {w1, w2}
  Users = {u1, u2}
  Bidder <- OneEach
  Amount <- RisingAmounts
  Skew <- NoSkew
  StartingPrice = 1  OpeningPrice = 1
  Start = 1  End = 2  Retention = 2  Linger = 1
  MaxTime = 3  MaxFaults = 1  MaxLosses = 0
INVARIANTS
  OutcomeIsBestAtSnapshot
  TimelyBidsLoseOnlyToBetter
  LedgerMatchesRow
  AnnouncedOnce
  CachedStatusSound
PROPERTIES
  SettlementFinal
  ImplementsAuction
  ExpiredIsDecided
CHECK_DEADLOCK FALSE
