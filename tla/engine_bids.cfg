\* Three bids, one worker, no faults; start_time 1, end_time 2.
SPECIFICATION Spec
CONSTANTS
  r1 = r1  r2 = r2  r3 = r3  w1 = w1  w2 = w2  u1 = u1  u2 = u2
  None = None
  Requests <- ThreeRequests
  Workers = {w1}
  Users = {u1, u2}
  Bidder <- OneEach
  Amount <- RisingAmounts
  Skew <- NoSkew
  StartingPrice = 1  OpeningPrice = 1
  Start = 1  End = 2  Retention = 2  Linger = 1
  MaxTime = 3  MaxFaults = 0  MaxLosses = 0
INVARIANTS
  TypeOK
  LeaderIsHighest
  TooLowIsJustified
  AnswersMatchEffects
CHECK_DEADLOCK FALSE
