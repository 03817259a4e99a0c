\* Two lots, two sign-ins under way, a clock that outlives a session.
SPECIFICATION Spec
CONSTANTS
  Lots = {"108", "109"}  FirstLot = "108"
  Requests = {"password", "google"}
  Life = 2  Waiting = 1  MaxTime = 4
INVARIANTS
  TypeOK
  SessionHolds
CHECK_DEADLOCK FALSE
