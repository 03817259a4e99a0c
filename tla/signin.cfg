\* Two tabs (or a screen and the next of its tab), two attempts.
SPECIFICATION FairSpec
CONSTANTS
  Screens = {"first", "second"}  GoogleUsers = {"first"}
  Max = 2  Lockout = 1  Expiry = 2  MaxTime = 4
INVARIANTS
  TypeOK
  FailuresBounded
  StorageInStep
PROPERTIES
  TokenSpentOnce
  LockoutIsLifted
CHECK_DEADLOCK FALSE
