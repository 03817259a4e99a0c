\* One host, windows of 6 ticks, 2 ticks a second, time for most of two windows.
SPECIFICATION Spec
CONSTANTS
  Hosts = {"10.0.0.1"}
  Max <- FewLogins
  Second = 2  Minute = 6
  MaxTime = 10
INVARIANTS
  TypeOK
  AnyMinuteBounded
  RetryAfterSuffices
  RefusalIsEarned
CHECK_DEADLOCK FALSE
