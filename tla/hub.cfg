\* One client the hub accepts and one it refuses, a channel of two places, two failures.
SPECIFICATION FairSpec
CONSTANTS
  Conns = {"c1", "c2"}
  FrameType <- SecondAsApiJs
  Buffer = 2
  MaxPublished = 5  MaxFaults = 2
INVARIANTS
  TypeOK
  NeverSendsOnClosedChannel
  UpdatesAccountedFor
PROPERTIES
  ImplementsStream
  UpdatesArrive
CHECK_DEADLOCK FALSE
