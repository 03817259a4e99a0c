\* Every configuration, any number of mounts and switches.
SPECIFICATION FairSpec
INVARIANTS
  TypeOK
  OneCaptcha
  TokenIsCurrent
PROPERTIES
  SpinnersStop
CHECK_DEADLOCK FALSE
