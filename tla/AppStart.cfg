SPECIFICATION StartFairSpec
CONSTANTS
  MayFail = TRUE
  MayRestart = TRUE
INVARIANTS
  AllOrNothing
PROPERTIES
  WebUp
  MainEnds
CHECK_DEADLOCK FALSE
