CONSTANTS
  Cyclic <- MCCyclic
  Tcp = "tcp"
  None = None
  Interval <- MCInterval
  PoolSize = 3
  MayConnect = TRUE
  MaxBusy = 1
SPECIFICATION TimerFairSpec
INVARIANTS
  EachArmedOnce
PROPERTIES
  NeverEarly
  ExpiredHaveRun
  KeepsRunning
