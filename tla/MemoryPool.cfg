CONSTANTS
  a = a
  b = b
  c = c
  d = d
  Threads = {a, b, c, d}
  Prio <- MixedPrio
  NumBlocks = 3
  NoBlock = none
  MayIsr = TRUE
  MaxSem = 5
SPECIFICATION Spec
INVARIANTS
  OneHolder
  Accounting
  FaultOnlyInWindow
CHECK_DEADLOCK FALSE
