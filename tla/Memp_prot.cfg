CONSTANTS
  rx = rx
  app = app
  tcpip = tcpip
  Threads = {rx, app, tcpip}
  Allocators = {rx, app, tcpip}
  Prio <- FirmwarePrio
  NoThread = none
  NumBlocks = 3
  PROT = TRUE
SPECIFICATION Spec
INVARIANTS
  Exclusive
  PoolIntact
