CONSTANTS
  rx = rx
  app = app
  tcpip = tcpip
  Threads = {rx, app, tcpip}
  Allocators = {rx}
  Prio <- FirmwarePrio
  NoThread = none
  NumBlocks = 3
  PROT = FALSE
SPECIFICATION Spec
INVARIANTS
  MempSanity
