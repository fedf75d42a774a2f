CONSTANTS
  ETH_RXBUFNB = 2
  ETH_TXBUFNB = 1
  MaxSeg = 2
  FrameIds = 3
  MaxSem = 2
  PBUF_POOL_SIZE = 2
  MBOX_SIZE = 1
  MSG_INPKT = 2
  RECV_QUEUE = 1
  Underflow = TRUE
SPECIFICATION FairSpec
INVARIANTS
  RingSplit
  FrameIntact
  NoLostWakeup
  RxNotStalled
  NeverBusy
  TxNotStalled
  PbufsConserved
PROPERTIES
  FrameTaken
  TxSent
