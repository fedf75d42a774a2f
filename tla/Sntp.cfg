CONSTANTS
  NumSamples = 2
  MaxErrors = 2
  Skews <- MCSkews
  RECV_TIMEOUT = 1
  RETRY_SLEEP = 1
  SAMPLE_SLEEP = 0
  LongReplies = {FALSE, TRUE}
  MaxServe = 1
  MBOX_SIZE = 1
  MaxLate = 1
SPECIFICATION FairSpec
INVARIANTS
  NeverAhead
  NotFarBehind
PROPERTIES
  AttemptEnds
  SyncedUnlessFailing
