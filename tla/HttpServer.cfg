CONSTANTS
  Clients = {c1, c2}
  NoClient = none
  Requests <- SomeRequests
  Cuts = {3}
  Capacity = 4
  Failures = TRUE
  MayStop = TRUE
SPECIFICATION FairSpec
INVARIANTS
  OwnAnswer
  NoneLeaked
  OverrunOnlyAfterFailure
  OneAfterStop
PROPERTIES
  Answered
CHECK_DEADLOCK FALSE
