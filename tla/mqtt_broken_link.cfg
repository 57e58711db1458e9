CONSTANTS
  Capacity = 1
  MaxInflight = 1
  MaxRequests = 2
  MaxMessages = 0
  MaxDrops = 1
  MayStop = FALSE
SPECIFICATION FairSpec
CHECK_DEADLOCK FALSE
PROPERTIES
  BrokenLinkEnds
