CONSTANTS
  Capacity = 2
  MaxInflight = 1
  MaxRequests = 3
  MaxMessages = 1
  MaxDrops = 1
  MayStop = TRUE
SPECIFICATION FairSpec
CHECK_DEADLOCK FALSE
INVARIANTS
  TypeOK
  AtMostOnceInOrder
  NothingQueuedBeforeConnAck
  NoSilentLoss
PROPERTIES
  ConnectedOnce
  LossIsTold
  Reconnects
  DisconnectStops
