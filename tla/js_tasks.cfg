CONSTANTS
  MaxTasks = 2
  MaxMsgs = 1
  Scripts <- MCScripts
SPECIFICATION FairSpec
CHECK_DEADLOCK FALSE
INVARIANTS
  TypeOK
  ReceiverKept
  SelfCancelIsFinal
  OneLateCall
PROPERTIES
  DroppedStillFires
  CancelEnds
  ExitHeard
