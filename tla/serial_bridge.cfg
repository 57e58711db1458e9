CONSTANTS
  MaxSessions = 2
  MaxMsgs = 2
  MaxEvents = 2
  MaxUnplugs = 1
SPECIFICATION FairSpec
CHECK_DEADLOCK FALSE
INVARIANTS
  TypeOK
  LateAckIgnored
  OldSessionsWindDown
PROPERTIES
  Reopens
  ExitStops
