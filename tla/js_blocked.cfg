CONSTANTS
  MaxTasks = 2
  MaxMsgs = 1
  Scripts <- MCScripts
SPECIFICATION Spec
CHECK_DEADLOCK FALSE
INVARIANT NeverBlocked
