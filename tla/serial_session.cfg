CONSTANTS
  IdMod = 2
  MaxBuilt = 2
  MaxSends = 2
  MaxEvents = 1
  MaxDamaged = 1
  Statuses = {TRUE}
  MayHangUp = TRUE
SPECIFICATION Spec
INVARIANTS
  TypeOK
  MapOwnsSenders
  AckSpentOnce
  AckNotMissed
  ClosedOnlyIfSuperseded
PROPERTIES
  PromiseKept
