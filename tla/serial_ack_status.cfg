CONSTANTS
  IdMod = 2
  MaxBuilt = 1
  MaxSends = 1
  MaxEvents = 0
  MaxDamaged = 0
  Statuses = {TRUE, FALSE}
  MayHangUp = FALSE
SPECIFICATION Spec
INVARIANTS
  AckStatusReturned
