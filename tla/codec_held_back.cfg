CONSTANTS
  MAX_PAYLOAD_LEN = 4
  checksum <- MCchecksum
  Traffic <- AnyTraffic
  Damageable = {}
  Wrong = {}
  Cuts <- AnyCut
  MaxItems = 3
  MayHangUp = TRUE
SPECIFICATION Spec
INVARIANTS
  NotHeldBack
