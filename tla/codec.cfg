CONSTANTS
  MAX_PAYLOAD_LEN = 4
  checksum <- MCchecksum
  Traffic <- AnyTraffic
  Damageable <- DamagedTraffic
  Wrong = {1, 170}
  Cuts <- AnyCut
  MaxItems = 4
  MayHangUp = TRUE
SPECIFICATION FairSpec
INVARIANTS
  TypeOK
  CutsDontMatter
  FramesArrive
  NothingForged
  Resync
PROPERTIES
  MoreBytesRelease
