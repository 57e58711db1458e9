CONSTANTS
  IdMod = 1
  MaxBuilt = 1
  MaxSends = 2
  MaxEvents = 0
  MaxDamaged = 1
  Statuses = {TRUE}
  MayHangUp = TRUE
SPECIFICATION FairSpec
PROPERTIES
  PromptAckWins
  ExpiredPruned
  EveryWaiterEnds
  LoopServes
