CONSTANTS
  MaxLine = 3
  MaxText = 6
  MaxCommands = 2
SPECIFICATION FairSpec
CHECK_DEADLOCK FALSE
INVARIANTS
  AsksWhileOpen
  PromptAfterOutput
PROPERTIES
  NobodyWaitsForever
