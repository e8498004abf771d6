SPECIFICATION FairTwoClients
CONSTANTS
  None = None
  Configs <- AllClients
  MaxTries = 3
  Silence = 2
  Backlog = 3
INVARIANTS
  ClientIsRight
PROPERTIES
  PromiseKept
  LossRepaired
CHECK_DEADLOCK FALSE
