SPECIFICATION Spec
CONSTANTS
  Names = {web}
  Managers = {m1}
  MaxCommands = 2
INVARIANT RemovedStaysRemoved
CHECK_DEADLOCK FALSE
