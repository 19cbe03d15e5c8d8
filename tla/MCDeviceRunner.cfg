SPECIFICATION RunnerSpec
CONSTANTS
  NoCommand = NoCommand
  Health = Health
  MaxCommands = 4
  ActionTimeout = 3
  ClientTimeout = 4
  HealthTimeout = 2
  HealthInterval = 4
  HealthFailThreshold = 3
  MaxCrashes = 1
INVARIANT FailsOnlyWhenBlocked
PROPERTIES NoGhostInput HungIsRestarted
CHECK_DEADLOCK FALSE
