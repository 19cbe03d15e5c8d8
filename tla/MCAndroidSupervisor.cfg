SPECIFICATION Spec
CONSTANTS
  Devices = {d1}
  NoDevice = NoDevice
  RestartBase = 1
  RestartMax = 1
  KillEscalation = 1
  PortCooldown = 1
  ReadyDeadline = 1
  AdbTimeout = 1
  Grace = 1
  HealthFailThreshold = 1
  ReinstallAfterFailures = 1
  MaxAttempt = 1
  MaxSessions = 2
  MaxRestarts = 1
  MaxFailures = 1
INVARIANTS OneDriver ReadyIsSupervised ForwardsAccounted CleanExit
VIEW EssentialOrLeft
CHECK_DEADLOCK FALSE
