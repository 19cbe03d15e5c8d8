SPECIFICATION FairSpec
CONSTANTS
  Devices = {d1}
  NoDevice = NoDevice
  RestartBase = 1
  RestartMax = 2
  KillEscalation = 1
  PortCooldown = 2
  ReadyDeadline = 1
  HealthFailThreshold = 1
  MaxAttempt = 1
  MaxSessions = 2
  MaxLaunches = 2
INVARIANTS ReadyIsSupervised RoutesToOwnDevice NothingLeaks NoOrphans
PROPERTIES RestartsHaveCause NeverStuck
CHECK_DEADLOCK FALSE
