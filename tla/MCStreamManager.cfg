SPECIFICATION Spec
CONSTANTS
  RestartBase = 1
  RestartMax = 2
  KillEscalation = 1
  FirstOutput = 2
  ConnectRetry = 1
  Grace = 1
  MaxAttempt = 1
  MaxStreams = 2
  MaxLaunches = 3
INVARIANTS NoChildLeaks StreamIsDriven FramesInOwnSize AwaitedAreGone
CHECK_DEADLOCK FALSE
