SPECIFICATION FairSpec
CONSTANTS
  Sockets = {s1, s2}
  NoSocket = NoSocket
  BackoffBase = 1
  BackoffMax = 30
  MaxAttempt = 5
  StableReset = 30
  PingInterval = 30
  PongTimeout = 10
INVARIANT OneConnection
PROPERTIES NoFastLoop SilenceIsNoticed TriesAgain
