SPECIFICATION FairSpec
CONSTANTS
  Devices = {d1}
  Agents = {a1, a2}
  NoAgent = NoAgent
  HeartbeatTimeout = 1
  OccupationTtl = 2
  MaxGenerations = 2
  Connections = {c1, c2}
  NoConnection = NoConnection
  Viewers = {v1}
  Requests = {r1}
  CommandTimeout = 1
  MaxCrashes = 1
INVARIANTS OnlyForOccupant PendingNeverIdle
PROPERTIES OfflineOnlyWhenGone ImplementsRegistry EveryCommandIsAnswered
