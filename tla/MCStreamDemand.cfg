SPECIFICATION FairSpec
CONSTANTS
  a1 = a1
  a2 = a2
  d1 = d1
  Devices = {d1}
  Agents = {a1, a2}
  NoAgent = NoAgent
  Attached <- TwoHosts
  HeartbeatTimeout = 0
  OccupationTtl = 0
  MaxGenerations = 1
  Connections = {c1, c2}
  NoConnection = NoConnection
  Viewers = {v1}
  CommandTimeout = 0
  MaxCrashes = 0
  MaxInFlight = 2
INVARIANT LatestIsRight
PROPERTY GateFollowsDemand
