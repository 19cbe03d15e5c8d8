SPECIFICATION Spec
CONSTANTS
  a1 = a1
  d1 = d1
  Devices = {d1}
  Agents = {a1}
  NoAgent = NoAgent
  Attached <- OneHost
  HeartbeatTimeout = 0
  OccupationTtl = 1
  MaxGenerations = 2
  Connections = {c1, c2}
  NoConnection = NoConnection
  Requests = {r1, r2}
  NoRequest = NoRequest
  CommandTimeout = 0
  MaxQueueDepth = 2
  QueueStale = 0
  MaxCrashes = 1
INVARIANTS NoticeCovers RevokedStaysRevoked
PROPERTY HandoverOrder
VIEW Essential
SYMMETRY Interchangeable
