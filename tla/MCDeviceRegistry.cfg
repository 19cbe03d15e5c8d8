SPECIFICATION FairSpec
CONSTANTS
  Devices = {d1, d2}
  Agents = {a1, a2}
  NoAgent = NoAgent
  HeartbeatTimeout = 1
  OccupationTtl = 2
  MaxGenerations = 3
PROPERTIES ImplementsOccupancy NoEarlyEnd OccupationsAreReclaimed
