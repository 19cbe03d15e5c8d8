CONSTANTS
  d1 = d1
  d2 = d2
  Devices <- OneDevice
  MaxIds = 2
  Ttl = 2
  IdleLimit = 1
  MaxRequests = 1
  MaxLosses = 1
  EnvIds <- EnvUnset
SPECIFICATION ClientsFairSpec

PROPERTIES KeptAlive AbandonedIsFreed StaleSessionEnds CliForgetsForCause
CHECK_DEADLOCK FALSE
