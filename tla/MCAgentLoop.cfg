SPECIFICATION LoopSpec
CONSTANTS
  IosDevices = {i1}
  AndroidDevices = {a1, a2}
  Unusable = {a2}
  StaticDevices = {s1}
  MaxConsecutiveFailures = 2
  MaxChanges = 4
PROPERTIES DroppedForCause PictureConverges
CHECK_DEADLOCK FALSE
