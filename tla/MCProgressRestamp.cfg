SPECIFICATION Spec
CONSTANTS
  Devices = {a, b}
  Positions <- MCPositions
  Percent <- MCPercent
  NoPosition = NoPosition
  Opening = 1
  Overlap = FALSE
  MaxTime = 3
  MaxRequests = 2
  MaxFaults = 0

PROPERTY NoStaleRewind
CHECK_DEADLOCK FALSE
