SPECIFICATION FairSpec
CONSTANTS
  Devices = {a}
  Positions <- MCPositions
  Percent <- MCPercent
  NoPosition = NoPosition
  Opening = 1
  MaxFaults = 2
  Overlap = FALSE
  MaxTime = 3
  MaxRequests = 2
INVARIANTS
  TypeOK
  NoReadingForgotten
  NewestWins
  CleanIsCurrent
CHECK_DEADLOCK FALSE
PROPERTY Settles
