SPECIFICATION Spec
CONSTANTS
  Tabs = {t1, t2}
  Sids = {s1, s2}
  NoTab = NoTab
  NoSid = NoSid
  Browsers = {TRUE, FALSE}
  MaxGap = 1
  MaxDuration = 3
  Tolerance = 0
  MaxTime = 2
  MaxQueue = 2
  MaxFaults = 2
SYMMETRY Symmetry
INVARIANTS
  OneOpenRunLeased
  ActiveHoldsLock
  TypeOK
PROPERTIES
  TableSpec
  OnlyForegroundCredited
CHECK_DEADLOCK FALSE
