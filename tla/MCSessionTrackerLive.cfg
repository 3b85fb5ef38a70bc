SPECIFICATION FairSpec
CONSTANTS
  Tabs = {t1, t2}
  Sids = {s1, s2}
  NoTab = NoTab
  NoSid = NoSid
  Browsers = {TRUE, FALSE}
  MaxGap = 1
  MaxDuration = 3
  Tolerance = 0
  MaxTime = 1
  MaxQueue = 2
  MaxFaults = 1
PROPERTY RunsEnd
CHECK_DEADLOCK FALSE
