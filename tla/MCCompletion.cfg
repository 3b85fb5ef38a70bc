SPECIFICATION FairSpec
CONSTANTS
  Tabs = {t1}
  Books = {b1}
  Dates = {none, today}
  NoDate = none
  Rendered = FALSE
  MaxRevision = 2
  MaxGets = 1
  MaxOthers = 1
  MaxFaults = 1
INVARIANTS TypeOK EditsKept NeverTakenBack NoOldResend DeletedStaysGone
PROPERTIES Drains DeletionArrives
CHECK_DEADLOCK FALSE
