SPECIFICATION FairSpec
CONSTANTS
  Tabs = {c1, c2}
  Readers = {}
  Sids = {s1}
  Instants <- LiveInstants
  MaxSeconds = 2
  NoCopy = NoCopy
  NoHome = NoHome
  MaxRevision = 2
  MaxStray = 1
  MaxRemote = 0
INVARIANTS
  TypeOK
  NeverRejected
  AckedIsCredited
PROPERTIES
  Settles
CHECK_DEADLOCK FALSE
