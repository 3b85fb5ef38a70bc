SPECIFICATION Spec
CONSTANTS
  Tabs = {c1}
  Readers = {g1, g2}
  Sids = {s1}
  Instants <- MCInstants
  MaxSeconds = 2
  NoCopy = NoCopy
  NoHome = NoHome
  MaxRevision = 2
  MaxStray = 1
  MaxRemote = 1
SYMMETRY Symmetry
INVARIANTS
  CreditIsRecorded
  NeverDoubleCounted
  NothingMissing
PROPERTY DisplayNeverFalls
CHECK_DEADLOCK FALSE
