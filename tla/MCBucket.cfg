SPECIFICATION Spec
CONSTANTS
  h1 = h1
  h2 = h2
  Ids = {h1, h2}
  MaxEdits = 3
  MaxCrashes = 1
  MaxFaults = 0
  MaxStray = 0
  Primes = FALSE
  MaxLag = 3
INVARIANTS
  EditsKept
  RowsMirrored
  NoGhost
PROPERTIES
  InOrder
  ListsOnlyCatchUp
  EditsStayShown
CONSTRAINT ShortChain
SYMMETRY Interchangeable
