SPECIFICATION FairSpec
CONSTANTS
  h1 = h1
  h2 = h2
  Ids = {h1}
  MaxEdits = 2
  MaxCrashes = 1
  MaxFaults = 1
  MaxStray = 1
  Primes = TRUE
  MaxLag = 0
INVARIANTS
  TypeOK
  OnePerHighlight
PROPERTY Drains
