SPECIFICATION Spec
CONSTANTS
  h1 = h1
  h2 = h2
  Ids = {h1}
  MaxEdits = 2
  MaxCrashes = 0
  MaxFaults = 0
  MaxStray = 0
  Primes = FALSE
  MaxLag = 0
INVARIANT QueueMirrored
