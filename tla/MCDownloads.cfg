SPECIFICATION FairSpec
CONSTANTS
  b1 = b1
  b2 = b2
  Books = {b1, b2}
  Length <- MCLength
  Back = 1
  Ahead = 1
  Workers = 2
  Runs = {1, 2}
  NoRun = 0
  Shelf <- MCShelf
  NoBook = NoBook
  MaxIntents = 2
  MaxFaults = 1
INVARIANTS
  TypeOK
  WholeBook
PROPERTIES
  FailuresTakeNothing
  Settles
CHECK_DEADLOCK FALSE
