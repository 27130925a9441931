SPECIFICATION Spec
CONSTANTS
  NoFile = NoFile
  Editions <- MCEditions
  B <- MCB
  Supplies <- MCSupplies
  MaxEdits = 2
  MaxBuilds = 3
INVARIANT TaggedAreCorrected
CHECK_DEADLOCK FALSE
