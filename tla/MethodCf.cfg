SPECIFICATION Spec
CONSTANTS
  NoFile = NoFile
  Editions <- MCEditions
  B <- MCB
  Supplies <- MCSupplies
  MaxEdits = 2
  MaxBuilds = 3
INVARIANTS IndexLeadsToFiles BuildIsCurrent SistersShareFate ScoresAreLocal
  TaggingIsNeutral ViewsAgree EmitIsFresh
CHECK_DEADLOCK FALSE
