SPECIFICATION ConsumersSpec
CONSTANTS
  Activity <- MCActivity
  Product <- MCProduct
  Flow <- MCFlow
  Acid = {21}
  Perennial = {3, 8}
  Named = {1, 3}
  Multiplier = 3
  Modulus = 10
  Frames <- MCFrames
  Entries <- MCEntries
  Within <- MCWithin
  Width <- MCWidth
  Blank = Blank
  Options <- MCOptions
  Methods = {1, 2}
  Characterised <- MCCharacterised
  Corrections <- MCCorrections
  KnownFlow = {21}
  NoFile = NoFile
INVARIANTS SquareWhenPruned NoDanglingEdge
  MatrixIsReference AuditBlames ExportIsFaithful
  UnscoredIsExplained RowsKeepTheirProduct
CHECK_DEADLOCK FALSE
