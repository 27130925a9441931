SPECIFICATION Spec
CONSTANTS
  Process = {"pack", "u1", "u2", "tin"}
  Synthetic = {"u1", "u2"}
  Input = {"W", "S", "Q"}
  Calculated = {"N", "L"}
  Spelling = {"weight", "sp_weight", "share", "rest", "quality", "typo"}
  Norm <- MCNorm
  Formula = {"net", "load", "perShare", "fixed", "half", "gap", "only", "rate"}
  Refs <- MCRefs
  Value <- MCValue
  NonFinite = NonFinite
  Global = "*"
  None = None
  Exports <- MCExports
  Amount = {0, 4}
  MaxCommands = 3
INVARIANTS AmountsAreAsked ConfirmedSurvives FailureNeedsTwo NoEffectIsTrue
CHECK_DEADLOCK FALSE
