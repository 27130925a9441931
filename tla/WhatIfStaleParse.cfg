SPECIFICATION Spec
CONSTANTS
  c1 = c1
  c2 = c2
  fr = fr
  de = de
  it = it
  k1 = k1
  Csv <- TwoCsv
  Stamp <- StampOf
  Linking <- Linkings
  Unlinked = Unlinked
  Link <- LinkOf
  Synthetic <- SyntheticOf
  Defines <- DefinesOf
  Key = {k1}
  Value = {v1}
  Unset = Unset
  Code = {fr, de, it}
  Method = {m1, m2}
  Artifact = {scores, csv1}
  MaxPackages = 3
  NoFile = NoFile
  Torn = Torn
  Outdated = Outdated
  MidRunEdits = FALSE
  MaxCommands = 2
  MaxCrashes = 0
  MaxEdits = 1
INVARIANTS LinkedMatchesSource
CHECK_DEADLOCK FALSE
