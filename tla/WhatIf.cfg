SPECIFICATION FairSpec
CONSTANTS
  c1 = c1
  c2 = c2
  fr = fr
  de = de
  it = it
  k1 = k1
  Csv <- TwoCsv
  Stamp <- StampOf
  Linking <- Linkings
  Unlinked = Unlinked
  Link <- LinkOf
  Synthetic <- SyntheticOf
  Defines <- DefinesOf
  Key = {k1}
  Value = {v1, v2}
  Unset = Unset
  Code = {fr, de, it}
  Method = {m1, m2}
  Artifact = {scores, csv1}
  MaxPackages = 2
  NoFile = NoFile
  Torn = Torn
  Outdated = Outdated
  MidRunEdits = TRUE
  MaxCommands = 4
  MaxCrashes = 1
  MaxEdits = 1
INVARIANTS LinkedIsPristine FullLinkIsDeterministic StoreIsBounded CatalogMatchesPackage
PROPERTIES ReportStaysLive RescoreSettles CommandTerminates
CHECK_DEADLOCK FALSE
