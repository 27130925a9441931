SPECIFICATION Spec
CONSTANTS
  Process = {"p", "s", "c"}
  Product = {"wasteFR", "wasteRoW", "power", "food", "meal"}
  Activity = {"tap", "oil", "mains", "haul", "treat"}
  Edge = {"c0", "c1", "c2", "p1", "p2", "s1", "s2"}
  Name <- MCName
  Unit = {"kg", "MJ", "kWh", "m", "km", "ton"}
  Location = {"FR", "CH", "RER", "RoW"}
  Ref = {"tap", "oil", "mains", "transport", "waste", "stale"}
  ProcessName <- MCProcessName
  NameOf <- MCNameOf
  UnitOf <- MCUnitOf
  Stem <- MCStem
  Place <- MCPlace
  Candidates <- MCCandidates
  Fallback <- MCFallback
  Rank <- MCRank
  Catalog <- MCCatalog
  Corrected <- MCCorrected
  Restored <- MCRestored
  CustomFix <- MCCustomFix
  Conversion <- MCConversion
  Electricity = {"power {FR}", "electricity market"}
  Dummy = {"waste [dummy]"}
  Megajoule = "MJ"
  KilowattHour = "kWh"
  Unlinked = Unlinked
  None = None
  Garbled = Garbled
  Sources <- MCSources
INVARIANTS ReferenceKept NothingSilentlyLost UnitsAgree SystemProcessReached LabelsLeadToEcoinvent
PROPERTIES ProducedLinksStay
CHECK_DEADLOCK FALSE
