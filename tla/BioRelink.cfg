SPECIFICATION Spec
CONSTANTS
  Exchanges = {"x1", "x2"}
  Inventories <- MCInventories
  SourceSets <- MCSourceSets
  Snapshots <- MCSnapshots
  MethodUuids = {}
  EfUniverse <- MCEfUniverse
  WaterNames <- MCWaterNames
  BioNames <- MCBioNames
  Migrations <- MCMigrations
  ApplyLlm = TRUE
  UnitSize <- MCUnitSize
  MaxLinks = 2
INVARIANTS
  RelinkReproduces
