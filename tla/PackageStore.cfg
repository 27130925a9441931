SPECIFICATION Spec
CONSTANTS
  Package = {p1, p2, p3, p4}
  Matrix = {tech}
  Ids = ids
  Reader = {r1}
  MaxPackages = 2
  NoDir = NoDir
  MaxWrites = 5
  MaxReads = 1
  MaxKills = 1
PROPERTIES IsLRU FailsOnlyIfEvicted WriteEnds
CHECK_DEADLOCK FALSE
