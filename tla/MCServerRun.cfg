CONSTANTS
  OtherFiles <- MCOtherFiles
  Sizes <- MCSizes
  MaxCapacity = 5
  MaxSaves = 2
  Threads = {t1, t2}
  Words = {w1}
  LengthSize = 2
  BlockSize = 2
  MaxBlocks = 2
  MaxConnections = 3
  MaxRestarts = 1
SPECIFICATION Spec
INVARIANTS
  TypeOK
  SectionsDense
  ListsAllButLone
  WaitsOnlyOnBadLength
PROPERTIES
  OverwritesOnlyAlone
  
SYMMETRY MCThreadSymmetry
CHECK_DEADLOCK FALSE
