SPECIFICATION Spec
CONSTANTS
  w1 = w1
  w2 = w2
  Workers = {w1, w2}
  Nobody = Nobody
  MaxTasks = 3
  MaxRounds = 2
  MaxSpurious = 1
  HandlerReadds = TRUE
SYMMETRY Symmetry
CHECK_DEADLOCK FALSE
INVARIANTS
  TypeOK
  BusyCountExact
  ExitOnlyAfterShutdown
  ConservedUnlessCrowded
PROPERTIES
  KeepsPromise
