SPECIFICATION FairSpec
CONSTANTS
  c1 = c1
  c2 = c2
  u = u
  v = v
  Callers = {c1, c2}
  Words = {u, v}
  Queries <- MCQueries
  MaxCalls = 2
  MaxRounds = 2
  MaxSpurious = 1
  MaxExceptions = 2
CHECK_DEADLOCK FALSE
INVARIANTS
  TypeOK
  HandledUnlessCrowded
  WordIdsSound
  ServesUntilShutdown
  ShutdownEmptiesQueue

  
