SPECIFICATION FairSpec
CONSTANTS
  w1 = w1
  w2 = w2
  Workers = {w1, w2}
  Nobody = Nobody
  MaxTasks = 3
  MaxRounds = 2
  MaxSpurious = 1
  HandlerReadds = FALSE
CHECK_DEADLOCK FALSE
PROPERTY
  ShutdownEndsWorkers
