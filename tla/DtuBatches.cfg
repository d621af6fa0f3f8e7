SPECIFICATION FairSpec
CONSTANTS
  d1 = d1
  d2 = d2
  Dtus = {d1, d2}
  BatchSize = 2
  MaxChunkSize = 4
  MaxReadings = 5
  MaxConnects = 4
INVARIANTS
  TypeOK
  InOrder
PROPERTIES
  QueuedIsHandled
  StopEnds
CHECK_DEADLOCK FALSE
