SPECIFICATION Spec
CONSTANTS
  warning = warning
  danger = danger
  w1 = w1
  w2 = w2
  NoTime = NoTime
  Nobody = Nobody
  Nothing = Nothing
  Levels = {warning}
  Batches <- OneLevelBatches
  Suppress <- OneSecond
  Workers = {w1, w2}
  Admins = {}
  MaxTasks = 2
  MaxRetries = 1
  MaxErrors = 0
  MaxCrashes = 0
  MaxFailures = 0
  MaxEvents = 2
  Times <- ThreeInstants
INVARIANTS
  UniqueOpen
CHECK_DEADLOCK FALSE
