SPECIFICATION FairSpec
CONSTANTS
  warning = warning
  danger = danger
  a1 = a1
  w1 = w1
  NoTime = NoTime
  Nobody = Nobody
  Nothing = Nothing
  Levels = {warning, danger}
  Batches <- TwoLevelBatches
  Suppress <- WarningOnly
  Workers = {w1}
  Admins = {a1}
  MaxTasks = 2
  MaxRetries = 1
  MaxErrors = 1
  MaxCrashes = 1
  MaxFailures = 1
  MaxEvents = 3
  Times <- TwoInstants
INVARIANTS
  UniqueOpen
  ReadingReconciled
  ShownAgrees
  OpenIsNotified
PROPERTIES
  BatchesComplete
CHECK_DEADLOCK FALSE
