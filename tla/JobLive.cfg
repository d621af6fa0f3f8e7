SPECIFICATION FairSpec
CONSTANTS
  h1 = h1
  j1 = j1
  j2 = j2
  w1 = w1
  NoMessage = NoMessage
  Slots = {w1}
  Handlers = {h1}
  Jobs = {j1, j2}
  RangedJobs = {j2}
  MaxRetries = 2
  Budget <- ErrorAndDuplicate
INVARIANTS
  ServedResultIsStored
PROPERTIES
  EveryJobSettles
CHECK_DEADLOCK FALSE
