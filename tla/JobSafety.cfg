SPECIFICATION Spec
CONSTANTS
  h1 = h1
  j1 = j1
  j2 = j2
  w1 = w1
  w2 = w2
  NoMessage = NoMessage
  Slots = {w1, w2}
  Handlers = {h1}
  Jobs = {j1, j2}
  RangedJobs = {j2}
  MaxRetries = 1
  Budget <- AllButDuplicates
SYMMETRY SlotSymmetry
INVARIANTS
  TypeOK
  AtMostOneExecutor
  PendingHasCarrier
PROPERTIES
  CancelIsFinal
  ImplementsLifecycle
CHECK_DEADLOCK FALSE
