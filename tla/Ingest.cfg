SPECIFICATION FairSpec
CONSTANTS
  c1 = c1
  c2 = c2
  c3 = c3
  x = x
  y = y
  Nothing = Nothing
  Calls = {c1, c2, c3}
  Channels = {x, y}
  BatchOf <- Batches
  Budget <- OneOfEach
INVARIANTS
  TypeOK
  LatestIsNewest
PROPERTIES
  ImplementsContract
  StoredIsChecked
CHECK_DEADLOCK FALSE
