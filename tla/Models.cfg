SPECIFICATION FairSpec
CONSTANTS
  Models = {m1}
  Slots = {s1, s2}
  Deleters = {d1}
  Budget <- TwoFaults
  NoRow = NoRow
  NoMessage = NoMessage
  NoRequest = NoRequest
INVARIANTS
  TypeOK
  ReadyHasObject
  NothingLeaks
PROPERTIES
  EveryModelSettles
CHECK_DEADLOCK FALSE
