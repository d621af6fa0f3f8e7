SPECIFICATION Spec
CONSTANTS
  u1 = u1
  u2 = u2
  u3 = u3
  q1 = q1
  q2 = q2
  Nobody = Nobody
  Ids = {u1, u2, u3}
  NameOf <- FirstTwoClash
  Payloads <- OneField
  Requests = {q1, q2}
SYMMETRY HandlerSymmetry
INVARIANTS
  TypeOK
PROPERTIES
  CountedCommitKeepsAdmin
CHECK_DEADLOCK FALSE
