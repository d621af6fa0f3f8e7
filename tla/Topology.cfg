SPECIFICATION Spec
CONSTANTS
  p1 = p1
  p2 = p2
  p3 = p3
  d1 = d1
  d2 = d2
  d3 = d3
  s1 = s1
  s2 = s2
  s3 = s3
  x1 = x1
  x2 = x2
  boss = boss
  member = member
  q1 = q1
  q2 = q2
  Nothing = Nothing
  Projects = {p1, p2, p3}
  Devices = {d1, d2, d3}
  Sensors = {s1, s2, s3}
  Channels = {x1, x2}
  Users = {boss, member}
  Requests = {q1, q2}
  CodeOf <- Codes
  SeedParent <- Places
  SeedLevel <- Permissions
  SeedRole <- FirstRoles
  MaxRequests = 2
  MaxRoleChanges = 1
  MaxReferred = 1
SYMMETRY Interchangeable
INVARIANTS
  TypeOK
  NothingWithoutRight
  CodesLocate
PROPERTIES
  RemovalsAreMeant
CHECK_DEADLOCK FALSE
