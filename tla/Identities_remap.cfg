SPECIFICATION Spec
CONSTANTS
  h1 = h1  p1 = p1  p2 = p2  u1 = u1  n1 = n1  x1 = x1  x2 = x2  m1 = m1
  Harbor = {h1}
  Project = {p1, p2}
  User = {u1}
  Username <- OneName
  Mappable = {x1, x2}
  Fold <- NoCase
  Admin = {m1}
  None = None
  Remaps = TRUE
  Apart = TRUE
  Patient = TRUE
  MaxRequests = 1
INVARIANTS GrantIsSomebodys
CHECK_DEADLOCK FALSE
