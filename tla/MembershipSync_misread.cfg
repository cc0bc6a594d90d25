SPECIFICATION Spec
CONSTANTS
  h1 = h1  h2 = h2  u1 = u1  u2 = u2  r1 = r1  r2 = r2  m1 = m1  m2 = m2
  Harbor = {h1, h2}
  User = {u1}
  Role = {r1}
  Manager = {m1}
  None = None
  Unknown <- NoStranger
  Apart = TRUE
  Patient = TRUE
  Misread = TRUE
  AnswersLost = FALSE
  MaxRequests = 2
  MaxCrashes = 0
SYMMETRY Symmetry
INVARIANTS RevocationIsOwed
CHECK_DEADLOCK FALSE
