SPECIFICATION Spec
CONSTANTS
  h1 = h1  h2 = h2  u1 = u1  u2 = u2  r1 = r1  r2 = r2  m1 = m1  m2 = m2
  Harbor = {h1, h2}
  User = {u1, u2}
  Role = {r1, r2}
  Manager = {m1}
  None = None
  Unknown <- OneStranger
  Apart = TRUE
  Patient = TRUE
  Misread = FALSE
  AnswersLost = FALSE
  MaxRequests = 3
  MaxCrashes = 1
SYMMETRY Symmetry
INVARIANTS TypeOK GrantIsOwed RevocationIsOwed OneRowPerSubject
CHECK_DEADLOCK FALSE
