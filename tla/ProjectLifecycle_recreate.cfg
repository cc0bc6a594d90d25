SPECIFICATION Spec
CONSTANTS
  h1 = h1  h2 = h2  a1 = a1  a2 = a2
  Harbor = {h1, h2}
  Admin = {a1}
  None = None
  Apart = TRUE
  Patient = FALSE
  AnswersLost = FALSE
  MaxProjects = 2
  MaxRequests = 1
  MaxCrashes = 0
INVARIANTS ActiveIsHeld
CHECK_DEADLOCK FALSE
