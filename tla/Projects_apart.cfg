SPECIFICATION Spec
CONSTANTS
  h1 = h1  h2 = h2  a1 = a1  a2 = a2  c1 = c1  c2 = c2
  Harbor = {h1, h2}
  Admin = {a1, a2}
  Cluster = {c1, c2}
  Home = c1
  i1 = i1  i2 = i2
  Image = {i1, i2}
  Whole = Whole
  None = None
SYMMETRY Symmetry
INVARIANTS TypeOK ActiveIsHeld DeletedIsOwed MemberHolds PlacementIsTrue NothingStray StaysRemoved KeptIsServed AccountsAreTrue
CHECK_DEADLOCK FALSE
