SPECIFICATION FairSpec
CONSTANTS
  h1 = h1  h2 = h2  u1 = u1  r1 = r1  m1 = m1  m2 = m2  v0 = v0  v1 = v1
  None = None
PROPERTIES FanOutSettles
CHECK_DEADLOCK FALSE
