\* Liveness of the machines outside Sentinel, on the instances MCEnds gives them.
CONSTANTS
  c1 = c1
  k1 = k1
  q1 = q1
  s1 = s1
  s2 = s2
  m1 = m1
  home = home
  other = other
  pub = pub
  w1 = w1
  w2 = w2
  o1 = o1
  o2 = o2
  r1 = r1
  r2 = r2
  None = None
SPECIFICATION Spec
CHECK_DEADLOCK FALSE
PROPERTIES
  RequestsEnd
  ProbesEnd
  WorkEnds
