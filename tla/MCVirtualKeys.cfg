\* Three keys, two administrators rotating and revoking at once, two calls at the limiter.
CONSTANTS
  Ids = {k1, k2, k3}
  Tools = {read}
  Admins = {a1, a2}
  Proxies = {p1}
  Calls = {c1, c2}
  Limits = {None, 1}
  Expiries = {None, 0}
  None = None
  Window = 1
  MaxTime = 2
SYMMETRY KeySymmetry
SPECIFICATION Spec
CHECK_DEADLOCK FALSE
INVARIANTS
  TypeOK
  RotatedKeyIsDead
  HeirKeepsTerms
  RateBounded
PROPERTIES
  RevokedForGood
