\* Every machine of the shared package and of Atlas, on the instances MCShared gives it.
CONSTANTS
  Calls = {c1}
  Connects = {k1, k2}
  Disconnects = {q1}
  MaxOutput = 2
  MaxLines = 2
  Servers = {s1, s2}
  Seeds = {s1}
  Rounds = {m1, m2}
  HealthClock = 3
  MaxRows = 3
  Submissions = {r1, r2, r3}
  Clients = {i1, i2}
  Names = {name}
  TokenSet = TRUE
  SubmissionMax = 2
  WindowMs = 1
  SubmitClock = 2
  Origins = {home, other, stranger}
  Allowed = {home, other}
  Trusted = {other}
  Addresses = {pub, priv}
  Public = {pub}
  MaxRedirects = 2
  MaxChunks = 1
  None = None
SPECIFICATION Spec
CHECK_DEADLOCK FALSE
INVARIANTS
  ClientPromises
  VerdictIsEarned
  HealthTellsTheServer
  SubmissionsAdmitted
  FetchStaysInPolicy
PROPERTIES
  SharedSteps
