\* Violated: the tools of a parallel group are called in a dry run.
CONSTANTS
  Sockets = {s1, s2}
  HubTokens = {"full", "narrow", "other"}
  IdOf <- MCIdOf
  HubScopes <- MCHubScopes
  HubExpiresAt <- MCHubExpiresAt
  Categories = {"runs", "pipelines", "admin"}
  HubClock = 2
  HubCases <- MCHubCases
  Runs = {"r1", "r2", "r3", "r4", "r5", "r6"}
  Groups <- MCGroups
  Kind <- MCKind
  MaxAttempts <- MCMaxAttempts
  Items = 2
  Children = 2
  Branches = {"yes", "no"}
  Variables = {"item", "row", "answer"}
  As <- MCAs
  OutputAs <- MCOutputAs
  ChildOutputAs <- MCChildOutputAs
  RunCases <- MCRunCases
  Callers = {c1, c2, c3}
  Rounds = {c2, c3}
  Clients = {x1, x2, x3}
  PoolSize = 2
  MaxSweeps = 1
  Ips = {"here"}
  ApiTokens = {"reader", "writer"}
  Strange = {"stolen"}
  ApiScopes <- MCApiScopes
  ApiExpiresAt <- MCApiExpiresAt
  MaxRequests = 2
  ApiWindow = 1
  Pipelines = {"p"}
  RunIds = {"r"}
  SharedStore = TRUE
  ApiClock = 4
  None = None
SPECIFICATION Spec
CHECK_DEADLOCK FALSE
INVARIANTS
  DryRunCallsNothing
