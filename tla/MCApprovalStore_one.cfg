\* One request, every kind of actor and argument, two database handles.
CONSTANTS
  Requests = {r1}
  Requesters = {alice}
  Approvers = {alice, bob}
  Keys = {k}
  NoKey = NoKey
  Payloads = {x}
  Timeouts = {1, 2}
  Upstreams = {None, 2}
  Handles = {h1, h2}
  SystemTimeout = SystemTimeout
  None = None
  AllowFailOpenTimeout = TRUE
  MaxTime = 3
  MaxEvents = 4
SPECIFICATION Spec
CHECK_DEADLOCK FALSE
INVARIANTS
  TypeOK
  LogTellsTheRow
  ClaimNeedsApproval
  CapabilitySpentByDecision
  DecisionInTime
PROPERTIES
  SettledForGood
  ImplementsLifecycle
