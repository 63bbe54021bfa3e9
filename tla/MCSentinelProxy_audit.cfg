\* Two calls with one key: which of those turned away leave a record.
CONSTANTS
  alice = alice
  bob = bob
  k = k
  x = x
  y = y
  z = z
  mail = mail
  chat = chat
  Calls = {c1, c2}
  Requests = {r1, r2}
  Requesters = {alice}
  Approvers = {bob}
  Keys = {k}
  NoKey = NoKey
  Payloads = {x, y, z}
  Timeouts = {1}
  Upstreams = {None}
  Handles = {h1}
  SystemTimeout = SystemTimeout
  None = None
  AllowFailOpenTimeout = FALSE
  MaxTime = 2
  MaxEvents = 0
  Channels = {mail, chat}
  Adapters = {mail, chat}
  Inputs <- MCOneTool
  Rules <- MCRules
SYMMETRY ProxySymmetry
SPECIFICATION ProxySpec
CHECK_DEADLOCK FALSE
INVARIANTS
  RefusalsAreAudited
