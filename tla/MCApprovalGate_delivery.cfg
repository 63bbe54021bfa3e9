\* Two callers with one key; the second channel has no adapter.
CONSTANTS
  alice = alice
  bob = bob
  k = k
  x = x
  y = y
  mail = mail
  chat = chat
  Calls = {c1, c2}
  Requests = {r1, r2}
  Requesters = {alice}
  Approvers = {bob}
  Keys = {k}
  NoKey = NoKey
  Payloads = {x, y}
  Timeouts = {1, 2}
  Upstreams = {None, 1}
  Handles = {h1}
  SystemTimeout = SystemTimeout
  None = None
  AllowFailOpenTimeout = TRUE
  MaxTime = 2
  MaxEvents = 0
  Channels = {mail, chat}
  Adapters = {mail}
  Inputs <- MCTwoChannels
SYMMETRY GateSymmetry
SPECIFICATION GateSpec
CHECK_DEADLOCK FALSE
INVARIANTS
  DeliveryFailureFailsClosed
