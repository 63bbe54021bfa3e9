\* The release scripts, the lab, Composer and Observatory, on the instances MCApps gives them.
CONSTANTS
  Packages = {1, 2, 3}
  Graphs <- MCGraphs
  Directories <- MCDirectories
  Attempts = 2
  MaxRuns = 2
  LabCases <- MCLabCases
  Servers <- MCServers
  Transports = {"http", "incomplete"}
  Tools <- MCTools
  Requests = {r1, r2}
  MaxConns = 4
  MaxChanges = 2
  WatchCases <- MCWatchCases
  o1 = o1
  o2 = o2
  o3 = o3
  call = call
  h1 = h1
  h2 = h2
  None = None
SPECIFICATION Spec
SYMMETRY Symmetry
CHECK_DEADLOCK FALSE
INVARIANTS
  ReleaseInOrder
  LabTellsTheServer
  ComposerKeepsBackends
  AlertsAreTimely
