SPECIFICATION IdentitySpec
CONSTANTS
  Prints <- MCPrints
  Options <- MCOptions
  Asks <- MCAsks
  Places <- MCPlaces
  Calls = {c1, c2}
  Journeys = {j1}
  HopBound = 1
  SwapBound = 1
  WorkerNames = {w1}
  Absent = Absent
  Custom = Custom
  c1 = c1
  c2 = c2
  j1 = j1
  w1 = w1
PROPERTY WorkersMatchSession
CHECK_DEADLOCK FALSE
