SPECIFICATION H2Spec
CONSTANTS
  InitialWindow = 4
  ConnWindowUpdate = 2
  DefaultWindow = 2
  Proxies = {"none"}
  Body = 2
  MaxFrame = 2
INVARIANT
  StopsAtEndStream
