SPECIFICATION PartsSpec
CONSTANTS
  Fetches = {f1}
  Navigations = {n1}
  Urls <- MCUrls
  Addresses <- MCAddresses
  Lines <- MCLines
  SetCookies <- MCSetCookies
  ScriptLines <- MCScriptLines
  Initial = {"sid"}
  MaxHops = 1
  WriteBound = 1
  Prints <- MCPrints
  Options <- MCOptions
  Asks <- MCAsks
  Places <- MCPlaces
  Calls = {c1, c2}
  Journeys = {j1}
  HopBound = 1
  SwapBound = 1
  WorkerNames = {w1}
  Absent = Absent
  Custom = Custom
  c1 = c1
  c2 = c2
  j1 = j1
  w1 = w1
  InitialWindow = 3
  ConnWindowUpdate = 1
  DefaultWindow = 1
  Proxies = {"none", "http", "socks5", "socks4"}
  Body = 4
  MaxFrame = 2
  Ids = {a, b}
  Ops = {o1}
  Closers = {k1}
  Subscribers = {x1}
  Janitor = Janitor
  NoId = NoId
INVARIANTS
  CookiesInScope
  OneVisitor
  NoStall
  WireMatchesAccounts
  SentOnce
  NoConnLeaks
  AnswerIsWhole
  RegistryInv
PROPERTIES
  HopsCarryCookies
  RequestsEnd
  Delivered
  NoLateStart
  TeardownCompletes
  StreamsEnd
CHECK_DEADLOCK FALSE
