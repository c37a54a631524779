SPECIFICATION PartsSpec
CONSTANTS
  Sessions = {s1, s2, s3}
  Users = {u1, u2}
  Isolates = {i1, i2, i3}
  PoolSize = 2
  NoIsolate = NoIsolate
  s1 = s1
  s2 = s2
  s3 = s3
  u1 = u1
  u2 = u2
  i1 = i1
  i2 = i2
  i3 = i3
  Generators = {"g1"}
  MaxVersion = 2
  MaxFaults = 2
  LegacyLoads = 2
  Lookers = {l1, l2}
  l1 = l1
  l2 = l2
  MaxEdition = 2
  MaxReloads = 2
  Creators = {c1, c2}
  c1 = c1
  c2 = c2
  Prints <- MCPrints
  Device <- MCDevice
  CorrelatorOptions <- MCOptions
  Far <- FarApart
  SeedSpace = 2
  MaxAttempts = 2
  MaxResets = 1
  Networks <- MCNetworks
  BuiltIn <- MCBuiltIn
  Requests <- MCRequests
  MaxUAs = {0, 2}
  Offsets = {0, 19}
  Slots = {1}
  ProfileRequests = {r1, r2}
  r1 = r1
  r2 = r2
  ProfileSeeds = {1}
  MaxData = 2
  MaxCrashes = 1
  OneShots = {t1}
  Posts = {p1}
  Intervals = {n1}
  Evals = {e1}
  Nobody = Nobody
  QueueCap = 1
  TickBound = 2
  t1 = t1
  p1 = p1
  n1 = n1
  e1 = e1
INVARIANTS
  EntryInv
  OneShotAccounted
  IsolateExclusive
  IsolateAccounted
  FilesAgree
  ReloadTakesEffect
  LookupsSeeTheReload
  SessionsApart
  OneSessionPerDevice
  
  SavedProfilesResume
PROPERTIES
  MarkerArrives
  IntervalsDontPin
  GoroutinesEnd
CHECK_DEADLOCK FALSE
