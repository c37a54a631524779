SPECIFICATION DataSpec
CONSTANTS
  Generators = {"g1"}
  MaxVersion = 2
  MaxFaults = 1
  LegacyLoads = 1
INVARIANT HotReloadReachesProfiles
CHECK_DEADLOCK FALSE
