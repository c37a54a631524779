SPECIFICATION ProfileSpec
CONSTANTS
  Slots = {1}
  ProfileRequests = {r1}
  ProfileSeeds = {1}
  MaxData = 1
  MaxCrashes = 0
INVARIANT ResumedAsSaved
CHECK_DEADLOCK FALSE
