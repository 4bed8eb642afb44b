SPECIFICATION Spec
CONSTANTS
  Regions = {r1, r2}
  Removable = {r1}
  Faulty = {r1}
  MaxShared = 1
  MaxResult = 2
  MaxStage = 2
INVARIANTS SingleDownload FreshReachesEveryStore
PROPERTIES UnloadedNotSaved
CHECK_DEADLOCK FALSE
CONSTRAINT OneRefits
