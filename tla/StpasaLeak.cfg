SPECIFICATION Spec
CONSTANTS
  Regions = {r1, r2}
  Removable = {r1}
  Faulty = {}
  MaxShared = 1
  MaxResult = 2
  MaxStage = 0
INVARIANT ClaimHasAHolder
CHECK_DEADLOCK FALSE
