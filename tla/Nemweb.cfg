SPECIFICATION FairSpec
CONSTANTS
  Regions = {r1, r2}
  Others = {n1, o1}
  Notices = {n1}
  Nobody = nobody
  MaxConcurrent = 2
  Gap = 2
  Window = 1
  MaxAttempts = 2
  NoticeAttempts = 2
  MaxFile = 2
INVARIANTS TypeOK SlotsAccountedFor
PROPERTIES AdmissionsAreSpaced EachFileParsedOnce EveryRefreshEnds
