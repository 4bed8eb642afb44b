SPECIFICATION Spec
CONSTANTS
  None = none
  Interval = 2
  Period = 4
  RunEvery = 4
  RetryLimit = 1
  MaxNow = 6
  Entries = {e1, e2}
  Nobody = nobody
  Retries = 2
  MaxMade = 3
  MaxOld = 2
  Regions = {r1, r2}
  Text <- NoticeTexts
  Cap = 2
  CurrentDays = 0
  Retention = 0
  MaxDay = 2
  Slots = {1, 3}
  Day = 4
  Grace = 1
  MaxAge = 1
  MaxTick = 6
  Unset = unset
  Tariffs = {"a", "b", "c"}
  Defaults = {"a", "b"}
  Fallback = "a"
  MaxRefits = 2
  Missing = missing
  PdPeriod = 2
  Bands <- Thinning
  Span = 5
  Forecast <- ForecastOf
  Settled <- SettledAt
  HistorySpan = 6
  MaxHalfHours = 5
INVARIANTS TypesOK QuietOnceShutDown OneChain ChainGoesOn GuardTracksCurrent CursorIsHonest WithdrawnStaysRetired SlotsStayArmed MissedRunIsTold ShownIsCurrent LedgerIsExact
PROPERTIES HeldRunsAdvance OnePollPerWindow ServedRunNeverGoesBack UserChoiceStands
CHECK_DEADLOCK FALSE
SYMMETRY RegionSymmetry
