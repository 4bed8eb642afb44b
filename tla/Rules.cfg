SPECIFICATION Spec
CONSTANTS
  None = None
  Unit = 43200
  FullDays = 2
  RawLow = 0
  RawHigh = 1
  MinHorizon = 22
  MaxHorizon = 120
  MinStage2 = 2
  Depth = 86400
  Interval = 2
  Period = 4
  P5Intervals = 3
  PdPeriods = 2
  CalibratedPeriods = 4
  P5MaxAge = 3
  PdMaxAge = 5
  MaxNow = 5
  SeamInterval = 4
  SeamDay = 16
  ShortFrom = 4
  ShortTo = 8
  Offset = 1
  Codes = {"a", "b", "n", "x"}
  Snapshot <- KnownCodes
  Enabled = {"b", "n"}
  Programs <- KnownPrograms
  Overrides <- KnownOverrides
  WithX <- CodesWithX
  Extensions <- KnownExtensions
  TariffDay = 4
  Months = 2
  LibAppliesGst = {"g"}
  Default <- DefaultLosses
  LossMin = 4
  LossMax = 5
  MaxCached = 2
INVARIANTS FitIsSound ServingIsBounded LearnedAsServed TimelineIsSeamless PublishedIsTold TariffsAddUp MemosAreCurrent
CHECK_DEADLOCK FALSE
