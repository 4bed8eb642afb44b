SPECIFICATION FeedSpec
CONSTANTS
  Regions = {r1, r2}
  Text <- MCText
  Cap = 2
  CurrentDays = 0
  Retention = 0
  MaxDay = 2
INVARIANT LastFetchedWasAnswered
CHECK_DEADLOCK FALSE
SYMMETRY RegionSymmetry
