SPECIFICATION DispatchSpec
CONSTANTS
  Entries = {e1, e2}
  Nobody = nobody
  Retries = 1
  MaxMade = 2
  MaxOld = 1
INVARIANT LoadedEntryIsServed
CHECK_DEADLOCK FALSE
