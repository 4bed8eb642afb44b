SPECIFICATION Spec
CONSTANTS
  Entities = {s1}
  Tasks = {t1, t2}
  Loop = loop
  Regions = {r1, r2}
  Entries = {e1, e2}
  Nobody = nobody
PROPERTIES WantedIsSettled
CHECK_DEADLOCK FALSE
