SPECIFICATION Spec
CONSTANTS
  Entities = {e1}
  Removable = {}
  Tasks = {t1, t2}
  Loop = loop
  Periods = 1
  MaxAttempts = 3
  MaxData = 0
  MaxStpasa = 2
  MaxFit = 0
SYMMETRY Symmetric
INVARIANT MemoNamesItsStpasa
CHECK_DEADLOCK FALSE
