SPECIFICATION Spec
CONSTANTS
  Entities = {e1, e2}
  Removable = {e1}
  Tasks = {t1, t2}
  Loop = loop
  Periods = 2
  MaxAttempts = 2
  MaxData = 1
  MaxStpasa = 1
  MaxFit = 1
SYMMETRY Symmetric
INVARIANTS TypeOK MemoNamesItsInputs RemovedNeverWrites
PROPERTIES WriteIsCurrent SlotNotOvertaken
CHECK_DEADLOCK FALSE
CONSTRAINTS StpasaMovesAlone RemovedBeforeRefit
