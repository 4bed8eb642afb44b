SPECIFICATION Spec
CONSTANTS
  Runs = {a, b}
  PerDay = 1
  MaxInterval = 4
  Cap = 3
  Legacy <- MCLegacy
  QuickReload = FALSE
SYMMETRY RunSymmetry
INVARIANTS NothingIsLost FilesAreNamed AccumHoldsTheLog
PROPERTIES DurableRowsStay
