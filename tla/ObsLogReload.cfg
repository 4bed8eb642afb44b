SPECIFICATION Spec
CONSTANTS
  Runs = {a, b}
  PerDay = 1
  MaxInterval = 4
  Cap = 3
  Legacy <- MCLegacy
  QuickReload = TRUE
SYMMETRY RunSymmetry
INVARIANTS NothingIsLost
