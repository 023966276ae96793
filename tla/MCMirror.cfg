SPECIFICATION Spec
CONSTANTS
  Refresher = {f1, f2}
  Balance = {0, 1}
  MaxDay = 1
  MaxEdits = 3
CHECK_DEADLOCK FALSE
SYMMETRY Symmetry
INVARIANT RefreshIsExact
