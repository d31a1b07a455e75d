SPECIFICATION Spec
CONSTANTS
  Launchers = {l1, l2}
  MaxRuntimes = 3
  MaxCuts = 2
SYMMETRY Symmetry
INVARIANTS
  RowsRecoverable
  OwnerStoppedIdle
PROPERTIES
  TreeStill
CHECK_DEADLOCK FALSE
