CONSTANTS
  Envs = {e1, e2}
  Backers = {b}
  MaxChain = 2
  MaxTime = 5
  MaxChanges = 4
  MaxFaults = 1
SPECIFICATION Spec
SYMMETRY Symmetry
CHECK_DEADLOCK FALSE
INVARIANTS Restorable BackupIsCurrent NothingLeftOver
