CONSTANTS
  Turns = {t1, t2}
  PreRestores = {p1, p2}
  Contents = {c1, c2}
  Gone = Gone
  KeepTurns = 1
  MaxCrashes = 1
  PowerCuts = TRUE
  MaxCalls = 3
SPECIFICATION BoundedSpec
SYMMETRY Symmetry
INVARIANTS AckedIsKept RestoreDeliversSource DeletedStaysDeleted
PROPERTIES ReplacedIsKept ImplementsCheckpoints
