CONSTANTS
  a = a
  b = b
  w = w
  Envs = {a, b}
  Paths = {w}
  Asks <- T3Asks
  Works = {w1, w2}
  Empty = Empty
  Gits = {g1}
  NoGit = NoGit
  Absent = Absent
  None = None
  MaxCrashes = 1
  MaxFaults = 1
  PowerCuts = FALSE
SPECIFICATION Spec
SYMMETRY Symmetry
INVARIANTS ListedHasWorkspace NothingLost
PROPERTIES WorkIsKept
