CONSTANTS
  a = a
  b = b
  w = w
  Envs = {a, b}
  Paths = {w}
  Asks <- AnyAsks
  Works = {w1}
  Empty = Empty
  Gits = {g1}
  NoGit = NoGit
  Absent = Absent
  None = None
  MaxCrashes = 0
  MaxFaults = 0
  PowerCuts = FALSE
SPECIFICATION Spec
INVARIANT ListedHasWorkspace
