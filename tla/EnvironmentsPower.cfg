CONSTANTS
  a = a
  b = b
  w = w
  Envs = {a}
  Paths = {w}
  Asks <- T3Asks
  Works = {w1}
  Empty = Empty
  Gits = {g1}
  NoGit = NoGit
  Absent = Absent
  None = None
  MaxCrashes = 2
  MaxFaults = 0
  PowerCuts = TRUE
SPECIFICATION FairSpec
 
PROPERTY LeftoversGo
