CONSTANTS
  Turns = {t1, t2}
  PreRestores = {p1}
  Contents = {c1, c2}
  Gone = Gone
  KeepTurns = 1
  MaxCrashes = 1
  PowerCuts = TRUE
  MaxCalls = 2
SPECIFICATION FairBoundedSpec
PROPERTY Recovers
