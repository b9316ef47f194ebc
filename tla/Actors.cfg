CONSTANTS
  Env = env
  Agent = agent
  Callers = {c1, c2}
  Stopper = stopper
  Actors = {a1, a2, a3}
  None = None
  Asks <- Mixed
  CrashLimit = 1
  MaxTroubles = 1
SPECIFICATION Spec
SYMMETRY Symmetry
INVARIANTS OneActor BoxHasActor CommandsCounted ServicesOnNewDisk
