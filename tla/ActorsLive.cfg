CONSTANTS
  Env = env
  Agent = agent
  Callers = {c1, c2}
  Stopper = stopper
  Actors = {a1, a2}
  None = None
  Asks <- Meeting
  CrashLimit = 1
  MaxTroubles = 1
SPECIFICATION FairSpec
PROPERTIES CallsEnd UnusedSleeps
