SPECIFICATION FairSpec
CONSTANTS
  Queries = {q1, q2}
  Keys = {k1}
  Closers = {c1}
  Reaper = Reaper
  None = None
  IdleTimeout = 1
  MaxTime = 1
PROPERTIES
  QueryReturns
  ShutdownReturns
