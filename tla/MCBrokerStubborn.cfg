SPECIFICATION StubbornSpec
CONSTANTS
  Queries = {q1}
  Keys = {k1}
  Closers = {c1}
  Reaper = Reaper
  None = None
  IdleTimeout = 1
  MaxTime = 1
PROPERTIES
  ShutdownReturns
