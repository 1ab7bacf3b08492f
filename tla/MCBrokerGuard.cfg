SPECIFICATION Spec
CONSTANTS
  Queries = {q1, q2}
  Keys = {k1}
  Closers = {}
  Reaper = Reaper
  None = None
  IdleTimeout = 1
  MaxTime = 1
INVARIANTS
  GuardedForTheCall
