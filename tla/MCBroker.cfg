SPECIFICATION Spec
CONSTANTS
  Queries = {q1, q2}
  Keys = {k1, k2}
  Closers = {c1, c2}
  Reaper = Reaper
  None = None
  IdleTimeout = 1
  MaxTime = 1
SYMMETRY BrokerSymmetry
INVARIANTS
  TypeOK
  OneWarmServer
  CacheIsUsable
  InflightCountsUsers
  LateQueriesRefused
  TeardownsDisjoint
  NothingOutlivesShutdown
PROPERTIES
  GuardedNeverReaped
  PoolSpec
