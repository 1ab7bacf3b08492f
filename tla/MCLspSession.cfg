SPECIFICATION Spec
CONSTANTS
  Initializes = {i1, i2}
  Asks = {a1}
  Opens = {o1}
INVARIANTS
  TypeOK
  AskedOnlyWhenInitialized
  OrderlyOpensKept
  ZeroOnlyAfterShutdown
CHECK_DEADLOCK FALSE
