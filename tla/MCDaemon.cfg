SPECIFICATION FairSpec
CONSTANTS
  d1 = d1
  d2 = d2
  d3 = d3
  c1 = c1
  c2 = c2
  Daemons = {d1, d2, d3}
  Clients = {c1}
  MaxAlive = 2
  File = File
  None = None
INVARIANTS
  TypeOK
  ServingIsReachable
PROPERTIES
  StopEnds
CHECK_DEADLOCK FALSE
