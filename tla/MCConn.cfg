SPECIFICATION FairSpec
CONSTANTS
  q1 = q1
  q2 = q2
  r1 = r1
  n1 = n1
  n2 = n2
  Calls = {q1, r1}
  Notes = {n1, n2}
  MaxBegun = 3
  From <- Origin
  Echoed = {n1}
  Impatient = {q1}
  Quitters = {"client"}
  Capacity = 1
INVARIANTS
  TypeOK
  DeliverNeverBlocks
  WireOrder
PROPERTIES
  RpcSpec
  CancelNotLost
  CallReturns
  LoopEnds
CHECK_DEADLOCK FALSE
