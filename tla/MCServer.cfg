SPECIFICATION Spec
CONSTANTS
  Conns = {k1, k2}
  Error = Error
  PoolSizes = {0, 3}
  MaxFds = 1
INVARIANTS
  TypeOK
  OneThreadPerContext
  AcceptLoop
  UndefinedOnly
PROPERTIES
  Accepted
  Served
  DestroyEnds
CHECK_DEADLOCK FALSE
