SPECIFICATION MCSpec
CONSTANTS
  Calls = {c1, c2, c3, c4, c5}
  InvalidCalls = {c5}
  UnpostableCalls = {c4}
  Closers = {k1, k2}
  maxInflight = 2
  t1 = t1  t2 = t2  t3 = t3  t4 = t4  t5 = t5  t6 = t6
  Transfers = {t1, t2, t3, t4, t5, t6}
  Request <- MCRequest
  PortClosers = {k1, k2}
  MaxWorkers = 3
  portInflight = 1
INVARIANTS
  TypesOK
  CallsSettleCleanly
  OrphanNeedsOverlap
PROPERTIES
  ImplementsLedger
  CloseTerminates
  PortUsesLedgers
  PortSettles
CHECK_DEADLOCK FALSE
