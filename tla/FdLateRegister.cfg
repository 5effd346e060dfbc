\* One registration times out although its incarnation is alive.
SPECIFICATION PoolSpec
CONSTANTS
  t1 = t1
  t2 = t2
  t3 = t3
  Transport <- TwoTransports
  MaxRegistered = 1
  LateTimeouts = 1
  Faults = {}
INVARIANTS
  ClosedOnce
CHECK_DEADLOCK FALSE
