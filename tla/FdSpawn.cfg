\* Adoption beside an incarnation that exits.
SPECIFICATION PoolSpec
CONSTANTS
  t1 = t1
  t2 = t2
  t3 = t3
  Transport <- ThreeTransports
  MaxRegistered = 2
  LateTimeouts = 0
  Faults = {}
INVARIANTS
  OneSpawn
SYMMETRY Symmetry
CHECK_DEADLOCK FALSE
