\* A partial write, closeWrite, and the flush that ends in SHUT_WR.
SPECIFICATION Spec
CONSTANTS
  MaxInbound = 1
  ReadChunk = 1
  MaxPendingWrite = 2
  WriteChunk = 1
  Budget = 1
  SendBuffer = 1
  PeerBytes = 0
  WriteSizes = {1, 2}
  MaxFutures = 2
  MaxToggles = 0
  Faults = {}
INVARIANTS
  WriteInterestOnlyWithData
\* A closed transport has nothing left to do.
CHECK_DEADLOCK FALSE
