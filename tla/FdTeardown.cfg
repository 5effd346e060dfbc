\* closeWrite, then the peer's end of file, with writes still queued.
SPECIFICATION Spec
CONSTANTS
  MaxInbound = 1
  ReadChunk = 1
  MaxPendingWrite = 2
  WriteChunk = 1
  Budget = 1
  SendBuffer = 1
  PeerBytes = 0
  WriteSizes = {1, 2}
  MaxFutures = 2
  MaxToggles = 0
  Faults = {}
INVARIANTS
  TeardownResolvesWrites
\* A closed transport has nothing left to do.
CHECK_DEADLOCK FALSE
