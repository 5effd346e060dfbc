\* Both directions, one per behaviour; everything native may fail.
SPECIFICATION OneWaySpec
CONSTANTS
  MaxInbound = 3
  ReadChunk = 2
  MaxPendingWrite = 3
  WriteChunk = 2
  Budget = 2
  SendBuffer = 1
  PeerBytes = 4
  WriteSizes <- SmallWrites
  MaxFutures = 2
  MaxToggles = 1
  Faults <- EveryFault
INVARIANTS
  TypeOK
  UndeliveredBounded
  EofComplete
  ReadInterestExact
  WireInOrder
  WriteOkMeansWritten
  ShutdownAfterWrites
  OutboundBounded
PROPERTIES
  InputFlows
  WritesResolve
  CloseIsMutual
\* A closed transport has nothing left to do.
CHECK_DEADLOCK FALSE
