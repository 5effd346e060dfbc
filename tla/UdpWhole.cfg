\* Every datagram may have been sent and delivered.
SPECIFICATION UdpSpec
CONSTANTS
    Datagrams = 3
    DatagramSizes = {1, 4, 6}
    UdpHeader = 2
    MaxPayload = 4
    UdpSocketSpace = 2
    MaxChunk = 7
    MaxQueued = 8
    TurnBudget = 9
INVARIANT DatagramsWhole
CHECK_DEADLOCK FALSE
