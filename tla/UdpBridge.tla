------------------------------ MODULE UdpBridge ------------------------------
(* One UDP binding of the tailnet: the two goroutines of runUdpFdBridge, the   *)
(* datagram socket pair, the transport loops of the reactor that serve it and  *)
(* _FdTailscaleDatagramBinding.  Every datagram crosses the socket in an       *)
(* envelope: a header, then the payload.                                       *)
(*                                                                             *)
(* Abstracted: a datagram is its number, its length and how much of it is left *)
(* where it is; the header stands for version, port and address; closing one   *)
(* end, which ends both goroutines, and errors of the socket are left out      *)
(* (FdTransport has the transport's).  A part of a datagram that does not start*)
(* with its header is no valid envelope.                                       *)
EXTENDS Naturals, Sequences

CONSTANTS
    Datagrams,        \* bound: how many datagrams are sent, in either direction
    DatagramSizes,    \* bound: the lengths of their payloads
    UdpHeader,        \* udpEnvelopeHeaderBytes and the address
    MaxPayload,       \* udpMaxPayloadBytes, tailscaleMaxDatagramPayloadBytes
    UdpSocketSpace,   \* bound: how many datagrams the socket buffers hold
    MaxChunk,         \* maxReadChunkSize and _reactorWriteChunkBytes
    MaxQueued,        \* maxInboundQueuedBytes
    TurnBudget        \* _reactorReadBudgetBytes and _reactorWriteBudgetBytes

ASSUME UdpAssumption ==
    /\ Datagrams \in Nat /\ DatagramSizes \subseteq Nat /\ UdpSocketSpace \in Nat \ {0}
    /\ UdpHeader \in Nat \ {0} /\ MaxPayload \in Nat
    /\ MaxChunk \in Nat /\ UdpHeader + MaxPayload <= MaxChunk
    /\ MaxQueued \in Nat /\ MaxChunk <= MaxQueued
    /\ TurnBudget \in Nat /\ MaxChunk <= TurnBudget

VARIABLES
    udpLength,        \* the payload lengths of the datagrams sent so far
    udpInward,        \* envelopes in the socket, from Go to the reactor
    udpBudget,        \* what is left of the read turn in progress, 0 between turns
    udpQueued,        \* pendingInboundBytes
    udpEvents,        \* envelopes under way to the main isolate
    udpWrites,        \* write commands queued in the reactor, the first perhaps begun
    udpWriteBudget,   \* what is left of the flush in progress, 0 between flushes
    udpOutward,       \* what the reactor wrote to the socket, for Go
    udpDelivered      \* what the application or a peer was given

udpInVars == <<udpInward, udpBudget, udpQueued, udpEvents>>
udpOutVars == <<udpWrites, udpWriteBudget, udpOutward>>
udpVars == <<udpLength, udpInVars, udpOutVars, udpDelivered>>

\* Datagram d, of which the bytes from + 1 to to of its envelope are here.
Envelope == [d : 1..Datagrams, from : Nat, to : Nat]
Size(e) == e.to - e.from
Whole(d, n) == [d |-> d, from |-> 0, to |-> UdpHeader + n]

UdpTypeOK ==
    /\ udpLength \in Seq(DatagramSizes) /\ Len(udpLength) <= Datagrams
    /\ udpInward \in Seq(Envelope) /\ Len(udpInward) <= UdpSocketSpace
    /\ udpBudget \in 0..TurnBudget /\ udpQueued \in 0..MaxQueued
    /\ udpEvents \in Seq(Envelope)
    /\ udpWrites \in Seq(Envelope) /\ udpWriteBudget \in 0..TurnBudget
    /\ udpOutward \in Seq(Envelope) /\ Len(udpOutward) <= UdpSocketSpace
    /\ udpDelivered \subseteq Envelope

UdpInit ==
    /\ udpLength = <<>> /\ udpInward = <<>> /\ udpBudget = 0 /\ udpQueued = 0
    /\ udpEvents = <<>> /\ udpWrites = <<>> /\ udpWriteBudget = 0 /\ udpOutward = <<>>
    /\ udpDelivered = {}

UdpNumber == Len(udpLength) + 1     \* of the next datagram
UdpMin(a, b) == IF a <= b THEN a ELSE b
-----------------------------------------------------------------------------
(* From a peer to the application. *)

\* The buffer for a datagram of a peer: one byte more than the largest payload.
UdpPeerBuffer == MaxPayload + 1

\* The second goroutine reads a datagram of a peer into a buffer of MaxPayload + 1 bytes and
\* drops it if it fills the buffer.  A full socket blocks it.
UdpPeerSends(n) ==
    /\ UdpNumber <= Datagrams /\ Len(udpInward) < UdpSocketSpace
    /\ udpLength' = Append(udpLength, n)
    /\ LET read == UdpMin(n, UdpPeerBuffer)
       IN  udpInward' = IF read > MaxPayload THEN udpInward
                        ELSE Append(udpInward, Whole(UdpNumber, read))
    /\ UNCHANGED <<udpBudget, udpQueued, udpEvents, udpOutVars, udpDelivered>>

\* _readReactorState: a turn begins when the socket is readable and there is room.
UdpReadTurn ==
    /\ udpBudget = 0 /\ udpInward # <<>> /\ udpQueued < MaxQueued
    /\ udpBudget' = TurnBudget
    /\ UNCHANGED <<udpLength, udpInward, udpQueued, udpEvents, udpOutVars, udpDelivered>>

\* One read of it: what exceeds the limit is gone with the datagram.
UdpRead ==
    /\ udpBudget > 0 /\ udpInward # <<>> /\ udpQueued < MaxQueued
    /\ LET e == Head(udpInward)
           limit == UdpMin(MaxChunk, UdpMin(MaxQueued - udpQueued, udpBudget))
           n == UdpMin(Size(e), limit)
       IN  /\ udpInward' = Tail(udpInward)
           /\ udpQueued' = udpQueued + n /\ udpBudget' = udpBudget - n
           /\ udpEvents' = Append(udpEvents, [e EXCEPT !.to = n])
    /\ UNCHANGED <<udpLength, udpOutVars, udpDelivered>>

\* The socket is empty, or there is no more room.
UdpReadStops ==
    /\ udpBudget > 0 /\ (udpInward = <<>> \/ udpQueued >= MaxQueued)
    /\ udpBudget' = 0
    /\ UNCHANGED <<udpLength, udpInward, udpQueued, udpEvents, udpOutVars, udpDelivered>>

\* _handleEnvelope: decoded and added, or dropped while nobody listens; too short a part is
\* malformed.  The bytes are acknowledged to the reactor.
UdpHandle ==
    /\ udpEvents # <<>> /\ udpEvents' = Tail(udpEvents)
    /\ LET e == Head(udpEvents)
       IN  /\ udpQueued' = udpQueued - Size(e)
           /\ \/ e.to >= UdpHeader /\ udpDelivered' = udpDelivered \cup {e}
              \/ UNCHANGED udpDelivered
    /\ UNCHANGED <<udpLength, udpInward, udpBudget, udpOutVars>>
-----------------------------------------------------------------------------
(* From the application to a peer. *)

\* send() refuses what exceeds the maximum, and queues one write for the rest.
UdpSend(n) ==
    /\ UdpNumber <= Datagrams /\ n <= MaxPayload
    /\ udpLength' = Append(udpLength, n)
    /\ udpWrites' = Append(udpWrites, Whole(UdpNumber, n))
    /\ UNCHANGED <<udpInVars, udpWriteBudget, udpOutward, udpDelivered>>

\* _flushReactorWrites, on a command or when the socket is writable.
UdpFlush ==
    /\ udpWriteBudget = 0 /\ udpWrites # <<>> /\ udpWriteBudget' = TurnBudget
    /\ UNCHANGED <<udpLength, udpInVars, udpWrites, udpOutward, udpDelivered>>

\* One write of it: a datagram of its own, whatever part of the queued one it is.
UdpWrite ==
    /\ udpWriteBudget > 0 /\ udpWrites # <<>> /\ Len(udpOutward) < UdpSocketSpace
    /\ LET e == Head(udpWrites)
           n == UdpMin(MaxChunk, UdpMin(Size(e), udpWriteBudget))
       IN  /\ udpOutward' = Append(udpOutward, [e EXCEPT !.to = e.from + n])
           /\ udpWrites' = IF n = Size(e) THEN Tail(udpWrites)
                           ELSE <<[e EXCEPT !.from = e.from + n]>> \o Tail(udpWrites)
           /\ udpWriteBudget' = udpWriteBudget - n
    /\ UNCHANGED <<udpLength, udpInVars, udpDelivered>>

\* Nothing is left to write, or the socket is full.
UdpFlushStops ==
    /\ udpWriteBudget > 0 /\ (udpWrites = <<>> \/ Len(udpOutward) >= UdpSocketSpace)
    /\ udpWriteBudget' = 0
    /\ UNCHANGED <<udpLength, udpInVars, udpWrites, udpOutward, udpDelivered>>

\* The first goroutine decodes what it reads and sends it on, or drops it as malformed.
UdpForward ==
    /\ udpOutward # <<>> /\ udpOutward' = Tail(udpOutward)
    /\ LET e == Head(udpOutward)
       IN  udpDelivered' = IF e.from = 0 /\ e.to >= UdpHeader THEN udpDelivered \cup {e}
                                                            ELSE udpDelivered
    /\ UNCHANGED <<udpLength, udpInVars, udpWrites, udpWriteBudget>>
-----------------------------------------------------------------------------
UdpNext ==
    \/ \E n \in DatagramSizes : UdpPeerSends(n) \/ UdpSend(n)
    \/ UdpReadTurn \/ UdpRead \/ UdpReadStops \/ UdpHandle
    \/ UdpFlush \/ UdpWrite \/ UdpFlushStops \/ UdpForward

UdpSpec == UdpInit /\ [][UdpNext]_udpVars
-----------------------------------------------------------------------------
\* README.md:120, doc/api-status.md:136: datagrams preserve message boundaries.  Whatever is
\* delivered, to the application or to a peer, is a whole datagram.
DatagramsWhole == \A e \in udpDelivered : e.to = UdpHeader + udpLength[e.d]
=============================================================================
