----------------------------- MODULE FdTransport -----------------------------
(***************************************************************************)
(* One adopted POSIX descriptor: PosixFdTransport on the main isolate, its *)
(* state in the reactor isolate, the two SendPorts between them, and the   *)
(* socket with the peer at its other end.                                  *)
(*                                                                         *)
(* Bytes the peer sends are numbered 1, 2, ... in the order it sends them. *)
(* Every message between the isolates is stamped with the interval         *)
(* lo+1 .. hi of the bytes it is about (empty unless it is `data' or       *)
(* `inboundConsumed'); a message's byte count is hi - lo.  The payload of  *)
(* a write travels with the write's id: futures[id].bytes bytes.           *)
(*                                                                         *)
(* Dart handlers run to completion, so a handler is one action.  The       *)
(* reactor's read and write loops are one action per system call: the      *)
(* peer and the main isolate really run between two of them.               *)
(***************************************************************************)
EXTENDS Integers, Sequences

CONSTANTS
    MaxInbound,       \* maxInboundQueuedBytes
    ReadChunk,        \* maxReadChunkSize
    MaxPendingWrite,  \* maxPendingWriteBytes
    WriteChunk,       \* _reactorWriteChunkBytes
    Budget,           \* _reactorReadBudgetBytes = _reactorWriteBudgetBytes
    SendBuffer,       \* bytes the kernel holds for the peer before EAGAIN
    PeerBytes,        \* bound: bytes the peer sends in all
    WriteSizes,       \* sizes of the buffers the application writes
    MaxFutures,       \* bound: write and closeWrite calls accepted in all
    MaxToggles,       \* bound: commands in flight when the application pauses
    Faults            \* system calls that may fail in this instance

ASSUME SizesAssumption ==
    /\ MaxInbound \in Nat \ {0}
    /\ ReadChunk \in Nat \ {0}
    /\ MaxPendingWrite \in Nat \ {0}
    /\ WriteChunk \in Nat \ {0}
    /\ Budget \in Nat \ {0}
    /\ SendBuffer \in Nat \ {0}
ASSUME BoundsAssumption ==
    /\ PeerBytes \in Nat
    /\ MaxFutures \in Nat
    /\ MaxToggles \in Nat
    /\ WriteSizes \subseteq Nat \ {0}
    /\ Faults \subseteq {"read", "write", "shutdown", "update", "wait"}

VARIABLES
    \* Main isolate: the `input' stream controller and its subscription.
    sub,               \* the application's subscription
    received,          \* bytes added to `input'
    delivered,         \* bytes handed to the listener, <= received
    inputClosed,
    \* Main isolate: PosixFdTransport fields.
    readEnabled, readFinished, writeFinished, closed, done,
    futures,           \* write futures by id; the pending ones are _writeCompletions
    pendingWriteBytes,
    \* SendPorts, and whether the shard's proxy still accepts commands.
    cmds, evts, shardUp,
    \* Reactor isolate.
    r,                 \* _ReactorTransportState
    ready,             \* readiness returned by wait() and not dispatched yet
    agenda,            \* handlers of the current dispatch still to run; those of
                       \* one event run in the order read, write, hup
    budget,            \* bytes the current loop may still move
    \* Socket.
    peerSent, rd,      \* bytes the peer sent; bytes read from the fd
    peerFin, peerGone, \* the peer shut down its write half; closed its socket
    wire,              \* bytes written to the fd, each as <<write id, offset>>
    unread,            \* how many of them the peer has not consumed
    txShut             \* shutdown(SHUT_WR) was called

inputVars == <<sub, received, delivered, inputClosed>>
flagVars == <<readEnabled, readFinished, writeFinished, closed, done>>
writeVars == <<futures, pendingWriteBytes>>
mainVars == <<inputVars, flagVars, writeVars>>
loopVars == <<ready, agenda, budget>>
reactorVars == <<r, loopVars>>
peerVars == <<peerSent, peerFin, peerGone>>
socketVars == <<peerVars, rd, wire, unread, txShut>>
vars == <<mainVars, cmds, evts, shardUp, reactorVars, socketVars>>

-----------------------------------------------------------------------------
(* Messages.                                                               *)

CmdKind == {"enableRead", "disableRead", "inboundConsumed", "write",
            "shutdownWrite", "close"}
EvtKind == {"data", "eof", "readError", "writeOk", "writeError", "closed"}

Cmd == {m \in [kind : CmdKind, id : Nat, lo : Nat, hi : Nat] : m.lo <= m.hi}
Evt == {m \in [kind : EvtKind, id : Nat, lo : Nat, hi : Nat] : m.lo <= m.hi}

Message(kind, id, lo, hi) == [kind |-> kind, id |-> id, lo |-> lo, hi |-> hi]

\* Messages that carry no inbound bytes are stamped with the sender's position.
ToReactor(kind, id, at) == Message(kind, id, at, at)
ToMain(kind, id) == Message(kind, id, rd, rd)

-----------------------------------------------------------------------------
(* Main isolate.                                                           *)

HasListener == sub \in {"listening", "paused"}

\* StreamController.isPaused stays true after a resume until the events that
\* were buffered meanwhile have been delivered.
InputPaused == sub = "paused" \/ delivered < received

Future == [bytes : Nat, state : {"pending", "ok", "failed"}]

FailPending(fs) ==
    [i \in DOMAIN fs |->
        IF fs[i].state = "pending" THEN [fs[i] EXCEPT !.state = "failed"] ELSE fs[i]]

Resolve(id, state) == [futures EXCEPT ![id].state = state]

\* _teardown: the one terminal path.  `failWrites' is pendingWriteError # null.
Teardown(result, fs, pendingBytes, failWrites, closeInput) ==
    /\ closed' = TRUE
    /\ readFinished' = TRUE
    /\ writeFinished' = TRUE
    /\ futures' = IF failWrites THEN FailPending(fs) ELSE fs
    /\ pendingWriteBytes' = IF failWrites THEN 0 ELSE pendingBytes
    /\ inputClosed' = (inputClosed \/ closeInput)
    /\ done' = result
    /\ evts' = <<>>

FinishWithError(fs, pendingBytes) == Teardown("error", fs, pendingBytes, TRUE, TRUE)

\* Mutant: a resumed subscription re-enables reads before its buffer is empty.
EnablesWhileBuffered(s, d, c, enabled) ==
    ~closed /\ ~readFinished /\ ~enabled /\ s = "listening" /\ ~inputClosed

Enables(s, d, c, enabled) ==
    ~closed /\ ~readFinished /\ ~enabled /\ s = "listening" /\ d = c /\ ~inputClosed

\* _enableReadIfReady at the end of a callback that leaves the subscription s
\* with d of c bytes delivered, the flag `enabled', the commands q sent and the
\* events rest to handle.
EnableReadIfReady(s, d, c, enabled, q, rest) ==
    IF Enables(s, d, c, enabled)
    THEN /\ readEnabled' = TRUE
         /\ IF shardUp
            THEN /\ cmds' = Append(q, ToReactor("enableRead", 0, c))
                 /\ evts' = rest
                 /\ UNCHANGED <<inputClosed, readFinished, writeFinished, closed, done,
                                writeVars>>
            ELSE /\ cmds' = q
                 /\ FinishWithError(futures, pendingWriteBytes)
    ELSE /\ readEnabled' = enabled
         /\ cmds' = q
         /\ evts' = rest
         /\ UNCHANGED <<inputClosed, readFinished, writeFinished, closed, done, writeVars>>

\* onListen
Listen ==
    /\ sub = "none" /\ ~closed
    /\ sub' = "listening"
    /\ EnableReadIfReady("listening", delivered, received, readEnabled, cmds, evts)
    /\ UNCHANGED <<received, delivered, shardUp, reactorVars, socketVars>>

\* onPause: _disableRead, unless the input is still paused from before.
Pause ==
    /\ sub = "listening" /\ Len(cmds) < MaxToggles
    /\ sub' = "paused"
    /\ IF ~InputPaused /\ ~closed /\ readEnabled
       THEN /\ readEnabled' = FALSE
            /\ cmds' = IF shardUp
                       THEN Append(cmds, ToReactor("disableRead", 0, received))
                       ELSE cmds
       ELSE UNCHANGED <<readEnabled, cmds>>
    /\ UNCHANGED <<received, delivered, inputClosed, readFinished, writeFinished,
                   closed, done, writeVars, evts, shardUp, reactorVars, socketVars>>

\* onResume runs at once when nothing is buffered, else when the buffer is empty.
Resume ==
    /\ sub = "paused"
    /\ sub' = "listening"
    /\ EnableReadIfReady("listening", delivered, received, readEnabled, cmds, evts)
    /\ UNCHANGED <<received, delivered, shardUp, reactorVars, socketVars>>

\* One buffered byte reaches the listener of a resumed subscription; the last
\* one ends the input pause and calls onResume.
DeliverBuffered ==
    /\ sub = "listening" /\ delivered < received
    /\ delivered' = delivered + 1
    /\ EnableReadIfReady(sub, delivered + 1, received, readEnabled, cmds, evts)
    /\ UNCHANGED <<sub, received, shardUp, reactorVars, socketVars>>

\* The application cancels its subscription: buffered bytes are dropped, no
\* callback of the transport runs.
Cancel ==
    /\ HasListener
    /\ sub' = "cancelled"
    /\ delivered' = received
    /\ UNCHANGED <<received, inputClosed, flagVars, writeVars, cmds, evts, shardUp,
                   reactorVars, socketVars>>

NewFuture(bytes, state) == Append(futures, [bytes |-> bytes, state |-> state])

\* write(bytes), when it is accepted; the refusals change nothing.
Write(n) ==
    /\ ~closed /\ ~writeFinished
    /\ pendingWriteBytes + n <= MaxPendingWrite
    /\ Len(futures) < MaxFutures
    /\ IF shardUp
       THEN /\ futures' = NewFuture(n, "pending")
            /\ pendingWriteBytes' = pendingWriteBytes + n
            /\ cmds' = Append(cmds, ToReactor("write", Len(futures) + 1, received))
            /\ UNCHANGED <<inputClosed, readFinished, writeFinished, closed, done, evts>>
       ELSE /\ FinishWithError(NewFuture(n, "failed"), pendingWriteBytes)
            /\ UNCHANGED cmds
    /\ UNCHANGED <<sub, received, delivered, readEnabled, shardUp, reactorVars, socketVars>>

\* closeWrite(): the write half counts as finished from here on.
CloseWrite ==
    /\ ~closed /\ ~writeFinished
    /\ Len(futures) < MaxFutures
    /\ writeFinished' = TRUE
    /\ IF shardUp
       THEN /\ futures' = NewFuture(0, "pending")
            /\ cmds' = Append(cmds, ToReactor("shutdownWrite", Len(futures) + 1, received))
            /\ UNCHANGED <<pendingWriteBytes, inputClosed, readFinished, closed, done, evts>>
       ELSE /\ FinishWithError(NewFuture(0, "failed"), pendingWriteBytes)
            /\ UNCHANGED cmds
    /\ UNCHANGED <<sub, received, delivered, readEnabled, shardUp, reactorVars, socketVars>>

\* close(): a send the stopped shard refuses is swallowed.
Close ==
    /\ ~closed
    /\ cmds' = IF shardUp THEN Append(cmds, ToReactor("close", 0, received)) ELSE cmds
    /\ Teardown("ok", futures, pendingWriteBytes, TRUE, TRUE)
    /\ UNCHANGED <<sub, received, delivered, readEnabled, shardUp, reactorVars, socketVars>>

Application ==
    \/ Listen \/ Pause \/ Resume \/ DeliverBuffered \/ Cancel
    \/ \E n \in WriteSizes : Write(n)
    \/ CloseWrite \/ Close

-----------------------------------------------------------------------------
(* Main isolate: _handleReactorEvent.  The port of a closed transport is   *)
(* closed, so no event is handled after a teardown.                        *)

NextEvent(kind) == ~closed /\ evts # <<>> /\ Head(evts).kind = kind

\* The listener is called synchronously and may pause its subscription; the
\* acknowledgement is sent after that, whether the bytes were delivered or
\* buffered behind a paused subscription.
HandleData ==
    /\ NextEvent("data")
    /\ LET n == Head(evts).hi - Head(evts).lo
           live == sub = "listening" /\ ~InputPaused
       IN \E s \in (IF live THEN {"listening", "paused"} ELSE {sub}) :
            LET disables == live /\ s = "paused" /\ readEnabled
                q == IF disables /\ shardUp
                     THEN Append(cmds, ToReactor("disableRead", 0, received))
                     ELSE cmds
                ack == Message("inboundConsumed", 0, received, received + n)
            IN /\ sub' = s
               /\ received' = received + n
               /\ delivered' = IF live \/ ~HasListener THEN received + n ELSE delivered
               /\ EnableReadIfReady(s, delivered', received + n, readEnabled /\ ~disables,
                                    IF shardUp THEN Append(q, ack) ELSE q, Tail(evts))
    /\ UNCHANGED <<shardUp, reactorVars, socketVars>>

\* _maybeCompleteDone, once the flags have become rf, wf, ic and the futures fs:
\* when both halves are finished it tears down without failing any write.
MaybeCompleteDone(rf, wf, ic, fs, pendingBytes) ==
    IF rf /\ wf
    THEN Teardown("ok", fs, pendingBytes, FALSE, ic)
    ELSE /\ readFinished' = rf /\ writeFinished' = wf /\ inputClosed' = ic
         /\ futures' = fs /\ pendingWriteBytes' = pendingBytes
         /\ evts' = Tail(evts)
         /\ UNCHANGED <<closed, done>>

HandleEof ==
    /\ NextEvent("eof")
    /\ MaybeCompleteDone(TRUE, writeFinished, TRUE, futures, pendingWriteBytes)
    /\ UNCHANGED <<sub, received, delivered, readEnabled, cmds, shardUp, reactorVars, socketVars>>

HandleReadError ==
    /\ NextEvent("readError")
    /\ FinishWithError(futures, pendingWriteBytes)
    /\ UNCHANGED <<sub, received, delivered, readEnabled, cmds, shardUp, reactorVars, socketVars>>

\* Mutant: completed writes keep their share of the queue limit.
LeftoverKept(bytes) == pendingWriteBytes

LeftoverPending(bytes) == pendingWriteBytes - bytes

\* The completion of a closeWrite is the one of zero bytes.
HandleWriteOk ==
    /\ NextEvent("writeOk")
    /\ LET id == Head(evts).id
           known == id \in DOMAIN futures /\ futures[id].state = "pending"
           bytes == IF known THEN futures[id].bytes ELSE 0
           fs == IF known THEN Resolve(id, "ok") ELSE futures
           left == LeftoverPending(bytes)
       IN IF known /\ bytes = 0
          THEN MaybeCompleteDone(readFinished, TRUE, inputClosed, fs, left)
          ELSE /\ futures' = fs /\ pendingWriteBytes' = left
               /\ evts' = Tail(evts)
               /\ UNCHANGED <<inputClosed, readFinished, writeFinished, closed, done>>
    /\ UNCHANGED <<sub, received, delivered, readEnabled, cmds, shardUp, reactorVars, socketVars>>

HandleWriteError ==
    /\ NextEvent("writeError")
    /\ LET id == Head(evts).id
           known == id \in DOMAIN futures /\ futures[id].state = "pending"
       IN FinishWithError(IF known THEN Resolve(id, "failed") ELSE futures,
                          pendingWriteBytes)
    /\ UNCHANGED <<sub, received, delivered, readEnabled, cmds, shardUp, reactorVars, socketVars>>

HandleClosed ==
    /\ NextEvent("closed")
    /\ Teardown("ok", futures, pendingWriteBytes, TRUE, TRUE)
    /\ UNCHANGED <<sub, received, delivered, readEnabled, cmds, shardUp, reactorVars, socketVars>>

HandleReactorEvent ==
    \/ HandleData \/ HandleEof \/ HandleReadError
    \/ HandleWriteOk \/ HandleWriteError \/ HandleClosed

-----------------------------------------------------------------------------
(* Reactor isolate.                                                        *)

QueuedWrite == [id : Nat, offset : Nat]

ReactorState ==
    [readEnabled : BOOLEAN, readClosed : BOOLEAN, closingWrite : BOOLEAN,
     writeClosed : BOOLEAN, closed : BOOLEAN, pendingInbound : Nat,
     shutdownWriteId : Nat, writes : Seq(QueuedWrite),
     interest : SUBSET {"unset", "read", "write"}]

Registered ==
    [readEnabled |-> FALSE, readClosed |-> FALSE, closingWrite |-> FALSE,
     writeClosed |-> FALSE, closed |-> FALSE, pendingInbound |-> 0,
     shutdownWriteId |-> 0, writes |-> <<>>, interest |-> {"unset"}]

\* The reactor moves to state s and sends `out'; a closed port drops it.
Reply(s, out) ==
    /\ r' = s
    /\ evts' = IF closed THEN evts ELSE evts \o out

\* _closeReactorState: with an error every queued write is failed first.
ClosedState(s) == [s EXCEPT !.closed = TRUE, !.writes = <<>>]
WriteErrors(s) == [i \in 1 .. Len(s.writes) |-> ToMain("writeError", s.writes[i].id)]

\* Mutant: the main isolate is not told that its fd is gone.
CloseSilently(s, out) == Reply(ClosedState(s), out)

CloseReactorState(s, out) == Reply(ClosedState(s), Append(out, ToMain("closed", 0)))
FailReactorState(s, out) == CloseReactorState(s, out \o WriteErrors(s))

\* Mutant: a queue that would block is not watched for writability.
WantedInput(s) ==
    IF s.readEnabled /\ ~s.readClosed /\ s.pendingInbound < MaxInbound THEN {"read"} ELSE {}

\* _updateReactorInterest: skips the call when the mask is the last one pushed;
\* none was yet for a transport that is only registered.
Wanted(s) ==
    (IF s.readEnabled /\ ~s.readClosed /\ s.pendingInbound < MaxInbound
     THEN {"read"} ELSE {})
    \cup (IF s.writes # <<>> THEN {"write"} ELSE {})

UpdateFails(s, out) ==
    /\ Wanted(s) # s.interest /\ "update" \in Faults
    /\ FailReactorState(s, Append(out, ToMain("readError", 0)))

\* Mutant: the cached mask is taken for current.
KeepInterest(s, out) == Reply(s, out)

UpdateInterest(s, out) ==
    \/ Reply([s EXCEPT !.interest = Wanted(s)], out)
    \/ UpdateFails(s, out)

\* _processReactorCommands runs between dispatches, and drops what is sent to a
\* transport it no longer knows.
NextCommand(kind) ==
    /\ agenda = {} /\ cmds # <<>> /\ ~r.closed
    /\ Head(cmds).kind = kind
    /\ cmds' = Tail(cmds)

ProcessDropped ==
    /\ agenda = {} /\ cmds # <<>> /\ r.closed
    /\ cmds' = Tail(cmds)
    /\ UNCHANGED <<mainVars, evts, shardUp, reactorVars, socketVars>>

ProcessEnableRead ==
    /\ NextCommand("enableRead")
    /\ UpdateInterest([r EXCEPT !.readEnabled = TRUE], <<>>)
    /\ UNCHANGED <<mainVars, shardUp, loopVars, socketVars>>

ProcessDisableRead ==
    /\ NextCommand("disableRead")
    /\ UpdateInterest([r EXCEPT !.readEnabled = FALSE], <<>>)
    /\ UNCHANGED <<mainVars, shardUp, loopVars, socketVars>>

Acknowledged(n) ==
    [r EXCEPT !.pendingInbound = IF n > r.pendingInbound THEN 0 ELSE r.pendingInbound - n]

\* Mutant: an acknowledgement does not lift the back-pressure.
ProcessConsumedOnly ==
    /\ NextCommand("inboundConsumed")
    /\ Reply(Acknowledged(Head(cmds).hi - Head(cmds).lo), <<>>)
    /\ UNCHANGED <<mainVars, shardUp, loopVars, socketVars>>

ProcessInboundConsumed ==
    /\ NextCommand("inboundConsumed")
    /\ UpdateInterest(Acknowledged(Head(cmds).hi - Head(cmds).lo), <<>>)
    /\ UNCHANGED <<mainVars, shardUp, loopVars, socketVars>>

\* write and shutdownWrite run the flush loop before the next command.
ProcessWrite ==
    /\ NextCommand("write")
    /\ r' = [r EXCEPT !.writes = Append(@, [id |-> Head(cmds).id, offset |-> 0])]
    /\ agenda' = {"write"} /\ budget' = Budget
    /\ UNCHANGED <<mainVars, evts, shardUp, ready, socketVars>>

ProcessShutdownWrite ==
    /\ NextCommand("shutdownWrite")
    /\ r' = [r EXCEPT !.closingWrite = TRUE, !.shutdownWriteId = Head(cmds).id]
    /\ agenda' = {"write"} /\ budget' = Budget
    /\ UNCHANGED <<mainVars, evts, shardUp, ready, socketVars>>

ProcessClose ==
    /\ NextCommand("close")
    /\ CloseReactorState(r, <<>>)
    /\ UNCHANGED <<mainVars, shardUp, loopVars, socketVars>>

ProcessCommand ==
    \/ ProcessDropped \/ ProcessEnableRead \/ ProcessDisableRead
    \/ ProcessInboundConsumed \/ ProcessWrite \/ ProcessShutdownWrite \/ ProcessClose

\* What the level-triggered poller reports: the peer's FIN or close raises hup
\* whatever the interest mask is.
Readiness ==
    (IF "read" \in r.interest /\ (rd < peerSent \/ peerFin) THEN {"read"} ELSE {})
    \cup (IF "write" \in r.interest /\ (unread < SendBuffer \/ peerGone \/ txShut)
          THEN {"write"} ELSE {})
    \cup (IF peerFin THEN {"hup"} ELSE {})

\* wait() returns; commands are drained once more before the dispatch below.
Wait ==
    /\ agenda = {} /\ ready = {} /\ ~r.closed
    /\ Readiness # {}
    /\ ready' = Readiness
    /\ UNCHANGED <<mainVars, cmds, evts, shardUp, r, agenda, budget, socketVars>>

\* wait() fails: every transport is closed with an error and the shard exits.
WaitFails ==
    /\ "wait" \in Faults
    /\ agenda = {} /\ ready = {} /\ shardUp
    /\ shardUp' = FALSE
    /\ IF r.closed THEN UNCHANGED <<r, evts>> ELSE FailReactorState(r, <<>>)
    /\ UNCHANGED <<mainVars, cmds, loopVars, socketVars>>

\* A shard without transports exits after its idle grace.
IdleExit ==
    /\ r.closed /\ agenda = {} /\ cmds = <<>> /\ shardUp
    /\ shardUp' = FALSE
    /\ UNCHANGED <<mainVars, cmds, evts, reactorVars, socketVars>>

Dispatch ==
    /\ agenda = {} /\ ready # {}
    /\ agenda' = IF r.closed THEN {} ELSE ready
    /\ budget' = Budget
    /\ ready' = {}
    /\ UNCHANGED <<mainVars, cmds, evts, shardUp, r, socketVars>>

Reading == "read" \in agenda \/ agenda = {"hup"}
Flushing == "write" \in agenda /\ "read" \notin agenda
Current == IF Flushing THEN "write" ELSE IF "read" \in agenda THEN "read" ELSE "hup"

\* The current handler returns; nothing more is dispatched to a closed state.
HandlerReturns ==
    /\ agenda' = IF r'.closed THEN {} ELSE agenda \ {Current}
    /\ budget' = Budget
    /\ UNCHANGED ready

-----------------------------------------------------------------------------
(* Reactor isolate: _readReactorState, one read(2) per step.               *)

CanRead == r.readEnabled /\ ~r.readClosed
InboundRoom == r.pendingInbound < MaxInbound

ReadRefused ==
    /\ Reading /\ ~CanRead
    /\ UNCHANGED <<mainVars, cmds, evts, shardUp, r, socketVars>>
    /\ HandlerReturns

\* The inbound queue is full, or the budget is spent.
ReadYields ==
    /\ Reading /\ CanRead
    /\ ~InboundRoom \/ budget = 0
    /\ UpdateInterest(r, <<>>)
    /\ HandlerReturns
    /\ UNCHANGED <<mainVars, cmds, shardUp, socketVars>>

\* Mutant: one read may overrun the budget of its loop.
ReadFitsQueue(n) == n <= MaxInbound - r.pendingInbound /\ n <= peerSent - rd

ReadFits(n) ==
    n <= MaxInbound - r.pendingInbound /\ n <= budget /\ n <= peerSent - rd

ReadData ==
    /\ Reading /\ CanRead /\ InboundRoom /\ budget > 0
    /\ \E n \in 1 .. ReadChunk :
         /\ ReadFits(n)
         /\ rd' = rd + n
         /\ budget' = budget - n
         /\ Reply([r EXCEPT !.pendingInbound = @ + n],
                  <<Message("data", 0, rd, rd + n)>>)
    /\ UNCHANGED <<mainVars, cmds, shardUp, ready, agenda, peerVars, wire, unread, txShut>>

\* read(2) would block; the poller reports readiness again later.
ReadAgain ==
    /\ Reading /\ CanRead /\ InboundRoom /\ budget > 0
    /\ rd = peerSent /\ ~peerFin
    /\ UNCHANGED <<mainVars, cmds, evts, shardUp, r, socketVars>>
    /\ HandlerReturns

\* Mutant: a hup counts as end of file whatever is still in the socket.
AtHangup == peerFin /\ (rd = peerSent \/ agenda = {"hup"})

AtEof == peerFin /\ rd = peerSent

\* read(2) returns 0, or would block after a hup: end of file.  With the write
\* half already shut the state is closed too.
ReadEof ==
    /\ Reading /\ CanRead /\ InboundRoom /\ budget > 0
    /\ AtEof
    /\ LET s == [r EXCEPT !.readClosed = TRUE, !.readEnabled = FALSE]
           eof == <<ToMain("eof", 0)>>
       IN IF s.writeClosed
          THEN CloseReactorState(s, eof) \/ UpdateFails(s, eof)
          ELSE UpdateInterest(s, eof)
    /\ HandlerReturns
    /\ UNCHANGED <<mainVars, cmds, shardUp, socketVars>>

ReadFails ==
    /\ "read" \in Faults
    /\ Reading /\ CanRead /\ InboundRoom /\ budget > 0
    /\ FailReactorState(r, <<ToMain("readError", 0)>>)
    /\ HandlerReturns
    /\ UNCHANGED <<mainVars, cmds, shardUp, socketVars>>

Read == ReadRefused \/ ReadYields \/ ReadData \/ ReadAgain \/ ReadEof \/ ReadFails

-----------------------------------------------------------------------------
(* Reactor isolate: _flushReactorWrites, one write(2) per step.            *)

Queued == Flushing /\ ~r.writeClosed /\ r.writes # <<>> /\ budget > 0

FlushRefused ==
    /\ Flushing /\ r.writeClosed
    /\ UNCHANGED <<mainVars, cmds, evts, shardUp, r, socketVars>>
    /\ HandlerReturns

\* Mutant: after EAGAIN a write starts again from its first byte.
TakenFromStart(w, n) == [i \in 1 .. n |-> <<w.id, i>>]

Taken(w, n) == [i \in 1 .. n |-> <<w.id, w.offset + i>>]

\* Mutant: a partial write completes the future.
FinishedByAnyWrite(w, n) == TRUE

Finished(w, n) == w.offset + n = futures[w.id].bytes

\* write(2) takes n bytes of the head of the queue, possibly fewer than asked;
\* the future of a write is completed with its last byte.
FlushBytes ==
    /\ Queued /\ ~peerGone
    /\ LET w == Head(r.writes)
       IN \E n \in 1 .. WriteChunk :
            /\ n <= futures[w.id].bytes - w.offset
            /\ n <= budget /\ n <= SendBuffer - unread
            /\ wire' = wire \o Taken(w, n)
            /\ unread' = unread + n
            /\ budget' = budget - n
            /\ IF Finished(w, n)
               THEN Reply([r EXCEPT !.writes = Tail(@)], <<ToMain("writeOk", w.id)>>)
               ELSE Reply([r EXCEPT !.writes[1].offset = w.offset + n], <<>>)
    /\ UNCHANGED <<mainVars, cmds, shardUp, ready, agenda, peerVars, rd, txShut>>

FlushAgain ==
    /\ Queued /\ ~peerGone /\ unread = SendBuffer
    /\ UpdateInterest(r, <<>>)
    /\ HandlerReturns
    /\ UNCHANGED <<mainVars, cmds, shardUp, socketVars>>

FlushFails ==
    /\ Queued /\ (peerGone \/ "write" \in Faults)
    /\ FailReactorState(r, <<ToMain("writeError", Head(r.writes).id)>>)
    /\ HandlerReturns
    /\ UNCHANGED <<mainVars, cmds, shardUp, socketVars>>


\* Mutant: closeWrite does not wait for the writes queued before it.
DrainedOnClose ==
    Flushing /\ ~r.writeClosed /\ (r.writes = <<>> \/ r.closingWrite)

Drained == Flushing /\ ~r.writeClosed /\ r.writes = <<>>

\* The queue is empty under a pending closeWrite: SHUT_WR.  This path returns
\* without recomputing the interest mask.
FlushShutdown ==
    /\ Drained /\ r.closingWrite
    /\ txShut' = TRUE
    /\ LET s == [r EXCEPT !.writeClosed = TRUE]
           ok == <<ToMain("writeOk", r.shutdownWriteId)>>
       IN IF s.readClosed THEN CloseReactorState(s, ok) ELSE Reply(s, ok)
    /\ HandlerReturns
    /\ UNCHANGED <<mainVars, cmds, shardUp, peerVars, rd, wire, unread>>

FlushShutdownFails ==
    /\ "shutdown" \in Faults
    /\ Drained /\ r.closingWrite
    /\ FailReactorState(r, <<ToMain("writeError", r.shutdownWriteId)>>)
    /\ HandlerReturns
    /\ UNCHANGED <<mainVars, cmds, shardUp, socketVars>>

FlushYields ==
    /\ \/ Drained /\ ~r.closingWrite
       \/ Flushing /\ ~r.writeClosed /\ r.writes # <<>> /\ budget = 0
    /\ UpdateInterest(r, <<>>)
    /\ HandlerReturns
    /\ UNCHANGED <<mainVars, cmds, shardUp, socketVars>>

Flush ==
    \/ FlushRefused \/ FlushBytes \/ FlushAgain \/ FlushFails
    \/ FlushShutdown \/ FlushShutdownFails \/ FlushYields

Reactor == ProcessCommand \/ Wait \/ WaitFails \/ IdleExit \/ Dispatch \/ Read \/ Flush

-----------------------------------------------------------------------------
(* The peer.                                                               *)

PeerSends ==
    /\ ~peerFin /\ peerSent < PeerBytes
    /\ peerSent' = peerSent + 1
    /\ UNCHANGED <<mainVars, cmds, evts, shardUp, reactorVars,
                   peerFin, peerGone, rd, wire, unread, txShut>>

PeerConsumes ==
    /\ unread > 0 /\ ~peerGone
    /\ unread' = unread - 1
    /\ UNCHANGED <<mainVars, cmds, evts, shardUp, reactorVars, peerVars, rd, wire, txShut>>

\* shutdown(SHUT_WR) on the peer's side, or close of its socket.
PeerEnds ==
    /\ ~peerGone
    /\ peerFin' = TRUE
    /\ peerGone' \in {g \in BOOLEAN : g \/ ~peerFin}
    /\ UNCHANGED <<mainVars, cmds, evts, shardUp, reactorVars,
                   peerSent, rd, wire, unread, txShut>>

Peer == PeerSends \/ PeerConsumes \/ PeerEnds

-----------------------------------------------------------------------------
\* The state after adopt(): registered with the reactor, nothing listening.
Init ==
    /\ sub = "none" /\ received = 0 /\ delivered = 0 /\ inputClosed = FALSE
    /\ readEnabled = FALSE /\ readFinished = FALSE /\ writeFinished = FALSE
    /\ closed = FALSE /\ done = "no"
    /\ futures = <<>> /\ pendingWriteBytes = 0
    /\ cmds = <<>> /\ evts = <<>> /\ shardUp = TRUE
    /\ r = Registered /\ ready = {} /\ agenda = {} /\ budget = Budget
    /\ peerSent = 0 /\ rd = 0 /\ peerFin = FALSE /\ peerGone = FALSE
    /\ wire = <<>> /\ unread = 0 /\ txShut = FALSE

Next == Application \/ HandleReactorEvent \/ Reactor \/ Peer

Spec == Init /\ [][Next]_vars

\* Both isolates keep running.  Every turn of the reactor loop drains the
\* command queue and dispatches what wait() returned, and send() wakes a blocked
\* wait(): no step of it is starved by the others.  The application and the peer
\* owe nothing, but for a resumed subscription, which the event loop serves.
Fairness ==
    /\ WF_vars(HandleReactorEvent) /\ WF_vars(DeliverBuffered)
    /\ SF_vars(ProcessCommand) /\ SF_vars(Wait) /\ SF_vars(Dispatch)
    /\ WF_vars(Read) /\ WF_vars(Flush)

FairSpec == Spec /\ Fairness

-----------------------------------------------------------------------------
(* Properties.                                                             *)

\* Every variable holds a value of its type.
TypeOK ==
    /\ sub \in {"none", "listening", "paused", "cancelled"}
    /\ received \in Nat /\ delivered \in Nat
    /\ inputClosed \in BOOLEAN /\ readEnabled \in BOOLEAN
    /\ readFinished \in BOOLEAN /\ writeFinished \in BOOLEAN /\ closed \in BOOLEAN
    /\ done \in {"no", "ok", "error"}
    /\ futures \in Seq(Future)
    /\ pendingWriteBytes \in Int
    /\ cmds \in Seq(Cmd) /\ evts \in Seq(Evt) /\ shardUp \in BOOLEAN
    /\ r \in ReactorState
    /\ ready \in SUBSET {"read", "write", "hup"}
    /\ agenda \in SUBSET {"read", "write", "hup"}
    /\ budget \in 0 .. Budget
    /\ peerSent \in Nat /\ rd \in 0 .. peerSent
    /\ peerFin \in BOOLEAN /\ peerGone \in BOOLEAN /\ txShut \in BOOLEAN
    /\ wire \in Seq(Nat \X Nat)
    /\ unread \in 0 .. SendBuffer

\* Memory bound of adopt(maxInboundQueuedBytes): what was taken from the socket
\* and not yet handed to the application never exceeds it, whether it waits in
\* the reactor's port or behind a paused subscription - although the main isolate
\* acknowledges bytes it only buffered.
UndeliveredBounded ==
    IF closed THEN received - delivered <= MaxInbound ELSE rd - delivered <= MaxInbound

\* An end of file is never reported early: when the reactor posts `eof' the peer
\* has shut its side and every byte it sent was posted before, so a reader that
\* sees the input end without `done' failing has the whole stream.
EofComplete ==
    /\ readFinished /\ ~closed => received = peerSent
    /\ \A i \in DOMAIN evts :
         evts[i].kind = "eof" =>
            /\ peerFin /\ evts[i].hi = peerSent
            /\ \A j \in i .. Len(evts) : evts[j].kind # "data"

\* The mask cached in lastInterest is not stale: between two dispatches the
\* poller watches for input exactly while the transport is enabled, not at end of
\* file and not back-pressured.
ReadInterestExact ==
    agenda = {} /\ ~r.closed => ("read" \in r.interest <=> "read" \in Wanted(r))

\* The sum of b[1] .. b[n]; a recursive function and not a fold, since the proofs
\* about sums start from its equation.
SumTo(b, n) ==
    LET upTo[k \in 0 .. n] == IF k = 0 THEN 0 ELSE upTo[k - 1] + b[k]
    IN  upTo[n]

Bytes == [j \in DOMAIN futures |-> futures[j].bytes]
BytesBefore(id) == SumTo(Bytes, id - 1)

PendingIds == {id \in DOMAIN futures : futures[id].state = "pending"}
Unresolved ==
    [j \in DOMAIN futures |-> IF j \in PendingIds THEN futures[j].bytes ELSE 0]

\* The fd receives the bytes of the accepted writes in the order of the calls,
\* each once, across partial writes, EAGAIN and spent budgets.
WireInOrder ==
    \A i \in DOMAIN wire :
        LET id == wire[i][1]
            offset == wire[i][2]
        IN offset <= futures[id].bytes /\ i = BytesBefore(id) + offset

\* A write future that completed normally has all its bytes on the fd.
WriteOkMeansWritten ==
    \A id \in DOMAIN futures :
        futures[id].state = "ok" => Len(wire) >= BytesBefore(id) + futures[id].bytes

\* closeWrite ends the stream after everything queued before it: SHUT_WR is only
\* sent once every accepted byte is on the fd, and its future completes after.
ShutdownAfterWrites ==
    /\ txShut => Len(wire) = BytesBefore(Len(futures) + 1)
    /\ \A id \in DOMAIN futures : futures[id] = [bytes |-> 0, state |-> "ok"] => txShut

\* Memory bound of adopt(maxPendingWriteBytes): the bytes of writes that wait in
\* the reactor's port or queue are all counted in _pendingWriteBytes, which is the
\* sum over the unresolved futures and stays within the limit.
Waiting ==
    {cmds[i].id : i \in {k \in DOMAIN cmds : cmds[k].kind = "write"}}
    \cup {r.writes[i].id : i \in DOMAIN r.writes}

OutboundBounded ==
    ~closed =>
        /\ pendingWriteBytes = SumTo(Unresolved, Len(futures))
        /\ pendingWriteBytes <= MaxPendingWrite
        /\ ~r.closed => Waiting \subseteq PendingIds

\* Back-pressure never wedges the stream: while the application listens, all that
\* the peer sends is delivered in the end, or the transport closes.
InputFlows ==
    []<>(delivered = peerSent \/ closed \/ r.closed \/ sub # "listening")

\* With a peer that keeps reading, every accepted write is resolved unless the
\* transport closes.
WritesResolve ==
    \A id \in 1 .. MaxFutures :
        []<>(id \notin PendingIds \/ closed)

\* Neither side outlives the other: a reactor that released the fd makes the
\* transport complete `done', and a closed transport gets its fd released.
CloseIsMutual == []<>(r.closed = closed)

\* The doc of _teardown says it resolves the Dart-facing resources, pending write
\* futures among them; _maybeCompleteDone tears down without failing them.
TeardownResolvesWrites == closed => PendingIds = {}

\* The doc of _updateReactorInterest says that write interest is asserted only
\* while there is queued data; the SHUT_WR path of the flush leaves it asserted.
WriteInterestOnlyWithData ==
    agenda = {} /\ ~r.closed => ("write" \in r.interest => r.writes # <<>>)
=============================================================================
