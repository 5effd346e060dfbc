-------------------------- MODULE FdTransport_proofs --------------------------
(***************************************************************************)
(* Invariants of FdTransport for every value of its constants.             *)
(***************************************************************************)
EXTENDS FdTransport, TLAPS

-----------------------------------------------------------------------------
(* Types of the values the handlers build.                                 *)

\* A message built from well-typed parts belongs to its channel.
LEMMA MessageType ==
    ASSUME NEW kind, NEW id \in Nat, NEW lo \in Nat, NEW hi \in Nat, lo <= hi
    PROVE  /\ kind \in CmdKind => Message(kind, id, lo, hi) \in Cmd
           /\ kind \in EvtKind => Message(kind, id, lo, hi) \in Evt
  BY DEF Message, Cmd, Evt

\* So does one that is stamped with its sender's position.
LEMMA ToReactorType ==
    ASSUME NEW kind \in CmdKind, NEW id \in Nat, NEW at \in Nat
    PROVE  ToReactor(kind, id, at) \in Cmd
  BY MessageType DEF ToReactor

\* And one to the main isolate.
LEMMA ToMainType ==
    ASSUME TypeOK, NEW kind \in EvtKind, NEW id \in Nat
    PROVE  ToMain(kind, id) \in Evt
<1>1. rd \in Nat
  BY DEF TypeOK
<1>. QED
  BY <1>1, MessageType DEF ToMain

\* The head of a non-empty sequence is an element, the rest a sequence.
LEMMA HeadTailType ==
    ASSUME NEW S, NEW q \in Seq(S), q # <<>>
    PROVE  Head(q) \in S /\ Tail(q) \in Seq(S)
  OBVIOUS

\* Failing the pending futures leaves a sequence of futures.
LEMMA FailPendingType ==
    ASSUME NEW fs \in Seq(Future)
    PROVE  FailPending(fs) \in Seq(Future)
<1>1. \A i \in 1 .. Len(fs) : fs[i] \in Future
  OBVIOUS
<1>2. \A i \in 1 .. Len(fs) : [fs[i] EXCEPT !.state = "failed"] \in Future
  BY <1>1 DEF Future
<1>3. DOMAIN fs = 1 .. Len(fs) /\ Len(fs) \in Nat
  OBVIOUS
<1>. QED
  BY <1>1, <1>2, <1>3 DEF FailPending

\* A teardown leaves well-typed variables.
LEMMA TeardownType ==
    ASSUME TypeOK,
           NEW result \in {"ok", "error"}, NEW fs \in Seq(Future),
           NEW pendingBytes \in Int, NEW failWrites \in BOOLEAN,
           NEW closeInput \in BOOLEAN,
           Teardown(result, fs, pendingBytes, failWrites, closeInput)
    PROVE  /\ closed' \in BOOLEAN /\ readFinished' \in BOOLEAN
           /\ writeFinished' \in BOOLEAN /\ inputClosed' \in BOOLEAN
           /\ done' \in {"no", "ok", "error"}
           /\ futures' \in Seq(Future) /\ pendingWriteBytes' \in Int
           /\ evts' \in Seq(Evt)
<1>1. futures' \in Seq(Future)
  BY FailPendingType DEF Teardown
<1>. QED
  BY <1>1 DEF Teardown, TypeOK

\* _enableReadIfReady leaves well-typed variables.
LEMMA EnableReadType ==
    ASSUME TypeOK,
           NEW s, NEW d, NEW c \in Nat, NEW enabled \in BOOLEAN,
           NEW q \in Seq(Cmd), NEW rest \in Seq(Evt),
           EnableReadIfReady(s, d, c, enabled, q, rest)
    PROVE  /\ closed' \in BOOLEAN /\ readFinished' \in BOOLEAN
           /\ writeFinished' \in BOOLEAN /\ inputClosed' \in BOOLEAN
           /\ done' \in {"no", "ok", "error"}
           /\ futures' \in Seq(Future) /\ pendingWriteBytes' \in Int
           /\ evts' \in Seq(Evt) /\ cmds' \in Seq(Cmd) /\ readEnabled' \in BOOLEAN
<1>1. ToReactor("enableRead", 0, c) \in Cmd
  BY ToReactorType DEF CmdKind
<1>2. CASE Enables(s, d, c, enabled) /\ shardUp
  <2>1. Append(q, ToReactor("enableRead", 0, c)) \in Seq(Cmd)
    BY <1>1
  <2>. QED
    BY <1>2, <2>1 DEF EnableReadIfReady, TypeOK, writeVars
<1>3. CASE Enables(s, d, c, enabled) /\ ~shardUp
  <2>1. FinishWithError(futures, pendingWriteBytes) /\ cmds' = q /\ readEnabled' = TRUE
    BY <1>3 DEF EnableReadIfReady
  <2>2. futures \in Seq(Future) /\ pendingWriteBytes \in Int
    BY DEF TypeOK
  <2>. QED
    BY <2>1, <2>2, TeardownType DEF FinishWithError
<1>4. CASE ~Enables(s, d, c, enabled)
  BY <1>4 DEF EnableReadIfReady, TypeOK, writeVars
<1>. QED
  BY <1>2, <1>3, <1>4

\* A reply keeps the reactor state and the event queue well typed.
LEMMA ReplyType ==
    ASSUME TypeOK, NEW s \in ReactorState, NEW out \in Seq(Evt), Reply(s, out)
    PROVE  r' \in ReactorState /\ evts' \in Seq(Evt)
  BY DEF Reply, TypeOK

\* So does closing the reactor state,
LEMMA CloseReactorType ==
    ASSUME TypeOK, NEW s \in ReactorState, NEW out \in Seq(Evt),
           CloseReactorState(s, out)
    PROVE  r' \in ReactorState /\ evts' \in Seq(Evt)
<1>1. ClosedState(s) \in ReactorState
  <2>1. <<>> \in Seq(QueuedWrite)
    OBVIOUS
  <2>. QED
    BY <2>1 DEF ClosedState, ReactorState
<1>2. ToMain("closed", 0) \in Evt
  BY ToMainType DEF EvtKind
<1>3. Append(out, ToMain("closed", 0)) \in Seq(Evt)
  BY <1>2
<1>. QED
  BY <1>1, <1>3, ReplyType DEF CloseReactorState

\* closing it with an error,
LEMMA FailReactorType ==
    ASSUME TypeOK, NEW s \in ReactorState, NEW out \in Seq(Evt),
           FailReactorState(s, out)
    PROVE  r' \in ReactorState /\ evts' \in Seq(Evt)
<1>1. s.writes \in Seq(QueuedWrite)
  BY DEF ReactorState
<1>2. \A i \in 1 .. Len(s.writes) : s.writes[i].id \in Nat
  <2>1. \A i \in 1 .. Len(s.writes) : s.writes[i] \in QueuedWrite
    BY <1>1
  <2>. QED
    BY <2>1 DEF QueuedWrite
<1>3. \A i \in 1 .. Len(s.writes) : ToMain("writeError", s.writes[i].id) \in Evt
  BY <1>2, ToMainType DEF EvtKind
<1>4. WriteErrors(s) \in Seq(Evt)
  BY <1>1, <1>3 DEF WriteErrors
<1>5. out \o WriteErrors(s) \in Seq(Evt)
  BY <1>4
<1>. QED
  BY <1>5, CloseReactorType DEF FailReactorState

\* and recomputing the interest mask, whether the poller takes it or not.
LEMMA UpdateInterestType ==
    ASSUME TypeOK, NEW s \in ReactorState, NEW out \in Seq(Evt),
           UpdateInterest(s, out) \/ UpdateFails(s, out)
    PROVE  r' \in ReactorState /\ evts' \in Seq(Evt)
<1>1. Wanted(s) \in SUBSET {"unset", "read", "write"}
  BY DEF Wanted
<1>2. [s EXCEPT !.interest = Wanted(s)] \in ReactorState
  BY <1>1 DEF ReactorState
<1>3. ToMain("readError", 0) \in Evt
  BY ToMainType DEF EvtKind
<1>4. Append(out, ToMain("readError", 0)) \in Seq(Evt)
  BY <1>3
<1>5. CASE Reply([s EXCEPT !.interest = Wanted(s)], out)
  BY <1>2, <1>5, ReplyType
<1>6. CASE UpdateFails(s, out)
  BY <1>4, <1>6, FailReactorType DEF UpdateFails
<1>. QED
  BY <1>5, <1>6 DEF UpdateInterest

\* The end of a handler leaves well-typed loop variables.
LEMMA HandlerReturnsType ==
    ASSUME TypeOK, HandlerReturns
    PROVE  /\ agenda' \in SUBSET {"read", "write", "hup"}
           /\ budget' \in 0 .. Budget
           /\ ready' \in SUBSET {"read", "write", "hup"}
<1>1. Current \in {"read", "write", "hup"}
  BY DEF Current
<1>2. Budget \in 0 .. Budget
  BY SizesAssumption
<1>. QED
  BY <1>1, <1>2 DEF HandlerReturns, TypeOK

-----------------------------------------------------------------------------
(* Type correctness.                                                       *)

\* A step of the application keeps the types.
LEMMA ApplicationType == ASSUME TypeOK, Application PROVE TypeOK'
<1>. USE DEF socketVars, peerVars, reactorVars, loopVars
<1>1. ASSUME Listen PROVE TypeOK'
  BY <1>1, EnableReadType, SMTT(30) DEF Listen, TypeOK
<1>2. ASSUME Pause PROVE TypeOK'
  <2>1. ToReactor("disableRead", 0, received) \in Cmd
    BY ToReactorType DEF CmdKind, TypeOK
  <2>2. cmds \in Seq(Cmd) /\ Append(cmds, ToReactor("disableRead", 0, received)) \in Seq(Cmd)
    BY <2>1 DEF TypeOK
  <2>3. cmds' \in Seq(Cmd) /\ readEnabled' \in BOOLEAN
    BY <1>2, <2>2 DEF Pause, TypeOK
  <2>. QED
    BY <1>2, <2>3, SMTT(30) DEF Pause, TypeOK, writeVars
<1>3. ASSUME Resume PROVE TypeOK'
  BY <1>3, EnableReadType DEF Resume, TypeOK
<1>4. ASSUME DeliverBuffered PROVE TypeOK'
  BY <1>4, EnableReadType DEF DeliverBuffered, TypeOK
<1>5. ASSUME Cancel PROVE TypeOK'
  BY <1>5 DEF Cancel, TypeOK, flagVars, writeVars
<1>6. ASSUME NEW n \in WriteSizes, Write(n) PROVE TypeOK'
  <2>1. n \in Nat
    BY BoundsAssumption
  <2>2. /\ NewFuture(n, "pending") \in Seq(Future)
        /\ NewFuture(n, "failed") \in Seq(Future)
    <3>1. /\ [bytes |-> n, state |-> "pending"] \in Future
          /\ [bytes |-> n, state |-> "failed"] \in Future
      BY <2>1 DEF Future
    <3>. QED
      BY <3>1 DEF NewFuture, TypeOK
  <2>3. CASE shardUp
    <3>1. ToReactor("write", Len(futures) + 1, received) \in Cmd
      BY ToReactorType DEF CmdKind, TypeOK
    <3>2. Append(cmds, ToReactor("write", Len(futures) + 1, received)) \in Seq(Cmd)
      BY <3>1 DEF TypeOK
    <3>3. cmds' \in Seq(Cmd)
      BY <1>6, <2>3, <3>2 DEF Write
    <3>. QED
      BY <1>6, <2>1, <2>2, <2>3, <3>3, SMTT(30) DEF Write, TypeOK
  <2>4. CASE ~shardUp
    <3>1. FinishWithError(NewFuture(n, "failed"), pendingWriteBytes)
      BY <1>6, <2>4 DEF Write
    <3>2. pendingWriteBytes \in Int
      BY DEF TypeOK
    <3>3. /\ closed' \in BOOLEAN /\ readFinished' \in BOOLEAN
          /\ writeFinished' \in BOOLEAN /\ inputClosed' \in BOOLEAN
          /\ done' \in {"no", "ok", "error"}
          /\ futures' \in Seq(Future) /\ pendingWriteBytes' \in Int
          /\ evts' \in Seq(Evt)
      BY <2>2, <3>1, <3>2, TeardownType DEF FinishWithError
    <3>. QED
      BY <1>6, <2>4, <3>3 DEF Write, TypeOK
  <2>. QED
    BY <2>3, <2>4
<1>7. ASSUME CloseWrite PROVE TypeOK'
  <2>2. /\ NewFuture(0, "pending") \in Seq(Future)
        /\ NewFuture(0, "failed") \in Seq(Future)
    <3>1. /\ [bytes |-> 0, state |-> "pending"] \in Future
          /\ [bytes |-> 0, state |-> "failed"] \in Future
      BY DEF Future
    <3>. QED
      BY <3>1 DEF NewFuture, TypeOK
  <2>3. CASE shardUp
    <3>1. ToReactor("shutdownWrite", Len(futures) + 1, received) \in Cmd
      BY ToReactorType DEF CmdKind, TypeOK
    <3>2. Append(cmds, ToReactor("shutdownWrite", Len(futures) + 1, received)) \in Seq(Cmd)
      BY <3>1 DEF TypeOK
    <3>3. cmds' \in Seq(Cmd)
      BY <1>7, <2>3, <3>2 DEF CloseWrite
    <3>. QED
      BY <1>7, <2>2, <2>3, <3>3, SMTT(30) DEF CloseWrite, TypeOK
  <2>4. CASE ~shardUp
    <3>1. FinishWithError(NewFuture(0, "failed"), pendingWriteBytes)
      BY <1>7, <2>4 DEF CloseWrite
    <3>2. pendingWriteBytes \in Int
      BY DEF TypeOK
    <3>3. /\ closed' \in BOOLEAN /\ readFinished' \in BOOLEAN
          /\ writeFinished' \in BOOLEAN /\ inputClosed' \in BOOLEAN
          /\ done' \in {"no", "ok", "error"}
          /\ futures' \in Seq(Future) /\ pendingWriteBytes' \in Int
          /\ evts' \in Seq(Evt)
      BY <2>2, <3>1, <3>2, TeardownType DEF FinishWithError
    <3>. QED
      BY <1>7, <2>4, <3>3 DEF CloseWrite, TypeOK
  <2>. QED
    BY <2>3, <2>4
<1>8. ASSUME Close PROVE TypeOK'
  <2>1. ToReactor("close", 0, received) \in Cmd
    BY ToReactorType DEF CmdKind, TypeOK
  <2>2. cmds' \in Seq(Cmd)
    BY <1>8, <2>1 DEF Close, TypeOK
  <2>3. futures \in Seq(Future) /\ pendingWriteBytes \in Int
    BY DEF TypeOK
  <2>4. Teardown("ok", futures, pendingWriteBytes, TRUE, TRUE)
    BY <1>8 DEF Close
  <2>5. /\ closed' \in BOOLEAN /\ readFinished' \in BOOLEAN
        /\ writeFinished' \in BOOLEAN /\ inputClosed' \in BOOLEAN
        /\ done' \in {"no", "ok", "error"}
        /\ futures' \in Seq(Future) /\ pendingWriteBytes' \in Int
        /\ evts' \in Seq(Evt)
    BY <2>3, <2>4, TeardownType
  <2>. QED
    BY <1>8, <2>2, <2>5 DEF Close, TypeOK
<1>. QED
  BY <1>1, <1>2, <1>3, <1>4, <1>5, <1>6, <1>7, <1>8 DEF Application

\* A step of _handleReactorEvent keeps the types.
LEMMA HandleReactorEventType == ASSUME TypeOK, HandleReactorEvent PROVE TypeOK'
<1>. USE DEF socketVars, peerVars, reactorVars, loopVars
<1>0. ASSUME evts # <<>> PROVE /\ Head(evts).id \in Nat /\ Tail(evts) \in Seq(Evt)
                               /\ Head(evts).lo \in Nat /\ Head(evts).hi \in Nat
                               /\ Head(evts).lo <= Head(evts).hi
  <2>1. Head(evts) \in Evt /\ Tail(evts) \in Seq(Evt)
    BY <1>0, HeadTailType DEF TypeOK
  <2>. QED
    BY <2>1 DEF Evt
<1>1. ASSUME HandleData PROVE TypeOK'
  <2>. DEFINE n == Head(evts).hi - Head(evts).lo
              live == sub = "listening" /\ ~InputPaused
  <2>1. evts # <<>>
    BY <1>1 DEF HandleData, NextEvent
  <2>2. n \in Nat /\ Tail(evts) \in Seq(Evt)
    BY <1>0, <2>1
  <2>3. PICK s \in (IF live THEN {"listening", "paused"} ELSE {sub}) :
            LET disables == live /\ s = "paused" /\ readEnabled
                q == IF disables /\ shardUp
                     THEN Append(cmds, ToReactor("disableRead", 0, received))
                     ELSE cmds
                ack == Message("inboundConsumed", 0, received, received + n)
            IN /\ sub' = s
               /\ received' = received + n
               /\ delivered' = IF live \/ ~HasListener THEN received + n ELSE delivered
               /\ EnableReadIfReady(s, delivered', received + n, readEnabled /\ ~disables,
                                    IF shardUp THEN Append(q, ack) ELSE q, Tail(evts))
    BY <1>1 DEF HandleData
  <2>. DEFINE disables == live /\ s = "paused" /\ readEnabled
              q == IF disables /\ shardUp
                   THEN Append(cmds, ToReactor("disableRead", 0, received))
                   ELSE cmds
              ack == Message("inboundConsumed", 0, received, received + n)
              sent == IF shardUp THEN Append(q, ack) ELSE q
  <2>4. sub' \in {"none", "listening", "paused", "cancelled"}
    BY <2>3 DEF TypeOK
  <2>5. received + n \in Nat /\ received \in Nat /\ received <= received + n
    BY <2>2 DEF TypeOK
  <2>6. received' \in Nat /\ delivered' \in Nat
    BY <2>3, <2>5 DEF TypeOK
  <2>7. sent \in Seq(Cmd)
    <3>1. ToReactor("disableRead", 0, received) \in Cmd
      BY <2>5, ToReactorType DEF CmdKind
    <3>2. ack \in Cmd
      BY <2>5, MessageType DEF CmdKind
    <3>3. q \in Seq(Cmd)
      BY <3>1 DEF TypeOK
    <3>. QED
      BY <3>2, <3>3
  <2>8. (readEnabled /\ ~disables) \in BOOLEAN
    OBVIOUS
  <2>9. EnableReadIfReady(s, delivered', received + n, readEnabled /\ ~disables,
                          sent, Tail(evts))
    BY <2>3
  <2>10. /\ closed' \in BOOLEAN /\ readFinished' \in BOOLEAN
         /\ writeFinished' \in BOOLEAN /\ inputClosed' \in BOOLEAN
         /\ done' \in {"no", "ok", "error"}
         /\ futures' \in Seq(Future) /\ pendingWriteBytes' \in Int
         /\ evts' \in Seq(Evt) /\ cmds' \in Seq(Cmd) /\ readEnabled' \in BOOLEAN
    <3>. HIDE DEF n, live, disables, q, ack, sent
    <3>. QED
      BY <2>2, <2>5, <2>7, <2>8, <2>9, EnableReadType
  <2>. QED
    BY <1>1, <2>4, <2>6, <2>10 DEF HandleData, TypeOK
<1>2. ASSUME NEW rf \in BOOLEAN, NEW wf \in BOOLEAN, NEW ic \in BOOLEAN,
             NEW fs \in Seq(Future), NEW left \in Int, evts # <<>>,
             MaybeCompleteDone(rf, wf, ic, fs, left)
      PROVE  /\ closed' \in BOOLEAN /\ readFinished' \in BOOLEAN
             /\ writeFinished' \in BOOLEAN /\ inputClosed' \in BOOLEAN
             /\ done' \in {"no", "ok", "error"}
             /\ futures' \in Seq(Future) /\ pendingWriteBytes' \in Int
             /\ evts' \in Seq(Evt)
  <2>1. CASE rf /\ wf
    BY <1>2, <2>1, TeardownType DEF MaybeCompleteDone
  <2>2. CASE ~(rf /\ wf)
    BY <1>0, <1>2, <2>2 DEF MaybeCompleteDone, TypeOK
  <2>. QED
    BY <2>1, <2>2
<1>3. ASSUME HandleEof PROVE TypeOK'
  <2>1. evts # <<>>
    BY <1>3 DEF HandleEof, NextEvent
  <2>2. MaybeCompleteDone(TRUE, writeFinished, TRUE, futures, pendingWriteBytes)
    BY <1>3, ZenonT(30) DEF HandleEof
  <2>3. writeFinished \in BOOLEAN /\ futures \in Seq(Future) /\ pendingWriteBytes \in Int
    BY DEF TypeOK
  <2>. QED
    BY <1>2, <1>3, <2>1, <2>2, <2>3, ZenonT(30) DEF HandleEof, TypeOK
<1>4. ASSUME HandleReadError PROVE TypeOK'
  <2>1. futures \in Seq(Future) /\ pendingWriteBytes \in Int
    BY DEF TypeOK
  <2>2. FinishWithError(futures, pendingWriteBytes)
    BY <1>4 DEF HandleReadError
  <2>3. /\ closed' \in BOOLEAN /\ readFinished' \in BOOLEAN
        /\ writeFinished' \in BOOLEAN /\ inputClosed' \in BOOLEAN
        /\ done' \in {"no", "ok", "error"}
        /\ futures' \in Seq(Future) /\ pendingWriteBytes' \in Int
        /\ evts' \in Seq(Evt)
    BY <2>1, <2>2, TeardownType DEF FinishWithError
  <2>. QED
    BY <1>4, <2>3 DEF HandleReadError, TypeOK
<1>5. ASSUME NEW id \in DOMAIN futures, NEW state \in {"ok", "failed"}
      PROVE  Resolve(id, state) \in Seq(Future)
  <2>1. futures \in Seq(Future)
    BY DEF TypeOK
  <2>2. futures[id] \in Future
    BY <2>1
  <2>3. [futures[id] EXCEPT !.state = state] \in Future
    BY <2>2 DEF Future
  <2>. QED
    BY <2>1, <2>3 DEF Resolve
<1>6. ASSUME HandleWriteOk PROVE TypeOK'
  <2>. DEFINE id == Head(evts).id
              known == id \in DOMAIN futures /\ futures[id].state = "pending"
              bytes == IF known THEN futures[id].bytes ELSE 0
              fs == IF known THEN Resolve(id, "ok") ELSE futures
              left == LeftoverPending(bytes)
  <2>1. evts # <<>>
    BY <1>6 DEF HandleWriteOk, NextEvent
  <2>2. fs \in Seq(Future)
    BY <1>5 DEF TypeOK
  <2>3. left \in Int
    <3>1. bytes \in Nat
      <4>1. known => futures[id] \in Future
        BY DEF TypeOK
      <4>. QED
        BY <4>1 DEF Future
    <3>. QED
      BY <3>1, SMTT(30) DEF LeftoverPending, TypeOK
  <2>4. CASE known /\ bytes = 0
    <3>1. MaybeCompleteDone(readFinished, TRUE, inputClosed, fs, left)
      BY <1>6, <2>4 DEF HandleWriteOk
    <3>2. readFinished \in BOOLEAN /\ inputClosed \in BOOLEAN
      BY DEF TypeOK
    <3>3. /\ closed' \in BOOLEAN /\ readFinished' \in BOOLEAN
          /\ writeFinished' \in BOOLEAN /\ inputClosed' \in BOOLEAN
          /\ done' \in {"no", "ok", "error"}
          /\ futures' \in Seq(Future) /\ pendingWriteBytes' \in Int
          /\ evts' \in Seq(Evt)
      <4>. HIDE DEF fs, left
      <4>. QED
        BY <1>2, <2>1, <2>2, <2>3, <3>1, <3>2
    <3>. QED
      BY <1>6, <3>3, ZenonT(30) DEF HandleWriteOk, TypeOK
  <2>5. CASE ~(known /\ bytes = 0)
    <3>1. /\ futures' = fs /\ pendingWriteBytes' = left /\ evts' = Tail(evts)
          /\ UNCHANGED <<inputClosed, readFinished, writeFinished, closed, done>>
      BY <1>6, <2>5 DEF HandleWriteOk
    <3>2. evts' \in Seq(Evt) /\ futures' \in Seq(Future) /\ pendingWriteBytes' \in Int
      BY <1>0, <2>1, <2>2, <2>3, <3>1
    <3>. QED
      BY <1>6, <3>1, <3>2, SMTT(30) DEF HandleWriteOk, TypeOK
  <2>. QED
    BY <2>4, <2>5
<1>7. ASSUME HandleWriteError PROVE TypeOK'
  <2>. DEFINE id == Head(evts).id
              known == id \in DOMAIN futures /\ futures[id].state = "pending"
              fs == IF known THEN Resolve(id, "failed") ELSE futures
  <2>1. fs \in Seq(Future) /\ pendingWriteBytes \in Int
    BY <1>5 DEF TypeOK
  <2>2. FinishWithError(fs, pendingWriteBytes)
    BY <1>7 DEF HandleWriteError
  <2>3. /\ closed' \in BOOLEAN /\ readFinished' \in BOOLEAN
        /\ writeFinished' \in BOOLEAN /\ inputClosed' \in BOOLEAN
        /\ done' \in {"no", "ok", "error"}
        /\ futures' \in Seq(Future) /\ pendingWriteBytes' \in Int
        /\ evts' \in Seq(Evt)
    <3>. HIDE DEF fs
    <3>. QED
      BY <2>1, <2>2, TeardownType DEF FinishWithError
  <2>. QED
    BY <1>7, <2>3, SMTT(30) DEF HandleWriteError, TypeOK
<1>8. ASSUME HandleClosed PROVE TypeOK'
  <2>1. futures \in Seq(Future) /\ pendingWriteBytes \in Int
    BY DEF TypeOK
  <2>2. Teardown("ok", futures, pendingWriteBytes, TRUE, TRUE)
    BY <1>8, ZenonT(30) DEF HandleClosed
  <2>3. /\ closed' \in BOOLEAN /\ readFinished' \in BOOLEAN
        /\ writeFinished' \in BOOLEAN /\ inputClosed' \in BOOLEAN
        /\ done' \in {"no", "ok", "error"}
        /\ futures' \in Seq(Future) /\ pendingWriteBytes' \in Int
        /\ evts' \in Seq(Evt)
    BY <2>1, <2>2, TeardownType
  <2>. QED
    BY <1>8, <2>3 DEF HandleClosed, TypeOK
<1>. QED
  BY <1>1, <1>3, <1>4, <1>6, <1>7, <1>8 DEF HandleReactorEvent

\* A command processed, a wait or a dispatch keeps the types.
LEMMA ReactorLoopType ==
    ASSUME TypeOK, ProcessCommand \/ Wait \/ WaitFails \/ IdleExit \/ Dispatch
    PROVE  TypeOK'
<1>. USE DEF mainVars, inputVars, flagVars, writeVars, socketVars, peerVars,
             reactorVars, loopVars
<1>1. <<>> \in Seq(Evt) /\ r \in ReactorState
  BY DEF TypeOK
<1>2. ASSUME cmds # <<>>
      PROVE  /\ Tail(cmds) \in Seq(Cmd) /\ Head(cmds).id \in Nat
             /\ Head(cmds).hi - Head(cmds).lo \in Nat
  <2>1. Head(cmds) \in Cmd /\ Tail(cmds) \in Seq(Cmd)
    BY <1>2, HeadTailType DEF TypeOK
  <2>. QED
    BY <2>1 DEF Cmd
<1>3. ASSUME NEW kind, NextCommand(kind)
      PROVE  /\ cmds' \in Seq(Cmd) /\ Head(cmds).id \in Nat
             /\ Head(cmds).hi - Head(cmds).lo \in Nat
  BY <1>2, <1>3 DEF NextCommand
<1>4. ASSUME ProcessDropped PROVE TypeOK'
  BY <1>2, <1>4 DEF ProcessDropped, TypeOK
<1>5. ASSUME ProcessEnableRead PROVE TypeOK'
  <2>1. [r EXCEPT !.readEnabled = TRUE] \in ReactorState
    BY <1>1 DEF ReactorState
  <2>2. r' \in ReactorState /\ evts' \in Seq(Evt)
    BY <1>1, <1>5, <2>1, UpdateInterestType DEF ProcessEnableRead
  <2>. QED
    BY <1>3, <1>5, <2>2, SMTT(30) DEF ProcessEnableRead, TypeOK
<1>6. ASSUME ProcessDisableRead PROVE TypeOK'
  <2>1. [r EXCEPT !.readEnabled = FALSE] \in ReactorState
    BY <1>1 DEF ReactorState
  <2>2. r' \in ReactorState /\ evts' \in Seq(Evt)
    BY <1>1, <1>6, <2>1, UpdateInterestType DEF ProcessDisableRead
  <2>. QED
    BY <1>3, <1>6, <2>2, SMTT(30) DEF ProcessDisableRead, TypeOK
<1>7. ASSUME ProcessInboundConsumed PROVE TypeOK'
  <2>1. Head(cmds).hi - Head(cmds).lo \in Nat /\ cmds' \in Seq(Cmd)
    BY <1>3, <1>7 DEF ProcessInboundConsumed
  <2>2. ASSUME NEW n \in Nat PROVE Acknowledged(n) \in ReactorState
    BY <1>1 DEF Acknowledged, ReactorState
  <2>3. Acknowledged(Head(cmds).hi - Head(cmds).lo) \in ReactorState
    BY <2>1, <2>2
  <2>4. r' \in ReactorState /\ evts' \in Seq(Evt)
    BY <1>1, <1>7, <2>3, UpdateInterestType DEF ProcessInboundConsumed
  <2>. QED
    BY <1>7, <2>1, <2>4 DEF ProcessInboundConsumed, TypeOK
<1>8. ASSUME ProcessWrite PROVE TypeOK'
  <2>1. Head(cmds).id \in Nat /\ cmds' \in Seq(Cmd)
    BY <1>3, <1>8 DEF ProcessWrite
  <2>2. Append(r.writes, [id |-> Head(cmds).id, offset |-> 0]) \in Seq(QueuedWrite)
    <3>1. r.writes \in Seq(QueuedWrite)
      BY <1>1 DEF ReactorState
    <3>2. [id |-> Head(cmds).id, offset |-> 0] \in QueuedWrite
      BY <2>1 DEF QueuedWrite
    <3>. QED
      BY <3>1, <3>2
  <2>3. r' \in ReactorState
    BY <1>1, <1>8, <2>2 DEF ProcessWrite, ReactorState
  <2>4. /\ agenda' = {"write"} /\ budget' = Budget
        /\ UNCHANGED <<mainVars, evts, shardUp, ready, socketVars>>
    BY <1>8 DEF ProcessWrite
  <2>. QED
    BY <2>1, <2>3, <2>4, SizesAssumption DEF TypeOK
<1>9. ASSUME ProcessShutdownWrite PROVE TypeOK'
  <2>1. Head(cmds).id \in Nat /\ cmds' \in Seq(Cmd)
    BY <1>3, <1>9 DEF ProcessShutdownWrite
  <2>2. r' \in ReactorState
    BY <1>1, <1>9, <2>1 DEF ProcessShutdownWrite, ReactorState
  <2>3. /\ agenda' = {"write"} /\ budget' = Budget
        /\ UNCHANGED <<mainVars, evts, shardUp, ready, socketVars>>
    BY <1>9 DEF ProcessShutdownWrite
  <2>. QED
    BY <2>1, <2>2, <2>3, SizesAssumption DEF TypeOK
<1>10. ASSUME ProcessClose PROVE TypeOK'
  <2>1. r' \in ReactorState /\ evts' \in Seq(Evt)
    BY <1>1, <1>10, CloseReactorType DEF ProcessClose
  <2>. QED
    BY <1>3, <1>10, <2>1 DEF ProcessClose, TypeOK
<1>11. ASSUME Wait PROVE TypeOK'
  BY <1>11 DEF Wait, Readiness, TypeOK
<1>12. ASSUME WaitFails PROVE TypeOK'
  <2>1. r' \in ReactorState /\ evts' \in Seq(Evt)
    <3>1. CASE r.closed
      BY <1>12, <3>1 DEF WaitFails, TypeOK
    <3>2. CASE ~r.closed
      BY <1>1, <1>12, <3>2, FailReactorType DEF WaitFails
    <3>. QED
      BY <3>1, <3>2
  <2>2. shardUp' \in BOOLEAN /\ UNCHANGED <<mainVars, cmds, loopVars, socketVars>>
    BY <1>12 DEF WaitFails
  <2>. QED
    BY <2>1, <2>2 DEF TypeOK
<1>13. ASSUME IdleExit PROVE TypeOK'
  <2>1. /\ shardUp' \in BOOLEAN
        /\ UNCHANGED <<mainVars, cmds, evts, reactorVars, socketVars>>
    BY <1>13 DEF IdleExit
  <2>. QED
    BY <2>1 DEF TypeOK
<1>14. ASSUME Dispatch PROVE TypeOK'
  BY <1>14, SizesAssumption DEF Dispatch, TypeOK
<1>. QED
  BY <1>4, <1>5, <1>6, <1>7, <1>8, <1>9, <1>10, <1>11, <1>12, <1>13, <1>14
     DEF ProcessCommand

\* A step of the read loop keeps the types.
LEMMA ReadType == ASSUME TypeOK, Read PROVE TypeOK'
<1>. USE DEF mainVars, inputVars, flagVars, writeVars, socketVars, peerVars
<1>1. <<>> \in Seq(Evt) /\ r \in ReactorState
  BY DEF TypeOK
<1>2. ASSUME ReadRefused PROVE TypeOK'
  BY <1>2, HandlerReturnsType DEF ReadRefused, TypeOK
<1>3. ASSUME ReadYields PROVE TypeOK'
  <2>1. r' \in ReactorState /\ evts' \in Seq(Evt)
    BY <1>1, <1>3, UpdateInterestType DEF ReadYields
  <2>. QED
    BY <1>3, <2>1, HandlerReturnsType DEF ReadYields, TypeOK
<1>4. ASSUME ReadData PROVE TypeOK'
  <2>1. PICK n \in 1 .. ReadChunk :
          /\ ReadFits(n)
          /\ rd' = rd + n
          /\ budget' = budget - n
          /\ Reply([r EXCEPT !.pendingInbound = @ + n], <<Message("data", 0, rd, rd + n)>>)
    BY <1>4 DEF ReadData
  <2>2. n \in Nat /\ rd \in Nat
    BY SizesAssumption DEF TypeOK
  <2>3. rd' \in 0 .. peerSent /\ budget' \in 0 .. Budget
    <3>1. rd \in 0 .. peerSent /\ budget \in 0 .. Budget /\ peerSent \in Nat /\ Budget \in Nat
      BY SizesAssumption DEF TypeOK
    <3>2. n <= budget /\ n <= peerSent - rd
      BY <2>1 DEF ReadFits
    <3>. QED
      BY <2>1, <2>2, <3>1, <3>2
  <2>4. Message("data", 0, rd, rd + n) \in Evt
    BY <2>2, MessageType DEF EvtKind
  <2>5. [r EXCEPT !.pendingInbound = @ + n] \in ReactorState
    BY <1>1, <2>2, SMTT(30) DEF ReactorState
  <2>6. r' \in ReactorState /\ evts' \in Seq(Evt)
    <3>1. <<Message("data", 0, rd, rd + n)>> \in Seq(Evt)
      BY <2>4
    <3>. QED
      BY <2>1, <2>5, <3>1, ReplyType
  <2>7. UNCHANGED <<mainVars, cmds, shardUp, ready, agenda, peerVars, wire, unread, txShut>>
    BY <1>4 DEF ReadData
  <2>. QED
    BY <2>3, <2>6, <2>7, SMTT(30) DEF TypeOK
<1>5. ASSUME ReadAgain PROVE TypeOK'
  BY <1>5, HandlerReturnsType DEF ReadAgain, TypeOK
<1>6. ASSUME ReadEof PROVE TypeOK'
  <2>. DEFINE s == [r EXCEPT !.readClosed = TRUE, !.readEnabled = FALSE]
              eof == <<ToMain("eof", 0)>>
  <2>1. s \in ReactorState
    BY <1>1 DEF ReactorState
  <2>2. eof \in Seq(Evt)
    BY ToMainType DEF EvtKind
  <2>3. CloseReactorState(s, eof) \/ UpdateFails(s, eof) \/ UpdateInterest(s, eof)
    BY <1>6 DEF ReadEof
  <2>4. r' \in ReactorState /\ evts' \in Seq(Evt)
    <3>. HIDE DEF s, eof
    <3>. QED
      BY <2>1, <2>2, <2>3, CloseReactorType, UpdateInterestType
  <2>5. HandlerReturns /\ UNCHANGED <<mainVars, cmds, shardUp, socketVars>>
    BY <1>6 DEF ReadEof
  <2>. QED
    BY <2>4, <2>5, HandlerReturnsType DEF TypeOK
<1>7. ASSUME ReadFails PROVE TypeOK'
  <2>1. <<ToMain("readError", 0)>> \in Seq(Evt)
    BY ToMainType DEF EvtKind
  <2>2. r' \in ReactorState /\ evts' \in Seq(Evt)
    BY <1>1, <1>7, <2>1, FailReactorType DEF ReadFails
  <2>. QED
    BY <1>7, <2>2, HandlerReturnsType, SMTT(30) DEF ReadFails, TypeOK
<1>. QED
  BY <1>2, <1>3, <1>4, <1>5, <1>6, <1>7 DEF Read

\* A step of the flush loop keeps the types.
LEMMA FlushType == ASSUME TypeOK, Flush PROVE TypeOK'
<1>. USE DEF mainVars, inputVars, flagVars, writeVars, socketVars, peerVars
<1>1. <<>> \in Seq(Evt) /\ r \in ReactorState
  BY DEF TypeOK
<1>2. r.writes \in Seq(QueuedWrite) /\ r.shutdownWriteId \in Nat
  BY <1>1 DEF ReactorState
<1>3. ASSUME r.writes # <<>>
      PROVE  /\ Head(r.writes).id \in Nat /\ Head(r.writes).offset \in Nat
             /\ Tail(r.writes) \in Seq(QueuedWrite)
  <2>1. Head(r.writes) \in QueuedWrite /\ Tail(r.writes) \in Seq(QueuedWrite)
    BY <1>2, <1>3, HeadTailType
  <2>. QED
    BY <2>1 DEF QueuedWrite
<1>4. ASSUME FlushRefused PROVE TypeOK'
  BY <1>4, HandlerReturnsType DEF FlushRefused, TypeOK
<1>5. ASSUME FlushBytes PROVE TypeOK'
  <2>. DEFINE w == Head(r.writes)
  <2>1. r.writes # <<>>
    BY <1>5 DEF FlushBytes, Queued
  <2>2. PICK n \in 1 .. WriteChunk :
            /\ n <= budget /\ n <= SendBuffer - unread
            /\ wire' = wire \o Taken(w, n)
            /\ unread' = unread + n
            /\ budget' = budget - n
            /\ IF Finished(w, n)
               THEN Reply([r EXCEPT !.writes = Tail(@)], <<ToMain("writeOk", w.id)>>)
               ELSE Reply([r EXCEPT !.writes[1].offset = w.offset + n], <<>>)
    BY <1>5 DEF FlushBytes
  <2>3. n \in Nat /\ w.id \in Nat /\ w.offset \in Nat /\ Tail(r.writes) \in Seq(QueuedWrite)
    BY <1>3, <2>1, SizesAssumption
  <2>4. budget' \in 0 .. Budget /\ unread' \in 0 .. SendBuffer
    <3>1. /\ unread \in 0 .. SendBuffer /\ budget \in 0 .. Budget
          /\ SendBuffer \in Nat /\ Budget \in Nat
      BY SizesAssumption DEF TypeOK
    <3>. QED
      BY <2>2, <2>3, <3>1, SMTT(60)
  <2>5. Taken(w, n) \in Seq(Nat \X Nat)
    <3>1. \A i \in 1 .. n : <<w.id, w.offset + i>> \in Nat \X Nat
      BY <2>3, SMTT(30)
    <3>. QED
      BY <2>3, <3>1 DEF Taken
  <2>6. wire' \in Seq(Nat \X Nat)
    <3>1. wire \in Seq(Nat \X Nat)
      BY DEF TypeOK
    <3>. QED
      BY <2>2, <2>5, <3>1
  <2>7. r' \in ReactorState /\ evts' \in Seq(Evt)
    <3>1. CASE Finished(w, n)
      <4>1. [r EXCEPT !.writes = Tail(@)] \in ReactorState
        BY <1>1, <2>3 DEF ReactorState
      <4>2. <<ToMain("writeOk", w.id)>> \in Seq(Evt)
        BY <2>3, ToMainType DEF EvtKind
      <4>. QED
        BY <2>2, <3>1, <4>1, <4>2, ReplyType
    <3>2. CASE ~Finished(w, n)
      <4>1. Len(r.writes) \in Nat /\ 1 \in DOMAIN r.writes
        BY <1>2, <2>1
      <4>2. r.writes[1] \in QueuedWrite
        BY <1>2, <4>1
      <4>3. [r.writes[1] EXCEPT !.offset = w.offset + n] \in QueuedWrite
        BY <2>3, <4>2, SMTT(60) DEF QueuedWrite
      <4>4. [r.writes EXCEPT ![1] = [r.writes[1] EXCEPT !.offset = w.offset + n]]
              \in Seq(QueuedWrite)
        BY <1>2, <4>1, <4>3
      <4>5. [r EXCEPT !.writes[1].offset = w.offset + n] \in ReactorState
        BY <1>1, <4>4 DEF ReactorState
      <4>. QED
        BY <1>1, <2>2, <3>2, <4>5, ReplyType
    <3>. QED
      BY <3>1, <3>2
  <2>8. UNCHANGED <<mainVars, cmds, shardUp, ready, agenda, peerVars, rd, txShut>>
    BY <1>5 DEF FlushBytes
  <2>. QED
    BY <2>4, <2>6, <2>7, <2>8 DEF TypeOK
<1>6. ASSUME FlushAgain \/ FlushYields PROVE TypeOK'
  <2>1. /\ UpdateInterest(r, <<>>) /\ HandlerReturns
        /\ UNCHANGED <<mainVars, cmds, shardUp, socketVars>>
    BY <1>6 DEF FlushAgain, FlushYields
  <2>2. r' \in ReactorState /\ evts' \in Seq(Evt)
    BY <1>1, <2>1, UpdateInterestType
  <2>. QED
    BY <2>1, <2>2, HandlerReturnsType DEF TypeOK
<1>7. ASSUME FlushFails \/ FlushShutdownFails PROVE TypeOK'
  <2>1. PICK id \in Nat : FailReactorState(r, <<ToMain("writeError", id)>>)
    BY <1>2, <1>3, <1>7 DEF FlushFails, FlushShutdownFails, Queued
  <2>2. HandlerReturns /\ UNCHANGED <<mainVars, cmds, shardUp, socketVars>>
    BY <1>7 DEF FlushFails, FlushShutdownFails
  <2>3. <<ToMain("writeError", id)>> \in Seq(Evt)
    BY ToMainType DEF EvtKind
  <2>4. r' \in ReactorState /\ evts' \in Seq(Evt)
    BY <1>1, <2>1, <2>3, FailReactorType
  <2>. QED
    BY <2>2, <2>4, HandlerReturnsType DEF TypeOK
<1>8. ASSUME FlushShutdown PROVE TypeOK'
  <2>. DEFINE s == [r EXCEPT !.writeClosed = TRUE]
              ok == <<ToMain("writeOk", r.shutdownWriteId)>>
  <2>1. s \in ReactorState
    BY <1>1 DEF ReactorState
  <2>2. ok \in Seq(Evt)
    BY <1>2, ToMainType DEF EvtKind
  <2>3. CloseReactorState(s, ok) \/ Reply(s, ok)
    BY <1>8 DEF FlushShutdown
  <2>4. r' \in ReactorState /\ evts' \in Seq(Evt)
    <3>. HIDE DEF s, ok
    <3>. QED
      BY <2>1, <2>2, <2>3, CloseReactorType, ReplyType
  <2>5. /\ txShut' = TRUE /\ HandlerReturns
        /\ UNCHANGED <<mainVars, cmds, shardUp, peerVars, rd, wire, unread>>
    BY <1>8 DEF FlushShutdown
  <2>. QED
    BY <2>4, <2>5, HandlerReturnsType DEF TypeOK
<1>. QED
  BY <1>4, <1>5, <1>6, <1>7, <1>8 DEF Flush

\* A step of the peer keeps the types.
LEMMA PeerType == ASSUME TypeOK, Peer PROVE TypeOK'
<1>. USE DEF mainVars, inputVars, flagVars, writeVars, reactorVars, loopVars, peerVars
<1>1. ASSUME PeerSends PROVE TypeOK'
  BY <1>1 DEF PeerSends, TypeOK
<1>2. ASSUME PeerConsumes PROVE TypeOK'
  BY <1>2, SizesAssumption DEF PeerConsumes, TypeOK
<1>3. ASSUME PeerEnds PROVE TypeOK'
  BY <1>3 DEF PeerEnds, TypeOK
<1>. QED
  BY <1>1, <1>2, <1>3 DEF Peer

\* Every variable keeps its type: neither half of the transport, whatever the
\* order of commands, events and system calls, leaves its state space.
THEOREM TypeCorrect == Spec => []TypeOK
<1>1. Init => TypeOK
  <2>1. Registered \in ReactorState
    BY DEF Registered, ReactorState
  <2>2. /\ <<>> \in Seq(Future) /\ <<>> \in Seq(Cmd) /\ <<>> \in Seq(Evt)
        /\ <<>> \in Seq(Nat \X Nat)
    OBVIOUS
  <2>3. Budget \in 0 .. Budget /\ 0 \in 0 .. SendBuffer /\ 0 \in 0 .. 0
    BY SizesAssumption
  <2>. QED
    <3> SUFFICES ASSUME Init PROVE TypeOK
      OBVIOUS
    <3>1. /\ inputClosed \in BOOLEAN /\ readEnabled \in BOOLEAN
          /\ readFinished \in BOOLEAN /\ writeFinished \in BOOLEAN
          /\ closed \in BOOLEAN /\ shardUp \in BOOLEAN
          /\ peerFin \in BOOLEAN /\ peerGone \in BOOLEAN /\ txShut \in BOOLEAN
      BY DEF Init
    <3>2. /\ sub = "none" /\ received = 0 /\ delivered = 0 /\ done = "no"
          /\ futures = <<>> /\ pendingWriteBytes = 0 /\ cmds = <<>> /\ evts = <<>>
          /\ r = Registered /\ ready = {} /\ agenda = {} /\ budget = Budget
          /\ peerSent = 0 /\ rd = 0 /\ wire = <<>> /\ unread = 0
      BY DEF Init
    <3>. QED
      BY <2>1, <2>2, <2>3, <3>1, <3>2 DEF TypeOK
<1>2. TypeOK /\ [Next]_vars => TypeOK'
  <2> SUFFICES ASSUME TypeOK, [Next]_vars PROVE TypeOK'
    OBVIOUS
  <2>1. CASE UNCHANGED vars
    BY <2>1 DEF vars, mainVars, inputVars, flagVars, writeVars, socketVars,
               peerVars, reactorVars, loopVars, TypeOK
  <2>2. CASE Next
    BY <2>2, ApplicationType, HandleReactorEventType, ReactorLoopType, ReadType,
       FlushType, PeerType DEF Next, Reactor
  <2>. QED
    BY <2>1, <2>2
<1>. QED
  BY <1>1, <1>2, PTL DEF Spec
=============================================================================
