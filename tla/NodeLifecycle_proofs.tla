------------------------- MODULE NodeLifecycle_proofs -------------------------
(***************************************************************************)
(* NodeLifecycle implements WorkerRpc, so that what was proved of the RPC  *)
(* layer holds of the composition, for any sequence of lifecycle calls,    *)
(* any number of watchers and notifications, and any faults.               *)
(*                                                                         *)
(* A step of the composition is one of the layer because each lifecycle    *)
(* call awaits at most one request (Awaiting), and because what the        *)
(* runtime pushes and the worker responds is what the layer carries        *)
(* (GoTyped).                                                              *)
(*                                                                         *)
(* On the same invariant rest the sections that follow: the identity cache *)
(* belongs to the server that runs (CacheCorrect), a logout lasts          *)
(* (LogoutLasts), everything keeps its type (NodeTyped), and an up does    *)
(* not wait for a stable state that it was told of (NoStateMissed).        *)
(***************************************************************************)
EXTENDS NodeLifecycle, TLAPS, SequenceTheorems

\* The definitions of WorkerRpc once more, with what was proved about them.
Layer == INSTANCE WorkerRpc_proofs
         WITH Caller <- Op, Request <- Requests, Reply <- Replies, Event <- Go!Events

\* Both instances say the same.
LEMMA SameLayer ==
    /\ Layer!Init <=> Rpc!Init
    /\ Layer!Next <=> Rpc!Next
    /\ Layer!AnswersMatch <=> AnswersMatch
    /\ Layer!NobodyForgotten <=> NobodyForgotten
<1>1. Layer!Init <=> Rpc!Init
  BY DEF Layer!Init, Rpc!Init, Layer!Idle, Rpc!Idle
<1>2. Layer!Next <=> Rpc!Next
  BY DEF Layer!mainVars, Rpc!mainVars, Layer!Response, Rpc!Response, Layer!Idle, Rpc!Idle,
         Layer!Turn, Rpc!Turn, Layer!Send, Rpc!Send, Layer!Ask, Rpc!Ask, Layer!Consume,
         Rpc!Consume, Layer!Ended, Rpc!Ended, Layer!Dispose, Rpc!Dispose,
         Layer!NextMessage, Rpc!NextMessage, Layer!SpawnFails, Rpc!SpawnFails,
         Layer!HandleReady, Rpc!HandleReady, Layer!HandleBootFailure,
         Rpc!HandleBootFailure, Layer!HandleExit, Rpc!HandleExit, Layer!Oldest, Rpc!Oldest,
         Layer!HandleResponse, Rpc!HandleResponse, Layer!HandlePush, Rpc!HandlePush,
         Layer!BootSucceeds, Rpc!BootSucceeds, Layer!BootFails, Rpc!BootFails,
         Layer!NextEvent, Rpc!NextEvent, Layer!Begin, Rpc!Begin, Layer!Respond,
         Rpc!Respond, Layer!Forward, Rpc!Forward, Layer!Exit, Rpc!Exit, Layer!Asks,
         Rpc!Asks, Layer!Goes, Rpc!Goes, Layer!GoesOn, Rpc!GoesOn, Layer!Posts, Rpc!Posts,
         Layer!Responds, Rpc!Responds, Layer!Pushed, Rpc!Pushed, Layer!Next, Rpc!Next
<1>3. Layer!AnswersMatch <=> AnswersMatch
  BY DEF Layer!AnswersMatch, AnswersMatch, Rpc!AnswersMatch
<1>4. Layer!NobodyForgotten <=> NobodyForgotten
  BY DEF Layer!NobodyForgotten, NobodyForgotten, Rpc!NobodyForgotten
<1> QED  BY <1>1, <1>2, <1>3, <1>4

-----------------------------------------------------------------------------
(* The inductive invariant.                                                *)

GoTyped ==
    /\ engine \in Go!Number /\ engines \in Go!Number /\ nodeState \in Go!BackendState
    /\ watcher \in [1 .. MaxWatchers -> [live : BOOLEAN, engine : Go!Number,
                                         bus : Seq(Seq(Go!Part)), held : Seq(Go!Part)]]

Places == {"idle", "snapshot", "start", "check", "settle", "final", "last", "act", "done", "failed"}

OpTyped ==
    op \in [Op -> [kind : Requests \cup {Nothing}, at : Places, last : State \cup {Nothing},
                   early : BOOLEAN, stable : Stable \cup {Nothing}, engine : Go!Number, by : Go!Number]]

\* Where a lifecycle call awaits no request, none of it is open.
Awaiting ==
    \A o \in Op :
        /\ op[o].at \in {"idle", "snapshot", "settle", "done", "failed"} => call[o] = [at |-> "idle"]
        /\ op[o].at = "snapshot" => op[o].kind \in Requests

NodeInv == Layer!RpcInv /\ GoTyped /\ OpTyped /\ Awaiting

-----------------------------------------------------------------------------
(* The runtime keeps its types, and pushes what the layer carries.         *)

Pushes == isolate = "running" /\ Rpc!Posts

\* The numbers of servers and watchers.
LEMMA Numbers ==
    /\ 0 \in Go!Number /\ 1 .. MaxWatchers \subseteq Go!Number
    /\ \A n \in Go!Number : n \in Nat /\ (n < MaxWatchers => n + 1 \in 1 .. MaxWatchers)
BY NodeAssumption DEF Go!Number

\* A post of one event is a push, or goes nowhere.
LEMMA PostOne ==
    ASSUME NEW e \in Go!Events, queue \in Seq(Rpc!Command \cup Rpc!Push), Go!Post(<<e>>)
    PROVE  Pushes \/ UNCHANGED queue
<1>1. CASE dartPort /\ isolate = "running"
  <2> DEFINE m == [kind |-> "push", event |-> e]
  <2>1. [i \in DOMAIN <<e>> |-> [kind |-> "push", event |-> <<e>>[i]]] = <<m>>
    OBVIOUS
  <2>2. queue' = queue \o <<m>>
    BY <1>1, <2>1 DEF Go!Post
  <2> HIDE DEF m
  <2>3. queue' = Append(queue, m)
    BY <2>2
  <2> QED  BY <1>1, <2>3 DEF Pushes, Rpc!Posts, m
<1>2. CASE ~(dartPort /\ isolate = "running")
  BY <1>2 DEF Go!Post
<1> QED  BY <1>1, <1>2

\* Stopping a watcher, of any number, leaves the watchers typed.
LEMMA CancelTyped ==
    ASSUME GoTyped, NEW w, Go!Cancel(w)
    PROVE  watcher' \in [1 .. MaxWatchers -> [live : BOOLEAN, engine : Go!Number,
                                              bus : Seq(Seq(Go!Part)), held : Seq(Go!Part)]]
<1>1. <<>> \in Seq(Seq(Go!Part))
  OBVIOUS
<1> QED  BY <1>1 DEF GoTyped, Go!Cancel

\* So does stopping the server.
LEMMA StopTyped ==
    ASSUME GoTyped, Go!StopLocked, engines' = engines
    PROVE  GoTyped'
<1>1. Go!Cancel(watchCancel)
  BY DEF Go!StopLocked, Go!StopWatch
<1> QED  BY <1>1, CancelTyped, Numbers DEF GoTyped, Go!StopLocked, Go!BackendState

\* What the worker calls: the types hold and at most one event is posted.
LEMMA CallsTyped ==
    ASSUME GoTyped, queue \in Seq(Rpc!Command \cup Rpc!Push),
           \/ Go!Stop \/ Go!StartKeeps \/ Go!StartSucceeds \/ Go!StartFails
           \/ Go!StartWatch \/ Go!StartWatchFails \/ Go!Wipe \/ Go!WipeFails
    PROVE  GoTyped' /\ (Pushes \/ UNCHANGED queue)
<1>1. CASE Go!Stop
  <2>1. GoTyped'
    BY <1>1, StopTyped DEF Go!Stop
  <2>2. CASE engine # 0
    <3>1. Go!Status("Stopped", 0) \in Go!Events
      BY Numbers DEF Go!Status, Go!Events
    <3> QED  BY <1>1, <2>1, <2>2, <3>1, PostOne DEF Go!Stop
  <2>3. CASE engine = 0
    <3>1. [i \in DOMAIN << >> |-> [kind |-> "push", event |-> <<>>[i]]] = <<>>
      OBVIOUS
    <3>2. queue \o <<>> = queue
      OBVIOUS
    <3>3. Go!Post(<<>>)
      BY <1>1, <2>3 DEF Go!Stop
    <3> QED  BY <2>1, <3>1, <3>2, <3>3 DEF Go!Post
  <2> QED  BY <2>2, <2>3
<1>2. CASE Go!StartKeeps
  BY <1>2 DEF Go!StartKeeps, GoTyped, Go!goVars, Go!serverVars, Go!watchVars
<1>3. CASE Go!StartSucceeds
  <2>1. Go!Cancel(watchCancel)
    BY <1>3 DEF Go!StartSucceeds, Go!StopWatch
  <2> QED  BY <1>3, <2>1, CancelTyped, Numbers DEF GoTyped, Go!StartSucceeds, Go!BackendState
<1>4. CASE Go!StartFails
  BY <1>4, StopTyped DEF Go!StartFails
<1>5. CASE Go!StartWatch
  <2>1. CASE engine = 0
    BY <1>5, <2>1 DEF Go!StartWatch, Go!Unposted, GoTyped, Go!goVars, Go!serverVars, Go!watchVars
  <2>2. CASE engine # 0
    <3> DEFINE first == IF nodeState = "Running" THEN <<nodeState, "netmap">> ELSE <<nodeState>>
    <3>1. /\ watcher' = [watcher EXCEPT ![watchers + 1] =
                [live |-> TRUE, engine |-> engine, bus |-> <<first>>, held |-> <<>>]]
          /\ UNCHANGED <<engine, engines, nodeState, queue>>
      BY <1>5, <2>2 DEF Go!StartWatch, Go!Unposted, Go!serverVars
    <3>2. first \in Seq(Go!Part)
      <4>1. nodeState \in Go!Part /\ "netmap" \in Go!Part
        BY DEF GoTyped, Go!Part
      <4>2. <<nodeState, "netmap">> \in Seq(Go!Part) /\ <<nodeState>> \in Seq(Go!Part)
        BY <4>1
      <4> QED  BY <4>2
    <3> HIDE DEF first
    <3>3. <<first>> \in Seq(Seq(Go!Part)) /\ <<>> \in Seq(Go!Part)
      BY <3>2
    <3> QED  BY <3>1, <3>3 DEF GoTyped
  <2> QED  BY <2>1, <2>2
<1>6. CASE Go!StartWatchFails
  <2>1. Go!Error \in Go!Events
    BY DEF Go!Events
  <2> QED  BY <1>6, <2>1, PostOne DEF Go!StartWatchFails, GoTyped, Go!serverVars
<1>7. CASE Go!Wipe
  <2>1. Go!Status("NoState", 0) \in Go!Events
    BY Numbers DEF Go!Status, Go!Events
  <2> QED  BY <1>7, <2>1, PostOne DEF Go!Wipe, GoTyped, Go!watchVars
<1>8. CASE Go!WipeFails
  BY <1>8 DEF Go!WipeFails, GoTyped, Go!watchVars
<1> QED  BY <1>1, <1>2, <1>3, <1>4, <1>5, <1>6, <1>7, <1>8

\* What the node and the goroutines do beside it.
LEMMA RuntimeTyped ==
    ASSUME GoTyped, queue \in Seq(Rpc!Command \cup Rpc!Push),
           \/ Go!NodeChanges \/ Go!TimerFires
           \/ \E w \in 1 .. MaxWatchers : Go!Goroutine(w) \/ Go!WatchBreaks(w)
    PROVE  GoTyped' /\ (Pushes \/ UNCHANGED queue)
<1> DEFINE W == [live : BOOLEAN, engine : Go!Number, bus : Seq(Seq(Go!Part)), held : Seq(Go!Part)]
<1>1. /\ engine \in Go!Number /\ engines \in Go!Number /\ nodeState \in Go!BackendState
      /\ watcher \in [1 .. MaxWatchers -> W]
      /\ \A w \in 1 .. MaxWatchers :
           /\ watcher[w].engine \in Go!Number /\ watcher[w].held \in Seq(Go!Part)
           /\ watcher[w].bus \in Seq(Seq(Go!Part))
  BY DEF GoTyped
<1>2. ASSUME watcher' \in [1 .. MaxWatchers -> W], UNCHANGED <<engine, engines>>,
             nodeState' \in Go!BackendState
      PROVE  GoTyped'
  BY <1>1, <1>2 DEF GoTyped
<1>3. CASE Go!NodeChanges
  <2>1. ASSUME NEW parts \in Seq(Go!Part), Go!Notify(parts)
        PROVE  watcher' \in [1 .. MaxWatchers -> W]
    <3>1. ASSUME NEW w \in 1 .. MaxWatchers
          PROVE  [watcher[w] EXCEPT !.bus = Append(@, parts)] \in W
      <4>1. Append(watcher[w].bus, parts) \in Seq(Seq(Go!Part))
        BY <1>1, <2>1
      <4> QED  BY <1>1, <4>1
    <3>2. watcher' = [w \in 1 .. MaxWatchers |->
             IF Go!Watching(w) /\ watcher[w].engine = engine
             THEN [watcher[w] EXCEPT !.bus = Append(@, parts)] ELSE watcher[w]]
      BY <2>1 DEF Go!Notify, Go!Watcher
    <3> HIDE DEF W
    <3> QED  BY <1>1, <3>1, <3>2
  <2>2. <<"netmap">> \in Seq(Go!Part) /\ \A s \in Go!BackendState : <<s>> \in Seq(Go!Part)
    BY DEF Go!Part
  <2>3. UNCHANGED <<engine, engines, queue>>
    BY <1>3 DEF Go!NodeChanges
  <2>4. \/ \E s \in Go!BackendState : nodeState' = s /\ Go!Notify(<<s>>)
        \/ Go!Notify(<<"netmap">>) /\ UNCHANGED nodeState
    BY <1>3 DEF Go!NodeChanges
  <2> QED  BY <1>1, <1>2, <2>1, <2>2, <2>3, <2>4
<1>4. CASE Go!TimerFires
  BY <1>1, <1>2, <1>4 DEF Go!TimerFires, Go!KeepRest, Go!serverVars, Go!Unposted
<1>5. ASSUME NEW w \in 1 .. MaxWatchers, Go!TakeNotification(w)
      PROVE  GoTyped' /\ UNCHANGED queue
  <2>1. Head(watcher[w].bus) \in Seq(Go!Part) /\ Tail(watcher[w].bus) \in Seq(Seq(Go!Part))
    BY <1>1, <1>5, HeadTailProperties DEF Go!TakeNotification
  <2>2. watcher' = [watcher EXCEPT ![w].held = Head(watcher[w].bus), ![w].bus = Tail(@)]
    BY <1>5 DEF Go!TakeNotification
  <2>3. watcher' \in [1 .. MaxWatchers -> W]
    BY <1>1, <2>1, <2>2, ZenonT(30)
  <2> QED  BY <1>1, <1>2, <1>5, <2>3 DEF Go!TakeNotification, Go!KeepRest, Go!serverVars, Go!Unposted
<1>6. ASSUME NEW w \in 1 .. MaxWatchers, NEW parts, Go!NextPart(w, parts)
      PROVE  /\ Head(watcher[w].held) \in parts
             /\ Tail(watcher[w].held) \in Seq(Go!Part)
             /\ <<"publish">> \o Tail(watcher[w].held) \in Seq(Go!Part)
  <2>1. Tail(watcher[w].held) \in Seq(Go!Part) /\ Head(watcher[w].held) \in parts
    BY <1>1, <1>6, HeadTailProperties DEF Go!NextPart
  <2>2. <<"publish">> \in Seq(Go!Part)
    BY DEF Go!Part
  <2> QED  BY <2>1, <2>2, ConcatProperties
<1>7. ASSUME NEW w \in 1 .. MaxWatchers, Go!PostState(w)
      PROVE  GoTyped' /\ (Pushes \/ UNCHANGED queue)
  <2>1. Go!NextPart(w, Go!BackendState)
    BY <1>7 DEF Go!PostState
  <2>2. watcher' = [watcher EXCEPT ![w].held = Tail(@)]
    BY <1>7 DEF Go!PostState
  <2>3. watcher' \in [1 .. MaxWatchers -> W]
    BY <1>1, <1>6, <2>1, <2>2, ZenonT(30)
  <2>4. Go!Status(Head(watcher[w].held), watcher[w].engine) \in Go!Events
    BY <1>1, <1>6, <2>1 DEF Go!Status, Go!Events
  <2> QED  BY <1>1, <1>2, <1>7, <2>3, <2>4, PostOne DEF Go!PostState, Go!KeepRest, Go!serverVars
<1>8. ASSUME NEW w \in 1 .. MaxWatchers, Go!MirrorNetmap(w)
      PROVE  GoTyped' /\ UNCHANGED queue
  <2>1. Go!NextPart(w, {"netmap"})
    BY <1>8 DEF Go!MirrorNetmap
  <2>2. watcher' = [watcher EXCEPT ![w].held = <<"publish">> \o Tail(@)]
    BY <1>8 DEF Go!MirrorNetmap
  <2>3. watcher' \in [1 .. MaxWatchers -> W]
    BY <1>1, <1>6, <2>1, <2>2, ZenonT(30)
  <2> QED  BY <1>1, <1>2, <1>8, <2>3 DEF Go!MirrorNetmap, Go!KeepRest, Go!serverVars, Go!Unposted
<1>9. ASSUME NEW w \in 1 .. MaxWatchers, Go!SchedulePublish(w)
      PROVE  GoTyped' /\ UNCHANGED queue
  <2>1. Go!NextPart(w, {"publish"})
    BY <1>9 DEF Go!SchedulePublish
  <2>2. watcher' = [watcher EXCEPT ![w].held = Tail(@)]
    BY <1>9 DEF Go!SchedulePublish
  <2>3. watcher' \in [1 .. MaxWatchers -> W]
    BY <1>1, <1>6, <2>1, <2>2, ZenonT(30)
  <2> QED  BY <1>1, <1>2, <1>9, <2>3 DEF Go!SchedulePublish, Go!KeepRest, Go!serverVars, Go!Unposted
<1>10. ASSUME NEW w \in 1 .. MaxWatchers, Go!Publish(w)
       PROVE  GoTyped' /\ (Pushes \/ UNCHANGED queue)
  <2>1. Go!Peers(watcher[w].engine) \in Go!Events
    BY <1>1 DEF Go!Peers, Go!Events
  <2> QED  BY <1>1, <1>2, <1>10, <2>1, PostOne
           DEF Go!Publish, Go!KeepRest, Go!serverVars, Go!Unposted
<1>11. ASSUME NEW w \in 1 .. MaxWatchers, Go!WatchBreaks(w)
       PROVE  GoTyped' /\ (Pushes \/ UNCHANGED queue)
  <2>1. Go!Error \in Go!Events /\ <<>> \in Seq(Seq(Go!Part))
    BY DEF Go!Events
  <2>2. watcher' = [watcher EXCEPT ![w].live = FALSE, ![w].bus = <<>>]
    BY <1>11 DEF Go!WatchBreaks
  <2>3. watcher' \in [1 .. MaxWatchers -> W]
    BY <1>1, <2>1, <2>2, ZenonT(30)
  <2> QED  BY <1>1, <1>2, <1>11, <2>1, <2>3, PostOne DEF Go!WatchBreaks, Go!KeepRest, Go!serverVars
<1> QED  BY <1>3, <1>4, <1>5, <1>7, <1>8, <1>9, <1>10, <1>11 DEF Go!Goroutine

-----------------------------------------------------------------------------
(* Steps of the main isolate.                                              *)

LayerStep == Rpc!Next \/ UNCHANGED Rpc!vars
Kept == LayerStep /\ GoTyped' /\ OpTyped' /\ Awaiting'

\* What the steps below need of the invariant.
LEMMA Typed ==
    ASSUME NodeInv
    PROVE  /\ call \in [Op -> Rpc!Calls] /\ queue \in Seq(Rpc!Command \cup Rpc!Push)
           /\ inbox \in Seq(Rpc!Response \cup Rpc!Push \cup Rpc!Notice)
           /\ GoTyped /\ OpTyped /\ Awaiting
           /\ DOMAIN op = Op /\ DOMAIN call = Op
<1>1. /\ Layer!Calls = Rpc!Calls /\ Layer!Command = Rpc!Command /\ Layer!Push = Rpc!Push
      /\ Layer!Response = Rpc!Response /\ Layer!Notice = Rpc!Notice
  BY DEF Layer!Calls, Rpc!Calls, Layer!Command, Rpc!Command, Layer!Push, Rpc!Push,
         Layer!Response, Rpc!Response, Layer!Notice, Rpc!Notice
<1> QED  BY <1>1 DEF NodeInv, Layer!RpcInv, Layer!RpcTypeOK, OpTyped

\* A lifecycle call makes its next request.
LEMMA OpAsks ==
    ASSUME NodeInv, NEW o \in Op, NEW what \in Requests, Rpc!Ask(o, what), MainOnly,
           call[o] = [at |-> "idle"] \/ call[o].at \in {"answered", "failed"},
           OpTyped', \A p \in Op \ {o} : op'[p] = op[p],
           op'[o].at \notin {"idle", "snapshot", "settle", "done", "failed"}
    PROVE  Kept
<1>1. LayerStep
  BY DEF LayerStep, Rpc!Next, Rpc!Asks, Rpc!GoesOn, Rpc!Idle
<1>2. GoTyped'
  BY DEF NodeInv, GoTyped, MainOnly, goVars, serverVars, watchVars
<1>3. \A p \in Op \ {o} : call'[p] = call[p]
  BY Typed DEF Rpc!Ask
<1>4. Awaiting'
  BY <1>3 DEF Awaiting, NodeInv
<1> QED  BY <1>1, <1>2, <1>4 DEF Kept

\* A lifecycle call takes what it got.
LEMMA OpTakes ==
    ASSUME NodeInv, NEW o \in Op, GoOn(o), MainOnly, call[o].at \in {"answered", "failed"},
           OpTyped', \A p \in Op \ {o} : op'[p] = op[p], op'[o].at # "snapshot"
    PROVE  Kept
<1>1. Rpc!Goes(o)
  BY DEF GoOn, Rpc!Goes
<1>2. LayerStep
  BY <1>1 DEF LayerStep, Rpc!Next
<1>3. GoTyped'
  BY DEF NodeInv, GoTyped, MainOnly, goVars, serverVars, watchVars
<1>4. call'[o] = [at |-> "idle"] /\ \A p \in Op \ {o} : call'[p] = call[p]
  BY Typed DEF GoOn, Rpc!Consume, Rpc!Idle
<1>5. Awaiting'
  BY <1>4 DEF Awaiting, NodeInv
<1> QED  BY <1>2, <1>3, <1>5 DEF Kept

\* One place is the next: the state of a call stays typed.
LEMMA OpMoves ==
    ASSUME OpTyped, NEW o \in Op, NEW at \in Places, op' = [op EXCEPT ![o].at = at]
    PROVE  /\ OpTyped' /\ op'[o].at = at /\ op'[o].kind = op[o].kind
           /\ \A p \in Op \ {o} : op'[p] = op[p]
BY DEF OpTyped

\* An up that saw no stable state at its one look at the status waits, and knows what
\* it knew.
LEMMA CheckSettles ==
    ASSUME OpTyped, NEW o \in Op, UpChecked(o), ~AskStatus(o, "final")
    PROVE  /\ ~SeesStable(o) /\ GoOn(o)
           /\ OpTyped' /\ op'[o].at = "settle" /\ op'[o].kind = op[o].kind
           /\ op'[o].last = op[o].last /\ op'[o].stable = op[o].stable
           /\ op'[o].early = op[o].early /\ \A p \in Op \ {o} : op'[p] = op[p]
<1> DEFINE e == op[o].early /\ ReplyTo(o).state \notin Stable
<1>1. ~SeesStable(o) /\ GoOn(o) /\ op' = [op EXCEPT ![o].at = "settle", ![o].early = e]
  BY DEF UpChecked
<1>2. op[o].early \in BOOLEAN
  BY DEF OpTyped
<1>3. e = op[o].early
  BY <1>1, <1>2 DEF SeesStable
<1> HIDE DEF e
<1>4. e \in BOOLEAN
  BY <1>2, <1>3
<1>5. OpTyped'
  BY <1>1, <1>4 DEF OpTyped, Places
<1> QED  BY <1>1, <1>3, <1>5 DEF OpTyped

\* The steps of a lifecycle call.
LEMMA OpKept ==
    ASSUME NodeInv, NEW o \in Op,
           CallUp(o) \/ SnapshotLoaded(o) \/ CallDown(o) \/ Continue(o) \/ UpTimesOut(o)
    PROVE  Kept
<1>1. /\ OpTyped /\ Awaiting /\ GoTyped /\ op[o].kind \in Requests \cup {Nothing}
      /\ call \in [Op -> Rpc!Calls]
  BY Typed DEF OpTyped
<1>2. Kinds[o] \subseteq UpKinds \cup {"down", "logout"} /\ UpKinds \subseteq Requests
  <2>1. Kinds \in Seq(SUBSET {"up", "upKey", "down", "logout"})
    BY NodeAssumption
  <2>2. Kinds[o] \in SUBSET {"up", "upKey", "down", "logout"}
    BY <2>1 DEF Op
  <2> QED  BY <2>2 DEF UpKinds, Requests
<1>3. /\ {"snapshot", "start", "check", "settle", "final", "last", "act", "done",
          "failed"} \subseteq Places
      /\ "status" \in Requests /\ "down" \in Requests /\ "logout" \in Requests
  BY DEF Places, Requests
<1>4. CASE CallUp(o)
  <2>1. PICK k \in UpKinds : op' = [op EXCEPT ![o].kind = k, ![o].at = "snapshot"]
    BY <1>4 DEF CallUp
  <2>2. /\ OpTyped' /\ op'[o].at = "snapshot" /\ op'[o].kind \in Requests
        /\ \A p \in Op \ {o} : op'[p] = op[p]
    <3>1. k \in Requests
      BY <1>2
    <3> QED  BY <1>1, <1>3, <2>1, <3>1, ZenonT(60) DEF OpTyped
  <2>3. op[o].at = "idle" /\ UNCHANGED <<rpcVars, queue, goVars>>
    BY <1>4 DEF CallUp, IsNext, MainOnly
  <2>4. LayerStep
    BY <2>3 DEF LayerStep, Rpc!vars, Rpc!mainVars, rpcVars
  <2>5. Awaiting'
    BY <1>1, <2>2, <2>3 DEF Awaiting, rpcVars
  <2>6. GoTyped'
    BY <1>1, <2>3 DEF GoTyped, goVars, serverVars, watchVars
  <2> QED  BY <2>2, <2>4, <2>5, <2>6 DEF Kept
<1>5. CASE SnapshotLoaded(o)
  <2>1. /\ op[o].at = "snapshot" /\ op' = [op EXCEPT ![o].at = "start"]
        /\ Rpc!Ask(o, op[o].kind) /\ MainOnly
    BY <1>5 DEF SnapshotLoaded
  <2>2. op[o].kind \in Requests /\ call[o] = [at |-> "idle"]
    BY <1>1, <2>1 DEF Awaiting
  <2> QED  BY <1>1, <1>3, <2>1, <2>2, OpMoves, OpAsks, ZenonT(60)
<1>6. CASE CallDown(o)
  <2>1. PICK k \in {"down", "logout"} :
          op' = [op EXCEPT ![o].kind = k, ![o].at = "act"] /\ Rpc!Ask(o, k)
    BY <1>2, <1>6 DEF CallDown
  <2>2. OpTyped' /\ op'[o].at = "act" /\ \A p \in Op \ {o} : op'[p] = op[p]
    BY <1>1, <1>3, <2>1, ZenonT(60) DEF OpTyped
  <2>3. call[o] = [at |-> "idle"] /\ MainOnly
    BY <1>1, <1>6 DEF CallDown, IsNext, Awaiting
  <2> QED  BY <1>3, <2>1, <2>2, <2>3, OpAsks
<1>7. ASSUME NEW at, Got(o, at)
      PROVE  /\ op[o].at = at /\ call[o].at = "answered"
             /\ ReplyTo(o).engine \in Go!Number
  <2>1. op[o].at = at /\ call[o].at = "answered"
    BY <1>7 DEF Got
  <2>2. call[o] \in Rpc!Calls
    BY <1>1
  <2>3. call[o].by \in Rpc!Response
    BY <2>1, <2>2 DEF Rpc!Calls
  <2> QED  BY <2>1, <2>3 DEF ReplyTo, Rpc!Response, Replies
<1>8. CASE UpStarted(o)
  <2>1. /\ Got(o, "start") /\ Rpc!Ask(o, "status") /\ MainOnly
        /\ op' = [op EXCEPT ![o].at = "check", ![o].engine = ReplyTo(o).engine]
    BY <1>8 DEF UpStarted
  <2>2. OpTyped' /\ op'[o].at = "check" /\ \A p \in Op \ {o} : op'[p] = op[p]
    BY <1>1, <1>3, <1>7, <2>1, ZenonT(60) DEF OpTyped
  <2> QED  BY <1>3, <1>7, <2>1, <2>2, OpAsks
<1>9. CASE UpChecked(o)
  <2>1. Got(o, "check") /\ MainOnly
    BY <1>9 DEF UpChecked
  <2>2. CASE AskStatus(o, "final")
    BY <1>1, <1>3, <1>7, <2>1, <2>2, OpMoves, OpAsks, ZenonT(60) DEF AskStatus
  <2>3. CASE ~AskStatus(o, "final")
    <3>1. /\ GoOn(o) /\ OpTyped' /\ op'[o].at = "settle"
          /\ \A p \in Op \ {o} : op'[p] = op[p]
      BY <1>1, <1>9, <2>3, CheckSettles
    <3> QED  BY <1>7, <2>1, <3>1, OpTakes
  <2> QED  BY <2>2, <2>3
<1>10. CASE UpSettled(o) \/ UpTimesOut(o)
  <2>1. /\ op[o].at = "settle" /\ MainOnly
        /\ AskStatus(o, "final") \/ AskStatus(o, "last")
    BY <1>10 DEF UpSettled, UpTimesOut, Resumable
  <2>2. call[o] = [at |-> "idle"]
    BY <1>1, <2>1 DEF Awaiting
  <2> QED  BY <1>1, <1>3, <2>1, <2>2, OpMoves, OpAsks DEF AskStatus
<1>11. CASE Returns(o) \/ Throws(o)
  <2>1. PICK at \in {"done", "failed"} :
          op' = [op EXCEPT ![o] = [NewOp EXCEPT !.kind = op[o].kind, !.at = at]]
    BY <1>11 DEF Returns, Throws
  <2>2. OpTyped' /\ op'[o].at # "snapshot" /\ \A p \in Op \ {o} : op'[p] = op[p]
    BY <1>1, <1>3, <2>1, Numbers DEF OpTyped, NewOp
  <2>3. call[o].at \in {"answered", "failed"} /\ GoOn(o) /\ MainOnly
    BY <1>7, <1>11 DEF Returns, Throws
  <2> QED  BY <2>2, <2>3, OpTakes
<1> QED  BY <1>4, <1>5, <1>6, <1>8, <1>9, <1>10, <1>11 DEF Continue

\* What is pushed is a push of the layer; its event has a type.
LEMMA PushedEvent ==
    ASSUME NodeInv, NEW type, NextPush(type)
    PROVE  /\ Rpc!HandlePush /\ Head(inbox).event \in Go!Events
           /\ Head(inbox).event.type = type
<1>1. Rpc!HandlePush /\ Head(inbox).kind = "push" /\ inbox # <<>> /\ Head(inbox).event.type = type
  BY DEF NextPush, Rpc!HandlePush, Rpc!NextMessage
<1>2. Head(inbox) \in Rpc!Response \cup Rpc!Push \cup Rpc!Notice
  BY Typed, <1>1, HeadTailProperties
<1>3. Head(inbox) \in Rpc!Push
  BY <1>1, <1>2 DEF Rpc!Response, Rpc!Notice
<1> QED  BY <1>1, <1>3 DEF Rpc!Push

\* What the main isolate is told, or finds out.
LEMMA MessageKept ==
    ASSUME NodeInv, HandleMessage \/ SpawnFails
    PROVE  Kept
<1>1. /\ GoTyped /\ OpTyped /\ Awaiting /\ DOMAIN op = Op /\ DOMAIN call = Op
  BY Typed
<1>2. ASSUME MainOnly  PROVE GoTyped'
  BY <1>1, <1>2 DEF GoTyped, MainOnly, goVars, serverVars, watchVars
<1>3. ASSUME UNCHANGED apiVars  PROVE OpTyped'
  BY <1>1, <1>3 DEF OpTyped, apiVars
<1>4. ASSUME UNCHANGED apiVars, \A o \in Op : call[o] = [at |-> "idle"] => call'[o] = call[o]
      PROVE  Awaiting'
  BY <1>1, <1>4 DEF Awaiting, apiVars
<1>5. ASSUME Rpc!HandlePush  PROVE LayerStep /\ UNCHANGED call
  BY <1>5 DEF LayerStep, Rpc!Next, Rpc!HandlePush, Rpc!mainVars
<1>6. CASE HandleStatus
  <2> DEFINE e == Head(inbox).event
  <2>1. NextPush("status") /\ MainOnly /\ op' = [o \in Op |-> Hears(o, e.state, e.engine)]
    BY <1>6 DEF HandleStatus
  <2>2. Rpc!HandlePush /\ e \in Go!Events /\ e.type = "status"
    BY <2>1, PushedEvent
  <2>3. e.state \in State /\ e.engine \in Go!Number
    BY <2>2 DEF Go!Events, Go!BackendState, Go!Error, State, Stable, Synthetic
  <2> HIDE DEF e
  <2>4. ASSUME NEW o \in Op
        PROVE  /\ op'[o].at = op[o].at /\ op'[o].kind = op[o].kind
               /\ op'[o] \in [kind : Requests \cup {Nothing}, at : Places, last : State \cup {Nothing},
                              early : BOOLEAN, stable : Stable \cup {Nothing}, engine : Go!Number, by : Go!Number]
    <3>1. op[o] \in [kind : Requests \cup {Nothing}, at : Places, last : State \cup {Nothing},
                     early : BOOLEAN, stable : Stable \cup {Nothing}, engine : Go!Number, by : Go!Number]
      BY <1>1 DEF OpTyped
    <3> DEFINE early == op[o].early \/ (op[o].at \in {"snapshot", "start"} /\ e.state = "Running")
    <3>2. \/ op'[o] = op[o]
          \/ op'[o] = [op[o] EXCEPT !.last = e.state, !.early = early]
          \/ /\ e.state \in Stable
             /\ op'[o] = [op[o] EXCEPT !.last = e.state, !.stable = e.state, !.by = e.engine]
      BY <2>1, ZenonT(30) DEF Hears
    <3>3. early \in BOOLEAN
      OBVIOUS
    <3> HIDE DEF early
    <3> QED  BY <2>3, <3>1, <3>2, <3>3
  <2>5. OpTyped'
    BY <2>1, <2>4 DEF OpTyped
  <2>6. Awaiting'
    BY <1>1, <1>5, <2>2, <2>4 DEF Awaiting
  <2> QED  BY <1>2, <1>5, <2>1, <2>2, <2>5, <2>6 DEF Kept
<1>7. CASE HandlePeers
  <2>1. Rpc!HandlePush /\ MainOnly /\ UNCHANGED op
    BY <1>7, PushedEvent DEF HandlePeers
  <2> QED  BY <1>1, <1>2, <1>5, <2>1 DEF Kept, OpTyped, Awaiting
<1>8. CASE HandleError
  <2>1. Rpc!HandlePush /\ MainOnly /\ UNCHANGED op
    BY <1>8, PushedEvent DEF HandleError, apiVars
  <2> QED  BY <1>1, <1>2, <1>5, <2>1 DEF Kept, OpTyped, Awaiting
<1>9. CASE HandleReady
  <2>1. Rpc!HandleReady /\ UNCHANGED apiVars /\ MainOnly
    BY <1>9 DEF HandleReady
  <2>2. \A o \in Op : call[o] = [at |-> "idle"] => call'[o] = call[o]
    BY <2>1 DEF Rpc!HandleReady
  <2>3. LayerStep
    BY <2>1 DEF LayerStep, Rpc!Next
  <2> QED  BY <1>2, <1>3, <1>4, <2>1, <2>2, <2>3 DEF Kept
<1>10. CASE HandleResponse
  <2>1. Rpc!HandleResponse /\ UNCHANGED apiVars /\ MainOnly
    BY <1>10 DEF HandleResponse
  <2>2. \A o \in Op : call[o] = [at |-> "idle"] => call'[o] = call[o]
    <3>1. CASE pending = <<>>
      BY <2>1, <3>1 DEF Rpc!HandleResponse
    <3>2. CASE pending # <<>>
      <4> DEFINE c == Head(pending).from
      <4>1. pending \in Seq(Layer!Completer) /\ Layer!Senders
        BY DEF NodeInv, Layer!RpcInv, Layer!RpcTypeOK
      <4>2. Head(pending) = pending[1] /\ 1 \in 1 .. Len(pending)
        BY <3>2, <4>1, HeadTailProperties
      <4>3. call[c].at = "sent"
        BY <4>1, <4>2 DEF Layer!Senders
      <4>4. \A o \in Op : o # c => call'[o] = call[o]
        BY <1>1, <2>1, <3>2 DEF Rpc!HandleResponse, Rpc!Oldest
      <4> QED  BY <4>3, <4>4
    <3> QED  BY <3>1, <3>2
  <2>3. LayerStep
    BY <2>1 DEF LayerStep, Rpc!Next
  <2> QED  BY <1>2, <1>3, <1>4, <2>1, <2>2, <2>3 DEF Kept
<1>11. CASE HandleBootFailure \/ HandleExit \/ SpawnFails
  <2>1. /\ Rpc!HandleBootFailure \/ Rpc!HandleExit \/ Rpc!SpawnFails
        /\ Go!StopUnheard /\ UNCHANGED <<step, apiVars>>
    BY <1>11 DEF HandleBootFailure, HandleExit, SpawnFails
  <2>2. Rpc!Dispose
    BY <2>1 DEF Rpc!HandleBootFailure, Rpc!HandleExit, Rpc!SpawnFails
  <2>3. \A o \in Op : call[o] = [at |-> "idle"] => call'[o] = call[o]
    BY <2>2 DEF Rpc!Dispose, Rpc!Ended
  <2>4. GoTyped'
    BY <1>1, <2>1, StopTyped DEF Go!StopUnheard
  <2>5. LayerStep
    BY <2>1 DEF LayerStep, Rpc!Next
  <2> QED  BY <1>3, <1>4, <2>1, <2>3, <2>4, <2>5 DEF Kept, apiVars
<1> QED  BY <1>6, <1>7, <1>8, <1>9, <1>10, <1>11 DEF HandleMessage

-----------------------------------------------------------------------------
(* Steps of the worker and of the runtime.                                 *)

\* They leave the lifecycle calls and their requests alone.
LEMMA CallsUntouched ==
    ASSUME NodeInv, UNCHANGED <<op, call>>
    PROVE  OpTyped' /\ Awaiting'
BY DEF NodeInv, OpTyped, Awaiting

\* A response of the worker, whatever was posted before it.
LEMMA Responding ==
    ASSUME NodeInv, NEW ok \in BOOLEAN, NEW state \in State \cup {Nothing},
           RespondWith(ok, state), GoTyped', Pushes \/ UNCHANGED queue
    PROVE  Kept
<1> DEFINE reply == [ok |-> ok, state |-> state, engine |-> engine']
<1>1. Rpc!Respond(reply) /\ UNCHANGED apiVars
  BY DEF RespondWith
<1>2. reply \in Replies
  BY DEF Replies, GoTyped
<1> HIDE DEF reply
<1>3. Rpc!Responds
  BY <1>1, <1>2 DEF Rpc!Responds, Pushes
<1>4. UNCHANGED <<op, call>>
  BY <1>1 DEF Rpc!Respond, Rpc!mainVars, apiVars
<1> QED  BY <1>3, <1>4, CallsUntouched DEF Kept, LayerStep, Rpc!Next

\* A push, or nothing the layer sees.
LEMMA Pushing ==
    ASSUME NodeInv, UNCHANGED <<rpcVars, apiVars>>, GoTyped', Pushes \/ UNCHANGED queue
    PROVE  Kept
<1>1. UNCHANGED <<op, call>>
  BY DEF apiVars, rpcVars
<1>2. LayerStep
  BY DEF LayerStep, Rpc!Next, Rpc!Pushed, Pushes, rpcVars, Rpc!vars, Rpc!mainVars
<1> QED  BY <1>1, <1>2, CallsUntouched DEF Kept

\* The steps of the worker isolate.
LEMMA WorkerKept ==
    ASSUME NodeInv, WorkerStep
    PROVE  Kept
<1>1. GoTyped /\ queue \in Seq(Rpc!Command \cup Rpc!Push)
  BY Typed
<1>2. CASE BootSucceeds \/ BootFails \/ Forward \/ Exit
  <2>1. /\ Rpc!BootSucceeds \/ Rpc!BootFails \/ Rpc!Forward \/ Rpc!Exit
        /\ UNCHANGED apiVars /\ UNCHANGED serverVars /\ UNCHANGED watchVars
    BY <1>2 DEF BootSucceeds, BootFails, Forward, Exit, MainOnly, goVars
  <2>2. UNCHANGED <<op, call>>
    BY <2>1 DEF apiVars, Rpc!BootSucceeds, Rpc!BootFails, Rpc!Forward, Rpc!Exit, Rpc!mainVars
  <2>3. GoTyped'
    BY <1>1, <2>1 DEF GoTyped, serverVars, watchVars
  <2>4. LayerStep
    BY <2>1 DEF LayerStep, Rpc!Next
  <2> QED  BY <2>2, <2>3, <2>4, CallsUntouched DEF Kept
<1>3. CASE Begin
  <2>1. /\ Rpc!Begin /\ UNCHANGED <<serverVars, apiVars>>
        /\ Go!StopWatch \/ UNCHANGED watchVars
    BY <1>3 DEF Begin
  <2>2. UNCHANGED <<op, call>>
    BY <2>1 DEF apiVars, Rpc!Begin, Rpc!mainVars
  <2>3. GoTyped'
    <3>1. CASE Go!StopWatch
      BY <1>1, <2>1, <3>1, CancelTyped DEF Go!StopWatch, GoTyped, serverVars
    <3>2. CASE UNCHANGED watchVars
      BY <1>1, <2>1, <3>2 DEF GoTyped, serverVars, watchVars
    <3> QED  BY <2>1, <3>1, <3>2
  <2>4. LayerStep
    BY <2>1 DEF LayerStep, Rpc!Next
  <2> QED  BY <2>2, <2>3, <2>4, CallsUntouched DEF Kept
<1>4. CASE Refuse \/ ReadStatus
  <2>1. UNCHANGED <<goVars, queue>> /\ (RespondWith(FALSE, Nothing) \/ RespondWith(TRUE, StatusNow))
    BY <1>4, ZenonT(30) DEF Refuse, ReadStatus
  <2>2. StatusNow \in State \cup {Nothing}
    BY <1>1 DEF StatusNow, GoTyped, Go!BackendState, State, Stable, Synthetic
  <2>3. GoTyped'
    BY <1>1, <2>1 DEF GoTyped, goVars, serverVars, watchVars
  <2> QED  BY <2>1, <2>2, <2>3, Responding
<1>5. CASE ExecStart
  BY <1>1, <1>5, CallsTyped, Pushing DEF ExecStart
<1>6. CASE ExecStartFails \/ ExecStartWatch \/ ExecWipe \/ ExecWipeFails
  BY <1>1, <1>6, CallsTyped, Responding DEF ExecStartFails, ExecStartWatch, ExecWipe, ExecWipeFails
<1>7. CASE ExecStop
  BY <1>1, <1>7, CallsTyped, Responding, Pushing DEF ExecStop
<1> QED  BY <1>2, <1>3, <1>4, <1>5, <1>6, <1>7 DEF WorkerStep, Execute

\* The steps of the node and of its goroutines.
LEMMA RuntimeKept ==
    ASSUME NodeInv, Runtime
    PROVE  Kept
<1>1. /\ \/ Go!NodeChanges \/ Go!TimerFires
         \/ \E w \in 1 .. MaxWatchers : Go!Goroutine(w) \/ Go!WatchBreaks(w)
      /\ UNCHANGED <<rpcVars, apiVars>>
  BY DEF Runtime, NodeChanges, TimerFires, Goroutine, WatchBreaks, RuntimeOnly
<1> QED  BY <1>1, Typed, RuntimeTyped, Pushing

-----------------------------------------------------------------------------
(* The results.                                                            *)

\* The invariant holds at the start.
LEMMA NodeStarts == Init => NodeInv
<1> SUFFICES ASSUME Init  PROVE NodeInv
  OBVIOUS
<1>1. Layer!RpcInv
  BY SameLayer, Layer!InvStarts DEF Init
<1>2. GoTyped
  <2>1. <<>> \in Seq(Seq(Go!Part)) /\ <<>> \in Seq(Go!Part)
    OBVIOUS
  <2> QED  BY <2>1, Numbers DEF Init, Go!GoInit, GoTyped, Go!BackendState, Go!Watcher
<1>3. OpTyped /\ Awaiting
  BY Numbers DEF Init, NewOp, OpTyped, Awaiting, Places, Rpc!Init, Rpc!Idle
<1> QED  BY <1>1, <1>2, <1>3 DEF NodeInv

\* Every step of the composition is one of the layer, or none of its business.
LEMMA NodeKept == NodeInv /\ [Next]_vars => LayerStep /\ NodeInv'
<1> SUFFICES ASSUME NodeInv, [Next]_vars  PROVE LayerStep /\ NodeInv'
  OBVIOUS
<1>1. Kept
  <2>1. CASE Main
    BY <2>1, OpKept, MessageKept DEF Main
  <2>2. CASE WorkerStep
    BY <2>2, WorkerKept
  <2>3. CASE Runtime
    BY <2>3, RuntimeKept
  <2>4. CASE UNCHANGED vars
    <3>1. UNCHANGED <<rpcVars, apiVars, queue>> /\ UNCHANGED goVars
      BY <2>4 DEF vars
    <3>2. GoTyped'
      BY <3>1 DEF NodeInv, GoTyped, goVars, serverVars, watchVars
    <3> QED  BY <3>1, <3>2, Pushing
  <2> QED  BY <2>1, <2>2, <2>3, <2>4 DEF Next
<1>2. [Layer!Next]_(Layer!vars)
  <2>1. UNCHANGED Rpc!vars => UNCHANGED Layer!vars
    BY DEF Layer!vars, Rpc!vars, Layer!mainVars, Rpc!mainVars
  <2> QED  BY <1>1, <2>1, SameLayer DEF Kept, LayerStep
<1>3. Layer!RpcInv'
  BY <1>2, Layer!InvKept DEF NodeInv
<1> QED  BY <1>1, <1>3 DEF Kept, NodeInv

\* The lifecycle of the node implements the RPC layer: whatever the application calls,
\* the node does and fails, the calls between main isolate and worker are those of
\* WorkerRpc.
THEOREM LayerImplemented == Spec => Rpc!Spec
<1>1. Init => Rpc!Init
  BY DEF Init
<1>2. NodeInv /\ [Next]_vars => [Rpc!Next]_(Rpc!vars)
  BY NodeKept DEF LayerStep
<1>3. Init => NodeInv
  BY NodeStarts
<1>4. NodeInv /\ [Next]_vars => NodeInv'
  BY NodeKept
<1> QED  BY <1>1, <1>2, <1>3, <1>4, PTL DEF Spec, Rpc!Spec

\* In the composition, of any size, a lifecycle call is never given the response to
\* another one's command.
THEOREM LifecycleAnswersMatch == Spec => []AnswersMatch
<1>1. Init => NodeInv
  BY NodeStarts
<1>2. NodeInv /\ [Next]_vars => NodeInv'
  BY NodeKept
<1>3. NodeInv => AnswersMatch
  BY SameLayer DEF NodeInv, Layer!RpcInv
<1> QED  BY <1>1, <1>2, <1>3, PTL DEF Spec

\* In the composition, of any size, no lifecycle call is left behind by the end of the
\* worker.
THEOREM NoCallForgotten == Spec => []NobodyForgotten
<1>1. Init => NodeInv
  BY NodeStarts
<1>2. NodeInv /\ [Next]_vars => NodeInv'
  BY NodeKept
<1>3. NodeInv => NobodyForgotten
  BY SameLayer DEF NodeInv, Layer!RpcInv
<1> QED  BY <1>1, <1>2, <1>3, PTL DEF Spec

-----------------------------------------------------------------------------
(* The identity cache.  Whoever stopped the watcher in between, the only   *)
(* one that is not cancelled follows the server that runs.                 *)

Unstarted(w) == ~watcher[w].live /\ watcher[w].bus = <<>> /\ watcher[w].held = <<>>

Follows(w) == w = watchCancel /\ watcher[w].engine = engine

\* Of the watchers that were started all but the last are cancelled, and it watches
\* the server.
OneFollows ==
    \A w \in 1 .. MaxWatchers :
        IF w <= watchers THEN w \in cancelled \/ Follows(w) ELSE Unstarted(w)

\* A server is started, and watched, only when no watcher is left.
StartsUnwatched == step \in {"start", "startWatch"} => watchCancel = 0

CacheInv == watchers \in Nat /\ CacheIsCurrent /\ OneFollows /\ StartsUnwatched

\* What neither touches the watchers nor begins a start.
LEMMA CacheUntouched ==
    ASSUME CacheInv, UNCHANGED <<engine, watchVars>>,
           step' \in {"start", "startWatch"} => step \in {"start", "startWatch"}
    PROVE  CacheInv'
BY DEF CacheInv, watchVars, CacheIsCurrent, OneFollows, Follows, Unstarted, StartsUnwatched

\* After StopWatch every watcher is cancelled, whatever becomes of the server.
LEMMA CacheStopped ==
    ASSUME CacheInv, GoTyped, Go!StopWatch
    PROVE  CacheInv'
<1>1. /\ cache' = 0 /\ watchCancel' = 0 /\ watchers' = watchers
      /\ cancelled' = IF watchCancel = 0 THEN cancelled ELSE cancelled \cup {watchCancel}
      /\ watcher' = IF watchCancel = 0 THEN watcher ELSE [watcher EXCEPT ![watchCancel].bus = <<>>]
  BY DEF Go!StopWatch, Go!Cancel
<1>2. ASSUME NEW w \in 1 .. MaxWatchers
      PROVE  IF w <= watchers THEN w \in cancelled' ELSE Unstarted(w)'
  <2>1. CASE w <= watchers
    BY <1>1, <2>1 DEF CacheInv, OneFollows, Follows
  <2>2. CASE ~(w <= watchers)
    <3>1. Unstarted(w)
      BY <2>2 DEF CacheInv, OneFollows
    <3>2. watcher'[w].live = watcher[w].live /\ watcher'[w].held = watcher[w].held
      BY <1>1 DEF GoTyped
    <3>3. watcher'[w].bus = watcher[w].bus \/ watcher'[w].bus = <<>>
      BY <1>1 DEF GoTyped
    <3> QED  BY <2>2, <3>1, <3>2, <3>3 DEF Unstarted
  <2> QED  BY <2>1, <2>2
<1> QED  BY <1>1, <1>2 DEF CacheInv, CacheIsCurrent, OneFollows, StartsUnwatched

\* The watcher of a started server is the only one that is not cancelled.
LEMMA CacheWatched ==
    ASSUME CacheInv, GoTyped, step = "startWatch", step' = "none",
           Go!StartWatch \/ Go!StartWatchFails
    PROVE  CacheInv'
<1>1. watchCancel = 0 /\ cache = 0 /\ watchers \in Nat
  BY DEF CacheInv, CacheIsCurrent, StartsUnwatched
<1>2. \A w \in 1 .. MaxWatchers : IF w <= watchers THEN w \in cancelled ELSE Unstarted(w)
  BY <1>1 DEF CacheInv, OneFollows, Follows
<1>3. CASE engine = 0
  <2>1. UNCHANGED <<engine, watchVars>>
    BY <1>3 DEF Go!StartWatch, Go!StartWatchFails, Go!goVars, Go!serverVars, Go!watchVars, watchVars
  <2> QED  BY <2>1, CacheUntouched
<1>4. CASE engine # 0 /\ Go!StartWatch
  <2> DEFINE first == IF nodeState = "Running" THEN <<nodeState, "netmap">> ELSE <<nodeState>>
  <2>1. /\ watchers' = watchers + 1 /\ watchCancel' = watchers + 1
        /\ watcher' = [watcher EXCEPT ![watchers + 1] =
              [live |-> TRUE, engine |-> engine, bus |-> <<first>>, held |-> <<>>]]
        /\ UNCHANGED <<engine, cache, cancelled>>
    BY <1>4 DEF Go!StartWatch, Go!serverVars
  <2> HIDE DEF first
  <2>2. ASSUME NEW w \in 1 .. MaxWatchers
        PROVE  IF w <= watchers' THEN w \in cancelled' \/ Follows(w)' ELSE Unstarted(w)'
    <3>1. CASE w = watchers + 1
      <4>1. watcher'[w].engine = engine
        BY <2>1, <3>1 DEF GoTyped
      <4> QED  BY <1>1, <2>1, <3>1, <4>1 DEF Follows
    <3>2. CASE w # watchers + 1
      <4>1. watcher'[w] = watcher[w]
        BY <2>1, <3>2 DEF GoTyped
      <4>2. w <= watchers' <=> w <= watchers
        BY <1>1, <2>1, <3>2
      <4> QED  BY <1>2, <2>1, <4>1, <4>2 DEF Unstarted
    <3> QED  BY <3>1, <3>2
  <2> QED  BY <1>1, <2>1, <2>2 DEF CacheInv, CacheIsCurrent, OneFollows, StartsUnwatched
<1>5. CASE engine # 0 /\ Go!StartWatchFails
  <2>1. /\ watchers' = watchers + 1 /\ cancelled' = cancelled \cup {watchers + 1}
        /\ UNCHANGED <<engine, cache, watcher>>
    BY <1>5 DEF Go!StartWatchFails, Go!serverVars
  <2>2. ASSUME NEW w \in 1 .. MaxWatchers
        PROVE  IF w <= watchers' THEN w \in cancelled' ELSE Unstarted(w)'
    BY <1>1, <1>2, <2>1 DEF Unstarted
  <2> QED  BY <1>1, <2>1, <2>2 DEF CacheInv, CacheIsCurrent, OneFollows, StartsUnwatched
<1> QED  BY <1>3, <1>4, <1>5

\* The goroutines: what a watcher holds it was given after its start, so the one that
\* may mirror a netmap is the one that follows the server.
LEMMA CacheRuns ==
    ASSUME CacheInv, GoTyped, Runtime
    PROVE  CacheInv'
<1>1. /\ watchers \in Nat /\ step' = step /\ engine' = engine
      /\ UNCHANGED <<watchers, cancelled, watchCancel>>
  BY DEF CacheInv, Runtime, NodeChanges, Goroutine, WatchBreaks, TimerFires, RuntimeOnly,
         Go!NodeChanges, Go!Goroutine, Go!WatchBreaks, Go!TimerFires, Go!TakeNotification,
         Go!PostState, Go!MirrorNetmap, Go!SchedulePublish, Go!Publish, Go!KeepRest, Go!serverVars
<1>2. ASSUME \A w \in 1 .. MaxWatchers :
               /\ watcher'[w].engine = watcher[w].engine
               /\ w <= watchers \/ Unstarted(w)',
             CacheIsCurrent'
      PROVE  CacheInv'
  BY <1>1, <1>2 DEF CacheInv, OneFollows, Follows, StartsUnwatched
<1>3. cache' = cache => CacheIsCurrent'
  BY <1>1 DEF CacheInv, CacheIsCurrent
<1>4. \A w \in 1 .. MaxWatchers : w <= watchers \/ Unstarted(w)
  BY DEF CacheInv, OneFollows
<1>5. CASE NodeChanges
  <2>1. PICK parts : Go!Notify(parts)
    BY <1>5 DEF NodeChanges, Go!NodeChanges
  <2>2. \A w \in 1 .. MaxWatchers :
          watcher'[w] = IF Go!Watching(w) /\ watcher[w].engine = engine
                        THEN [watcher[w] EXCEPT !.bus = Append(@, parts)] ELSE watcher[w]
    BY <2>1 DEF Go!Notify, Go!Watcher
  <2>3. ASSUME NEW w \in 1 .. MaxWatchers
        PROVE  watcher'[w].engine = watcher[w].engine /\ (w <= watchers \/ Unstarted(w)')
    <3>1. watcher[w] \in [live : BOOLEAN, engine : Go!Number, bus : Seq(Seq(Go!Part)), held : Seq(Go!Part)]
      BY DEF GoTyped
    <3>2. watcher'[w].engine = watcher[w].engine
      BY <2>2, <3>1
    <3>3. Unstarted(w) => watcher'[w] = watcher[w]
      BY <2>2 DEF Unstarted, Go!Watching
    <3> QED  BY <1>4, <3>2, <3>3 DEF Unstarted
  <2>4. cache' = cache
    BY <1>5 DEF NodeChanges, Go!NodeChanges
  <2> QED  BY <1>2, <1>3, <2>3, <2>4
<1>6. CASE TimerFires
  <2>1. UNCHANGED <<watcher, cache>>
    BY <1>6 DEF TimerFires, Go!TimerFires
  <2> QED  BY <1>2, <1>3, <1>4, <2>1 DEF Unstarted
<1>7. ASSUME NEW v \in 1 .. MaxWatchers, Go!Goroutine(v) \/ Go!WatchBreaks(v)
      PROVE  CacheInv'
  <2> DEFINE W == [live : BOOLEAN, engine : Go!Number, bus : Seq(Seq(Go!Part)), held : Seq(Go!Part)]
  <2>1. watcher \in [1 .. MaxWatchers -> W] /\ watcher[v] \in W
    BY DEF GoTyped
  <2>2. \/ watcher' = watcher
        \/ /\ Unstarted(v) => FALSE
           /\ \A w \in 1 .. MaxWatchers \ {v} : watcher'[w] = watcher[w]
           /\ watcher'[v].engine = watcher[v].engine
    <3>1. CASE Go!TakeNotification(v)
      BY <2>1, <3>1 DEF Go!TakeNotification, Unstarted
    <3>2. CASE Go!PostState(v)
      BY <2>1, <3>2 DEF Go!PostState, Go!NextPart, Unstarted
    <3>3. CASE Go!MirrorNetmap(v)
      BY <2>1, <3>3 DEF Go!MirrorNetmap, Go!NextPart, Unstarted
    <3>4. CASE Go!SchedulePublish(v)
      BY <2>1, <3>4 DEF Go!SchedulePublish, Go!NextPart, Unstarted
    <3>5. CASE Go!Publish(v)
      BY <3>5 DEF Go!Publish
    <3>6. CASE Go!WatchBreaks(v)
      BY <2>1, <3>6 DEF Go!WatchBreaks, Go!Watching, Unstarted
    <3> QED  BY <1>7, <3>1, <3>2, <3>3, <3>4, <3>5, <3>6 DEF Go!Goroutine
  <2>3. \A w \in 1 .. MaxWatchers :
          watcher'[w].engine = watcher[w].engine /\ (w <= watchers \/ Unstarted(w)')
    BY <1>4, <2>2 DEF Unstarted
  <2>4. CacheIsCurrent'
    <3>1. CASE Go!MirrorNetmap(v) /\ v \notin cancelled
      <4>1. cache' = watcher[v].engine /\ watcher[v].held # <<>>
        BY <3>1 DEF Go!MirrorNetmap, Go!MayMirror, Go!NextPart
      <4>2. Follows(v)
        BY <1>4, <3>1, <4>1 DEF CacheInv, OneFollows, Unstarted
      <4> QED  BY <1>1, <3>1, <4>1, <4>2 DEF CacheIsCurrent, Follows
    <3>2. CASE ~(Go!MirrorNetmap(v) /\ v \notin cancelled)
      BY <1>3, <1>7, <3>2 DEF Go!Goroutine, Go!TakeNotification, Go!PostState, Go!MirrorNetmap,
           Go!MayMirror, Go!SchedulePublish, Go!Publish, Go!WatchBreaks
    <3> QED  BY <3>1, <3>2
  <2> QED  BY <1>2, <2>3, <2>4
<1> QED  BY <1>5, <1>6, <1>7 DEF Runtime, Goroutine, WatchBreaks

\* The invariant of the cache is kept.
LEMMA CacheKept ==
    ASSUME CacheInv, GoTyped, [Next]_vars
    PROVE  CacheInv'
<1>1. CASE Main
  <2>1. CASE HandleBootFailure \/ HandleExit \/ SpawnFails
    BY <2>1, CacheStopped DEF HandleBootFailure, HandleExit, SpawnFails, Go!StopUnheard, Go!StopLocked
  <2>2. CASE ~(HandleBootFailure \/ HandleExit \/ SpawnFails)
    <3>1. MainOnly
      BY <1>1, <2>2 DEF Main, HandleMessage, Continue, CallUp, SnapshotLoaded, CallDown, UpStarted,
           UpChecked, UpSettled, UpTimesOut, Returns, Throws, HandleStatus, HandlePeers, HandleError,
           HandleReady, HandleResponse
    <3> QED  BY <3>1, CacheUntouched DEF MainOnly, goVars, serverVars
  <2> QED  BY <2>1, <2>2
<1>2. CASE Runtime
  BY <1>2, CacheRuns
<1>3. CASE UNCHANGED vars
  BY <1>3, CacheUntouched DEF vars, goVars, serverVars
<1>4. CASE BootSucceeds \/ BootFails \/ Forward \/ Exit
  BY <1>4, CacheUntouched DEF BootSucceeds, BootFails, Forward, Exit, MainOnly, goVars, serverVars
<1>5. CASE Begin
  <2>1. CASE Go!StopWatch
    BY <2>1, CacheStopped
  <2>2. CASE ~Go!StopWatch
    <3>1. UNCHANGED <<engine, watchVars>> /\ step' \in {"read", "refuse"}
      BY <1>5, <2>2 DEF Begin, serverVars
    <3> QED  BY <3>1, CacheUntouched
  <2> QED  BY <2>1, <2>2
<1>6. CASE Execute
  <2>1. CASE Refuse \/ ReadStatus
    BY <2>1, CacheUntouched DEF Refuse, ReadStatus, RespondWith, goVars, serverVars
  <2>2. CASE ExecStart
    <3>1. CASE Go!StartKeeps
      BY <2>2, <3>1, CacheUntouched DEF ExecStart, At, Go!StartKeeps, Go!serverVars, Go!watchVars, watchVars
    <3>2. CASE Go!StartSucceeds
      BY <3>2, CacheStopped DEF Go!StartSucceeds
    <3> QED  BY <2>2, <3>1, <3>2 DEF ExecStart
  <2>3. CASE ExecStartFails
    BY <2>3, CacheStopped DEF ExecStartFails, Go!StartFails, Go!StopLocked
  <2>4. CASE ExecStartWatch
    BY <2>4, CacheWatched DEF ExecStartWatch, At, RespondWith
  <2>5. CASE ExecStop
    BY <2>5, CacheStopped DEF ExecStop, Go!Stop, Go!StopLocked
  <2>6. CASE ExecWipe \/ ExecWipeFails
    BY <2>6, CacheUntouched DEF ExecWipe, ExecWipeFails, Go!Wipe, Go!WipeFails, RespondWith,
         Go!watchVars, watchVars
  <2> QED  BY <1>6, <2>1, <2>2, <2>3, <2>4, <2>5, <2>6 DEF Execute
<1> QED  BY <1>1, <1>2, <1>3, <1>4, <1>5, <1>6 DEF Next, WorkerStep

\* At first there is no watcher.
LEMMA CacheStarts == Init => CacheInv
<1> SUFFICES ASSUME Init  PROVE CacheInv
  OBVIOUS
<1>1. \A w \in 1 .. MaxWatchers : Unstarted(w)
  BY DEF Init, Go!GoInit, Go!Watcher, Unstarted
<1> QED  BY <1>1 DEF Init, Go!GoInit, CacheInv, CacheIsCurrent, OneFollows, StartsUnwatched

\* For any number of watchers, notifications and lifecycle calls: the identity cache
\* is warm only with the netmap of the server that runs, and only while its watcher was
\* not told to stop, however late the goroutines of earlier watchers run.
THEOREM CacheCorrect == Spec => []CacheIsCurrent
<1>1. Init => NodeInv /\ CacheInv
  BY NodeStarts, CacheStarts
<1>2. NodeInv /\ CacheInv /\ [Next]_vars => (NodeInv /\ CacheInv)'
  BY NodeKept, CacheKept DEF NodeInv
<1>3. CacheInv => CacheIsCurrent
  BY DEF CacheInv
<1> QED  BY <1>1, <1>2, <1>3, PTL DEF Spec

-----------------------------------------------------------------------------
(* The logout.  That it lasts is a fact about every command that may start *)
(* the node again, wherever it is: a start without a key finds no stored   *)
(* session, and a start with one is the command of a call with one.        *)

\* What a lifecycle call of a kind asks the worker for.
Fits(kind, what) == IF what = "status" THEN kind \in UpKinds ELSE kind = what

QueueFits ==
    \A i \in 1 .. Len(queue) :
        queue[i].kind = "command" => Fits(op[queue[i].from].kind, queue[i].what)

ExecutingFits ==
    \A i \in 1 .. Len(executing) : Fits(op[executing[i].from].kind, executing[i].what)

WaitingFits ==
    \A o \in Op : call[o].at = "waiting" => Fits(op[o].kind, call[o].what)

\* Only a call that was made is responded to.
ResponsesFit ==
    \A i \in 1 .. Len(inbox) : inbox[i].kind = "response" => op[inbox[i].to].kind # Nothing

PlacesFit ==
    \A o \in Op :
        /\ op[o].at = "idle" => op[o].kind = Nothing
        /\ op[o].at \in {"snapshot", "start", "check", "settle", "final", "last"} =>
             op[o].kind \in UpKinds

\* Where the worker stands in a command tells which one it is.
StepsFit ==
    executing # <<>> =>
        /\ step = "read" => Doing = "status"
        /\ step \in {"start", "startWatch"} => Doing \in UpKinds
        /\ step = "stop" => Doing \in {"down", "logout"}
        /\ step = "wipe" => Doing = "logout" /\ engine = 0

NoKey == \A o \in Op : op[o].kind # "upKey"
Gone == engine = 0 /\ stored = FALSE /\ step # "start"

\* The worker has done what the call asked for, whether the call knows it yet or not.
InInbox(o) ==
    \E i \in 1 .. Len(inbox) :
        inbox[i].kind = "response" /\ inbox[i].to = o /\ inbox[i].reply.ok
Accepted(o) ==
    \/ InInbox(o)
    \/ call[o].at = "answered" /\ call[o].by.reply.ok
    \/ op[o].at = "done"

Lasting == \A o \in Op : op[o].kind = "logout" /\ Accepted(o) /\ NoKey => Gone

LogoutInv ==
    /\ stored \in BOOLEAN
    /\ QueueFits /\ ExecutingFits /\ WaitingFits /\ ResponsesFit /\ PlacesFit /\ StepsFit
    /\ Lasting

\* The kind of a call, once it is made, is its kind for ever.
KindsKept == \A o \in Op : op[o].kind = Nothing \/ op'[o].kind = op[o].kind

\* What fits a call fits it from then on.
LEMMA FitsKept ==
    ASSUME KindsKept, NEW o \in Op, NEW what \in Requests, Fits(op[o].kind, what)
    PROVE  op[o].kind # Nothing /\ Fits(op'[o].kind, what)
BY DEF KindsKept, Fits, Requests, UpKinds, Nothing

\* The commands, responses and callers that are there.
LEMMA LogoutTyped ==
    ASSUME NodeInv
    PROVE  /\ executing \in Seq(Rpc!Command) /\ Len(executing) <= 1 /\ Len(executing) \in Nat
           /\ waiting \in Seq(Op) /\ Len(waiting) \in Nat /\ DOMAIN waiting = 1 .. Len(waiting)
           /\ Len(queue) \in Nat /\ Len(inbox) \in Nat
           /\ \A i \in 1 .. Len(queue) : queue[i].kind = "command" => queue[i] \in Rpc!Command
           /\ \A i \in 1 .. Len(executing) : executing[i] \in Rpc!Command
           /\ \A i \in 1 .. Len(inbox) : inbox[i].kind = "response" => inbox[i] \in Rpc!Response
           /\ \A o \in Op : call[o].at = "waiting" => call[o].what \in Requests
           /\ \A o \in Op : call[o].at = "answered" => call[o].by.to = o
           /\ \A i \in 1 .. Len(waiting) : call[waiting[i]].at = "waiting"
<1>1. /\ Layer!Command = Rpc!Command /\ Layer!Push = Rpc!Push
      /\ Layer!Response = Rpc!Response
  BY DEF Layer!Command, Rpc!Command, Layer!Push, Rpc!Push, Layer!Response, Rpc!Response
<1>2. /\ executing \in Seq(Rpc!Command) /\ Len(executing) <= 1 /\ waiting \in Seq(Op)
  BY <1>1 DEF NodeInv, Layer!RpcInv, Layer!RpcTypeOK
<1>3. /\ call \in [Op -> Rpc!Calls] /\ queue \in Seq(Rpc!Command \cup Rpc!Push)
      /\ inbox \in Seq(Rpc!Response \cup Rpc!Push \cup Rpc!Notice)
  BY Typed
<1>4. /\ Len(executing) \in Nat /\ Len(waiting) \in Nat /\ DOMAIN waiting = 1 .. Len(waiting)
      /\ Len(queue) \in Nat /\ Len(inbox) \in Nat
      /\ \A i \in 1 .. Len(executing) : executing[i] \in Rpc!Command
  BY <1>2, <1>3
<1>5. ASSUME NEW i \in 1 .. Len(queue), queue[i].kind = "command"
      PROVE  queue[i] \in Rpc!Command
  <2>1. queue[i] \in Rpc!Command \cup Rpc!Push
    BY <1>3
  <2> QED  BY <1>5, <2>1 DEF Rpc!Push
<1>6. ASSUME NEW i \in 1 .. Len(inbox), inbox[i].kind = "response"
      PROVE  inbox[i] \in Rpc!Response
  <2>1. inbox[i] \in Rpc!Response \cup Rpc!Push \cup Rpc!Notice
    BY <1>3
  <2> QED  BY <1>6, <2>1 DEF Rpc!Push, Rpc!Notice
<1>7. ASSUME NEW o \in Op, call[o].at = "waiting"
      PROVE  call[o].what \in Requests
  <2>1. call[o] \in Rpc!Calls
    BY <1>3
  <2> QED  BY <1>7, <2>1 DEF Rpc!Calls
<1>8. /\ \A o \in Op : call[o].at = "answered" => call[o].by.to = o
      /\ \A i \in 1 .. Len(waiting) : call[waiting[i]].at = "waiting"
  BY DEF NodeInv, Layer!RpcInv, Layer!AnswersMatch, Layer!Waiters
<1> QED  BY <1>2, <1>4, <1>5, <1>6, <1>7, <1>8

\* A step that adds only commands that fit keeps the queue fitting.
LEMMA QueueKept ==
    ASSUME NodeInv, LogoutInv, KindsKept,
           \A i \in 1 .. Len(queue') : queue'[i].kind = "command" =>
               \/ \E j \in 1 .. Len(queue) : queue'[i] = queue[j]
               \/ Fits(op'[queue'[i].from].kind, queue'[i].what)
    PROVE  QueueFits'
<1> SUFFICES ASSUME NEW i \in 1 .. Len(queue'), queue'[i].kind = "command"
             PROVE  Fits(op'[queue'[i].from].kind, queue'[i].what)
  BY DEF QueueFits
<1>1. CASE \E j \in 1 .. Len(queue) : queue'[i] = queue[j]
  <2>1. PICK j \in 1 .. Len(queue) : queue'[i] = queue[j]
    BY <1>1
  <2>2. queue[j] \in Rpc!Command /\ Fits(op[queue[j].from].kind, queue[j].what)
    BY <2>1, LogoutTyped DEF LogoutInv, QueueFits
  <2>3. queue[j].from \in Op /\ queue[j].what \in Requests
    BY <2>2 DEF Rpc!Command
  <2> QED  BY <2>1, <2>2, <2>3, FitsKept
<1> QED  BY <1>1

\* A step that adds only responses to calls that were made keeps the inbox fitting.
LEMMA InboxKept ==
    ASSUME NodeInv, LogoutInv, KindsKept,
           \A i \in 1 .. Len(inbox') : inbox'[i].kind = "response" =>
               \/ \E j \in 1 .. Len(inbox) : inbox'[i] = inbox[j]
               \/ op'[inbox'[i].to].kind # Nothing
    PROVE  ResponsesFit'
<1> SUFFICES ASSUME NEW i \in 1 .. Len(inbox'), inbox'[i].kind = "response"
             PROVE  op'[inbox'[i].to].kind # Nothing
  BY DEF ResponsesFit
<1>1. CASE \E j \in 1 .. Len(inbox) : inbox'[i] = inbox[j]
  <2>1. PICK j \in 1 .. Len(inbox) : inbox'[i] = inbox[j]
    BY <1>1
  <2>2. inbox[j].to \in Op /\ op[inbox[j].to].kind # Nothing
    BY <2>1, LogoutTyped DEF LogoutInv, ResponsesFit, Rpc!Response
  <2> QED  BY <2>1, <2>2 DEF KindsKept
<1> QED  BY <1>1

\* The callers that wait for the port, when none is added that does not fit.
LEMMA WaitingKept ==
    ASSUME NodeInv, LogoutInv, KindsKept,
           \A o \in Op : call'[o].at = "waiting" =>
               call'[o] = call[o] \/ Fits(op'[o].kind, call'[o].what)
    PROVE  WaitingFits'
<1> SUFFICES ASSUME NEW o \in Op, call'[o].at = "waiting"
             PROVE  Fits(op'[o].kind, call'[o].what)
  BY DEF WaitingFits
<1>1. CASE call'[o] = call[o]
  <2>1. call[o].what \in Requests /\ Fits(op[o].kind, call[o].what)
    BY <1>1, LogoutTyped DEF LogoutInv, WaitingFits
  <2> QED  BY <1>1, <2>1, FitsKept
<1> QED  BY <1>1

\* The command under execution, when there is no other.
LEMMA ExecutingKept ==
    ASSUME NodeInv, LogoutInv, KindsKept, executing' \in {executing, <<>>}
    PROVE  ExecutingFits'
<1>1. CASE executing' = <<>>
  BY <1>1 DEF ExecutingFits
<1>2. CASE executing' = executing
  <2> SUFFICES ASSUME NEW i \in 1 .. Len(executing)
               PROVE  Fits(op'[executing[i].from].kind, executing[i].what)
    BY <1>2 DEF ExecutingFits
  <2>1. executing[i].from \in Op /\ executing[i].what \in Requests
    BY LogoutTyped DEF Rpc!Command
  <2>2. Fits(op[executing[i].from].kind, executing[i].what)
    BY DEF LogoutInv, ExecutingFits
  <2> QED  BY <2>1, <2>2, FitsKept
<1> QED  BY <1>1, <1>2

\* A logout that lasted lasts, when no further one is accepted and the node stays gone.
LEMMA LastingKept ==
    ASSUME LogoutInv, KindsKept, NoKey' /\ Gone => Gone',
           \A o \in Op : op'[o].kind = "logout" /\ Accepted(o)' =>
               op[o].kind = "logout" /\ Accepted(o)
    PROVE  Lasting'
<1>1. NoKey' => NoKey
  BY DEF NoKey, KindsKept, Nothing
<1> QED  BY <1>1 DEF LogoutInv, Lasting

\* A call is accepted by what its inbox holds, its call got, or its place.
LEMMA AcceptedBefore ==
    ASSUME NEW o \in Op,
           \A i \in 1 .. Len(inbox') : inbox'[i].kind = "response" =>
               \E j \in 1 .. Len(inbox) : inbox'[i] = inbox[j],
           call'[o].at = "answered" => call'[o] = call[o],
           op'[o].at = "done" => Accepted(o),
           Accepted(o)'
    PROVE  Accepted(o)
<1>1. InInbox(o)' => InInbox(o)
  BY DEF InInbox
<1>2. call'[o].at = "answered" /\ call'[o].by.reply.ok => call[o].at = "answered" /\ call[o].by.reply.ok
  OBVIOUS
<1> QED  BY <1>1, <1>2 DEF Accepted

\* What Send adds to the queue: the command of each request.
LEMMA SendAdds ==
    ASSUME NodeInv, NEW s \in Seq([c : Op, what : Requests]), Rpc!Send(s)
    PROVE  /\ \A i \in DOMAIN queue : i \in DOMAIN queue' /\ queue'[i] = queue[i]
           /\ \A i \in 1 .. Len(queue') :
               \/ \E j \in 1 .. Len(queue) : queue'[i] = queue[j]
               \/ \E j \in 1 .. Len(s) : queue'[i].from = s[j].c /\ queue'[i].what = s[j].what
<1> DEFINE cs == [i \in DOMAIN s |->
                     [kind |-> "command", from |-> s[i].c, n |-> sent + i, what |-> s[i].what]]
<1>1. Len(s) \in Nat /\ DOMAIN s = 1 .. Len(s) /\ queue \in Seq(Rpc!Command \cup Rpc!Push)
  BY Typed
<1>2. \A i \in 1 .. Len(s) : cs[i].from = s[i].c /\ cs[i].what = s[i].what
  BY <1>1
<1>3. \E S : cs \in [1 .. Len(s) -> S]
  <2>1. cs \in [1 .. Len(s) -> {cs[i] : i \in 1 .. Len(s)}]
    BY <1>1
  <2> QED  BY <2>1
<1>4. queue' = queue \/ queue' = queue \o cs
  BY DEF Rpc!Send
<1> HIDE DEF cs
<1>5. PICK S : cs \in [1 .. Len(s) -> S]
  BY <1>3
<1>6. cs \in Seq(S) /\ Len(cs) = Len(s)
  BY <1>1, <1>5, Layer!FunctionIsSequence
<1>7. CASE queue' = queue \o cs
  <2> DEFINE T == S \cup Rpc!Command \cup Rpc!Push
  <2>1. queue \in Seq(T) /\ cs \in Seq(T)
    BY <1>1, <1>6
  <2> HIDE DEF T
  <2>2. Len(queue) \in Nat /\ Len(queue') = Len(queue) + Len(s) /\ DOMAIN queue' = 1 .. Len(queue')
    <3>1. Len(queue') = Len(queue) + Len(cs)
      BY <1>7, <2>1, ConcatProperties
    <3> QED  BY <1>6, <1>7, <2>1, <3>1
  <2>3. \A i \in 1 .. Len(queue) : queue'[i] = queue[i] /\ i \in 1 .. Len(queue')
    BY <1>1, <1>7, <2>1, <2>2
  <2>4. ASSUME NEW i \in 1 .. Len(queue')
        PROVE  \/ \E j \in 1 .. Len(queue) : queue'[i] = queue[j]
               \/ \E j \in 1 .. Len(s) : queue'[i] = cs[j]
    <3>1. CASE i <= Len(queue)
      BY <2>2, <2>3, <3>1
    <3>2. CASE ~(i <= Len(queue))
      <4>1. queue'[i] = cs[i - Len(queue)] /\ i - Len(queue) \in 1 .. Len(s)
        BY <1>1, <1>6, <1>7, <2>1, <2>2, <3>2
      <4> QED  BY <4>1
    <3> QED  BY <3>1, <3>2
  <2>5. DOMAIN queue = 1 .. Len(queue)
    BY <1>1
  <2> QED  BY <1>2, <2>2, <2>3, <2>4, <2>5
<1> QED  BY <1>4, <1>7

\* A lifecycle call makes a request that fits it.
LEMMA LogoutAsks ==
    ASSUME NodeInv, LogoutInv, NEW o \in Op, NEW what \in Requests, Rpc!Ask(o, what), MainOnly,
           KindsKept, PlacesFit', Fits(op'[o].kind, what),
           \A p \in Op \ {o} : op'[p] = op[p], op'[o].at # "done"
    PROVE  LogoutInv'
<1>1. /\ UNCHANGED <<inbox, executing>> /\ UNCHANGED <<goVars, step>>
      /\ \A p \in Op \ {o} : call'[p] = call[p]
      /\ call'[o].at # "answered" /\ (call'[o].at = "waiting" => call'[o].what = what)
  BY Typed DEF Rpc!Ask, MainOnly
<1>2. engine' = engine /\ stored' = stored /\ step' = step
  BY <1>1 DEF goVars, serverVars
<1>3. QueueFits'
  <2>1. CASE queue' = queue
    BY <2>1, QueueKept
  <2>2. CASE Rpc!Send(<<[c |-> o, what |-> what]>>)
    <3> DEFINE s == <<[c |-> o, what |-> what]>>
    <3>1. s \in Seq([c : Op, what : Requests]) /\ Len(s) = 1 /\ s[1].c = o /\ s[1].what = what
      OBVIOUS
    <3>2. Rpc!Send(s)
      BY <2>2
    <3> HIDE DEF s
    <3>3. \A i \in 1 .. Len(queue') :
            \/ \E j \in 1 .. Len(queue) : queue'[i] = queue[j]
            \/ \E j \in 1 .. Len(s) : queue'[i].from = s[j].c /\ queue'[i].what = s[j].what
      BY <3>1, <3>2, SendAdds
    <3>4. ASSUME NEW i \in 1 .. Len(queue')
          PROVE  \/ \E j \in 1 .. Len(queue) : queue'[i] = queue[j]
                 \/ queue'[i].from = o /\ queue'[i].what = what
      <4>1. \A j \in 1 .. Len(s) : j = 1
        BY <3>1
      <4> QED  BY <3>1, <3>3, <4>1
    <3> QED  BY <3>4, QueueKept
  <2> QED  BY <2>1, <2>2 DEF Rpc!Ask
<1>4. ExecutingFits'
  BY <1>1, ExecutingKept
<1>5. WaitingFits'
  BY <1>1, WaitingKept
<1>6. ResponsesFit'
  BY <1>1, InboxKept
<1>7. StepsFit'
  BY <1>1, <1>2 DEF LogoutInv, StepsFit, Doing
<1>8. Lasting'
  <2>1. ASSUME NEW p \in Op, op'[p].kind = "logout", Accepted(p)'
        PROVE  op[p].kind = "logout" /\ Accepted(p)
    <3>1. CASE p # o
      <4>1. op'[p] = op[p] /\ call'[p] = call[p]
        BY <1>1, <3>1
      <4>2. Accepted(p)
        BY <1>1, <2>1, <4>1, AcceptedBefore DEF Accepted
      <4> QED  BY <2>1, <4>1, <4>2
    <3>2. CASE p = o
      <4>1. InInbox(o)
        BY <1>1, <2>1, <3>2 DEF Accepted, InInbox
      <4>2. op[o].kind # Nothing
        BY <4>1 DEF InInbox, LogoutInv, ResponsesFit
      <4>3. op[o].kind = "logout"
        BY <2>1, <3>2, <4>2 DEF KindsKept
      <4> QED  BY <3>2, <4>1, <4>3 DEF Accepted
    <3> QED  BY <3>1, <3>2
  <2>2. Gone => Gone'
    BY <1>2 DEF Gone
  <2> QED  BY <2>1, <2>2, LastingKept
<1> QED  BY <1>2, <1>3, <1>4, <1>5, <1>6, <1>7, <1>8 DEF LogoutInv

\* A lifecycle call goes on without a request.
LEMMA LogoutGoesOn ==
    ASSUME NodeInv, LogoutInv, NEW o \in Op, MainOnly,
           UNCHANGED <<inbox, queue, executing>>,
           KindsKept, PlacesFit', op'[o].kind = "logout" => op[o].kind = "logout",
           \A p \in Op \ {o} : op'[p] = op[p] /\ call'[p] = call[p],
           call'[o] \in {call[o], [at |-> "idle"]},
           op'[o].at = "done" /\ op'[o].kind = "logout" => Accepted(o)
    PROVE  LogoutInv'
<1>1. engine' = engine /\ stored' = stored /\ step' = step
  BY DEF MainOnly, goVars, serverVars
<1>2. QueueFits' /\ ExecutingFits' /\ ResponsesFit'
  BY QueueKept, ExecutingKept, InboxKept
<1>3. call'[o].at \in {"waiting", "answered"} => call'[o] = call[o]
  OBVIOUS
<1>4. WaitingFits'
  BY <1>3, WaitingKept
<1>5. StepsFit'
  BY <1>1 DEF LogoutInv, StepsFit, Doing
<1>6. Lasting'
  <2>1. ASSUME NEW p \in Op, op'[p].kind = "logout", Accepted(p)'
        PROVE  op[p].kind = "logout" /\ Accepted(p)
    <3>1. op[p].kind = "logout" /\ (call'[p].at = "answered" => call'[p] = call[p])
      BY <1>3, <2>1
    <3>2. op'[p].at = "done" => Accepted(p)
      BY <2>1 DEF Accepted
    <3> QED  BY <2>1, <3>1, <3>2, AcceptedBefore
  <2>2. Gone => Gone'
    BY <1>1 DEF Gone
  <2> QED  BY <2>1, <2>2, LastingKept
<1> QED  BY <1>1, <1>2, <1>4, <1>5, <1>6 DEF LogoutInv

\* The steps of a lifecycle call.
LEMMA LogoutCalls ==
    ASSUME NodeInv, LogoutInv, NEW o \in Op,
           CallUp(o) \/ SnapshotLoaded(o) \/ CallDown(o) \/ Continue(o) \/ UpTimesOut(o)
    PROVE  LogoutInv'
<1>1. /\ op \in [Op -> [kind : Requests \cup {Nothing}, at : Places, last : State \cup {Nothing},
                        early : BOOLEAN, stable : Stable \cup {Nothing}, engine : Go!Number, by : Go!Number]]
      /\ PlacesFit /\ "status" \in Requests /\ UpKinds \subseteq Requests
  BY Typed DEF OpTyped, LogoutInv, Requests
<1>2. ASSUME \A p \in Op \ {o} : op'[p] = op[p],
             op[o].kind = Nothing \/ op'[o].kind = op[o].kind,
             op'[o].at = "idle" => op'[o].kind = Nothing,
             op'[o].at \in {"snapshot", "start", "check", "settle", "final", "last"} =>
                 op'[o].kind \in UpKinds
      PROVE  KindsKept /\ PlacesFit'
  BY <1>1, <1>2 DEF KindsKept, PlacesFit
<1>3. ASSUME op[o].kind \in UpKinds, NEW at \in {"start", "check", "settle", "final", "last"},
             \A p \in Op \ {o} : op'[p] = op[p], op'[o].at = at, op'[o].kind = op[o].kind
      PROVE  KindsKept /\ PlacesFit'
  BY <1>2, <1>3
<1>4. op[o].at \in {"snapshot", "start", "check", "settle", "final", "last"} => op[o].kind \in UpKinds
  BY <1>1 DEF PlacesFit
<1>5. CASE CallUp(o)
  <2>1. PICK k \in UpKinds : op' = [op EXCEPT ![o].kind = k, ![o].at = "snapshot"]
    BY <1>5 DEF CallUp
  <2>2. /\ op'[o].kind = k /\ op'[o].at = "snapshot" /\ \A p \in Op \ {o} : op'[p] = op[p]
        /\ op[o].kind = Nothing /\ UNCHANGED <<rpcVars, queue>> /\ MainOnly
    <3>1. op'[o].kind = k /\ op'[o].at = "snapshot" /\ \A p \in Op \ {o} : op'[p] = op[p]
      BY <1>1, <2>1, ZenonT(30)
    <3>2. op[o].at = "idle" /\ UNCHANGED <<rpcVars, queue>> /\ MainOnly
      BY <1>5 DEF CallUp, IsNext
    <3> QED  BY <1>1, <3>1, <3>2 DEF PlacesFit
  <2>3. KindsKept /\ PlacesFit'
    BY <1>2, <2>2
  <2>4. k # "logout"
    BY DEF UpKinds
  <2> QED  BY <2>2, <2>3, <2>4, LogoutGoesOn DEF rpcVars
<1>6. CASE SnapshotLoaded(o)
  <2>1. /\ op[o].at = "snapshot" /\ op' = [op EXCEPT ![o].at = "start"]
        /\ Rpc!Ask(o, op[o].kind) /\ MainOnly
    BY <1>6 DEF SnapshotLoaded
  <2>2. /\ op'[o].kind = op[o].kind /\ op'[o].at = "start" /\ \A p \in Op \ {o} : op'[p] = op[p]
        /\ op[o].kind \in UpKinds
    BY <1>1, <1>4, <2>1
  <2>3. Fits(op'[o].kind, op[o].kind) /\ op[o].kind \in Requests
    BY <1>1, <2>2 DEF Fits, UpKinds
  <2>4. KindsKept /\ PlacesFit'
    BY <1>3, <2>2
  <2> QED  BY <2>1, <2>2, <2>3, <2>4, LogoutAsks
<1>7. CASE CallDown(o)
  <2>1. PICK k \in Kinds[o] \ UpKinds :
          op' = [op EXCEPT ![o].kind = k, ![o].at = "act"] /\ Rpc!Ask(o, k)
    BY <1>7 DEF CallDown
  <2>2. k \in {"down", "logout"} /\ k \in Requests
    <3>1. Kinds[o] \in SUBSET {"up", "upKey", "down", "logout"}
      BY NodeAssumption DEF Op
    <3> QED  BY <2>1, <3>1 DEF UpKinds, Requests
  <2>3. /\ op'[o].kind = k /\ op'[o].at = "act" /\ \A p \in Op \ {o} : op'[p] = op[p]
        /\ op[o].kind = Nothing /\ MainOnly
    <3>1. op'[o].kind = k /\ op'[o].at = "act" /\ \A p \in Op \ {o} : op'[p] = op[p]
      BY <1>1, <2>1, ZenonT(30)
    <3>2. op[o].at = "idle" /\ MainOnly
      BY <1>7 DEF CallDown, IsNext
    <3> QED  BY <1>1, <3>1, <3>2 DEF PlacesFit
  <2>4. Fits(op'[o].kind, k)
    BY <2>2, <2>3 DEF Fits
  <2>5. KindsKept /\ PlacesFit'
    BY <1>2, <2>3
  <2> QED  BY <2>1, <2>2, <2>3, <2>4, <2>5, LogoutAsks
<1>8. ASSUME NEW at \in {"check", "final", "last"}, op[o].kind \in UpKinds,
             Rpc!Ask(o, "status"), MainOnly, op'[o].at = at, op'[o].kind = op[o].kind,
             \A p \in Op \ {o} : op'[p] = op[p]
      PROVE  LogoutInv'
  <2>1. KindsKept /\ PlacesFit'
    BY <1>3, <1>8
  <2>2. Fits(op'[o].kind, "status") /\ op'[o].at # "done"
    BY <1>8 DEF Fits
  <2> QED  BY <1>1, <1>8, <2>1, <2>2, LogoutAsks
<1>9. CASE UpStarted(o)
  <2>1. /\ op[o].at = "start" /\ Rpc!Ask(o, "status") /\ MainOnly
        /\ op' = [op EXCEPT ![o].at = "check", ![o].engine = ReplyTo(o).engine]
    BY <1>9 DEF UpStarted, Got
  <2>2. op'[o].at = "check" /\ op'[o].kind = op[o].kind /\ \A p \in Op \ {o} : op'[p] = op[p]
    BY <1>1, <2>1
  <2> QED  BY <1>4, <1>8, <2>1, <2>2
<1>10. ASSUME NEW at \in {"final", "last"}, AskStatus(o, at), MainOnly, op[o].kind \in UpKinds
       PROVE  LogoutInv'
  <2>1. Rpc!Ask(o, "status") /\ op' = [op EXCEPT ![o].at = at]
    BY <1>10 DEF AskStatus
  <2>2. op'[o].at = at /\ op'[o].kind = op[o].kind /\ \A p \in Op \ {o} : op'[p] = op[p]
    BY <1>1, <2>1
  <2> QED  BY <1>8, <1>10, <2>1, <2>2
<1>11. CASE UpSettled(o) \/ UpTimesOut(o)
  <2>1. op[o].at = "settle" /\ MainOnly /\ (AskStatus(o, "final") \/ AskStatus(o, "last"))
    BY <1>11 DEF UpSettled, UpTimesOut, Resumable
  <2> QED  BY <1>4, <1>10, <2>1
<1>12. ASSUME GoOn(o), call[o].at \in {"answered", "failed"}
       PROVE  /\ UNCHANGED <<inbox, queue, executing>>
              /\ call'[o] = [at |-> "idle"] /\ \A p \in Op \ {o} : call'[p] = call[p]
  BY <1>12, Typed DEF GoOn, Rpc!Consume, Rpc!Idle
<1>13. CASE UpChecked(o)
  <2>1. op[o].at = "check" /\ call[o].at = "answered" /\ MainOnly
    BY <1>13 DEF UpChecked, Got
  <2>2. CASE AskStatus(o, "final")
    BY <1>4, <1>10, <2>1, <2>2
  <2>3. CASE ~AskStatus(o, "final")
    <3>1. /\ GoOn(o)
          /\ op'[o].at = "settle" /\ op'[o].kind = op[o].kind /\ \A p \in Op \ {o} : op'[p] = op[p]
      BY <1>13, <2>3, Typed, CheckSettles
    <3>2. KindsKept /\ PlacesFit'
      BY <1>3, <1>4, <2>1, <3>1
    <3> QED  BY <1>12, <2>1, <3>1, <3>2, LogoutGoesOn
  <2> QED  BY <2>2, <2>3
<1>14. CASE Returns(o) \/ Throws(o)
  <2>1. PICK at \in {"done", "failed"} :
          /\ op' = [op EXCEPT ![o] = [NewOp EXCEPT !.kind = op[o].kind, !.at = at]]
          /\ at = "done" => Returns(o)
    BY <1>14 DEF Returns, Throws
  <2>2. op'[o].at = at /\ op'[o].kind = op[o].kind /\ \A p \in Op \ {o} : op'[p] = op[p]
    BY <1>1, <2>1 DEF NewOp
  <2>3. GoOn(o) /\ MainOnly /\ call[o].at \in {"answered", "failed"}
    BY <1>14 DEF Returns, Throws, Got
  <2>4. at = "done" => Accepted(o)
    BY <2>1 DEF Returns, Got, Accepted
  <2>5. KindsKept /\ PlacesFit'
    BY <1>2, <2>2
  <2> QED  BY <1>12, <2>2, <2>3, <2>4, <2>5, LogoutGoesOn
<1> QED  BY <1>5, <1>6, <1>7, <1>9, <1>11, <1>13, <1>14 DEF Continue

\* A message is taken from the inbox.
LEMMA InboxTail ==
    ASSUME NodeInv, inbox # <<>>, inbox' = Tail(inbox)
    PROVE  /\ \A i \in 1 .. Len(inbox') : \E j \in 1 .. Len(inbox) : inbox'[i] = inbox[j]
           /\ Head(inbox) = inbox[1] /\ 1 \in 1 .. Len(inbox)
<1>1. inbox \in Seq(Rpc!Response \cup Rpc!Push \cup Rpc!Notice) /\ Len(inbox) \in Nat \ {0}
  BY Typed
<1>2. \A i \in 1 .. Len(inbox') : i + 1 \in 1 .. Len(inbox) /\ inbox'[i] = inbox[i + 1]
  BY <1>1, HeadTailProperties
<1> QED  BY <1>1, <1>2

\* What a step of the main isolate that leaves the lifecycle calls where they are has
\* to keep: nothing is added to the inbox, no start begins.
LEMMA LogoutHandles ==
    ASSUME NodeInv, LogoutInv,
           \A o \in Op : op'[o].kind = op[o].kind /\ op'[o].at = op[o].at,
           QueueFits', UNCHANGED <<executing, stored, step>>, engine' \in {engine, 0},
           \A i \in 1 .. Len(inbox') : \E j \in 1 .. Len(inbox) : inbox'[i] = inbox[j],
           \A o \in Op : call'[o].at = "waiting" => call'[o] = call[o],
           \A o \in Op : call'[o].at = "answered" =>
               \/ call'[o] = call[o]
               \/ InInbox(o) \/ ~call'[o].by.reply.ok
    PROVE  LogoutInv'
<1>1. KindsKept
  BY DEF KindsKept
<1>2. PlacesFit'
  BY DEF LogoutInv, PlacesFit
<1>3. ExecutingFits' /\ WaitingFits' /\ ResponsesFit'
  BY <1>1, ExecutingKept, WaitingKept, InboxKept
<1>4. StepsFit'
  BY DEF LogoutInv, StepsFit, Doing
<1>5. Lasting'
  <2>1. ASSUME NEW o \in Op, op'[o].kind = "logout", Accepted(o)'
        PROVE  Accepted(o)
    <3>1. CASE InInbox(o)'
      BY <3>1 DEF InInbox, Accepted
    <3>2. CASE call'[o].at = "answered" /\ call'[o].by.reply.ok
      BY <3>2 DEF Accepted
    <3>3. CASE op'[o].at = "done"
      BY <3>3 DEF Accepted
    <3> QED  BY <2>1, <3>1, <3>2, <3>3 DEF Accepted
  <2>2. Gone => Gone'
    BY DEF Gone
  <2> QED  BY <1>1, <2>1, <2>2, LastingKept
<1> QED  BY <1>2, <1>3, <1>4, <1>5 DEF LogoutInv

\* The messages of the worker.
LEMMA LogoutMessages ==
    ASSUME NodeInv, NodeInv', LogoutInv, HandleMessage \/ SpawnFails
    PROVE  LogoutInv'
<1>1. MainOnly => UNCHANGED <<engine, stored, step>>
  BY DEF MainOnly, goVars, serverVars
<1>2. UNCHANGED apiVars => \A o \in Op : op'[o].kind = op[o].kind /\ op'[o].at = op[o].at
  BY DEF apiVars
<1>3. ASSUME UNCHANGED queue, \A o \in Op : op'[o].kind = op[o].kind  PROVE QueueFits'
  <2>1. KindsKept
    BY <1>3 DEF KindsKept
  <2> QED  BY <1>3, <2>1, QueueKept
<1>4. ASSUME Rpc!HandlePush, MainOnly,
             \A o \in Op : op'[o].kind = op[o].kind /\ op'[o].at = op[o].at
      PROVE  LogoutInv'
  <2>1. /\ inbox # <<>> /\ inbox' = Tail(inbox) /\ UNCHANGED <<call, queue, executing>>
    BY <1>4 DEF Rpc!HandlePush, Rpc!NextMessage, Rpc!mainVars
  <2>2. \A i \in 1 .. Len(inbox') : \E j \in 1 .. Len(inbox) : inbox'[i] = inbox[j]
    BY <2>1, InboxTail
  <2> QED  BY <1>1, <1>3, <1>4, <2>1, <2>2, LogoutHandles
<1>5. CASE HandleStatus
  <2>1. /\ Rpc!HandlePush /\ MainOnly
        /\ op' = [o \in Op |-> Hears(o, Head(inbox).event.state, Head(inbox).event.engine)]
    BY <1>5 DEF HandleStatus, NextPush
  <2>2. ASSUME NEW o \in Op  PROVE op'[o].kind = op[o].kind /\ op'[o].at = op[o].at
    <3>1. op[o] \in [kind : Requests \cup {Nothing}, at : Places, last : State \cup {Nothing},
                     early : BOOLEAN, stable : Stable \cup {Nothing}, engine : Go!Number, by : Go!Number]
      BY Typed DEF OpTyped
    <3>2. op'[o] = Hears(o, Head(inbox).event.state, Head(inbox).event.engine)
      BY <2>1
    <3> QED  BY <3>1, <3>2 DEF Hears
  <2> QED  BY <1>4, <2>1, <2>2
<1>6. CASE HandlePeers
  BY <1>4, <1>6 DEF HandlePeers, NextPush
<1>7. CASE HandleError
  BY <1>2, <1>4, <1>7 DEF HandleError, NextPush
<1>8. CASE HandleReady
  <2> DEFINE s == [i \in DOMAIN waiting |-> [c |-> waiting[i], what |-> call[waiting[i]].what]]
  <2>1. /\ Rpc!Send(s) /\ inbox # <<>> /\ inbox' = Tail(inbox) /\ UNCHANGED executing
        /\ \A o \in Op : call'[o].at \in {"waiting", "answered"} => call'[o] = call[o]
    BY <1>8 DEF HandleReady, Rpc!HandleReady, Rpc!NextMessage
  <2>2. UNCHANGED apiVars /\ MainOnly
    BY <1>8 DEF HandleReady
  <2>3. ASSUME NEW i \in 1 .. Len(waiting)
        PROVE  /\ s[i].c \in Op /\ s[i].what \in Requests
               /\ s[i] \in [c : Op, what : Requests]
               /\ Fits(op[s[i].c].kind, s[i].what)
    <3>1. waiting[i] \in Op /\ call[waiting[i]].at = "waiting" /\ i \in DOMAIN waiting
      BY LogoutTyped
    <3>2. call[waiting[i]].what \in Requests /\ Fits(op[waiting[i]].kind, call[waiting[i]].what)
      BY <3>1, LogoutTyped DEF LogoutInv, WaitingFits
    <3> QED  BY <3>1, <3>2
  <2>4. s \in [1 .. Len(waiting) -> [c : Op, what : Requests]]
    BY <2>3, LogoutTyped
  <2> HIDE DEF s
  <2>5. Len(waiting) \in Nat
    BY LogoutTyped
  <2> DEFINE R == [c : Op, what : Requests]
  <2>6. s \in Seq(R) /\ Len(s) = Len(waiting)
    <3>1. s \in [1 .. Len(waiting) -> R]
      BY <2>4
    <3> HIDE DEF R
    <3> QED  BY <2>5, <3>1, Layer!FunctionIsSequence
  <2>7. \A i \in 1 .. Len(queue') :
          \/ \E j \in 1 .. Len(queue) : queue'[i] = queue[j]
          \/ \E j \in 1 .. Len(s) : queue'[i].from = s[j].c /\ queue'[i].what = s[j].what
    BY <2>1, <2>6, SendAdds
  <2>8. op' = op
    BY <2>2 DEF apiVars
  <2>9. QueueFits'
    <3>1. KindsKept
      BY <2>8 DEF KindsKept
    <3>2. \A i \in 1 .. Len(queue') :
            \/ \E j \in 1 .. Len(queue) : queue'[i] = queue[j]
            \/ Fits(op'[queue'[i].from].kind, queue'[i].what)
      BY <2>3, <2>6, <2>7, <2>8
    <3> QED  BY <3>1, <3>2, QueueKept
  <2>10. \A i \in 1 .. Len(inbox') : \E j \in 1 .. Len(inbox) : inbox'[i] = inbox[j]
    BY <2>1, InboxTail
  <2> QED  BY <1>1, <1>2, <2>1, <2>2, <2>9, <2>10, LogoutHandles
<1>9. CASE HandleResponse
  <2>1. /\ Rpc!HandleResponse /\ UNCHANGED apiVars /\ MainOnly
    BY <1>9 DEF HandleResponse
  <2>2. /\ inbox # <<>> /\ inbox' = Tail(inbox) /\ UNCHANGED <<queue, executing>>
        /\ Head(inbox).kind = "response"
    BY <2>1 DEF Rpc!HandleResponse, Rpc!NextMessage
  <2>3. \/ call' = call
        \/ \E p : call' = [call EXCEPT ![p.from] =
                              [at |-> "answered", n |-> p.n, by |-> Head(inbox)]]
    BY <2>1 DEF Rpc!HandleResponse
  <2>4. ASSUME NEW o \in Op, call'[o] # call[o]
        PROVE  call'[o].at = "answered" /\ call'[o].by = Head(inbox)
    <3>1. PICK p : call' = [call EXCEPT ![p.from] =
                               [at |-> "answered", n |-> p.n, by |-> Head(inbox)]]
      BY <2>3, <2>4
    <3>2. call'[o] = [at |-> "answered", n |-> p.n, by |-> Head(inbox)]
      BY <2>4, <3>1, Typed
    <3> QED  BY <3>2
  <2>5. /\ \A i \in 1 .. Len(inbox') : \E j \in 1 .. Len(inbox) : inbox'[i] = inbox[j]
        /\ Head(inbox) = inbox[1] /\ 1 \in 1 .. Len(inbox)
    BY <2>2, InboxTail
  <2>6. ASSUME NEW o \in Op, call'[o].at = "answered", call'[o] # call[o], call'[o].by.reply.ok
        PROVE  InInbox(o)
    <3>1. call'[o].by.to = o
      <4>1. Layer!AnswersMatch'
        BY DEF NodeInv, Layer!RpcInv
      <4> QED  BY <2>6, <4>1 DEF Layer!AnswersMatch
    <3>2. call'[o].by = inbox[1]
      BY <2>4, <2>5, <2>6
    <3> QED  BY <2>2, <2>5, <2>6, <3>1, <3>2 DEF InInbox
  <2>7. QueueFits'
    BY <1>2, <1>3, <2>1, <2>2
  <2>8. \A o \in Op : call'[o].at = "waiting" => call'[o] = call[o]
    BY <2>4
  <2> QED  BY <1>1, <1>2, <2>1, <2>2, <2>5, <2>6, <2>7, <2>8, LogoutHandles
<1>10. CASE HandleBootFailure \/ HandleExit \/ SpawnFails
  <2>1. Rpc!Dispose /\ Go!StopUnheard /\ UNCHANGED <<step, apiVars>>
    BY <1>10 DEF HandleBootFailure, HandleExit, SpawnFails, Rpc!HandleBootFailure,
         Rpc!HandleExit, Rpc!SpawnFails
  <2>2. /\ inbox' = <<>> /\ UNCHANGED <<queue, executing>> /\ engine' = 0 /\ stored' = stored
        /\ \A o \in Op : call'[o].at \in {"waiting", "answered"} => call'[o] = call[o]
    BY <2>1 DEF Rpc!Dispose, Go!StopUnheard, Go!StopLocked
  <2>3. QueueFits'
    BY <1>2, <1>3, <2>1, <2>2
  <2> QED  BY <1>2, <2>1, <2>2, <2>3, LogoutHandles
<1> QED  BY <1>5, <1>6, <1>7, <1>8, <1>9, <1>10 DEF HandleMessage

\* What the runtime posts is no command.
LEMMA PostsPush ==
    ASSUME NodeInv, Pushes \/ UNCHANGED queue
    PROVE  \A i \in 1 .. Len(queue') : queue'[i].kind = "command" =>
               \E j \in 1 .. Len(queue) : queue'[i] = queue[j]
<1>1. CASE UNCHANGED queue
  BY <1>1
<1>2. CASE Pushes
  <2>1. PICK e \in Go!Events : queue' = Append(queue, [kind |-> "push", event |-> e])
    BY <1>2 DEF Pushes, Rpc!Posts
  <2> DEFINE m == [kind |-> "push", event |-> e]
  <2>2. queue' = Append(queue, m) /\ m.kind = "push"
    BY <2>1
  <2> HIDE DEF m
  <2>3. queue \in Seq(Rpc!Command \cup Rpc!Push) /\ Len(queue) \in Nat
    BY Typed
  <2>4. ASSUME NEW i \in 1 .. Len(queue')
        PROVE  queue'[i] = m \/ \E j \in 1 .. Len(queue) : queue'[i] = queue[j]
    BY <2>2, <2>3
  <2> QED  BY <2>2, <2>4
<1> QED  BY <1>1, <1>2

\* So the queue fits as before.
LEMMA PostsNoCommand ==
    ASSUME NodeInv, LogoutInv, KindsKept, Pushes \/ UNCHANGED queue
    PROVE  QueueFits'
BY PostsPush, QueueKept

\* A step of the worker or the runtime that responds nothing.
LEMMA LogoutRuns ==
    ASSUME NodeInv, LogoutInv, UNCHANGED <<call, op>>, QueueFits', ExecutingFits', StepsFit',
           stored' \in BOOLEAN,
           \A i \in 1 .. Len(inbox') : inbox'[i].kind = "response" =>
               \E j \in 1 .. Len(inbox) : inbox'[i] = inbox[j],
           NoKey /\ Gone => Gone'
    PROVE  LogoutInv'
<1>1. KindsKept
  BY DEF KindsKept
<1>2. WaitingFits' /\ ResponsesFit' /\ PlacesFit'
  BY <1>1, WaitingKept, InboxKept DEF LogoutInv, PlacesFit
<1>3. Lasting'
  <2>1. ASSUME NEW o \in Op, op'[o].kind = "logout", Accepted(o)'
        PROVE  Accepted(o)
    BY <2>1, AcceptedBefore DEF Accepted
  <2>2. NoKey' => NoKey
    BY DEF NoKey
  <2> QED  BY <1>1, <2>1, <2>2, LastingKept
<1> QED  BY <1>2, <1>3 DEF LogoutInv

\* The command under execution is the one of a lifecycle call.
LEMMA DoingFits ==
    ASSUME NodeInv, LogoutInv, executing # <<>>
    PROVE  /\ executing[1].from \in Op /\ Doing \in Requests
           /\ Fits(op[executing[1].from].kind, Doing)
           /\ op[executing[1].from].kind # Nothing
<1>1. 1 \in 1 .. Len(executing) /\ executing[1] \in Rpc!Command
  BY LogoutTyped
<1>2. executing[1].from \in Op /\ Doing \in Requests
  BY <1>1 DEF Rpc!Command, Doing
<1>3. Fits(op[executing[1].from].kind, Doing)
  BY <1>1 DEF Doing, LogoutInv, ExecutingFits
<1> QED  BY <1>2, <1>3 DEF Fits, Requests, UpKinds, Nothing

\* A response: it accepts a logout only when the node is gone.
LEMMA LogoutResponds ==
    ASSUME NodeInv, LogoutInv, NEW ok, NEW state, RespondWith(ok, state),
           Pushes \/ UNCHANGED queue, stored' \in BOOLEAN, executing # <<>>,
           NoKey /\ Gone => Gone',
           ok /\ op[executing[1].from].kind = "logout" => Gone'
    PROVE  LogoutInv'
<1> DEFINE c == executing[1].from
           m == [kind |-> "response", to |-> c, n |-> executing[1].n,
                 reply |-> [ok |-> ok, state |-> state, engine |-> engine']]
<1>1. /\ inbox' = Append(inbox, m) /\ executing' = <<>> /\ UNCHANGED <<call, op>>
  BY DEF RespondWith, Rpc!Respond, Rpc!mainVars, apiVars
<1>2. m.kind = "response" /\ m.to = c /\ m.reply.ok = ok
  OBVIOUS
<1>3. c \in Op /\ op[c].kind # Nothing
  BY DoingFits
<1> HIDE DEF m, c
<1>4. KindsKept
  BY <1>1 DEF KindsKept
<1>5. QueueFits' /\ ExecutingFits' /\ WaitingFits' /\ PlacesFit'
  BY <1>1, <1>4, PostsNoCommand, ExecutingKept, WaitingKept DEF LogoutInv, PlacesFit
<1>6. StepsFit'
  BY <1>1 DEF StepsFit
<1>7. \A i \in 1 .. Len(inbox') : inbox'[i] = m \/ \E j \in 1 .. Len(inbox) : inbox'[i] = inbox[j]
  <2>1. inbox \in Seq(Rpc!Response \cup Rpc!Push \cup Rpc!Notice) /\ Len(inbox) \in Nat
    BY Typed
  <2>2. \A i \in 1 .. Len(inbox') : i \in 1 .. Len(inbox) \/ i = Len(inbox) + 1
    BY <1>1, <2>1
  <2>3. \A i \in 1 .. Len(inbox) : inbox'[i] = inbox[i]
    BY <1>1, <2>1
  <2>4. inbox'[Len(inbox) + 1] = m
    BY <1>1, <2>1
  <2> QED  BY <2>2, <2>3, <2>4
<1>8. ResponsesFit'
  BY <1>1, <1>2, <1>3, <1>4, <1>7, InboxKept
<1>9. Lasting'
  <2> SUFFICES ASSUME NEW o \in Op, op[o].kind = "logout", Accepted(o)', NoKey
               PROVE  Gone'
    BY <1>1 DEF Lasting, NoKey
  <2>1. CASE Accepted(o)
    BY <2>1 DEF LogoutInv, Lasting
  <2>2. CASE ~Accepted(o)
    <3>1. InInbox(o)' /\ ~InInbox(o)
      BY <1>1, <2>2 DEF Accepted
    <3>2. m.to = o /\ m.reply.ok
      BY <1>7, <3>1 DEF InInbox
    <3> QED  BY <1>2, <3>2 DEF c
  <2> QED  BY <2>1, <2>2
<1> QED  BY <1>5, <1>6, <1>8, <1>9 DEF LogoutInv

\* The commands of the worker.
LEMMA LogoutExecutes ==
    ASSUME NodeInv, LogoutInv, Execute
    PROVE  LogoutInv'
<1>1. /\ GoTyped /\ queue \in Seq(Rpc!Command \cup Rpc!Push) /\ stored \in BOOLEAN
      /\ executing # <<>>
  BY Typed DEF LogoutInv, Execute, Refuse, ReadStatus, ExecStart, ExecStartFails, ExecStartWatch,
       ExecStop, ExecWipe, ExecWipeFails, At
<1>2. /\ Fits(op[executing[1].from].kind, Doing) /\ executing[1].from \in Op
      /\ step = "read" => Doing = "status"
      /\ step \in {"start", "startWatch"} => Doing \in UpKinds
      /\ step = "stop" => Doing \in {"down", "logout"}
      /\ step = "wipe" => Doing = "logout" /\ engine = 0
  BY <1>1, DoingFits DEF LogoutInv, StepsFit
<1>3. CASE Refuse \/ ReadStatus
  <2>1. /\ UNCHANGED <<goVars, queue>>
        /\ \/ step = "refuse" /\ RespondWith(FALSE, Nothing)
           \/ step = "read" /\ RespondWith(TRUE, StatusNow)
    BY <1>3, ZenonT(30) DEF Refuse, ReadStatus, At
  <2>2. engine' = engine /\ stored' = stored /\ step' = "none"
    BY <2>1 DEF goVars, serverVars, RespondWith
  <2>3. step = "read" => op[executing[1].from].kind # "logout"
    BY <1>2 DEF Fits, UpKinds
  <2>4. Gone => Gone'
    BY <2>2 DEF Gone
  <2> QED  BY <1>1, <2>1, <2>2, <2>3, <2>4, LogoutResponds
<1>4. CASE ExecStart
  <2>1. /\ step = "start" /\ step' = "startWatch" /\ UNCHANGED <<rpcVars, apiVars>>
        /\ Go!StartKeeps \/ Go!StartSucceeds
    BY <1>4 DEF ExecStart, At
  <2>2. stored' \in BOOLEAN /\ (Pushes \/ UNCHANGED queue)
    BY <1>1, <2>1, CallsTyped DEF Go!StartKeeps, Go!StartSucceeds, Go!serverVars
  <2>3. UNCHANGED <<call, op, executing, inbox>>
    BY <2>1 DEF rpcVars, apiVars
  <2>4. QueueFits' /\ ExecutingFits'
    <3>1. KindsKept
      BY <2>3 DEF KindsKept
    <3> QED  BY <2>2, <2>3, <3>1, PostsNoCommand, ExecutingKept
  <2>5. StepsFit'
    BY <1>2, <2>1, <2>3 DEF StepsFit, Doing
  <2>6. ~Gone
    BY <2>1 DEF Gone
  <2> QED  BY <2>2, <2>3, <2>4, <2>5, <2>6, LogoutRuns
<1>5. CASE ExecStartFails
  <2>1. step = "start" /\ Go!StartFails /\ RespondWith(FALSE, Nothing)
    BY <1>5 DEF ExecStartFails, At
  <2>2. stored' \in BOOLEAN /\ (Pushes \/ UNCHANGED queue)
    BY <2>1 DEF Go!StartFails
  <2>3. ~Gone
    BY <2>1 DEF Gone
  <2> QED  BY <1>1, <2>1, <2>2, <2>3, LogoutResponds
<1>6. CASE ExecStartWatch
  <2>1. step = "startWatch" /\ (Go!StartWatch \/ Go!StartWatchFails) /\ RespondWith(TRUE, Nothing)
    BY <1>6 DEF ExecStartWatch, At
  <2>2. Pushes \/ UNCHANGED queue
    BY <1>1, <2>1, CallsTyped
  <2>3. engine' = engine /\ stored' = stored /\ step' = "none"
    BY <2>1 DEF Go!StartWatch, Go!StartWatchFails, Go!goVars, Go!serverVars, RespondWith
  <2>4. op[executing[1].from].kind # "logout"
    BY <1>2, <2>1 DEF Fits, UpKinds
  <2>5. Gone => Gone'
    BY <2>3 DEF Gone
  <2> QED  BY <1>1, <2>1, <2>2, <2>3, <2>4, <2>5, LogoutResponds
<1>7. CASE ExecStop
  <2>1. /\ step = "stop" /\ Go!Stop
        /\ IF Doing = "down" THEN RespondWith(TRUE, Nothing)
           ELSE step' = "wipe" /\ UNCHANGED <<rpcVars, apiVars>>
    BY <1>7 DEF ExecStop, At
  <2>2. (Pushes \/ UNCHANGED queue) /\ engine' = 0 /\ stored' = stored
    BY <1>1, <2>1, CallsTyped DEF Go!Stop, Go!StopLocked
  <2>3. CASE Doing = "down"
    <3>1. RespondWith(TRUE, Nothing) /\ op[executing[1].from].kind # "logout"
      BY <1>2, <2>1, <2>3 DEF Fits
    <3>2. Gone => Gone'
      BY <2>2, <3>1 DEF Gone, RespondWith
    <3> QED  BY <1>1, <2>2, <3>1, <3>2, LogoutResponds
  <2>4. CASE Doing # "down"
    <3>1. step' = "wipe" /\ UNCHANGED <<call, op, executing, inbox>> /\ Doing = "logout"
      BY <1>2, <2>1, <2>4 DEF rpcVars, apiVars
    <3>2. QueueFits' /\ ExecutingFits'
      <4>1. KindsKept
        BY <3>1 DEF KindsKept
      <4> QED  BY <2>2, <3>1, <4>1, PostsNoCommand, ExecutingKept
    <3>3. StepsFit'
      BY <2>2, <3>1 DEF StepsFit, Doing
    <3>4. Gone => Gone'
      BY <2>2, <3>1 DEF Gone
    <3> QED  BY <1>1, <2>2, <3>1, <3>2, <3>3, <3>4, LogoutRuns
  <2> QED  BY <2>3, <2>4
<1>8. CASE ExecWipe
  <2>1. step = "wipe" /\ Go!Wipe /\ RespondWith(TRUE, Nothing)
    BY <1>8 DEF ExecWipe, At
  <2>2. Pushes \/ UNCHANGED queue
    BY <1>1, <2>1, CallsTyped
  <2>3. Gone' /\ stored' \in BOOLEAN
    BY <1>2, <2>1 DEF Go!Wipe, RespondWith, Gone
  <2> QED  BY <1>1, <2>1, <2>2, <2>3, LogoutResponds
<1>9. CASE ExecWipeFails
  <2>1. step = "wipe" /\ Go!WipeFails /\ RespondWith(FALSE, Nothing)
    BY <1>9 DEF ExecWipeFails, At
  <2>2. (Pushes \/ UNCHANGED queue) /\ stored' \in BOOLEAN
    BY <1>1, <2>1 DEF Go!WipeFails
  <2>3. Gone => Gone'
    BY <2>1 DEF Go!WipeFails, RespondWith, Gone
  <2> QED  BY <1>1, <2>1, <2>2, <2>3, LogoutResponds
<1> QED  BY <1>3, <1>4, <1>5, <1>6, <1>7, <1>8, <1>9 DEF Execute

\* The other steps of the worker.
LEMMA LogoutWorks ==
    ASSUME NodeInv, LogoutInv, BootSucceeds \/ BootFails \/ Begin \/ Forward \/ Exit
    PROVE  LogoutInv'
<1>1. /\ UNCHANGED <<call, op, engine, stored>> /\ stored \in BOOLEAN
      /\ inbox \in Seq(Rpc!Response \cup Rpc!Push \cup Rpc!Notice) /\ Len(inbox) \in Nat
      /\ queue \in Seq(Rpc!Command \cup Rpc!Push) /\ Len(queue) \in Nat
  BY Typed DEF BootSucceeds, BootFails, Begin, Forward, Exit, Rpc!BootSucceeds, Rpc!BootFails,
       Rpc!Begin, Rpc!Forward, Rpc!Exit, Rpc!mainVars, apiVars, MainOnly, goVars, serverVars, LogoutInv
<1>2. KindsKept
  BY <1>1 DEF KindsKept
<1>3. ASSUME NEW m, inbox' = Append(inbox, m), m.kind # "response"
      PROVE  \A i \in 1 .. Len(inbox') : inbox'[i].kind = "response" =>
                 \E j \in 1 .. Len(inbox) : inbox'[i] = inbox[j]
  <2>1. \A i \in 1 .. Len(inbox') : i \in 1 .. Len(inbox) \/ i = Len(inbox) + 1
    BY <1>1, <1>3
  <2>2. \A i \in 1 .. Len(inbox) : inbox'[i] = inbox[i]
    BY <1>1, <1>3
  <2>3. inbox'[Len(inbox) + 1] = m
    BY <1>1, <1>3
  <2> QED  BY <1>3, <2>1, <2>2, <2>3
<1>4. ASSUME queue # <<>>, queue' = Tail(queue)
      PROVE  \A i \in 1 .. Len(queue') : \E j \in 1 .. Len(queue) : queue'[i] = queue[j]
  <2>1. \A i \in 1 .. Len(queue') : i + 1 \in 1 .. Len(queue) /\ queue'[i] = queue[i + 1]
    BY <1>1, <1>4, HeadTailProperties
  <2> QED  BY <2>1
<1>5. CASE BootSucceeds \/ BootFails \/ Exit
  <2>1. /\ step' = step /\ queue' \in {queue, <<>>} /\ executing' = executing
        /\ \E k \in {"ready", "bootFailure", "exit"} : inbox' = Append(inbox, [kind |-> k])
    BY <1>5 DEF BootSucceeds, BootFails, Exit, Rpc!BootSucceeds, Rpc!BootFails, Rpc!Exit, MainOnly
  <2>2. PICK k \in {"ready", "bootFailure", "exit"} : inbox' = Append(inbox, [kind |-> k])
    BY <2>1
  <2>3. \A i \in 1 .. Len(inbox') : inbox'[i].kind = "response" =>
            \E j \in 1 .. Len(inbox) : inbox'[i] = inbox[j]
    BY <1>3, <2>2
  <2>4. QueueFits' /\ ExecutingFits'
    <3>1. Len(<<>>) = 0
      OBVIOUS
    <3>2. \A i \in 1 .. Len(queue') : \E j \in 1 .. Len(queue) : queue'[i] = queue[j]
      BY <1>1, <2>1, <3>1
    <3> QED  BY <1>2, <2>1, <3>2, QueueKept, ExecutingKept
  <2>5. StepsFit'
    BY <1>1, <2>1 DEF LogoutInv, StepsFit, Doing
  <2>6. Gone => Gone'
    BY <1>1, <2>1 DEF Gone
  <2> QED  BY <1>1, <2>3, <2>4, <2>5, <2>6, LogoutRuns
<1>6. CASE Forward
  <2>1. /\ step' = step /\ executing' = executing /\ queue # <<>> /\ queue' = Tail(queue)
        /\ inbox' = Append(inbox, Head(queue)) /\ Head(queue).kind = "push"
    BY <1>6 DEF Forward, Rpc!Forward, Rpc!NextEvent, MainOnly
  <2>2. \A i \in 1 .. Len(inbox') : inbox'[i].kind = "response" =>
            \E j \in 1 .. Len(inbox) : inbox'[i] = inbox[j]
    BY <1>3, <2>1
  <2>3. QueueFits' /\ ExecutingFits'
    BY <1>2, <1>4, <2>1, QueueKept, ExecutingKept
  <2>4. StepsFit'
    BY <1>1, <2>1 DEF LogoutInv, StepsFit, Doing
  <2>5. Gone => Gone'
    BY <1>1, <2>1 DEF Gone
  <2> QED  BY <1>1, <2>2, <2>3, <2>4, <2>5, LogoutRuns
<1>7. CASE Begin
  <2> DEFINE m == Head(queue)
  <2>1. /\ queue # <<>> /\ queue' = Tail(queue) /\ m.kind = "command" /\ executing' = <<m>>
        /\ inbox' = inbox
        /\ step' = IF m.what # "status" /\ ~LacksState(m.what)
                   THEN IF m.what \in UpKinds THEN "start" ELSE "stop"
                   ELSE IF m.what = "status" THEN "read" ELSE "refuse"
    BY <1>7, ZenonT(30) DEF Begin, Rpc!Begin, Rpc!NextEvent
  <2>2. m = queue[1] /\ 1 \in 1 .. Len(queue)
    BY <1>1, <2>1
  <2>3. m \in Rpc!Command /\ Fits(op[m.from].kind, m.what)
    BY <2>1, <2>2, LogoutTyped DEF LogoutInv, QueueFits
  <2>4. m.from \in Op /\ m.what \in Requests
    BY <2>3 DEF Rpc!Command
  <2> HIDE DEF m
  <2>5. executing'[1] = m /\ executing' # <<>> /\ Len(executing') = 1
    BY <2>1
  <2>6. QueueFits'
    BY <1>2, <1>4, <2>1, QueueKept
  <2>7. ExecutingFits'
    <3>1. \A i \in 1 .. Len(executing') : i = 1
      BY <2>5
    <3> QED  BY <1>1, <2>3, <2>5, <3>1 DEF ExecutingFits
  <2>8. StepsFit'
    BY <2>1, <2>4, <2>5 DEF StepsFit, Doing, Requests, UpKinds
  <2>9. NoKey /\ Gone => Gone'
    <3> SUFFICES ASSUME NoKey, Gone, step' = "start"  PROVE FALSE
      BY <1>1 DEF Gone
    <3>1. m.what \in UpKinds /\ ~LacksState(m.what)
      BY <2>1
    <3>2. m.what = "upKey"
      BY <3>1 DEF LacksState, Gone, UpKinds
    <3> QED  BY <2>3, <2>4, <3>2 DEF Fits, NoKey
  <2> QED  BY <1>1, <2>1, <2>6, <2>7, <2>8, <2>9, LogoutRuns
<1> QED  BY <1>5, <1>6, <1>7

\* The invariant of the logout is kept.
LEMMA LogoutKept ==
    ASSUME NodeInv, NodeInv', LogoutInv, [Next]_vars
    PROVE  LogoutInv'
<1>1. ASSUME UNCHANGED <<rpcVars, apiVars, engine, stored, step>>, Pushes \/ UNCHANGED queue
      PROVE  LogoutInv'
  <2>1. UNCHANGED <<call, op, executing, inbox>>
    BY <1>1 DEF rpcVars, apiVars
  <2>2. QueueFits' /\ ExecutingFits'
    <3>1. KindsKept
      BY <2>1 DEF KindsKept
    <3> QED  BY <1>1, <2>1, <3>1, PostsNoCommand, ExecutingKept
  <2>3. StepsFit'
    BY <1>1, <2>1 DEF LogoutInv, StepsFit, Doing
  <2>4. Gone => Gone'
    BY <1>1 DEF Gone
  <2>5. stored' \in BOOLEAN
    BY <1>1 DEF LogoutInv
  <2> QED  BY <2>1, <2>2, <2>3, <2>4, <2>5, LogoutRuns
<1>2. CASE Main
  BY <1>2, LogoutCalls, LogoutMessages DEF Main
<1>3. CASE WorkerStep
  BY <1>3, LogoutExecutes, LogoutWorks DEF WorkerStep
<1>4. CASE Runtime
  <2>1. /\ \/ Go!NodeChanges \/ Go!TimerFires
           \/ \E w \in 1 .. MaxWatchers : Go!Goroutine(w) \/ Go!WatchBreaks(w)
        /\ UNCHANGED <<rpcVars, step, apiVars>>
    BY <1>4 DEF Runtime, NodeChanges, TimerFires, Goroutine, WatchBreaks, RuntimeOnly
  <2>2. Pushes \/ UNCHANGED queue
    BY <2>1, Typed, RuntimeTyped
  <2>3. UNCHANGED <<engine, stored>>
    BY <2>1 DEF Go!NodeChanges, Go!Goroutine, Go!WatchBreaks, Go!TimerFires, Go!TakeNotification,
         Go!PostState, Go!MirrorNetmap, Go!SchedulePublish, Go!Publish, Go!KeepRest, Go!serverVars
  <2> QED  BY <1>1, <2>1, <2>2, <2>3
<1>5. CASE UNCHANGED vars
  BY <1>1, <1>5 DEF vars, goVars, serverVars
<1> QED  BY <1>2, <1>3, <1>4, <1>5 DEF Next

\* At first nothing was called.
LEMMA LogoutStarts == Init => LogoutInv
<1> SUFFICES ASSUME Init  PROVE LogoutInv
  OBVIOUS
<1>1. /\ queue = <<>> /\ executing = <<>> /\ inbox = <<>> /\ stored \in BOOLEAN
      /\ \A o \in Op : call[o].at = "idle" /\ op[o].at = "idle" /\ op[o].kind = Nothing
  BY DEF Init, Rpc!Init, Rpc!Idle, Go!GoInit, NewOp
<1>2. Len(<<>>) = 0
  OBVIOUS
<1> QED  BY <1>1, <1>2 DEF LogoutInv, QueueFits, ExecutingFits, WaitingFits, ResponsesFit, PlacesFit,
             StepsFit, Lasting, Nothing

\* For any sequence of lifecycle calls and any faults: once a logout has returned, and
\* as long as no call brings a key, there is no server and no stored session, whatever
\* starts were queued before it, behind it or while it ran.
THEOREM LogoutLasts == Spec => []LogoutHolds
<1>1. Init => NodeInv /\ LogoutInv
  BY NodeStarts, LogoutStarts
<1>2. NodeInv /\ LogoutInv /\ [Next]_vars => (NodeInv /\ LogoutInv)'
  BY NodeKept, LogoutKept
<1>3. LogoutInv => LogoutHolds
  BY DEF LogoutInv, Lasting, LogoutHolds, Accepted, NoKey, Gone
<1> QED  BY <1>1, <1>2, <1>3, PTL DEF Spec

-----------------------------------------------------------------------------
(* The types of what the RPC layer does not see.                           *)

GoRest ==
    /\ dartPort \in BOOLEAN /\ stored \in BOOLEAN /\ watchers \in Go!Number
    /\ cancelled \subseteq 1 .. MaxWatchers /\ publishing \subseteq 1 .. MaxWatchers
    /\ watchCancel \in Go!Number /\ timer \in Go!Number /\ cache \in Go!Number
    /\ changes \in 0 .. MaxChanges

Steps == {"none", "read", "refuse", "start", "startWatch", "stop", "wipe"}
KindsTyped == \A o \in Op : op[o].kind \in UpKinds \cup {"down", "logout", Nothing}

RestTyped ==
    GoRest /\ step \in Steps /\ KindsTyped /\ http \in BOOLEAN /\ latest \in Go!Number

\* StopWatch, whatever becomes of the server.
LEMMA StopRest ==
    ASSUME GoRest, Go!StopWatch, stored' \in BOOLEAN, dartPort' \in BOOLEAN, UNCHANGED changes
    PROVE  GoRest'
<1>1. watchCancel # 0 => watchCancel \in 1 .. MaxWatchers
  BY NodeAssumption DEF GoRest, Go!Number
<1> QED  BY <1>1, Numbers DEF GoRest, Go!StopWatch, Go!Cancel

\* The calls of the worker.
LEMMA ExecuteRest ==
    ASSUME GoTyped, GoRest,
           \/ Go!Stop \/ Go!StartKeeps \/ Go!StartSucceeds \/ Go!StartFails
           \/ Go!StartWatch \/ Go!StartWatchFails \/ Go!Wipe \/ Go!WipeFails
    PROVE  GoRest'
<1>1. CASE Go!Stop
  BY <1>1, StopRest DEF Go!Stop, Go!StopLocked, GoRest
<1>2. CASE Go!StartKeeps
  BY <1>2 DEF Go!StartKeeps, Go!serverVars, Go!watchVars, GoRest
<1>3. CASE Go!StartSucceeds
  BY <1>3, StopRest DEF Go!StartSucceeds, GoRest
<1>4. CASE Go!StartFails
  BY <1>4, StopRest DEF Go!StartFails, Go!StopLocked, GoRest
<1>5. CASE Go!StartWatch \/ Go!StartWatchFails
  <2>1. CASE engine = 0
    BY <1>5, <2>1 DEF Go!StartWatch, Go!StartWatchFails, Go!goVars, Go!serverVars, Go!watchVars,
         GoRest
  <2>2. CASE engine # 0
    <3>1. /\ watchers < MaxWatchers /\ watchers' = watchers + 1 /\ watchCancel' = watchers + 1
          /\ cancelled' \in {cancelled, cancelled \cup {watchers + 1}}
          /\ UNCHANGED <<dartPort, stored, timer, publishing, cache, changes>>
      BY <1>5, <2>2 DEF Go!StartWatch, Go!StartWatchFails, Go!serverVars
    <3>2. watchers + 1 \in 1 .. MaxWatchers
      BY <3>1, Numbers DEF GoRest
    <3> QED  BY <3>1, <3>2, Numbers DEF GoRest
  <2> QED  BY <2>1, <2>2
<1>6. CASE Go!Wipe \/ Go!WipeFails
  BY <1>6 DEF Go!Wipe, Go!WipeFails, Go!watchVars, GoRest
<1> QED  BY <1>1, <1>2, <1>3, <1>4, <1>5, <1>6

\* The node and the goroutines.
LEMMA RuntimeRest ==
    ASSUME GoTyped, GoRest, Runtime
    PROVE  GoRest'
<1>1. CASE NodeChanges
  BY <1>1, NodeAssumption DEF NodeChanges, Go!NodeChanges, GoRest
<1>2. CASE TimerFires
  <2>1. timer # 0 => timer \in 1 .. MaxWatchers
    BY NodeAssumption DEF GoRest, Go!Number
  <2> QED  BY <1>2, <2>1, Numbers DEF TimerFires, Go!TimerFires, Go!KeepRest, Go!serverVars, GoRest
<1>3. ASSUME NEW w \in 1 .. MaxWatchers, Go!Goroutine(w) \/ Go!WatchBreaks(w)
      PROVE  GoRest'
  <2>1. /\ UNCHANGED <<dartPort, stored, watchers, cancelled, watchCancel, changes>>
        /\ timer' \in {timer, w} /\ publishing' \subseteq publishing
        /\ cache' \in {cache, watcher[w].engine}
    BY <1>3 DEF Go!Goroutine, Go!TakeNotification, Go!PostState, Go!MirrorNetmap,
         Go!SchedulePublish, Go!Publish, Go!WatchBreaks, Go!KeepRest, Go!serverVars
  <2>2. watcher[w].engine \in Go!Number
    BY DEF GoTyped
  <2> QED  BY <2>1, <2>2, Numbers DEF GoRest
<1> QED  BY <1>1, <1>2, <1>3 DEF Runtime, Goroutine, WatchBreaks

\* The rest of the types is kept.
LEMMA RestKept ==
    ASSUME NodeInv, RestTyped, [Next]_vars
    PROVE  RestTyped'
<1>1. GoTyped /\ GoRest /\ OpTyped
  BY Typed DEF RestTyped
<1>2. UNCHANGED goVars => GoRest'
  BY <1>1 DEF goVars, serverVars, watchVars, GoRest
<1>3. UNCHANGED op => KindsTyped'
  BY DEF RestTyped, KindsTyped
<1>4. UNCHANGED apiVars => KindsTyped' /\ http' \in BOOLEAN /\ latest' \in Go!Number
  BY <1>3 DEF apiVars, RestTyped
<1>5. ASSUME UNCHANGED <<goVars, step>>, KindsTyped', http' \in BOOLEAN, latest' \in Go!Number
      PROVE  RestTyped'
  BY <1>2, <1>5 DEF RestTyped
<1>6. ASSUME NEW o \in Op,
             CallUp(o) \/ SnapshotLoaded(o) \/ CallDown(o) \/ Continue(o) \/ UpTimesOut(o)
      PROVE  RestTyped'
  <2>1. /\ MainOnly /\ http' \in {http, TRUE, FALSE} /\ latest' \in {latest, 0}
    BY <1>6 DEF CallUp, SnapshotLoaded, CallDown, Continue, UpStarted, UpChecked, UpSettled,
         UpTimesOut, Returns, Throws, Reset
  <2>2. Kinds[o] \subseteq UpKinds \cup {"down", "logout"}
    <3>1. Kinds[o] \in SUBSET {"up", "upKey", "down", "logout"}
      BY NodeAssumption DEF Op
    <3> QED  BY <3>1 DEF UpKinds
  <2>3. \/ UpChecked(o) /\ ~AskStatus(o, "final")
        \/ \E k \in Kinds[o] : \E at : op' = [op EXCEPT ![o].kind = k, ![o].at = at]
        \/ \E at : op' = [op EXCEPT ![o].at = at]
        \/ \E at, g : op' = [op EXCEPT ![o].at = at, ![o].engine = g]
        \/ \E at : op' = [op EXCEPT ![o] = [NewOp EXCEPT !.kind = op[o].kind, !.at = at]]
    <3>1. CASE UpChecked(o)
      BY <3>1 DEF AskStatus
    <3>2. CASE ~UpChecked(o)
      BY <1>6, <3>2 DEF CallUp, SnapshotLoaded, CallDown, Continue, UpStarted, UpSettled,
           UpTimesOut, Returns, Throws, AskStatus
    <3> QED  BY <3>1, <3>2
  <2>4. op'[o].kind \in Kinds[o] \cup {op[o].kind} /\ \A p \in Op \ {o} : op'[p] = op[p]
    <3>1. CASE UpChecked(o) /\ ~AskStatus(o, "final")
      BY <1>1, <3>1, CheckSettles
    <3>2. CASE ~(UpChecked(o) /\ ~AskStatus(o, "final"))
      BY <1>1, <2>3, <3>2 DEF OpTyped, NewOp
    <3> QED  BY <3>1, <3>2
  <2>5. KindsTyped'
    BY <2>2, <2>4 DEF RestTyped, KindsTyped
  <2> QED  BY <1>5, <2>1, <2>5, Numbers DEF RestTyped, MainOnly
<1>7. CASE HandleStatus
  <2>1. /\ MainOnly /\ UNCHANGED <<http, latest>>
        /\ op' = [o \in Op |-> Hears(o, Head(inbox).event.state, Head(inbox).event.engine)]
    BY <1>7 DEF HandleStatus
  <2>2. ASSUME NEW o \in Op  PROVE op'[o].kind = op[o].kind
    <3>1. op'[o] = Hears(o, Head(inbox).event.state, Head(inbox).event.engine)
      BY <2>1
    <3> QED  BY <1>1, <3>1 DEF Hears, OpTyped
  <2> QED  BY <1>5, <2>1, <2>2 DEF RestTyped, KindsTyped, MainOnly
<1>8. CASE HandlePeers
  <2>1. MainOnly /\ UNCHANGED <<op, http>> /\ latest' = Head(inbox).event.engine
    BY <1>8 DEF HandlePeers
  <2>2. Head(inbox).event.engine \in Go!Number
    <3>1. Head(inbox).event \in Go!Events /\ Head(inbox).event.type = "peers"
      BY <1>8, PushedEvent DEF HandlePeers
    <3> QED  BY <3>1 DEF Go!Events, Go!Error
  <2> QED  BY <1>3, <1>5, <2>1, <2>2 DEF RestTyped, MainOnly
<1>9. CASE HandleError \/ HandleReady \/ HandleResponse
  BY <1>4, <1>5, <1>9 DEF HandleError, HandleReady, HandleResponse, MainOnly
<1>10. CASE SpawnFails \/ HandleBootFailure \/ HandleExit
  <2>1. Go!StopUnheard /\ UNCHANGED <<step, apiVars>>
    BY <1>10 DEF SpawnFails, HandleBootFailure, HandleExit
  <2>2. GoRest'
    BY <1>1, <2>1, StopRest DEF Go!StopUnheard, Go!StopLocked, GoRest
  <2> QED  BY <1>4, <2>1, <2>2 DEF RestTyped
<1>11. CASE BootSucceeds
  BY <1>1, <1>4, <1>11 DEF BootSucceeds, serverVars, watchVars, GoRest, RestTyped
<1>12. CASE BootFails \/ Forward \/ Exit
  BY <1>4, <1>5, <1>12 DEF BootFails, Forward, Exit, MainOnly
<1>13. CASE Begin
  <2>1. /\ UNCHANGED <<dartPort, serverVars, changes, apiVars>>
        /\ Go!StopWatch \/ UNCHANGED watchVars
        /\ step' \in {"start", "stop", "read", "refuse"}
    BY <1>13, ZenonT(30) DEF Begin
  <2>2. stored' = stored
    BY <2>1 DEF serverVars
  <2>3. GoRest'
    <3>1. CASE Go!StopWatch
      BY <1>1, <2>1, <2>2, <3>1, StopRest DEF GoRest
    <3>2. CASE UNCHANGED watchVars
      BY <1>1, <2>1, <2>2, <3>2 DEF GoRest, watchVars
    <3> QED  BY <2>1, <3>1, <3>2
  <2> QED  BY <1>4, <2>1, <2>3 DEF RestTyped, Steps
<1>14. CASE Execute
  <2>1. UNCHANGED apiVars /\ step' \in Steps
    BY <1>14 DEF Execute, Refuse, ReadStatus, ExecStart, ExecStartFails, ExecStartWatch, ExecStop,
         ExecWipe, ExecWipeFails, RespondWith, Steps
  <2>2. GoRest'
    <3>1. \/ UNCHANGED goVars
          \/ Go!Stop \/ Go!StartKeeps \/ Go!StartSucceeds \/ Go!StartFails
          \/ Go!StartWatch \/ Go!StartWatchFails \/ Go!Wipe \/ Go!WipeFails
      BY <1>14 DEF Execute, Refuse, ReadStatus, ExecStart, ExecStartFails, ExecStartWatch, ExecStop,
           ExecWipe, ExecWipeFails
    <3> QED  BY <1>1, <1>2, <3>1, ExecuteRest
  <2> QED  BY <1>4, <2>1, <2>2 DEF RestTyped
<1>15. CASE Runtime
  <2>1. UNCHANGED <<step, apiVars>>
    BY <1>15 DEF Runtime, NodeChanges, TimerFires, Goroutine, WatchBreaks, RuntimeOnly
  <2> QED  BY <1>1, <1>4, <1>15, <2>1, RuntimeRest DEF RestTyped
<1>16. CASE UNCHANGED vars
  BY <1>4, <1>5, <1>16 DEF vars
<1> QED  BY <1>6, <1>7, <1>8, <1>9, <1>10, <1>11, <1>12, <1>13, <1>14, <1>15, <1>16
         DEF Next, Main, HandleMessage, WorkerStep

\* The initial values.
LEMMA RestStarts == Init => RestTyped
<1> SUFFICES ASSUME Init  PROVE RestTyped
  OBVIOUS
<1>1. KindsTyped
  BY DEF Init, NewOp, KindsTyped
<1>2. GoRest
  <2>1. MaxChanges \in 0 .. MaxChanges
    BY NodeAssumption
  <2>2. /\ dartPort = FALSE /\ stored \in BOOLEAN /\ watchers = 0 /\ cancelled = {}
        /\ publishing = {} /\ watchCancel = 0 /\ timer = 0 /\ cache = 0 /\ changes = MaxChanges
    BY DEF Init, Go!GoInit
  <2> QED  BY <2>1, <2>2, Numbers DEF GoRest
<1>3. step = "none" /\ http = FALSE /\ latest = 0
  BY DEF Init
<1> QED  BY <1>1, <1>2, <1>3, Numbers DEF RestTyped, Steps

\* Every variable of the composition holds a value of its type, for any sequence of
\* lifecycle calls, any number of watchers and any faults.
THEOREM NodeTyped == Spec => []NodeTypeOK
<1>1. Init => NodeInv /\ RestTyped
  BY NodeStarts, RestStarts
<1>2. NodeInv /\ RestTyped /\ [Next]_vars => (NodeInv /\ RestTyped)'
  BY NodeKept, RestKept
<1>3. NodeInv /\ RestTyped => NodeTypeOK
  <2> SUFFICES ASSUME NodeInv, RestTyped  PROVE NodeTypeOK
    OBVIOUS
  <2>1. Rpc!RpcTypeOK
    <3>1. /\ Layer!Calls = Rpc!Calls /\ Layer!Command = Rpc!Command /\ Layer!Push = Rpc!Push
          /\ Layer!Response = Rpc!Response /\ Layer!Notice = Rpc!Notice
          /\ Layer!Completer = Rpc!Completer
      BY DEF Layer!Calls, Rpc!Calls, Layer!Command, Rpc!Command, Layer!Push, Rpc!Push,
             Layer!Response, Rpc!Response, Layer!Notice, Rpc!Notice, Layer!Completer, Rpc!Completer
    <3> QED  BY <3>1 DEF NodeInv, Layer!RpcInv, Layer!RpcTypeOK, Rpc!RpcTypeOK
  <2>2. Go!GoTypeOK
    BY DEF NodeInv, GoTyped, RestTyped, GoRest, Go!GoTypeOK, Go!Watcher
  <2>3. op \in [Op -> [kind : UpKinds \cup {"down", "logout", Nothing}, at : Places,
                       last : State \cup {Nothing}, early : BOOLEAN,
                       stable : Stable \cup {Nothing}, engine : Go!Number, by : Go!Number]]
    BY DEF NodeInv, OpTyped, RestTyped, KindsTyped
  <2> QED  BY <2>1, <2>2, <2>3 DEF RestTyped, Steps, Places, NodeTypeOK
<1> QED  BY <1>1, <1>2, <1>3, PTL DEF Spec

-----------------------------------------------------------------------------
(* The wait of an up for a stable state.  The state it looks for may pass  *)
(* while it is still being asked for: the answer of the status check is    *)
(* older than what is pushed behind it, and a push that arrives before the *)
(* answer is remembered.                                                   *)

\* The node is stable and watched, and nothing will tell.
Missed == Deliverable /\ ~OnItsWay

\* The answer to the status check that makes an up wait.
Unstable(reply) == reply.ok /\ reply.state \notin Stable

Told(o) ==
    \/ \E i \in 1 .. Len(inbox) :
         inbox[i].kind = "response" /\ inbox[i].to = o /\ Unstable(inbox[i].reply)
    \/ call[o].at = "answered" /\ Unstable(call[o].by.reply)

\* An up that waits, or is bound to, and has seen nothing stable so far.
Blind(o) ==
    /\ op[o].stable = Nothing /\ ~op[o].early
    /\ op[o].at = "settle" \/ (op[o].at = "check" /\ Told(o))

NoneMissed == \A o \in Op : Blind(o) => ~Missed

\* The filter of duplicates hides no `running' from an up that has not heard one.
NoDuplicate ==
    \A o \in Op :
        op[o].at \in {"idle", "snapshot", "start", "check", "settle"} /\ op[o].stable = Nothing
            /\ ~op[o].early
        => op[o].last # "Running"

\* An up that checks the status has no other request under way.
QueueChecks ==
    \A i \in 1 .. Len(queue) :
        queue[i].kind = "command" /\ op[queue[i].from].at = "check" => queue[i].what = "status"
ExecutingChecks ==
    \A i \in 1 .. Len(executing) :
        op[executing[i].from].at = "check" => executing[i].what = "status"
WaitingChecks ==
    \A o \in Op : op[o].at = "check" /\ call[o].at = "waiting" => call[o].what = "status"

\* What the runtime says while the worker runs is posted, and there is no watcher
\* before it does.
Connected == (isolate = "running" => dartPort) /\ (isolate = "booting" => watchCancel = 0)

SettleInv == NoneMissed /\ NoDuplicate /\ QueueChecks /\ ExecutingChecks /\ WaitingChecks /\ Connected

\* A call that awaits no answer has neither a command nor an answer under way.
LEMMA NothingUnderWay ==
    ASSUME NodeInv, NEW o \in Op, call[o].at # "sent"
    PROVE  /\ \A i \in 1 .. Len(queue) : queue[i].kind = "command" => queue[i].from # o
           /\ \A i \in 1 .. Len(executing) : executing[i].from # o
           /\ \A i \in 1 .. Len(inbox) : inbox[i].kind = "response" => inbox[i].to # o
<1>1. CASE disposed
  <2>1. queue = <<>> /\ executing = <<>> /\ inbox = <<>>
    BY <1>1 DEF NodeInv, Layer!RpcInv, Layer!Shapes
  <2>2. Len(<<>>) = 0
    OBVIOUS
  <2> QED  BY <2>1, <2>2
<1>2. CASE ~disposed
  <2>1. Layer!Aligned(pending, answered, inbox, executing, queue, isolate = "running")
    BY <1>2 DEF NodeInv, Layer!RpcInv, Layer!Path
  <2>2. pending \in Seq(Layer!Completer) /\ answered \in Nat
    BY DEF NodeInv, Layer!RpcInv, Layer!RpcTypeOK
  <2>3. ASSUME NEW n, NEW c, Layer!Open(pending, answered, n, c)  PROVE c # o
    <3>1. n \in answered + 1 .. answered + Len(pending) /\ pending[n - answered].from = c
      BY <2>3 DEF Layer!Open
    <3>2. n - answered \in 1 .. Len(pending)
      BY <2>2, <3>1
    <3>3. call[pending[n - answered].from].at = "sent"
      BY <3>2 DEF NodeInv, Layer!RpcInv, Layer!Senders
    <3> QED  BY <3>1, <3>3
  <2>4. \A i \in 1 .. Len(queue) : queue[i].kind = "command" => queue[i].from # o
    BY <2>1, <2>3 DEF Layer!Aligned, Layer!QueueAligned
  <2>5. \A i \in 1 .. Len(executing) : executing[i].from # o
    BY <2>1, <2>3 DEF Layer!Aligned, Layer!ExecutingAligned
  <2>6. \A i \in 1 .. Len(inbox) : inbox[i].kind = "response" => inbox[i].to # o
    BY <2>1, <2>3 DEF Layer!Aligned, Layer!InboxAligned
  <2> QED  BY <2>4, <2>5, <2>6
<1> QED  BY <1>1, <1>2

\* The first element of a sequence and the others.
LEMMA TailOf ==
    ASSUME NEW S, NEW s \in Seq(S), s # <<>>
    PROVE  /\ Len(s) \in Nat /\ 1 \in 1 .. Len(s) /\ Head(s) = s[1]
           /\ DOMAIN s = 1 .. Len(s) /\ DOMAIN Tail(s) = 1 .. Len(Tail(s))
           /\ \A i \in DOMAIN Tail(s) : i + 1 \in DOMAIN s /\ Tail(s)[i] = s[i + 1]
           /\ \A i \in DOMAIN s : i = 1 \/ (i - 1 \in DOMAIN Tail(s) /\ Tail(s)[i - 1] = s[i])
<1>1. /\ Len(s) \in Nat \ {0} /\ Tail(s) \in Seq(S) /\ Len(Tail(s)) = Len(s) - 1
      /\ \A i \in 1 .. Len(Tail(s)) : Tail(s)[i] = s[i + 1]
  BY HeadTailProperties
<1> QED  BY <1>1

\* A sequence and one more element.
LEMMA AppendTo ==
    ASSUME NEW S, NEW s \in Seq(S), NEW m
    PROVE  /\ DOMAIN s = 1 .. Len(s) /\ Len(s) \in Nat
           /\ DOMAIN Append(s, m) = DOMAIN s \cup {Len(s) + 1}
           /\ Append(s, m)[Len(s) + 1] = m
           /\ \A i \in DOMAIN s : Append(s, m)[i] = s[i]
OBVIOUS

\* What is kept of the pushes keeps what they say.
LEMMA StableKept ==
    ASSUME NEW a, NEW b,
           \A i \in DOMAIN a : a[i].kind = "push" => \E j \in DOMAIN b : b[j] = a[i],
           PushesStable(a)
    PROVE  PushesStable(b)
BY DEF PushesStable

\* What the runtime posts, or the worker responds, takes nothing away.
LEMMA PostsKeepStable ==
    ASSUME NodeInv, Pushes \/ UNCHANGED queue, PushesStable(queue)
    PROVE  PushesStable(queue')
<1>1. CASE UNCHANGED queue
  BY <1>1
<1>2. CASE Pushes
  <2>1. PICK e \in Go!Events : queue' = Append(queue, [kind |-> "push", event |-> e])
    BY <1>2 DEF Pushes, Rpc!Posts
  <2> DEFINE m == [kind |-> "push", event |-> e]
  <2>2. queue' = Append(queue, m)
    BY <2>1
  <2> HIDE DEF m
  <2>3. queue \in Seq(Rpc!Command \cup Rpc!Push)
    BY Typed
  <2>4. \A i \in DOMAIN queue : i \in DOMAIN queue' /\ queue'[i] = queue[i]
    BY <2>2, <2>3, AppendTo
  <2> QED  BY <2>4, StableKept
<1> QED  BY <1>1, <1>2

\* The node is as it was, and nothing stable was taken from the queues.
LEMMA MissedBefore ==
    ASSUME UNCHANGED <<engine, nodeState, watcher, cancelled, watchCancel>>,
           isolate' = "running" => isolate = "running",
           PushesStable(queue) => PushesStable(queue') \/ PushesStable(inbox'),
           PushesStable(inbox) => PushesStable(inbox'),
           Missed'
    PROVE  Missed
BY DEF Missed, Deliverable, OnItsWay, Go!Watching, Carries

\* An answer that is there was there before.
LEMMA ToldBefore ==
    ASSUME NEW o \in Op,
           \A i \in 1 .. Len(inbox') : inbox'[i].kind = "response" =>
               \E j \in 1 .. Len(inbox) : inbox'[i] = inbox[j],
           call'[o].at = "answered" => call'[o] = call[o] \/ Told(o),
           Told(o)'
    PROVE  Told(o)
<1>1. CASE \E i \in 1 .. Len(inbox') :
             inbox'[i].kind = "response" /\ inbox'[i].to = o /\ Unstable(inbox'[i].reply)
  BY <1>1 DEF Told
<1>2. CASE call'[o].at = "answered" /\ Unstable(call'[o].by.reply)
  BY <1>2 DEF Told
<1> QED  BY <1>1, <1>2 DEF Told, Unstable

\* What the commands and callers of an up that checks its status ask for, after a step
\* that adds none but such.
LEMMA ChecksKept ==
    ASSUME NodeInv, SettleInv,
           \A o \in Op : op'[o].at = "check" => op[o].at = "check" \/ call[o].at # "sent",
           \A i \in 1 .. Len(queue') : queue'[i].kind = "command" =>
               \/ \E j \in 1 .. Len(queue) : queue'[i] = queue[j]
               \/ op'[queue'[i].from].at = "check" => queue'[i].what = "status",
           executing' \in {executing, <<>>},
           \A o \in Op : op'[o].at = "check" /\ call'[o].at = "waiting" =>
               (op[o].at = "check" /\ call'[o] = call[o]) \/ call'[o].what = "status"
    PROVE  QueueChecks' /\ ExecutingChecks' /\ WaitingChecks'
<1>1. QueueChecks'
  <2> SUFFICES ASSUME NEW i \in 1 .. Len(queue'), queue'[i].kind = "command",
                      op'[queue'[i].from].at = "check"
               PROVE  queue'[i].what = "status"
    BY DEF QueueChecks
  <2>1. CASE \E j \in 1 .. Len(queue) : queue'[i] = queue[j]
    <3>1. PICK j \in 1 .. Len(queue) : queue'[i] = queue[j]
      BY <2>1
    <3>2. queue[j].kind = "command" /\ queue[j].from \in Op
      BY <3>1, LogoutTyped DEF Rpc!Command
    <3>3. op[queue[j].from].at = "check"
      BY <3>1, <3>2, NothingUnderWay
    <3> QED  BY <3>1, <3>2, <3>3 DEF SettleInv, QueueChecks
  <2> QED  BY <2>1
<1>2. ExecutingChecks'
  <2>1. CASE executing' = <<>>
    BY <2>1 DEF ExecutingChecks
  <2>2. CASE executing' = executing
    <3> SUFFICES ASSUME NEW i \in 1 .. Len(executing), op'[executing[i].from].at = "check"
                 PROVE  executing[i].what = "status"
      BY <2>2 DEF ExecutingChecks
    <3>1. executing[i].from \in Op
      BY LogoutTyped DEF Rpc!Command
    <3>2. op[executing[i].from].at = "check"
      BY <3>1, NothingUnderWay
    <3> QED  BY <3>2 DEF SettleInv, ExecutingChecks
  <2> QED  BY <2>1, <2>2
<1>3. WaitingChecks'
  BY DEF SettleInv, WaitingChecks
<1> QED  BY <1>1, <1>2, <1>3

\* A lifecycle call makes its next request.
LEMMA SettleAsks ==
    ASSUME NodeInv, SettleInv, NEW o \in Op, NEW what \in Requests, Rpc!Ask(o, what), MainOnly,
           call[o].at # "sent", \A p \in Op \ {o} : op'[p] = op[p],
           op'[o].at # "settle", op'[o].at = "check" => what = "status", NoDuplicate'
    PROVE  SettleInv'
<1>1. /\ UNCHANGED <<inbox, executing, isolate>>
      /\ UNCHANGED <<engine, nodeState, watcher, cancelled, watchCancel, dartPort>>
      /\ \A p \in Op \ {o} : call'[p] = call[p]
      /\ call'[o].at # "answered" /\ (call'[o].at = "waiting" => call'[o].what = what)
  BY Typed DEF Rpc!Ask, MainOnly, goVars, serverVars, watchVars
<1>2. /\ PushesStable(queue) => PushesStable(queue')
      /\ \A i \in 1 .. Len(queue') :
           \/ \E j \in 1 .. Len(queue) : queue'[i] = queue[j]
           \/ queue'[i].from = o /\ queue'[i].what = what
  <2>1. CASE queue' = queue
    BY <2>1
  <2>2. CASE Rpc!Send(<<[c |-> o, what |-> what]>>)
    <3> DEFINE s == <<[c |-> o, what |-> what]>>
    <3>1. s \in Seq([c : Op, what : Requests]) /\ Len(s) = 1 /\ s[1].c = o /\ s[1].what = what
      OBVIOUS
    <3>2. Rpc!Send(s)
      BY <2>2
    <3> HIDE DEF s
    <3>3. /\ \A i \in DOMAIN queue : i \in DOMAIN queue' /\ queue'[i] = queue[i]
          /\ \A i \in 1 .. Len(queue') :
              \/ \E j \in 1 .. Len(queue) : queue'[i] = queue[j]
              \/ \E j \in 1 .. Len(s) : queue'[i].from = s[j].c /\ queue'[i].what = s[j].what
      BY <3>1, <3>2, SendAdds
    <3>4. PushesStable(queue) => PushesStable(queue')
      BY <3>3, StableKept
    <3>5. \A j \in 1 .. Len(s) : j = 1
      BY <3>1
    <3> QED  BY <3>1, <3>3, <3>4, <3>5
  <2> QED  BY <2>1, <2>2 DEF Rpc!Ask
<1>3. QueueChecks' /\ ExecutingChecks' /\ WaitingChecks'
  BY <1>1, <1>2, ChecksKept
<1>4. ASSUME NEW p \in Op, Blind(p)'  PROVE Blind(p)
  <2>1. CASE p = o
    <3>1. ~Told(o)'
      BY <1>1, NothingUnderWay DEF Told
    <3> QED  BY <1>4, <2>1, <3>1 DEF Blind
  <2>2. CASE p # o
    BY <1>1, <1>4, <2>2, ToldBefore DEF Blind
  <2> QED  BY <2>1, <2>2
<1>5. Missed' => Missed
  BY <1>1, <1>2, MissedBefore
<1> QED  BY <1>1, <1>3, <1>4, <1>5 DEF SettleInv, NoneMissed, Connected

\* A lifecycle call goes on without a request.
LEMMA SettleGoesOn ==
    ASSUME NodeInv, SettleInv, NEW o \in Op, MainOnly, UNCHANGED <<inbox, queue, executing, isolate>>,
           \A p \in Op \ {o} : op'[p] = op[p] /\ call'[p] = call[p],
           op'[o].at # "check", Blind(o)' => Blind(o), NoDuplicate'
    PROVE  SettleInv'
<1>1. UNCHANGED <<engine, nodeState, watcher, cancelled, watchCancel, dartPort>>
  BY DEF MainOnly, goVars, serverVars, watchVars
<1>2. QueueChecks' /\ ExecutingChecks' /\ WaitingChecks'
  BY ChecksKept
<1>3. ASSUME NEW p \in Op, Blind(p)'  PROVE Blind(p)
  <2>1. CASE p # o
    BY <1>3, <2>1, ToldBefore DEF Blind
  <2> QED  BY <1>3, <2>1
<1>4. Missed' => Missed
  BY <1>1, MissedBefore
<1> QED  BY <1>1, <1>2, <1>3, <1>4 DEF SettleInv, NoneMissed, Connected

\* The steps of a lifecycle call.
LEMMA SettleCalls ==
    ASSUME NodeInv, LogoutInv, SettleInv, NEW o \in Op,
           CallUp(o) \/ SnapshotLoaded(o) \/ CallDown(o) \/ Continue(o) \/ UpTimesOut(o)
    PROVE  SettleInv'
<1> DEFINE Early == {"idle", "snapshot", "start", "check", "settle"}
<1>1. /\ op \in [Op -> [kind : Requests \cup {Nothing}, at : Places, last : State \cup {Nothing},
                        early : BOOLEAN, stable : Stable \cup {Nothing},
                        engine : Go!Number, by : Go!Number]]
      /\ "status" \in Requests /\ UpKinds \subseteq Requests /\ Awaiting
  BY Typed DEF OpTyped, Requests
<1>2. ASSUME \A p \in Op \ {o} : op'[p] = op[p],
             \/ op'[o].at \notin Early
             \/ /\ op[o].at \in Early /\ op'[o].last = op[o].last
                /\ op'[o].stable = op[o].stable /\ op'[o].early = op[o].early
      PROVE  NoDuplicate'
  BY <1>2 DEF SettleInv, NoDuplicate
<1>3. ASSUME NEW at, op' = [op EXCEPT ![o].at = at]
      PROVE  /\ op'[o].at = at /\ op'[o].last = op[o].last /\ op'[o].stable = op[o].stable
             /\ op'[o].early = op[o].early /\ \A p \in Op \ {o} : op'[p] = op[p]
  BY <1>1, <1>3
<1>4. ASSUME GoOn(o) \/ UNCHANGED <<rpcVars, queue>>
      PROVE  /\ UNCHANGED <<inbox, queue, executing, isolate>>
             /\ \A p \in Op \ {o} : call'[p] = call[p]
  BY <1>4, Typed DEF GoOn, Rpc!Consume, rpcVars
<1>5. CASE CallUp(o)
  <2>1. PICK k \in UpKinds : op' = [op EXCEPT ![o].kind = k, ![o].at = "snapshot"]
    BY <1>5 DEF CallUp
  <2>2. /\ op'[o].at = "snapshot" /\ op'[o].last = op[o].last /\ op'[o].stable = op[o].stable
        /\ op'[o].early = op[o].early /\ \A p \in Op \ {o} : op'[p] = op[p]
    BY <1>1, <2>1
  <2>3. op[o].at = "idle" /\ UNCHANGED <<rpcVars, queue>> /\ MainOnly
    BY <1>5 DEF CallUp, IsNext
  <2>4. NoDuplicate'
    BY <1>2, <2>2, <2>3
  <2>5. ~Blind(o)'
    BY <2>2 DEF Blind
  <2> QED  BY <1>4, <2>2, <2>3, <2>4, <2>5, SettleGoesOn
<1>6. CASE SnapshotLoaded(o)
  <2>1. /\ op[o].at = "snapshot" /\ op' = [op EXCEPT ![o].at = "start"]
        /\ Rpc!Ask(o, op[o].kind) /\ MainOnly
    BY <1>6 DEF SnapshotLoaded
  <2>2. call[o].at # "sent" /\ op[o].kind \in Requests
    BY <1>1, <2>1 DEF Awaiting
  <2>3. NoDuplicate'
    BY <1>2, <1>3, <2>1
  <2> QED  BY <1>3, <2>1, <2>2, <2>3, SettleAsks
<1>7. CASE CallDown(o)
  <2>1. PICK k \in Kinds[o] \ UpKinds :
          op' = [op EXCEPT ![o].kind = k, ![o].at = "act"] /\ Rpc!Ask(o, k)
    BY <1>7 DEF CallDown
  <2>2. k \in Requests
    <3>1. Kinds[o] \in SUBSET {"up", "upKey", "down", "logout"}
      BY NodeAssumption DEF Op
    <3> QED  BY <2>1, <3>1 DEF UpKinds, Requests
  <2>3. op'[o].at = "act" /\ \A p \in Op \ {o} : op'[p] = op[p]
    BY <1>1, <2>1
  <2>4. MainOnly /\ op[o].at = "idle"
    BY <1>7 DEF CallDown, IsNext
  <2>5. call[o].at # "sent" /\ NoDuplicate'
    BY <1>1, <1>2, <2>3, <2>4 DEF Awaiting
  <2> QED  BY <2>1, <2>2, <2>3, <2>4, <2>5, SettleAsks
<1>8. CASE UpStarted(o)
  <2>1. /\ op[o].at = "start" /\ Rpc!Ask(o, "status") /\ MainOnly /\ call[o].at # "sent"
        /\ op' = [op EXCEPT ![o].at = "check", ![o].engine = ReplyTo(o).engine]
    BY <1>8 DEF UpStarted, Got
  <2>2. /\ op'[o].at = "check" /\ op'[o].last = op[o].last /\ op'[o].stable = op[o].stable
        /\ op'[o].early = op[o].early /\ \A p \in Op \ {o} : op'[p] = op[p]
    BY <1>1, <2>1
  <2>3. NoDuplicate'
    BY <1>2, <2>1, <2>2
  <2> QED  BY <1>1, <2>1, <2>2, <2>3, SettleAsks
<1>9. ASSUME NEW at \in {"final", "last"}, AskStatus(o, at), MainOnly, call[o].at # "sent"
      PROVE  SettleInv'
  <2>1. Rpc!Ask(o, "status") /\ op' = [op EXCEPT ![o].at = at]
    BY <1>9 DEF AskStatus
  <2>2. op'[o].at = at /\ \A p \in Op \ {o} : op'[p] = op[p]
    BY <1>3, <2>1
  <2>3. NoDuplicate'
    BY <1>2, <2>2
  <2> QED  BY <1>1, <1>9, <2>1, <2>2, <2>3, SettleAsks
<1>10. CASE UpChecked(o)
  <2>1. /\ op[o].at = "check" /\ call[o].at = "answered" /\ MainOnly /\ call[o].by.reply.ok
    BY <1>10 DEF UpChecked, Got
  <2>2. CASE AskStatus(o, "final")
    BY <1>9, <2>1, <2>2
  <2>3. CASE ~AskStatus(o, "final")
    <3>1. /\ ~SeesStable(o) /\ GoOn(o) /\ op'[o].at = "settle"
          /\ op'[o].last = op[o].last /\ op'[o].stable = op[o].stable
          /\ op'[o].early = op[o].early /\ \A p \in Op \ {o} : op'[p] = op[p]
      BY <1>10, <2>3, Typed, CheckSettles
    <3>2. Told(o)
      BY <2>1, <3>1 DEF SeesStable, ReplyTo, Told, Unstable
    <3>3. Blind(o)' => Blind(o)
      BY <2>1, <3>1, <3>2 DEF Blind
    <3>4. NoDuplicate'
      BY <1>2, <2>1, <3>1
    <3>5. /\ UNCHANGED <<inbox, queue, executing, isolate>>
          /\ \A p \in Op \ {o} : call'[p] = call[p]
      BY <1>4, <3>1
    <3> QED  BY <2>1, <3>1, <3>3, <3>4, <3>5, SettleGoesOn
  <2> QED  BY <2>2, <2>3
<1>11. CASE UpSettled(o) \/ UpTimesOut(o)
  <2>1. op[o].at = "settle" /\ MainOnly /\ (AskStatus(o, "final") \/ AskStatus(o, "last"))
    BY <1>11 DEF UpSettled, UpTimesOut, Resumable
  <2>2. call[o].at # "sent"
    BY <1>1, <2>1 DEF Awaiting
  <2> QED  BY <1>9, <2>1, <2>2
<1>12. CASE Returns(o) \/ Throws(o)
  <2>1. PICK at \in {"done", "failed"} :
          op' = [op EXCEPT ![o] = [NewOp EXCEPT !.kind = op[o].kind, !.at = at]]
    BY <1>12 DEF Returns, Throws
  <2>2. op'[o].at = at /\ \A p \in Op \ {o} : op'[p] = op[p]
    BY <1>1, <2>1 DEF NewOp
  <2>3. GoOn(o) /\ MainOnly
    BY <1>12 DEF Returns, Throws
  <2>4. NoDuplicate'
    BY <1>2, <2>2
  <2>5. ~Blind(o)'
    BY <2>2 DEF Blind
  <2> QED  BY <1>4, <2>2, <2>3, <2>4, <2>5, SettleGoesOn
<1> QED  BY <1>5, <1>6, <1>7, <1>8, <1>10, <1>11, <1>12 DEF Continue

\* A step that leaves the lifecycle calls alone, and neither answers a status check nor
\* takes the last stable state away.
LEMMA SettleMoves ==
    ASSUME NodeInv, SettleInv, UNCHANGED op,
           \A i \in 1 .. Len(queue') : queue'[i].kind = "command" =>
               \/ \E j \in 1 .. Len(queue) : queue'[i] = queue[j]
               \/ op'[queue'[i].from].at = "check" => queue'[i].what = "status",
           executing' \in {executing, <<>>},
           \A o \in Op : call'[o].at = "waiting" => call'[o] = call[o],
           Missed' => Missed /\ \A o \in Op : op[o].at = "check" /\ Told(o)' => Told(o),
           Connected'
    PROVE  SettleInv'
<1>1. QueueChecks' /\ ExecutingChecks' /\ WaitingChecks'
  BY ChecksKept
<1>2. NoDuplicate'
  BY DEF SettleInv, NoDuplicate
<1>3. NoneMissed'
  BY DEF SettleInv, NoneMissed, Blind
<1> QED  BY <1>1, <1>2, <1>3 DEF SettleInv

\* A message that is no stable state is taken from the inbox.
LEMMA TailKeepsStable ==
    ASSUME NodeInv, inbox # <<>>, inbox' = Tail(inbox), PushesStable(inbox),
           Head(inbox).kind = "push" /\ Head(inbox).event.type = "status" =>
               Head(inbox).event.state \notin Stable
    PROVE  PushesStable(inbox')
<1>1. inbox \in Seq(Rpc!Response \cup Rpc!Push \cup Rpc!Notice)
  BY Typed
<1>2. /\ Head(inbox) = inbox[1]
      /\ \A i \in DOMAIN inbox : i = 1 \/ (i - 1 \in DOMAIN inbox' /\ inbox'[i - 1] = inbox[i])
  BY <1>1, TailOf
<1>3. PICK i \in DOMAIN inbox : inbox[i].kind = "push" /\ inbox[i].event.type = "status"
                                /\ inbox[i].event.state \in Stable
  BY DEF PushesStable
<1>4. i - 1 \in DOMAIN inbox' /\ inbox'[i - 1] = inbox[i]
  BY <1>2, <1>3
<1> QED  BY <1>3, <1>4 DEF PushesStable

\* Taking a push from the inbox answers nobody.
LEMMA PushTaken ==
    ASSUME NodeInv, SettleInv, Rpc!HandlePush, MainOnly
    PROVE  /\ inbox # <<>> /\ inbox' = Tail(inbox) /\ UNCHANGED <<call, queue, executing, isolate>>
           /\ UNCHANGED <<engine, nodeState, watcher, cancelled, watchCancel, dartPort>>
           /\ Connected' /\ \A o \in Op : Told(o)' => Told(o)
<1>1. /\ inbox # <<>> /\ inbox' = Tail(inbox) /\ UNCHANGED <<call, queue, executing, isolate>>
      /\ UNCHANGED <<engine, nodeState, watcher, cancelled, watchCancel, dartPort>>
  BY DEF Rpc!HandlePush, Rpc!NextMessage, Rpc!mainVars, MainOnly, goVars, serverVars, watchVars
<1>2. \A o \in Op : Told(o)' => Told(o)
  BY <1>1, InboxTail, ToldBefore
<1> QED  BY <1>1, <1>2 DEF SettleInv, Connected

\* The states the listeners of up are told.  A stable one is heard by every up that
\* waits for it.
LEMMA SettleHears ==
    ASSUME NodeInv, LogoutInv, SettleInv, HandleStatus
    PROVE  SettleInv'
<1> DEFINE s == Head(inbox).event.state
           g == Head(inbox).event.engine
<1>1. /\ Rpc!HandlePush /\ MainOnly /\ op' = [o \in Op |-> Hears(o, s, g)]
      /\ Head(inbox).event.type = "status"
  BY DEF HandleStatus, NextPush
<1>2. /\ op \in [Op -> [kind : Requests \cup {Nothing}, at : Places, last : State \cup {Nothing},
                        early : BOOLEAN, stable : Stable \cup {Nothing},
                        engine : Go!Number, by : Go!Number]]
      /\ Nothing \notin Stable /\ Stable = {"Running", "NeedsLogin"}
  BY Typed DEF OpTyped, Stable, Nothing
<1>3. /\ inbox # <<>> /\ inbox' = Tail(inbox) /\ UNCHANGED <<call, queue, executing, isolate>>
      /\ UNCHANGED <<engine, nodeState, watcher, cancelled, watchCancel, dartPort>>
      /\ Connected' /\ \A o \in Op : Told(o)' => Told(o)
  BY <1>1, PushTaken
<1>4. s \notin Stable => (Missed' => Missed)
  BY <1>3, TailKeepsStable, MissedBefore
<1> HIDE DEF s, g
<1>5. ASSUME NEW o \in Op
      PROVE  /\ op'[o].at = op[o].at
             /\ op'[o].stable = Nothing => op[o].stable = Nothing
             /\ ~op'[o].early => ~op[o].early
             /\ op[o].at \in {"check", "settle"} /\ op'[o].stable = Nothing =>
                  Filters(o, s) \/ s \notin Stable
             /\ op'[o].last \in {op[o].last, s}
             /\ op'[o].last # op[o].last /\ s = "Running" /\ op'[o].stable = Nothing =>
                  \/ op[o].at \notin {"idle", "snapshot", "start", "check", "settle"}
                  \/ op'[o].early
  <2> DEFINE early == op[o].early \/ (op[o].at \in {"snapshot", "start"} /\ s = "Running")
  <2>1. /\ op[o] \in [kind : Requests \cup {Nothing}, at : Places, last : State \cup {Nothing},
                      early : BOOLEAN, stable : Stable \cup {Nothing},
                      engine : Go!Number, by : Go!Number]
        /\ op'[o] = Hears(o, s, g)
    BY <1>1, <1>2
  <2>2. op[o].at \in {"check", "settle"} => Listening(o)
    BY DEF LogoutInv, PlacesFit, Listening
  <2>3. CASE ~Listening(o)
    BY <2>1, <2>2, <2>3 DEF Hears
  <2>4. CASE Listening(o) /\ op[o].at \in {"check", "settle"} /\ ~Filters(o, s) /\ s \in Stable
             /\ op[o].stable = Nothing
    <3>1. op'[o] = [op[o] EXCEPT !.last = s, !.stable = s, !.by = g]
      BY <2>1, <2>4 DEF Hears
    <3> QED  BY <1>2, <2>1, <2>4, <3>1
  <2>5. CASE Listening(o) /\ ~(op[o].at \in {"check", "settle"} /\ ~Filters(o, s) /\ s \in Stable
                               /\ op[o].stable = Nothing)
    <3>1. op'[o] = [op[o] EXCEPT !.last = s, !.early = early]
      BY <2>1, <2>5, ZenonT(30) DEF Hears
    <3>2. /\ op[o].early => early
          /\ op[o].at \in {"snapshot", "start"} /\ s = "Running" => early
      OBVIOUS
    <3> HIDE DEF early
    <3>3. /\ op'[o].at = op[o].at /\ op'[o].stable = op[o].stable /\ op'[o].last = s
          /\ op'[o].early = early
      BY <2>1, <3>1
    <3>4. op'[o].last # op[o].last /\ s = "Running" => ~Filters(o, s)
      BY <3>3 DEF Filters
    <3>5. /\ op[o].at \in {"check", "settle"} /\ op'[o].stable = Nothing =>
               Filters(o, s) \/ s \notin Stable
      BY <2>5, <3>3
    <3>6. s = "Running" => s \in Stable
      BY <1>2
    <3>7. Listening(o) => op[o].at # "idle"
      BY DEF Listening
    <3> QED  BY <2>5, <3>2, <3>3, <3>4, <3>5, <3>6, <3>7
  <2> QED  BY <2>3, <2>4, <2>5
<1>6. NoDuplicate'
  BY <1>5 DEF SettleInv, NoDuplicate
<1>7. ASSUME NEW o \in Op, Blind(o)'  PROVE Blind(o) /\ s \notin Stable
  <2>1. Blind(o)
    BY <1>3, <1>5, <1>7 DEF Blind
  <2>2. op[o].last # "Running"
    BY <2>1 DEF Blind, SettleInv, NoDuplicate
  <2>3. Filters(o, s) => s \notin Stable
    BY <1>2, <2>2 DEF Filters
  <2> QED  BY <1>5, <1>7, <2>1, <2>3 DEF Blind
<1>8. NoneMissed'
  BY <1>4, <1>7 DEF SettleInv, NoneMissed
<1>9. QueueChecks' /\ ExecutingChecks' /\ WaitingChecks'
  BY <1>3, <1>5, ChecksKept
<1> QED  BY <1>3, <1>6, <1>8, <1>9 DEF SettleInv

\* The other messages of the worker, and its end.
LEMMA SettleMessages ==
    ASSUME NodeInv, NodeInv', SettleInv,
           HandlePeers \/ HandleError \/ HandleReady \/ HandleResponse \/ HandleBootFailure
             \/ HandleExit \/ SpawnFails
    PROVE  SettleInv'
<1>1. op' = op
  BY DEF HandlePeers, HandleError, HandleReady, HandleResponse, HandleBootFailure, HandleExit,
         SpawnFails, apiVars
<1>2. CASE HandlePeers \/ HandleError
  <2>1. Rpc!HandlePush /\ MainOnly /\ Head(inbox).event.type # "status"
    BY <1>2 DEF HandlePeers, HandleError, NextPush
  <2>2. /\ inbox # <<>> /\ inbox' = Tail(inbox) /\ UNCHANGED <<call, queue, executing, isolate>>
        /\ UNCHANGED <<engine, nodeState, watcher, cancelled, watchCancel, dartPort>>
        /\ Connected' /\ \A o \in Op : Told(o)' => Told(o)
    BY <2>1, PushTaken
  <2>3. Missed' => Missed
    BY <2>1, <2>2, TailKeepsStable, MissedBefore
  <2> QED  BY <1>1, <2>2, <2>3, SettleMoves
<1>3. CASE HandleReady
  <2> DEFINE s == [i \in DOMAIN waiting |-> [c |-> waiting[i], what |-> call[waiting[i]].what]]
  <2>1. /\ Rpc!Send(s) /\ inbox # <<>> /\ inbox' = Tail(inbox) /\ UNCHANGED <<executing, isolate>>
        /\ \A o \in Op : call'[o].at \in {"waiting", "answered"} => call'[o] = call[o]
        /\ Head(inbox).kind = "ready"
    BY <1>3 DEF HandleReady, Rpc!HandleReady, Rpc!NextMessage
  <2>2. UNCHANGED <<engine, nodeState, watcher, cancelled, watchCancel, dartPort>>
    BY <1>3 DEF HandleReady, MainOnly, goVars, serverVars, watchVars
  <2>3. ASSUME NEW i \in 1 .. Len(waiting)
        PROVE  /\ s[i].c \in Op /\ s[i].what \in Requests
               /\ s[i] \in [c : Op, what : Requests]
               /\ op[s[i].c].at = "check" => s[i].what = "status"
    <3>1. waiting[i] \in Op /\ call[waiting[i]].at = "waiting" /\ i \in DOMAIN waiting
      BY LogoutTyped
    <3>2. /\ call[waiting[i]].what \in Requests
          /\ op[waiting[i]].at = "check" => call[waiting[i]].what = "status"
      BY <3>1, LogoutTyped DEF SettleInv, WaitingChecks
    <3> QED  BY <3>1, <3>2
  <2>4. s \in [1 .. Len(waiting) -> [c : Op, what : Requests]]
    BY <2>3, LogoutTyped
  <2> HIDE DEF s
  <2>5. Len(waiting) \in Nat
    BY LogoutTyped
  <2> DEFINE R == [c : Op, what : Requests]
  <2>6. s \in Seq(R) /\ Len(s) = Len(waiting)
    <3>1. s \in [1 .. Len(waiting) -> R]
      BY <2>4
    <3> HIDE DEF R
    <3> QED  BY <2>5, <3>1, Layer!FunctionIsSequence
  <2>7. /\ \A i \in DOMAIN queue : i \in DOMAIN queue' /\ queue'[i] = queue[i]
        /\ \A i \in 1 .. Len(queue') :
            \/ \E j \in 1 .. Len(queue) : queue'[i] = queue[j]
            \/ \E j \in 1 .. Len(s) : queue'[i].from = s[j].c /\ queue'[i].what = s[j].what
    BY <2>1, <2>6, SendAdds
  <2>8. \A i \in 1 .. Len(queue') :
          \/ \E j \in 1 .. Len(queue) : queue'[i] = queue[j]
          \/ op'[queue'[i].from].at = "check" => queue'[i].what = "status"
    BY <1>1, <2>3, <2>6, <2>7
  <2>9. Missed' => Missed
    <3>1. PushesStable(queue) => PushesStable(queue')
      BY <2>7, StableKept
    <3>2. PushesStable(inbox) => PushesStable(inbox')
      BY <2>1, TailKeepsStable
    <3> QED  BY <2>1, <2>2, <3>1, <3>2, MissedBefore
  <2>10. \A o \in Op : Told(o)' => Told(o)
    <3>1. \A i \in 1 .. Len(inbox') : \E j \in 1 .. Len(inbox) : inbox'[i] = inbox[j]
      BY <2>1, InboxTail
    <3> QED  BY <2>1, <3>1, ToldBefore
  <2>11. Connected'
    BY <2>1, <2>2 DEF SettleInv, Connected
  <2> QED  BY <1>1, <2>1, <2>8, <2>9, <2>10, <2>11, SettleMoves
<1>4. CASE HandleResponse
  <2>1. /\ inbox # <<>> /\ inbox' = Tail(inbox) /\ UNCHANGED <<queue, executing, isolate>>
        /\ Head(inbox).kind = "response"
        /\ \/ call' = call
           \/ \E p : call' = [call EXCEPT ![p.from] =
                                 [at |-> "answered", n |-> p.n, by |-> Head(inbox)]]
    BY <1>4 DEF HandleResponse, Rpc!HandleResponse, Rpc!NextMessage
  <2>2. UNCHANGED <<engine, nodeState, watcher, cancelled, watchCancel, dartPort>>
    BY <1>4 DEF HandleResponse, MainOnly, goVars, serverVars, watchVars
  <2>3. ASSUME NEW o \in Op, call'[o] # call[o]
        PROVE  call'[o].at = "answered" /\ call'[o].by = Head(inbox)
    <3>1. PICK p : call' = [call EXCEPT ![p.from] =
                               [at |-> "answered", n |-> p.n, by |-> Head(inbox)]]
      BY <2>1, <2>3
    <3>2. call'[o] = [at |-> "answered", n |-> p.n, by |-> Head(inbox)]
      BY <2>3, <3>1, Typed
    <3> QED  BY <3>2
  <2>4. /\ \A i \in 1 .. Len(inbox') : \E j \in 1 .. Len(inbox) : inbox'[i] = inbox[j]
        /\ Head(inbox) = inbox[1] /\ 1 \in 1 .. Len(inbox)
    BY <2>1, InboxTail
  <2>5. ASSUME NEW o \in Op, Told(o)'
        PROVE  Told(o)
    <3>1. CASE call'[o] = call[o]
      BY <2>4, <2>5, <3>1, ToldBefore
    <3>2. CASE call'[o] # call[o]
      <4>1. call'[o].at = "answered" /\ call'[o].by = inbox[1]
        BY <2>3, <2>4, <3>2
      <4>2. inbox[1].kind = "response" /\ inbox[1].to = o
        <5>1. Layer!AnswersMatch'
          BY DEF NodeInv, Layer!RpcInv
        <5> QED  BY <2>1, <2>4, <4>1, <5>1 DEF Layer!AnswersMatch
      <4>3. Unstable(inbox[1].reply) => Told(o)
        BY <2>4, <4>2 DEF Told
      <4>4. CASE Unstable(call'[o].by.reply)
        BY <4>1, <4>3, <4>4
      <4>5. CASE \E i \in 1 .. Len(inbox') :
                   inbox'[i].kind = "response" /\ inbox'[i].to = o /\ Unstable(inbox'[i].reply)
        BY <2>4, <4>5 DEF Told
      <4> QED  BY <2>5, <4>4, <4>5 DEF Told, Unstable
    <3> QED  BY <3>1, <3>2
  <2>6. Missed' => Missed
    BY <2>1, <2>2, TailKeepsStable, MissedBefore
  <2>7. Connected'
    BY <2>1, <2>2 DEF SettleInv, Connected
  <2>8. \A o \in Op : call'[o].at = "waiting" => call'[o] = call[o]
    BY <2>3
  <2> QED  BY <1>1, <2>1, <2>5, <2>6, <2>7, <2>8, SettleMoves
<1>5. CASE HandleBootFailure \/ HandleExit \/ SpawnFails
  <2>1. Rpc!Dispose
    BY <1>5 DEF HandleBootFailure, HandleExit, SpawnFails, Rpc!HandleBootFailure, Rpc!HandleExit,
         Rpc!SpawnFails
  <2>2. /\ disposed' /\ UNCHANGED <<queue, executing>>
        /\ \A o \in Op : call'[o].at = "waiting" => call'[o] = call[o]
    BY <2>1 DEF Rpc!Dispose
  <2>3. isolate' = "dead"
    BY <2>2 DEF NodeInv, Layer!RpcInv, Layer!Shapes
  <2>4. ~Missed' /\ Connected'
    BY <2>3 DEF Missed, Deliverable, Connected
  <2> QED  BY <1>1, <2>2, <2>4, SettleMoves
<1> QED  BY <1>2, <1>3, <1>4, <1>5

\* The queues of the worker: what leaves the first joins the second.
LEMMA SettleWorks ==
    ASSUME NodeInv, RestTyped, SettleInv, BootSucceeds \/ BootFails \/ Begin \/ Forward \/ Exit
    PROVE  SettleInv'
<1>1. /\ UNCHANGED <<call, op>>
      /\ inbox \in Seq(Rpc!Response \cup Rpc!Push \cup Rpc!Notice)
      /\ queue \in Seq(Rpc!Command \cup Rpc!Push)
  BY Typed DEF BootSucceeds, BootFails, Begin, Forward, Exit, Rpc!BootSucceeds, Rpc!BootFails,
       Rpc!Begin, Rpc!Forward, Rpc!Exit, Rpc!mainVars, apiVars
<1>2. ASSUME NEW m, inbox' = Append(inbox, m), m.kind # "response"
      PROVE  /\ \A o \in Op : Told(o)' => Told(o)
             /\ PushesStable(inbox) => PushesStable(inbox')
             /\ \E i \in DOMAIN inbox' : inbox'[i] = m
  <2>1. /\ DOMAIN inbox = 1 .. Len(inbox) /\ DOMAIN inbox' = DOMAIN inbox \cup {Len(inbox) + 1}
        /\ inbox'[Len(inbox) + 1] = m /\ \A i \in DOMAIN inbox : inbox'[i] = inbox[i]
    BY <1>1, <1>2, AppendTo
  <2>2. DOMAIN inbox' = 1 .. Len(inbox')
    BY <1>1, <1>2
  <2>3. \A i \in 1 .. Len(inbox') : inbox'[i].kind = "response" =>
            \E j \in 1 .. Len(inbox) : inbox'[i] = inbox[j]
    BY <1>2, <2>1, <2>2
  <2>4. \A o \in Op : Told(o)' => Told(o)
    BY <1>1, <2>3, ToldBefore
  <2>5. PushesStable(inbox) => PushesStable(inbox')
    BY <2>1, StableKept
  <2> QED  BY <2>1, <2>4, <2>5
<1>3. ASSUME queue # <<>>, queue' = Tail(queue)
      PROVE  /\ \A i \in 1 .. Len(queue') : \E j \in 1 .. Len(queue) : queue'[i] = queue[j]
             /\ Head(queue) = queue[1] /\ 1 \in 1 .. Len(queue)
             /\ \A i \in DOMAIN queue :
                  queue[i] = Head(queue) \/ \E j \in DOMAIN queue' : queue'[j] = queue[i]
  <2>1. /\ 1 \in 1 .. Len(queue) /\ Head(queue) = queue[1]
        /\ DOMAIN queue = 1 .. Len(queue) /\ DOMAIN queue' = 1 .. Len(queue')
        /\ \A i \in DOMAIN queue' : i + 1 \in DOMAIN queue /\ queue'[i] = queue[i + 1]
        /\ \A i \in DOMAIN queue : i = 1 \/ (i - 1 \in DOMAIN queue' /\ queue'[i - 1] = queue[i])
    BY <1>1, <1>3, TailOf
  <2> QED  BY <2>1
<1>4. CASE BootSucceeds \/ BootFails \/ Exit
  <2>1. /\ executing' = executing /\ queue' \in {queue, <<>>}
        /\ UNCHANGED <<engine, nodeState, watcher, cancelled, watchCancel>>
        /\ \/ isolate' = "dead"
           \/ isolate = "booting" /\ isolate' = "running" /\ dartPort'
        /\ \E k \in {"ready", "bootFailure", "exit"} : inbox' = Append(inbox, [kind |-> k])
    BY <1>4 DEF BootSucceeds, BootFails, Exit, Rpc!BootSucceeds, Rpc!BootFails, Rpc!Exit, MainOnly,
         goVars, serverVars, watchVars
  <2>2. PICK k \in {"ready", "bootFailure", "exit"} : inbox' = Append(inbox, [kind |-> k])
    BY <2>1
  <2>3. \A o \in Op : Told(o)' => Told(o)
    BY <1>2, <2>2
  <2>4. ~Missed' /\ Connected'
    BY <2>1 DEF Missed, Deliverable, SettleInv, Connected
  <2>5. \A i \in 1 .. Len(queue') : \E j \in 1 .. Len(queue) : queue'[i] = queue[j]
    <3>1. Len(<<>>) = 0
      OBVIOUS
    <3> QED  BY <1>1, <2>1, <3>1
  <2> QED  BY <1>1, <2>1, <2>3, <2>4, <2>5, SettleMoves
<1>5. CASE Forward
  <2>1. /\ executing' = executing /\ queue # <<>> /\ queue' = Tail(queue) /\ isolate' = isolate
        /\ inbox' = Append(inbox, Head(queue)) /\ Head(queue).kind = "push"
        /\ UNCHANGED <<engine, nodeState, watcher, cancelled, watchCancel, dartPort>>
    BY <1>5 DEF Forward, Rpc!Forward, Rpc!NextEvent, MainOnly, goVars, serverVars, watchVars
  <2> DEFINE m == Head(queue)
  <2>2. inbox' = Append(inbox, m) /\ m.kind # "response" /\ m.kind = "push"
    BY <2>1
  <2>3. \A i \in DOMAIN queue : queue[i] = m \/ \E j \in DOMAIN queue' : queue'[j] = queue[i]
    BY <1>3, <2>1
  <2>4. \A i \in 1 .. Len(queue') : \E j \in 1 .. Len(queue) : queue'[i] = queue[j]
    BY <1>3, <2>1
  <2> HIDE DEF m
  <2>5. /\ \A o \in Op : Told(o)' => Told(o)
        /\ PushesStable(inbox) => PushesStable(inbox')
        /\ \E i \in DOMAIN inbox' : inbox'[i] = m
    BY <1>2, <2>2
  <2>6. PushesStable(queue) => PushesStable(queue') \/ PushesStable(inbox')
    BY <2>3, <2>5 DEF PushesStable
  <2>7. Missed' => Missed
    BY <2>1, <2>5, <2>6, MissedBefore
  <2>8. Connected'
    BY <2>1 DEF SettleInv, Connected
  <2> QED  BY <1>1, <2>1, <2>4, <2>5, <2>7, <2>8, SettleMoves
<1>6. CASE Begin
  <2> DEFINE m == Head(queue)
  <2>1. /\ queue # <<>> /\ queue' = Tail(queue) /\ m.kind = "command" /\ executing' = <<m>>
        /\ UNCHANGED <<inbox, isolate, engine, nodeState, dartPort>>
        /\ Go!StopWatch \/ UNCHANGED watchVars
        /\ isolate = "running"
    BY <1>6, ZenonT(30) DEF Begin, Rpc!Begin, Rpc!NextEvent, serverVars
  <2>2. /\ \A i \in DOMAIN queue : queue[i] = m \/ \E j \in DOMAIN queue' : queue'[j] = queue[i]
        /\ \A i \in 1 .. Len(queue') : \E j \in 1 .. Len(queue) : queue'[i] = queue[j]
        /\ m = queue[1] /\ 1 \in 1 .. Len(queue)
    BY <1>3, <2>1
  <2> HIDE DEF m
  <2>3. Missed' => Missed
    <3>1. CASE Go!StopWatch
      BY <3>1 DEF Go!StopWatch, Missed, Deliverable
    <3>2. CASE UNCHANGED watchVars
      <4>1. UNCHANGED <<watcher, cancelled, watchCancel>>
        BY <3>2 DEF watchVars
      <4>2. PushesStable(queue) => PushesStable(queue')
        BY <2>1, <2>2 DEF PushesStable
      <4> QED  BY <2>1, <4>1, <4>2, MissedBefore
    <3> QED  BY <2>1, <3>1, <3>2
  <2>4. \A o \in Op : Told(o)' => Told(o)
    BY <1>1, <2>1 DEF Told
  <2>5. NoneMissed' /\ NoDuplicate' /\ WaitingChecks'
    BY <1>1, <2>3, <2>4 DEF SettleInv, NoneMissed, Blind, NoDuplicate, WaitingChecks
  <2>6. QueueChecks'
    BY <1>1, <2>2 DEF SettleInv, QueueChecks
  <2>7. ExecutingChecks'
    <3>1. op[m.from].at = "check" => m.what = "status"
      BY <2>1, <2>2 DEF SettleInv, QueueChecks
    <3>2. \A i \in 1 .. Len(executing') : i = 1 /\ executing'[i] = m
      BY <2>1
    <3> QED  BY <1>1, <3>1, <3>2 DEF ExecutingChecks
  <2>8. Connected'
    BY <2>1 DEF SettleInv, Connected
  <2> QED  BY <2>5, <2>6, <2>7, <2>8 DEF SettleInv
<1> QED  BY <1>4, <1>5, <1>6

\* The worker responds: an answer to a status check is unstable only when the node is.
LEMMA SettleResponds ==
    ASSUME NodeInv, SettleInv, NEW ok, NEW state, RespondWith(ok, state),
           executing # <<>>, Pushes \/ UNCHANGED queue, UNCHANGED dartPort,
           ok /\ state \notin Stable /\ op[executing[1].from].at = "check" => ~Missed',
           Missed' => Missed
    PROVE  SettleInv'
<1> DEFINE c == executing[1].from
           r == [ok |-> ok, state |-> state, engine |-> engine']
           m == [kind |-> "response", to |-> c, n |-> executing[1].n, reply |-> r]
<1>1. /\ inbox' = Append(inbox, m) /\ executing' = <<>> /\ UNCHANGED <<call, op, isolate>>
  BY DEF RespondWith, Rpc!Respond, Rpc!mainVars, apiVars
<1>2. m.to = c /\ m.reply = r /\ r.ok = ok /\ r.state = state
  OBVIOUS
<1> HIDE DEF m, r
<1>3. /\ DOMAIN inbox = 1 .. Len(inbox) /\ DOMAIN inbox' = DOMAIN inbox \cup {Len(inbox) + 1}
      /\ inbox'[Len(inbox) + 1] = m /\ \A i \in DOMAIN inbox : inbox'[i] = inbox[i]
      /\ DOMAIN inbox' = 1 .. Len(inbox')
  <2>1. inbox \in Seq(Rpc!Response \cup Rpc!Push \cup Rpc!Notice)
    BY Typed
  <2> QED  BY <1>1, <2>1, AppendTo
<1>4. ASSUME NEW o \in Op, op[o].at = "check", Told(o)', Missed'
      PROVE  Told(o)
  <2>1. CASE o = c /\ Unstable(r)
    BY <1>2, <1>4, <2>1 DEF Unstable, c
  <2>2. CASE ~(o = c /\ Unstable(r))
    <3>1. CASE call'[o].at = "answered" /\ Unstable(call'[o].by.reply)
      BY <1>1, <3>1 DEF Told
    <3>2. CASE \E i \in 1 .. Len(inbox') :
                 inbox'[i].kind = "response" /\ inbox'[i].to = o /\ Unstable(inbox'[i].reply)
      <4>1. PICK i \in 1 .. Len(inbox') :
              inbox'[i].kind = "response" /\ inbox'[i].to = o /\ Unstable(inbox'[i].reply)
        BY <3>2
      <4>2. i \in 1 .. Len(inbox) /\ inbox'[i] = inbox[i]
        BY <1>2, <1>3, <2>2, <4>1
      <4> QED  BY <4>1, <4>2 DEF Told
    <3> QED  BY <1>4, <3>1, <3>2 DEF Told, Unstable
  <2> QED  BY <2>1, <2>2
<1>5. Connected'
  <2>1. isolate = "running"
    BY DEF NodeInv, Layer!RpcInv, Layer!Shapes
  <2> QED  BY <1>1, <2>1 DEF SettleInv, Connected
<1> QED  BY <1>1, <1>4, <1>5, PostsPush, SettleMoves

\* A post takes nothing from the queue, a response nothing from the inbox.
LEMMA RespondsKeepStable ==
    ASSUME NodeInv, NEW ok, NEW state, RespondWith(ok, state), PushesStable(inbox)
    PROVE  PushesStable(inbox')
<1> DEFINE m == [kind |-> "response", to |-> executing[1].from, n |-> executing[1].n,
                 reply |-> [ok |-> ok, state |-> state, engine |-> engine']]
<1>1. inbox' = Append(inbox, m)
  BY DEF RespondWith, Rpc!Respond
<1> HIDE DEF m
<1>2. inbox \in Seq(Rpc!Response \cup Rpc!Push \cup Rpc!Notice)
  BY Typed
<1>3. \A i \in DOMAIN inbox : i \in DOMAIN inbox' /\ inbox'[i] = inbox[i]
  BY <1>1, <1>2, AppendTo
<1> QED  BY <1>3, StableKept

\* A new watcher begins with the state the node has.
LEMMA WatchTells ==
    ASSUME GoTyped, GoRest, Go!StartWatch \/ Go!StartWatchFails, engine # 0
    PROVE  ~Missed'
<1>1. /\ watchers < MaxWatchers /\ watchCancel' = watchers + 1 /\ nodeState' = nodeState
  BY DEF Go!StartWatch, Go!StartWatchFails, Go!serverVars
<1>2. watchers + 1 \in 1 .. MaxWatchers
  BY <1>1, Numbers DEF GoRest
<1>3. CASE Go!StartWatchFails
  <2>1. watchCancel' \in cancelled'
    BY <1>3 DEF Go!StartWatchFails
  <2> QED  BY <2>1 DEF Missed, Deliverable, Go!Watching
<1>4. CASE Go!StartWatch
  <2> DEFINE first == IF nodeState = "Running" THEN <<nodeState, "netmap">> ELSE <<nodeState>>
             bus == <<first>>
  <2>1. watcher' = [watcher EXCEPT ![watchers + 1] =
            [live |-> TRUE, engine |-> engine, bus |-> bus, held |-> <<>>]]
    BY <1>4 DEF Go!StartWatch
  <2>2. 1 \in DOMAIN bus /\ bus[1] = first /\ 1 \in DOMAIN first /\ first[1] = nodeState
    OBVIOUS
  <2> HIDE DEF first, bus
  <2>3. watcher'[watchers + 1].bus = bus
    BY <1>2, <2>1 DEF GoTyped
  <2>4. nodeState \in Stable => Carries(bus[1])
    BY <2>2 DEF Carries
  <2>5. nodeState \in Stable => OnItsWay'
    BY <1>1, <2>2, <2>3, <2>4 DEF OnItsWay, Carries
  <2> QED  BY <1>1, <2>5 DEF Missed, Deliverable
<1> QED  BY <1>3, <1>4

\* The commands of the worker.
LEMMA SettleExecutes ==
    ASSUME NodeInv, RestTyped, LogoutInv, SettleInv, Execute
    PROVE  SettleInv'
<1>1. /\ GoTyped /\ GoRest /\ queue \in Seq(Rpc!Command \cup Rpc!Push) /\ executing # <<>>
  BY Typed DEF RestTyped, Execute, Refuse, ReadStatus, ExecStart, ExecStartFails, ExecStartWatch,
       ExecStop, ExecWipe, ExecWipeFails, At
<1>2. /\ op[executing[1].from].at = "check" => Doing = "status"
      /\ step \in {"start", "startWatch"} => Doing \in UpKinds
      /\ step = "stop" => Doing \in {"down", "logout"}
      /\ step = "wipe" => Doing = "logout"
  <2>1. 1 \in 1 .. Len(executing)
    BY <1>1, LogoutTyped
  <2> QED  BY <1>1, <2>1 DEF SettleInv, ExecutingChecks, Doing, LogoutInv, StepsFit
<1>3. isolate = "running"
  BY <1>1 DEF NodeInv, Layer!RpcInv, Layer!Shapes
<1>4. ASSUME NEW ok, NEW state, RespondWith(ok, state), Pushes \/ UNCHANGED queue,
             UNCHANGED <<engine, nodeState, watcher, cancelled, watchCancel>>
      PROVE  Missed' => Missed
  <2>1. isolate' = isolate
    BY <1>4 DEF RespondWith, Rpc!Respond
  <2>2. PushesStable(inbox) => PushesStable(inbox')
    BY <1>4, RespondsKeepStable
  <2>3. PushesStable(queue) => PushesStable(queue')
    BY <1>4, PostsKeepStable
  <2> QED  BY <1>4, <2>1, <2>2, <2>3, MissedBefore
<1>5. ASSUME UNCHANGED <<rpcVars, apiVars, dartPort>>, Pushes \/ UNCHANGED queue, Missed' => Missed
      PROVE  SettleInv'
  <2>1. UNCHANGED <<call, op, executing, inbox, isolate>>
    BY <1>5 DEF rpcVars, apiVars
  <2>2. \A o \in Op : Told(o)' => Told(o)
    BY <2>1 DEF Told
  <2>3. Connected'
    BY <1>3, <1>5, <2>1 DEF SettleInv, Connected
  <2> QED  BY <1>5, <2>1, <2>2, <2>3, PostsPush, SettleMoves
<1>6. CASE Refuse
  <2>1. UNCHANGED <<goVars, queue>> /\ RespondWith(FALSE, Nothing)
    BY <1>6, ZenonT(30) DEF Refuse
  <2>2. UNCHANGED <<engine, nodeState, watcher, cancelled, watchCancel, dartPort>>
    BY <2>1 DEF goVars, serverVars, watchVars
  <2>3. Missed' => Missed
    BY <1>4, <2>1, <2>2
  <2> QED  BY <1>1, <2>1, <2>2, <2>3, SettleResponds
<1>7. CASE ReadStatus
  <2>1. UNCHANGED <<goVars, queue>> /\ RespondWith(TRUE, StatusNow)
    BY <1>7, ZenonT(30) DEF ReadStatus
  <2>2. UNCHANGED <<engine, nodeState, watcher, cancelled, watchCancel, dartPort>>
    BY <2>1 DEF goVars, serverVars, watchVars
  <2>3. Missed' => Missed
    BY <1>4, <2>1, <2>2
  <2>4. StatusNow \notin Stable => ~Missed'
    BY <2>2 DEF StatusNow, Missed, Deliverable
  <2> QED  BY <1>1, <2>1, <2>2, <2>3, <2>4, SettleResponds
<1>8. CASE ExecStart
  <2>1. UNCHANGED <<rpcVars, apiVars>> /\ (Go!StartKeeps \/ Go!StartSucceeds)
    BY <1>8 DEF ExecStart
  <2>2. CASE Go!StartKeeps
    <3>1. UNCHANGED <<engine, nodeState, watcher, cancelled, watchCancel, dartPort, queue>>
      BY <2>2 DEF Go!StartKeeps, Go!serverVars, Go!watchVars
    <3>2. UNCHANGED <<inbox, isolate>>
      BY <2>1 DEF rpcVars
    <3>3. Missed' => Missed
      BY <3>1, <3>2, MissedBefore
    <3> QED  BY <1>5, <2>1, <3>1, <3>3
  <2>3. CASE Go!StartSucceeds
    <3>1. watchCancel' = 0 /\ UNCHANGED <<dartPort, queue>>
      BY <2>3 DEF Go!StartSucceeds, Go!StopWatch
    <3>2. ~Missed'
      BY <3>1 DEF Missed, Deliverable
    <3> QED  BY <1>5, <2>1, <3>1, <3>2
  <2> QED  BY <2>1, <2>2, <2>3
<1>9. CASE ExecStartFails
  <2>1. Go!StartFails /\ RespondWith(FALSE, Nothing)
    BY <1>9 DEF ExecStartFails
  <2>2. engine' = 0 /\ UNCHANGED <<dartPort, queue>>
    BY <2>1 DEF Go!StartFails, Go!StopLocked
  <2>3. ~Missed'
    BY <2>2 DEF Missed, Deliverable
  <2> QED  BY <1>1, <2>1, <2>2, <2>3, SettleResponds
<1>10. CASE ExecStartWatch
  <2>1. step = "startWatch" /\ (Go!StartWatch \/ Go!StartWatchFails) /\ RespondWith(TRUE, Nothing)
    BY <1>10 DEF ExecStartWatch, At
  <2>2. (Pushes \/ UNCHANGED queue) /\ UNCHANGED dartPort
    <3>1. UNCHANGED dartPort
      BY <2>1 DEF Go!StartWatch, Go!StartWatchFails, Go!goVars
    <3> QED  BY <1>1, <2>1, <3>1, CallsTyped
  <2>3. Missed' => Missed
    <3>1. CASE engine = 0
      <4>1. UNCHANGED <<engine, nodeState, watcher, cancelled, watchCancel>>
        BY <2>1, <3>1 DEF Go!StartWatch, Go!StartWatchFails, Go!goVars, Go!serverVars, Go!watchVars
      <4> QED  BY <1>4, <2>1, <2>2, <4>1
    <3>2. CASE engine # 0
      BY <1>1, <2>1, <3>2, WatchTells
    <3> QED  BY <3>1, <3>2
  <2>4. op[executing[1].from].at # "check"
    BY <1>2, <2>1 DEF UpKinds
  <2> QED  BY <1>1, <2>1, <2>2, <2>3, <2>4, SettleResponds
<1>11. CASE ExecStop
  <2>1. /\ step = "stop" /\ Go!Stop
        /\ IF Doing = "down" THEN RespondWith(TRUE, Nothing)
           ELSE step' = "wipe" /\ UNCHANGED <<rpcVars, apiVars>>
    BY <1>11 DEF ExecStop, At
  <2>2. (Pushes \/ UNCHANGED queue) /\ engine' = 0 /\ UNCHANGED dartPort
    BY <1>1, <2>1, CallsTyped DEF Go!Stop, Go!StopLocked
  <2>3. ~Missed'
    BY <2>2 DEF Missed, Deliverable
  <2>4. op[executing[1].from].at # "check"
    BY <1>2, <2>1
  <2>5. CASE Doing = "down"
    <3>1. RespondWith(TRUE, Nothing)
      BY <2>1, <2>5
    <3> QED  BY <1>1, <2>2, <2>3, <2>4, <3>1, SettleResponds
  <2>6. CASE Doing # "down"
    BY <1>5, <2>1, <2>2, <2>3, <2>6
  <2> QED  BY <2>5, <2>6
<1>12. CASE ExecWipe \/ ExecWipeFails
  <2>1. /\ step = "wipe"
        /\ \/ Go!Wipe /\ RespondWith(TRUE, Nothing)
           \/ Go!WipeFails /\ RespondWith(FALSE, Nothing)
    BY <1>12 DEF ExecWipe, ExecWipeFails, At
  <2>2. /\ Pushes \/ UNCHANGED queue
        /\ UNCHANGED <<engine, nodeState, watcher, cancelled, watchCancel, dartPort>>
    <3>1. UNCHANGED <<engine, nodeState, watcher, cancelled, watchCancel, dartPort>>
      BY <2>1 DEF Go!Wipe, Go!WipeFails, Go!watchVars
    <3> QED  BY <1>1, <2>1, <3>1, CallsTyped
  <2>3. Missed' => Missed
    BY <1>4, <2>1, <2>2
  <2>4. op[executing[1].from].at # "check"
    BY <1>2, <2>1
  <2> QED  BY <1>1, <2>1, <2>2, <2>3, <2>4, SettleResponds
<1> QED  BY <1>6, <1>7, <1>8, <1>9, <1>10, <1>11, <1>12 DEF Execute

\* A watcher, a record of its goroutine, has a stable state still to say.
Says(r) == Carries(r.held) \/ \E i \in DOMAIN r.bus : Carries(r.bus[i])

\* What is dropped from the front of a notification.
LEMMA CarriesTail ==
    ASSUME NEW parts \in Seq(Go!Part), parts # <<>>, Carries(parts)
    PROVE  Head(parts) \in Stable \/ Carries(Tail(parts))
<1>1. /\ Head(parts) = parts[1]
      /\ \A i \in DOMAIN parts : i = 1 \/ (i - 1 \in DOMAIN Tail(parts) /\ Tail(parts)[i - 1] = parts[i])
  BY TailOf
<1> QED  BY <1>1 DEF Carries

\* A goroutine takes a notification, or goes through a part of one: a stable state
\* stays with it until it is posted, and is posted to the worker that runs.
LEMMA GoroutineTells ==
    ASSUME NodeInv, SettleInv, NEW v \in 1 .. MaxWatchers, Go!Goroutine(v), isolate = "running",
           Says(watcher[v])
    PROVE  Says(watcher'[v]) \/ PushesStable(queue')
<1> DEFINE W == [live : BOOLEAN, engine : Go!Number, bus : Seq(Seq(Go!Part)), held : Seq(Go!Part)]
<1>1. /\ watcher \in [1 .. MaxWatchers -> W] /\ watcher[v] \in W
      /\ watcher[v].held \in Seq(Go!Part) /\ watcher[v].bus \in Seq(Seq(Go!Part))
      /\ queue \in Seq(Rpc!Command \cup Rpc!Push) /\ dartPort
  BY Typed DEF GoTyped, SettleInv, Connected
<1>2. CASE Go!TakeNotification(v)
  <2> DEFINE bus == watcher[v].bus
  <2>1. watcher[v].held = <<>> /\ bus # <<>> /\ bus \in Seq(Seq(Go!Part))
    BY <1>1, <1>2 DEF Go!TakeNotification
  <2>2. watcher'[v].held = Head(bus) /\ watcher'[v].bus = Tail(bus)
    BY <1>1, <1>2 DEF Go!TakeNotification
  <2>3. PICK i \in DOMAIN bus : Carries(bus[i])
    <3>1. ~Carries(<<>>)
      BY DEF Carries
    <3> QED  BY <2>1, <3>1 DEF Says
  <2> HIDE DEF bus
  <2>4. /\ Head(bus) = bus[1]
        /\ i = 1 \/ (i - 1 \in DOMAIN Tail(bus) /\ Tail(bus)[i - 1] = bus[i])
    BY <2>1, TailOf
  <2> QED  BY <2>2, <2>3, <2>4 DEF Says
<1>3. CASE Go!PostState(v)
  <2>1. /\ watcher[v].held # <<>> /\ Go!Post(<<Go!Status(Head(watcher[v].held), watcher[v].engine)>>)
        /\ watcher'[v].held = Tail(watcher[v].held) /\ watcher'[v].bus = watcher[v].bus
    BY <1>1, <1>3 DEF Go!PostState, Go!NextPart
  <2>2. Head(watcher[v].held) \in Stable => PushesStable(queue')
    <3> DEFINE e == Go!Status(Head(watcher[v].held), watcher[v].engine)
               m == [kind |-> "push", event |-> e]
    <3>1. [i \in DOMAIN <<e>> |-> [kind |-> "push", event |-> <<e>>[i]]] = <<m>>
      OBVIOUS
    <3>2. queue' = queue \o <<m>>
      BY <1>1, <2>1, <3>1 DEF Go!Post
    <3>3. m.kind = "push" /\ m.event.type = "status" /\ m.event.state = Head(watcher[v].held)
      BY DEF Go!Status
    <3> HIDE DEF m, e
    <3>4. queue' = Append(queue, m)
      BY <3>2
    <3>5. Len(queue) + 1 \in DOMAIN queue' /\ queue'[Len(queue) + 1] = m
      BY <1>1, <3>4, AppendTo
    <3> QED  BY <3>3, <3>5 DEF PushesStable
  <2>3. Carries(watcher[v].held) => Head(watcher[v].held) \in Stable \/ Carries(watcher'[v].held)
    BY <1>1, <2>1, CarriesTail
  <2> QED  BY <2>1, <2>2, <2>3 DEF Says
<1>4. CASE Go!MirrorNetmap(v)
  <2>1. /\ watcher[v].held # <<>> /\ Head(watcher[v].held) = "netmap"
        /\ watcher'[v].held = <<"publish">> \o Tail(watcher[v].held)
        /\ watcher'[v].bus = watcher[v].bus
    BY <1>1, <1>4 DEF Go!MirrorNetmap, Go!NextPart
  <2>2. Carries(watcher[v].held) => Carries(watcher'[v].held)
    <3> SUFFICES ASSUME Carries(watcher[v].held)  PROVE Carries(watcher'[v].held)
      OBVIOUS
    <3> DEFINE t == Tail(watcher[v].held)
    <3>1. Carries(t) /\ t \in Seq(Go!Part)
      BY <1>1, <2>1, CarriesTail DEF Stable
    <3> HIDE DEF t
    <3>2. PICK i \in DOMAIN t : t[i] \in Stable
      BY <3>1 DEF Carries
    <3>3. i + 1 \in DOMAIN (<<"publish">> \o t) /\ (<<"publish">> \o t)[i + 1] = t[i]
      BY <3>1
    <3> QED  BY <2>1, <3>2, <3>3 DEF Carries, t
  <2> QED  BY <2>1, <2>2 DEF Says
<1>5. CASE Go!SchedulePublish(v)
  <2>1. /\ watcher[v].held # <<>> /\ Head(watcher[v].held) = "publish"
        /\ watcher'[v].held = Tail(watcher[v].held) /\ watcher'[v].bus = watcher[v].bus
    BY <1>1, <1>5 DEF Go!SchedulePublish, Go!NextPart
  <2>2. Carries(watcher[v].held) => Carries(watcher'[v].held)
    BY <1>1, <2>1, CarriesTail DEF Stable
  <2> QED  BY <2>1, <2>2 DEF Says
<1>6. CASE Go!Publish(v)
  BY <1>6 DEF Go!Publish
<1> QED  BY <1>2, <1>3, <1>4, <1>5, <1>6 DEF Go!Goroutine

\* The node and the goroutines: a new state of the node is given to the watcher, which
\* follows the server that runs.
LEMMA SettleRuns ==
    ASSUME NodeInv, RestTyped, CacheInv, SettleInv, Runtime
    PROVE  SettleInv'
<1> DEFINE W == [live : BOOLEAN, engine : Go!Number, bus : Seq(Seq(Go!Part)), held : Seq(Go!Part)]
           c == watchCancel
<1>1. /\ UNCHANGED <<call, op, executing, inbox, isolate>>
      /\ UNCHANGED <<engine, cancelled, watchCancel, dartPort>>
      /\ \/ Go!NodeChanges \/ Go!TimerFires
         \/ \E w \in 1 .. MaxWatchers : Go!Goroutine(w) \/ Go!WatchBreaks(w)
  BY DEF Runtime, NodeChanges, Goroutine, WatchBreaks, TimerFires, RuntimeOnly, rpcVars, apiVars,
         Go!NodeChanges, Go!Goroutine, Go!WatchBreaks, Go!TimerFires, Go!TakeNotification,
         Go!PostState, Go!MirrorNetmap, Go!SchedulePublish, Go!Publish, Go!KeepRest, Go!serverVars
<1>2. Pushes \/ UNCHANGED queue
  BY <1>1, Typed, RuntimeTyped
<1>3. PushesStable(queue) => PushesStable(queue')
  BY <1>2, PostsKeepStable
<1>4. watcher \in [1 .. MaxWatchers -> W] /\ (c # 0 => c \in 1 .. MaxWatchers /\ watcher[c] \in W)
  BY Typed, NodeAssumption DEF GoTyped, RestTyped, GoRest, Go!Number
<1>5. ASSUME Missed'
      PROVE  Missed
  <2>1. /\ engine # 0 /\ nodeState' \in Stable /\ c \in 1 .. MaxWatchers /\ isolate = "running"
        /\ watcher'[c].live /\ c \notin cancelled
        /\ ~PushesStable(queue) /\ ~PushesStable(inbox) /\ ~PushesStable(queue')
        /\ ~Says(watcher'[c])
    BY <1>1, <1>3, <1>4, <1>5 DEF Missed, Deliverable, OnItsWay, Go!Watching, Says
  <2>2. ASSUME nodeState' = nodeState, watcher[c].live, ~Says(watcher[c])
        PROVE  Missed
    BY <1>1, <2>1, <2>2 DEF Missed, Deliverable, OnItsWay, Go!Watching, Says
  <2>3. CASE Go!NodeChanges
    <3>1. PICK parts : /\ Go!Notify(parts) /\ parts \in Seq(Go!Part)
                       /\ nodeState' = nodeState \/ parts = <<nodeState'>>
      <4>1. CASE nodeState = "Running" /\ Go!Notify(<<"netmap">>) /\ UNCHANGED nodeState
        <5>1. <<"netmap">> \in Seq(Go!Part)
          BY DEF Go!Part
        <5> QED  BY <4>1, <5>1
      <4>2. CASE \E s \in Go!BackendState \ {nodeState} : nodeState' = s /\ Go!Notify(<<s>>)
        <5>1. PICK s \in Go!BackendState : nodeState' = s /\ Go!Notify(<<s>>)
          BY <4>2
        <5>2. <<s>> \in Seq(Go!Part)
          BY DEF Go!Part
        <5> QED  BY <5>1, <5>2
      <4> QED  BY <2>3, <4>1, <4>2 DEF Go!NodeChanges
    <3>2. watcher'[c] = IF Go!Watching(c) /\ watcher[c].engine = engine
                        THEN [watcher[c] EXCEPT !.bus = Append(@, parts)] ELSE watcher[c]
      BY <2>1, <3>1 DEF Go!Notify, Go!Watcher
    <3>3. watcher[c].live /\ watcher[c].engine = engine
      <4>1. watcher[c].live
        BY <1>4, <2>1, <3>2
      <4> QED  BY <2>1, <4>1 DEF CacheInv, OneFollows, Follows, Unstarted
    <3> DEFINE bus == watcher[c].bus
    <3>4. watcher'[c] = [watcher[c] EXCEPT !.bus = Append(bus, parts)] /\ bus \in Seq(Seq(Go!Part))
      BY <1>4, <2>1, <3>2, <3>3 DEF Go!Watching
    <3>5. watcher'[c].bus = Append(bus, parts) /\ watcher'[c].held = watcher[c].held
      BY <1>4, <2>1, <3>4
    <3>6. /\ DOMAIN Append(bus, parts) = DOMAIN bus \cup {Len(bus) + 1}
          /\ Append(bus, parts)[Len(bus) + 1] = parts
          /\ \A i \in DOMAIN bus : Append(bus, parts)[i] = bus[i]
      BY <3>4, AppendTo
    <3>7. ~Says(watcher[c])
      BY <2>1, <3>5, <3>6 DEF Says
    <3>8. ~Carries(parts)
      BY <2>1, <3>5, <3>6 DEF Says
    <3>9. nodeState' = nodeState
      <4>1. 1 \in DOMAIN <<nodeState'>> /\ <<nodeState'>>[1] = nodeState'
        OBVIOUS
      <4>2. Carries(<<nodeState'>>)
        BY <2>1, <4>1 DEF Carries
      <4> QED  BY <3>1, <3>8, <4>2
    <3> QED  BY <2>2, <3>3, <3>7, <3>9
  <2>4. CASE Go!TimerFires
    <3>1. watcher' = watcher /\ nodeState' = nodeState
      BY <2>4 DEF Go!TimerFires, Go!KeepRest, Go!serverVars
    <3> QED  BY <2>1, <2>2, <3>1
  <2>5. ASSUME NEW v \in 1 .. MaxWatchers, Go!Goroutine(v) \/ Go!WatchBreaks(v)
        PROVE  Missed
    <3>1. /\ nodeState' = nodeState
          /\ \A w \in 1 .. MaxWatchers \ {v} : watcher'[w] = watcher[w]
          /\ Go!Goroutine(v) => watcher'[v].live = watcher[v].live
          /\ Go!WatchBreaks(v) => ~watcher'[v].live
      <4>1. nodeState' = nodeState
        BY <2>5 DEF Go!Goroutine, Go!WatchBreaks, Go!TakeNotification, Go!PostState,
           Go!MirrorNetmap, Go!SchedulePublish, Go!Publish, Go!KeepRest, Go!serverVars
      <4>2. Go!WatchBreaks(v) => /\ \A w \in 1 .. MaxWatchers \ {v} : watcher'[w] = watcher[w]
                                 /\ ~watcher'[v].live
        BY <1>4 DEF Go!WatchBreaks
      <4>3. Go!Goroutine(v) => /\ \A w \in 1 .. MaxWatchers \ {v} : watcher'[w] = watcher[w]
                               /\ watcher'[v].live = watcher[v].live
        <5> DEFINE Same == /\ \A w \in 1 .. MaxWatchers \ {v} : watcher'[w] = watcher[w]
                           /\ watcher'[v].live = watcher[v].live
        <5>1. Go!TakeNotification(v) => Same
          BY <1>4 DEF Go!TakeNotification
        <5>2. Go!PostState(v) => Same
          BY <1>4 DEF Go!PostState
        <5>3. Go!MirrorNetmap(v) => Same
          BY <1>4 DEF Go!MirrorNetmap
        <5>4. Go!SchedulePublish(v) => Same
          BY <1>4 DEF Go!SchedulePublish
        <5>5. Go!Publish(v) => Same
          BY DEF Go!Publish
        <5> QED  BY <5>1, <5>2, <5>3, <5>4, <5>5 DEF Go!Goroutine
      <4> QED  BY <2>5, <4>1, <4>2, <4>3
    <3>2. CASE v # c
      BY <2>1, <2>2, <3>1, <3>2
    <3>3. CASE v = c
      <4>1. Go!Goroutine(c) /\ watcher[c].live
        BY <2>1, <2>5, <3>1, <3>3
      <4>2. ~Says(watcher[c])
        BY <2>1, <4>1, GoroutineTells
      <4> QED  BY <2>2, <3>1, <4>1, <4>2
    <3> QED  BY <3>2, <3>3
  <2> QED  BY <1>1, <2>3, <2>4, <2>5
<1>6. \A o \in Op : Told(o)' => Told(o)
  BY <1>1 DEF Told
<1>7. Connected'
  BY <1>1 DEF SettleInv, Connected
<1> QED  BY <1>1, <1>2, <1>5, <1>6, <1>7, PostsPush, SettleMoves

\* The invariant of the wait is kept.
LEMMA SettleKept ==
    ASSUME NodeInv, NodeInv', RestTyped, CacheInv, LogoutInv, SettleInv, [Next]_vars
    PROVE  SettleInv'
<1>1. CASE Main
  BY <1>1, SettleCalls, SettleHears, SettleMessages DEF Main, HandleMessage
<1>2. CASE WorkerStep
  BY <1>2, SettleExecutes, SettleWorks DEF WorkerStep
<1>3. CASE Runtime
  BY <1>3, SettleRuns
<1>4. CASE UNCHANGED vars
  <2>1. /\ UNCHANGED <<call, op, queue, executing, inbox, isolate>>
        /\ UNCHANGED <<engine, nodeState, watcher, cancelled, watchCancel, dartPort>>
    BY <1>4 DEF vars, rpcVars, apiVars, goVars, serverVars, watchVars
  <2>2. (Missed' => Missed) /\ \A o \in Op : Told(o)' => Told(o)
    BY <2>1, MissedBefore DEF Told
  <2>3. Connected'
    BY <2>1 DEF SettleInv, Connected
  <2> QED  BY <2>1, <2>2, <2>3, SettleMoves
<1> QED  BY <1>1, <1>2, <1>3, <1>4 DEF Next

\* For any sequence of lifecycle calls, any notifications and any faults: an up that
\* waits for a stable state, and heard no `running' before its start had returned, is
\* not left waiting by a node that is stable and watched, however the answer of its
\* status check and what the watcher says overtake each other.
THEOREM NoStateMissed == Spec => []SettleNotMissed
<1> DEFINE Inv == NodeInv /\ RestTyped /\ CacheInv /\ LogoutInv /\ SettleInv
<1>1. Init => Inv
  <2> SUFFICES ASSUME Init  PROVE SettleInv
    BY NodeStarts, RestStarts, CacheStarts, LogoutStarts
  <2>1. /\ queue = <<>> /\ executing = <<>> /\ inbox = <<>> /\ isolate = "booting"
        /\ watchCancel = 0
        /\ \A o \in Op : call[o].at = "idle" /\ op[o].at = "idle" /\ op[o].last = Nothing
    BY DEF Init, Rpc!Init, Rpc!Idle, Go!GoInit, NewOp
  <2>2. Len(<<>>) = 0
    OBVIOUS
  <2> QED  BY <2>1, <2>2 DEF SettleInv, NoneMissed, Blind, NoDuplicate, QueueChecks, ExecutingChecks,
               WaitingChecks, Connected, Nothing
<1>2. Inv /\ [Next]_vars => Inv'
  BY NodeKept, RestKept, CacheKept, LogoutKept, SettleKept DEF NodeInv
<1>3. Inv => SettleNotMissed
  BY DEF SettleInv, NoneMissed, Blind, Missed, SettleNotMissed
<1> QED  BY <1>1, <1>2, <1>3, PTL DEF Spec
=============================================================================
