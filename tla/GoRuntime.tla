------------------------------ MODULE GoRuntime ------------------------------
(***************************************************************************)
(* The embedded node: the server and its state directory (lib.go), the     *)
(* watcher of its notification bus and the debounced publication of peers  *)
(* (push.go), and the identity cache (identity_cache.go).                  *)
(*                                                                         *)
(* The worker calls the lifecycle functions one after the other; the       *)
(* goroutines of watchers and the publish timer run beside it, also after  *)
(* their context was cancelled.  What they post joins the event queue of   *)
(* the worker isolate.                                                     *)
(***************************************************************************)
EXTENDS Naturals, Sequences

CONSTANTS
    MaxWatchers,   \* bound: servers started, and calls of StartWatch
    MaxChanges,    \* bound: spontaneous notifications of the node
    Faults         \* what may fail in this instance

VARIABLES
    isolate, queue,  \* of the worker
    dartPort,        \* whether dartPort is set
    engine,          \* srv: number of the server, 0 for none
    engines,         \* number of servers started
    nodeState,       \* state of its backend, "Starting" without one
    stored,          \* whether the state directory holds a machine key
    watchers,        \* number of watchers started
    watcher,         \* their goroutines
    cancelled,       \* watchers whose context is cancelled
    watchCancel,     \* the watcher that watchCancel cancels, 0 for none
    timer,           \* the watcher whose publication publishTimer will run, 0 for none
    publishing,      \* watchers whose publication is under way
    cache,           \* engine whose netmap the identity cache mirrors, 0 when cold
    changes          \* notifications left

serverVars == <<engine, engines, nodeState, stored>>
watchVars == <<watchers, watcher, cancelled, watchCancel, timer, publishing, cache>>
goVars == <<dartPort, serverVars, watchVars, changes>>

-----------------------------------------------------------------------------
Watcher == 1 .. MaxWatchers
Number == 0 .. MaxWatchers   \* of a watcher or a server, 0 for none
BackendState == {"Starting", "Running", "NeedsLogin"}

\* What reaches the main isolate: states and peers with the engine they are about
\* (no guard reads it; the synthetic states have none), and errors.
Status(s, g) == [type |-> "status", state |-> s, engine |-> g]
Peers(g) == [type |-> "peers", engine |-> g]
Error == [type |-> "error"]

Events ==
    [type : {"status"}, state : BackendState \cup {"Stopped", "NoState"}, engine : Number]
    \cup [type : {"peers"}, engine : Number] \cup {Error}

\* The parts of a notification, in the order the goroutine goes through them; a
\* netmap is mirrored, then published.
Part == BackendState \cup {"netmap", "publish"}

\* postString, to a worker that may be gone.
Post(events) ==
    queue' = IF dartPort /\ isolate = "running"
             THEN queue \o [i \in DOMAIN events |-> [kind |-> "push", event |-> events[i]]]
             ELSE queue

Unposted == UNCHANGED queue

-----------------------------------------------------------------------------
(* Called by the worker, and by the main isolate when it disposes of it.   *)

\* Mutant: the absence of a watcher is not looked at.
CancelAny(w) ==
    /\ cancelled' = cancelled \cup {w}
    /\ UNCHANGED watcher

\* A cancelled watcher takes no further notification; it ends once it has gone
\* through the one it holds.
Cancel(w) ==
    /\ cancelled' = IF w = 0 THEN cancelled ELSE cancelled \cup {w}
    /\ watcher' = IF w = 0 THEN watcher ELSE [watcher EXCEPT ![w].bus = <<>>]

\* StopWatch
StopWatch ==
    /\ Cancel(watchCancel)
    /\ watchCancel' = 0
    /\ timer' = 0
    /\ cache' = 0
    /\ UNCHANGED <<watchers, publishing>>

\* stopLocked
StopLocked == engine' = 0 /\ nodeState' = "Starting" /\ StopWatch

\* Stop: it says `Stopped' only if there was a server.
Stop ==
    /\ StopLocked
    /\ UNCHANGED <<engines, stored, dartPort, changes>>
    /\ Post(IF engine # 0 THEN <<Status("Stopped", 0)>> ELSE <<>>)

\* The calls of _dispose; the port is taken away before the server stops.
StopUnheard ==
    /\ StopLocked
    /\ dartPort' = FALSE
    /\ UNCHANGED <<engines, stored, changes>>

\* Start without an authentication key while a server runs.
StartKeeps == UNCHANGED <<dartPort, serverVars, watchVars, changes, queue>>

\* Start: a server is running only when a key was given; its state is cleared.
StartSucceeds ==
    /\ engines < MaxWatchers
    /\ StopWatch
    /\ engines' = engines + 1
    /\ engine' = engines'
    /\ nodeState' = "Starting"
    /\ stored' = TRUE
    /\ UNCHANGED <<dartPort, changes, queue>>

\* Start when a directory, the store or the server resists: a running server is gone,
\* with or without its state, and a machine key may have been written.
StartFails ==
    /\ "start" \in Faults
    /\ StopLocked
    /\ stored' \in BOOLEAN /\ (stored /\ engine = 0 => stored')
    /\ UNCHANGED <<engines, dartPort, changes, queue>>

\* StartWatch: the bus begins with the state and, when there is one, the netmap.
\* The worker has called StopWatch before, so there is no watcher to cancel.
StartWatch ==
    IF engine = 0 THEN UNCHANGED goVars /\ Unposted
    ELSE LET w == watchers + 1
             first == IF nodeState = "Running" THEN <<nodeState, "netmap">> ELSE <<nodeState>>
         IN /\ watchers < MaxWatchers
            /\ watchers' = w
            /\ watchCancel' = w
            /\ UNCHANGED <<dartPort, serverVars, timer, publishing, cache, changes>>
            /\ watcher' = [watcher EXCEPT ![w] =
                   [live |-> TRUE, engine |-> engine, bus |-> <<first>>, held |-> <<>>]]
            /\ UNCHANGED cancelled
            /\ Unposted

\* StartWatch when the bus cannot be watched.
StartWatchFails ==
    /\ "watch" \in Faults /\ engine # 0 /\ watchers < MaxWatchers
    /\ watchers' = watchers + 1
    /\ watchCancel' = watchers'
    /\ cancelled' = cancelled \cup {watchers'}
    /\ UNCHANGED <<dartPort, serverVars, watcher, timer, publishing, cache, changes>>
    /\ Post(<<Error>>)

\* The last step of Logout, after it has stopped the server.
Wipe ==
    /\ stored' = FALSE
    /\ Post(<<Status("NoState", 0)>>)
    /\ UNCHANGED <<dartPort, engine, engines, nodeState, watchVars, changes>>

\* The directory resists, wholly or in part; then nothing is published.
WipeFails ==
    /\ "wipe" \in Faults
    /\ stored' \in {stored, FALSE}
    /\ UNCHANGED <<dartPort, engine, engines, nodeState, watchVars, changes, queue>>

-----------------------------------------------------------------------------
(* Goroutines.                                                             *)

Watching(w) == watcher[w].live /\ w \notin cancelled

\* A notification goes to every watcher of the engine.
Notify(parts) ==
    watcher' = [w \in Watcher |->
        IF Watching(w) /\ watcher[w].engine = engine
        THEN [watcher[w] EXCEPT !.bus = Append(@, parts)] ELSE watcher[w]]

\* The backend changes its state, or its netmap.
NodeChanges ==
    /\ engine # 0 /\ changes > 0
    /\ changes' = changes - 1
    /\ \/ \E s \in BackendState \ {nodeState} : nodeState' = s /\ Notify(<<s>>)
       \/ nodeState = "Running" /\ Notify(<<"netmap">>) /\ UNCHANGED nodeState
    /\ UNCHANGED <<dartPort, engine, engines, stored, watchers, cancelled, watchCancel, timer,
                   publishing, cache, queue>>

KeepRest == UNCHANGED <<dartPort, serverVars, watchers, cancelled, watchCancel, changes>>

\* watcher.Next
TakeNotification(w) ==
    /\ watcher[w].held = <<>> /\ watcher[w].bus # <<>>
    /\ watcher' = [watcher EXCEPT ![w].held = Head(watcher[w].bus), ![w].bus = Tail(@)]
    /\ UNCHANGED <<timer, publishing, cache>> /\ KeepRest /\ Unposted

NextPart(w, parts) == watcher[w].held # <<>> /\ Head(watcher[w].held) \in parts

PostState(w) ==
    /\ NextPart(w, BackendState)
    /\ watcher' = [watcher EXCEPT ![w].held = Tail(@)]
    /\ Post(<<Status(Head(watcher[w].held), watcher[w].engine)>>)
    /\ UNCHANGED <<timer, publishing, cache>> /\ KeepRest

\* Mutant: the cache is replaced without a look at the context.
MayMirrorAlways(w) == TRUE

\* The cache takes only what a live context delivers.
MayMirror(w) == w \notin cancelled

MirrorNetmap(w) ==
    /\ NextPart(w, {"netmap"})
    /\ cache' = IF MayMirror(w) THEN watcher[w].engine ELSE cache
    /\ watcher' = [watcher EXCEPT ![w].held = <<"publish">> \o Tail(@)]
    /\ UNCHANGED <<timer, publishing>> /\ KeepRest /\ Unposted

\* schedulePeerPublish replaces the timer whoever armed it.
SchedulePublish(w) ==
    /\ NextPart(w, {"publish"})
    /\ timer' = w
    /\ watcher' = [watcher EXCEPT ![w].held = Tail(@)]
    /\ UNCHANGED <<publishing, cache>> /\ KeepRest /\ Unposted

\* Next fails although the context is live; nobody else is told.
WatchBreaks(w) ==
    /\ "bus" \in Faults
    /\ Watching(w) /\ watcher[w].held = <<>>
    /\ watcher' = [watcher EXCEPT ![w].live = FALSE, ![w].bus = <<>>]
    /\ Post(<<Error>>)
    /\ UNCHANGED <<timer, publishing, cache>> /\ KeepRest

\* The timer has run out.
TimerFires ==
    /\ timer # 0
    /\ publishing' = IF timer \in cancelled THEN publishing ELSE publishing \cup {timer}
    /\ timer' = 0
    /\ UNCHANGED <<watcher, cache>> /\ KeepRest /\ Unposted

\* publishPeerSnapshot: the query of the peers may be cut short by the context.
Publish(w) ==
    /\ w \in publishing
    /\ publishing' = publishing \ {w}
    /\ \/ Post(<<Peers(watcher[w].engine)>>)
       \/ w \in cancelled /\ Unposted
    /\ UNCHANGED <<watcher, timer, cache>> /\ KeepRest

Goroutine(w) ==
    \/ TakeNotification(w) \/ PostState(w) \/ MirrorNetmap(w) \/ SchedulePublish(w)
    \/ Publish(w)

-----------------------------------------------------------------------------
GoInit ==
    /\ dartPort = FALSE
    /\ engine = 0 /\ engines = 0 /\ nodeState = "Starting" /\ stored \in BOOLEAN
    /\ watchers = 0
    /\ watcher = [w \in Watcher |->
                     [live |-> FALSE, engine |-> 0, bus |-> <<>>, held |-> <<>>]]
    /\ cancelled = {} /\ watchCancel = 0 /\ timer = 0 /\ publishing = {} /\ cache = 0
    /\ changes = MaxChanges

GoTypeOK ==
    /\ dartPort \in BOOLEAN
    /\ engine \in Number /\ engines \in Number
    /\ nodeState \in BackendState /\ stored \in BOOLEAN
    /\ watchers \in Number
    /\ watcher \in [Watcher -> [live : BOOLEAN, engine : Number,
                                bus : Seq(Seq(Part)), held : Seq(Part)]]
    /\ cancelled \subseteq Watcher /\ publishing \subseteq Watcher
    /\ watchCancel \in Number /\ timer \in Number
    /\ cache \in Number
    /\ changes \in 0 .. MaxChanges
=============================================================================
