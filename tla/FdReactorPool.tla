---------------------------- MODULE FdReactorPool ----------------------------
(***************************************************************************)
(* One shard of the pool of reactors: the static tables and proxies of     *)
(* _SharedFdReactorProxy on the main isolate, the reactor isolates spawned *)
(* for the shard one after the other (its incarnations), and the           *)
(* transports that are adopted, registered with retry, and closed.  It is  *)
(* about who owns a descriptor; what flows through it is FdTransport's.    *)
(*                                                                         *)
(* The main isolate receives everything - startup handshakes, exits,       *)
(* replies, events - in one queue.  Continuations of completed futures run *)
(* before it takes the next message or timer.                              *)
(***************************************************************************)
EXTENDS Integers, Sequences, FiniteSetsExt, SequencesExt

CONSTANTS
    Transport,       \* bound: the transports adopted, one descriptor each
    MaxRegistered,   \* _reactorMaxRegisteredTransports
    LateTimeouts,    \* bound: registrations that time out with an answer coming
    Faults           \* what may fail in this instance

ASSUME PoolAssumption ==
    /\ IsFiniteSet(Transport)
    /\ MaxRegistered \in Nat \ {0}
    /\ LateTimeouts \in Nat
    /\ Faults \subseteq {"create", "slowStart", "register", "wait"}

\* forTransport is called at most twice per transport and spawns at most once.
Incarnation == 1 .. 2 * Cardinality(Transport)
None == 0

VARIABLES
    \* Main isolate: static fields of _SharedFdReactorProxy, for this shard.
    instance,      \* _instances[shard]: incarnation of the future, or None
    active,        \* _activeProxies[shard]
    future,        \* what became of the future of each incarnation
    proxyClosed,   \* incarnations whose proxy has _closed set
    \* Main isolate: the transports.
    phase,         \* where _registerWithReactor stands
    attempt,       \* its attempt, 0 or 1
    home,          \* the incarnation it obtained or waits for
    closed,        \* transports that were torn down
    resumed,       \* transports whose await has completed, still to continue
    late,          \* late registrations left
    inbox,         \* messages to the main isolate
    \* Reactor isolates.
    reactor,       \* state of each incarnation
    cmds,          \* commands on their way to it
    registered,    \* its `states'
    saw,           \* sawTransport
    \* Kernel.
    closes         \* close(2) calls on each descriptor

tableVars == <<instance, active, future, proxyClosed>>
transportVars == <<phase, attempt, home, closed, resumed>>
mainVars == <<tableVars, transportVars, late>>
reactorVars == <<reactor, cmds, registered, saw>>
poolVars == <<mainVars, inbox, reactorVars, closes>>

-----------------------------------------------------------------------------
(* Messages.                                                               *)

Cmd == [kind : {"register", "close"}, t : Transport]
Incoming ==
    [kind : {"ready", "bootError", "exit"}, k : Incarnation]
    \cup [kind : {"registered", "refused", "closed"}, k : Incarnation, t : Transport]

About(kind, k, t) == [kind |-> kind, k |-> k, t |-> t]
OfShard(kind, k) == [kind |-> kind, k |-> k]

\* A send to an incarnation that has stopped draining its commands is lost.
Deliver(k, kind, t) ==
    IF reactor[k] = "running"
    THEN [cmds EXCEPT ![k] = Append(@, [kind |-> kind, t |-> t])]
    ELSE cmds

\* Mutant: a wake that is already pending is reported as a failure.
WakeBusy(k) == reactor[k] = "stopped" \/ cmds[k] # <<>>

\* duneReactorWake finds no poller once the incarnation closed it.
WakeFails(k) == reactor[k] = "stopped"

-----------------------------------------------------------------------------
(* Main isolate: the table of proxies.                                     *)

\* _markClosed
MarkClosed(k) ==
    /\ proxyClosed' = proxyClosed \cup {k}
    /\ active' = IF active = k THEN None ELSE active
    /\ instance' = None

\* What a send() of transport t changes in the tables, refused or not.
SendEffect(k) ==
    IF k \in proxyClosed THEN instance' = None /\ UNCHANGED <<active, proxyClosed>>
    ELSE IF WakeFails(k) THEN MarkClosed(k)
    ELSE UNCHANGED <<instance, active, proxyClosed>>

SendThrows(k) == k \in proxyClosed \/ WakeFails(k)

Unused == {k \in Incarnation : reactor[k] = "none"}

Live(act, shut) == act # None /\ act \notin shut

\* forTransport, with the tables as the caller has left them: the live proxy,
\* the future of a spawn in flight, or a new incarnation.
Obtain(t, inst, act, shut) ==
    LET k == IF Live(act, shut) THEN act
             ELSE IF inst # None THEN inst
             ELSE Min(Unused)
        spawns == ~Live(act, shut) /\ inst = None
    IN /\ home' = [home EXCEPT ![t] = k]
       /\ phase' = [phase EXCEPT ![t] = "obtaining"]
       /\ instance' = IF spawns THEN k ELSE inst
       /\ future' = IF spawns THEN [future EXCEPT ![k] = "pending"] ELSE future
       /\ reactor' = IF spawns THEN [reactor EXCEPT ![k] = "booting"] ELSE reactor
       /\ resumed' = (resumed \ {t}) \cup (IF future'[k] = "pending" THEN {} ELSE {t})

\* adopt: the first attempt.
Adopt(t) ==
    /\ phase[t] = "new"
    /\ Obtain(t, instance, active, proxyClosed)
    /\ UNCHANGED <<active, proxyClosed, attempt, closed, late, inbox, cmds, registered,
                   saw, closes>>

\* Mutant: the descriptor of a failed adoption is left to the finalizer that was
\* just detached.
NoCleanup(t) == UNCHANGED closes

\* closePosixFdForCleanup
Cleanup(t) == closes' = [closes EXCEPT ![t] = @ + 1]

\* The outer catch of _registerWithReactor: the transport gives up and closes
\* the descriptor it still owns.
GiveUp(t) ==
    /\ phase' = [phase EXCEPT ![t] = "failed"]
    /\ resumed' = resumed \ {t}
    /\ Cleanup(t)
    /\ UNCHANGED <<attempt, home, closed>>

\* Mutant: a race is retried as often as it happens.
RetriesWhenever(t, retryable) == retryable

\* The inner catch: one retry, for the races with an exiting incarnation.
Retries(t, retryable) == attempt[t] = 0 /\ retryable

RetryOrGiveUp(t, retryable, inst, act, shut) ==
    IF Retries(t, retryable)
    THEN /\ attempt' = [attempt EXCEPT ![t] = @ + 1]
         /\ Obtain(t, inst, act, shut)
         /\ UNCHANGED <<closed, closes>>
    ELSE /\ GiveUp(t)
         /\ instance' = inst
         /\ UNCHANGED <<future, reactor>>

\* The wake of a register failed, or its answer is late: the proxy is given up.
MarkClosedAndRetry(t) ==
    LET k == home[t]
        act == IF active = k THEN None ELSE active
    IN /\ proxyClosed' = proxyClosed \cup {k}
       /\ active' = act
       /\ RetryOrGiveUp(t, TRUE, None, act, proxyClosed \cup {k})

\* The await of forTransport is over.  The spawn it waited for has failed.
RegisterUnstarted(t) ==
    /\ t \in resumed /\ future[home[t]] = "failed"
    /\ GiveUp(t)
    /\ UNCHANGED <<tableVars, late, inbox, reactorVars>>

\* A transport resumed before this one found that the proxy is dead; the refusal
\* it gets, `fd reactor is stopped', is none that is retried.
RegisterStopped(t) ==
    /\ t \in resumed /\ future[home[t]] = "ready" /\ home[t] \in proxyClosed
    /\ RetryOrGiveUp(t, FALSE, None, active, proxyClosed)
    /\ UNCHANGED <<active, proxyClosed, late, inbox, cmds, registered, saw>>

Reachable(t) == t \in resumed /\ future[home[t]] = "ready" /\ home[t] \notin proxyClosed

RegisterUnwoken(t) ==
    /\ Reachable(t) /\ WakeFails(home[t])
    /\ cmds' = Deliver(home[t], "register", t)
    /\ MarkClosedAndRetry(t)
    /\ UNCHANGED <<late, inbox, registered, saw>>

RegisterSent(t) ==
    /\ Reachable(t) /\ ~WakeFails(home[t])
    /\ cmds' = Deliver(home[t], "register", t)
    /\ phase' = [phase EXCEPT ![t] = "registering"]
    /\ resumed' = resumed \ {t}
    /\ UNCHANGED <<tableVars, attempt, home, closed, late, inbox, reactor, registered,
                   saw, closes>>

Register(t) ==
    RegisterUnstarted(t) \/ RegisterStopped(t) \/ RegisterUnwoken(t) \/ RegisterSent(t)

-----------------------------------------------------------------------------
(* Main isolate: the application's calls on a registered transport.        *)

Usable(t) == phase[t] = "open" /\ t \notin closed

\* close(): a refused send is swallowed, the transport is torn down all the same.
Close(t) ==
    /\ Usable(t)
    /\ cmds' = IF home[t] \in proxyClosed THEN cmds ELSE Deliver(home[t], "close", t)
    /\ SendEffect(home[t])
    /\ closed' = closed \cup {t}
    /\ UNCHANGED <<future, phase, attempt, home, resumed, late, inbox, reactor,
                   registered, saw, closes>>

\* Any other command that is refused: a write, a closeWrite or an enableRead
\* tears the transport down, a disableRead or an acknowledgement does not.
CommandRefused(t) ==
    /\ Usable(t) /\ SendThrows(home[t])
    /\ SendEffect(home[t])
    /\ closed' \in {closed, closed \cup {t}}
    /\ UNCHANGED <<future, phase, attempt, home, resumed, late, inbox, reactorVars, closes>>

-----------------------------------------------------------------------------
(* Main isolate: messages and timers.                                      *)

NextMessage(kind) ==
    /\ resumed = {} /\ inbox # <<>> /\ Head(inbox).kind = kind
    /\ inbox' = Tail(inbox)

WaitersOf(k) == {t \in Transport : phase[t] = "obtaining" /\ home[t] = k}

\* _start: the handshake makes the proxy; one that timed out is not listened to.
HandleReady ==
    /\ NextMessage("ready")
    /\ LET k == Head(inbox).k IN
         IF future[k] = "pending"
         THEN /\ future' = [future EXCEPT ![k] = "ready"]
              /\ active' = k
              /\ resumed' = WaitersOf(k)
         ELSE UNCHANGED <<future, active, resumed>>
    /\ UNCHANGED <<instance, proxyClosed, phase, attempt, home, closed, late,
                   reactorVars, closes>>

\* The future of a failed spawn leaves the table, and fails those who wait.
SpawnFails(k) ==
    /\ future' = [future EXCEPT ![k] = "failed"]
    /\ instance' = None
    /\ resumed' = WaitersOf(k)
    /\ UNCHANGED <<active, proxyClosed, phase, attempt, home, closed, reactorVars, closes>>

HandleBootError ==
    /\ NextMessage("bootError")
    /\ IF future[Head(inbox).k] = "pending"
       THEN SpawnFails(Head(inbox).k)
       ELSE UNCHANGED <<tableVars, transportVars, reactorVars, closes>>
    /\ UNCHANGED late

SpawnTimesOut ==
    /\ resumed = {} /\ "slowStart" \in Faults
    /\ \E k \in Incarnation : future[k] = "pending" /\ SpawnFails(k)
    /\ UNCHANGED <<late, inbox>>

\* The exit listener of an incarnation: whatever future the shard has by now is
\* removed from the table.
HandleExit ==
    /\ NextMessage("exit")
    /\ LET k == Head(inbox).k IN
         IF future[k] = "ready"
         THEN /\ proxyClosed' = proxyClosed \cup {k}
              /\ active' = IF active = k THEN None ELSE active
              /\ instance' = None
         ELSE UNCHANGED <<proxyClosed, active, instance>>
    /\ UNCHANGED <<future, transportVars, late, reactorVars, closes>>

Answered(k, t) == phase[t] = "registering" /\ home[t] = k

HandleRegistered ==
    /\ NextMessage("registered")
    /\ LET t == Head(inbox).t
       IN phase' = IF Answered(Head(inbox).k, t) THEN [phase EXCEPT ![t] = "open"] ELSE phase
    /\ UNCHANGED <<tableVars, attempt, home, closed, resumed, late, reactorVars, closes>>

HandleRefused ==
    /\ NextMessage("refused")
    /\ LET t == Head(inbox).t IN
         IF Answered(Head(inbox).k, t)
         THEN RetryOrGiveUp(t, FALSE, instance, active, proxyClosed)
         ELSE UNCHANGED <<instance, future, transportVars, reactor, closes>>
    /\ UNCHANGED <<active, proxyClosed, late, cmds, registered, saw>>

\* The event port of a transport that gave up is closed.
HandleClosed ==
    /\ NextMessage("closed")
    /\ closed' = closed \cup ({Head(inbox).t} \ {t \in Transport : phase[t] = "failed"})
    /\ UNCHANGED <<tableVars, phase, attempt, home, resumed, late, reactorVars, closes>>

\* An answer to the registration of t by k is still to come.
AnswerPending(k, t) ==
    \/ \E i \in DOMAIN cmds[k] : cmds[k][i] = [kind |-> "register", t |-> t]
    \/ \E i \in DOMAIN inbox : inbox[i] \in {About("registered", k, t), About("refused", k, t)}

\* Mutant: only the first attempt has a timeout.
TimerFirstOnly(t) == phase[t] = "registering" /\ attempt[t] = 0

TimerArmed(t) == phase[t] = "registering"

RegisterTimesOut(t) ==
    /\ resumed = {} /\ TimerArmed(t)
    /\ IF AnswerPending(home[t], t) THEN late > 0 /\ late' = late - 1 ELSE UNCHANGED late
    /\ MarkClosedAndRetry(t)
    /\ UNCHANGED <<inbox, cmds, registered, saw>>

HandleMessage ==
    \/ HandleReady \/ HandleBootError \/ HandleExit
    \/ HandleRegistered \/ HandleRefused \/ HandleClosed

Main ==
    \/ \E t \in Transport : Adopt(t) \/ Register(t) \/ Close(t) \/ CommandRefused(t)
    \/ HandleMessage \/ SpawnTimesOut \/ \E t \in Transport : RegisterTimesOut(t)

-----------------------------------------------------------------------------
(* Reactor isolates.                                                       *)

\* _fdReactorWorker
Boot(k) ==
    /\ reactor[k] = "booting"
    /\ \/ /\ reactor' = [reactor EXCEPT ![k] = "running"]
          /\ inbox' = Append(inbox, OfShard("ready", k))
       \/ /\ "create" \in Faults
          /\ reactor' = [reactor EXCEPT ![k] = "stopped"]
          /\ inbox' = Append(inbox, OfShard("bootError", k))
    /\ UNCHANGED <<mainVars, cmds, registered, saw, closes>>

NextCommand(k, kind) ==
    /\ reactor[k] = "running" /\ cmds[k] # <<>> /\ Head(cmds[k]).kind = kind
    /\ cmds' = [cmds EXCEPT ![k] = Tail(@)]

\* Mutant: a reactor that cannot register a descriptor closes it.
RefuseAndClose(t) == closes' = [closes EXCEPT ![t] = @ + 1]

\* A descriptor that could not be registered is not the reactor's to close.
RefusedOnly(t) == UNCHANGED closes

\* A closed descriptor is not registered by the poller.
ProcessRegister(k) ==
    /\ NextCommand(k, "register")
    /\ LET t == Head(cmds[k]).t IN
         \/ /\ Cardinality(registered[k]) < MaxRegistered /\ closes[t] = 0
            /\ registered' = [registered EXCEPT ![k] = @ \cup {t}]
            /\ saw' = saw \cup {k}
            /\ inbox' = Append(inbox, About("registered", k, t))
            /\ UNCHANGED closes
         \/ /\ \/ Cardinality(registered[k]) >= MaxRegistered
               \/ closes[t] > 0 \/ "register" \in Faults
            /\ inbox' = Append(inbox, About("refused", k, t))
            /\ RefusedOnly(t)
            /\ UNCHANGED <<registered, saw>>
    /\ UNCHANGED <<mainVars, reactor>>

\* _closeReactorState of the transports S of incarnation k.
CloseStates(k, S) ==
    /\ registered' = [registered EXCEPT ![k] = @ \ S]
    /\ closes' = [t \in Transport |-> IF t \in S THEN closes[t] + 1 ELSE closes[t]]
    /\ inbox' = inbox \o SetToSeq({About("closed", k, t) : t \in S})

ProcessClose(k) ==
    /\ NextCommand(k, "close")
    /\ CloseStates(k, registered[k] \cap {Head(cmds[k]).t})
    /\ UNCHANGED <<mainVars, reactor, saw>>

\* End of both halves or an error on the descriptor.
TransportEnds(k) ==
    /\ reactor[k] = "running"
    /\ \E t \in registered[k] : CloseStates(k, {t})
    /\ UNCHANGED <<mainVars, reactor, cmds, saw>>

Idle(k) == k \in saw /\ registered[k] = {} /\ cmds[k] = <<>>

\* The idle grace has elapsed with no command left.  One that is sent from here on
\* is lost, although the poller can be woken until it is closed.
IdleExit(k) ==
    /\ reactor[k] = "running" /\ Idle(k)
    /\ reactor' = [reactor EXCEPT ![k] = "exiting"]
    /\ UNCHANGED <<mainVars, inbox, cmds, registered, saw, closes>>

\* The commands of the second drain have been processed when the loop gives up.
WaitFails(k) ==
    /\ "wait" \in Faults
    /\ reactor[k] = "running" /\ cmds[k] = <<>>
    /\ CloseStates(k, registered[k])
    /\ reactor' = [reactor EXCEPT ![k] = "exiting"]
    /\ UNCHANGED <<mainVars, cmds, saw>>

\* The poller is closed, then the isolate ends.
StopPoller(k) ==
    /\ reactor[k] = "exiting"
    /\ reactor' = [reactor EXCEPT ![k] = "stopped"]
    /\ inbox' = Append(inbox, OfShard("exit", k))
    /\ UNCHANGED <<mainVars, cmds, registered, saw, closes>>

ProcessCommand(k) == ProcessRegister(k) \/ ProcessClose(k)

Reactor(k) ==
    \/ Boot(k) \/ ProcessCommand(k) \/ TransportEnds(k)
    \/ IdleExit(k) \/ WaitFails(k) \/ StopPoller(k)

-----------------------------------------------------------------------------
PoolInit ==
    /\ instance = None /\ active = None /\ proxyClosed = {}
    /\ future = [k \in Incarnation |-> "none"]
    /\ phase = [t \in Transport |-> "new"]
    /\ attempt = [t \in Transport |-> 0]
    /\ home = [t \in Transport |-> None]
    /\ closed = {} /\ resumed = {} /\ late = LateTimeouts /\ inbox = <<>>
    /\ reactor = [k \in Incarnation |-> "none"]
    /\ cmds = [k \in Incarnation |-> <<>>]
    /\ registered = [k \in Incarnation |-> {}]
    /\ saw = {}
    /\ closes = [t \in Transport |-> 0]

PoolNext == Main \/ \E k \in Incarnation : Reactor(k)

PoolSpec == PoolInit /\ [][PoolNext]_poolVars

\* Both sides keep running and a timer that is due fires; a running incarnation
\* drains its commands on every turn, so faults of its transports starve nothing.
PoolFairness ==
    /\ WF_poolVars(HandleMessage)
    /\ \A t \in Transport : WF_poolVars(Register(t) \/ RegisterTimesOut(t))
    /\ \A k \in Incarnation : WF_poolVars(Boot(k) \/ ProcessCommand(k) \/ StopPoller(k))

PoolFairSpec == PoolSpec /\ PoolFairness

-----------------------------------------------------------------------------
(* Properties.                                                             *)

\* Every variable holds a value of its type.
PoolTypeOK ==
    /\ instance \in Incarnation \cup {None} /\ active \in Incarnation \cup {None}
    /\ future \in [Incarnation -> {"none", "pending", "ready", "failed"}]
    /\ proxyClosed \subseteq Incarnation
    /\ phase \in [Transport -> {"new", "obtaining", "registering", "open", "failed"}]
    /\ attempt \in [Transport -> {0, 1}]
    /\ home \in [Transport -> Incarnation \cup {None}]
    /\ closed \subseteq Transport /\ resumed \subseteq Transport
    /\ late \in 0 .. LateTimeouts
    /\ inbox \in Seq(Incoming)
    /\ reactor \in [Incarnation -> {"none", "booting", "running", "exiting", "stopped"}]
    /\ cmds \in [Incarnation -> Seq(Cmd)]
    /\ registered \in [Incarnation -> SUBSET Transport]
    /\ saw \subseteq Incarnation
    /\ closes \in [Transport -> Nat]

Owners(t) == {k \in Incarnation : t \in registered[k]}

\* Who owns each descriptor, for FdOwner.
Owner ==
    [t \in Transport |->
        IF closes[t] > 0 THEN "nobody" ELSE IF Owners(t) # {} THEN "reactor" ELSE "main"]

Ownership == INSTANCE FdOwner WITH Fd <- Transport, owner <- Owner, closes <- closes

\* Each descriptor is handed over at most once and closed exactly once by the one
\* that owns it, through retries, refusals and exits of incarnations.
OneOwner == Ownership!Spec

\* The transport and the reactors agree on the owner: a descriptor is registered
\* with the incarnation its transport addresses, or not at all, and never after
\* the transport gave up and closed it.
OwnerIsAddressed ==
    \A t \in Transport :
        /\ Owners(t) \subseteq {home[t]}
        /\ Owners(t) # {} => phase[t] \in {"registering", "open"} /\ closes[t] = 0

\* A transport that was closed, or gave up, has its descriptor closed: none leaks,
\* not even when the close command meets an incarnation on its way out.
NoLeak == \A t \in Transport : []<>(t \in closed \/ phase[t] = "failed" => closes[t] > 0)

\* Every adoption settles: a registration lost by an exiting incarnation is
\* answered by the timer and the retry.
AdoptSettles == \A t \in Transport : []<>(phase[t] \notin {"obtaining", "registering"})

\* The comment on close() says the reactor closes a registered fd exactly once; a
\* registration that times out and is processed late leaves two that own it.
ClosedOnce == \A t \in Transport : closes[t] <= 1

\* The comment of forTransport says that a call before the spawn completes returns
\* the future in flight rather than racing two spawns; the exit of the previous
\* incarnation removes that future from the table.
OneSpawn == Cardinality({k \in Incarnation : future[k] = "pending"}) <= 1
=============================================================================
