---------------------------- MODULE NodeLifecycle ----------------------------
(***************************************************************************)
(* Bringing the embedded node up and down: the lifecycle calls of the      *)
(* Tailscale singleton on the main isolate, the worker that executes them  *)
(* (WorkerRpc) and the runtime it drives (GoRuntime), composed.  The two   *)
(* share the event queue of the worker.                                    *)
(***************************************************************************)
EXTENDS Naturals, Sequences

CONSTANTS
    Kinds,         \* bound: which lifecycle calls the application may make as its first,
                   \* its second, ...
    MaxWatchers, MaxChanges, Faults   \* of GoRuntime

ASSUME NodeAssumption ==
    /\ Kinds \in Seq(SUBSET {"up", "upKey", "down", "logout"})
    /\ MaxWatchers \in Nat \ {0} /\ MaxChanges \in Nat
    /\ Faults \subseteq {"start", "bus", "watch", "wipe", "exit", "boot"}

VARIABLES
    isolate, port, disposed, call, waiting, pending, sent, answered, queue, executing, inbox,
    dartPort, engine, engines, nodeState, stored, watchers, watcher, cancelled, watchCancel,
    timer, publishing, cache, changes,
    step,     \* where the command under execution stands
    op,       \* the lifecycle calls
    http,     \* whether _http is set
    latest    \* engine of _latestNodes, 0 for none

-----------------------------------------------------------------------------
\* The lifecycle calls are numbered in the order they are made.
Op == DOMAIN Kinds
UpKinds == {"up", "upKey"}

\* needsMachineAuth is stable as well, and filtered as Running is.
Synthetic == {"Stopped", "NoState"}
Stable == {"Running", "NeedsLogin"}
Nothing == "nothing"
State == {"Starting"} \cup Stable \cup Synthetic

Requests == UpKinds \cup {"down", "logout", "status"}
Go == INSTANCE GoRuntime

Replies == [ok : BOOLEAN, state : State \cup {Nothing}, engine : Go!Number]

Rpc == INSTANCE WorkerRpc
       WITH Caller <- Op, Request <- Requests, Reply <- Replies, Event <- Go!Events

rpcVars == <<isolate, port, disposed, call, waiting, pending, sent, answered, executing, inbox>>
serverVars == <<engine, engines, nodeState, stored>>
watchVars == <<watchers, watcher, cancelled, watchCancel, timer, publishing, cache>>
goVars == <<dartPort, serverVars, watchVars, changes>>
apiVars == <<op, http, latest>>
vars == <<rpcVars, queue, goVars, step, apiVars>>

-----------------------------------------------------------------------------
(* Main isolate: Tailscale.                                                *)

\* An up that waits for a stable state goes on once it has seen one.
Resumable(o) == op[o].at = "settle" /\ op[o].stable # Nothing
Turn == Rpc!Turn /\ \A o \in Op : ~Resumable(o)

\* Only the main isolate acts, on its futures and its request queue.
MainOnly == UNCHANGED <<goVars, step>>

\* early and by are histories that no guard reads: whether up has heard `running' before
\* its start had returned and then read a status that was not stable, and of which engine
\* the state was that ended its wait.
NewOp == [kind |-> Nothing, at |-> "idle", last |-> Nothing, early |-> FALSE,
          stable |-> Nothing, engine |-> 0, by |-> 0]

IsNext(o) == op[o].at = "idle" /\ \A p \in Op : p < o => op[p].at # "idle"

\* _reset
Reset == http' = FALSE /\ latest' = 0

\* up: it listens to the states, then loads the snapshot of the host's interfaces.
CallUp(o) ==
    /\ Turn /\ IsNext(o)
    /\ \E k \in Kinds[o] \cap UpKinds : op' = [op EXCEPT ![o].kind = k, ![o].at = "snapshot"]
    /\ UNCHANGED <<rpcVars, queue, http, latest>> /\ MainOnly

SnapshotLoaded(o) ==
    /\ Turn /\ op[o].at = "snapshot"
    /\ op' = [op EXCEPT ![o].at = "start"]
    /\ Rpc!Ask(o, op[o].kind)
    /\ UNCHANGED <<http, latest>> /\ MainOnly

\* down, logout
CallDown(o) ==
    /\ Turn /\ IsNext(o)
    /\ \E k \in Kinds[o] \ UpKinds :
         op' = [op EXCEPT ![o].kind = k, ![o].at = "act"] /\ Rpc!Ask(o, k)
    /\ Reset
    /\ MainOnly

Got(o, at) == op[o].at = at /\ call[o].at = "answered" /\ call[o].by.reply.ok
ReplyTo(o) == call[o].by.reply

AskStatus(o, at) ==
    /\ op' = [op EXCEPT ![o].at = at]
    /\ Rpc!Ask(o, "status")

GoOn(o) ==
    /\ Rpc!Consume(o)
    /\ UNCHANGED <<isolate, port, disposed, waiting, pending, sent, answered, executing, inbox,
                   queue>>

\* The worker has started the node.
UpStarted(o) ==
    /\ Got(o, "start")
    /\ http' = TRUE
    /\ op' = [op EXCEPT ![o].at = "check", ![o].engine = ReplyTo(o).engine]
    /\ Rpc!Ask(o, "status")
    /\ UNCHANGED latest /\ MainOnly

\* Mutant: the state the node has by now is not looked at.
NeverStable(o) == FALSE

SeesStable(o) == ReplyTo(o).state \in Stable

UpChecked(o) ==
    /\ Got(o, "check")
    /\ IF SeesStable(o) \/ op[o].stable # Nothing THEN AskStatus(o, "final")
       ELSE GoOn(o) /\ op' = [op EXCEPT ![o].at = "settle",
                                        ![o].early = @ /\ ReplyTo(o).state \notin Stable]
    /\ UNCHANGED <<http, latest>> /\ MainOnly

UpSettled(o) ==
    /\ Rpc!Turn /\ Resumable(o)
    /\ AskStatus(o, "final")
    /\ UNCHANGED <<http, latest>> /\ MainOnly

UpTimesOut(o) ==
    /\ Turn /\ op[o].at = "settle"
    /\ AskStatus(o, "last")
    /\ UNCHANGED <<http, latest>> /\ MainOnly

\* The call of the application returns, or throws.
Returns(o) ==
    /\ \E at \in {"final", "act"} : Got(o, at)
    /\ op' = [op EXCEPT ![o] = [NewOp EXCEPT !.kind = op[o].kind, !.at = "done"]]
    /\ GoOn(o)
    /\ UNCHANGED <<http, latest>> /\ MainOnly

Throws(o) ==
    /\ \/ call[o].at = "failed"
       \/ call[o].at = "answered" /\ (~ReplyTo(o).ok \/ op[o].at = "last")
    /\ op' = [op EXCEPT ![o] = [NewOp EXCEPT !.kind = op[o].kind, !.at = "failed"]]
    /\ GoOn(o)
    /\ UNCHANGED <<http, latest>> /\ MainOnly

Continue(o) == UpStarted(o) \/ UpChecked(o) \/ UpSettled(o) \/ Returns(o) \/ Throws(o)

NextPush(type) == Turn /\ Rpc!HandlePush /\ Head(inbox).event.type = type

Listening(o) == op[o].kind \in UpKinds /\ op[o].at \in {"snapshot", "start", "check", "settle"}

\* onStateChange drops consecutive duplicates.
Filters(o, s) == s = op[o].last /\ s # "NeedsLogin"

\* The listener of up: what arrives before start has returned does not count.
Hears(o, s, g) ==
    IF ~Listening(o) THEN op[o]
    ELSE IF op[o].at \in {"check", "settle"} /\ ~Filters(o, s) /\ s \in Stable
            /\ op[o].stable = Nothing
    THEN [op[o] EXCEPT !.last = s, !.stable = s, !.by = g]
    ELSE [op[o] EXCEPT !.last = s,
                       !.early = @ \/ (op[o].at \in {"snapshot", "start"} /\ s = "Running")]

HandleStatus ==
    /\ NextPush("status")
    /\ LET e == Head(inbox).event
       IN op' = [o \in Op |-> Hears(o, e.state, e.engine)]
    /\ UNCHANGED <<http, latest>> /\ MainOnly

\* _publishNodes
HandlePeers ==
    /\ NextPush("peers")
    /\ latest' = Head(inbox).event.engine
    /\ UNCHANGED <<op, http>> /\ MainOnly

HandleError == NextPush("error") /\ UNCHANGED apiVars /\ MainOnly

HandleReady == Turn /\ Rpc!HandleReady /\ UNCHANGED apiVars /\ MainOnly
HandleResponse == Turn /\ Rpc!HandleResponse /\ UNCHANGED apiVars /\ MainOnly

\* _dispose stops the watcher and the node.
SpawnFails ==
    /\ "boot" \in Faults
    /\ Turn /\ Rpc!SpawnFails /\ Go!StopUnheard /\ UNCHANGED <<step, apiVars>>
HandleBootFailure ==
    Turn /\ Rpc!HandleBootFailure /\ Go!StopUnheard /\ UNCHANGED <<step, apiVars>>
HandleExit ==
    Turn /\ Rpc!HandleExit /\ Go!StopUnheard /\ UNCHANGED <<step, apiVars>>

HandleMessage ==
    \/ HandleStatus \/ HandlePeers \/ HandleError \/ HandleReady \/ HandleResponse
    \/ HandleBootFailure \/ HandleExit

-----------------------------------------------------------------------------
(* Worker isolate.                                                         *)

\* The native port is registered before the main isolate hears of the worker.
BootSucceeds ==
    /\ Rpc!BootSucceeds
    /\ dartPort' = TRUE
    /\ UNCHANGED <<serverVars, watchVars, changes, step, apiVars>>

BootFails ==
    /\ "boot" \in Faults
    /\ Rpc!BootFails
    /\ UNCHANGED apiVars /\ MainOnly

Forward == Rpc!Forward /\ UNCHANGED apiVars /\ MainOnly

Exit == "exit" \in Faults /\ Rpc!Exit /\ UNCHANGED apiVars /\ MainOnly

\* Mutant: a start without a key does not look for a stored session.
NeedsNoState(what) == FALSE

LacksState(what) == what = "up" /\ ~stored

At(s) == executing # <<>> /\ step = s
Doing == executing[1].what

\* The first thing a lifecycle command does is to stop the watcher.
Begin ==
    /\ Rpc!Begin
    /\ LET what == Head(queue).what IN
         IF what # "status" /\ ~LacksState(what)
         THEN /\ Go!StopWatch
              /\ step' = IF what \in UpKinds THEN "start" ELSE "stop"
         ELSE /\ UNCHANGED watchVars
              /\ step' = IF what = "status" THEN "read" ELSE "refuse"
    /\ UNCHANGED <<dartPort, serverVars, changes, apiVars>>

RespondWith(ok, state) ==
    /\ Rpc!Respond([ok |-> ok, state |-> state, engine |-> engine'])
    /\ step' = "none"
    /\ UNCHANGED apiVars

Refuse == At("refuse") /\ UNCHANGED <<goVars, queue>> /\ RespondWith(FALSE, Nothing)

\* _loadStatusSnapshot
StatusNow ==
    IF engine # 0 THEN nodeState ELSE IF stored THEN "Stopped" ELSE "NoState"

ReadStatus == At("read") /\ UNCHANGED <<goVars, queue>> /\ RespondWith(TRUE, StatusNow)

ExecStart ==
    /\ At("start")
    /\ IF Doing = "up" /\ engine # 0 THEN Go!StartKeeps ELSE Go!StartSucceeds
    /\ step' = "startWatch"
    /\ UNCHANGED <<rpcVars, apiVars>>

ExecStartFails ==
    /\ At("start") /\ ~(Doing = "up" /\ engine # 0)
    /\ Go!StartFails
    /\ RespondWith(FALSE, Nothing)

ExecStartWatch ==
    At("startWatch") /\ (Go!StartWatch \/ Go!StartWatchFails) /\ RespondWith(TRUE, Nothing)

ExecStop ==
    /\ At("stop")
    /\ Go!Stop
    /\ IF Doing = "down" THEN RespondWith(TRUE, Nothing)
       ELSE step' = "wipe" /\ UNCHANGED <<rpcVars, apiVars>>

ExecWipe == At("wipe") /\ Go!Wipe /\ RespondWith(TRUE, Nothing)

ExecWipeFails == At("wipe") /\ Go!WipeFails /\ RespondWith(FALSE, Nothing)

Execute ==
    \/ Refuse \/ ReadStatus \/ ExecStart \/ ExecStartFails \/ ExecStartWatch
    \/ ExecStop \/ ExecWipe \/ ExecWipeFails

-----------------------------------------------------------------------------
(* Runtime.                                                                *)

RuntimeOnly == UNCHANGED <<rpcVars, step, apiVars>>
NodeChanges == Go!NodeChanges /\ RuntimeOnly
Goroutine(w) == Go!Goroutine(w) /\ RuntimeOnly
WatchBreaks(w) == Go!WatchBreaks(w) /\ RuntimeOnly
TimerFires == Go!TimerFires /\ RuntimeOnly

-----------------------------------------------------------------------------
Init ==
    /\ Rpc!Init /\ Go!GoInit
    /\ step = "none"
    /\ op = [o \in Op |-> NewOp]
    /\ http = FALSE /\ latest = 0

Main ==
    \/ \E o \in Op :
         CallUp(o) \/ SnapshotLoaded(o) \/ CallDown(o) \/ Continue(o) \/ UpTimesOut(o)
    \/ HandleMessage \/ SpawnFails

WorkerStep == BootSucceeds \/ BootFails \/ Begin \/ Execute \/ Forward \/ Exit

Runtime ==
    \/ NodeChanges \/ TimerFires
    \/ \E w \in 1 .. MaxWatchers : Goroutine(w) \/ WatchBreaks(w)

Next == Main \/ WorkerStep \/ Runtime

Spec == Init /\ [][Next]_vars

\* Both isolates keep running, the host's interfaces are listed, and a timeout that
\* is armed fires.  The node owes no state.
WorkerStarts == BootSucceeds \/ BootFails \/ SpawnFails
WorkerGoesOn == Begin \/ Execute \/ Forward
CallGoesOn(o) == SnapshotLoaded(o) \/ Continue(o) \/ UpTimesOut(o)

Fairness ==
    /\ WF_vars(HandleMessage) /\ WF_vars(WorkerStarts) /\ WF_vars(WorkerGoesOn)
    /\ \A o \in Op : WF_vars(CallGoesOn(o))

FairSpec == Spec /\ Fairness

-----------------------------------------------------------------------------
(* Properties.                                                             *)

\* Every variable holds a value of its type.
NodeTypeOK ==
    /\ Rpc!RpcTypeOK /\ Go!GoTypeOK
    /\ step \in {"none", "read", "refuse", "start", "startWatch", "stop", "wipe"}
    /\ op \in [Op -> [kind : UpKinds \cup {"down", "logout", Nothing},
                      at : {"idle", "snapshot", "start", "check", "settle", "final", "last", "act",
                            "done", "failed"},
                      last : State \cup {Nothing}, early : BOOLEAN,
                      stable : Stable \cup {Nothing},
                      engine : Go!Number, by : Go!Number]]
    /\ http \in BOOLEAN /\ latest \in Go!Number

\* WorkerRpc's promises, in this composition.
AnswersMatch == Rpc!AnswersMatch
NobodyForgotten == Rpc!NobodyForgotten

\* The identity cache is warm only for the server that runs and under a watcher
\* that was not told to stop: no tick in flight warms it again after a stop, and
\* none of a previous server lands in it.
CacheIsCurrent == cache # 0 => cache = engine /\ watchCancel \notin cancelled \cup {0}

Carries(parts) == \E i \in DOMAIN parts : parts[i] \in Stable
PushesStable(msgs) ==
    \E i \in DOMAIN msgs :
        msgs[i].kind = "push" /\ msgs[i].event.type = "status" /\ msgs[i].event.state \in Stable

\* The node is stable, and what it says reaches the main isolate.
Deliverable ==
    /\ engine # 0 /\ nodeState \in Stable
    /\ watchCancel # 0 /\ Go!Watching(watchCancel) /\ isolate = "running"

\* A stable state is on its way to the main isolate.
OnItsWay ==
    \/ Carries(watcher[watchCancel].held)
    \/ \E i \in DOMAIN watcher[watchCancel].bus : Carries(watcher[watchCancel].bus[i])
    \/ PushesStable(queue) \/ PushesStable(inbox)

\* An up is not left waiting for a state that came and went between its
\* subscription, the start and its one look at the status: while the node is stable
\* and watched, a stable state is on its way to it.  One that heard `running' before
\* its start had returned, and read another status, may be left: a second `running' is a
\* duplicate to onStateChange.
SettleNotMissed ==
    \A o \in Op :
        op[o].at = "settle" /\ op[o].stable = Nothing /\ ~op[o].early /\ Deliverable
        => OnItsWay

\* A successful logout lasts: without a new key, no server and no credentials.
LogoutHolds ==
    \A o \in Op :
        op[o].kind = "logout" /\ op[o].at = "done" /\ (\A p \in Op : op[p].kind # "upKey")
        => engine = 0 /\ ~stored

\* Every lifecycle call returns or throws, whatever becomes of the worker: one that was
\* made is not under way for ever.
OpsFinish == \A o \in Op : []<>(op[o].at \in {"idle", "done", "failed"})

\* The comment in up() says that the lingering `running' of the old engine does not
\* satisfy the wait for a stable state.
SettledByItsEngine == \A o \in Op : op[o].stable # Nothing => op[o].by >= op[o].engine
=============================================================================
