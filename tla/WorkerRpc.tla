------------------------------ MODULE WorkerRpc ------------------------------
(***************************************************************************)
(* The remote calls between the main isolate and the worker isolate that   *)
(* runs the native library (worker.dart, entrypoint.dart).  Requests carry *)
(* no identifier: a response belongs to the oldest pending request.        *)
(*                                                                         *)
(* `queue' is the event queue of the worker, where commands and the pushes *)
(* of the native runtime meet; `inbox' is that of the main isolate.  The   *)
(* continuation of a completed future runs before the main isolate takes   *)
(* its next message: see Turn.                                             *)
(***************************************************************************)
EXTENDS Naturals, Sequences

CONSTANTS
    Caller,    \* tasks of the main isolate, each awaiting one request at a time
    Request,   \* what a command asks for
    Reply,     \* what a response carries
    Event      \* what the native runtime pushes

VARIABLES
    isolate,    \* the worker isolate: "booting", "running" or "dead"
    port,       \* _sendPortCompleter: "pending", "ready" or "failed"
    disposed,   \* _disposed
    call,       \* the request of each caller and what became of it
    waiting,    \* callers that await _sendPort, in order
    pending,    \* _pendingRequests
    sent,       \* number of commands sent
    answered,   \* number of requests that left the front of _pendingRequests
    queue,
    executing,  \* the command the worker is executing, as a sequence of at most one
    inbox

mainVars == <<port, disposed, call, waiting, pending, sent, answered>>
vars == <<mainVars, isolate, queue, executing, inbox>>

-----------------------------------------------------------------------------
(* Messages.  n numbers the commands in the order they are sent; no guard  *)
(* reads it.                                                               *)

Command == [kind : {"command"}, from : Caller, n : Nat, what : Request]
Push == [kind : {"push"}, event : Event]
Response == [kind : {"response"}, to : Caller, n : Nat, reply : Reply]
Notice == [kind : {"ready", "bootFailure", "exit"}]
Completer == [from : Caller, n : Nat]

Idle == [at |-> "idle"]
Calls ==
    [at : {"idle", "failed"}] \cup [at : {"waiting"}, what : Request]
    \cup [at : {"sent"}, n : Nat] \cup [at : {"answered"}, n : Nat, by : Response]

\* No continuation is left to run: the main isolate may take a message or a timer.
Turn == \A c \in Caller : call[c].at \notin {"answered", "failed"}

-----------------------------------------------------------------------------
(* Main isolate.                                                           *)

\* The second half of _request, for the callers and requests of the sequence s.  A
\* command that is sent to a dead isolate is lost.
Send(s) ==
    LET command(i) == [kind |-> "command", from |-> s[i].c, n |-> sent + i, what |-> s[i].what]
        completer(i) == [from |-> s[i].c, n |-> sent + i]
    IN /\ pending' = pending \o [i \in DOMAIN s |-> completer(i)]
       /\ queue' = IF isolate = "running" THEN queue \o [i \in DOMAIN s |-> command(i)] ELSE queue
       /\ sent' = sent + Len(s)

\* _request
Ask(c, what) ==
    /\ \/ /\ disposed
          /\ call' = [call EXCEPT ![c] = [at |-> "failed"]]
          /\ UNCHANGED <<waiting, pending, sent, queue>>
       \/ /\ ~disposed /\ port = "pending"
          /\ call' = [call EXCEPT ![c] = [at |-> "waiting", what |-> what]]
          /\ waiting' = Append(waiting, c)
          /\ UNCHANGED <<pending, sent, queue>>
       \/ /\ ~disposed /\ port = "ready"
          /\ call' = [call EXCEPT ![c] = [at |-> "sent", n |-> sent + 1]]
          /\ Send(<<[c |-> c, what |-> what]>>)
          /\ UNCHANGED waiting
    /\ UNCHANGED <<port, disposed, answered, isolate, executing, inbox>>

\* The caller goes on with the result of its request.
Consume(c) == call' = [call EXCEPT ![c] = Idle]

\* Mutant: requests that were sent are left to their answers.
EndedAsking == {"waiting"}

\* Mutant: the future of the port is left open.
EndedSent == {"sent"}

\* What the end of the worker fails.
Ended == {"waiting", "sent"}

\* _dispose, without its calls of the native library.
Dispose ==
    /\ disposed' = TRUE
    /\ port' = IF port = "pending" THEN "failed" ELSE port
    /\ call' = [c \in Caller |-> IF call[c].at \in Ended THEN [at |-> "failed"]
                                 ELSE call[c]]
    /\ waiting' = <<>> /\ pending' = <<>> /\ inbox' = <<>>
    /\ UNCHANGED <<sent, answered, queue, executing>>

NextMessage(kind) == Turn /\ inbox # <<>> /\ Head(inbox).kind = kind

\* Isolate.spawn has thrown.
SpawnFails ==
    /\ Turn /\ isolate = "booting"
    /\ isolate' = "dead"
    /\ Dispose

HandleReady ==
    /\ NextMessage("ready")
    /\ port' = "ready"
    /\ call' = [c \in Caller |->
                   IF call[c].at # "waiting" THEN call[c]
                   ELSE [at |-> "sent",
                         n |-> sent + CHOOSE i \in DOMAIN waiting : waiting[i] = c]]
    /\ Send([i \in DOMAIN waiting |-> [c |-> waiting[i], what |-> call[waiting[i]].what]])
    /\ waiting' = <<>>
    /\ inbox' = Tail(inbox)
    /\ UNCHANGED <<disposed, answered, isolate, executing>>

HandleBootFailure == NextMessage("bootFailure") /\ Dispose /\ UNCHANGED isolate
HandleExit == NextMessage("exit") /\ Dispose /\ UNCHANGED isolate

\* Mutant: the youngest request is taken to be the one that is answered.
Youngest == pending[Len(pending)]

Oldest == Head(pending)

\* The oldest completer gets the response.
HandleResponse ==
    /\ NextMessage("response")
    /\ inbox' = Tail(inbox)
    /\ IF pending = <<>> THEN UNCHANGED <<call, pending, answered>>
       ELSE LET p == Oldest IN
            /\ pending' = Tail(pending)
            /\ answered' = answered + 1
            /\ call' = [call EXCEPT ![p.from] =
                           [at |-> "answered", n |-> p.n, by |-> Head(inbox)]]
    /\ UNCHANGED <<port, disposed, waiting, sent, isolate, queue, executing>>

HandlePush ==
    /\ NextMessage("push")
    /\ inbox' = Tail(inbox)
    /\ UNCHANGED <<mainVars, isolate, queue, executing>>

-----------------------------------------------------------------------------
(* Worker isolate.                                                         *)

\* _workerEntrypoint up to its first message.
BootSucceeds ==
    /\ isolate = "booting"
    /\ isolate' = "running"
    /\ inbox' = Append(inbox, [kind |-> "ready"])
    /\ UNCHANGED <<mainVars, queue, executing>>

BootFails ==
    /\ isolate = "booting"
    /\ isolate' = "dead"
    /\ inbox' = Append(inbox, [kind |-> "bootFailure"])
    /\ UNCHANGED <<mainVars, queue, executing>>

NextEvent(kind) ==
    isolate = "running" /\ executing = <<>> /\ queue # <<>> /\ Head(queue).kind = kind

\* The command listener: a command runs to its response before the next event.
Begin ==
    /\ NextEvent("command")
    /\ executing' = <<Head(queue)>>
    /\ queue' = Tail(queue)
    /\ UNCHANGED <<mainVars, isolate, inbox>>

\* What the native call posts joins the queue on its own.
Respond(reply) ==
    /\ executing # <<>>
    /\ inbox' = Append(inbox, [kind |-> "response", to |-> executing[1].from,
                               n |-> executing[1].n, reply |-> reply])
    /\ executing' = <<>>
    /\ UNCHANGED <<mainVars, isolate>>

\* The listener of the native port.
Forward ==
    /\ NextEvent("push")
    /\ inbox' = Append(inbox, Head(queue))
    /\ queue' = Tail(queue)
    /\ UNCHANGED <<mainVars, isolate, executing>>

\* The isolate ends; what it had not taken is lost.
Exit ==
    /\ isolate = "running" /\ executing = <<>>
    /\ isolate' = "dead"
    /\ queue' = <<>>
    /\ inbox' = Append(inbox, [kind |-> "exit"])
    /\ UNCHANGED <<mainVars, executing>>

-----------------------------------------------------------------------------
(* The layer by itself: any caller asks for anything, anything is pushed.  *)

Init ==
    /\ isolate = "booting" /\ port = "pending" /\ disposed = FALSE
    /\ call = [c \in Caller |-> Idle]
    /\ waiting = <<>> /\ pending = <<>> /\ sent = 0 /\ answered = 0
    /\ queue = <<>> /\ executing = <<>> /\ inbox = <<>>

Asks(c) == call[c] = Idle /\ \E what \in Request : Ask(c, what)

Goes(c) ==
    /\ call[c].at \in {"answered", "failed"}
    /\ Consume(c)
    /\ UNCHANGED <<port, disposed, waiting, pending, sent, answered, isolate, queue, executing,
                   inbox>>

\* A continuation that makes the next request of its caller.
GoesOn(c) == call[c].at \in {"answered", "failed"} /\ \E what \in Request : Ask(c, what)

Posts == \E event \in Event : queue' = Append(queue, [kind |-> "push", event |-> event])

\* The native call may have posted as well.
Responds == (\E reply \in Reply : Respond(reply)) /\ (Posts \/ UNCHANGED queue)

Pushed ==
    /\ isolate = "running"
    /\ Posts
    /\ UNCHANGED <<mainVars, isolate, executing, inbox>>

Next ==
    \/ \E c \in Caller : Asks(c) \/ Goes(c) \/ GoesOn(c)
    \/ SpawnFails \/ HandleReady \/ HandleBootFailure \/ HandleExit \/ HandleResponse
    \/ HandlePush
    \/ BootSucceeds \/ BootFails \/ Begin \/ Responds \/ Forward
    \/ Exit \/ Pushed

Spec == Init /\ [][Next]_vars

-----------------------------------------------------------------------------
(* Properties.                                                             *)

RpcTypeOK ==
    /\ isolate \in {"booting", "running", "dead"}
    /\ port \in {"pending", "ready", "failed"}
    /\ disposed \in BOOLEAN
    /\ call \in [Caller -> Calls]
    /\ waiting \in Seq(Caller) /\ pending \in Seq(Completer)
    /\ sent \in Nat /\ answered \in Nat
    /\ queue \in Seq(Command \cup Push)
    /\ executing \in Seq(Command) /\ Len(executing) <= 1
    /\ inbox \in Seq(Response \cup Push \cup Notice)

\* A request is completed with the response of its own command, whatever was
\* pending before it, pushed in between, or asked before the worker had started.
AnswersMatch ==
    \A c \in Caller : call[c].at = "answered" => call[c].by.to = c /\ call[c].by.n = call[c].n

\* No caller is left behind by the end of the worker: an open request is in
\* _pendingRequests or waits for the port, and there is none once _disposed is set.
NobodyForgotten ==
    \A c \in Caller :
        /\ call[c].at = "waiting" => \E i \in DOMAIN waiting : waiting[i] = c
        /\ call[c].at = "sent" => \E i \in DOMAIN pending : pending[i] = [from |-> c, n |-> call[c].n]
        /\ disposed => call[c].at \notin {"waiting", "sent"}
=============================================================================
