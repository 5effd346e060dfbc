----------------------------- MODULE HttpBinding -----------------------------
(* One HTTP server binding of the tailnet, from the Go listener to the stream  *)
(* of requests of the application: HttpBind, the http.Server and its handler   *)
(* goroutines, the bounded channel, the two closers and stopLocked in Go; the  *)
(* accept isolate and _FdTailscaleHttpServer in Dart.  Every request carries   *)
(* two descriptors that exactly one party must close.                          *)
(*                                                                             *)
(* Abstracted: heads and bodies, the codec between Go and Dart, and the ends   *)
(* of the socket pairs that Go keeps (each handler closes its own on every     *)
(* path; after the send it waits for the end of the response, which comes when *)
(* the Dart-side descriptor is closed, and returns).  A handler that cannot    *)
(* make its socket pairs, and a Listen on a server that was closed since srv   *)
(* was read, leave nothing behind and are left out.                            *)
EXTENDS Naturals, Sequences, FiniteSets

CONSTANTS
    HttpRequests,     \* bound: how many requests callers make
    HttpBacklog,      \* httpAcceptBacklog
    MaxPendingHttp    \* _maxPendingHttpAccepts

ASSUME HttpAssumption ==
    HttpRequests \in Nat /\ HttpBacklog \in Nat \ {0} /\ MaxPendingHttp \in Nat

VARIABLES
    httpBind,         \* progress of HttpBind on the worker isolate
    httpStop,         \* progress of stopLocked, which holds mu: its next step
    httpDisposed,     \* Stop comes from Worker._dispose: the worker answers no more
    httpListening,    \* the listener is open
    httpRegistered,   \* the binding is in httpBindingRegistry
    httpOnce,         \* the sync.Once of close
    httpDone,         \* the channel done is closed
    httpCloser,       \* the two calls of close: of whoever took the entry, of Serve
    httpChannel,      \* the channel requests
    httpHandler,      \* serveHTTPFdRequest of each request
    httpCloses,       \* how often each Dart-side descriptor was closed
    httpAccept,       \* _httpAcceptLoop
    httpHeld,         \* the request in its hand: a sequence of at most one
    httpServer,       \* _FdTailscaleHttpServer
    httpSub,          \* the subscription to its stream
    httpInbox,        \* messages of the accept isolate under way to the main isolate
    httpPending,      \* _pendingAccepts
    httpAdopting,     \* _deliverAccepted of each request: what it awaits
    httpGiven         \* requests added to the stream: their transports own the descriptors

httpBindVars == <<httpBind, httpDisposed, httpListening, httpRegistered>>
httpGoVars == <<httpStop, httpOnce, httpDone, httpCloser>>
httpQueueVars == <<httpChannel, httpHandler>>
httpAcceptVars == <<httpAccept, httpHeld>>
httpDartVars == <<httpServer, httpSub, httpInbox, httpPending, httpAdopting, httpGiven>>
httpVars == <<httpBindVars, httpGoVars, httpQueueVars, httpCloses, httpAcceptVars, httpDartVars>>

HttpRequest == 1..HttpRequests     \* in the order of arrival
HttpEnd == {"request", "response"}
HttpCloserId == {"explicit", "serve"}

\* The first message is handled first; a sequence holds a request at most once.
Members(s) == {s[i] : i \in 1..Len(s)}

HttpTypeOK ==
    /\ httpBind \in {"idle", "listening", "checked", "bound", "failed"}
    /\ httpStop \in {"no", "registry", "closing", "server", "done"}
    /\ httpDisposed \in BOOLEAN /\ httpListening \in BOOLEAN /\ httpRegistered \in BOOLEAN
    /\ httpOnce \in {"no", "running", "done"} /\ httpDone \in BOOLEAN
    /\ httpCloser \in [HttpCloserId ->
                         {"idle", "entered", "closing", "draining", "drained", "over"}]
    /\ httpChannel \in Seq(HttpRequest) /\ Len(httpChannel) <= HttpBacklog
    /\ httpHandler \in [HttpRequest -> {"idle", "ready", "sent", "over"}]
    /\ httpCloses \in [HttpRequest -> [HttpEnd -> Nat]]
    /\ httpAccept \in {"none", "calling", "selecting", "holding", "ended"}
    /\ httpHeld \in Seq(HttpRequest)
    /\ httpServer \in {"absent", "open", "closing", "awaiting", "closed"}
    /\ httpSub \in {"none", "active", "paused"}
    /\ httpInbox \in Seq(HttpRequest)
    /\ httpPending \in Seq(HttpRequest) /\ Len(httpPending) <= MaxPendingHttp
    /\ httpAdopting \in [HttpRequest -> {"no", "request", "response"}]
    /\ httpGiven \subseteq HttpRequest

HttpInit ==
    /\ httpBind = "idle" /\ httpStop = "no" /\ httpDisposed = FALSE
    /\ httpListening = FALSE /\ httpRegistered = FALSE
    /\ httpOnce = "no" /\ httpDone = FALSE
    /\ httpCloser = [c \in HttpCloserId |-> "idle"]
    /\ httpChannel = <<>> /\ httpHandler = [r \in HttpRequest |-> "idle"]
    /\ httpCloses = [r \in HttpRequest |-> [e \in HttpEnd |-> 0]]
    /\ httpAccept = "none" /\ httpHeld = <<>>
    /\ httpServer = "absent" /\ httpSub = "none" /\ httpInbox = <<>> /\ httpPending = <<>>
    /\ httpAdopting = [r \in HttpRequest |-> "no"] /\ httpGiven = {}

\* Both Dart-side descriptors of the requests rs are closed.
CloseBoth(rs) ==
    httpCloses' = [r \in HttpRequest |->
                     IF r \in rs THEN [e \in HttpEnd |-> httpCloses[r][e] + 1] ELSE httpCloses[r]]
-----------------------------------------------------------------------------
(* HttpBind, on the worker isolate. *)

HttpListen ==
    /\ httpBind = "idle" /\ httpStop = "no"
    /\ httpBind' = "listening" /\ httpListening' = TRUE
    /\ UNCHANGED <<httpDisposed, httpRegistered, httpGoVars, httpQueueVars, httpCloses,
                   httpAcceptVars, httpDartVars>>

\* The check of srv under mu, which a Stop in progress holds.
HttpRecheck ==
    /\ httpBind = "listening" /\ httpStop \in {"no", "done"}
    /\ httpBind' = IF httpStop = "no" THEN "checked" ELSE "failed"
    /\ httpListening' = (httpStop = "no")
    /\ UNCHANGED <<httpDisposed, httpRegistered, httpGoVars, httpQueueVars, httpCloses,
                   httpAcceptVars, httpDartVars>>

\* Neither mu nor the outcome of the check is held any longer.
HttpRegister ==
    /\ httpBind = "checked"
    /\ httpBind' = "bound" /\ httpRegistered' = TRUE
    /\ UNCHANGED <<httpDisposed, httpListening, httpGoVars, httpQueueVars, httpCloses,
                   httpAcceptVars, httpDartVars>>

\* The answer of the worker: the main isolate makes the server object.
HttpBindReturns ==
    /\ httpBind = "bound" /\ httpServer = "absent" /\ ~httpDisposed
    /\ httpServer' = "open"
    /\ UNCHANGED <<httpBindVars, httpGoVars, httpQueueVars, httpCloses, httpAcceptVars,
                   httpSub, httpInbox, httpPending, httpAdopting, httpGiven>>
-----------------------------------------------------------------------------
(* The handler goroutines of the http.Server. *)

\* A request arrives and its two socket pairs are made.
HttpArrive(r) ==
    /\ httpBind = "bound" /\ httpListening
    /\ httpHandler[r] = "idle" /\ \A q \in 1..(r - 1) : httpHandler[q] # "idle"
    /\ httpHandler' = [httpHandler EXCEPT ![r] = "ready"]
    /\ UNCHANGED <<httpBindVars, httpGoVars, httpChannel, httpCloses, httpAcceptVars,
                   httpDartVars>>

\* The select may choose the send although done is closed.
HttpEnqueue(r) ==
    /\ httpHandler[r] = "ready" /\ Len(httpChannel) < HttpBacklog
    /\ httpChannel' = Append(httpChannel, r)
    /\ httpHandler' = [httpHandler EXCEPT ![r] = "sent"]
    /\ UNCHANGED <<httpBindVars, httpGoVars, httpCloses, httpAcceptVars, httpDartVars>>

\* A full backlog, a closed binding, or a caller that went away.
HttpRefuse(r) ==
    /\ httpHandler[r] = "ready"
    /\ httpHandler' = [httpHandler EXCEPT ![r] = "over"]
    /\ CloseBoth({r})
    /\ UNCHANGED <<httpBindVars, httpGoVars, httpChannel, httpAcceptVars,
                   httpDartVars>>
-----------------------------------------------------------------------------
(* httpBindingState.close, run by whoever took the registry entry and again by *)
(* the goroutine of Serve.                                                     *)

\* Serve returns once the listener is closed, by whomever.
HttpServeReturns ==
    /\ httpBind = "bound" /\ ~httpListening /\ httpCloser["serve"] = "idle"
    /\ httpCloser' = [httpCloser EXCEPT !["serve"] = "entered"]
    /\ UNCHANGED <<httpBindVars, httpStop, httpOnce, httpDone, httpQueueVars, httpCloses,
                   httpAcceptVars, httpDartVars>>

HttpCloseDone(c) ==
    /\ httpCloser[c] = "entered" /\ httpOnce = "no"
    /\ httpOnce' = "running" /\ httpDone' = TRUE
    /\ httpCloser' = [httpCloser EXCEPT ![c] = "closing"]
    /\ UNCHANGED <<httpBindVars, httpStop, httpQueueVars, httpCloses, httpAcceptVars,
                   httpDartVars>>

\* server.Close closes the listener; it waits for no handler.
HttpCloseServer(c) ==
    /\ httpCloser[c] = "closing"
    /\ httpListening' = FALSE /\ httpOnce' = "done"
    /\ httpCloser' = [httpCloser EXCEPT ![c] = "draining"]
    /\ UNCHANGED <<httpBind, httpDisposed, httpRegistered, httpStop, httpDone, httpQueueVars,
                   httpCloses, httpAcceptVars, httpDartVars>>

\* The second caller of once.Do waits for the first.
HttpCloseAgain(c) ==
    /\ httpCloser[c] = "entered" /\ httpOnce = "done"
    /\ httpCloser' = [httpCloser EXCEPT ![c] = "draining"]
    /\ UNCHANGED <<httpBindVars, httpStop, httpOnce, httpDone, httpQueueVars, httpCloses,
                   httpAcceptVars, httpDartVars>>

HttpDrain(c) ==
    /\ httpCloser[c] = "draining" /\ httpChannel # <<>>
    /\ httpChannel' = Tail(httpChannel)
    /\ CloseBoth({Head(httpChannel)})
    /\ UNCHANGED <<httpBindVars, httpGoVars, httpHandler, httpAcceptVars,
                   httpDartVars>>

\* The default of the select.
HttpDrained(c) ==
    /\ httpCloser[c] = "draining" /\ httpChannel = <<>>
    /\ httpCloser' = [httpCloser EXCEPT ![c] = IF c = "serve" THEN "drained" ELSE "over"]
    /\ UNCHANGED <<httpBindVars, httpStop, httpOnce, httpDone, httpQueueVars, httpCloses,
                   httpAcceptVars, httpDartVars>>

\* Mutant: the goroutine of Serve leaves the entry to whoever closes the binding.
HttpKeepsEntry == httpRegistered

\* The entry is removed, if it is still there.
HttpEntryAfterServe == FALSE

HttpDeregister ==
    /\ httpCloser["serve"] = "drained"
    /\ httpCloser' = [httpCloser EXCEPT !["serve"] = "over"]
    /\ httpRegistered' = HttpEntryAfterServe
    /\ UNCHANGED <<httpBind, httpDisposed, httpListening, httpStop, httpOnce, httpDone,
                   httpQueueVars, httpCloses, httpAcceptVars, httpDartVars>>
-----------------------------------------------------------------------------
(* stopLocked.  A down runs on the worker, between its other commands; the     *)
(* dispose of the worker calls Stop from the main isolate at any moment.       *)

HttpStopBegins ==
    /\ httpStop = "no" /\ httpStop' = "registry"
    /\ \/ httpDisposed' = TRUE
       \/ /\ httpBind \notin {"listening", "checked"} /\ httpServer # "awaiting"
          /\ UNCHANGED httpDisposed
    /\ UNCHANGED <<httpBind, httpListening, httpRegistered, httpOnce, httpDone, httpCloser,
                   httpQueueVars, httpCloses, httpAcceptVars, httpDartVars>>

\* closeAllHttpBindings
HttpStopTakes ==
    /\ httpStop = "registry"
    /\ httpStop' = IF httpRegistered THEN "closing" ELSE "server"
    /\ httpRegistered' = FALSE
    /\ httpCloser' = IF httpRegistered THEN [httpCloser EXCEPT !["explicit"] = "entered"]
                                       ELSE httpCloser
    /\ UNCHANGED <<httpBind, httpDisposed, httpListening, httpOnce, httpDone, httpQueueVars,
                   httpCloses, httpAcceptVars, httpDartVars>>

HttpStopClosed ==
    /\ httpStop = "closing" /\ httpCloser["explicit"] = "over"
    /\ httpStop' = "server"
    /\ UNCHANGED <<httpBindVars, httpOnce, httpDone, httpCloser, httpQueueVars, httpCloses,
                   httpAcceptVars, httpDartVars>>

\* srv.Close closes the listeners of the server.
HttpStopServer ==
    /\ httpStop = "server"
    /\ httpStop' = "done" /\ httpListening' = FALSE
    /\ UNCHANGED <<httpBind, httpDisposed, httpRegistered, httpOnce, httpDone, httpCloser,
                   httpQueueVars, httpCloses, httpAcceptVars, httpDartVars>>
-----------------------------------------------------------------------------
(* The accept isolate. *)

\* HttpAccept looks the binding up; without one the loop sends null and returns.
HttpLookup ==
    /\ httpAccept = "calling"
    /\ httpAccept' = IF httpRegistered THEN "selecting" ELSE "ended"
    /\ UNCHANGED <<httpBindVars, httpGoVars, httpQueueVars, httpCloses, httpHeld, httpDartVars>>

HttpReceive ==
    /\ httpAccept = "selecting" /\ httpChannel # <<>>
    /\ httpAccept' = "holding" /\ httpHeld' = <<Head(httpChannel)>>
    /\ httpChannel' = Tail(httpChannel)
    /\ UNCHANGED <<httpBindVars, httpGoVars, httpHandler, httpCloses, httpDartVars>>

\* Mutant: the select has no case for done.
HttpDoneUnseen == FALSE

\* The case of the select for done.
HttpDoneSeen == httpDone

HttpAcceptEnds ==
    /\ httpAccept = "selecting" /\ HttpDoneSeen
    /\ httpAccept' = "ended"
    /\ UNCHANGED <<httpBindVars, httpGoVars, httpQueueVars, httpCloses, httpHeld, httpDartVars>>

\* A message to a port that was closed is dropped.
HttpSend ==
    /\ httpAccept = "holding"
    /\ httpAccept' = "calling" /\ httpHeld' = <<>>
    /\ httpInbox' = IF httpServer = "closed" THEN httpInbox ELSE httpInbox \o httpHeld
    /\ UNCHANGED <<httpBindVars, httpGoVars, httpQueueVars, httpCloses, httpServer, httpSub,
                   httpPending, httpAdopting, httpGiven>>

\* The kill of close takes effect in Dart code, not while Go is called.
HttpKilled ==
    /\ httpServer = "closed" /\ httpAccept \in {"calling", "holding"}
    /\ httpAccept' = "ended" /\ httpHeld' = <<>>
    /\ UNCHANGED <<httpBindVars, httpGoVars, httpQueueVars, httpCloses, httpDartVars>>
-----------------------------------------------------------------------------
(* _FdTailscaleHttpServer, on the main isolate.  Every action that may lead to *)
(* close() says so with HttpCloseCalled.                                       *)

HttpCloseCalled == httpServer' = IF httpServer = "open" THEN "closing" ELSE httpServer

\* The first listener starts the accept isolate; a server that is closing gives it nothing.
HttpListened ==
    /\ httpServer = "open" /\ httpSub = "none"
    /\ httpSub' = "active" /\ httpAccept' = "calling"
    /\ UNCHANGED <<httpBindVars, httpGoVars, httpQueueVars, httpCloses, httpHeld, httpServer,
                   httpInbox, httpPending, httpAdopting, httpGiven>>

\* The isolate cannot be spawned: the stream gets the error and the server closes.
HttpSpawnFails ==
    /\ httpServer = "open" /\ httpSub = "none"
    /\ httpSub' = "active" /\ HttpCloseCalled
    /\ UNCHANGED <<httpBindVars, httpGoVars, httpQueueVars, httpCloses, httpAcceptVars,
                   httpInbox, httpPending, httpAdopting, httpGiven>>

\* Pausing and resuming make no difference once the server is closing.
HttpPause ==
    /\ httpServer = "open" /\ httpSub = "active" /\ httpSub' = "paused"
    /\ UNCHANGED <<httpBindVars, httpGoVars, httpQueueVars, httpCloses, httpAcceptVars,
                   httpServer, httpInbox, httpPending, httpAdopting, httpGiven>>

\* _drainPendingAccepts: every pending request starts to be adopted, in one turn.
HttpResume ==
    /\ httpServer = "open" /\ httpSub = "paused" /\ httpSub' = "active"
    /\ httpPending' = <<>>
    /\ httpAdopting' = [r \in HttpRequest |->
                          IF r \in Members(httpPending) THEN "request" ELSE httpAdopting[r]]
    /\ UNCHANGED <<httpBindVars, httpGoVars, httpQueueVars, httpCloses, httpAcceptVars,
                   httpServer, httpInbox, httpGiven>>

\* close() of the application, or the cancellation of the subscription.
HttpAppCloses ==
    /\ httpServer = "open" /\ HttpCloseCalled
    /\ UNCHANGED <<httpBindVars, httpGoVars, httpQueueVars, httpCloses, httpAcceptVars,
                   httpSub, httpInbox, httpPending, httpAdopting, httpGiven>>

\* Mutant: one too many.
HttpPendingOverfull == Len(httpPending) > MaxPendingHttp

\* The queue of pending requests is full.
HttpPendingFull == Len(httpPending) >= MaxPendingHttp

\* Mutant: a request that does not fit is dropped.
HttpForget(r) == UNCHANGED httpCloses

\* A request that does not fit is closed.
HttpReject(r) == CloseBoth({r})

\* _handleAcceptEvent with an accepted request: dropped once closed, else queued while
\* the stream is paused or others wait (refused when the queue is full), else delivered.
HttpAccepted ==
    /\ httpInbox # <<>> /\ httpInbox' = Tail(httpInbox)
    /\ LET r == Head(httpInbox)
           waits == httpSub = "paused" \/ httpPending # <<>>
       IN  \/ /\ httpServer # "open"
              /\ UNCHANGED <<httpPending, httpAdopting, httpCloses>>
           \/ /\ httpServer = "open" /\ waits /\ ~HttpPendingFull
              /\ httpPending' = Append(httpPending, r)
              /\ UNCHANGED <<httpAdopting, httpCloses>>
           \/ /\ httpServer = "open" /\ waits /\ HttpPendingFull
              /\ HttpReject(r)
              /\ UNCHANGED <<httpPending, httpAdopting>>
           \/ /\ httpServer = "open" /\ ~waits
              /\ httpAdopting' = [httpAdopting EXCEPT ![r] = "request"]
              /\ UNCHANGED <<httpPending, httpCloses>>
    /\ UNCHANGED <<httpBindVars, httpGoVars, httpQueueVars, httpAcceptVars, httpServer,
                   httpSub, httpGiven>>

\* _handleAcceptEvent with null, the last message of the accept isolate.
HttpAcceptClosed ==
    /\ httpAccept = "ended" /\ httpInbox = <<>> /\ httpServer = "open"
    /\ HttpCloseCalled
    /\ UNCHANGED <<httpBindVars, httpGoVars, httpQueueVars, httpCloses, httpAcceptVars,
                   httpSub, httpInbox, httpPending, httpAdopting, httpGiven>>

\* The worker executes HttpCloseBinding, unless it is stopping or disposed.
HttpCloseExecuted ==
    /\ httpServer = "closing" /\ httpStop \in {"no", "done"} /\ ~httpDisposed
    /\ httpServer' = "awaiting"
    /\ httpRegistered' = FALSE
    /\ httpCloser' = IF httpRegistered THEN [httpCloser EXCEPT !["explicit"] = "entered"]
                                       ELSE httpCloser
    /\ UNCHANGED <<httpBind, httpDisposed, httpListening, httpStop, httpOnce, httpDone,
                   httpQueueVars, httpCloses, httpAcceptVars, httpSub, httpInbox, httpPending,
                   httpAdopting, httpGiven>>

\* Mutant: also those whose adoption is under way.
HttpAllNotGiven == Members(httpPending) \cup {r \in HttpRequest : httpAdopting[r] # "no"}

\* _closePendingAccepts: the requests that nobody has started to adopt.
HttpNotAdopted == Members(httpPending)

\* The rest of close(), after closeFn returned or failed.
HttpCloseFinishes ==
    /\ \/ httpServer = "awaiting" /\ httpCloser["explicit"] \in {"idle", "over"}
       \/ httpServer \in {"closing", "awaiting"} /\ httpDisposed
    /\ httpServer' = "closed"
    /\ httpInbox' = <<>> /\ httpPending' = <<>> /\ CloseBoth(HttpNotAdopted)
    /\ UNCHANGED <<httpBindVars, httpGoVars, httpQueueVars, httpAcceptVars, httpSub,
                   httpAdopting, httpGiven>>
-----------------------------------------------------------------------------
(* _deliverAccepted: adopt of a descriptor that fails closes it. *)

HttpRequestAdopted(r) ==
    /\ httpAdopting[r] = "request"
    /\ httpAdopting' = [httpAdopting EXCEPT ![r] = "response"]
    /\ UNCHANGED <<httpBindVars, httpGoVars, httpQueueVars, httpCloses, httpAcceptVars,
                   httpServer, httpSub, httpInbox, httpPending, httpGiven>>

\* The first adopt fails: the response was not handed over and is closed here.
HttpRequestNotAdopted(r) ==
    /\ httpAdopting[r] = "request"
    /\ httpAdopting' = [httpAdopting EXCEPT ![r] = "no"] /\ CloseBoth({r})
    /\ UNCHANGED <<httpBindVars, httpGoVars, httpQueueVars, httpAcceptVars, httpServer,
                   httpSub, httpInbox, httpPending, httpGiven>>

\* The second adopt succeeds: the request goes to the stream, or is closed if the server is.
HttpResponseAdopted(r) ==
    /\ httpAdopting[r] = "response"
    /\ httpAdopting' = [httpAdopting EXCEPT ![r] = "no"]
    /\ IF httpServer = "open" THEN httpGiven' = httpGiven \cup {r} /\ UNCHANGED httpCloses
                              ELSE CloseBoth({r}) /\ UNCHANGED httpGiven
    /\ UNCHANGED <<httpBindVars, httpGoVars, httpQueueVars, httpAcceptVars, httpServer,
                   httpSub, httpInbox, httpPending>>

\* It fails: adopt closes the response, the handler of the error the request transport.
HttpResponseNotAdopted(r) ==
    /\ httpAdopting[r] = "response"
    /\ httpAdopting' = [httpAdopting EXCEPT ![r] = "no"] /\ CloseBoth({r})
    /\ UNCHANGED <<httpBindVars, httpGoVars, httpQueueVars, httpAcceptVars, httpServer,
                   httpSub, httpInbox, httpPending, httpGiven>>
-----------------------------------------------------------------------------
HttpHandlerStep(r) == HttpArrive(r) \/ HttpEnqueue(r) \/ HttpRefuse(r)
HttpCloserStep(c) ==
    HttpCloseDone(c) \/ HttpCloseServer(c) \/ HttpCloseAgain(c) \/ HttpDrain(c) \/ HttpDrained(c)
HttpAdoptStep(r) ==
    \/ HttpRequestAdopted(r) \/ HttpRequestNotAdopted(r)
    \/ HttpResponseAdopted(r) \/ HttpResponseNotAdopted(r)

\* The threads of control: the worker isolate, the goroutine of Serve, the closer of the
\* registry entry with stopLocked, the accept isolate, the event loop of the main isolate.
HttpWorkerStep == HttpRecheck \/ HttpRegister \/ HttpBindReturns \/ HttpCloseExecuted
HttpServeStep == HttpServeReturns \/ HttpCloserStep("serve") \/ HttpDeregister
HttpStopStep ==
    HttpStopTakes \/ HttpStopClosed \/ HttpStopServer \/ HttpCloserStep("explicit")
HttpAcceptStep == HttpLookup \/ HttpReceive \/ HttpAcceptEnds \/ HttpSend
HttpMainStep == HttpAccepted \/ HttpAcceptClosed \/ HttpCloseFinishes

HttpNext ==
    \/ HttpListen \/ HttpWorkerStep \/ HttpServeStep
    \/ HttpStopBegins \/ HttpStopStep
    \/ HttpAcceptStep \/ HttpKilled
    \/ HttpListened \/ HttpSpawnFails \/ HttpPause \/ HttpResume \/ HttpAppCloses
    \/ HttpMainStep
    \/ \E r \in HttpRequest : HttpHandlerStep(r) \/ HttpAdoptStep(r)

HttpSpec == HttpInit /\ [][HttpNext]_httpVars

\* Each of these threads runs on, without the application or a caller.
HttpFairness ==
    /\ WF_httpVars(HttpWorkerStep) /\ WF_httpVars(HttpServeStep) /\ WF_httpVars(HttpStopStep)
    /\ WF_httpVars(HttpAcceptStep) /\ WF_httpVars(HttpMainStep)
-----------------------------------------------------------------------------
\* No descriptor is closed twice, whichever of the handler, the two drains, the full
\* queue, the close of the server, a failed adoption and the application closes it: a
\* second close would hit whatever descriptor has the number by then.
HttpFdsClosedOnce == \A r \in HttpRequest, e \in HttpEnd : httpCloses[r][e] <= 1

\* A request that left the handler with an open descriptor and is nowhere.
HttpLost(r) ==
    /\ httpHandler[r] = "sent" /\ \E e \in HttpEnd : httpCloses[r][e] = 0
    /\ r \notin Members(httpChannel) \cup Members(httpHeld) \cup Members(httpInbox)
                \cup Members(httpPending) \cup httpGiven
    /\ httpAdopting[r] = "no"

\* As long as the server of the application is open, every accepted request is somewhere:
\* in the channel, with the accept isolate, under way, pending, being adopted or given.
HttpNothingLostWhileOpen ==
    (\E r \in HttpRequest : HttpLost(r)) => httpServer \in {"closing", "awaiting", "closed"}

\* "entries that raced the `done` close ... are reclaimed" (http_fd_posix.go:209-216): once both
\* calls of close are over and no accept isolate is left to take it, the channel holds no request.
\* A handler whose select still chooses the send after the last drain breaks it: nobody closes the
\* two descriptors, and the handler waits for the end of the response for ever.
HttpRacersReclaimed ==
    /\ httpCloser["serve"] = "over" /\ httpCloser["explicit"] \in {"idle", "over"}
    /\ httpAccept \in {"none", "ended"}
    => httpChannel = <<>>

\* The binding is closed under a server that is being listened to: the server closes.
HttpServerFollows ==
    []<>(httpDone /\ httpSub # "none" => httpServer = "closed")

\* A stopped node keeps no binding in the registry, not even one registered after the
\* registry was cleared.
HttpRegistryClears == []<>(httpStop = "done" /\ httpBind # "checked" => ~httpRegistered)
=============================================================================
