----------------------------- MODULE TcpListener -----------------------------
(* One TCP (or TLS) listener of the tailnet: TcpListenFd, TcpAcceptFd and the  *)
(* registry in Go; the accept isolate and _FdTailscaleListener in Dart.  Each  *)
(* connection is one descriptor.  Unlike HttpBinding there is no queue in Go   *)
(* and no check of srv before the listener is registered, the accept isolate   *)
(* retries after errors, and a connection that reaches a listener that is      *)
(* closing is reclaimed.                                                       *)
(*                                                                             *)
(* Abstracted: addresses, identities, the pipe between the descriptor and the  *)
(* tailnet connection, and the messages about errors, which only reach the     *)
(* error channel of the stream.                                                *)
EXTENDS Naturals, Sequences

CONSTANTS
    TcpConnections,   \* bound: how many peers connect
    MaxPendingTcp,    \* _maxPendingAcceptedConnections
    MaxAcceptErrors   \* _maxConsecutiveAcceptErrors

ASSUME TcpAssumption ==
    TcpConnections \in Nat /\ MaxPendingTcp \in Nat /\ MaxAcceptErrors \in Nat \ {0}

VARIABLES
    tcpBind,          \* progress of TcpListenFd on the worker isolate
    tcpStop,          \* progress of stopLocked
    tcpDisposed,      \* Stop comes from Worker._dispose
    tcpListening,     \* the net.Listener is open
    tcpRegistered,    \* it is in tcpFdListenerRegistry
    tcpArrived,       \* how many peers have connected
    tcpAccept,        \* _tcpAcceptLoop
    tcpErrors,        \* consecutiveErrors
    tcpHeld,          \* the connection in its hand: a sequence of at most one
    tcpInbox,         \* connections under way to the main isolate
    tcpServer,        \* _FdTailscaleListener
    tcpSub,           \* the subscription to its stream
    tcpPending,       \* _pendingAccepts
    tcpAdopting,      \* connections whose adoption is awaited
    tcpGiven,         \* connections added to the stream: their transports own the descriptors
    tcpCloses         \* how often each descriptor was closed

tcpGoVars == <<tcpBind, tcpStop, tcpDisposed, tcpListening, tcpRegistered>>
tcpAcceptVars == <<tcpArrived, tcpAccept, tcpErrors, tcpHeld>>
tcpDartVars == <<tcpServer, tcpSub, tcpPending, tcpAdopting, tcpGiven>>
tcpVars == <<tcpGoVars, tcpAcceptVars, tcpInbox, tcpDartVars, tcpCloses>>

TcpConnection == 1..TcpConnections     \* in the order of arrival
TcpMembers(s) == {s[i] : i \in 1..Len(s)}

TcpTypeOK ==
    /\ tcpBind \in {"idle", "listening", "bound"}
    /\ tcpStop \in {"no", "registry", "server", "done"}
    /\ tcpDisposed \in BOOLEAN /\ tcpListening \in BOOLEAN /\ tcpRegistered \in BOOLEAN
    /\ tcpArrived \in 0..TcpConnections
    /\ tcpAccept \in {"none", "calling", "accepting", "holding", "ended"}
    /\ tcpErrors \in 0..MaxAcceptErrors
    /\ tcpHeld \in Seq(TcpConnection) /\ tcpInbox \in Seq(TcpConnection)
    /\ tcpServer \in {"absent", "open", "closing", "closed"}
    /\ tcpSub \in {"none", "active", "paused"}
    /\ tcpPending \in Seq(TcpConnection) /\ Len(tcpPending) <= MaxPendingTcp
    /\ tcpAdopting \subseteq TcpConnection /\ tcpGiven \subseteq TcpConnection
    /\ tcpCloses \in [TcpConnection -> Nat]

TcpInit ==
    /\ tcpBind = "idle" /\ tcpStop = "no" /\ tcpDisposed = FALSE
    /\ tcpListening = FALSE /\ tcpRegistered = FALSE
    /\ tcpArrived = 0 /\ tcpAccept = "none" /\ tcpErrors = 0 /\ tcpHeld = <<>>
    /\ tcpInbox = <<>> /\ tcpServer = "absent" /\ tcpSub = "none" /\ tcpPending = <<>>
    /\ tcpAdopting = {} /\ tcpGiven = {} /\ tcpCloses = [c \in TcpConnection |-> 0]

\* closePosixFdForCleanup, or the close of a transport, of the connections cs.
TcpClose(cs) ==
    tcpCloses' = [c \in TcpConnection |-> IF c \in cs THEN tcpCloses[c] + 1 ELSE tcpCloses[c]]
-----------------------------------------------------------------------------
(* TcpListenFd and TlsListenFd, on the worker isolate. *)

TcpListen ==
    /\ tcpBind = "idle" /\ tcpStop = "no"
    /\ tcpBind' = "listening" /\ tcpListening' = TRUE
    /\ UNCHANGED <<tcpStop, tcpDisposed, tcpRegistered, tcpAcceptVars, tcpInbox, tcpDartVars,
                   tcpCloses>>

\* registerTcpFdListener: whatever became of the server meanwhile.
TcpRegister ==
    /\ tcpBind = "listening"
    /\ tcpBind' = "bound" /\ tcpRegistered' = TRUE
    /\ UNCHANGED <<tcpStop, tcpDisposed, tcpListening, tcpAcceptVars, tcpInbox, tcpDartVars,
                   tcpCloses>>

TcpListenReturns ==
    /\ tcpBind = "bound" /\ tcpServer = "absent" /\ ~tcpDisposed
    /\ tcpServer' = "open"
    /\ UNCHANGED <<tcpGoVars, tcpAcceptVars, tcpInbox, tcpSub, tcpPending, tcpAdopting,
                   tcpGiven, tcpCloses>>
-----------------------------------------------------------------------------
(* stopLocked: a down runs on the worker between its commands, a dispose at    *)
(* any moment.                                                                 *)

TcpStopBegins ==
    /\ tcpStop = "no" /\ tcpStop' = "registry"
    /\ \/ tcpDisposed' = TRUE
       \/ tcpBind # "listening" /\ UNCHANGED tcpDisposed
    /\ UNCHANGED <<tcpBind, tcpListening, tcpRegistered, tcpAcceptVars, tcpInbox, tcpDartVars,
                   tcpCloses>>

\* TcpCloseFdListener and closeAllTcpFdListeners: take the entry, close the listener.
TcpTake ==
    /\ tcpRegistered' = FALSE
    /\ tcpListening' = (tcpListening /\ ~tcpRegistered)

TcpStopTakes ==
    /\ tcpStop = "registry" /\ tcpStop' = "server" /\ TcpTake
    /\ UNCHANGED <<tcpBind, tcpDisposed, tcpAcceptVars, tcpInbox, tcpDartVars, tcpCloses>>

TcpStopServer ==
    /\ tcpStop = "server" /\ tcpStop' = "done" /\ tcpListening' = FALSE
    /\ UNCHANGED <<tcpBind, tcpDisposed, tcpRegistered, tcpAcceptVars, tcpInbox, tcpDartVars,
                   tcpCloses>>
-----------------------------------------------------------------------------
(* The accept isolate. *)

TcpLookup ==
    /\ tcpAccept = "calling"
    /\ tcpAccept' = IF tcpRegistered THEN "accepting" ELSE "ended"
    /\ UNCHANGED <<tcpGoVars, tcpArrived, tcpErrors, tcpHeld, tcpInbox, tcpDartVars, tcpCloses>>

\* A peer connects and its descriptor is made.
TcpAccepts ==
    /\ tcpAccept = "accepting" /\ tcpListening /\ tcpArrived < TcpConnections
    /\ tcpArrived' = tcpArrived + 1
    /\ tcpAccept' = "holding" /\ tcpHeld' = <<tcpArrived + 1>> /\ tcpErrors' = 0
    /\ UNCHANGED <<tcpGoVars, tcpInbox, tcpDartVars, tcpCloses>>

\* Accept, or the socket pair, fails: reported and tried again, unless it is the last straw.
TcpAcceptFails ==
    /\ tcpAccept = "accepting" /\ tcpListening
    /\ tcpErrors' = tcpErrors + 1
    /\ tcpAccept' = IF tcpErrors + 1 >= MaxAcceptErrors THEN "ended" ELSE "calling"
    /\ UNCHANGED <<tcpGoVars, tcpArrived, tcpHeld, tcpInbox, tcpDartVars, tcpCloses>>

\* net.ErrClosed: the entry is removed if it is still there; null is sent.
TcpAcceptEnds ==
    /\ tcpAccept = "accepting" /\ ~tcpListening
    /\ tcpAccept' = "ended" /\ tcpRegistered' = FALSE
    /\ UNCHANGED <<tcpBind, tcpStop, tcpDisposed, tcpListening, tcpArrived, tcpErrors, tcpHeld,
                   tcpInbox, tcpDartVars, tcpCloses>>

\* A message to a port that was closed is dropped.
TcpSend ==
    /\ tcpAccept = "holding"
    /\ tcpAccept' = "calling" /\ tcpHeld' = <<>>
    /\ tcpInbox' = IF tcpServer = "closed" THEN tcpInbox ELSE tcpInbox \o tcpHeld
    /\ UNCHANGED <<tcpGoVars, tcpArrived, tcpErrors, tcpDartVars, tcpCloses>>

\* The kill of close takes effect in Dart code, not while Go is called.
TcpKilled ==
    /\ tcpServer = "closed" /\ tcpAccept \in {"calling", "holding"}
    /\ tcpAccept' = "ended" /\ tcpHeld' = <<>>
    /\ UNCHANGED <<tcpGoVars, tcpArrived, tcpErrors, tcpInbox, tcpDartVars, tcpCloses>>
-----------------------------------------------------------------------------
(* _FdTailscaleListener, on the main isolate. *)

\* The first subscriber starts the accept isolate; if it cannot be spawned, close.  A listener
\* that is closing gives it nothing.
TcpListened ==
    /\ tcpServer = "open" /\ tcpSub = "none" /\ tcpSub' = "active"
    /\ \/ tcpAccept' = "calling" /\ UNCHANGED tcpServer
       \/ tcpServer' = "closing" /\ UNCHANGED tcpAccept
    /\ UNCHANGED <<tcpGoVars, tcpArrived, tcpErrors, tcpHeld, tcpInbox, tcpPending, tcpAdopting,
                   tcpGiven, tcpCloses>>

\* Pausing and resuming make no difference once the listener is closing.
TcpPause ==
    /\ tcpServer = "open" /\ tcpSub = "active" /\ tcpSub' = "paused"
    /\ UNCHANGED <<tcpGoVars, tcpAcceptVars, tcpInbox, tcpServer, tcpPending, tcpAdopting,
                   tcpGiven, tcpCloses>>

\* _drainPendingAccepts
TcpResume ==
    /\ tcpServer = "open" /\ tcpSub = "paused" /\ tcpSub' = "active"
    /\ tcpAdopting' = tcpAdopting \cup TcpMembers(tcpPending) /\ tcpPending' = <<>>
    /\ UNCHANGED <<tcpGoVars, tcpAcceptVars, tcpInbox, tcpServer, tcpGiven, tcpCloses>>

\* close() of the application, a cancelled subscription, or the last message of the accept
\* isolate: null, fatal, or the one its exit posts.
TcpCloseCalled ==
    /\ tcpServer = "open" /\ tcpServer' = "closing"
    /\ UNCHANGED <<tcpGoVars, tcpAcceptVars, tcpInbox, tcpSub, tcpPending, tcpAdopting,
                   tcpGiven, tcpCloses>>

\* Mutant: the accept isolate ends and tells nobody.
TcpEndsInSilence == FALSE

\* Its last message is handled after all the others.
TcpAcceptClosed == tcpAccept = "ended" /\ tcpInbox = <<>> /\ TcpCloseCalled

\* Mutant: what reaches a listener that is closing is dropped.
TcpRejectWhileOpen(c) == IF tcpServer = "open" THEN TcpClose({c}) ELSE UNCHANGED tcpCloses

\* A connection that does not fit, or comes too late, is closed.
TcpReject(c) == TcpClose({c})

\* _handleAcceptEvent with an accepted connection.
TcpAccepted ==
    /\ tcpInbox # <<>> /\ tcpInbox' = Tail(tcpInbox)
    /\ LET c == Head(tcpInbox)
           waits == tcpSub = "paused" \/ tcpPending # <<>>
           refused == tcpServer # "open" \/ (waits /\ Len(tcpPending) >= MaxPendingTcp)
       IN  \/ refused /\ TcpReject(c) /\ UNCHANGED <<tcpPending, tcpAdopting>>
           \/ /\ ~refused /\ waits
              /\ tcpPending' = Append(tcpPending, c) /\ UNCHANGED <<tcpAdopting, tcpCloses>>
           \/ /\ ~refused /\ ~waits
              /\ tcpAdopting' = tcpAdopting \cup {c} /\ UNCHANGED <<tcpPending, tcpCloses>>
    /\ UNCHANGED <<tcpGoVars, tcpAcceptVars, tcpServer, tcpSub, tcpGiven>>

\* The adoption succeeds: the connection goes to the stream, or is closed if the listener is.
TcpAdopted(c) ==
    /\ c \in tcpAdopting /\ tcpAdopting' = tcpAdopting \ {c}
    /\ IF tcpServer = "open" THEN tcpGiven' = tcpGiven \cup {c} /\ UNCHANGED tcpCloses
                             ELSE TcpClose({c}) /\ UNCHANGED tcpGiven
    /\ UNCHANGED <<tcpGoVars, tcpAcceptVars, tcpInbox, tcpServer, tcpSub, tcpPending>>

\* It fails: adopt closes the descriptor.
TcpNotAdopted(c) ==
    /\ c \in tcpAdopting /\ tcpAdopting' = tcpAdopting \ {c} /\ TcpClose({c})
    /\ UNCHANGED <<tcpGoVars, tcpAcceptVars, tcpInbox, tcpServer, tcpSub, tcpPending, tcpGiven>>

\* Mutant: also those whose adoption is under way.
TcpAllNotGiven == TcpMembers(tcpPending) \cup tcpAdopting

\* _closePendingAccepts: the connections that nobody has started to adopt.
TcpWaiting == TcpMembers(tcpPending)

\* closeFn: the worker executes TcpCloseFdListener between its commands, or has been disposed
\* and the call fails; then the rest of close().
TcpCloseFinishes ==
    /\ tcpServer = "closing"
    /\ \/ tcpStop \in {"no", "done"} /\ ~tcpDisposed /\ TcpTake
       \/ tcpDisposed /\ UNCHANGED <<tcpRegistered, tcpListening>>
    /\ tcpServer' = "closed" /\ tcpInbox' = <<>>
    /\ tcpPending' = <<>> /\ TcpClose(TcpWaiting)
    /\ UNCHANGED <<tcpBind, tcpStop, tcpDisposed, tcpAcceptVars, tcpSub, tcpAdopting, tcpGiven>>
-----------------------------------------------------------------------------
\* The threads of control.
TcpWorkerStep == TcpRegister \/ TcpListenReturns
TcpStopStep == TcpStopTakes \/ TcpStopServer
TcpAcceptStep == TcpLookup \/ TcpAccepts \/ TcpAcceptFails \/ TcpAcceptEnds \/ TcpSend
TcpMainStep == TcpAccepted \/ TcpAcceptClosed \/ TcpCloseFinishes

TcpNext ==
    \/ TcpListen \/ TcpWorkerStep \/ TcpStopBegins \/ TcpStopStep
    \/ TcpAcceptStep \/ TcpKilled
    \/ TcpListened \/ TcpPause \/ TcpResume \/ TcpCloseCalled \/ TcpMainStep
    \/ \E c \in TcpConnection : TcpAdopted(c) \/ TcpNotAdopted(c)

TcpSpec == TcpInit /\ [][TcpNext]_tcpVars

\* Stop runs to its end, the accept isolate returns from Go once the listener is closed, and
\* the main isolate handles its messages and is answered by the worker.
TcpFairness ==
    /\ WF_tcpVars(TcpStopStep) /\ WF_tcpVars(TcpLookup \/ TcpAcceptEnds \/ TcpSend)
    /\ WF_tcpVars(TcpMainStep)
-----------------------------------------------------------------------------
\* No descriptor of a connection is closed twice, whichever of the full queue, the listener
\* that is closing, the failed or the late adoption closes it.
TcpFdsClosedOnce == \A c \in TcpConnection : tcpCloses[c] <= 1

\* A connection whose descriptor is open and that nobody holds.
TcpLost(c) ==
    /\ c <= tcpArrived /\ tcpCloses[c] = 0
    /\ c \notin TcpMembers(tcpHeld) \cup TcpMembers(tcpInbox) \cup TcpMembers(tcpPending)
                \cup tcpAdopting \cup tcpGiven

\* Until the port of the accept isolate is closed, also while closeFn is awaited, every
\* accepted connection is closed or is somewhere.
TcpNothingLost == (\E c \in TcpConnection : TcpLost(c)) => tcpServer = "closed"

\* The node stops under a listener that is being listened to: it closes, wherever the accept
\* isolate is, in Go or between two calls, and whatever it still sends.
TcpListenerFollows ==
    []<>(tcpStop = "done" /\ tcpSub # "none" => tcpServer = "closed")
=============================================================================
