-------------------------- MODULE TerminalSession --------------------------
(* The terminal screen and the SSH service below it: attempts to connect, the  *)
(* shell of the connection, disconnect, reconnect and dispose.  The service is *)
(* one object with one _client, which every attempt overwrites and every       *)
(* failure closes; several attempts may be under way, because the menu offers  *)
(* "Reconnect" while the screen is connecting.                                 *)
(*                                                                             *)
(* A client is named by the attempt that made it, a shell by the attempt whose *)
(* connection was shown when it was started.  Left out: what is written to the *)
(* terminal, _isConnecting and _error, sizes, and the state of the service     *)
(* that its listeners are shown.                                               *)
(*                                                                             *)
(* External: dartssh2 (a client may be closed from the other side at any time, *)
(* and what is awaited on a closed client ends), Flutter, the profile storage. *)
EXTENDS Naturals

CONSTANT Attempts    \* the calls of _connect, numbered from 1

ASSUME TerminalAssumption == Attempts \in Nat \ {0}

Attempt == 1..Attempts

VARIABLES
    tsTry,         \* where each attempt is
    tsOlder,       \* history: the shells started before the attempt began
    tsClient,      \* the service's _client, 0 for null
    tsAlive,       \* the clients that are not closed
    tsConnected,   \* _isConnected: the attempt that set it, 0 for false
    tsShellStarted,
    tsShell,       \* where each shell is
    tsShellOn,     \* the client that it was started on
    tsSub,         \* the shell that _stdoutSub listens to, or 0
    tsMenu,        \* the entry that the open menu shows, or "closed"
    tsLaidOut,     \* the terminal has real dimensions
    tsMounted

tsVars == <<tsTry, tsOlder, tsClient, tsAlive, tsConnected, tsShellStarted, tsShell, tsShellOn,
            tsSub, tsMenu, tsLaidOut, tsMounted>>
tsShells == <<tsShellStarted, tsShell, tsShellOn, tsSub>>
tsScreen == <<tsMenu, tsLaidOut, tsMounted>>

TsTypeOK ==
    /\ tsTry \in [Attempt -> {"none", "opening", "socket", "authenticating", "saving", "ended",
                              "failed"}]
    /\ tsOlder \in [Attempt -> SUBSET Attempt]
    /\ tsClient \in 0..Attempts /\ tsAlive \subseteq Attempt
    /\ tsConnected \in 0..Attempts /\ tsShellStarted \in BOOLEAN
    /\ tsShell \in [Attempt -> {"none", "opening", "listening", "cancelled", "gone"}]
    /\ tsShellOn \in [Attempt -> 0..Attempts] /\ tsSub \in 0..Attempts
    /\ tsMenu \in {"closed", "disconnect", "reconnect"}
    /\ tsLaidOut \in BOOLEAN /\ tsMounted \in BOOLEAN

TsInit ==
    /\ tsTry = [a \in Attempt |-> "none"] /\ tsOlder = [a \in Attempt |-> {}]
    /\ tsClient = 0 /\ tsAlive = {} /\ tsConnected = 0 /\ tsShellStarted = FALSE
    /\ tsShell = [a \in Attempt |-> "none"] /\ tsShellOn = [a \in Attempt |-> 0] /\ tsSub = 0
    /\ tsMenu = "closed" /\ tsLaidOut \in BOOLEAN /\ tsMounted = TRUE

ShellsStarted == {s \in Attempt : tsShell[s] # "none"}

TsTryIs(a, at) == tsTry' = [tsTry EXCEPT ![a] = at]

\* _safeClose: whatever client the service has now.
SafeClose == tsAlive' = tsAlive \ {tsClient} /\ tsClient' = 0

\* _stdoutSub?.cancel()
CancelStdout ==
    /\ tsSub' = 0
    /\ tsShell' = [s \in Attempt |-> IF s = tsSub THEN "cancelled" ELSE tsShell[s]]

\* _maybeStartShell and the first part of _startShell; laidOut is what the terminal reports.
MaybeStartShell(laidOut) ==
    IF tsShellStarted \/ tsConnected = 0 \/ ~laidOut THEN UNCHANGED tsShells
    ELSE /\ tsShellStarted' = TRUE
         /\ tsShell' = [tsShell EXCEPT ![tsConnected] = "opening"]
         /\ tsShellOn' = [tsShellOn EXCEPT ![tsConnected] = tsClient]
         /\ UNCHANGED tsSub
-----------------------------------------------------------------------------
(* An attempt: _connect, and SshService.connect below it. *)

\* The next attempt begins; nothing is awaited before this point.
TsBegin(a) ==
    /\ tsTry[a] = "none" /\ \A b \in 1..(a - 1) : tsTry[b] # "none"
    /\ TsTryIs(a, "opening")
    /\ tsOlder' = [tsOlder EXCEPT ![a] = ShellsStarted]

\* The first one, from the first frame.
TsFirst ==
    /\ tsMounted /\ TsBegin(1)
    /\ UNCHANGED <<tsClient, tsAlive, tsConnected, tsShells, tsScreen>>

\* The version, the profile, the tailnet and the key; one of them may throw.
TsOpened(a) ==
    /\ tsTry[a] = "opening"
    /\ \E next \in {"socket", "failed"} : TsTryIs(a, next)
    /\ UNCHANGED <<tsOlder, tsClient, tsAlive, tsConnected, tsShells, tsScreen>>

\* The socket is connected: the new client replaces the one that is there, which stays open.
TsClientMade(a) ==
    /\ tsTry[a] = "socket" /\ TsTryIs(a, "authenticating")
    /\ tsClient' = a /\ tsAlive' = tsAlive \cup {a}
    /\ UNCHANGED <<tsOlder, tsConnected, tsShells, tsScreen>>

\* The test session is done, or the client is closed and it ends too; "_client!" throws if
\* somebody has closed the service in the meantime, setState does once disposed.
TsAuthenticated(a) ==
    /\ tsTry[a] = "authenticating" /\ tsClient # 0
    /\ IF tsMounted THEN TsTryIs(a, "saving") /\ tsConnected' = a
       ELSE TsTryIs(a, "failed") /\ UNCHANGED tsConnected
    /\ UNCHANGED <<tsOlder, tsClient, tsAlive, tsShells, tsScreen>>

\* connect fails and closes the service, whoever's client that has.
TsConnectFails(a) ==
    /\ tsTry[a] \in {"socket", "authenticating"} /\ TsTryIs(a, "failed")
    /\ SafeClose
    /\ UNCHANGED <<tsOlder, tsConnected, tsShells, tsScreen>>

\* The status is stored; the shell is started now, or by the first layout.
TsSaved(a) ==
    /\ tsTry[a] = "saving" /\ TsTryIs(a, "ended")
    /\ MaybeStartShell(tsLaidOut)
    /\ UNCHANGED <<tsOlder, tsClient, tsAlive, tsConnected, tsScreen>>

\* It cannot be stored: the error is shown, the screen stays connected.
TsSaveFails(a) ==
    /\ tsTry[a] = "saving" /\ TsTryIs(a, "failed")
    /\ UNCHANGED <<tsOlder, tsClient, tsAlive, tsConnected, tsShells, tsScreen>>
-----------------------------------------------------------------------------
(* A shell: the rest of _startShell and the listener of its output. *)

\* It is open, and "_client!" is still there: the screen listens.
TsShellOpened(s) ==
    /\ tsShell[s] = "opening" /\ tsShellOn[s] \in tsAlive /\ tsClient # 0
    /\ tsShell' = [tsShell EXCEPT ![s] = "listening"] /\ tsSub' = s
    /\ UNCHANGED <<tsTry, tsOlder, tsClient, tsAlive, tsConnected, tsShellStarted, tsShellOn,
                   tsScreen>>

\* It cannot be opened, or its output ends: the screen shows no connection, whose ever it is.
TsShellEnds(s) ==
    /\ tsShell[s] \in {"opening", "listening"}
    /\ tsShell' = [tsShell EXCEPT ![s] = "gone"]
    /\ tsConnected' = IF tsMounted THEN 0 ELSE tsConnected
    /\ UNCHANGED <<tsTry, tsOlder, tsClient, tsAlive, tsShellStarted, tsShellOn, tsSub, tsScreen>>

\* External: the other side closes a client.
TsClientLost(a) ==
    /\ a \in tsAlive /\ tsAlive' = tsAlive \ {a}
    /\ UNCHANGED <<tsTry, tsOlder, tsClient, tsConnected, tsShells, tsScreen>>
-----------------------------------------------------------------------------
(* The user and the framework. *)

\* onResize.
TsResize ==
    /\ tsMounted /\ tsLaidOut' = TRUE
    /\ MaybeStartShell(TRUE)
    /\ UNCHANGED <<tsTry, tsOlder, tsClient, tsAlive, tsConnected, tsMenu, tsMounted>>

\* The menu shows what fits the moment it is opened.
TsMenuOpened ==
    /\ tsMounted /\ tsMenu = "closed"
    /\ tsMenu' = IF tsConnected # 0 THEN "disconnect" ELSE "reconnect"
    /\ UNCHANGED <<tsTry, tsOlder, tsClient, tsAlive, tsConnected, tsShells, tsLaidOut, tsMounted>>

TsMenuDismissed ==
    /\ tsMenu # "closed" /\ tsMenu' = "closed"
    /\ UNCHANGED <<tsTry, tsOlder, tsClient, tsAlive, tsConnected, tsShells, tsLaidOut, tsMounted>>

\* Mutant: the flag of the shell before stays.
ShellStaysStarted == UNCHANGED tsShellStarted

\* The next connection starts a shell of its own.
ResetShell == tsShellStarted' = FALSE

\* _disconnect: what it awaits is done in the same turn.
Disconnect ==
    /\ SafeClose /\ CancelStdout
    /\ ResetShell /\ tsConnected' = 0
    /\ UNCHANGED tsShellOn

TsDisconnect ==
    /\ tsMounted /\ tsMenu = "disconnect" /\ tsMenu' = "closed"
    /\ Disconnect
    /\ UNCHANGED <<tsTry, tsOlder, tsLaidOut, tsMounted>>

TsReconnect(a) ==
    /\ tsMounted /\ tsMenu = "reconnect" /\ tsMenu' = "closed"
    /\ a # 1 /\ Disconnect /\ TsBegin(a)
    /\ UNCHANGED <<tsLaidOut, tsMounted>>

TsDispose ==
    /\ tsMounted /\ tsMounted' = FALSE /\ tsMenu' = "closed"
    /\ CancelStdout /\ SafeClose
    /\ UNCHANGED <<tsTry, tsOlder, tsConnected, tsShellStarted, tsShellOn, tsLaidOut>>
-----------------------------------------------------------------------------
TsNext ==
    \/ TsFirst \/ TsResize \/ TsMenuOpened \/ TsMenuDismissed \/ TsDisconnect \/ TsDispose
    \/ \E a \in Attempt :
         \/ TsOpened(a) \/ TsClientMade(a) \/ TsAuthenticated(a) \/ TsConnectFails(a)
         \/ TsSaved(a) \/ TsSaveFails(a)
         \/ TsShellOpened(a) \/ TsShellEnds(a) \/ TsClientLost(a) \/ TsReconnect(a)

TsSpec == TsInit /\ [][TsNext]_tsVars
-----------------------------------------------------------------------------
\* A screen that shows a connection has a shell for it: once the attempt that connected is
\* through and the terminal is laid out, a shell has been started since that attempt began,
\* however attempts, disconnects and layouts follow each other.
TermShellFollows ==
    \A a \in Attempt :
        tsMounted /\ tsConnected = a /\ tsTry[a] = "ended" /\ tsLaidOut
            => ShellsStarted \ tsOlder[a] # {}
=============================================================================
