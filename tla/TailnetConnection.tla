------------------------- MODULE TailnetConnection -------------------------
(* TailscaleService.dial: every caller first sees to it that the node is up,   *)
(* and a caller that finds _upMutex set waits for whoever set it.  The field   *)
(* is tested before the status is awaited and set after it, so several callers *)
(* may set it; each of them clears whatever it holds, and completes it with no *)
(* word of whether the node came up.                                           *)
(*                                                                             *)
(* Left out: down, logout and the screens that call up themselves (they are    *)
(* TnNodeChanges), and what the dial itself gives.                             *)
(*                                                                             *)
(* External: the node, which answers a status call and is brought up or not.   *)

CONSTANT Dialers    \* the calls of dial

ASSUME DialersAssumption == "null" \notin Dialers

VARIABLES
    tnAt,         \* where each call is
    tnMutex,      \* _upMutex: the caller that created the completer, or "null"
    tnCompleted,  \* the completers that are completed; a completer is named by its creator
    tnAwaits,     \* the completer a waiting caller awaits
    tnConnected,  \* _hasConnected
    tnRunning,    \* external: the node's state is running
    tnReason      \* history: what a caller knows of the node since it asked

tnVars == <<tnAt, tnMutex, tnCompleted, tnAwaits, tnConnected, tnRunning, tnReason>>

TnTypeOK ==
    /\ tnAt \in [Dialers -> {"idle", "status", "key", "up", "waiting", "dialing", "failed"}]
    /\ tnMutex \in Dialers \cup {"null"} /\ tnCompleted \subseteq Dialers
    /\ tnAwaits \in [Dialers -> Dialers \cup {"null"}]
    /\ tnConnected \in BOOLEAN /\ tnRunning \in BOOLEAN
    /\ tnReason \in [Dialers -> {"none", "running", "up"}]

TnInit ==
    /\ tnAt = [c \in Dialers |-> "idle"] /\ tnMutex = "null" /\ tnCompleted = {}
    /\ tnAwaits = [c \in Dialers |-> "null"] /\ tnConnected \in BOOLEAN /\ tnRunning \in BOOLEAN
    /\ tnReason = [c \in Dialers |-> "none"]

TnGoOn(c, at) == tnAt' = [tnAt EXCEPT ![c] = at]
-----------------------------------------------------------------------------
\* External: the node comes up or goes down, by the network or by another call.
TnNodeChanges ==
    /\ tnRunning' = ~tnRunning
    /\ UNCHANGED <<tnAt, tnMutex, tnCompleted, tnAwaits, tnConnected, tnReason>>

\* dial: _ensureUp awaits the completer that is there, or the status.
TnDial(c) ==
    /\ tnAt[c] = "idle"
    /\ TnGoOn(c, IF tnMutex = "null" THEN "status" ELSE "waiting")
    /\ tnAwaits' = [tnAwaits EXCEPT ![c] = tnMutex]
    /\ UNCHANGED <<tnMutex, tnCompleted, tnConnected, tnRunning, tnReason>>

\* The node is running: dial at once.
TnSeesRunning(c) ==
    /\ tnAt[c] = "status" /\ tnRunning
    /\ TnGoOn(c, "dialing") /\ tnReason' = [tnReason EXCEPT ![c] = "running"]
    /\ UNCHANGED <<tnMutex, tnCompleted, tnAwaits, tnConnected, tnRunning>>

\* It is not, or the status call throws: a new completer, whatever the field holds by now.
TnBeginsUp(c) ==
    /\ tnAt[c] = "status"
    /\ tnMutex' = c /\ TnGoOn(c, IF tnConnected THEN "up" ELSE "key")
    /\ UNCHANGED <<tnCompleted, tnAwaits, tnConnected, tnRunning, tnReason>>

\* The stored key is there.
TnKeyRead(c) ==
    /\ tnAt[c] = "key" /\ TnGoOn(c, "up")
    /\ UNCHANGED <<tnMutex, tnCompleted, tnAwaits, tnConnected, tnRunning, tnReason>>

\* finally: complete and clear the completer the field holds now, one's own or another's; with
\* none left the null check throws and even a caller whose node is up fails.
TnFinally(c, succeeded) ==
    /\ tnCompleted' = tnCompleted \cup ({tnMutex} \ {"null"}) /\ tnMutex' = "null"
    /\ TnGoOn(c, IF succeeded /\ tnMutex # "null" THEN "dialing" ELSE "failed")
    /\ tnReason' = [d \in Dialers |-> IF succeeded /\ (d = c \/ tnAt[d] = "waiting") THEN "up"
                                      ELSE tnReason[d]]
    /\ UNCHANGED tnAwaits

TnUpSucceeds(c) ==
    /\ tnAt[c] = "up" /\ TnFinally(c, TRUE)
    /\ tnConnected' = TRUE /\ tnRunning' = TRUE

\* No key, a key that cannot be read, or an up that fails.
TnUpFails(c) ==
    /\ tnAt[c] \in {"key", "up"} /\ TnFinally(c, FALSE)
    /\ UNCHANGED <<tnConnected, tnRunning>>

\* The completer is completed, after a success or a failure: dial.
TnWakes(c) ==
    /\ tnAt[c] = "waiting" /\ tnAwaits[c] \in tnCompleted
    /\ TnGoOn(c, "dialing")
    /\ UNCHANGED <<tnMutex, tnCompleted, tnAwaits, tnConnected, tnRunning, tnReason>>
-----------------------------------------------------------------------------
TnNext ==
    \/ TnNodeChanges
    \/ \E c \in Dialers : \/ TnDial(c) \/ TnSeesRunning(c) \/ TnBeginsUp(c) \/ TnKeyRead(c)
                          \/ TnUpSucceeds(c) \/ TnUpFails(c) \/ TnWakes(c)

TnSpec == TnInit /\ [][TnNext]_tnVars
-----------------------------------------------------------------------------
\* "Ensure the tailnet node is up before attempting to dial" (tailscale_service.dart:164): a
\* caller dials only when, since it asked, it has seen the node running or somebody's attempt has
\* brought it up.  A caller that waited for an attempt that failed dials all the same.
UpBeforeDial == \A c \in Dialers : tnAt[c] = "dialing" => tnReason[c] # "none"
=============================================================================
