---------------------------- MODULE MCFdTransport ----------------------------
(* Instances of FdTransport for TLC: small byte counts, every fault or none.  *)
EXTENDS FdTransport

SmallWrites == {1, 2}
EveryFault == {"read", "write", "shutdown", "update", "wait"}

(* A behaviour of the main run exercises one direction: the application only   *)
(* reads, pausing and resuming, and no call fails; or it writes to a peer that *)
(* sends nothing, and every call may fail.                                     *)
VARIABLE direction

OneWayInit == Init /\ direction \in {"inbound", "outbound"}

OneWayNext ==
    /\ Next /\ UNCHANGED direction
    /\ direction = "inbound" =>
         /\ UNCHANGED futures
         /\ ~WaitFails /\ \A i \in DOMAIN evts' : evts'[i].kind # "readError"
    /\ direction = "outbound" => UNCHANGED peerSent /\ sub' # "paused"

\* None of the steps that are fair is one of those left out.
OneWaySpec ==
    /\ OneWayInit /\ [][OneWayNext]_<<direction, vars>>
    /\ Fairness /\ WF_vars(PeerConsumes)
=============================================================================
