--------------------------- MODULE MCNodeLifecycle ---------------------------
(* Instances of NodeLifecycle for TLC. *)
EXTENDS NodeLifecycle

UpThenAny == <<{"up", "upKey"}, {"up", "upKey", "down", "logout"}>>
KeyThenKey == <<{"upKey"}, {"upKey"}>>
EveryFault == {"start", "bus", "watch", "wipe", "exit", "boot"}

(* A behaviour of the main run is calm: an up with a key and a second call of  *)
(* any kind, and nothing fails; or faulty: an up without a key and a logout,   *)
(* and anything may fail.                                                      *)
VARIABLE weather

Breaks ==
    \/ SpawnFails \/ BootFails \/ Exit \/ ExecStartFails \/ ExecWipeFails
    \/ At("startWatch") /\ Go!StartWatchFails /\ RespondWith(TRUE, Nothing)
    \/ \E w \in 1 .. MaxWatchers : WatchBreaks(w)

WeatherInit == Init /\ weather \in {"calm", "faulty"}

WeatherNext ==
    /\ Next /\ UNCHANGED weather
    /\ weather = "calm" => op'[1].kind # "up" /\ ~Breaks
    /\ weather = "faulty" => op'[1].kind # "upKey" /\ op'[2].kind \in {Nothing, "logout"}

Faulty(A) == weather = "faulty" /\ A

\* Fairness of the faulty behaviours.  None of the steps that are fair is one of those left
\* out above.
WeatherFairness ==
    /\ WF_vars(Faulty(HandleMessage))
    /\ WF_vars(Faulty(WorkerStarts)) /\ WF_vars(Faulty(WorkerGoesOn))
    /\ \A o \in Op : WF_vars(Faulty(CallGoesOn(o)))

WeatherSpec == WeatherInit /\ [][WeatherNext]_<<weather, vars>> /\ WeatherFairness

\* OpsFinish where anything may fail: every lifecycle call returns or throws, whatever
\* becomes of the worker isolate and of the node under it.
OpsFinishFaulty == weather = "faulty" => OpsFinish
=============================================================================
