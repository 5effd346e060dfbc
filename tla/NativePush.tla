----------------------------- MODULE NativePush -----------------------------
(* How Go pushes a message to Dart: the worker isolate resolves the symbols of *)
(* the Dart DL API and gives Go a port; goroutines post to it through the      *)
(* resolved pointer.  The library outlives the isolates of the application: an *)
(* engine that is restarted in the process bootstraps again while goroutines   *)
(* of the engine before still post.                                            *)
(*                                                                             *)
(* External: the VM and its table of entries, which never change in a process, *)
(* and Dart_PostCObject, which drops what is posted to a closed port.          *)
EXTENDS Naturals, Sequences

CONSTANTS
    Null,            \* the pointer that is not resolved
    Nop,             \* the function that a deprecated symbol is bound to
    DlSymbols,       \* the symbols of the API, in the order they are resolved
    DeprecatedDl,    \* the deprecated ones
    PostSymbol,      \* Dart_PostCObject
    MajorVersion,    \* the version this library is compiled against
    VmTables,        \* the virtual machines it may meet
    Posters,         \* the goroutines that post
    MaxBootstraps    \* bound: the worker isolates of one process

DlSymbolNames == {DlSymbols[i] : i \in 1..Len(DlSymbols)}

ASSUME NativePushAssumption ==
    /\ MajorVersion \in Nat /\ MaxBootstraps \in Nat \ {0}
    /\ DlSymbols \in Seq(DlSymbolNames)
    /\ PostSymbol \in DlSymbolNames /\ DeprecatedDl \cap DlSymbolNames = {}
    /\ \A vm \in VmTables : \A i \in 1..Len(vm.functions) : vm.functions[i].function # Null

VARIABLES
    npVm,        \* the VM of the process
    npDl,        \* the pointers, name##_DL
    npWorker,    \* where the bootstrap of the worker isolate is
    npResolved,  \* how many symbols this bootstrap has resolved
    npPorts,     \* the ports that have been created so far; they are numbered from 1
    npPort,      \* dartPort
    npPosters,   \* where each goroutine is in postString, and the port it has read
    npCalls      \* the calls through the pointer: to what function, with what port

npVars == <<npVm, npDl, npWorker, npResolved, npPorts, npPort, npPosters, npCalls>>

npWorkers == <<npWorker, npResolved, npPorts>>

\* FindFunctionPointer: the first entry of that name.
FindFunctionPointer(entries, name) ==
    LET named == {i \in 1..Len(entries) : entries[i].name = name}
    IN  IF named = {} THEN Null
        ELSE entries[CHOOSE i \in named : \A j \in named : i <= j].function

NpTypeOK ==
    /\ npVm \in VmTables
    /\ DOMAIN npDl = DlSymbolNames \cup DeprecatedDl
    /\ npWorker \in {"none", "resolving", "resolved", "refused", "running", "exited", "disposed"}
    /\ npResolved \in 0..Len(DlSymbols)
    /\ npPorts \in 0..MaxBootstraps /\ npPort \in 0..npPorts
    /\ \A g \in Posters : /\ npPosters[g].at \in {"idle", "read", "checked"}
                          /\ npPosters[g].port \in 0..npPorts

NpInit ==
    /\ npVm \in VmTables
    /\ npDl = [s \in DlSymbolNames \cup DeprecatedDl |-> Null]
    /\ npWorker = "none" /\ npResolved = 0 /\ npPorts = 0 /\ npPort = 0
    /\ npPosters = [g \in Posters |-> [at |-> "idle", port |-> 0]]
    /\ npCalls = {}
-----------------------------------------------------------------------------
(* The worker isolate: _workerEntrypoint, and Dart_InitializeApiDL under it.   *)

\* It checks the version before it touches a pointer.
NpInitializeApiDL ==
    /\ npWorker \in {"none", "exited", "disposed"} /\ npPorts < MaxBootstraps
    /\ npWorker' = IF npVm.major = MajorVersion THEN "resolving" ELSE "refused"
    /\ npResolved' = 0
    /\ UNCHANGED <<npVm, npDl, npPorts, npPort, npPosters, npCalls>>

\* One symbol after the other; what the VM does not have is NULL.
NpResolve ==
    /\ npWorker = "resolving" /\ npResolved < Len(DlSymbols)
    /\ LET name == DlSymbols[npResolved + 1]
       IN  npDl' = [npDl EXCEPT ![name] = FindFunctionPointer(npVm.functions, name)]
    /\ npResolved' = npResolved + 1
    /\ UNCHANGED <<npVm, npWorker, npPorts, npPort, npPosters, npCalls>>

\* The deprecated ones are bound to functions of this library; the call returns 0.
NpResolveDeprecated ==
    /\ npWorker = "resolving" /\ npResolved = Len(DlSymbols)
    /\ npDl' = [s \in DOMAIN npDl |-> IF s \in DeprecatedDl THEN Nop ELSE npDl[s]]
    /\ npWorker' = "resolved"
    /\ UNCHANGED <<npVm, npResolved, npPorts, npPort, npPosters, npCalls>>

\* duneSetDartPort with a new port.
NpSetDartPort ==
    /\ npWorker = "resolved"
    /\ npPorts' = npPorts + 1 /\ npPort' = npPorts + 1
    /\ npWorker' = "running"
    /\ UNCHANGED <<npVm, npDl, npResolved, npPosters, npCalls>>

\* The isolate ends, alone or with the engine.
NpExit ==
    /\ npWorker \in {"resolving", "resolved", "running"} /\ npWorker' = "exited"
    /\ UNCHANGED <<npVm, npDl, npResolved, npPorts, npPort, npPosters, npCalls>>

\* Worker._dispose in the main isolate, if that is still there.
NpDispose ==
    /\ npWorker \in {"exited", "refused"}
    /\ npWorker' = "disposed" /\ npPort' = 0
    /\ UNCHANGED <<npVm, npDl, npResolved, npPorts, npPosters, npCalls>>
-----------------------------------------------------------------------------
(* A goroutine: postString, and dart_push_string under it. *)

NpPosterAt(g, at, port) == npPosters' = [npPosters EXCEPT ![g] = [at |-> at, port |-> port]]

\* It reads the port under dartPortMu and gives up if there is none.
NpReadPort(g) ==
    /\ npPosters[g].at = "idle" /\ npPort # 0
    /\ NpPosterAt(g, "read", npPort)
    /\ UNCHANGED <<npVm, npDl, npPort, npCalls, npWorkers>>

\* Mutant: the pointer is not tested.
NpAssumeResolved == TRUE

\* Dart_PostCObject_DL != NULL
NpPostResolved == npDl[PostSymbol] # Null

\* It tests the pointer,
NpCheckPointer(g) ==
    /\ npPosters[g].at = "read"
    /\ IF NpPostResolved THEN NpPosterAt(g, "checked", npPosters[g].port)
       ELSE NpPosterAt(g, "idle", 0)
    /\ UNCHANGED <<npVm, npDl, npPort, npCalls, npWorkers>>

\* and calls through it, reading it again: nothing orders it with a bootstrap.
NpCall(g) ==
    /\ npPosters[g].at = "checked"
    /\ npCalls' = npCalls \cup {[fn |-> npDl[PostSymbol], port |-> npPosters[g].port]}
    /\ NpPosterAt(g, "idle", 0)
    /\ UNCHANGED <<npVm, npDl, npPort, npWorkers>>
-----------------------------------------------------------------------------
NpNext ==
    \/ NpInitializeApiDL \/ NpResolve \/ NpResolveDeprecated \/ NpSetDartPort
    \/ NpExit \/ NpDispose
    \/ \E g \in Posters : NpReadPort(g) \/ NpCheckPointer(g) \/ NpCall(g)

NpSpec == NpInit /\ [][NpNext]_npVars
-----------------------------------------------------------------------------
\* Every push goes through the function that the VM has under that name, of the version this
\* library was compiled for, and to a port that an isolate created: whatever is bootstrapped
\* again, refused or disposed of while a goroutine is between its test and its call.
PushesThroughVm ==
    \A call \in npCalls :
        /\ npVm.major = MajorVersion
        /\ call.fn # Null /\ call.fn = FindFunctionPointer(npVm.functions, PostSymbol)
        /\ call.port \in 1..npPorts
=============================================================================
