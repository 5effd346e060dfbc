----------------------------- MODULE MCBridges -----------------------------
(* The pool of reactors, the bridges and the application above them, side by   *)
(* side.                                                                       *)
(* They share no state, so a behaviour runs one of them, the one in focus, and *)
(* leaves the others where they start; nothing they start with is fair and     *)
(* enabled.                                                                    *)
EXTENDS FdReactorPool, HttpBinding, TcpListener, HttpExchange, UdpBridge, NativePush,
        TailnetConnection, TerminalSession, KeyStore, ServePublications

CONSTANT PoolEndings    \* bound: reactors that fail to start or exit

VARIABLE focus

Focuses == {"pool", "http", "tcp", "exchange", "udp", "push", "tailnet", "terminal", "keys",
            "serve"}

\* The symbols of the Dart API that the run resolves, and the VMs it meets: of either version,
\* without the symbol that posts, or with one that this library does not know.
DlEntry(name) == [name |-> name, function |-> "vm:" \o name]
MCDlSymbols == <<"Dart_PostCObject", "Dart_NewSendPort">>
MCVmTables ==
    [major : {1, 2},
     functions : {<<>>, <<DlEntry("Dart_NewSendPort")>>,
                  <<DlEntry("Dart_NewSendPort"), DlEntry("Dart_PostCObject"), DlEntry("Dart_Later")>>}]

Init ==
    /\ focus \in Focuses
    /\ PoolInit /\ HttpInit /\ TcpInit /\ ExInit /\ UdpInit /\ NpInit /\ TnInit /\ TsInit /\ KsInit
    /\ SvInit
    /\ focus # "push" => npVm = CHOOSE vm \in VmTables : TRUE
    /\ focus # "tailnet" => ~tnConnected /\ ~tnRunning
    /\ focus # "terminal" => ~tsLaidOut
    /\ focus # "serve" => svHost = CHOOSE h \in Hosts : TRUE

\* Only faults and idle exits add to it: nothing that is fair is held back.
Ended == {k \in Incarnation : future[k] = "failed" \/ reactor[k] \in {"exiting", "stopped"}}

PoolMoves ==
    /\ focus = "pool" /\ PoolNext /\ Cardinality(Ended') <= PoolEndings
    /\ UNCHANGED <<httpVars, tcpVars, exVars, udpVars, npVars, tnVars, tsVars, ksVars, svVars>>
HttpMoves ==
    /\ focus = "http" /\ HttpNext
    /\ UNCHANGED <<poolVars, tcpVars, exVars, udpVars, npVars, tnVars, tsVars, ksVars, svVars>>
TcpMoves ==
    /\ focus = "tcp" /\ TcpNext
    /\ UNCHANGED <<poolVars, httpVars, exVars, udpVars, npVars, tnVars, tsVars, ksVars, svVars>>
ExMoves ==
    /\ focus = "exchange" /\ ExNext
    /\ UNCHANGED <<poolVars, httpVars, tcpVars, udpVars, npVars, tnVars, tsVars, ksVars, svVars>>
UdpMoves ==
    /\ focus = "udp" /\ UdpNext
    /\ UNCHANGED <<poolVars, httpVars, tcpVars, exVars, npVars, tnVars, tsVars, ksVars, svVars>>
NpMoves ==
    /\ focus = "push" /\ NpNext
    /\ UNCHANGED <<poolVars, httpVars, tcpVars, exVars, udpVars, tnVars, tsVars, ksVars, svVars>>
TnMoves ==
    /\ focus = "tailnet" /\ TnNext
    /\ UNCHANGED <<poolVars, httpVars, tcpVars, exVars, udpVars, npVars, tsVars, ksVars, svVars>>
TsMoves ==
    /\ focus = "terminal" /\ TsNext
    /\ UNCHANGED <<poolVars, httpVars, tcpVars, exVars, udpVars, npVars, tnVars, ksVars, svVars>>
KsMoves ==
    /\ focus = "keys" /\ KsNext
    /\ UNCHANGED <<poolVars, httpVars, tcpVars, exVars, udpVars, npVars, tnVars, tsVars, svVars>>
SvMoves ==
    /\ focus = "serve" /\ SvNext
    /\ UNCHANGED <<poolVars, httpVars, tcpVars, exVars, udpVars, npVars, tnVars, tsVars, ksVars>>

Next ==
    /\ PoolMoves \/ HttpMoves \/ TcpMoves \/ ExMoves \/ UdpMoves \/ NpMoves \/ TnMoves \/ TsMoves
       \/ KsMoves \/ SvMoves
    /\ UNCHANGED focus

vars == <<focus, poolVars, httpVars, tcpVars, exVars, udpVars, npVars, tnVars, tsVars, ksVars,
          svVars>>

Spec ==
    Init /\ [][Next]_vars /\ PoolFairness /\ HttpFairness /\ TcpFairness /\ ExFairness
-----------------------------------------------------------------------------
\* The type invariants of the components.
BridgesTypeOK ==
    /\ HttpTypeOK /\ TcpTypeOK /\ ExTypeOK /\ UdpTypeOK
    /\ NpTypeOK /\ TnTypeOK /\ TsTypeOK /\ KsTypeOK
    /\ SvTypeOK
=============================================================================
