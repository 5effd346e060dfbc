---------------------------- MODULE Bridges_proofs ----------------------------
(***************************************************************************)
(* The invariants of the bridges between Go and Dart: the exchange of an   *)
(* HTTP request, the pushes of Go, what Serve and Funnel publish, the      *)
(* descriptors that the listeners hand to the application, and the types   *)
(* of a UDP binding.  They share no state; each has a section of its own.  *)
(* The last composes them, with the services of the application, into the  *)
(* module that is checked.                                                 *)
(***************************************************************************)
EXTENDS MCBridges, AppServices_proofs
-----------------------------------------------------------------------------
(* HttpExchange:                                                            *)
(* What the application reads of a response, for a prefix, a head and a     *)
(* body of any length and any cutting of the stream into chunks.            *)
(*                                                                          *)
(* ExBodyExact is inductive once the parser is known to have been given     *)
(* the whole head before it adds anything (HeadFirst).  ExCleanEnd needs    *)
(* that the two flags which close the body outlive their causes: after      *)
(* the end of the stream nothing is written and nothing is left to take,    *)
(* and a request body that was sent does not fail (FlagsTrue).              *)

\* How far Go and the parser are in the stream.
StreamOrdered ==
    /\ exSent \in Nat /\ exTaken \in Nat /\ exTaken <= exSent
    /\ exGo = "asking" => exSent = 0

\* The body is what was taken behind the head.
HeadFirst ==
    /\ exHeadComplete \in BOOLEAN
    /\ ~exHeadComplete => exBody = <<>>
    /\ exHeadComplete => HeadEnd <= exTaken /\ exBody = ExStretch(HeadEnd, exTaken)

\* The flags of the parser mean what they say.
FlagsTrue ==
    /\ exResponseDone \in BOOLEAN /\ exRequestDone \in BOOLEAN
    /\ exResponseDone => exGo = "closed" /\ exTaken = exSent
    /\ exRequestDone => exRequest = "done"
    /\ exBodyState = "closed" => exResponseDone /\ exRequestDone

ExchangeInv == StreamOrdered /\ HeadFirst /\ FlagsTrue

\* The prefix and the head have a length.
LEMMA HeadEndNat == HeadEnd \in Nat
BY ExchangeAssumption DEF HeadEnd

\* What follows the head, once more bytes follow it.
LEMMA BodyGrows ==
    ASSUME NEW a \in Nat, NEW n \in Nat, HeadEnd <= a
    PROVE  ExStretch(HeadEnd, a) \o ExStretch(a, a + n) = ExStretch(HeadEnd, a + n)
<1> DEFINE front == ExStretch(HeadEnd, a)
           back  == ExStretch(a, a + n)
           whole == ExStretch(HeadEnd, a + n)
<1> USE HeadEndNat DEF ExStretch
<1>1. front \in Seq(Nat) /\ Len(front) = a - HeadEnd
  <2>1. a - HeadEnd \in Nat
    OBVIOUS
  <2>2. front \in [1..(a - HeadEnd) -> Nat]
    OBVIOUS
  <2> QED  BY <2>1, <2>2
<1>2. back \in Seq(Nat) /\ Len(back) = n
  <2>1. a + n - a = n
    OBVIOUS
  <2>2. back = [i \in 1..n |-> a + i]
    BY <2>1
  <2>3. back \in [1..n -> Nat]
    BY <2>2
  <2> QED  BY <2>2, <2>3
<1>3. whole \in Seq(Nat) /\ Len(whole) = a + n - HeadEnd
  <2>1. a + n - HeadEnd \in Nat
    OBVIOUS
  <2>2. whole \in [1..(a + n - HeadEnd) -> Nat]
    OBVIOUS
  <2> QED  BY <2>1, <2>2
<1>4. Len(front \o back) = Len(whole) /\ front \o back \in Seq(Nat)
  BY <1>1, <1>2, <1>3
<1>5. \A i \in 1..Len(whole) : (front \o back)[i] = whole[i]
  BY <1>1, <1>2, <1>3
<1> HIDE DEF front, back, whole
<1>6. front \o back = whole
  BY <1>3, <1>4, <1>5, SeqEqual
<1> QED  BY <1>6 DEF front, back, whole

\* Before anything was sent nothing was taken.
LEMMA ExchangeStarts == ExInit => ExchangeInv
<1> SUFFICES ASSUME ExInit PROVE ExchangeInv
  OBVIOUS
<1>1. StreamOrdered
  BY DEF ExInit, StreamOrdered
<1>2. HeadFirst
  BY DEF ExInit, HeadFirst
<1>3. FlagsTrue
  BY DEF ExInit, FlagsTrue
<1> QED  BY <1>1, <1>2, <1>3 DEF ExchangeInv

\* A chunk ends before the head does, completes it, or belongs to the body.
LEMMA ChunkKeeps ==
    ASSUME ExchangeInv, NEW n \in 1..(HeadEnd + BodyBytes), ExChunk(n)
    PROVE  ExchangeInv'
<1> USE HeadEndNat, ExchangeAssumption DEF ExchangeInv
<1>1. n \in Nat /\ n >= 1 /\ exTaken' = exTaken + n /\ exTaken' \in Nat /\ exTaken' <= exSent
  BY DEF ExChunk, StreamOrdered
<1>2. StreamOrdered'
  BY <1>1 DEF ExChunk, StreamOrdered, exGoVars
<1>3. HeadFirst'
  <2>1. CASE exHeadComplete
    <3>1. exBody' = exBody \o ExStretch(exTaken, exTaken + n)
      <4>1. ExBodyFrom = exTaken
        BY <2>1 DEF ExBodyFrom
      <4>2. exBody' = exBody \o ExStretch(ExBodyFrom, exTaken + n)
        BY <2>1 DEF ExChunk
      <4> QED  BY <4>1, <4>2
    <3>2. exTaken \in Nat /\ HeadEnd <= exTaken
      BY <2>1 DEF HeadFirst, StreamOrdered
    <3>3. exBody' = ExStretch(HeadEnd, exTaken + n)
      BY <1>1, <2>1, <3>1, <3>2, BodyGrows DEF HeadFirst
    <3>4. exHeadComplete'
      BY <2>1 DEF ExChunk
    <3> QED  BY <1>1, <3>2, <3>3, <3>4 DEF HeadFirst
  <2>2. CASE ~exHeadComplete
    <3>1. CASE exHeadComplete'
      <4>1. exTaken + n >= HeadEnd
        BY <2>2, <3>1 DEF ExChunk
      <4>2. exBody' = ExStretch(HeadEnd, exTaken + n)
        <5>1. ExBodyFrom = HeadEnd
          BY <2>2 DEF ExBodyFrom
        <5>2. exBody' = ExStretch(ExBodyFrom, exTaken + n)
          BY <2>2, <3>1 DEF ExChunk
        <5> QED  BY <5>1, <5>2
      <4> QED  BY <1>1, <2>2, <3>1, <4>1, <4>2 DEF HeadFirst, ExChunk
    <3>2. CASE ~exHeadComplete'
      <4>1. exBody' = exBody /\ exHeadComplete' = exHeadComplete
        BY <2>2, <3>2 DEF ExChunk
      <4> QED  BY <2>2, <3>2, <4>1 DEF HeadFirst
    <3> QED  BY <3>1, <3>2
  <2> QED  BY <2>1, <2>2 DEF HeadFirst
<1>4. FlagsTrue'
  <2>1. ~exResponseDone
    BY <1>1 DEF FlagsTrue, StreamOrdered
  <2>2. exBodyState' # "closed"
    <3>1. exBodyState # "closed"
      BY <2>1 DEF FlagsTrue
    <3> QED  BY <3>1 DEF ExChunk, ExFail
  <2> QED  BY <2>1, <2>2 DEF FlagsTrue, ExChunk
<1> QED  BY <1>2, <1>3, <1>4

\* A step that takes nothing of the stream and completes no head.
LEMMA StreamKeeps ==
    ASSUME ExchangeInv, UNCHANGED <<exTaken, exHeadComplete, exBody>>,
           exSent' \in Nat, exSent' >= exSent, exGo' = "asking" => exSent' = 0
    PROVE  StreamOrdered' /\ HeadFirst'
BY HeadEndNat DEF ExchangeInv, StreamOrdered, HeadFirst

\* No step of Go, of the parser or of the writer breaks it.
LEMMA ExchangeKept == ExchangeInv /\ [ExNext]_exVars => ExchangeInv'
<1> SUFFICES ASSUME ExchangeInv, [ExNext]_exVars PROVE ExchangeInv'
  OBVIOUS
<1> USE HeadEndNat, ExchangeAssumption DEF exGoVars, exReplyVars
<1>1. CASE ExAdopt
  BY <1>1, StreamKeeps DEF ExAdopt, ExchangeInv, StreamOrdered, FlagsTrue
<1>2. CASE ExGoAnswers
  BY <1>2, StreamKeeps DEF ExGoAnswers, ExchangeInv, StreamOrdered, FlagsTrue
<1>3. CASE ExGoFails
  BY <1>3, StreamKeeps DEF ExGoFails, ExchangeInv, StreamOrdered, FlagsTrue
<1>4. CASE ExGoWritesNothing
  BY <1>4, StreamKeeps DEF ExGoWritesNothing, ExchangeInv, StreamOrdered, FlagsTrue
<1>5. CASE ExGoCopies
  BY <1>5, StreamKeeps DEF ExGoCopies, ExchangeInv, StreamOrdered, FlagsTrue
<1>6. CASE ExGoEnds
  BY <1>6, StreamKeeps DEF ExGoEnds, ExchangeInv, StreamOrdered, FlagsTrue
<1>7. ASSUME NEW n \in 1..(HeadEnd + BodyBytes), ExChunk(n) PROVE ExchangeInv'
  BY <1>7, ChunkKeeps
<1>8. CASE ExDone
  BY <1>8, StreamKeeps
  DEF ExDone, ExFail, ExMaybeCloseBody, ExBothOver, ExchangeInv, StreamOrdered, FlagsTrue
<1>9. CASE ExInputFails
  BY <1>9, StreamKeeps DEF ExInputFails, ExFail, ExchangeInv, StreamOrdered, FlagsTrue
<1>10. CASE ExCancel
  BY <1>10, StreamKeeps DEF ExCancel, ExchangeInv, StreamOrdered, FlagsTrue
<1>11. CASE ExRequestSent
  BY <1>11, StreamKeeps
  DEF ExRequestSent, ExBodyAfterRequest, ExMaybeCloseBody, ExBothOver, ExchangeInv,
      StreamOrdered, FlagsTrue
<1>12. CASE ExRequestFails
  BY <1>12, StreamKeeps DEF ExRequestFails, ExchangeInv, StreamOrdered, FlagsTrue
<1>13. CASE UNCHANGED exVars
  BY <1>13, StreamKeeps DEF exVars, ExchangeInv, StreamOrdered, FlagsTrue
<1> QED
  BY <1>1, <1>2, <1>3, <1>4, <1>5, <1>6, <1>7, <1>8, <1>9, <1>10, <1>11, <1>12, <1>13 DEF ExNext

\* The invariant gives both properties.
LEMMA ExchangeGives == ExchangeInv => ExBodyExact /\ ExCleanEnd
<1> SUFFICES ASSUME ExchangeInv PROVE ExBodyExact /\ ExCleanEnd
  OBVIOUS
<1> USE HeadEndNat DEF ExchangeInv
<1>1. ExCleanEnd
  BY DEF ExCleanEnd, FlagsTrue
<1>2. CASE exHeadComplete
  <2>1. exTaken - HeadEnd \in Nat
    BY <1>2 DEF HeadFirst, StreamOrdered
  <2>2. exBody \in [1..(exTaken - HeadEnd) -> Nat]
    BY <1>2, <2>1 DEF HeadFirst, ExStretch
  <2>3. Len(exBody) = exTaken - HeadEnd
    BY <2>1, <2>2
  <2>4. exBody = [i \in 1..Len(exBody) |-> HeadEnd + i]
    BY <1>2, <2>3 DEF HeadFirst, ExStretch
  <2> QED  BY <1>1, <2>1, <2>3, <2>4 DEF ExBodyExact, StreamOrdered
<1>3. CASE ~exHeadComplete
  <2>1. exBody = <<>> /\ Len(exBody) = 0
    BY <1>3 DEF HeadFirst
  <2> QED  BY <1>1, <1>3, <2>1 DEF ExBodyExact
<1> QED  BY <1>2, <1>3

\* However the stream is cut, the body of a response is what follows its head, without a gap.
THEOREM BodyIsExact == ExSpec => []ExBodyExact
<1>1. ExInit => ExchangeInv
  BY ExchangeStarts
<1>2. ExchangeInv /\ [ExNext]_exVars => ExchangeInv'
  BY ExchangeKept
<1>3. ExchangeInv => ExBodyExact
  BY ExchangeGives
<1> QED  BY <1>1, <1>2, <1>3, PTL DEF ExSpec

\* A body that ends without an error is whole, and so is the request body.
THEOREM EndIsClean == ExSpec => []ExCleanEnd
<1>1. ExInit => ExchangeInv
  BY ExchangeStarts
<1>2. ExchangeInv /\ [ExNext]_exVars => ExchangeInv'
  BY ExchangeKept
<1>3. ExchangeInv => ExCleanEnd
  BY ExchangeGives
<1> QED  BY <1>1, <1>2, <1>3, PTL DEF ExSpec
-----------------------------------------------------------------------------
(* NativePush:                                                              *)
(* Every push goes through the function of the VM, for any table of         *)
(* symbols, any number of goroutines and any number of bootstraps.          *)
(*                                                                          *)
(* PushesThroughVm speaks of calls that were made.  What carries it is      *)
(* that a pointer, once resolved, never becomes NULL again: a bootstrap     *)
(* overwrites it with what the same table gives for the same name           *)
(* (PointerFixed), so the test of a goroutine stays valid until its call    *)
(* although nothing orders the two with the bootstrap.                      *)

\* What the VM has under the name of the symbol that posts.
VmPost == FindFunctionPointer(npVm.functions, PostSymbol)

PointersTyped ==
    npDl = [s \in DlSymbolNames \cup DeprecatedDl |-> npDl[s]]

PortsTyped ==
    /\ npPorts \in Nat /\ npPort \in 0..npPorts
    /\ npResolved \in Nat
    /\ npPosters \in [Posters -> [at : {"idle", "read", "checked"}, port : 0..npPorts]]

\* The pointer is NULL or what it should be, and is only touched on the right version.
PointerFixed ==
    /\ npDl[PostSymbol] \in {Null, VmPost}
    /\ \/ npWorker \in {"resolving", "resolved", "running"}
       \/ npPort # 0
       \/ npDl[PostSymbol] # Null
       => npVm.major = MajorVersion

\* A goroutine that is on its way has a port, and one that has tested the pointer may use it.
PostersReady ==
    \A g \in Posters :
        /\ npPosters[g].at # "idle" => npPosters[g].port # 0
        /\ npPosters[g].at = "checked" => npDl[PostSymbol] # Null

PushInv == PointersTyped /\ PortsTyped /\ PointerFixed /\ PostersReady /\ PushesThroughVm

\* Before the first bootstrap nothing is resolved and nobody posts.
LEMMA PushStarts == NpInit => PushInv
BY NativePushAssumption
DEF NpInit, PushInv, PointersTyped, PortsTyped, PointerFixed, PostersReady, PushesThroughVm

\* A step of the worker that leaves the pointer as it was, or gives it its value.
LEMMA BootstrapKeeps ==
    ASSUME PushInv, PointersTyped', npPorts' \in Nat, npPorts' >= npPorts,
           npPort' \in 0..npPorts', npResolved' \in Nat,
           UNCHANGED <<npVm, npPosters, npCalls>>,
           npDl'[PostSymbol] = npDl[PostSymbol] \/ npDl'[PostSymbol] = VmPost,
           \/ npWorker' \in {"resolving", "resolved", "running"}
           \/ npPort' # 0
           \/ npDl'[PostSymbol] # npDl[PostSymbol]
           => npVm.major = MajorVersion
    PROVE  PushInv'
<1> USE DEF PushInv
<1>1. VmPost' = VmPost
  BY DEF VmPost
<1>2. npDl[PostSymbol] # Null => npDl'[PostSymbol] # Null
  BY DEF PointerFixed
<1>3. PointerFixed'
  BY <1>1 DEF PointerFixed
<1>4. PortsTyped'
  <2>1. \A g \in Posters : npPosters[g] \in [at : {"idle", "read", "checked"}, port : 0..npPorts']
    BY DEF PortsTyped
  <2> QED  BY <2>1 DEF PortsTyped
<1>5. PostersReady'
  BY <1>2 DEF PostersReady
<1>6. PushesThroughVm'
  BY DEF PushesThroughVm, PortsTyped
<1> QED  BY <1>3, <1>4, <1>5, <1>6

\* A step of one goroutine that makes no call.
LEMMA PosterKeeps ==
    ASSUME PushInv, NEW g \in Posters, NEW at \in {"idle", "read", "checked"},
           NEW port \in 0..npPorts, NpPosterAt(g, at, port),
           UNCHANGED <<npVm, npDl, npPort, npWorkers>>,
           at # "idle" => port # 0,
           at = "checked" => npDl[PostSymbol] # Null
    PROVE  /\ PointersTyped' /\ PortsTyped' /\ PointerFixed' /\ PostersReady'
           /\ npCalls' = npCalls => PushesThroughVm'
<1> USE DEF PushInv, npWorkers
<1>1. PortsTyped'
  BY DEF PortsTyped, NpPosterAt
<1>2. PostersReady'
  BY DEF PostersReady, NpPosterAt, PortsTyped
<1>3. PointersTyped' /\ PointerFixed'
  BY DEF PointersTyped, PointerFixed, VmPost
<1>4. npCalls' = npCalls => PushesThroughVm'
  BY DEF PushesThroughVm
<1> QED  BY <1>1, <1>2, <1>3, <1>4

\* No step of the worker or of a goroutine breaks it.
LEMMA PushKept == PushInv /\ [NpNext]_npVars => PushInv'
<1> SUFFICES ASSUME PushInv, [NpNext]_npVars PROVE PushInv'
  OBVIOUS
<1> USE NativePushAssumption
<1>1. CASE NpInitializeApiDL
  BY <1>1, BootstrapKeeps DEF NpInitializeApiDL, PushInv, PointersTyped, PortsTyped, PointerFixed
<1>2. CASE NpResolve
  <2>1. PointersTyped'
    BY <1>2 DEF NpResolve, PushInv, PointersTyped
  <2>2. npDl'[PostSymbol] = npDl[PostSymbol] \/ npDl'[PostSymbol] = VmPost
    BY <1>2 DEF NpResolve, PushInv, PointersTyped, VmPost
  <2> QED  BY <1>2, <2>1, <2>2, BootstrapKeeps DEF NpResolve, PushInv, PortsTyped, PointerFixed
<1>3. CASE NpResolveDeprecated
  <2>1. PointersTyped'
    BY <1>3 DEF NpResolveDeprecated, PushInv, PointersTyped
  <2>2. npDl'[PostSymbol] = npDl[PostSymbol]
    BY <1>3 DEF NpResolveDeprecated, PushInv, PointersTyped
  <2> QED  BY <1>3, <2>1, <2>2, BootstrapKeeps
           DEF NpResolveDeprecated, PushInv, PortsTyped, PointerFixed
<1>4. CASE NpSetDartPort
  BY <1>4, BootstrapKeeps DEF NpSetDartPort, PushInv, PointersTyped, PortsTyped, PointerFixed
<1>5. CASE NpExit
  BY <1>5, BootstrapKeeps DEF NpExit, PushInv, PointersTyped, PortsTyped, PointerFixed
<1>6. CASE NpDispose
  BY <1>6, BootstrapKeeps DEF NpDispose, PushInv, PointersTyped, PortsTyped, PointerFixed
<1>7. ASSUME NEW g \in Posters, NpReadPort(g) PROVE PushInv'
  BY <1>7, PosterKeeps DEF NpReadPort, PushInv, PortsTyped
<1>8. ASSUME NEW g \in Posters, NpCheckPointer(g) PROVE PushInv'
  <2>1. npPosters[g].port \in 0..npPorts /\ npPosters[g].port # 0 /\ npPorts \in Nat
    BY <1>8 DEF NpCheckPointer, PushInv, PortsTyped, PostersReady
  <2>2. CASE NpPostResolved
    BY <1>8, <2>1, <2>2, PosterKeeps DEF NpCheckPointer, NpPostResolved, PushInv
  <2>3. CASE ~NpPostResolved
    BY <1>8, <2>1, <2>3, PosterKeeps DEF NpCheckPointer, PushInv
  <2> QED  BY <2>2, <2>3
<1>9. ASSUME NEW g \in Posters, NpCall(g) PROVE PushInv'
  <2>1. npPosters[g].port \in 1..npPorts /\ npPorts \in Nat /\ npDl[PostSymbol] # Null
    BY <1>9 DEF NpCall, PushInv, PortsTyped, PostersReady
  <2>2. PointersTyped' /\ PortsTyped' /\ PointerFixed' /\ PostersReady'
    BY <1>9, <2>1, PosterKeeps DEF NpCall
  <2>3. npVm.major = MajorVersion /\ npDl[PostSymbol] = VmPost
    BY <2>1 DEF PushInv, PointerFixed
  <2>4. PushesThroughVm'
    BY <1>9, <2>1, <2>3 DEF NpCall, PushInv, PushesThroughVm, VmPost, npWorkers
  <2> QED  BY <2>2, <2>4 DEF PushInv
<1>10. CASE UNCHANGED npVars
  BY <1>10 DEF npVars, PushInv, PointersTyped, PortsTyped, PointerFixed, PostersReady,
               PushesThroughVm, VmPost
<1> QED  BY <1>1, <1>2, <1>3, <1>4, <1>5, <1>6, <1>7, <1>8, <1>9, <1>10 DEF NpNext

\* Whatever the VM offers and however often it is bootstrapped under running goroutines, no
\* call goes through an unresolved pointer, to another function, on another version or to a
\* port that nobody created.
THEOREM NoPushAstray == NpSpec => []PushesThroughVm
<1>1. NpInit => PushInv
  BY PushStarts
<1>2. PushInv /\ [NpNext]_npVars => PushInv'
  BY PushKept
<1>3. PushInv => PushesThroughVm
  BY DEF PushInv
<1> QED  BY <1>1, <1>2, <1>3, PTL DEF NpSpec
-----------------------------------------------------------------------------
(* ServePublications:                                                       *)
(* What is published stays accounted for, for any names, ports and paths.   *)
(*                                                                          *)
(* PublicationsAccounted is inductive once the keys are typed and the       *)
(* targets of a port carry one name (OneName): a clear of the Funnel takes  *)
(* the name of the forwarder, and would miss a target under another one.    *)

\* A Funnel port serves one name of the node.
OneName == \A j, k \in svTargets : j.port = k.port => j.host = k.host

ServeInv == SvTypeOK /\ OneName /\ PublicationsAccounted

\* The path of a mount under the present name.
LEMMA HereIsKey ==
    ASSUME SvTypeOK, NEW p \in Ports, NEW m \in Mounts
    PROVE  /\ SvHere(p, m) \in SvKey /\ SvHere(p, m).port = p
           /\ SvHere(p, m).host = svHost /\ SvHere(p, m).path = m
BY DEF SvHere, SvKey, SvTypeOK

\* Nothing is published at first.
LEMMA ServeStarts == SvInit => ServeInv
BY DEF SvInit, ServeInv, SvTypeOK, OneName, PublicationsAccounted, TrackedWhileUp, NoIdlePort,
       FunnelTablesAgree

\* A removal leaves no port without a path.
LEMMA RemovalKeepsPorts ==
    ASSUME SvTypeOK, NoIdlePort, NEW removed, SvRemove(removed)
    PROVE  NoIdlePort'
<1> SUFFICES ASSUME NEW p \in svTcp, p \notin SvEmptied(removed)
             PROVE  \E k \in svWeb \ removed : k.port = p
  BY DEF SvRemove, NoIdlePort
<1>1. PICK k \in svWeb : k.port = p
  BY DEF NoIdlePort
<1>2. k.host \in Hosts /\ p \in Ports /\ k \in SvAt(svWeb, k.host, p)
  BY <1>1 DEF SvAt, SvTypeOK, SvKey
<1>3. PICK other \in SvAt(svWeb, k.host, p) : other \notin removed
  BY <1>2 DEF SvEmptied
<1> QED  BY <1>3 DEF SvAt

\* Only the configuration and what is known of it changes.
LEMMA ConfigKeeps ==
    ASSUME ServeInv, SvTypeOK', UNCHANGED <<svUp, svFunnel>>, TrackedWhileUp', NoIdlePort'
    PROVE  ServeInv'
BY DEF ServeInv, OneName, PublicationsAccounted, FunnelTablesAgree, svFunnel

\* The end of the node, whatever becomes of the configuration.
LEMMA EndKeeps ==
    ASSUME ServeInv, SvCloseFunnel, svUp' = FALSE, UNCHANGED svHost, svTracked' = {},
           svWeb' \subseteq svWeb, svTcp' \subseteq Ports, NoIdlePort'
    PROVE  ServeInv'
<1>1. SvTypeOK' /\ OneName' /\ FunnelTablesAgree'
  BY DEF ServeInv, SvCloseFunnel, SvTypeOK, OneName, PublicationsAccounted, FunnelTablesAgree
<1>2. TrackedWhileUp'
  BY DEF TrackedWhileUp
<1> QED  BY <1>1, <1>2 DEF ServeInv, PublicationsAccounted

\* No call, failure, rename or kill breaks it.
LEMMA ServeKept == ServeInv /\ [SvNext]_svVars => ServeInv'
<1> SUFFICES ASSUME ServeInv, [SvNext]_svVars PROVE ServeInv'
  OBVIOUS
<1> USE DEF svConfig, svFunnel
<1>0. SvTypeOK /\ OneName /\ TrackedWhileUp /\ NoIdlePort /\ FunnelTablesAgree
  BY DEF ServeInv, PublicationsAccounted
<1>1. CASE SvStart
  BY <1>0, <1>1 DEF SvStart, ServeInv, SvTypeOK, OneName, PublicationsAccounted,
                    TrackedWhileUp, NoIdlePort, FunnelTablesAgree
<1>2. CASE SvRename
  BY <1>0, <1>2 DEF SvRename, ServeInv, SvTypeOK, OneName, PublicationsAccounted,
                    TrackedWhileUp, NoIdlePort, FunnelTablesAgree
<1>3. CASE SvStop
  <2>1. CASE SvRemove(svTracked)
    <3>1. NoIdlePort'
      BY <1>0, <2>1, RemovalKeepsPorts
    <3>2. svWeb' \subseteq svWeb /\ svTcp' \subseteq Ports
      BY <1>0, <2>1 DEF SvRemove, SvTypeOK
    <3> QED  BY <1>3, <3>1, <3>2, EndKeeps DEF SvStop, SvCloseServe
  <2>2. CASE UNCHANGED <<svWeb, svTcp>>
    <3>1. NoIdlePort'
      BY <1>0, <2>2 DEF NoIdlePort
    <3>2. svWeb' \subseteq svWeb /\ svTcp' \subseteq Ports
      BY <1>0, <2>2 DEF SvTypeOK
    <3> QED  BY <1>3, <3>1, <3>2, EndKeeps DEF SvStop, SvCloseServe
  <2> QED  BY <1>3, <2>1, <2>2 DEF SvStop, SvCloseServe
<1>4. CASE SvStopAndWipe
  <2>1. NoIdlePort'
    BY <1>4 DEF SvStopAndWipe, NoIdlePort
  <2> QED  BY <1>4, <2>1, EndKeeps DEF SvStopAndWipe
<1>5. CASE SvKilled
  BY <1>0, <1>5 DEF SvKilled, ServeInv, SvTypeOK, OneName, PublicationsAccounted,
                    TrackedWhileUp, NoIdlePort, FunnelTablesAgree
<1>6. ASSUME NEW p \in Ports, NEW m \in Mounts, SvForward(p, m) PROVE ServeInv'
  <2>1. SvTypeOK'
    BY <1>0, <1>6, HereIsKey DEF SvForward, SvTypeOK
  <2>2. TrackedWhileUp'
    BY <1>0, <1>6 DEF SvForward, TrackedWhileUp
  <2>3. NoIdlePort'
    BY <1>0, <1>6, HereIsKey DEF SvForward, NoIdlePort
  <2> QED  BY <1>6, <2>1, <2>2, <2>3, ConfigKeeps DEF SvForward
<1>7. ASSUME NEW p \in Ports, NEW m \in Mounts, SvClear(p, m) PROVE ServeInv'
  <2>1. SvTypeOK'
    BY <1>0, <1>7 DEF SvClear, SvRemove, SvUntracked, SvTypeOK
  <2>2. TrackedWhileUp'
    BY <1>0, <1>7 DEF SvClear, SvRemove, SvUntracked, TrackedWhileUp
  <2>3. NoIdlePort'
    BY <1>0, <1>7, RemovalKeepsPorts DEF SvClear
  <2> QED  BY <1>7, <2>1, <2>2, <2>3, ConfigKeeps DEF SvClear
<1>8. ASSUME NEW p \in Ports, NEW m \in Mounts, SvFunnelForward(p, m) PROVE ServeInv'
  <2>1. SvTypeOK'
    BY <1>0, <1>8, HereIsKey DEF SvFunnelForward, SvTypeOK
  <2>2. OneName'
    BY <1>0, <1>8, HereIsKey DEF SvFunnelForward, OneName
  <2>3. FunnelTablesAgree'
    BY <1>0, <1>8, HereIsKey DEF SvFunnelForward, FunnelTablesAgree
  <2>4. TrackedWhileUp' /\ NoIdlePort'
    BY <1>0, <1>8 DEF SvFunnelForward, TrackedWhileUp, NoIdlePort
  <2> QED  BY <2>1, <2>2, <2>3, <2>4 DEF ServeInv, PublicationsAccounted
<1>9. ASSUME NEW p \in Ports, NEW m \in Mounts, SvFunnelClear(p, m) PROVE ServeInv'
  <2> DEFINE gone == {k \in svTargets : k.port = p /\ k.path = m}
             named == {[host |-> k.host, port |-> p, path |-> m] :
                          k \in {t \in svTargets : t.port = p}}
  <2>1. /\ svTargets' = svTargets \ gone /\ svFunnelTracked' = svTargets \ named
        /\ UNCHANGED <<svUp, svHost, svConfig>>
        /\ svListeners' = IF \A k \in svTargets : k.port = p => k \in gone
                          THEN svListeners \ {p} ELSE svListeners
    BY <1>0, <1>9 DEF SvFunnelClear, FunnelTablesAgree
  <2>2. svTargets \ named = svTargets \ gone
    <3>1. ASSUME NEW k \in svTargets, k \in gone PROVE k \in named
      <4>1. k \in SvKey /\ k.port = p /\ k.path = m
        BY <1>0, <3>1 DEF SvTypeOK
      <4>2. k = [host |-> k.host, port |-> p, path |-> m]
        BY <4>1 DEF SvKey
      <4> QED  BY <4>1, <4>2
    <3>2. ASSUME NEW k \in svTargets, k \in named PROVE k \in gone
      <4>1. PICK t \in svTargets : k = [host |-> t.host, port |-> p, path |-> m]
        BY <3>2
      <4>2. k.port = p /\ k.path = m
        BY <4>1
      <4> QED  BY <4>2
    <3> QED  BY <3>1, <3>2
  <2>3. FunnelTablesAgree'
    <3>1. svListeners' = {k.port : k \in svTargets \ gone}
      BY <1>0, <2>1 DEF FunnelTablesAgree
    <3> QED  BY <1>0, <2>1, <2>2, <3>1 DEF FunnelTablesAgree
  <2>4. SvTypeOK' /\ OneName'
    BY <1>0, <2>1 DEF SvTypeOK, OneName
  <2>5. TrackedWhileUp' /\ NoIdlePort'
    BY <1>0, <2>1 DEF TrackedWhileUp, NoIdlePort
  <2> QED  BY <2>3, <2>4, <2>5 DEF ServeInv, PublicationsAccounted
<1>10. CASE UNCHANGED svVars
  BY <1>0, <1>10 DEF svVars, ServeInv, SvTypeOK, OneName, PublicationsAccounted,
                     TrackedWhileUp, NoIdlePort, FunnelTablesAgree
<1> QED
  BY <1>1, <1>2, <1>3, <1>4, <1>5, <1>6, <1>7, <1>8, <1>9, <1>10 DEF SvNext

\* Whatever is published and taken back, under whatever names and with whatever failures, the
\* ports and the tables follow it.
THEOREM TablesFollowPublications == SvSpec => []PublicationsAccounted
<1>1. SvInit => ServeInv
  BY ServeStarts
<1>2. ServeInv /\ [SvNext]_svVars => ServeInv'
  BY ServeKept
<1>3. ServeInv => PublicationsAccounted
  BY DEF ServeInv
<1> QED  BY <1>1, <1>2, <1>3, PTL DEF SvSpec

\* A node that is up comes to serve nothing that the package does not know of.
LEMMA NothingUnknownAdded ==
    [SvNext]_svVars /\ svUp' => svWeb' \ svTracked' \subseteq svWeb \ svTracked
<1> SUFFICES ASSUME [SvNext]_svVars, svUp' PROVE svWeb' \ svTracked' \subseteq svWeb \ svTracked
  OBVIOUS
<1> USE DEF svConfig, svFunnel
<1>1. CASE SvStart \/ SvRename \/ UNCHANGED svVars
  BY <1>1 DEF SvStart, SvRename, svVars
<1>2. ASSUME NEW p \in Ports, NEW m \in Mounts, SvForward(p, m)
      PROVE  svWeb' \ svTracked' \subseteq svWeb \ svTracked
  BY <1>2 DEF SvForward
<1>3. ASSUME NEW p \in Ports, NEW m \in Mounts, SvClear(p, m)
      PROVE  svWeb' \ svTracked' \subseteq svWeb \ svTracked
  BY <1>3 DEF SvClear, SvRemove, SvUntracked
<1>4. ASSUME NEW p \in Ports, NEW m \in Mounts, SvFunnelForward(p, m) \/ SvFunnelClear(p, m)
      PROVE  svWeb' \ svTracked' \subseteq svWeb \ svTracked
  BY <1>4 DEF SvFunnelForward, SvFunnelClear
<1>5. ~SvStop /\ ~SvStopAndWipe /\ ~SvKilled
  BY DEF SvStop, SvStopAndWipe, SvKilled
<1> QED  BY <1>1, <1>2, <1>3, <1>4, <1>5 DEF SvNext

\* Under whatever names it publishes and clears, the package knows what it will have to remove.
THEOREM NothingServedUnknown == SvSpec => ServedStaysKnown
<1>1. [SvNext]_svVars => [svUp' => svWeb' \ svTracked' \subseteq svWeb \ svTracked]_svVars
  BY NothingUnknownAdded
<1> QED  BY <1>1, PTL DEF SvSpec, ServedStaysKnown

-----------------------------------------------------------------------------
(* TcpListener and HttpBinding:                                            *)
(* Descriptors on their way from a Go listener to the stream of the        *)
(* application, for TCP connections and HTTP requests: none is closed      *)
(* twice and none is lost, for any number of peers and any bounds of the   *)
(* queues.                                                                 *)
(*                                                                         *)
(* Neither property is inductive.  What carries them is ownership: a       *)
(* descriptor is at one place of its path at most, occurs there once, and  *)
(* is open for as long as it is there.  So whoever takes it and closes it  *)
(* is the only one who can.                                                *)

(* Queues in which nothing occurs twice. *)

\* s holds everything at most once.
Distinct(s) == \A i, j \in 1..Len(s) : s[i] = s[j] => i = j

\* What the two modules call the members of a queue.
LEMMA SameMembers == ASSUME NEW s PROVE TcpMembers(s) = Members(s)
BY DEF TcpMembers, Members

\* Nothing is in the empty queue.
LEMMA EmptyQueue == Members(<<>>) = {} /\ Distinct(<<>>)
BY DEF Members, Distinct

\* The members of a queue are of its type.
LEMMA MembersTyped ==
    ASSUME NEW S, NEW s \in Seq(S)
    PROVE  Members(s) \subseteq S
BY DEF Members

\* The head leaves a queue, and leaves it for good.
LEMMA QueueTail ==
    ASSUME NEW S, NEW s \in Seq(S), s # <<>>, Distinct(s)
    PROVE  /\ Tail(s) \in Seq(S) /\ Distinct(Tail(s)) /\ Len(Tail(s)) <= Len(s)
           /\ Head(s) \in Members(s) /\ Members(Tail(s)) = Members(s) \ {Head(s)}
<1> DEFINE t == Tail(s)
<1>1. /\ Len(s) \in Nat /\ Len(s) >= 1 /\ t \in Seq(S) /\ Len(t) = Len(s) - 1
      /\ Head(s) = s[1] /\ \A i \in 1..Len(t) : t[i] = s[i + 1]
  BY EmptySeq
<1> HIDE DEF t
<1>2. Distinct(t)
  BY <1>1 DEF Distinct
<1>3. Head(s) \in Members(s)
  BY <1>1 DEF Members
<1>4. ASSUME NEW x \in Members(t) PROVE x \in Members(s) \ {Head(s)}
  <2>1. PICK i \in 1..Len(t) : x = t[i]
    BY DEF Members
  <2>2. i + 1 \in 1..Len(s) /\ x = s[i + 1] /\ 1 \in 1..Len(s) /\ i + 1 # 1
    BY <1>1, <2>1
  <2> QED  BY <1>1, <2>2 DEF Members, Distinct
<1>5. ASSUME NEW x \in Members(s) \ {Head(s)} PROVE x \in Members(t)
  <2>1. PICK i \in 1..Len(s) : x = s[i]
    BY DEF Members
  <2>2. i # 1
    BY <1>1, <2>1
  <2>3. i - 1 \in 1..Len(t) /\ x = t[i - 1]
    BY <1>1, <2>1, <2>2
  <2> QED  BY <2>3 DEF Members
<1> QED  BY <1>1, <1>2, <1>3, <1>4, <1>5 DEF t

\* What is not in a queue may join it.
LEMMA QueueAppend ==
    ASSUME NEW S, NEW s \in Seq(S), NEW x \in S, Distinct(s), x \notin Members(s)
    PROVE  /\ Append(s, x) \in Seq(S) /\ Len(Append(s, x)) = Len(s) + 1
           /\ Distinct(Append(s, x)) /\ Members(Append(s, x)) = Members(s) \cup {x}
           /\ s \o <<x>> = Append(s, x)
<1> DEFINE t == Append(s, x)
<1>1. /\ Len(s) \in Nat /\ t \in Seq(S) /\ Len(t) = Len(s) + 1 /\ t[Len(s) + 1] = x
      /\ \A i \in 1..Len(s) : t[i] = s[i]
  OBVIOUS
<1>2. s \o <<x>> = t
  BY AppendIsConcat
<1> HIDE DEF t
<1>3. \A i \in 1..Len(t) : i \in 1..Len(s) \/ i = Len(s) + 1
  BY <1>1
<1>4. \A i \in 1..Len(s) : s[i] # x
  BY DEF Members
<1>5. Distinct(t)
  BY <1>1, <1>3, <1>4 DEF Distinct
<1>6. Members(t) = Members(s) \cup {x}
  <2>1. \A y \in Members(t) : y \in Members(s) \cup {x}
    BY <1>1, <1>3 DEF Members
  <2>2. Members(s) \subseteq Members(t)
    BY <1>1 DEF Members
  <2>3. x \in Members(t)
    <3>1. Len(s) + 1 \in 1..Len(t)
      BY <1>1
    <3> QED  BY <1>1, <3>1 DEF Members
  <2> QED  BY <2>1, <2>2, <2>3
<1> QED  BY <1>1, <1>2, <1>5, <1>6 DEF t

\* A hand that holds one thing.
LEMMA OneInHand ==
    ASSUME NEW S, NEW x \in S
    PROVE  <<x>> \in Seq(S) /\ Distinct(<<x>>) /\ Members(<<x>>) = {x}
BY DEF Members, Distinct

-----------------------------------------------------------------------------
(* TcpListener *)

\* The accept isolate has a connection in its hand exactly between two calls, and starts once.
TcpHand ==
    /\ tcpAccept = "holding" => \E c \in TcpConnection : tcpHeld = <<c>>
    /\ tcpAccept # "holding" => tcpHeld = <<>>
    /\ tcpSub = "none" => tcpAccept = "none"
    /\ tcpErrors = MaxAcceptErrors => tcpAccept = "ended"

\* A connection occurs once in one queue at most.
TcpOnePlace ==
    /\ Distinct(tcpHeld) /\ Distinct(tcpInbox) /\ Distinct(tcpPending)
    /\ TcpMembers(tcpHeld) \cap TcpMembers(tcpInbox) = {}
    /\ (TcpMembers(tcpHeld) \cup TcpMembers(tcpInbox)) \cap TcpMembers(tcpPending) = {}
    /\ (TcpMembers(tcpHeld) \cup TcpMembers(tcpInbox) \cup TcpMembers(tcpPending))
         \cap (tcpAdopting \cup tcpGiven) = {}
    /\ tcpAdopting \cap tcpGiven = {}

TcpOnPath ==
    TcpMembers(tcpHeld) \cup TcpMembers(tcpInbox) \cup TcpMembers(tcpPending)
      \cup tcpAdopting \cup tcpGiven

\* What has not arrived or is on its path was never closed.
TcpOpen ==
    \A c \in TcpConnection :
        /\ c \in TcpOnPath => c <= tcpArrived
        /\ c \in TcpOnPath \/ c > tcpArrived => tcpCloses[c] = 0

TcpInv == TcpTypeOK /\ TcpHand /\ TcpOnePlace /\ TcpOpen /\ TcpFdsClosedOnce /\ TcpNothingLost

\* Nobody has connected at first.
LEMMA TcpStarts == TcpInit => TcpInv
<1> SUFFICES ASSUME TcpInit PROVE TcpInv
  OBVIOUS
<1> USE TcpAssumption DEF TcpInit
<1>1. TcpMembers(<<>>) = {} /\ Distinct(<<>>)
  BY EmptyQueue, SameMembers
<1>2. TcpTypeOK
  <2>1. <<>> \in Seq(TcpConnection) /\ Len(<<>>) = 0 /\ 0 \in 0..TcpConnections /\ 0 \in 0..MaxAcceptErrors
    OBVIOUS
  <2>2. tcpCloses \in [TcpConnection -> Nat]
    OBVIOUS
  <2>3. tcpHeld \in Seq(TcpConnection) /\ tcpInbox \in Seq(TcpConnection)
    BY <2>1
  <2>4. tcpPending \in Seq(TcpConnection) /\ Len(tcpPending) <= MaxPendingTcp
    BY <2>1
  <2>5. tcpAdopting \subseteq TcpConnection /\ tcpGiven \subseteq TcpConnection
    OBVIOUS
  <2>6. tcpArrived \in 0..TcpConnections /\ tcpErrors \in 0..MaxAcceptErrors
    BY <2>1
  <2>7. /\ tcpBind \in {"idle", "listening", "bound"} /\ tcpStop \in {"no", "registry", "server", "done"}
        /\ tcpDisposed \in BOOLEAN /\ tcpListening \in BOOLEAN /\ tcpRegistered \in BOOLEAN
    OBVIOUS
  <2> QED  BY <2>2, <2>3, <2>4, <2>5, <2>6, <2>7 DEF TcpTypeOK
<1>3. TcpHand
  BY DEF TcpHand
<1>4. TcpOnePlace
  BY <1>1 DEF TcpOnePlace
<1>5. TcpOpen
  BY <1>1 DEF TcpOpen, TcpOnPath
<1>6. TcpFdsClosedOnce
  BY DEF TcpFdsClosedOnce
<1>7. TcpNothingLost
  BY DEF TcpNothingLost, TcpLost, TcpConnection
<1> QED  BY <1>2, <1>3, <1>4, <1>5, <1>6, <1>7 DEF TcpInv

\* The queues of a typed state.
LEMMA TcpQueues ==
    ASSUME TcpTypeOK
    PROVE  /\ TcpMembers(tcpHeld) \subseteq TcpConnection
           /\ TcpMembers(tcpInbox) \subseteq TcpConnection
           /\ TcpMembers(tcpPending) \subseteq TcpConnection
           /\ tcpArrived \in Nat /\ TcpConnection \subseteq Nat
BY MembersTyped, SameMembers, TcpAssumption DEF TcpTypeOK, TcpConnection

\* A step that leaves the connections where they are.
LEMMA TcpStaysPut ==
    ASSUME TcpInv, TcpTypeOK', TcpHand',
           UNCHANGED <<tcpArrived, tcpHeld, tcpInbox, tcpPending, tcpAdopting, tcpGiven, tcpCloses>>,
           tcpServer' # "closed" => tcpServer # "closed"
    PROVE  TcpInv'
<1> USE DEF TcpInv
<1>1. TcpOnePlace'
  BY DEF TcpOnePlace
<1>2. TcpOpen'
  BY DEF TcpOpen, TcpOnPath
<1>3. TcpFdsClosedOnce' /\ TcpNothingLost'
  BY DEF TcpFdsClosedOnce, TcpNothingLost, TcpLost
<1> QED  BY <1>1, <1>2, <1>3

\* A step that closes the connections cs, which leave the path by it, and moves others along it.
LEMMA TcpPasses ==
    ASSUME TcpInv, TcpTypeOK', TcpHand', TcpOnePlace', UNCHANGED tcpArrived,
           NEW cs \in SUBSET TcpOnPath, TcpClose(cs), TcpOnPath' \subseteq TcpOnPath \ cs,
           tcpServer' # "closed" => tcpServer # "closed" /\ TcpOnPath' = TcpOnPath \ cs
    PROVE  TcpInv'
<1> USE TcpQueues DEF TcpInv
<1>1. \A c \in TcpConnection :
         /\ tcpCloses[c] \in Nat
         /\ tcpCloses'[c] = IF c \in cs THEN tcpCloses[c] + 1 ELSE tcpCloses[c]
  BY DEF TcpClose, TcpTypeOK
<1>2. \A c \in TcpConnection : c \in cs => tcpCloses[c] = 0
  BY DEF TcpOpen
<1>3. TcpOpen'
  <2>1. \A c \in TcpConnection : c \in TcpOnPath' => c \in TcpOnPath /\ c \notin cs
    OBVIOUS
  <2>2. \A c \in TcpConnection : c > tcpArrived => c \notin cs
    BY DEF TcpOpen
  <2>3. \A c \in TcpConnection : c \in TcpOnPath' => c <= tcpArrived
    BY <2>1 DEF TcpOpen
  <2>4. \A c \in TcpConnection : c \in TcpOnPath' \/ c > tcpArrived => tcpCloses'[c] = 0
    BY <1>1, <2>1, <2>2 DEF TcpOpen
  <2> QED  BY <2>3, <2>4 DEF TcpOpen
<1>4. TcpFdsClosedOnce'
  BY <1>1, <1>2 DEF TcpFdsClosedOnce
<1>5. TcpNothingLost'
  <2> SUFFICES ASSUME NEW c \in TcpConnection, TcpLost(c)', tcpServer' # "closed" PROVE FALSE
    BY DEF TcpNothingLost
  <2>1. c <= tcpArrived /\ tcpCloses'[c] = 0 /\ c \notin TcpOnPath'
    BY DEF TcpLost, TcpOnPath
  <2>2. c \notin cs /\ tcpCloses[c] = 0
    BY <1>1, <2>1
  <2>3. TcpLost(c)
    BY <2>1, <2>2 DEF TcpLost, TcpOnPath
  <2> QED  BY <2>3 DEF TcpNothingLost
<1> QED  BY <1>3, <1>4, <1>5

\* Closing nothing.
LEMMA TcpCloseNone == TcpTypeOK /\ UNCHANGED tcpCloses => TcpClose({})
BY DEF TcpTypeOK, TcpClose

\* What a step closes stays counted.
LEMMA TcpCloseTyped ==
    ASSUME TcpTypeOK, NEW cs, TcpClose(cs)
    PROVE  tcpCloses' \in [TcpConnection -> Nat]
BY DEF TcpTypeOK, TcpClose

\* The worker isolate and stopLocked touch no connection.
LEMMA TcpGoKeeps ==
    ASSUME TcpInv,
           TcpListen \/ TcpRegister \/ TcpListenReturns \/ TcpStopBegins \/ TcpStopTakes \/ TcpStopServer
    PROVE  TcpInv'
<1> USE DEF tcpGoVars, tcpAcceptVars, tcpDartVars, TcpTake
<1>1. /\ UNCHANGED <<tcpArrived, tcpHeld, tcpInbox, tcpPending, tcpAdopting, tcpGiven, tcpCloses>>
      /\ UNCHANGED <<tcpAccept, tcpErrors, tcpSub>>
      /\ tcpServer' \in {tcpServer, "open"}
      /\ tcpServer' # tcpServer => tcpServer = "absent"
  BY DEF TcpListen, TcpRegister, TcpListenReturns, TcpStopBegins, TcpStopTakes, TcpStopServer
<1>2. /\ tcpBind' \in {"idle", "listening", "bound"}
      /\ tcpStop' \in {"no", "registry", "server", "done"}
      /\ tcpDisposed' \in BOOLEAN /\ tcpListening' \in BOOLEAN /\ tcpRegistered' \in BOOLEAN
  BY DEF TcpInv, TcpTypeOK, TcpListen, TcpRegister, TcpListenReturns, TcpStopBegins, TcpStopTakes,
         TcpStopServer
<1>3. TcpTypeOK'
  BY <1>1, <1>2 DEF TcpInv, TcpTypeOK
<1>4. TcpHand'
  BY <1>1 DEF TcpInv, TcpHand
<1> QED  BY <1>1, <1>3, <1>4, TcpStaysPut

\* Nor do the calls of the accept isolate that return no connection.
LEMMA TcpCallKeeps ==
    ASSUME TcpInv, TcpLookup \/ TcpAcceptFails \/ TcpAcceptEnds
    PROVE  TcpInv'
<1> USE TcpAssumption DEF tcpGoVars, tcpDartVars
<1>1. /\ UNCHANGED <<tcpBind, tcpStop, tcpDisposed, tcpListening>>
      /\ UNCHANGED <<tcpArrived, tcpHeld, tcpInbox, tcpServer, tcpSub, tcpPending, tcpAdopting>>
      /\ UNCHANGED <<tcpGiven, tcpCloses>>
      /\ tcpAccept \in {"calling", "accepting"} /\ tcpAccept' \in {"calling", "accepting", "ended"}
  BY DEF TcpLookup, TcpAcceptFails, TcpAcceptEnds
<1>2. tcpRegistered' \in BOOLEAN
  BY DEF TcpInv, TcpTypeOK, TcpLookup, TcpAcceptFails, TcpAcceptEnds
<1>3. tcpErrors \in Nat /\ tcpErrors < MaxAcceptErrors
  BY <1>1 DEF TcpInv, TcpHand, TcpTypeOK
<1>4. /\ tcpErrors' \in 0..MaxAcceptErrors
      /\ tcpErrors' = MaxAcceptErrors => tcpAccept' = "ended"
  BY <1>3 DEF TcpLookup, TcpAcceptFails, TcpAcceptEnds
<1>5. TcpTypeOK'
  BY <1>1, <1>2, <1>4 DEF TcpInv, TcpTypeOK
<1>6. TcpHand'
  BY <1>1, <1>4 DEF TcpInv, TcpHand
<1> QED  BY <1>1, <1>5, <1>6, TcpStaysPut

\* Nor do the steps of the application and the start of a close.
LEMMA TcpAppKeeps ==
    ASSUME TcpInv, TcpListened \/ TcpPause \/ TcpCloseCalled
    PROVE  TcpInv'
<1> USE TcpAssumption DEF tcpGoVars, tcpAcceptVars
<1>1. /\ UNCHANGED <<tcpBind, tcpStop, tcpDisposed, tcpListening, tcpRegistered>>
      /\ UNCHANGED <<tcpArrived, tcpErrors, tcpHeld, tcpInbox, tcpPending, tcpAdopting>>
      /\ UNCHANGED <<tcpGiven, tcpCloses>>
      /\ tcpServer = "open" /\ tcpServer' \in {"open", "closing"}
      /\ tcpSub' \in {tcpSub, "active", "paused"} /\ (tcpSub' = "none" => tcpSub = "none")
      /\ tcpAccept' = tcpAccept \/ (tcpSub = "none" /\ tcpAccept' = "calling" /\ tcpSub' = "active")
  BY DEF TcpListened, TcpPause, TcpCloseCalled
<1>2. TcpTypeOK'
  BY <1>1 DEF TcpInv, TcpTypeOK
<1>3. TcpHand'
  BY <1>1 DEF TcpInv, TcpHand
<1> QED  BY <1>1, <1>2, <1>3, TcpStaysPut

\* A peer that connects is the first of its number.
LEMMA TcpAcceptsKeeps == TcpInv /\ TcpAccepts => TcpInv'
<1> SUFFICES ASSUME TcpInv, TcpAccepts PROVE TcpInv'
  OBVIOUS
<1> DEFINE c == tcpArrived + 1
<1> USE TcpQueues DEF tcpGoVars, tcpDartVars, TcpInv
<1>1. /\ c \in TcpConnection /\ c > tcpArrived /\ tcpArrived' = c /\ c \in 0..TcpConnections
      /\ tcpHeld' = <<c>>
  BY TcpAssumption DEF TcpAccepts, TcpTypeOK, TcpConnection
<1> HIDE DEF c
<1>2. /\ tcpHeld' \in Seq(TcpConnection) /\ Distinct(tcpHeld') /\ TcpMembers(tcpHeld') = {c}
      /\ TcpMembers(tcpHeld) = {}
  BY <1>1, OneInHand, EmptyQueue, SameMembers DEF TcpAccepts, TcpHand
<1>3. /\ UNCHANGED <<tcpInbox, tcpPending, tcpAdopting, tcpGiven, tcpCloses, tcpServer, tcpSub>>
      /\ tcpAccept' = "holding" /\ tcpErrors' = 0 /\ tcpAccept = "accepting"
  BY DEF TcpAccepts
<1>4. TcpTypeOK'
  BY <1>1, <1>2, <1>3, TcpAssumption DEF TcpAccepts, TcpTypeOK
<1>5. TcpHand'
  BY <1>1, <1>3, TcpAssumption DEF TcpHand
<1>6. c \notin TcpOnPath
  BY <1>1 DEF TcpOpen
<1>7. TcpOnePlace'
  BY <1>2, <1>3, <1>6 DEF TcpOnePlace, TcpOnPath
<1>8. TcpOnPath' = TcpOnPath \cup {c}
  BY <1>2, <1>3 DEF TcpOnPath
<1>9. TcpOpen'
  BY <1>1, <1>3, <1>8 DEF TcpOpen
<1>10. TcpFdsClosedOnce'
  BY <1>3 DEF TcpFdsClosedOnce
<1>11. TcpNothingLost'
  <2> SUFFICES ASSUME NEW d \in TcpConnection, TcpLost(d)' PROVE tcpServer' = "closed"
    BY DEF TcpNothingLost
  <2>1. d <= c /\ d \notin TcpOnPath' /\ tcpCloses[d] = 0
    BY <1>1, <1>3 DEF TcpLost, TcpOnPath
  <2>2. d # c /\ d \in Nat /\ d <= tcpArrived
    <3>1. d # c /\ d \in Nat /\ tcpArrived \in Nat
      BY <1>8, <2>1
    <3> QED  BY <2>1, <3>1 DEF c
  <2>3. TcpLost(d)
    BY <1>8, <2>1, <2>2 DEF TcpLost, TcpOnPath
  <2> QED  BY <1>3, <2>3 DEF TcpNothingLost
<1> QED  BY <1>4, <1>5, <1>7, <1>9, <1>10, <1>11

\* A connection in the hand of the accept isolate is sent, or dropped by a closed port.
LEMMA TcpSendKeeps == TcpInv /\ TcpSend => TcpInv'
<1> SUFFICES ASSUME TcpInv, TcpSend PROVE TcpInv'
  OBVIOUS
<1> USE TcpQueues DEF tcpGoVars, tcpDartVars, TcpInv
<1>1. PICK c \in TcpConnection : tcpHeld = <<c>>
  BY DEF TcpSend, TcpHand
<1>2. /\ UNCHANGED <<tcpPending, tcpAdopting, tcpGiven, tcpCloses, tcpServer, tcpSub, tcpArrived>>
      /\ UNCHANGED <<tcpErrors, tcpBind, tcpStop, tcpDisposed, tcpListening, tcpRegistered>>
      /\ tcpAccept' = "calling" /\ tcpAccept = "holding" /\ tcpHeld' = <<>>
      /\ tcpInbox' = IF tcpServer = "closed" THEN tcpInbox ELSE tcpInbox \o <<c>>
  BY <1>1 DEF TcpSend
<1>3. TcpMembers(tcpHeld) = {c} /\ TcpMembers(tcpHeld') = {} /\ Distinct(tcpHeld')
  BY <1>1, <1>2, OneInHand, EmptyQueue, SameMembers
<1>4. /\ tcpInbox \in Seq(TcpConnection) /\ Distinct(tcpInbox) /\ c \notin Members(tcpInbox)
      /\ \A s : Members(s) = TcpMembers(s)
  BY <1>3, SameMembers DEF TcpTypeOK, TcpOnePlace
<1>5. /\ tcpInbox' \in Seq(TcpConnection) /\ Distinct(tcpInbox')
      /\ TcpMembers(tcpInbox') = IF tcpServer = "closed" THEN TcpMembers(tcpInbox)
                                                        ELSE TcpMembers(tcpInbox) \cup {c}
  <2>1. /\ Append(tcpInbox, c) \in Seq(TcpConnection) /\ Distinct(Append(tcpInbox, c))
        /\ Members(Append(tcpInbox, c)) = Members(tcpInbox) \cup {c}
        /\ tcpInbox \o <<c>> = Append(tcpInbox, c)
    BY <1>4, QueueAppend
  <2>2. CASE tcpServer = "closed"
    BY <1>2, <1>4, <2>2
  <2>3. CASE tcpServer # "closed"
    <3>1. tcpInbox' = Append(tcpInbox, c)
      BY <1>2, <2>1, <2>3
    <3> QED  BY <1>4, <2>1, <2>3, <3>1
  <2> QED  BY <2>2, <2>3
<1>6. TcpTypeOK'
  BY <1>2, <1>5 DEF TcpTypeOK
<1>7. TcpHand'
  BY <1>2 DEF TcpHand
<1>8. TcpOnePlace'
  BY <1>2, <1>3, <1>5 DEF TcpOnePlace
<1>9. /\ TcpOnPath' \subseteq TcpOnPath
      /\ tcpServer' # "closed" => TcpOnPath' = TcpOnPath
  BY <1>2, <1>3, <1>5 DEF TcpOnPath
<1>10. TcpClose({}) /\ {} \in SUBSET TcpOnPath /\ UNCHANGED <<tcpArrived, tcpServer>>
  BY <1>2, TcpCloseNone
<1> QED  BY <1>6, <1>7, <1>8, <1>9, <1>10, TcpPasses

\* The isolate is killed with a connection in its hand: the listener is closed.
LEMMA TcpKilledKeeps == TcpInv /\ TcpKilled => TcpInv'
<1> SUFFICES ASSUME TcpInv, TcpKilled PROVE TcpInv'
  OBVIOUS
<1> USE DEF tcpGoVars, tcpDartVars, TcpInv
<1>1. /\ UNCHANGED <<tcpPending, tcpAdopting, tcpGiven, tcpCloses, tcpServer, tcpSub, tcpArrived>>
      /\ UNCHANGED <<tcpErrors, tcpBind, tcpStop, tcpDisposed, tcpListening, tcpRegistered, tcpInbox>>
      /\ tcpAccept' = "ended" /\ tcpHeld' = <<>> /\ tcpServer = "closed"
      /\ tcpAccept \in {"calling", "holding"}
  BY DEF TcpKilled
<1>2. TcpMembers(tcpHeld') = {} /\ Distinct(tcpHeld') /\ tcpHeld' \in Seq(TcpConnection)
  BY <1>1, EmptyQueue, SameMembers
<1>3. TcpTypeOK'
  BY <1>1, <1>2 DEF TcpTypeOK
<1>4. TcpHand'
  BY <1>1 DEF TcpHand
<1>5. TcpOnePlace'
  BY <1>1, <1>2 DEF TcpOnePlace
<1>6. TcpOnPath' \subseteq TcpOnPath
  BY <1>1, <1>2 DEF TcpOnPath
<1>7. TcpClose({}) /\ {} \in SUBSET TcpOnPath
  BY <1>1, TcpCloseNone
<1> QED  BY <1>1, <1>3, <1>4, <1>5, <1>6, <1>7, TcpPasses

\* The pending connections start to be adopted.
LEMMA TcpResumeKeeps == TcpInv /\ TcpResume => TcpInv'
<1> SUFFICES ASSUME TcpInv, TcpResume PROVE TcpInv'
  OBVIOUS
<1> USE DEF tcpGoVars, tcpAcceptVars, TcpInv
<1>1. /\ UNCHANGED <<tcpHeld, tcpInbox, tcpGiven, tcpCloses, tcpServer, tcpArrived, tcpAccept>>
      /\ UNCHANGED <<tcpErrors, tcpBind, tcpStop, tcpDisposed, tcpListening, tcpRegistered>>
      /\ tcpSub = "paused" /\ tcpSub' = "active" /\ tcpPending' = <<>>
      /\ tcpAdopting' = tcpAdopting \cup TcpMembers(tcpPending)
  BY DEF TcpResume
<1>2. /\ TcpMembers(tcpPending') = {} /\ Distinct(tcpPending')
      /\ tcpPending' \in Seq(TcpConnection) /\ Len(tcpPending') = 0
  BY <1>1, EmptyQueue, SameMembers
<1>3. TcpTypeOK'
  BY <1>1, <1>2, TcpQueues, TcpAssumption DEF TcpTypeOK
<1>4. TcpHand'
  BY <1>1 DEF TcpHand
<1>5. TcpOnePlace'
  BY <1>1, <1>2 DEF TcpOnePlace
<1>6. TcpOnPath' = TcpOnPath
  BY <1>1, <1>2 DEF TcpOnPath
<1>7. TcpClose({}) /\ {} \in SUBSET TcpOnPath
  BY <1>1, TcpCloseNone
<1> QED  BY <1>1, <1>3, <1>4, <1>5, <1>6, <1>7, TcpPasses

\* An adoption ends: the connection is given to the application or closed.
LEMMA TcpAdoptionKeeps ==
    ASSUME TcpInv, NEW c \in TcpConnection, TcpAdopted(c) \/ TcpNotAdopted(c)
    PROVE  TcpInv'
<1> USE DEF tcpGoVars, tcpAcceptVars, TcpInv
<1>1. /\ UNCHANGED <<tcpHeld, tcpInbox, tcpPending, tcpServer, tcpArrived, tcpAccept, tcpSub>>
      /\ UNCHANGED <<tcpErrors, tcpBind, tcpStop, tcpDisposed, tcpListening, tcpRegistered>>
      /\ c \in tcpAdopting /\ tcpAdopting' = tcpAdopting \ {c}
  BY DEF TcpAdopted, TcpNotAdopted
<1>2. PICK cs \in SUBSET {c} : TcpClose(cs) /\ tcpGiven' = tcpGiven \cup ({c} \ cs)
  <2>1. CASE TcpClose({c}) /\ UNCHANGED tcpGiven
    <3>1. tcpGiven' = tcpGiven \cup ({c} \ {c})
      BY <2>1
    <3> QED  BY <2>1, <3>1
  <2>2. CASE UNCHANGED tcpCloses /\ tcpGiven' = tcpGiven \cup {c}
    <3>1. TcpClose({}) /\ tcpGiven' = tcpGiven \cup ({c} \ {})
      BY <2>2, TcpCloseNone
    <3> QED  BY <3>1
  <2> QED  BY <2>1, <2>2 DEF TcpAdopted, TcpNotAdopted
<1>3. TcpTypeOK'
  BY <1>1, <1>2, TcpCloseTyped DEF TcpTypeOK
<1>4. TcpHand'
  BY <1>1 DEF TcpHand
<1>5. TcpOnePlace'
  BY <1>1, <1>2 DEF TcpOnePlace
<1>6. TcpOnPath' = TcpOnPath \ cs /\ cs \in SUBSET TcpOnPath
  BY <1>1, <1>2 DEF TcpOnPath, TcpOnePlace
<1> QED  BY <1>1, <1>2, <1>3, <1>4, <1>5, <1>6, TcpPasses

\* A connection reaches the main isolate: it waits, is adopted, or is closed.
LEMMA TcpAcceptedKeeps == TcpInv /\ TcpAccepted => TcpInv'
<1> SUFFICES ASSUME TcpInv, TcpAccepted PROVE TcpInv'
  OBVIOUS
<1> DEFINE c == Head(tcpInbox)
<1> USE DEF tcpGoVars, tcpAcceptVars, TcpInv
<1>1. /\ UNCHANGED <<tcpHeld, tcpGiven, tcpServer, tcpArrived, tcpAccept, tcpSub>>
      /\ UNCHANGED <<tcpErrors, tcpBind, tcpStop, tcpDisposed, tcpListening, tcpRegistered>>
      /\ tcpInbox # <<>> /\ tcpInbox' = Tail(tcpInbox)
  BY DEF TcpAccepted
<1>2. /\ tcpInbox' \in Seq(TcpConnection) /\ Distinct(tcpInbox') /\ c \in TcpMembers(tcpInbox)
      /\ TcpMembers(tcpInbox') = TcpMembers(tcpInbox) \ {c}
  BY <1>1, QueueTail, SameMembers DEF TcpTypeOK, TcpOnePlace
<1>3. /\ c \in TcpConnection /\ c \notin TcpMembers(tcpPending) /\ c \notin TcpMembers(tcpHeld)
      /\ c \notin tcpAdopting /\ c \notin tcpGiven
  BY <1>2, TcpQueues DEF TcpOnePlace
<1> HIDE DEF c
<1>4. TcpHand'
  BY <1>1 DEF TcpHand
<1>5. CASE TcpClose({c}) /\ UNCHANGED <<tcpPending, tcpAdopting>>
  <2>1. TcpTypeOK'
    BY <1>1, <1>2, <1>5, TcpCloseTyped DEF TcpTypeOK
  <2>2. TcpOnePlace'
    BY <1>1, <1>2, <1>5 DEF TcpOnePlace
  <2>3. TcpOnPath' = TcpOnPath \ {c} /\ {c} \in SUBSET TcpOnPath
    BY <1>1, <1>2, <1>3, <1>5 DEF TcpOnPath
  <2> QED  BY <1>1, <1>4, <1>5, <2>1, <2>2, <2>3, TcpPasses
<1>6. CASE /\ tcpPending' = Append(tcpPending, c) /\ Len(tcpPending) < MaxPendingTcp
           /\ UNCHANGED <<tcpAdopting, tcpCloses>>
  <2>1. /\ tcpPending' \in Seq(TcpConnection) /\ Distinct(tcpPending')
        /\ TcpMembers(tcpPending') = TcpMembers(tcpPending) \cup {c}
        /\ Len(tcpPending') = Len(tcpPending) + 1
    BY <1>3, <1>6, QueueAppend, SameMembers DEF TcpTypeOK, TcpOnePlace
  <2>2. Len(tcpPending') <= MaxPendingTcp
    <3>1. Len(tcpPending) \in Nat
      BY DEF TcpTypeOK
    <3> QED  BY <1>6, <2>1, <3>1, TcpAssumption
  <2>3. TcpTypeOK'
    BY <1>1, <1>2, <1>6, <2>1, <2>2 DEF TcpTypeOK
  <2>4. TcpOnePlace'
    BY <1>1, <1>2, <1>3, <1>6, <2>1 DEF TcpOnePlace
  <2>5. TcpOnPath' = TcpOnPath
    BY <1>1, <1>2, <1>6, <2>1 DEF TcpOnPath
  <2>6. TcpClose({}) /\ {} \in SUBSET TcpOnPath
    BY <1>6, TcpCloseNone
  <2> QED  BY <1>1, <1>4, <2>3, <2>4, <2>5, <2>6, TcpPasses
<1>7. CASE tcpAdopting' = tcpAdopting \cup {c} /\ UNCHANGED <<tcpPending, tcpCloses>>
  <2>1. TcpTypeOK'
    BY <1>1, <1>2, <1>3, <1>7 DEF TcpTypeOK
  <2>2. TcpOnePlace'
    BY <1>1, <1>2, <1>3, <1>7 DEF TcpOnePlace
  <2>3. TcpOnPath' = TcpOnPath
    BY <1>1, <1>2, <1>7 DEF TcpOnPath
  <2>4. TcpClose({}) /\ {} \in SUBSET TcpOnPath
    BY <1>7, TcpCloseNone
  <2> QED  BY <1>1, <1>4, <2>1, <2>2, <2>3, <2>4, TcpPasses
<1>8. Len(tcpPending) \in Nat
  BY DEF TcpTypeOK
<1>9. Len(tcpPending) < MaxPendingTcp \/ Len(tcpPending) >= MaxPendingTcp
  BY <1>8, TcpAssumption
<1> QED  BY <1>5, <1>6, <1>7, <1>9 DEF TcpAccepted, TcpReject, c

\* The close ends: what is under way is dropped, what is pending is closed.
LEMMA TcpFinishKeeps == TcpInv /\ TcpCloseFinishes => TcpInv'
<1> SUFFICES ASSUME TcpInv, TcpCloseFinishes PROVE TcpInv'
  OBVIOUS
<1> USE DEF tcpGoVars, tcpAcceptVars, TcpInv
<1>1. /\ UNCHANGED <<tcpHeld, tcpGiven, tcpArrived, tcpAccept, tcpSub, tcpAdopting, tcpErrors>>
      /\ UNCHANGED <<tcpBind, tcpStop, tcpDisposed>>
      /\ tcpServer' = "closed" /\ tcpInbox' = <<>> /\ tcpPending' = <<>>
      /\ TcpClose(TcpMembers(tcpPending))
  BY DEF TcpCloseFinishes, TcpWaiting
<1>2. tcpListening' \in BOOLEAN /\ tcpRegistered' \in BOOLEAN
  BY DEF TcpCloseFinishes, TcpTake, TcpTypeOK
<1>3. /\ TcpMembers(<<>>) = {} /\ Distinct(<<>>) /\ <<>> \in Seq(TcpConnection) /\ Len(<<>>) = 0
  BY EmptyQueue, SameMembers
<1>4. TcpTypeOK'
  BY <1>1, <1>2, <1>3, TcpCloseTyped, TcpAssumption DEF TcpTypeOK
<1>5. TcpHand'
  BY <1>1 DEF TcpHand
<1>6. TcpOnePlace'
  BY <1>1, <1>3 DEF TcpOnePlace
<1>7. /\ TcpMembers(tcpPending) \in SUBSET TcpOnPath
      /\ TcpOnPath' \subseteq TcpOnPath \ TcpMembers(tcpPending)
  BY <1>1, <1>3 DEF TcpOnPath, TcpOnePlace
<1> QED  BY <1>1, <1>4, <1>5, <1>6, <1>7, TcpPasses

\* Every step keeps the invariant.
LEMMA TcpKept == TcpInv /\ [TcpNext]_tcpVars => TcpInv'
<1> SUFFICES ASSUME TcpInv, [TcpNext]_tcpVars PROVE TcpInv'
  OBVIOUS
<1>1. CASE TcpListen \/ TcpWorkerStep \/ TcpStopBegins \/ TcpStopStep
  BY <1>1, TcpGoKeeps DEF TcpWorkerStep, TcpStopStep
<1>2. CASE TcpAcceptStep
  BY <1>2, TcpCallKeeps, TcpAcceptsKeeps, TcpSendKeeps DEF TcpAcceptStep
<1>3. CASE TcpKilled
  BY <1>3, TcpKilledKeeps
<1>4. CASE TcpListened \/ TcpPause \/ TcpCloseCalled
  BY <1>4, TcpAppKeeps
<1>5. CASE TcpResume
  BY <1>5, TcpResumeKeeps
<1>6. CASE TcpMainStep
  BY <1>6, TcpAppKeeps, TcpAcceptedKeeps, TcpFinishKeeps DEF TcpMainStep, TcpAcceptClosed
<1>7. ASSUME NEW c \in TcpConnection, TcpAdopted(c) \/ TcpNotAdopted(c) PROVE TcpInv'
  BY <1>7, TcpAdoptionKeeps
<1>8. CASE UNCHANGED tcpVars
  <2>1. TcpTypeOK' /\ TcpHand'
    BY <1>8 DEF tcpVars, tcpGoVars, tcpAcceptVars, tcpDartVars, TcpInv, TcpTypeOK, TcpHand
  <2> QED  BY <1>8, <2>1, TcpStaysPut DEF tcpVars, tcpAcceptVars, tcpDartVars
<1> QED  BY <1>1, <1>2, <1>3, <1>4, <1>5, <1>6, <1>7, <1>8 DEF TcpNext

\* The invariant holds throughout.
LEMMA TcpAlways == TcpSpec => []TcpInv
BY TcpStarts, TcpKept, PTL DEF TcpSpec

\* No descriptor of a connection is closed twice, for any number of peers, any queue and any
\* bound of errors: TcpListenFd to the stream of the application.
THEOREM TcpNoDoubleClose == TcpSpec => []TcpFdsClosedOnce
<1>1. TcpInv => TcpFdsClosedOnce
  BY DEF TcpInv
<1> QED  BY <1>1, TcpAlways, PTL

\* Until the listener is closed every accepted connection is closed or is somewhere.
THEOREM TcpNoneLost == TcpSpec => []TcpNothingLost
<1>1. TcpInv => TcpNothingLost
  BY DEF TcpInv
<1> QED  BY <1>1, TcpAlways, PTL

-----------------------------------------------------------------------------
(* HttpBinding *)

\* The accept isolate has a request in its hand exactly between two calls; it starts with the
\* subscription, which needs a server.
HttpHand ==
    /\ httpAccept = "holding" => \E r \in HttpRequest : httpHeld = <<r>>
    /\ httpAccept # "holding" => httpHeld = <<>>
    /\ httpSub = "none" => httpAccept = "none" /\ httpInbox = <<>>
    /\ httpServer = "absent" => httpSub = "none"

HttpUnderAdoption == {r \in HttpRequest : httpAdopting[r] # "no"}

\* A request occurs once in one queue at most.
HttpOnePlace ==
    /\ Distinct(httpChannel) /\ Distinct(httpHeld) /\ Distinct(httpInbox) /\ Distinct(httpPending)
    /\ Members(httpChannel) \cap Members(httpHeld) = {}
    /\ (Members(httpChannel) \cup Members(httpHeld)) \cap Members(httpInbox) = {}
    /\ (Members(httpChannel) \cup Members(httpHeld) \cup Members(httpInbox))
         \cap Members(httpPending) = {}
    /\ (Members(httpChannel) \cup Members(httpHeld) \cup Members(httpInbox) \cup Members(httpPending))
         \cap (HttpUnderAdoption \cup httpGiven) = {}
    /\ HttpUnderAdoption \cap httpGiven = {}

HttpOnPath ==
    Members(httpChannel) \cup Members(httpHeld) \cup Members(httpInbox) \cup Members(httpPending)
      \cup HttpUnderAdoption \cup httpGiven

\* What the handler has not let go of, or what is on its path, was never closed.
HttpOpen ==
    \A r \in HttpRequest :
        /\ r \in HttpOnPath => httpHandler[r] = "sent"
        /\ r \in HttpOnPath \/ httpHandler[r] \in {"idle", "ready"}
             => \A e \in HttpEnd : httpCloses[r][e] = 0

HttpInv ==
    /\ HttpTypeOK /\ HttpHand /\ HttpOnePlace /\ HttpOpen
    /\ HttpFdsClosedOnce /\ HttpNothingLostWhileOpen

\* The close of the server has begun.
HttpEnding == httpServer \in {"closing", "awaiting", "closed"}

\* Nobody has sent a request at first.
LEMMA HttpStarts == HttpInit => HttpInv
<1> SUFFICES ASSUME HttpInit PROVE HttpInv
  OBVIOUS
<1> USE HttpAssumption DEF HttpInit
<1>1. Members(<<>>) = {} /\ Distinct(<<>>)
  BY EmptyQueue
<1>2. HttpTypeOK
  <2>1. <<>> \in Seq(HttpRequest) /\ Len(<<>>) = 0
    OBVIOUS
  <2>2. /\ httpChannel \in Seq(HttpRequest) /\ Len(httpChannel) <= HttpBacklog
        /\ httpPending \in Seq(HttpRequest) /\ Len(httpPending) <= MaxPendingHttp
        /\ httpHeld \in Seq(HttpRequest) /\ httpInbox \in Seq(HttpRequest)
    BY <2>1
  <2>3. httpCloses \in [HttpRequest -> [HttpEnd -> Nat]]
    OBVIOUS
  <2>4. /\ httpHandler \in [HttpRequest -> {"idle", "ready", "sent", "over"}]
        /\ httpAdopting \in [HttpRequest -> {"no", "request", "response"}]
        /\ httpCloser \in [HttpCloserId ->
                           {"idle", "entered", "closing", "draining", "drained", "over"}]
    OBVIOUS
  <2>5. httpGiven \subseteq HttpRequest
    OBVIOUS
  <2> QED  BY <2>2, <2>3, <2>4, <2>5 DEF HttpTypeOK
<1>3. HttpHand
  BY DEF HttpHand
<1>5. HttpUnderAdoption = {}
  BY DEF HttpUnderAdoption
<1>6. HttpOnePlace
  BY <1>1, <1>5 DEF HttpOnePlace
<1>7. HttpOpen
  BY <1>1, <1>5 DEF HttpOpen, HttpOnPath
<1>8. HttpFdsClosedOnce
  BY DEF HttpFdsClosedOnce
<1>9. HttpNothingLostWhileOpen
  BY DEF HttpNothingLostWhileOpen, HttpLost
<1> QED  BY <1>2, <1>3, <1>6, <1>7, <1>8, <1>9 DEF HttpInv

\* The queues of a typed state.
LEMMA HttpQueues ==
    ASSUME HttpTypeOK
    PROVE  /\ Members(httpChannel) \subseteq HttpRequest /\ Members(httpHeld) \subseteq HttpRequest
           /\ Members(httpInbox) \subseteq HttpRequest /\ Members(httpPending) \subseteq HttpRequest
           /\ HttpOnPath \subseteq HttpRequest
<1>1. /\ Members(httpChannel) \subseteq HttpRequest /\ Members(httpHeld) \subseteq HttpRequest
      /\ Members(httpInbox) \subseteq HttpRequest /\ Members(httpPending) \subseteq HttpRequest
  BY MembersTyped DEF HttpTypeOK
<1> QED  BY <1>1 DEF HttpTypeOK, HttpOnPath, HttpUnderAdoption

\* What is lost has left the path with an open descriptor.
LEMMA HttpLostMeans ==
    ASSUME NEW r \in HttpRequest, HttpTypeOK
    PROVE  HttpLost(r) <=> /\ httpHandler[r] = "sent" /\ \E e \in HttpEnd : httpCloses[r][e] = 0
                           /\ r \notin HttpOnPath
BY DEF HttpLost, HttpOnPath, HttpUnderAdoption

\* A step that leaves the requests where they are.
LEMMA HttpStaysPut ==
    ASSUME HttpInv, HttpTypeOK', HttpHand',
           UNCHANGED <<httpHandler, httpChannel, httpHeld, httpInbox, httpPending, httpAdopting>>,
           UNCHANGED <<httpGiven, httpCloses>>, ~HttpEnding' => ~HttpEnding
    PROVE  HttpInv'
<1> USE DEF HttpInv
<1>1. HttpUnderAdoption' = HttpUnderAdoption
  BY DEF HttpUnderAdoption
<1>2. HttpOnePlace'
  BY <1>1 DEF HttpOnePlace
<1>3. HttpOpen'
  BY <1>1 DEF HttpOpen, HttpOnPath
<1>4. HttpFdsClosedOnce' /\ HttpNothingLostWhileOpen'
  BY DEF HttpFdsClosedOnce, HttpNothingLostWhileOpen, HttpLost, HttpEnding
<1> QED  BY <1>2, <1>3, <1>4

\* A step that closes the requests rs, which leave the path by it, and moves others along it.
LEMMA HttpPasses ==
    ASSUME HttpInv, HttpTypeOK', HttpHand', HttpOnePlace', UNCHANGED httpHandler,
           NEW rs \in SUBSET HttpOnPath, CloseBoth(rs), HttpOnPath' \subseteq HttpOnPath \ rs,
           ~HttpEnding' => ~HttpEnding /\ HttpOnPath' = HttpOnPath \ rs
    PROVE  HttpInv'
<1> USE DEF HttpInv
<1>1. \A r \in HttpRequest, e \in HttpEnd :
         /\ httpCloses[r][e] \in Nat
         /\ httpCloses'[r][e] = IF r \in rs THEN httpCloses[r][e] + 1 ELSE httpCloses[r][e]
  BY DEF CloseBoth, HttpTypeOK
<1>2. \A r \in HttpRequest : r \in rs => httpHandler[r] = "sent" /\ \A e \in HttpEnd : httpCloses[r][e] = 0
  BY DEF HttpOpen
<1>3. HttpOpen'
  <2>1. \A r \in HttpRequest : r \in HttpOnPath' => r \in HttpOnPath /\ r \notin rs
    OBVIOUS
  <2>2. \A r \in HttpRequest : httpHandler'[r] \in {"idle", "ready"} => r \notin rs
    BY <1>2
  <2> QED  BY <1>1, <2>1, <2>2 DEF HttpOpen
<1>4. HttpFdsClosedOnce'
  BY <1>1, <1>2 DEF HttpFdsClosedOnce
<1>5. HttpNothingLostWhileOpen'
  <2> SUFFICES ASSUME NEW r \in HttpRequest, HttpLost(r)', ~HttpEnding' PROVE FALSE
    BY DEF HttpNothingLostWhileOpen, HttpEnding
  <2>1. /\ httpHandler[r] = "sent" /\ \E e \in HttpEnd : httpCloses'[r][e] = 0
        /\ r \notin HttpOnPath'
    BY DEF HttpLost, HttpOnPath, HttpUnderAdoption
  <2>2. r \notin rs /\ \E e \in HttpEnd : httpCloses[r][e] = 0
    BY <1>1, <2>1
  <2>3. HttpLost(r)
    BY <2>1, <2>2, HttpLostMeans
  <2> QED  BY <2>3 DEF HttpNothingLostWhileOpen, HttpEnding
<1> QED  BY <1>3, <1>4, <1>5

\* Closing nothing.
LEMMA HttpCloseNone == HttpTypeOK /\ UNCHANGED httpCloses => CloseBoth({})
BY DEF HttpTypeOK, CloseBoth

\* What a step closes stays counted.
LEMMA HttpCloseTyped ==
    ASSUME HttpTypeOK, NEW rs, CloseBoth(rs)
    PROVE  httpCloses' \in [HttpRequest -> [HttpEnd -> Nat]]
BY DEF HttpTypeOK, CloseBoth

\* HttpBind, a message of the worker and the calls of the accept isolate that return no request.
LEMMA HttpBindKeeps ==
    ASSUME HttpInv,
           HttpListen \/ HttpRecheck \/ HttpRegister \/ HttpBindReturns \/ HttpLookup \/ HttpAcceptEnds
    PROVE  HttpInv'
<1> USE DEF httpBindVars, httpGoVars, httpQueueVars, httpAcceptVars, httpDartVars, HttpInv
<1>1. /\ UNCHANGED <<httpHandler, httpChannel, httpHeld, httpInbox, httpPending, httpAdopting>>
      /\ UNCHANGED <<httpGiven, httpCloses, httpSub, httpStop, httpOnce, httpDone>>
      /\ UNCHANGED <<httpCloser, httpDisposed>>
  BY DEF HttpListen, HttpRecheck, HttpRegister, HttpBindReturns, HttpLookup, HttpAcceptEnds
<1>2. /\ httpBind' \in {"idle", "listening", "checked", "bound", "failed"}
      /\ httpListening' \in BOOLEAN /\ httpRegistered' \in BOOLEAN
  BY DEF HttpTypeOK, HttpListen, HttpRecheck, HttpRegister, HttpBindReturns, HttpLookup, HttpAcceptEnds
<1>3. /\ httpServer' = httpServer \/ (httpServer = "absent" /\ httpServer' = "open")
      /\ \/ httpAccept' = httpAccept
         \/ httpAccept \in {"calling", "selecting"} /\ httpAccept' \in {"selecting", "ended"}
  BY DEF HttpListen, HttpRecheck, HttpRegister, HttpBindReturns, HttpLookup, HttpAcceptEnds
<1>4. HttpTypeOK'
  BY <1>1, <1>2, <1>3 DEF HttpTypeOK
<1>5. HttpHand'
  BY <1>1, <1>3 DEF HttpHand
<1>6. ~HttpEnding' => ~HttpEnding
  BY <1>1, <1>3 DEF HttpEnding
<1> QED  BY <1>1, <1>4, <1>5, <1>6, HttpStaysPut

\* The two calls of close touch a request only when they drain the channel.
LEMMA HttpCloserKeeps ==
    ASSUME HttpInv, NEW c \in HttpCloserId,
           \/ HttpServeReturns \/ HttpCloseDone(c) \/ HttpCloseServer(c)
           \/ HttpCloseAgain(c) \/ HttpDrained(c) \/ HttpDeregister
    PROVE  HttpInv'
<1> USE DEF httpBindVars, httpGoVars, httpQueueVars, httpAcceptVars, httpDartVars, HttpInv
<1>1. /\ UNCHANGED <<httpHandler, httpChannel, httpHeld, httpInbox, httpPending, httpAdopting>>
      /\ UNCHANGED <<httpGiven, httpCloses, httpSub, httpStop, httpBind, httpDisposed>>
      /\ UNCHANGED <<httpServer, httpAccept>>
  BY DEF HttpServeReturns, HttpCloseDone, HttpCloseServer, HttpCloseAgain, HttpDrained, HttpDeregister
<1>2. /\ httpListening' \in BOOLEAN /\ httpRegistered' \in BOOLEAN /\ httpDone' \in BOOLEAN
      /\ httpOnce' \in {"no", "running", "done"}
  BY DEF HttpTypeOK, HttpServeReturns, HttpCloseDone, HttpCloseServer, HttpCloseAgain, HttpDrained,
         HttpDeregister, HttpEntryAfterServe
<1>3. PICK d \in HttpCloserId, to \in {"entered", "closing", "draining", "drained", "over"} :
        httpCloser' = [httpCloser EXCEPT ![d] = to]
  BY DEF HttpServeReturns, HttpCloseDone, HttpCloseServer, HttpCloseAgain, HttpDrained, HttpDeregister,
         HttpCloserId
<1>4. httpCloser' \in [HttpCloserId -> {"idle", "entered", "closing", "draining", "drained", "over"}]
  BY <1>3 DEF HttpTypeOK
<1>5. HttpTypeOK'
  BY <1>1, <1>2, <1>4 DEF HttpTypeOK
<1>6. HttpHand'
  BY <1>1 DEF HttpHand
<1>8. ~HttpEnding' => ~HttpEnding
  BY <1>1 DEF HttpEnding
<1> QED  BY <1>1, <1>5, <1>6, <1>8, HttpStaysPut

\* stopLocked, and the command that closes the binding.
LEMMA HttpStopKeeps ==
    ASSUME HttpInv,
           HttpStopBegins \/ HttpStopTakes \/ HttpStopClosed \/ HttpStopServer \/ HttpCloseExecuted
    PROVE  HttpInv'
<1> USE DEF httpBindVars, httpGoVars, httpQueueVars, httpAcceptVars, httpDartVars, HttpInv
<1>1. /\ UNCHANGED <<httpHandler, httpChannel, httpHeld, httpInbox, httpPending, httpAdopting>>
      /\ UNCHANGED <<httpGiven, httpCloses, httpSub, httpBind, httpAccept>>
      /\ UNCHANGED <<httpOnce, httpDone>>
      /\ httpServer' = httpServer \/ (httpServer = "closing" /\ httpServer' = "awaiting")
  BY DEF HttpStopBegins, HttpStopTakes, HttpStopClosed, HttpStopServer, HttpCloseExecuted
<1>2. /\ httpListening' \in BOOLEAN /\ httpRegistered' \in BOOLEAN /\ httpDisposed' \in BOOLEAN
      /\ httpStop' \in {"no", "registry", "closing", "server", "done"}
  BY DEF HttpTypeOK, HttpStopBegins, HttpStopTakes, HttpStopClosed, HttpStopServer, HttpCloseExecuted
<1>3. httpCloser' \in {httpCloser, [httpCloser EXCEPT !["explicit"] = "entered"]}
  BY DEF HttpStopBegins, HttpStopTakes, HttpStopClosed, HttpStopServer, HttpCloseExecuted
<1>4. /\ httpCloser' \in [HttpCloserId -> {"idle", "entered", "closing", "draining", "drained", "over"}]
      /\ \A c \in HttpCloserId : httpCloser'[c] \in {httpCloser[c], "entered"}
      /\ httpCloser'["serve"] = httpCloser["serve"] /\ "serve" \in HttpCloserId
  BY <1>3 DEF HttpTypeOK, HttpCloserId
<1>5. HttpTypeOK'
  BY <1>1, <1>2, <1>4 DEF HttpTypeOK
<1>6. HttpHand'
  BY <1>1 DEF HttpHand
<1>7. ~HttpEnding' => ~HttpEnding
  BY <1>1, <1>4 DEF HttpEnding
<1> QED  BY <1>1, <1>5, <1>6, <1>7, HttpStaysPut

\* The application, and the calls of close in the main isolate.
LEMMA HttpAppKeeps ==
    ASSUME HttpInv,
           HttpListened \/ HttpSpawnFails \/ HttpPause \/ HttpAppCloses \/ HttpAcceptClosed
    PROVE  HttpInv'
<1> USE DEF httpBindVars, httpGoVars, httpQueueVars, httpAcceptVars, httpDartVars, HttpInv,
            HttpCloseCalled
<1>1. /\ UNCHANGED <<httpHandler, httpChannel, httpHeld, httpInbox, httpPending, httpAdopting>>
      /\ UNCHANGED <<httpGiven, httpCloses, httpStop, httpOnce, httpDone, httpCloser>>
      /\ UNCHANGED <<httpBind, httpDisposed, httpListening, httpRegistered>>
      /\ httpServer = "open" /\ httpServer' \in {"open", "closing"}
      /\ httpSub' \in {httpSub, "active", "paused"}
      /\ httpAccept' = httpAccept \/ (httpSub = "none" /\ httpAccept' = "calling" /\ httpSub' = "active")
  BY DEF HttpListened, HttpSpawnFails, HttpPause, HttpAppCloses, HttpAcceptClosed
<1>2. HttpTypeOK'
  BY <1>1 DEF HttpTypeOK
<1>3. HttpHand'
  BY <1>1 DEF HttpHand
<1>4. ~HttpEnding' => ~HttpEnding
  BY <1>1 DEF HttpEnding
<1> QED  BY <1>1, <1>2, <1>3, <1>4, HttpStaysPut

\* A request that arrives is open and nowhere yet.
LEMMA HttpArriveKeeps ==
    ASSUME HttpInv, NEW r \in HttpRequest, HttpArrive(r)
    PROVE  HttpInv'
<1> USE DEF httpBindVars, httpGoVars, httpQueueVars, httpAcceptVars, httpDartVars, HttpInv
<1>1. /\ UNCHANGED <<httpChannel, httpHeld, httpInbox, httpPending, httpAdopting, httpGiven>>
      /\ UNCHANGED <<httpCloses, httpStop, httpOnce, httpDone, httpCloser, httpBind>>
      /\ UNCHANGED <<httpDisposed, httpListening, httpRegistered, httpServer, httpSub, httpAccept>>
      /\ httpHandler[r] = "idle" /\ httpHandler' = [httpHandler EXCEPT ![r] = "ready"]
  BY DEF HttpArrive
<1>2. /\ httpHandler' \in [HttpRequest -> {"idle", "ready", "sent", "over"}]
      /\ \A q \in HttpRequest : httpHandler'[q] = IF q = r THEN "ready" ELSE httpHandler[q]
  BY <1>1 DEF HttpTypeOK
<1>3. HttpTypeOK'
  BY <1>1, <1>2 DEF HttpTypeOK
<1>4. HttpHand'
  BY <1>1 DEF HttpHand
<1>5. HttpUnderAdoption' = HttpUnderAdoption
  BY <1>1 DEF HttpUnderAdoption
<1>6. HttpOnePlace' /\ HttpOnPath' = HttpOnPath
  BY <1>1, <1>5 DEF HttpOnePlace, HttpOnPath
<1>7. HttpOpen'
  BY <1>1, <1>2, <1>6 DEF HttpOpen
<1>8. HttpFdsClosedOnce' /\ HttpNothingLostWhileOpen'
  BY <1>1, <1>2 DEF HttpFdsClosedOnce, HttpNothingLostWhileOpen, HttpLost
<1> QED  BY <1>3, <1>4, <1>6, <1>7, <1>8

\* A request that is refused never gets on the path.
LEMMA HttpRefuseKeeps ==
    ASSUME HttpInv, NEW r \in HttpRequest, HttpRefuse(r)
    PROVE  HttpInv'
<1> USE DEF httpBindVars, httpGoVars, httpQueueVars, httpAcceptVars, httpDartVars, HttpInv
<1>1. /\ UNCHANGED <<httpChannel, httpHeld, httpInbox, httpPending, httpAdopting, httpGiven>>
      /\ UNCHANGED <<httpStop, httpOnce, httpDone, httpCloser, httpBind>>
      /\ UNCHANGED <<httpDisposed, httpListening, httpRegistered, httpServer, httpSub, httpAccept>>
      /\ httpHandler[r] = "ready" /\ httpHandler' = [httpHandler EXCEPT ![r] = "over"]
      /\ CloseBoth({r})
  BY DEF HttpRefuse
<1>2. /\ httpHandler' \in [HttpRequest -> {"idle", "ready", "sent", "over"}]
      /\ \A q \in HttpRequest : httpHandler'[q] = IF q = r THEN "over" ELSE httpHandler[q]
  BY <1>1 DEF HttpTypeOK
<1>3. HttpTypeOK'
  BY <1>1, <1>2, HttpCloseTyped DEF HttpTypeOK
<1>4. HttpHand'
  BY <1>1 DEF HttpHand
<1>5. HttpUnderAdoption' = HttpUnderAdoption
  BY <1>1 DEF HttpUnderAdoption
<1>6. HttpOnePlace' /\ HttpOnPath' = HttpOnPath /\ r \notin HttpOnPath
  BY <1>1, <1>5 DEF HttpOnePlace, HttpOnPath, HttpOpen
<1>7. \A q \in HttpRequest, e \in HttpEnd :
         httpCloses'[q][e] = IF q = r THEN httpCloses[q][e] + 1 ELSE httpCloses[q][e]
  BY <1>1 DEF CloseBoth, HttpTypeOK
<1>8. \A e \in HttpEnd : httpCloses[r][e] = 0
  BY <1>1 DEF HttpOpen
<1>9. HttpOpen'
  BY <1>2, <1>6, <1>7 DEF HttpOpen
<1>10. HttpFdsClosedOnce'
  BY <1>7, <1>8 DEF HttpFdsClosedOnce
<1>11. HttpNothingLostWhileOpen'
  <2> SUFFICES ASSUME NEW q \in HttpRequest, HttpLost(q)' PROVE HttpLost(q)
    BY <1>1 DEF HttpNothingLostWhileOpen
  <2>1. q # r
    BY <1>2 DEF HttpLost
  <2> QED  BY <1>1, <1>2, <1>7, <2>1 DEF HttpLost
<1> QED  BY <1>3, <1>4, <1>6, <1>9, <1>10, <1>11

\* A request that is sent joins the channel, whether or not done is closed.
LEMMA HttpEnqueueKeeps ==
    ASSUME HttpInv, NEW r \in HttpRequest, HttpEnqueue(r)
    PROVE  HttpInv'
<1> USE DEF httpBindVars, httpGoVars, httpQueueVars, httpAcceptVars, httpDartVars, HttpInv
<1>1. /\ UNCHANGED <<httpHeld, httpInbox, httpPending, httpAdopting, httpGiven, httpCloses>>
      /\ UNCHANGED <<httpStop, httpOnce, httpDone, httpCloser, httpBind>>
      /\ UNCHANGED <<httpDisposed, httpListening, httpRegistered, httpServer, httpSub, httpAccept>>
      /\ httpHandler[r] = "ready" /\ httpHandler' = [httpHandler EXCEPT ![r] = "sent"]
      /\ httpChannel' = Append(httpChannel, r) /\ Len(httpChannel) < HttpBacklog
  BY DEF HttpEnqueue
<1>2. /\ httpHandler' \in [HttpRequest -> {"idle", "ready", "sent", "over"}]
      /\ \A q \in HttpRequest : httpHandler'[q] = IF q = r THEN "sent" ELSE httpHandler[q]
  BY <1>1 DEF HttpTypeOK
<1>3. r \notin HttpOnPath
  BY <1>1 DEF HttpOpen
<1>4. /\ httpChannel' \in Seq(HttpRequest) /\ Distinct(httpChannel')
      /\ Members(httpChannel') = Members(httpChannel) \cup {r}
      /\ Len(httpChannel') = Len(httpChannel) + 1
  <2>1. httpChannel \in Seq(HttpRequest) /\ Distinct(httpChannel) /\ r \notin Members(httpChannel)
    BY <1>3 DEF HttpTypeOK, HttpOnePlace, HttpOnPath
  <2> QED  BY <1>1, <2>1, QueueAppend
<1>5. Len(httpChannel') <= HttpBacklog
  <2>1. Len(httpChannel) \in Nat
    BY DEF HttpTypeOK
  <2> QED  BY <1>1, <1>4, <2>1, HttpAssumption
<1>7. HttpTypeOK'
  BY <1>1, <1>2, <1>4, <1>5 DEF HttpTypeOK
<1>8. HttpHand'
  BY <1>1 DEF HttpHand
<1>10. HttpUnderAdoption' = HttpUnderAdoption
  BY <1>1 DEF HttpUnderAdoption
<1>11. HttpOnePlace' /\ HttpOnPath' = HttpOnPath \cup {r}
  BY <1>1, <1>3, <1>4, <1>10 DEF HttpOnePlace, HttpOnPath
<1>12. HttpOpen'
  BY <1>1, <1>2, <1>11 DEF HttpOpen
<1>13. HttpFdsClosedOnce'
  BY <1>1 DEF HttpFdsClosedOnce
<1>14. HttpNothingLostWhileOpen'
  <2> SUFFICES ASSUME NEW q \in HttpRequest, HttpLost(q)' PROVE HttpLost(q)
    BY <1>1 DEF HttpNothingLostWhileOpen
  <2>1. q \notin HttpOnPath' /\ httpHandler'[q] = "sent"
    BY DEF HttpLost, HttpOnPath, HttpUnderAdoption
  <2>2. q # r /\ httpHandler[q] = "sent" /\ q \notin HttpOnPath
    BY <1>2, <1>11, <2>1
  <2>3. \E e \in HttpEnd : httpCloses[q][e] = 0
    BY <1>1 DEF HttpLost
  <2> QED  BY <2>2, <2>3, HttpLostMeans
<1> QED  BY <1>7, <1>8, <1>11, <1>12, <1>13, <1>14

\* A drain closes the oldest request of the channel.
LEMMA HttpDrainKeeps ==
    ASSUME HttpInv, NEW c \in HttpCloserId, HttpDrain(c)
    PROVE  HttpInv'
<1> DEFINE r == Head(httpChannel)
<1> USE DEF httpBindVars, httpGoVars, httpQueueVars, httpAcceptVars, httpDartVars, HttpInv
<1>1. /\ UNCHANGED <<httpHandler, httpHeld, httpInbox, httpPending, httpAdopting, httpGiven>>
      /\ UNCHANGED <<httpStop, httpOnce, httpDone, httpCloser, httpBind>>
      /\ UNCHANGED <<httpDisposed, httpListening, httpRegistered, httpServer, httpSub, httpAccept>>
      /\ httpChannel # <<>> /\ httpChannel' = Tail(httpChannel) /\ CloseBoth({r})
  BY DEF HttpDrain
<1>2. /\ httpChannel' \in Seq(HttpRequest) /\ Distinct(httpChannel') /\ r \in Members(httpChannel)
      /\ Members(httpChannel') = Members(httpChannel) \ {r} /\ Len(httpChannel') <= Len(httpChannel)
  <2>1. httpChannel \in Seq(HttpRequest) /\ Distinct(httpChannel)
    BY DEF HttpTypeOK, HttpOnePlace
  <2> QED  BY <1>1, <2>1, QueueTail
<1>3. Len(httpChannel') <= HttpBacklog
  <2>1. Len(httpChannel) \in Nat /\ Len(httpChannel') \in Nat /\ Len(httpChannel) <= HttpBacklog
    BY <1>2 DEF HttpTypeOK
  <2> QED  BY <1>2, <2>1, HttpAssumption
<1> HIDE DEF r
<1>4. HttpTypeOK'
  BY <1>1, <1>2, <1>3, HttpCloseTyped DEF HttpTypeOK
<1>5. HttpHand'
  BY <1>1, <1>2 DEF HttpHand
<1>6. HttpUnderAdoption' = HttpUnderAdoption
  BY <1>1 DEF HttpUnderAdoption
<1>7. HttpOnePlace' /\ HttpOnPath' = HttpOnPath \ {r} /\ {r} \in SUBSET HttpOnPath
  BY <1>1, <1>2, <1>6 DEF HttpOnePlace, HttpOnPath
<1>8. ~HttpEnding' => ~HttpEnding
  BY <1>1 DEF HttpEnding
<1> QED  BY <1>1, <1>4, <1>5, <1>7, <1>8, HttpPasses

\* The accept isolate takes the oldest request of the channel.
LEMMA HttpReceiveKeeps == HttpInv /\ HttpReceive => HttpInv'
<1> SUFFICES ASSUME HttpInv, HttpReceive PROVE HttpInv'
  OBVIOUS
<1> DEFINE r == Head(httpChannel)
<1> USE DEF httpBindVars, httpGoVars, httpQueueVars, httpAcceptVars, httpDartVars, HttpInv
<1>1. /\ UNCHANGED <<httpHandler, httpInbox, httpPending, httpAdopting, httpGiven, httpCloses>>
      /\ UNCHANGED <<httpServer, httpSub>>
      /\ UNCHANGED <<httpStop, httpOnce, httpDone, httpCloser, httpBind, httpDisposed>>
      /\ UNCHANGED <<httpListening, httpRegistered>>
      /\ httpAccept = "selecting" /\ httpAccept' = "holding" /\ httpHeld' = <<r>>
      /\ httpChannel # <<>> /\ httpChannel' = Tail(httpChannel)
  BY DEF HttpReceive
<1>2. /\ httpChannel' \in Seq(HttpRequest) /\ Distinct(httpChannel') /\ r \in Members(httpChannel)
      /\ Members(httpChannel') = Members(httpChannel) \ {r} /\ Len(httpChannel') <= Len(httpChannel)
  <2>1. httpChannel \in Seq(HttpRequest) /\ Distinct(httpChannel)
    BY DEF HttpTypeOK, HttpOnePlace
  <2> QED  BY <1>1, <2>1, QueueTail
<1>3. Len(httpChannel') <= HttpBacklog
  <2>1. Len(httpChannel) \in Nat /\ Len(httpChannel') \in Nat /\ Len(httpChannel) <= HttpBacklog
    BY <1>2 DEF HttpTypeOK
  <2> QED  BY <1>2, <2>1, HttpAssumption
<1>4. r \in HttpRequest
  BY <1>2, HttpQueues
<1> HIDE DEF r
<1>5. /\ httpHeld' \in Seq(HttpRequest) /\ Distinct(httpHeld') /\ Members(httpHeld') = {r}
      /\ Members(httpHeld) = {}
  BY <1>1, <1>4, OneInHand, EmptyQueue DEF HttpHand
<1>6. HttpTypeOK'
  BY <1>1, <1>2, <1>3, <1>5 DEF HttpTypeOK
<1>7. HttpHand'
  BY <1>1, <1>2, <1>4 DEF HttpHand
<1>8. HttpUnderAdoption' = HttpUnderAdoption
  BY <1>1 DEF HttpUnderAdoption
<1>9. HttpOnePlace' /\ HttpOnPath' = HttpOnPath
  BY <1>1, <1>2, <1>5, <1>8 DEF HttpOnePlace, HttpOnPath
<1>10. CloseBoth({}) /\ {} \in SUBSET HttpOnPath /\ (~HttpEnding' => ~HttpEnding)
  BY <1>1, HttpCloseNone DEF HttpEnding
<1> QED  BY <1>1, <1>6, <1>7, <1>9, <1>10, HttpPasses

\* A request in its hand is sent, or dropped by a closed port.
LEMMA HttpSendKeeps == HttpInv /\ HttpSend => HttpInv'
<1> SUFFICES ASSUME HttpInv, HttpSend PROVE HttpInv'
  OBVIOUS
<1> USE DEF httpBindVars, httpGoVars, httpQueueVars, httpAcceptVars, httpDartVars, HttpInv
<1>1. PICK r \in HttpRequest : httpHeld = <<r>>
  BY DEF HttpSend, HttpHand
<1>2. /\ UNCHANGED <<httpHandler, httpChannel, httpPending, httpAdopting, httpGiven, httpCloses>>
      /\ UNCHANGED <<httpServer, httpSub>>
      /\ UNCHANGED <<httpStop, httpOnce, httpDone, httpCloser, httpBind, httpDisposed>>
      /\ UNCHANGED <<httpListening, httpRegistered>>
      /\ httpAccept = "holding" /\ httpAccept' = "calling" /\ httpHeld' = <<>>
      /\ httpInbox' = IF httpServer = "closed" THEN httpInbox ELSE httpInbox \o <<r>>
  BY <1>1 DEF HttpSend
<1>3. Members(httpHeld) = {r} /\ Members(httpHeld') = {} /\ Distinct(httpHeld')
  BY <1>1, <1>2, OneInHand, EmptyQueue
<1>4. /\ httpInbox' \in Seq(HttpRequest) /\ Distinct(httpInbox')
      /\ Members(httpInbox') = IF httpServer = "closed" THEN Members(httpInbox)
                                                        ELSE Members(httpInbox) \cup {r}
  <2>1. httpInbox \in Seq(HttpRequest) /\ Distinct(httpInbox) /\ r \notin Members(httpInbox)
    BY <1>3 DEF HttpTypeOK, HttpOnePlace
  <2>2. /\ Append(httpInbox, r) \in Seq(HttpRequest) /\ Distinct(Append(httpInbox, r))
        /\ Members(Append(httpInbox, r)) = Members(httpInbox) \cup {r}
        /\ httpInbox \o <<r>> = Append(httpInbox, r)
    BY <2>1, QueueAppend
  <2>3. CASE httpServer = "closed"
    BY <1>2, <2>1, <2>3
  <2>4. CASE httpServer # "closed"
    <3>1. httpInbox' = Append(httpInbox, r)
      BY <1>2, <2>2, <2>4
    <3> QED  BY <2>2, <2>4, <3>1
  <2> QED  BY <2>3, <2>4
<1>5. HttpTypeOK'
  <2>1. httpHeld' \in Seq(HttpRequest)
    BY <1>2
  <2> QED  BY <1>2, <1>4, <2>1 DEF HttpTypeOK
<1>6. HttpHand'
  BY <1>2 DEF HttpHand
<1>7. HttpUnderAdoption' = HttpUnderAdoption
  BY <1>2 DEF HttpUnderAdoption
<1>8. /\ HttpOnePlace' /\ HttpOnPath' \subseteq HttpOnPath
      /\ httpServer' # "closed" => HttpOnPath' = HttpOnPath
  BY <1>2, <1>3, <1>4, <1>7 DEF HttpOnePlace, HttpOnPath
<1>9. /\ CloseBoth({}) /\ {} \in SUBSET HttpOnPath
      /\ ~HttpEnding' => ~HttpEnding /\ httpServer' # "closed"
  BY <1>2, HttpCloseNone DEF HttpEnding
<1> QED  BY <1>2, <1>5, <1>6, <1>8, <1>9, HttpPasses

\* The isolate is killed with a request in its hand: the server is closed.
LEMMA HttpKilledKeeps == HttpInv /\ HttpKilled => HttpInv'
<1> SUFFICES ASSUME HttpInv, HttpKilled PROVE HttpInv'
  OBVIOUS
<1> USE DEF httpBindVars, httpGoVars, httpQueueVars, httpAcceptVars, httpDartVars, HttpInv
<1>1. /\ UNCHANGED <<httpHandler, httpChannel, httpPending, httpAdopting, httpGiven, httpCloses>>
      /\ UNCHANGED <<httpServer, httpSub, httpInbox>>
      /\ UNCHANGED <<httpStop, httpOnce, httpDone, httpCloser, httpBind, httpDisposed>>
      /\ UNCHANGED <<httpListening, httpRegistered>>
      /\ httpAccept \in {"calling", "holding"} /\ httpAccept' = "ended" /\ httpHeld' = <<>>
      /\ httpServer = "closed"
  BY DEF HttpKilled
<1>2. Members(httpHeld') = {} /\ Distinct(httpHeld') /\ httpHeld' \in Seq(HttpRequest)
  BY <1>1, EmptyQueue
<1>3. HttpTypeOK'
  BY <1>1, <1>2 DEF HttpTypeOK
<1>4. HttpHand'
  BY <1>1 DEF HttpHand
<1>5. HttpUnderAdoption' = HttpUnderAdoption
  BY <1>1 DEF HttpUnderAdoption
<1>6. HttpOnePlace' /\ HttpOnPath' \subseteq HttpOnPath
  BY <1>1, <1>2, <1>5 DEF HttpOnePlace, HttpOnPath
<1>7. CloseBoth({}) /\ {} \in SUBSET HttpOnPath /\ HttpEnding'
  BY <1>1, HttpCloseNone DEF HttpEnding
<1> QED  BY <1>1, <1>3, <1>4, <1>6, <1>7, HttpPasses

\* The pending requests start to be adopted.
LEMMA HttpResumeKeeps == HttpInv /\ HttpResume => HttpInv'
<1> SUFFICES ASSUME HttpInv, HttpResume PROVE HttpInv'
  OBVIOUS
<1> USE DEF httpBindVars, httpGoVars, httpQueueVars, httpAcceptVars, httpDartVars, HttpInv
<1>1. /\ UNCHANGED <<httpHandler, httpChannel, httpHeld, httpInbox, httpGiven, httpCloses>>
      /\ UNCHANGED <<httpServer, httpAccept>>
      /\ UNCHANGED <<httpStop, httpOnce, httpDone, httpCloser, httpBind, httpDisposed>>
      /\ UNCHANGED <<httpListening, httpRegistered>>
      /\ httpSub = "paused" /\ httpSub' = "active" /\ httpPending' = <<>>
      /\ httpAdopting' = [r \in HttpRequest |->
                            IF r \in Members(httpPending) THEN "request" ELSE httpAdopting[r]]
  BY DEF HttpResume
<1>2. /\ Members(httpPending') = {} /\ Distinct(httpPending')
      /\ httpPending' \in Seq(HttpRequest) /\ Len(httpPending') = 0
  BY <1>1, EmptyQueue
<1>3. /\ httpAdopting' \in [HttpRequest -> {"no", "request", "response"}]
      /\ HttpUnderAdoption' = HttpUnderAdoption \cup Members(httpPending)
  BY <1>1, HttpQueues DEF HttpTypeOK, HttpUnderAdoption
<1>4. HttpTypeOK'
  BY <1>1, <1>2, <1>3, HttpAssumption DEF HttpTypeOK
<1>5. HttpHand'
  BY <1>1 DEF HttpHand
<1>6. HttpOnePlace' /\ HttpOnPath' = HttpOnPath
  BY <1>1, <1>2, <1>3 DEF HttpOnePlace, HttpOnPath
<1>7. CloseBoth({}) /\ {} \in SUBSET HttpOnPath /\ (~HttpEnding' => ~HttpEnding)
  BY <1>1, HttpCloseNone DEF HttpEnding
<1> QED  BY <1>1, <1>4, <1>5, <1>6, <1>7, HttpPasses

\* A request reaches the main isolate: it waits, is adopted, is closed, or is dropped by a
\* server that is not open any more.
LEMMA HttpAcceptedKeeps == HttpInv /\ HttpAccepted => HttpInv'
<1> SUFFICES ASSUME HttpInv, HttpAccepted PROVE HttpInv'
  OBVIOUS
<1> DEFINE r == Head(httpInbox)
<1> USE DEF httpBindVars, httpGoVars, httpQueueVars, httpAcceptVars, httpDartVars, HttpInv
<1>1. /\ UNCHANGED <<httpHandler, httpChannel, httpHeld, httpGiven, httpServer>>
      /\ UNCHANGED <<httpAccept, httpSub>>
      /\ UNCHANGED <<httpStop, httpOnce, httpDone, httpCloser, httpBind, httpDisposed>>
      /\ UNCHANGED <<httpListening, httpRegistered>>
      /\ httpInbox # <<>> /\ httpInbox' = Tail(httpInbox)
  BY DEF HttpAccepted
<1>2. /\ httpInbox' \in Seq(HttpRequest) /\ Distinct(httpInbox') /\ r \in Members(httpInbox)
      /\ Members(httpInbox') = Members(httpInbox) \ {r}
  <2>1. httpInbox \in Seq(HttpRequest) /\ Distinct(httpInbox)
    BY DEF HttpTypeOK, HttpOnePlace
  <2> QED  BY <1>1, <2>1, QueueTail
<1>3. /\ r \in HttpRequest /\ r \notin Members(httpPending) /\ r \notin Members(httpHeld)
      /\ r \notin Members(httpChannel) /\ r \notin HttpUnderAdoption /\ r \notin httpGiven
  BY <1>2, HttpQueues DEF HttpOnePlace
<1> HIDE DEF r
<1>4. HttpHand'
  BY <1>1 DEF HttpHand
<1>5. HttpEnding' = HttpEnding /\ (httpServer # "open" => HttpEnding)
  BY <1>1 DEF HttpEnding, HttpHand, HttpTypeOK
<1>6. CASE httpServer # "open" /\ UNCHANGED <<httpPending, httpAdopting, httpCloses>>
  <2>1. HttpTypeOK'
    BY <1>1, <1>2, <1>6 DEF HttpTypeOK
  <2>2. HttpUnderAdoption' = HttpUnderAdoption
    BY <1>6 DEF HttpUnderAdoption
  <2>3. HttpOnePlace' /\ HttpOnPath' \subseteq HttpOnPath
    BY <1>1, <1>2, <1>6, <2>2 DEF HttpOnePlace, HttpOnPath
  <2>4. CloseBoth({}) /\ {} \in SUBSET HttpOnPath
    BY <1>6, HttpCloseNone
  <2> QED  BY <1>1, <1>4, <1>5, <1>6, <2>1, <2>3, <2>4, HttpPasses
<1>7. CASE CloseBoth({r}) /\ UNCHANGED <<httpPending, httpAdopting>>
  <2>1. HttpTypeOK'
    BY <1>1, <1>2, <1>7, HttpCloseTyped DEF HttpTypeOK
  <2>2. HttpUnderAdoption' = HttpUnderAdoption
    BY <1>7 DEF HttpUnderAdoption
  <2>3. HttpOnePlace' /\ HttpOnPath' = HttpOnPath \ {r} /\ {r} \in SUBSET HttpOnPath
    BY <1>1, <1>2, <1>3, <1>7, <2>2 DEF HttpOnePlace, HttpOnPath
  <2> QED  BY <1>1, <1>4, <1>5, <1>7, <2>1, <2>3, HttpPasses
<1>8. CASE /\ httpPending' = Append(httpPending, r) /\ Len(httpPending) < MaxPendingHttp
           /\ UNCHANGED <<httpAdopting, httpCloses>>
  <2>1. /\ httpPending' \in Seq(HttpRequest) /\ Distinct(httpPending')
        /\ Members(httpPending') = Members(httpPending) \cup {r}
        /\ Len(httpPending') = Len(httpPending) + 1
    <3>1. httpPending \in Seq(HttpRequest) /\ Distinct(httpPending)
      BY DEF HttpTypeOK, HttpOnePlace
    <3> QED  BY <1>3, <1>8, <3>1, QueueAppend
  <2>2. Len(httpPending') <= MaxPendingHttp
    <3>1. Len(httpPending) \in Nat
      BY DEF HttpTypeOK
    <3> QED  BY <1>8, <2>1, <3>1, HttpAssumption
  <2>3. HttpTypeOK'
    BY <1>1, <1>2, <1>8, <2>1, <2>2 DEF HttpTypeOK
  <2>4. HttpUnderAdoption' = HttpUnderAdoption
    BY <1>8 DEF HttpUnderAdoption
  <2>5. HttpOnePlace' /\ HttpOnPath' = HttpOnPath
    BY <1>1, <1>2, <1>3, <1>8, <2>1, <2>4 DEF HttpOnePlace, HttpOnPath
  <2>6. CloseBoth({}) /\ {} \in SUBSET HttpOnPath
    BY <1>8, HttpCloseNone
  <2> QED  BY <1>1, <1>4, <1>5, <2>3, <2>5, <2>6, HttpPasses
<1>9. CASE /\ httpAdopting' = [httpAdopting EXCEPT ![r] = "request"]
           /\ UNCHANGED <<httpPending, httpCloses>>
  <2>1. /\ httpAdopting' \in [HttpRequest -> {"no", "request", "response"}]
        /\ HttpUnderAdoption' = HttpUnderAdoption \cup {r}
    BY <1>3, <1>9 DEF HttpTypeOK, HttpUnderAdoption
  <2>2. HttpTypeOK'
    BY <1>1, <1>2, <1>9, <2>1 DEF HttpTypeOK
  <2>3. HttpOnePlace' /\ HttpOnPath' = HttpOnPath
    BY <1>1, <1>2, <1>3, <1>9, <2>1 DEF HttpOnePlace, HttpOnPath
  <2>4. CloseBoth({}) /\ {} \in SUBSET HttpOnPath
    BY <1>9, HttpCloseNone
  <2> QED  BY <1>1, <1>4, <1>5, <2>2, <2>3, <2>4, HttpPasses
<1>10. Len(httpPending) < MaxPendingHttp \/ Len(httpPending) >= MaxPendingHttp
  <2>1. Len(httpPending) \in Nat
    BY DEF HttpTypeOK
  <2> QED  BY <2>1, HttpAssumption
<1> QED  BY <1>6, <1>7, <1>8, <1>9, <1>10 DEF HttpAccepted, HttpReject, HttpPendingFull, r

\* The close ends: what is under way is dropped, what is pending is closed.
LEMMA HttpFinishKeeps == HttpInv /\ HttpCloseFinishes => HttpInv'
<1> SUFFICES ASSUME HttpInv, HttpCloseFinishes PROVE HttpInv'
  OBVIOUS
<1> USE DEF httpBindVars, httpGoVars, httpQueueVars, httpAcceptVars, httpDartVars, HttpInv
<1>1. /\ UNCHANGED <<httpHandler, httpChannel, httpHeld, httpGiven, httpAdopting>>
      /\ UNCHANGED <<httpAccept, httpSub>>
      /\ UNCHANGED <<httpStop, httpOnce, httpDone, httpCloser, httpBind, httpDisposed>>
      /\ UNCHANGED <<httpListening, httpRegistered>>
      /\ httpServer' = "closed" /\ httpInbox' = <<>> /\ httpPending' = <<>>
      /\ CloseBoth(Members(httpPending))
  BY DEF HttpCloseFinishes, HttpNotAdopted
<1>2. Members(<<>>) = {} /\ Distinct(<<>>) /\ <<>> \in Seq(HttpRequest) /\ Len(<<>>) = 0
  BY EmptyQueue
<1>3. HttpTypeOK'
  BY <1>1, <1>2, HttpCloseTyped, HttpAssumption DEF HttpTypeOK
<1>4. HttpHand'
  BY <1>1 DEF HttpHand
<1>5. HttpUnderAdoption' = HttpUnderAdoption
  BY <1>1 DEF HttpUnderAdoption
<1>6. /\ HttpOnePlace' /\ Members(httpPending) \in SUBSET HttpOnPath
      /\ HttpOnPath' \subseteq HttpOnPath \ Members(httpPending)
  BY <1>1, <1>2, <1>5 DEF HttpOnePlace, HttpOnPath
<1>7. HttpEnding'
  BY <1>1 DEF HttpEnding
<1> QED  BY <1>1, <1>3, <1>4, <1>6, <1>7, HttpPasses

\* The adoption of a request goes on, or ends: it is given to the application or closed.
LEMMA HttpAdoptKeeps ==
    ASSUME HttpInv, NEW r \in HttpRequest, HttpAdoptStep(r)
    PROVE  HttpInv'
<1> USE DEF httpBindVars, httpGoVars, httpQueueVars, httpAcceptVars, httpDartVars, HttpInv
<1>1. /\ UNCHANGED <<httpHandler, httpChannel, httpHeld, httpServer, httpInbox>>
      /\ UNCHANGED <<httpAccept, httpSub, httpPending>>
      /\ UNCHANGED <<httpStop, httpOnce, httpDone, httpCloser, httpBind, httpDisposed>>
      /\ UNCHANGED <<httpListening, httpRegistered>>
      /\ httpAdopting[r] \in {"request", "response"}
  BY DEF HttpAdoptStep, HttpRequestAdopted, HttpRequestNotAdopted, HttpResponseAdopted,
         HttpResponseNotAdopted
<1>2. HttpHand' /\ HttpEnding' = HttpEnding
  BY <1>1 DEF HttpHand, HttpEnding
<1>3. /\ r \in HttpUnderAdoption /\ r \in HttpOnPath /\ r \notin httpGiven
      /\ r \notin Members(httpChannel) \cup Members(httpHeld) \cup Members(httpInbox)
                   \cup Members(httpPending)
  BY <1>1 DEF HttpUnderAdoption, HttpOnPath, HttpOnePlace
<1>4. CASE HttpRequestAdopted(r)
  <2>1. /\ httpAdopting' \in [HttpRequest -> {"no", "request", "response"}]
        /\ HttpUnderAdoption' = HttpUnderAdoption
        /\ UNCHANGED <<httpGiven, httpCloses>>
    BY <1>1, <1>4 DEF HttpRequestAdopted, HttpTypeOK, HttpUnderAdoption
  <2>2. HttpTypeOK'
    BY <1>1, <2>1 DEF HttpTypeOK
  <2>3. HttpOnePlace' /\ HttpOnPath' = HttpOnPath
    BY <1>1, <2>1 DEF HttpOnePlace, HttpOnPath
  <2>4. CloseBoth({}) /\ {} \in SUBSET HttpOnPath
    BY <2>1, HttpCloseNone
  <2> QED  BY <1>1, <1>2, <2>2, <2>3, <2>4, HttpPasses
<1>5. CASE httpAdopting' = [httpAdopting EXCEPT ![r] = "no"]
  <2>1. /\ httpAdopting' \in [HttpRequest -> {"no", "request", "response"}]
        /\ HttpUnderAdoption' = HttpUnderAdoption \ {r}
    BY <1>5 DEF HttpTypeOK, HttpUnderAdoption
  <2>2. CASE CloseBoth({r}) /\ UNCHANGED httpGiven
    <3>1. HttpTypeOK'
      BY <1>1, <2>1, <2>2, HttpCloseTyped DEF HttpTypeOK
    <3>2. HttpOnePlace' /\ HttpOnPath' = HttpOnPath \ {r} /\ {r} \in SUBSET HttpOnPath
      BY <1>1, <1>3, <2>1, <2>2 DEF HttpOnePlace, HttpOnPath
    <3> QED  BY <1>1, <1>2, <2>2, <3>1, <3>2, HttpPasses
  <2>3. CASE httpGiven' = httpGiven \cup {r} /\ UNCHANGED httpCloses
    <3>1. HttpTypeOK'
      BY <1>1, <2>1, <2>3 DEF HttpTypeOK
    <3>2. HttpOnePlace' /\ HttpOnPath' = HttpOnPath
      BY <1>1, <1>3, <2>1, <2>3 DEF HttpOnePlace, HttpOnPath
    <3>3. CloseBoth({}) /\ {} \in SUBSET HttpOnPath
      BY <2>3, HttpCloseNone
    <3> QED  BY <1>1, <1>2, <3>1, <3>2, <3>3, HttpPasses
  <2>4. ~HttpRequestAdopted(r)
    BY <1>5 DEF HttpRequestAdopted, HttpTypeOK
  <2> QED  BY <2>2, <2>3, <2>4 DEF HttpAdoptStep, HttpRequestNotAdopted, HttpResponseAdopted,
                                   HttpResponseNotAdopted
<1> QED  BY <1>4, <1>5 DEF HttpAdoptStep, HttpRequestNotAdopted, HttpResponseAdopted,
                           HttpResponseNotAdopted

\* Every step keeps the invariant.
LEMMA HttpKept == HttpInv /\ [HttpNext]_httpVars => HttpInv'
<1> SUFFICES ASSUME HttpInv, [HttpNext]_httpVars PROVE HttpInv'
  OBVIOUS
<1>1. CASE HttpListen \/ HttpWorkerStep
  BY <1>1, HttpBindKeeps, HttpStopKeeps DEF HttpWorkerStep
<1>2. ASSUME NEW c \in HttpCloserId, HttpCloserStep(c) PROVE HttpInv'
  BY <1>2, HttpCloserKeeps, HttpDrainKeeps DEF HttpCloserStep
<1>3. "serve" \in HttpCloserId /\ "explicit" \in HttpCloserId
  BY DEF HttpCloserId
<1>4. CASE HttpServeStep
  BY <1>2, <1>3, <1>4, HttpCloserKeeps DEF HttpServeStep
<1>5. CASE HttpStopBegins \/ HttpStopStep
  BY <1>2, <1>3, <1>5, HttpStopKeeps DEF HttpStopStep
<1>6. CASE HttpAcceptStep \/ HttpKilled
  BY <1>6, HttpBindKeeps, HttpReceiveKeeps, HttpSendKeeps, HttpKilledKeeps DEF HttpAcceptStep
<1>7. CASE HttpListened \/ HttpSpawnFails \/ HttpPause \/ HttpAppCloses
  BY <1>7, HttpAppKeeps
<1>8. CASE HttpResume
  BY <1>8, HttpResumeKeeps
<1>9. CASE HttpMainStep
  BY <1>9, HttpAppKeeps, HttpAcceptedKeeps, HttpFinishKeeps DEF HttpMainStep
<1>10. ASSUME NEW r \in HttpRequest, HttpHandlerStep(r) \/ HttpAdoptStep(r) PROVE HttpInv'
  BY <1>10, HttpArriveKeeps, HttpEnqueueKeeps, HttpRefuseKeeps, HttpAdoptKeeps DEF HttpHandlerStep
<1>11. CASE UNCHANGED httpVars
  <2> USE <1>11 DEF httpVars, httpBindVars, httpGoVars, httpQueueVars, httpAcceptVars, httpDartVars
  <2>1. HttpTypeOK' /\ HttpHand'
    BY DEF HttpInv, HttpTypeOK, HttpHand
  <2>2. ~HttpEnding' => ~HttpEnding
    BY DEF HttpEnding
  <2> QED  BY <2>1, <2>2, HttpStaysPut
<1> QED  BY <1>1, <1>4, <1>5, <1>6, <1>7, <1>8, <1>9, <1>10, <1>11 DEF HttpNext

\* The invariant holds throughout.
LEMMA HttpAlways == HttpSpec => []HttpInv
BY HttpStarts, HttpKept, PTL DEF HttpSpec

\* Neither descriptor of a request is closed twice, for any number of requests and any bounds
\* of the channel and of the pending queue: whichever of the handler, the two drains, the full
\* queue, the close of the server, a failed adoption and the application closes it.
THEOREM HttpNoDoubleClose == HttpSpec => []HttpFdsClosedOnce
<1>1. HttpInv => HttpFdsClosedOnce
  BY DEF HttpInv
<1> QED  BY <1>1, HttpAlways, PTL

\* As long as the server of the application is open no accepted request is lost on its way.
THEOREM HttpNoneLostWhileOpen == HttpSpec => []HttpNothingLostWhileOpen
<1>1. HttpInv => HttpNothingLostWhileOpen
  BY DEF HttpInv
<1> QED  BY <1>1, HttpAlways, PTL

-----------------------------------------------------------------------------
(* UdpBridge:                                                               *)
(* The types of a UDP binding.  What is taken off pendingInboundBytes when  *)
(* a datagram is handled was added for it: the count is the sum of the      *)
(* sizes under way.  A sum that shrinks from the front is given by what is  *)
(* left at each place.                                                      *)

\* The sizes of the envelopes of s add up to q: left[i] is the sum from the i-th to the last.
UdpSum(s, q) ==
    \E left \in [1..(Len(s) + 1) -> Nat] :
        /\ left[1] = q /\ left[Len(s) + 1] = 0
        /\ \A i \in 1..Len(s) : left[i] = left[i + 1] + Size(s[i])

\* A part of an envelope does not end before it begins.
UdpForth == {e \in Envelope : e.from <= e.to}

\* What Go wrote to the socket it wrote whole; a write that is begun has the rest to come.
UdpStretches ==
    /\ udpInward \in Seq({e \in Envelope : e.from = 0})
    /\ udpEvents \in Seq(UdpForth) /\ udpWrites \in Seq(UdpForth)

UdpInv == UdpTypeOK /\ UdpStretches /\ UdpSum(udpEvents, udpQueued)

\* The smaller of two numbers.
LEMMA UdpMinIs ==
    ASSUME NEW a \in Nat, NEW b \in Nat
    PROVE  UdpMin(a, b) \in Nat /\ UdpMin(a, b) <= a /\ UdpMin(a, b) <= b
BY DEF UdpMin

\* Such a part has a size.
LEMMA UdpSizes ==
    ASSUME NEW e \in UdpForth
    PROVE  e \in Envelope /\ e.from \in Nat /\ e.to \in Nat /\ Size(e) \in Nat
BY DEF UdpForth, Envelope, Size

\* The first of a sequence, and what is left.
LEMMA UdpTakes ==
    ASSUME NEW S, NEW s \in Seq(S), s # <<>>
    PROVE  /\ Head(s) = s[1] /\ 1 \in 1..Len(s) /\ Head(s) \in S
           /\ Tail(s) \in Seq(S) /\ Len(Tail(s)) = Len(s) - 1 /\ Len(s) \in Nat
           /\ \A i \in 1..Len(Tail(s)) : i + 1 \in 1..Len(s) /\ Tail(s)[i] = s[i + 1]
BY HeadTailProperties

\* One more.
LEMMA UdpAdds ==
    ASSUME NEW S, NEW s \in Seq(S), NEW e \in S
    PROVE  /\ Append(s, e) \in Seq(S) /\ Len(Append(s, e)) = Len(s) + 1 /\ Len(s) \in Nat
           /\ Append(s, e)[Len(s) + 1] = e
           /\ \A i \in 1..Len(s) : Append(s, e)[i] = s[i]
OBVIOUS

\* One envelope more is so much more.
LEMMA UdpSumGrows ==
    ASSUME NEW s \in Seq(UdpForth), NEW q \in Nat, UdpSum(s, q), NEW e \in UdpForth
    PROVE  UdpSum(Append(s, e), q + Size(e))
<1>1. PICK left \in [1..(Len(s) + 1) -> Nat] :
        /\ left[1] = q /\ left[Len(s) + 1] = 0
        /\ \A i \in 1..Len(s) : left[i] = left[i + 1] + Size(s[i])
  BY DEF UdpSum
<1> DEFINE t == Append(s, e)
           more == [i \in 1..(Len(s) + 2) |->
                        IF i <= Len(s) + 1 THEN left[i] + Size(e) ELSE 0]
<1>2. /\ Len(t) = Len(s) + 1 /\ Len(s) \in Nat /\ t[Len(s) + 1] = e
      /\ \A i \in 1..Len(s) : t[i] = s[i]
  BY UdpSizes, UdpAdds
<1>3. Size(e) \in Nat
  BY UdpSizes
<1>4. /\ more \in [1..(Len(s) + 2) -> Nat] /\ more[1] = q + Size(e) /\ more[Len(s) + 2] = 0
      /\ more[Len(s) + 1] = Size(e)
      /\ \A i \in 1..Len(s) : more[i] = left[i] + Size(e) /\ more[i + 1] = left[i + 1] + Size(e)
  BY <1>1, <1>2, <1>3
<1> HIDE DEF t, more
<1>5. ASSUME NEW i \in 1..Len(t)  PROVE more[i] = more[i + 1] + Size(t[i])
  <2>1. CASE i = Len(s) + 1
    BY <1>2, <1>3, <1>4, <2>1
  <2>2. CASE i # Len(s) + 1
    <3>1. i \in 1..Len(s) /\ left[i] \in Nat /\ left[i + 1] \in Nat
      BY <1>2, <2>2
    <3>2. s[i] \in UdpForth /\ t[i] = s[i] /\ left[i] = left[i + 1] + Size(s[i])
      BY <1>1, <1>2, <3>1
    <3>3. Size(s[i]) \in Nat
      BY <3>2, UdpSizes
    <3> QED  BY <1>3, <1>4, <3>1, <3>2, <3>3
  <2> QED  BY <2>1, <2>2
<1>6. Len(t) + 1 = Len(s) + 2
  BY <1>2
<1>7. UdpSum(t, q + Size(e))
  BY <1>4, <1>5, <1>6 DEF UdpSum
<1> QED  BY <1>7 DEF t

\* The first taken, what is left adds up to the rest.
LEMMA UdpSumShrinks ==
    ASSUME NEW s \in Seq(UdpForth), s # <<>>, NEW q \in Nat, UdpSum(s, q)
    PROVE  q - Size(Head(s)) \in Nat /\ UdpSum(Tail(s), q - Size(Head(s)))
<1>1. PICK left \in [1..(Len(s) + 1) -> Nat] :
        /\ left[1] = q /\ left[Len(s) + 1] = 0
        /\ \A i \in 1..Len(s) : left[i] = left[i + 1] + Size(s[i])
  BY DEF UdpSum
<1> DEFINE t == Tail(s)
           rest == [i \in 1..Len(s) |-> left[i + 1]]
<1>2. /\ Head(s) = s[1] /\ 1 \in 1..Len(s) /\ Head(s) \in UdpForth
      /\ Len(t) = Len(s) - 1 /\ Len(s) \in Nat
      /\ \A i \in 1..Len(t) : i + 1 \in 1..Len(s) /\ t[i] = s[i + 1]
  BY UdpTakes
<1>3. Size(Head(s)) \in Nat /\ left[2] \in Nat /\ left[1] = left[2] + Size(Head(s))
  <2>1. Size(Head(s)) \in Nat
    BY <1>2, UdpSizes
  <2>2. left[1] = left[1 + 1] + Size(s[1])
    BY <1>1, <1>2
  <2> QED  BY <1>2, <2>1, <2>2
<1>4. q - Size(Head(s)) = left[2]
  BY <1>1, <1>3
<1>5. /\ rest \in [1..Len(s) -> Nat] /\ rest[1] = left[2] /\ rest[Len(s)] = 0
      /\ \A i \in 1..Len(t) : rest[i] = left[i + 1] /\ rest[i + 1] = left[(i + 1) + 1]
  BY <1>1, <1>2
<1> HIDE DEF t, rest
<1>6. ASSUME NEW i \in 1..Len(t)  PROVE rest[i] = rest[i + 1] + Size(t[i])
  <2>1. i + 1 \in 1..Len(s) /\ t[i] = s[i + 1]
    BY <1>2
  <2>2. left[i + 1] = left[(i + 1) + 1] + Size(s[i + 1])
    BY <1>1, <2>1
  <2> QED  BY <1>5, <2>1, <2>2
<1>7. Len(t) + 1 = Len(s)
  BY <1>2
<1>8. UdpSum(t, left[2])
  BY <1>5, <1>6, <1>7 DEF UdpSum
<1> QED  BY <1>3, <1>4, <1>8 DEF t

\* Nothing is under way at first.
LEMMA UdpStarts == UdpInit => UdpInv
<1> SUFFICES ASSUME UdpInit  PROVE UdpInv
  OBVIOUS
<1>1. UdpTypeOK /\ UdpStretches
  <2>1. \A S : <<>> \in Seq(S)
    OBVIOUS
  <2>2. Len(<<>>) = 0 /\ UdpSocketSpace \in Nat /\ Datagrams \in Nat /\ 0 \in 0..TurnBudget
        /\ 0 \in 0..MaxQueued
    BY UdpAssumption
  <2>3. UdpTypeOK
    BY <2>1, <2>2 DEF UdpInit, UdpTypeOK
  <2> QED  BY <2>1, <2>3 DEF UdpInit, UdpStretches
<1>2. UdpSum(<<>>, 0)
  <2> DEFINE none == [i \in {1} |-> 0]
  <2>1. Len(<<>>) = 0 /\ none \in [1..(Len(<<>>) + 1) -> Nat]
    OBVIOUS
  <2>2. none[1] = 0 /\ none[Len(<<>>) + 1] = 0 /\ 1..Len(<<>>) = {}
    BY <2>1
  <2> HIDE DEF none
  <2> QED  BY <2>1, <2>2 DEF UdpSum
<1> QED  BY <1>1, <1>2 DEF UdpInv, UdpInit

\* The whole of the next datagram is an envelope.
LEMMA UdpWholeIs ==
    ASSUME UdpTypeOK, UdpNumber <= Datagrams, NEW n \in DatagramSizes
    PROVE  /\ \A m \in Nat : /\ Whole(UdpNumber, m) \in UdpForth /\ Whole(UdpNumber, m).from = 0
                             /\ Whole(UdpNumber, m) \in Envelope
           /\ Append(udpLength, n) \in Seq(DatagramSizes) /\ Len(Append(udpLength, n)) <= Datagrams
<1>1. udpLength \in Seq(DatagramSizes) /\ Len(udpLength) \in Nat /\ Datagrams \in Nat
  BY UdpAssumption DEF UdpTypeOK
<1>2. UdpNumber \in 1..Datagrams
  BY <1>1 DEF UdpNumber
<1>3. UdpHeader \in Nat
  BY UdpAssumption
<1>4. ASSUME NEW m \in Nat
      PROVE  /\ Whole(UdpNumber, m) \in UdpForth /\ Whole(UdpNumber, m).from = 0
             /\ Whole(UdpNumber, m) \in Envelope
  BY <1>2, <1>3 DEF Whole, UdpForth, Envelope
<1>5. Append(udpLength, n) \in Seq(DatagramSizes) /\ Len(Append(udpLength, n)) = Len(udpLength) + 1
  BY <1>1
<1> QED  BY <1>1, <1>4, <1>5 DEF UdpNumber

\* A peer sends: what is put into the socket is whole.
LEMMA UdpPeerSendsKeeps ==
    ASSUME UdpInv, NEW n \in DatagramSizes, UdpPeerSends(n)
    PROVE  UdpInv'
<1> DEFINE read == UdpMin(n, UdpPeerBuffer)
           d == Whole(UdpNumber, read)
<1>1. /\ UdpTypeOK /\ UdpNumber <= Datagrams /\ Len(udpInward) < UdpSocketSpace
      /\ udpInward \in Seq(Envelope) /\ udpInward \in Seq({e \in Envelope : e.from = 0})
  BY DEF UdpInv, UdpTypeOK, UdpStretches, UdpPeerSends
<1>2. /\ udpLength' = Append(udpLength, n)
      /\ udpInward' \in {udpInward, Append(udpInward, d)}
      /\ UNCHANGED <<udpBudget, udpQueued, udpEvents, udpWrites, udpWriteBudget, udpOutward,
                     udpDelivered>>
  BY DEF UdpPeerSends, udpOutVars
<1>3. read \in Nat
  <2>1. n \in Nat /\ UdpPeerBuffer \in Nat
    BY UdpAssumption DEF UdpPeerBuffer
  <2> QED  BY <2>1, UdpMinIs
<1> HIDE DEF read
<1>4. /\ d \in Envelope /\ d.from = 0
      /\ Append(udpLength, n) \in Seq(DatagramSizes) /\ Len(Append(udpLength, n)) <= Datagrams
  BY <1>1, <1>3, UdpWholeIs
<1> HIDE DEF d
<1>5. /\ udpInward' \in Seq(Envelope) /\ udpInward' \in Seq({e \in Envelope : e.from = 0})
      /\ Len(udpInward') <= UdpSocketSpace
  <2>1. /\ Append(udpInward, d) \in Seq(Envelope)
        /\ Append(udpInward, d) \in Seq({e \in Envelope : e.from = 0})
        /\ Len(Append(udpInward, d)) = Len(udpInward) + 1 /\ Len(udpInward) \in Nat
    BY <1>1, <1>4
  <2>2. UdpSocketSpace \in Nat
    BY UdpAssumption
  <2>3. CASE udpInward' = udpInward
    BY <1>1, <2>1, <2>2, <2>3
  <2>4. CASE udpInward' = Append(udpInward, d)
    BY <1>1, <2>1, <2>2, <2>4
  <2> QED  BY <1>2, <2>3, <2>4
<1>6. UdpTypeOK'
  BY <1>2, <1>4, <1>5 DEF UdpInv, UdpTypeOK
<1> QED  BY <1>2, <1>5, <1>6 DEF UdpInv, UdpStretches

\* A read, in part if there is no more room, is counted and posted.
LEMMA UdpReadKeeps == UdpInv /\ UdpRead => UdpInv'
<1> SUFFICES ASSUME UdpInv, UdpRead  PROVE UdpInv'
  OBVIOUS
<1> DEFINE e == Head(udpInward)
           room == UdpMin(MaxQueued - udpQueued, udpBudget)
           limit == UdpMin(MaxChunk, room)
           n == UdpMin(Size(e), limit)
           d == [e EXCEPT !.to = n]
<1>1. /\ udpBudget \in 0..TurnBudget /\ udpQueued \in 0..MaxQueued /\ MaxQueued \in Nat
      /\ TurnBudget \in Nat /\ MaxChunk \in Nat /\ udpInward # <<>>
      /\ udpInward \in Seq(Envelope) /\ Len(udpInward) <= UdpSocketSpace
      /\ udpInward \in Seq({f \in Envelope : f.from = 0})
      /\ udpEvents \in Seq(UdpForth) /\ udpEvents \in Seq(Envelope)
      /\ UdpSum(udpEvents, udpQueued) /\ UdpSocketSpace \in Nat
  BY UdpAssumption DEF UdpInv, UdpTypeOK, UdpStretches, UdpRead
<1>2. /\ udpInward' = Tail(udpInward) /\ udpQueued' = udpQueued + n /\ udpBudget' = udpBudget - n
      /\ udpEvents' = Append(udpEvents, d)
      /\ UNCHANGED <<udpLength, udpWrites, udpWriteBudget, udpOutward, udpDelivered>>
  BY DEF UdpRead, udpOutVars
<1>3. /\ e \in Envelope /\ Tail(udpInward) \in Seq(Envelope)
      /\ Len(Tail(udpInward)) = Len(udpInward) - 1 /\ Len(udpInward) \in Nat
  BY <1>1, UdpTakes
<1>4. e.from = 0 /\ Tail(udpInward) \in Seq({f \in Envelope : f.from = 0})
  <2>1. /\ e \in {f \in Envelope : f.from = 0}
        /\ Tail(udpInward) \in Seq({f \in Envelope : f.from = 0})
    BY <1>1, UdpTakes
  <2> HIDE DEF e
  <2> QED  BY <2>1
<1>5. Size(e) \in Nat
  BY <1>3, <1>4 DEF Size, Envelope
<1>6. n \in Nat /\ n <= udpBudget /\ n <= MaxQueued - udpQueued
  <2>1. MaxQueued - udpQueued \in Nat /\ udpBudget \in Nat
    BY <1>1
  <2>2. room \in Nat /\ room <= MaxQueued - udpQueued /\ room <= udpBudget
    BY <2>1, UdpMinIs
  <2> HIDE DEF room
  <2>3. limit \in Nat /\ limit <= room
    BY <1>1, <2>2, UdpMinIs
  <2> HIDE DEF limit
  <2>4. n \in Nat /\ n <= limit
    BY <1>5, <2>3, UdpMinIs
  <2> QED  BY <2>1, <2>2, <2>3, <2>4
<1> HIDE DEF n
<1>7. d \in UdpForth /\ d \in Envelope /\ Size(d) = n
  BY <1>3, <1>4, <1>6 DEF Envelope, UdpForth, Size
<1> HIDE DEF d, e
<1>8. UdpSum(udpEvents, udpQueued)'
  BY <1>1, <1>2, <1>7, UdpSumGrows
<1>9. udpEvents' \in Seq(UdpForth) /\ udpEvents' \in Seq(Envelope)
  BY <1>1, <1>2, <1>7
<1>10. udpQueued' \in 0..MaxQueued /\ udpBudget' \in 0..TurnBudget
  BY <1>1, <1>2, <1>6
<1>11. Len(udpInward') <= UdpSocketSpace
  BY <1>1, <1>2, <1>3
<1>12. UdpTypeOK'
  BY <1>2, <1>3, <1>9, <1>10, <1>11 DEF UdpInv, UdpTypeOK
<1>13. UdpStretches'
  BY <1>2, <1>4, <1>9 DEF UdpInv, UdpStretches
<1> QED  BY <1>8, <1>12, <1>13 DEF UdpInv

\* A datagram handled, what it was counted for is taken off the count.
LEMMA UdpHandleKeeps == UdpInv /\ UdpHandle => UdpInv'
<1> SUFFICES ASSUME UdpInv, UdpHandle  PROVE UdpInv'
  OBVIOUS
<1> DEFINE e == Head(udpEvents)
<1>1. /\ udpEvents \in Seq(UdpForth) /\ udpEvents \in Seq(Envelope) /\ udpEvents # <<>>
      /\ udpQueued \in 0..MaxQueued /\ MaxQueued \in Nat /\ UdpSum(udpEvents, udpQueued)
      /\ udpDelivered \subseteq Envelope
  BY UdpAssumption DEF UdpInv, UdpTypeOK, UdpStretches, UdpHandle
<1>2. /\ udpEvents' = Tail(udpEvents) /\ udpQueued' = udpQueued - Size(e)
      /\ udpDelivered' \in {udpDelivered, udpDelivered \cup {e}}
      /\ UNCHANGED <<udpLength, udpInward, udpBudget, udpWrites, udpWriteBudget, udpOutward>>
  BY DEF UdpHandle, udpOutVars
<1>3. /\ e \in UdpForth /\ Tail(udpEvents) \in Seq(UdpForth) /\ Tail(udpEvents) \in Seq(Envelope)
  BY <1>1, UdpTakes
<1>4. udpQueued - Size(e) \in Nat /\ UdpSum(Tail(udpEvents), udpQueued - Size(e))
  <2>1. udpQueued \in Nat
    BY <1>1
  <2> QED  BY <1>1, <2>1, UdpSumShrinks
<1>5. Size(e) \in Nat /\ e \in Envelope
  BY <1>3, UdpSizes
<1> HIDE DEF e
<1>6. udpQueued' \in 0..MaxQueued /\ udpDelivered' \subseteq Envelope
  BY <1>1, <1>2, <1>4, <1>5
<1>7. UdpTypeOK'
  BY <1>2, <1>3, <1>6 DEF UdpInv, UdpTypeOK
<1>8. UdpStretches'
  BY <1>2, <1>3 DEF UdpInv, UdpStretches
<1> QED  BY <1>2, <1>4, <1>7, <1>8 DEF UdpInv

\* One more write is queued.
LEMMA UdpSendKeeps ==
    ASSUME UdpInv, NEW n \in DatagramSizes, UdpSend(n)
    PROVE  UdpInv'
<1> DEFINE d == Whole(UdpNumber, n)
<1>1. /\ UdpTypeOK /\ UdpNumber <= Datagrams
      /\ udpWrites \in Seq(Envelope) /\ udpWrites \in Seq(UdpForth)
  BY DEF UdpInv, UdpTypeOK, UdpStretches, UdpSend
<1>2. /\ udpLength' = Append(udpLength, n) /\ udpWrites' = Append(udpWrites, d)
      /\ UNCHANGED <<udpInward, udpBudget, udpQueued, udpEvents, udpWriteBudget, udpOutward,
                     udpDelivered>>
  BY DEF UdpSend, udpInVars
<1>3. n \in Nat
  BY UdpAssumption
<1>4. /\ d \in Envelope /\ d \in UdpForth
      /\ Append(udpLength, n) \in Seq(DatagramSizes) /\ Len(Append(udpLength, n)) <= Datagrams
  BY <1>1, <1>3, UdpWholeIs
<1> HIDE DEF d
<1>5. udpWrites' \in Seq(Envelope) /\ udpWrites' \in Seq(UdpForth)
  BY <1>1, <1>2, <1>4
<1>6. UdpTypeOK'
  BY <1>2, <1>4, <1>5 DEF UdpInv, UdpTypeOK
<1> QED  BY <1>2, <1>5, <1>6 DEF UdpInv, UdpStretches

\* A part of a write is in the socket, the rest, if any, is the first of the writes.
LEMMA UdpWriteKeeps == UdpInv /\ UdpWrite => UdpInv'
<1> SUFFICES ASSUME UdpInv, UdpWrite  PROVE UdpInv'
  OBVIOUS
<1> DEFINE e == Head(udpWrites)
           limit == UdpMin(Size(e), udpWriteBudget)
           n == UdpMin(MaxChunk, limit)
           d == [e EXCEPT !.to = e.from + n]
           rest == [e EXCEPT !.from = e.from + n]
<1>1. /\ udpWriteBudget \in 0..TurnBudget /\ TurnBudget \in Nat /\ MaxChunk \in Nat
      /\ udpWrites # <<>> /\ udpWrites \in Seq(UdpForth) /\ udpWrites \in Seq(Envelope)
      /\ udpOutward \in Seq(Envelope) /\ Len(udpOutward) < UdpSocketSpace /\ UdpSocketSpace \in Nat
  BY UdpAssumption DEF UdpInv, UdpTypeOK, UdpStretches, UdpWrite
<1>2. /\ udpOutward' = Append(udpOutward, d) /\ udpWriteBudget' = udpWriteBudget - n
      /\ udpWrites' \in {Tail(udpWrites), <<rest>> \o Tail(udpWrites)}
      /\ UNCHANGED <<udpLength, udpInward, udpBudget, udpQueued, udpEvents, udpDelivered>>
  BY DEF UdpWrite, udpInVars
<1>3. e \in UdpForth /\ Tail(udpWrites) \in Seq(UdpForth) /\ Tail(udpWrites) \in Seq(Envelope)
  BY <1>1, UdpTakes
<1>4. /\ e \in Envelope /\ e.from \in Nat /\ e.to \in Nat /\ Size(e) \in Nat
      /\ Size(e) = e.to - e.from
  BY <1>3, UdpSizes DEF Size
<1>5. n \in Nat /\ n <= Size(e) /\ n <= udpWriteBudget
  <2>1. udpWriteBudget \in Nat
    BY <1>1
  <2>2. limit \in Nat /\ limit <= Size(e) /\ limit <= udpWriteBudget
    BY <1>4, <2>1, UdpMinIs
  <2> HIDE DEF limit
  <2>3. n \in Nat /\ n <= limit
    BY <1>1, <2>2, UdpMinIs
  <2> QED  BY <1>4, <2>1, <2>2, <2>3
<1> HIDE DEF n
<1>6. d \in Envelope /\ rest \in Envelope /\ rest \in UdpForth
  <2> HIDE DEF e
  <2>1. e.from + n \in Nat /\ e.from + n <= e.to
    BY <1>4, <1>5
  <2> QED  BY <1>4, <2>1 DEF Envelope, UdpForth
<1> HIDE DEF d, rest, e
<1>7. udpOutward' \in Seq(Envelope) /\ Len(udpOutward') <= UdpSocketSpace
  <2>1. Append(udpOutward, d) \in Seq(Envelope) /\ Len(Append(udpOutward, d)) = Len(udpOutward) + 1
        /\ Len(udpOutward) \in Nat
    BY <1>1, <1>6
  <2> QED  BY <1>1, <1>2, <2>1
<1>8. udpWrites' \in Seq(UdpForth) /\ udpWrites' \in Seq(Envelope)
  <2>1. <<rest>> \in Seq(UdpForth) /\ <<rest>> \in Seq(Envelope)
    BY <1>6
  <2>2. <<rest>> \o Tail(udpWrites) \in Seq(UdpForth) /\ <<rest>> \o Tail(udpWrites) \in Seq(Envelope)
    BY <1>3, <2>1
  <2> QED  BY <1>2, <1>3, <2>2
<1>9. udpWriteBudget' \in 0..TurnBudget
  BY <1>1, <1>2, <1>5
<1>10. UdpTypeOK'
  BY <1>2, <1>7, <1>8, <1>9 DEF UdpInv, UdpTypeOK
<1> QED  BY <1>2, <1>8, <1>10 DEF UdpInv, UdpStretches

\* Go takes what is in the socket.
LEMMA UdpForwardKeeps == UdpInv /\ UdpForward => UdpInv'
<1> SUFFICES ASSUME UdpInv, UdpForward  PROVE UdpInv'
  OBVIOUS
<1>1. /\ udpOutward \in Seq(Envelope) /\ udpOutward # <<>> /\ Len(udpOutward) <= UdpSocketSpace
      /\ UdpSocketSpace \in Nat /\ udpDelivered \subseteq Envelope
  BY UdpAssumption DEF UdpInv, UdpTypeOK, UdpForward
<1>2. /\ udpOutward' = Tail(udpOutward)
      /\ udpDelivered' \in {udpDelivered, udpDelivered \cup {Head(udpOutward)}}
      /\ UNCHANGED <<udpLength, udpInward, udpBudget, udpQueued, udpEvents, udpWrites,
                     udpWriteBudget>>
  BY DEF UdpForward, udpInVars
<1>3. /\ Head(udpOutward) \in Envelope /\ Tail(udpOutward) \in Seq(Envelope)
      /\ Len(Tail(udpOutward)) = Len(udpOutward) - 1 /\ Len(udpOutward) \in Nat
  BY <1>1, UdpTakes
<1>4. Len(udpOutward') <= UdpSocketSpace /\ udpDelivered' \subseteq Envelope
  BY <1>1, <1>2, <1>3
<1>5. UdpTypeOK'
  BY <1>2, <1>3, <1>4 DEF UdpInv, UdpTypeOK
<1> QED  BY <1>2, <1>5 DEF UdpInv, UdpStretches

\* Every step keeps the types and the count.
LEMMA UdpKept == UdpInv /\ [UdpNext]_udpVars => UdpInv'
<1> SUFFICES ASSUME UdpInv, [UdpNext]_udpVars  PROVE UdpInv'
  OBVIOUS
<1>1. ASSUME UdpReadTurn \/ UdpReadStops \/ UdpFlush \/ UdpFlushStops \/ UNCHANGED udpVars
      PROVE  UdpInv'
  <2>1. /\ UNCHANGED <<udpLength, udpInward, udpQueued, udpEvents, udpWrites, udpOutward,
                       udpDelivered>>
        /\ udpBudget' \in {udpBudget, TurnBudget, 0}
        /\ udpWriteBudget' \in {udpWriteBudget, TurnBudget, 0}
    BY <1>1 DEF UdpReadTurn, UdpReadStops, UdpFlush, UdpFlushStops, udpVars, udpInVars, udpOutVars
  <2>2. udpBudget' \in 0..TurnBudget /\ udpWriteBudget' \in 0..TurnBudget
    BY <2>1, UdpAssumption DEF UdpInv, UdpTypeOK
  <2>3. UdpTypeOK'
    BY <2>1, <2>2 DEF UdpInv, UdpTypeOK
  <2> QED  BY <2>1, <2>3 DEF UdpInv, UdpStretches
<1> QED  BY <1>1, UdpPeerSendsKeeps, UdpReadKeeps, UdpHandleKeeps, UdpSendKeeps, UdpWriteKeeps,
            UdpForwardKeeps DEF UdpNext

-----------------------------------------------------------------------------
(* MCBridges:                                                               *)
(* The types of all the components at once.  Most of them are a part of     *)
(* the component's invariant; those of the exchange and of the pushes are   *)
(* added here, and the frame of the module that composes them carries each  *)
(* invariant through the steps of the others.                               *)

\* A stretch of the stream is a sequence of positions.
LEMMA StretchTyped ==
    ASSUME NEW b \in Nat, NEW t \in Nat, b <= t
    PROVE  ExStretch(b, t) \in Seq(Nat)
<1>1. t - b \in Nat
  OBVIOUS
<1>2. ExStretch(b, t) \in [1..(t - b) -> Nat]
  BY DEF ExStretch
<1> QED  BY <1>1, <1>2

\* The types of an exchange.
LEMMA ExchangeTyped == ExchangeInv /\ ExTypeOK /\ [ExNext]_exVars => ExTypeOK'
<1> SUFFICES ASSUME ExchangeInv, ExTypeOK, [ExNext]_exVars  PROVE ExTypeOK'
  OBVIOUS
<1> USE DEF exGoVars, exReplyVars
<1>1. HeadEnd \in Nat /\ HeadEnd + BodyBytes \in Nat
  BY HeadEndNat, ExchangeAssumption
<1>2. CASE ExAdopt \/ ExInputFails \/ ExCancel \/ ExRequestSent \/ ExRequestFails
  BY <1>2 DEF ExTypeOK, ExAdopt, ExInputFails, ExFail, ExCancel, ExRequestSent, ExRequestFails,
              ExBodyAfterRequest, ExMaybeCloseBody
<1>3. CASE ExGoAnswers \/ ExGoFails \/ ExGoWritesNothing \/ ExGoCopies \/ ExGoEnds
  <2>1. /\ exGo' \in {"asking", "copying", "closed"} /\ exHead' \in {"none", "ok", "error"}
        /\ UNCHANGED <<exSend, exTaken, exInput, exReplyVars, exBodyState, exRequest,
                       exRequestDone, exResponseDone>>
    BY <1>3 DEF ExTypeOK, ExGoAnswers, ExGoFails, ExGoWritesNothing, ExGoCopies, ExGoEnds
  <2>2. exSent' \in 0..(HeadEnd + BodyBytes) /\ exSent' >= exSent
    BY <1>1, <1>3, ExchangeAssumption
    DEF ExTypeOK, ExchangeInv, StreamOrdered, ExGoAnswers, ExGoFails, ExGoWritesNothing, ExGoCopies,
        ExGoEnds
  <2>3. exTaken' \in 0..exSent'
    BY <1>1, <2>1, <2>2 DEF ExTypeOK
  <2> QED  BY <2>1, <2>2, <2>3 DEF ExTypeOK
<1>4. ASSUME NEW n \in 1..(HeadEnd + BodyBytes), ExChunk(n)  PROVE ExTypeOK'
  <2> DEFINE rest == ExStretch(ExBodyFrom, exTaken + n)
  <2>1. /\ exTaken' = exTaken + n /\ exTaken + n <= exSent
        /\ UNCHANGED <<exSend, exGo, exHead, exSent, exRequest, exRequestDone, exResponseDone>>
    BY <1>4 DEF ExChunk
  <2>2. exTaken \in Nat /\ exTaken + n \in Nat /\ exTaken' \in 0..exSent
    BY <1>1, <2>1 DEF ExTypeOK
  <2>3. exBody' = exBody \/ (exHeadComplete \/ HeadEnd <= exTaken + n)
    BY <1>4 DEF ExChunk, ExFail
  <2>4. exBody' \in {exBody, rest, exBody \o rest}
    BY <1>4 DEF ExChunk, ExFail
  <2>5. exBody' # exBody => rest \in Seq(Nat)
    <3>1. CASE exHeadComplete
      BY <2>2, <3>1, StretchTyped DEF ExBodyFrom
    <3>2. CASE ~exHeadComplete /\ HeadEnd <= exTaken + n
      BY <1>1, <2>2, <3>2, StretchTyped DEF ExBodyFrom
    <3> QED  BY <2>3, <3>1, <3>2
  <2> HIDE DEF rest
  <2>6. exBody' \in Seq(Nat)
    <3>1. exBody \in Seq(Nat)
      BY DEF ExTypeOK
    <3>2. CASE exBody' # exBody
      <4>1. exBody \o rest \in Seq(Nat)
        BY <2>5, <3>1, <3>2
      <4> QED  BY <2>4, <2>5, <3>2, <4>1
    <3> QED  BY <3>1, <3>2
  <2>7. /\ exHeadComplete' \in BOOLEAN /\ exReply' \in {"pending", "ok", "error"}
        /\ exBodyState' \in {"open", "closed", "error", "cancelled"}
        /\ exInput' \in {"on", "cancelled", "ended"}
    BY <1>4 DEF ExTypeOK, ExChunk, ExFail
  <2> QED  BY <2>1, <2>2, <2>6, <2>7 DEF ExTypeOK
<1>5. CASE ExDone
  BY <1>5 DEF ExTypeOK, ExDone, ExFail, ExMaybeCloseBody
<1>6. CASE UNCHANGED exVars
  BY <1>6 DEF ExTypeOK, exVars
<1> QED  BY <1>2, <1>3, <1>4, <1>5, <1>6 DEF ExNext

\* A bootstrap that is under way is one of those counted.
PushBounds ==
    /\ npVm \in VmTables
    /\ npWorker \in {"none", "resolving", "resolved", "refused", "running", "exited", "disposed"}
    /\ npResolved <= Len(DlSymbols) /\ npPorts <= MaxBootstraps
    /\ npWorker \in {"resolving", "resolved"} => npPorts < MaxBootstraps

\* The types of the pushes at first,
LEMMA PushBoundsStart == NpInit => PushBounds
BY NativePushAssumption DEF NpInit, PushBounds

\* and after every step.
LEMMA PushTyped == PushInv /\ PushBounds /\ [NpNext]_npVars => PushBounds'
<1> SUFFICES ASSUME PushInv, PushBounds, [NpNext]_npVars  PROVE PushBounds'
  OBVIOUS
<1>1. /\ npPorts \in Nat /\ npResolved \in Nat
      /\ Len(DlSymbols) \in Nat /\ MaxBootstraps \in Nat
  BY NativePushAssumption DEF PushInv, PortsTyped
<1>2. CASE NpInitializeApiDL \/ NpResolve \/ NpResolveDeprecated \/ NpSetDartPort \/ NpExit \/ NpDispose
  BY <1>1, <1>2 DEF PushBounds, NpInitializeApiDL, NpResolve, NpResolveDeprecated, NpSetDartPort,
                    NpExit, NpDispose
<1>3. ASSUME NEW g \in Posters, NpReadPort(g) \/ NpCheckPointer(g) \/ NpCall(g)  PROVE PushBounds'
  BY <1>3 DEF PushBounds, NpReadPort, NpCheckPointer, NpCall, npWorkers
<1>4. CASE UNCHANGED npVars
  BY <1>4 DEF PushBounds, npVars
<1> QED  BY <1>2, <1>3, <1>4 DEF NpNext

\* The two give the types.
LEMMA PushTypes == PushInv /\ PushBounds => NpTypeOK
<1> SUFFICES ASSUME PushInv, PushBounds  PROVE NpTypeOK
  OBVIOUS
<1>1. DOMAIN npDl = DlSymbolNames \cup DeprecatedDl
  BY DEF PushInv, PointersTyped
<1>2. /\ npPorts \in 0..MaxBootstraps /\ npPort \in 0..npPorts /\ npResolved \in 0..Len(DlSymbols)
  BY NativePushAssumption DEF PushInv, PortsTyped, PushBounds
<1> QED  BY <1>1, <1>2 DEF PushInv, PortsTyped, PushBounds, NpTypeOK

\* What all of them keep.
BridgesInv ==
    /\ HttpInv /\ TcpInv /\ ExchangeInv /\ ExTypeOK /\ UdpInv
    /\ PushInv /\ PushBounds /\ TnTypeOK /\ TsInv /\ KeyInv
    /\ ServeInv

\* All of them hold at first.
LEMMA BridgesStart == Init => BridgesInv
<1> SUFFICES ASSUME Init  PROVE BridgesInv
  OBVIOUS
<1>1. /\ HttpInit /\ TcpInit /\ ExInit /\ UdpInit /\ NpInit /\ TnInit /\ TsInit /\ KsInit /\ SvInit
  BY DEF Init
<1>2. ExTypeOK
  <2>1. <<>> \in Seq(Nat) /\ 0 \in 0..(HeadEnd + BodyBytes)
    BY HeadEndNat, ExchangeAssumption
  <2>2. exTaken \in 0..exSent
    BY <1>1 DEF ExInit
  <2> QED  BY <1>1, <2>1, <2>2 DEF ExInit, ExTypeOK
<1> QED  BY <1>1, <1>2, HttpStarts, TcpStarts, ExchangeStarts, UdpStarts, PushStarts, PushBoundsStart, TnStarts,
            TsStarts, KeysStart, ServeStarts DEF BridgesInv

\* A step of the composition is one of each component, or leaves it alone.
LEMMA BridgesKept == BridgesInv /\ [Next]_vars => BridgesInv'
<1> SUFFICES ASSUME BridgesInv, [Next]_vars  PROVE BridgesInv'
  OBVIOUS
<1>1. /\ [HttpNext]_httpVars /\ [TcpNext]_tcpVars /\ [ExNext]_exVars /\ [UdpNext]_udpVars
      /\ [NpNext]_npVars /\ [TnNext]_tnVars /\ [TsNext]_tsVars /\ [KsNext]_ksVars
      /\ [SvNext]_svVars
  BY DEF Next, vars, PoolMoves, HttpMoves, TcpMoves, ExMoves, UdpMoves, NpMoves, TnMoves, TsMoves, KsMoves,
         SvMoves
<1> QED  BY <1>1, HttpKept, TcpKept, ExchangeKept, ExchangeTyped, UdpKept, PushKept, PushTyped, TnKept, TsKept,
            KeysKept, ServeKept DEF BridgesInv

\* The types of the bridges and of the application above them, for any number of requests,
\* connections, datagrams, bootstraps, dialers and attempts, and any bounds of their queues.
THEOREM BridgesTyped == Spec => []BridgesTypeOK
<1>1. BridgesInv => BridgesTypeOK
  BY PushTypes DEF BridgesInv, BridgesTypeOK, HttpInv, TcpInv, UdpInv, TsInv, KeyInv, ServeInv
<1> QED  BY <1>1, BridgesStart, BridgesKept, PTL DEF Spec
=============================================================================
