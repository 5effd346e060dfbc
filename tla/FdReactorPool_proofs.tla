------------------------- MODULE FdReactorPool_proofs -------------------------
(***************************************************************************)
(* FdReactorPool, for any number of transports, any limit of a reactor and *)
(* any faults: its types and, as long as no registration times out with an *)
(* answer coming, the ownership of descriptors, which is that of FdOwner.  *)
(*                                                                         *)
(* The types need an argument of their own: a spawn takes an incarnation   *)
(* that was not used before, and there is one because every transport      *)
(* spawns at most once for each of its two attempts (SpawnsCounted).       *)
(***************************************************************************)
EXTENDS FdReactorPool, TLAPS, SequenceTheorems, FiniteSetTheorems

-----------------------------------------------------------------------------
(* Queues.                                                                 *)

\* m is in the queue s.
Holds(s, m) == \E i \in 1 .. Len(s) : s[i] = m

\* No two messages of these kinds in s are about the same transport.
Once(s, kinds) ==
    \A i, j \in 1 .. Len(s) : s[i].kind \in kinds /\ s[j].kind \in kinds /\ s[i].t = s[j].t => i = j

\* The head leaves the queue; of its kinds nothing else was about its transport.
LEMMA QueueTail ==
    ASSUME NEW S, NEW s \in Seq(S), s # <<>>, NEW kinds
    PROVE  /\ Tail(s) \in Seq(S) /\ Head(s) \in S /\ Holds(s, Head(s))
           /\ \A m : Holds(s, m) <=> m = Head(s) \/ Holds(Tail(s), m)
           /\ Once(s, kinds) => Once(Tail(s), kinds)
           /\ Once(s, kinds) /\ Head(s).kind \in kinds =>
                \A m : Holds(Tail(s), m) /\ m.kind \in kinds => m.t # Head(s).t
<1> DEFINE u == Tail(s)
<1>1. Len(s) \in Nat \ {0} /\ u \in Seq(S) /\ Head(s) = s[1] /\ Head(s) \in S
  OBVIOUS
<1>2. Len(u) = Len(s) - 1 /\ \A i \in 1 .. Len(u) : u[i] = s[i + 1]
  OBVIOUS
<1> HIDE DEF u
<1>3. \A i \in 1 .. Len(u) : i + 1 \in 1 .. Len(s) /\ i + 1 # 1
  BY <1>1, <1>2
<1>4. \A i \in 1 .. Len(s) : i = 1 \/ i - 1 \in 1 .. Len(u)
  BY <1>1, <1>2
<1>5. 1 \in 1 .. Len(s)
  BY <1>1
<1>6. \A m : Holds(u, m) => Holds(s, m)
  BY <1>2, <1>3 DEF Holds
<1>7. ASSUME NEW m, Holds(s, m), m # Head(s)  PROVE Holds(u, m)
  <2>1. PICK i \in 1 .. Len(s) : s[i] = m
    BY <1>7 DEF Holds
  <2>2. i - 1 \in 1 .. Len(u) /\ i - 1 + 1 = i
    BY <1>1, <1>4, <1>7, <2>1
  <2>3. u[i - 1] = s[i - 1 + 1]
    BY <1>2, <2>2
  <2> QED  BY <2>1, <2>2, <2>3 DEF Holds
<1>8. Holds(s, Head(s))
  BY <1>1, <1>5 DEF Holds
<1>9. ASSUME Once(s, kinds)  PROVE Once(u, kinds)
  <2> SUFFICES ASSUME NEW i \in 1 .. Len(u), NEW j \in 1 .. Len(u),
                      u[i].kind \in kinds, u[j].kind \in kinds, u[i].t = u[j].t
               PROVE  i = j
    BY DEF Once
  <2>1. i + 1 = j + 1
    BY <1>2, <1>3, <1>9 DEF Once
  <2> QED  BY <2>1
<1>10. ASSUME Once(s, kinds), Head(s).kind \in kinds, NEW m, Holds(u, m), m.kind \in kinds
       PROVE  m.t # Head(s).t
  <2>1. PICK i \in 1 .. Len(u) : u[i] = m
    BY <1>10 DEF Holds
  <2>2. s[i + 1] = m /\ i + 1 \in 1 .. Len(s) /\ i + 1 # 1
    BY <1>2, <1>3, <2>1
  <2> QED  BY <1>1, <1>5, <1>10, <2>2 DEF Once
<1>11. \A m : Holds(s, m) <=> m = Head(s) \/ Holds(u, m)
  BY <1>6, <1>7, <1>8
<1> QED  BY <1>1, <1>8, <1>9, <1>10, <1>11 DEF u

\* A message joins the queue.
LEMMA QueueAppend ==
    ASSUME NEW S, NEW s \in Seq(S), NEW x \in S, NEW kinds
    PROVE  /\ Append(s, x) \in Seq(S)
           /\ \A m : Holds(Append(s, x), m) <=> m = x \/ Holds(s, m)
           /\ Once(s, kinds) /\ (\/ x.kind \notin kinds
                                 \/ \A m : Holds(s, m) /\ m.kind \in kinds => m.t # x.t)
              => Once(Append(s, x), kinds)
<1> DEFINE u == Append(s, x)
<1>1. /\ u \in Seq(S) /\ Len(u) = Len(s) + 1 /\ Len(s) \in Nat
      /\ \A i \in 1 .. Len(s) : u[i] = s[i]
      /\ u[Len(s) + 1] = x
  OBVIOUS
<1> HIDE DEF u
<1>2. \A i \in 1 .. Len(u) : i \in 1 .. Len(s) \/ i = Len(s) + 1
  BY <1>1
<1>3. Len(s) + 1 \in 1 .. Len(u) /\ \A i \in 1 .. Len(s) : i \in 1 .. Len(u)
  BY <1>1
<1>4. \A m : Holds(u, m) <=> m = x \/ Holds(s, m)
  BY <1>1, <1>2, <1>3 DEF Holds
<1>5. ASSUME Once(s, kinds), \/ x.kind \notin kinds
                             \/ \A m : Holds(s, m) /\ m.kind \in kinds => m.t # x.t
      PROVE  Once(u, kinds)
  <2> SUFFICES ASSUME NEW i \in 1 .. Len(u), NEW j \in 1 .. Len(u),
                      u[i].kind \in kinds, u[j].kind \in kinds, u[i].t = u[j].t
               PROVE  i = j
    BY DEF Once
  <2>1. CASE i \in 1 .. Len(s) /\ j \in 1 .. Len(s)
    BY <1>1, <1>5, <2>1 DEF Once
  <2>2. CASE i = Len(s) + 1 /\ j \in 1 .. Len(s)
    <3>1. Holds(s, u[j])
      BY <1>1, <2>2 DEF Holds
    <3> QED  BY <1>1, <1>5, <2>2, <3>1
  <2>3. CASE j = Len(s) + 1 /\ i \in 1 .. Len(s)
    <3>1. Holds(s, u[i])
      BY <1>1, <2>3 DEF Holds
    <3> QED  BY <1>1, <1>5, <2>3, <3>1
  <2> QED  BY <1>2, <2>1, <2>2, <2>3
<1> QED  BY <1>1, <1>4, <1>5 DEF u

\* Several messages of another kind join it.
LEMMA QueueConcat ==
    ASSUME NEW S, NEW s \in Seq(S), NEW T \in SUBSET S, NEW z \in Seq(T), NEW kinds,
           \A m \in T : m.kind \notin kinds
    PROVE  /\ s \o z \in Seq(S)
           /\ \A m : m.kind \in kinds => (Holds(s \o z, m) <=> Holds(s, m))
           /\ Once(s, kinds) => Once(s \o z, kinds)
<1> DEFINE u == s \o z
<1>1. z \in Seq(S) /\ Len(s) \in Nat /\ Len(z) \in Nat
  OBVIOUS
<1>2. /\ u \in Seq(S) /\ Len(u) = Len(s) + Len(z)
      /\ \A i \in 1 .. Len(u) : u[i] = IF i <= Len(s) THEN s[i] ELSE z[i - Len(s)]
  BY <1>1, ConcatProperties
<1> HIDE DEF u
<1>3. ASSUME NEW i \in 1 .. Len(u), u[i].kind \in kinds
      PROVE  i \in 1 .. Len(s) /\ u[i] = s[i]
  <2>1. CASE i <= Len(s)
    BY <1>1, <1>2, <2>1
  <2>2. CASE ~(i <= Len(s))
    <3>1. i - Len(s) \in 1 .. Len(z) /\ u[i] = z[i - Len(s)]
      BY <1>1, <1>2, <2>2
    <3>2. u[i] \in T
      BY <3>1
    <3> QED  BY <1>3, <3>2
  <2> QED  BY <2>1, <2>2
<1>4. \A i \in 1 .. Len(s) : i \in 1 .. Len(u) /\ u[i] = s[i]
  BY <1>1, <1>2
<1>5. \A m : m.kind \in kinds => (Holds(u, m) <=> Holds(s, m))
  BY <1>3, <1>4 DEF Holds
<1>6. Once(s, kinds) => Once(u, kinds)
  BY <1>3 DEF Once
<1> QED  BY <1>2, <1>5, <1>6 DEF u

\* SetToSeq makes a sequence of a finite set.
LEMMA SetAsQueue ==
    ASSUME NEW S, IsFiniteSet(S)
    PROVE  SetToSeq(S) \in Seq(S)
<1>1. Cardinality(S) \in Nat /\ ExistsBijection(1 .. Cardinality(S), S)
  BY FS_CardinalityType
<1>2. \E f \in [1 .. Cardinality(S) -> S] : IsInjective(f)
  BY <1>1 DEF ExistsBijection, Bijection, Injection
<1>3. SetToSeq(S) \in [1 .. Cardinality(S) -> S]
  BY <1>2 DEF SetToSeq
<1> QED  BY <1>1, <1>3, SeqDef

-----------------------------------------------------------------------------
(* Incarnations.                                                           *)

\* A nonempty set of numbers has a least one, so Min is one of its members.
LEMMA MinIsMember ==
    ASSUME NEW T, T \subseteq Nat, T # {}
    PROVE  Min(T) \in T
<1>1. PICK x \in T : \A y \in T : ~ (<<y, x>> \in OpToRel(<, Nat))
  BY NatLessThanWellFounded, WFMin
<1>2. ASSUME NEW y \in T PROVE x <= y
  <2>1. <<y, x>> \notin OpToRel(<, Nat)
    BY <1>1
  <2>2. ~ (y < x)
    BY <2>1 DEF OpToRel
  <2> QED  BY <2>2
<1> QED  BY <1>2 DEF Min

Attempts == Transport \X {0, 1}

\* There are two attempts for each transport.
LEMMA AttemptsCount ==
    /\ IsFiniteSet(Attempts) /\ Cardinality(Attempts) = 2 * Cardinality(Transport)
    /\ Cardinality(Transport) \in Nat
<1> DEFINE A(a) == Transport \X {a}
<1>1. IsFiniteSet(Transport) /\ Cardinality(Transport) \in Nat
  BY PoolAssumption, FS_CardinalityType
<1>2. ASSUME NEW a \in {0, 1}
      PROVE  IsFiniteSet(A(a)) /\ Cardinality(A(a)) = Cardinality(Transport)
  <2> DEFINE f == [t \in Transport |-> <<t, a>>]
  <2>1. f \in [Transport -> A(a)] /\ \A t \in Transport : f[t] = <<t, a>>
    OBVIOUS
  <2>2. \A x \in A(a) : \E t \in Transport : x = <<t, a>>
    OBVIOUS
  <2> HIDE DEF f
  <2>3. f \in Bijection(Transport, A(a))
    BY <2>1, <2>2 DEF Bijection, Injection, Surjection, IsInjective
  <2> HIDE DEF A
  <2> DEFINE B == A(a)
  <2>4. ExistsBijection(Transport, B)
    BY <2>3 DEF ExistsBijection
  <2> HIDE DEF B
  <2>5. IsFiniteSet(B) /\ Cardinality(B) = Cardinality(Transport)
    BY <1>1, <2>4, FS_Bijection
  <2> QED  BY <2>5 DEF B
<1>3. Attempts = A(0) \cup A(1) /\ A(0) \cap A(1) = {}
  <2>1. \A x \in Attempts : x \in A(0) \cup A(1)
    BY DEF Attempts
  <2>2. A(0) \cup A(1) \subseteq Attempts
    BY DEF Attempts
  <2>3. \A x \in A(0) : x \notin A(1)
    OBVIOUS
  <2> QED  BY <2>1, <2>2, <2>3
<1> HIDE DEF A
<1>4. /\ IsFiniteSet(A(0)) /\ Cardinality(A(0)) = Cardinality(Transport)
      /\ IsFiniteSet(A(1)) /\ Cardinality(A(1)) = Cardinality(Transport)
  BY <1>2
<1>5. /\ IsFiniteSet(Attempts)
      /\ Cardinality(Attempts) = Cardinality(A(0)) + Cardinality(A(1)) - Cardinality({})
  BY <1>3, <1>4, FS_Union
<1>6. Cardinality({}) = 0
  BY FS_EmptySet
<1> QED  BY <1>1, <1>4, <1>5, <1>6

-----------------------------------------------------------------------------
(* Types.                                                                  *)

\* A transport that was adopted is with some incarnation.
Homed == \A t \in Transport : phase[t] # "new" => home[t] \in Incarnation

\* Only a transport that obtains a proxy has an await to continue.
Resuming == \A t \in resumed : phase[t] = "obtaining"

Used == {k \in Incarnation : reactor[k] # "none"}

\* f names, for each incarnation, the attempt that spawned it.
SpawnedBy(f) ==
    /\ f \in Injection(Used, Attempts)
    /\ \A k \in Used : phase[f[k][1]] # "new" /\ f[k][2] <= attempt[f[k][1]]

SpawnsCounted == \E f : SpawnedBy(f)

TypeInv == PoolTypeOK /\ Homed /\ Resuming /\ SpawnsCounted

\* The types of the variables that a transport's registration changes.
ObtainTypes ==
    /\ instance \in Incarnation \cup {None}
    /\ future \in [Incarnation -> {"none", "pending", "ready", "failed"}]
    /\ phase \in [Transport -> {"new", "obtaining", "registering", "open", "failed"}]
    /\ attempt \in [Transport -> {0, 1}]
    /\ home \in [Transport -> Incarnation \cup {None}]
    /\ resumed \subseteq Transport
    /\ reactor \in [Incarnation -> {"none", "booting", "running", "exiting", "stopped"}]

\* A transport that stays adopted, with no new incarnation, keeps the count.
LEMMA SpawnsKept ==
    ASSUME SpawnsCounted, attempt \in [Transport -> {0, 1}], Used' = Used,
           \A t \in Transport : phase[t] # "new" => phase'[t] # "new",
           \A t \in Transport : phase[t] # "new" => attempt'[t] \in Int /\ attempt[t] <= attempt'[t]
    PROVE  SpawnsCounted'
<1>1. PICK f : SpawnedBy(f)
  BY DEF SpawnsCounted
<1>2. f \in Injection(Used', Attempts)
  BY <1>1 DEF SpawnedBy
<1>3. ASSUME NEW k \in Used'
      PROVE  phase'[f[k][1]] # "new" /\ f[k][2] <= attempt'[f[k][1]]
  <2>1. f[k] \in Attempts
    BY <1>1, <1>3 DEF SpawnedBy, Injection
  <2>2. f[k][1] \in Transport /\ f[k][2] \in {0, 1}
    BY <2>1 DEF Attempts
  <2>3. phase[f[k][1]] # "new" /\ f[k][2] <= attempt[f[k][1]]
    BY <1>1, <1>3 DEF SpawnedBy
  <2> QED  BY <2>2, <2>3
<1>4. SpawnedBy(f)'
  BY <1>2, <1>3 DEF SpawnedBy, Attempts
<1> QED  BY <1>4 DEF SpawnsCounted

\* An attempt that has not spawned finds an unused incarnation.
LEMMA UnusedLeft ==
    ASSUME NEW f, SpawnedBy(f), NEW x \in Attempts, \A k \in Used : f[k] # x
    PROVE  /\ Min(Unused) \in Incarnation /\ Min(Unused) \notin Used
           /\ \A k \in Incarnation : k # Min(Unused) /\ k \notin Used => k \in Unused
<1>1. IsFiniteSet(Incarnation) /\ Cardinality(Incarnation) = Cardinality(Attempts)
  <2> DEFINE n == 2 * Cardinality(Transport)
  <2>1. n \in Nat
    BY AttemptsCount
  <2>2. Incarnation = 1 .. n
    BY DEF Incarnation
  <2> HIDE DEF n
  <2>3. IsFiniteSet(1 .. n) /\ Cardinality(1 .. n) = n
    BY <2>1, FS_Interval
  <2> QED  BY <2>2, <2>3, AttemptsCount DEF n
<1>2. Unused # {}
  <2> SUFFICES ASSUME Unused = {} PROVE FALSE
    OBVIOUS
  <2>1. Used = Incarnation
    BY DEF Used, Unused
  <2>2. f \in Injection(Used, Attempts)
    BY DEF SpawnedBy
  <2>3. f \in Surjection(Used, Attempts)
    BY <1>1, <2>1, <2>2, AttemptsCount, FS_Injection
  <2>4. \E k \in Used : f[k] = x
    BY <2>3 DEF Surjection
  <2> QED  BY <2>4
<1>3. Unused \subseteq Nat
  BY DEF Unused, Incarnation
<1>4. Min(Unused) \in Unused
  BY <1>2, <1>3, MinIsMember
<1> QED  BY <1>4 DEF Unused, Used

\* What forTransport returns to an attempt that has not been made before.
LEMMA ObtainTyped ==
    ASSUME PoolTypeOK, Homed, Resuming, SpawnsCounted, NEW t \in Transport,
           NEW inst \in Incarnation \cup {None}, NEW act \in Incarnation \cup {None}, NEW shut,
           \/ phase[t] = "new" /\ attempt' = attempt
           \/ phase[t] # "new" /\ attempt[t] = 0 /\ attempt' = [attempt EXCEPT ![t] = @ + 1],
           Obtain(t, inst, act, shut)
    PROVE  /\ ObtainTypes' /\ Homed' /\ Resuming' /\ SpawnsCounted'
           /\ home'[t] \in Incarnation
<1> DEFINE spawns == ~Live(act, shut) /\ inst = None
           k == IF Live(act, shut) THEN act ELSE IF inst # None THEN inst ELSE Min(Unused)
<1>1. PICK f : SpawnedBy(f)
  BY DEF SpawnsCounted
<1>2. /\ phase \in [Transport -> {"new", "obtaining", "registering", "open", "failed"}]
      /\ attempt \in [Transport -> {0, 1}]
      /\ home \in [Transport -> Incarnation \cup {None}]
      /\ future \in [Incarnation -> {"none", "pending", "ready", "failed"}]
      /\ reactor \in [Incarnation -> {"none", "booting", "running", "exiting", "stopped"}]
      /\ resumed \subseteq Transport
  BY DEF PoolTypeOK
<1>3. /\ home' = [home EXCEPT ![t] = k]
      /\ phase' = [phase EXCEPT ![t] = "obtaining"]
      /\ instance' = IF spawns THEN k ELSE inst
      /\ future' = IF spawns THEN [future EXCEPT ![k] = "pending"] ELSE future
      /\ reactor' = IF spawns THEN [reactor EXCEPT ![k] = "booting"] ELSE reactor
      /\ resumed' \subseteq resumed \cup {t}
  BY DEF Obtain
<1>4. /\ attempt' \in [Transport -> {0, 1}]
      /\ \A u \in Transport : attempt[u] <= attempt'[u]
      /\ attempt'[t] \in {0, 1}
  <2>1. CASE attempt' = attempt
    BY <1>2, <2>1
  <2>2. CASE attempt[t] = 0 /\ attempt' = [attempt EXCEPT ![t] = @ + 1]
    BY <1>2, <2>2
  <2> QED  BY <2>1, <2>2
<1> DEFINE x == <<t, attempt'[t]>>
<1>5. x \in Attempts /\ \A j \in Used : f[j] # x
  <2>1. x \in Attempts
    BY <1>4 DEF Attempts
  <2> SUFFICES ASSUME NEW j \in Used, f[j] = x PROVE FALSE
    BY <2>1
  <2>2. f[j][1] = t /\ f[j][2] = attempt'[t]
    OBVIOUS
  <2>3. phase[t] # "new" /\ attempt'[t] <= attempt[t]
    BY <1>1, <2>2 DEF SpawnedBy
  <2> QED  BY <1>2, <2>3
<1> HIDE DEF x
<1>6. spawns => /\ k = Min(Unused) /\ k \in Incarnation /\ k \notin Used
  BY <1>1, <1>5, UnusedLeft
<1>7. k \in Incarnation
  BY <1>6 DEF Live
<1> HIDE DEF k, spawns
<1>8. ObtainTypes'
  BY <1>2, <1>3, <1>4, <1>7 DEF ObtainTypes
<1>9. Homed'
  BY <1>2, <1>3, <1>7 DEF Homed
<1>10. Resuming'
  BY <1>2, <1>3 DEF Resuming
<1>11. phase'[t] # "new" /\ \A u \in Transport : phase[u] # "new" => phase'[u] # "new"
  BY <1>2, <1>3
<1>12. SpawnsCounted'
  <2>1. CASE ~spawns
    <3>1. Used' = Used
      BY <1>3, <2>1 DEF Used
    <3> QED  BY <1>2, <1>4, <1>11, <3>1, SpawnsKept
  <2>2. CASE spawns
    <3> DEFINE g == [j \in Used \cup {k} |-> IF j = k THEN x ELSE f[j]]
    <3>1. Used' = Used \cup {k} /\ k \notin Used
      BY <1>2, <1>3, <1>6, <2>2 DEF Used
    <3>2. /\ f \in [Used -> Attempts] /\ \A i, j \in Used : f[i] = f[j] => i = j
          /\ \A j \in Used : phase[f[j][1]] # "new" /\ f[j][2] <= attempt[f[j][1]]
      BY <1>1 DEF SpawnedBy, Injection, IsInjective
    <3>3. g \in [Used' -> Attempts]
      BY <1>5, <3>1, <3>2
    <3>4. \A i, j \in Used' : g[i] = g[j] => i = j
      BY <1>5, <3>1, <3>2
    <3>5. ASSUME NEW j \in Used'
          PROVE  phase'[g[j][1]] # "new" /\ g[j][2] <= attempt'[g[j][1]]
      <4>1. CASE j = k
        <5>1. g[j][1] = t /\ g[j][2] = attempt'[t]
          BY <3>1, <4>1 DEF x
        <5>2. attempt'[t] <= attempt'[t]
          BY <1>4
        <5> QED  BY <1>11, <5>1, <5>2
      <4>2. CASE j # k
        <5>1. g[j] = f[j] /\ j \in Used
          BY <3>1, <4>2
        <5>2. f[j] \in Attempts
          BY <3>2, <5>1
        <5>3. f[j][1] \in Transport /\ f[j][2] \in {0, 1}
          BY <5>2 DEF Attempts
        <5>4. phase[f[j][1]] # "new" /\ f[j][2] <= attempt[f[j][1]]
          BY <3>2, <5>1
        <5>5. attempt[f[j][1]] \in {0, 1} /\ attempt'[f[j][1]] \in {0, 1}
          BY <1>2, <1>4, <5>3
        <5> QED  BY <1>4, <1>11, <5>1, <5>3, <5>4, <5>5
      <4> QED  BY <4>1, <4>2
    <3> HIDE DEF g
    <3>6. g \in Injection(Used', Attempts)
      BY <3>3, <3>4 DEF Injection, IsInjective
    <3>7. PICK h : /\ h \in Injection(Used', Attempts)
                   /\ \A j \in Used' : phase'[h[j][1]] # "new" /\ h[j][2] <= attempt'[h[j][1]]
      BY <3>5, <3>6
    <3>8. SpawnedBy(h)'
      BY <3>7 DEF SpawnedBy, Attempts
    <3> QED  BY <3>8 DEF SpawnsCounted
  <2> QED  BY <2>1, <2>2
<1>13. home'[t] \in Incarnation
  BY <1>2, <1>3, <1>7
<1> QED  BY <1>8, <1>9, <1>10, <1>12, <1>13

\* The types of the other variables.
OtherTypes ==
    /\ active \in Incarnation \cup {None}
    /\ proxyClosed \subseteq Incarnation
    /\ closed \subseteq Transport
    /\ late \in 0 .. LateTimeouts
    /\ inbox \in Seq(Incoming)
    /\ cmds \in [Incarnation -> Seq(Cmd)]
    /\ registered \in [Incarnation -> SUBSET Transport]
    /\ saw \subseteq Incarnation
    /\ closes \in [Transport -> Nat]

\* The two halves of the types.
LEMMA TypesSplit ==
    /\ TypeInv <=> ObtainTypes /\ OtherTypes /\ Homed /\ Resuming /\ SpawnsCounted
    /\ TypeInv' <=> ObtainTypes' /\ OtherTypes' /\ Homed' /\ Resuming' /\ SpawnsCounted'
  BY DEF TypeInv, PoolTypeOK, ObtainTypes, OtherTypes

\* A transport that stays where it is keeps its home and the count of spawns.
LEMMA TransportsKept ==
    ASSUME TypeInv, UNCHANGED <<phase, attempt, home, resumed>>, Used' = Used
    PROVE  Homed' /\ Resuming' /\ SpawnsCounted'
<1>1. attempt \in [Transport -> {0, 1}]
  BY DEF TypeInv, PoolTypeOK
<1>2. Homed' /\ Resuming'
  BY DEF TypeInv, Homed, Resuming
<1>3. \A t \in Transport : attempt'[t] \in Int /\ attempt[t] <= attempt'[t]
  BY <1>1
<1>4. SpawnsCounted'
  BY <1>1, <1>3, SpawnsKept DEF TypeInv
<1> QED  BY <1>2, <1>4

\* The transport gives up.
LEMMA GiveUpTyped ==
    ASSUME TypeInv, NEW t \in Transport, phase[t] # "new", GiveUp(t),
           instance' \in Incarnation \cup {None}, UNCHANGED <<future, reactor>>
    PROVE  /\ ObtainTypes' /\ Homed' /\ Resuming' /\ SpawnsCounted'
           /\ closed' = closed /\ closes' \in [Transport -> Nat]
<1>1. /\ phase' = [phase EXCEPT ![t] = "failed"] /\ resumed' = resumed \ {t}
      /\ closes' = [closes EXCEPT ![t] = @ + 1]
      /\ attempt' = attempt /\ home' = home /\ closed' = closed
      /\ future' = future /\ reactor' = reactor
  BY DEF GiveUp, Cleanup
<1>2. PoolTypeOK /\ Homed /\ Resuming /\ SpawnsCounted
  BY DEF TypeInv
<1>3. ObtainTypes'
  BY <1>1, <1>2 DEF PoolTypeOK, ObtainTypes
<1>4. Homed' /\ Resuming'
  BY <1>1, <1>2 DEF PoolTypeOK, Homed, Resuming
<1>5. Used' = Used
  BY <1>1 DEF Used
<1>6. SpawnsCounted'
  <2>1. /\ attempt \in [Transport -> {0, 1}]
        /\ \A u \in Transport : attempt'[u] \in Int /\ attempt[u] <= attempt'[u]
        /\ \A u \in Transport : phase[u] # "new" => phase'[u] # "new"
    BY <1>1, <1>2 DEF PoolTypeOK
  <2> QED  BY <1>2, <1>5, <2>1, SpawnsKept
<1>7. closes' \in [Transport -> Nat]
  BY <1>1, <1>2 DEF PoolTypeOK
<1> QED  BY <1>1, <1>3, <1>4, <1>6, <1>7

\* It tries again or gives up.
LEMMA RetryTyped ==
    ASSUME TypeInv, NEW t \in Transport, phase[t] # "new", NEW retryable,
           NEW inst \in Incarnation \cup {None}, NEW act \in Incarnation \cup {None}, NEW shut,
           RetryOrGiveUp(t, retryable, inst, act, shut)
    PROVE  /\ ObtainTypes' /\ Homed' /\ Resuming' /\ SpawnsCounted'
           /\ closed' = closed /\ closes' \in [Transport -> Nat]
<1>1. CASE Retries(t, retryable)
  <2>1. /\ attempt' = [attempt EXCEPT ![t] = @ + 1] /\ Obtain(t, inst, act, shut)
        /\ closed' = closed /\ closes' = closes /\ attempt[t] = 0
    BY <1>1 DEF RetryOrGiveUp, Retries
  <2>2. ObtainTypes' /\ Homed' /\ Resuming' /\ SpawnsCounted'
    BY <2>1, ObtainTyped DEF TypeInv
  <2> QED  BY <2>1, <2>2 DEF TypeInv, PoolTypeOK
<1>2. CASE ~Retries(t, retryable)
  BY <1>2, GiveUpTyped DEF RetryOrGiveUp
<1> QED  BY <1>1, <1>2

\* The proxy of t is given up, and t tries again or gives up.
LEMMA MarkClosedTyped ==
    ASSUME TypeInv, NEW t \in Transport, phase[t] # "new", MarkClosedAndRetry(t)
    PROVE  /\ ObtainTypes' /\ Homed' /\ Resuming' /\ SpawnsCounted'
           /\ active' \in Incarnation \cup {None} /\ proxyClosed' \subseteq Incarnation
           /\ closed' = closed /\ closes' \in [Transport -> Nat]
<1> DEFINE act == IF active = home[t] THEN None ELSE active
<1>1. act \in Incarnation \cup {None} /\ None \in Incarnation \cup {None}
  BY DEF TypeInv, PoolTypeOK
<1>2. home[t] \in Incarnation
  BY DEF TypeInv, Homed
<1>3. /\ proxyClosed' = proxyClosed \cup {home[t]} /\ active' = act
      /\ RetryOrGiveUp(t, TRUE, None, act, proxyClosed \cup {home[t]})
  BY DEF MarkClosedAndRetry
<1> HIDE DEF act
<1>4. /\ ObtainTypes' /\ Homed' /\ Resuming' /\ SpawnsCounted'
      /\ closed' = closed /\ closes' \in [Transport -> Nat]
  BY <1>1, <1>3, RetryTyped
<1> QED  BY <1>1, <1>2, <1>3, <1>4 DEF TypeInv, PoolTypeOK

\* A command keeps the queues of commands typed.
LEMMA DeliverTyped ==
    ASSUME TypeInv, NEW k \in Incarnation, NEW t \in Transport, NEW kind \in {"register", "close"}
    PROVE  Deliver(k, kind, t) \in [Incarnation -> Seq(Cmd)]
<1>1. [kind |-> kind, t |-> t] \in Cmd
  BY DEF Cmd
<1>2. cmds \in [Incarnation -> Seq(Cmd)] /\ cmds[k] \in Seq(Cmd)
  BY DEF TypeInv, PoolTypeOK
<1>3. Append(cmds[k], [kind |-> kind, t |-> t]) \in Seq(Cmd)
  BY <1>1, <1>2
<1> QED  BY <1>2, <1>3 DEF Deliver

\* The messages of transports that were closed.
Closings == {m \in Incoming : m.kind = "closed"}

\* A batch of closed transports is announced by a sequence of such messages.
LEMMA ClosingsQueued ==
    ASSUME NEW k \in Incarnation, NEW S \in SUBSET Transport
    PROVE  SetToSeq({About("closed", k, t) : t \in S}) \in Seq(Closings)
<1> DEFINE M == {About("closed", k, t) : t \in S}
           f == [t \in S |-> About("closed", k, t)]
<1>1. IsFiniteSet(S)
  BY PoolAssumption, FS_Subset
<1>2. f \in Surjection(S, M)
  BY DEF Surjection
<1>3. M \subseteq Closings
  BY DEF Closings, Incoming, About
<1> HIDE DEF M, f
<1>4. IsFiniteSet(M)
  BY <1>1, <1>2, FS_Surjection
<1>5. SetToSeq(M) \in Seq(M)
  BY <1>4, SetAsQueue
<1>6. SetToSeq(M) \in Seq(Closings)
  BY <1>3, <1>5
<1> QED  BY <1>6 DEF M

\* Closing transports.
LEMMA CloseStatesTyped ==
    ASSUME TypeInv, NEW k \in Incarnation, NEW S \in SUBSET Transport, CloseStates(k, S)
    PROVE  /\ registered' \in [Incarnation -> SUBSET Transport]
           /\ closes' \in [Transport -> Nat]
           /\ inbox' \in Seq(Incoming)
<1> DEFINE z == SetToSeq({About("closed", k, t) : t \in S})
<1>1. z \in Seq(Closings) /\ Closings \subseteq Incoming
  BY ClosingsQueued DEF Closings
<1>2. /\ registered' = [registered EXCEPT ![k] = @ \ S] /\ inbox' = inbox \o z
      /\ closes' = [t \in Transport |-> IF t \in S THEN closes[t] + 1 ELSE closes[t]]
  BY DEF CloseStates
<1> HIDE DEF z
<1>3. inbox \in Seq(Incoming) /\ z \in Seq(Incoming)
  BY <1>1 DEF TypeInv, PoolTypeOK
<1>4. inbox' \in Seq(Incoming)
  BY <1>2, <1>3
<1> QED  BY <1>2, <1>4 DEF TypeInv, PoolTypeOK

\* The message that the main isolate takes.
LEMMA MessageTyped ==
    ASSUME TypeInv, NEW kind, NextMessage(kind)
    PROVE  /\ inbox \in Seq(Incoming) /\ inbox # <<>>
           /\ Head(inbox) \in Incoming /\ Head(inbox).kind = kind
           /\ inbox' = Tail(inbox) /\ inbox' \in Seq(Incoming) /\ resumed = {}
           /\ Head(inbox).k \in Incarnation
           /\ kind \in {"registered", "refused", "closed"} => Head(inbox).t \in Transport
<1>1. inbox \in Seq(Incoming) /\ inbox # <<>> /\ inbox' = Tail(inbox)
      /\ Head(inbox).kind = kind /\ resumed = {}
  BY DEF TypeInv, PoolTypeOK, NextMessage
<1>2. Head(inbox) \in Incoming /\ inbox' \in Seq(Incoming)
  BY <1>1
<1> DEFINE m == Head(inbox)
<1>3. m \in Incoming /\ m.kind = kind
  BY <1>1, <1>2
<1> HIDE DEF m
<1>4. m.k \in Incarnation
  BY <1>3 DEF Incoming
<1>5. kind \in {"registered", "refused", "closed"} => m.t \in Transport
  BY <1>3 DEF Incoming
<1> QED  BY <1>1, <1>2, <1>4, <1>5 DEF m

\* The command that an incarnation takes.
LEMMA CommandTyped ==
    ASSUME TypeInv, NEW k \in Incarnation, NEW kind, NextCommand(k, kind)
    PROVE  /\ cmds[k] \in Seq(Cmd) /\ cmds[k] # <<>>
           /\ Head(cmds[k]) \in Cmd /\ Head(cmds[k]).kind = kind
           /\ Head(cmds[k]).t \in Transport
           /\ Head(cmds[k]) = [kind |-> kind, t |-> Head(cmds[k]).t]
           /\ cmds' = [cmds EXCEPT ![k] = Tail(@)] /\ cmds' \in [Incarnation -> Seq(Cmd)]
           /\ reactor[k] = "running"
<1>1. cmds \in [Incarnation -> Seq(Cmd)] /\ cmds[k] \in Seq(Cmd) /\ cmds[k] # <<>>
      /\ Head(cmds[k]).kind = kind /\ cmds' = [cmds EXCEPT ![k] = Tail(@)]
      /\ reactor[k] = "running"
  BY DEF TypeInv, PoolTypeOK, NextCommand
<1>2. Head(cmds[k]) \in Cmd /\ Tail(cmds[k]) \in Seq(Cmd)
  BY <1>1
<1> DEFINE m == Head(cmds[k])
<1>3. m \in Cmd /\ m.kind = kind
  BY <1>1, <1>2
<1> HIDE DEF m
<1>4. m.t \in Transport /\ m = [kind |-> kind, t |-> m.t]
  BY <1>3 DEF Cmd
<1> QED  BY <1>1, <1>2, <1>4 DEF m

\* Adoption and registration keep the types.
LEMMA RegisterKeepsTypes ==
    ASSUME TypeInv, NEW t \in Transport, Adopt(t) \/ Register(t)
    PROVE  TypeInv'
<1>1. ObtainTypes /\ OtherTypes /\ Homed /\ Resuming
  BY TypesSplit
<1>2. CASE Adopt(t)
  <2>1. /\ Obtain(t, instance, active, proxyClosed) /\ phase[t] = "new" /\ attempt' = attempt
        /\ UNCHANGED <<active, proxyClosed, closed, late, inbox, cmds, registered, saw, closes>>
    BY <1>2 DEF Adopt
  <2>2. ObtainTypes' /\ Homed' /\ Resuming' /\ SpawnsCounted'
    BY <2>1, ObtainTyped DEF TypeInv, PoolTypeOK
  <2>3. OtherTypes'
    BY <1>1, <2>1 DEF OtherTypes
  <2> QED  BY <2>2, <2>3, TypesSplit
<1>3. t \in resumed => phase[t] # "new" /\ home[t] \in Incarnation
  BY <1>1 DEF Homed, Resuming
<1>4. CASE RegisterUnstarted(t)
  <2>1. /\ t \in resumed /\ GiveUp(t)
        /\ UNCHANGED <<instance, future, reactor>>
        /\ UNCHANGED <<active, proxyClosed, late, inbox, cmds, registered, saw>>
    BY <1>4 DEF RegisterUnstarted, tableVars, reactorVars
  <2>2. /\ ObtainTypes' /\ Homed' /\ Resuming' /\ SpawnsCounted'
        /\ closed' = closed /\ closes' \in [Transport -> Nat]
    BY <1>1, <1>3, <2>1, GiveUpTyped DEF ObtainTypes
  <2>3. OtherTypes'
    BY <1>1, <2>1, <2>2 DEF OtherTypes
  <2> QED  BY <2>2, <2>3, TypesSplit
<1>5. CASE RegisterStopped(t)
  <2>1. /\ t \in resumed /\ RetryOrGiveUp(t, FALSE, None, active, proxyClosed)
        /\ UNCHANGED <<active, proxyClosed, late, inbox, cmds, registered, saw>>
    BY <1>5 DEF RegisterStopped
  <2>2. /\ ObtainTypes' /\ Homed' /\ Resuming' /\ SpawnsCounted'
        /\ closed' = closed /\ closes' \in [Transport -> Nat]
    BY <1>1, <1>3, <2>1, RetryTyped DEF OtherTypes
  <2>3. OtherTypes'
    BY <1>1, <2>1, <2>2 DEF OtherTypes
  <2> QED  BY <2>2, <2>3, TypesSplit
<1>6. CASE RegisterUnwoken(t)
  <2>1. /\ t \in resumed /\ MarkClosedAndRetry(t)
        /\ cmds' = Deliver(home[t], "register", t)
        /\ UNCHANGED <<late, inbox, registered, saw>>
    BY <1>6 DEF RegisterUnwoken, Reachable
  <2>2. /\ ObtainTypes' /\ Homed' /\ Resuming' /\ SpawnsCounted'
        /\ active' \in Incarnation \cup {None} /\ proxyClosed' \subseteq Incarnation
        /\ closed' = closed /\ closes' \in [Transport -> Nat]
    BY <1>3, <2>1, MarkClosedTyped
  <2>3. cmds' \in [Incarnation -> Seq(Cmd)]
    BY <1>3, <2>1, DeliverTyped
  <2>4. OtherTypes'
    BY <1>1, <2>1, <2>2, <2>3 DEF OtherTypes
  <2> QED  BY <2>2, <2>4, TypesSplit
<1>7. CASE RegisterSent(t)
  <2>1. /\ t \in resumed /\ cmds' = Deliver(home[t], "register", t)
        /\ phase' = [phase EXCEPT ![t] = "registering"] /\ resumed' = resumed \ {t}
        /\ UNCHANGED <<instance, future, attempt, home, reactor>>
        /\ UNCHANGED <<active, proxyClosed, closed, late, inbox, registered, saw, closes>>
    BY <1>7 DEF RegisterSent, Reachable, tableVars
  <2>2. cmds' \in [Incarnation -> Seq(Cmd)]
    BY <1>3, <2>1, DeliverTyped
  <2>3. OtherTypes'
    BY <1>1, <2>1, <2>2 DEF OtherTypes
  <2>4. ObtainTypes' /\ Homed' /\ Resuming'
    BY <1>1, <2>1 DEF ObtainTypes, Homed, Resuming
  <2>5. Used' = Used
    BY <2>1 DEF Used
  <2>6. SpawnsCounted'
    <3>1. /\ attempt \in [Transport -> {0, 1}]
          /\ \A u \in Transport : attempt'[u] \in Int /\ attempt[u] <= attempt'[u]
          /\ \A u \in Transport : phase[u] # "new" => phase'[u] # "new"
      BY <1>1, <2>1 DEF ObtainTypes
    <3> QED  BY <2>5, <3>1, SpawnsKept DEF TypeInv
  <2> QED  BY <2>3, <2>4, <2>6, TypesSplit
<1> QED  BY <1>2, <1>4, <1>5, <1>6, <1>7 DEF Register

\* The calls of the application keep them.
LEMMA CallsKeepTypes ==
    ASSUME TypeInv, NEW t \in Transport, Close(t) \/ CommandRefused(t)
    PROVE  TypeInv'
<1>1. ObtainTypes /\ OtherTypes /\ Homed
  BY TypesSplit
<1>2. phase[t] = "open" /\ home[t] \in Incarnation
  BY <1>1 DEF Close, CommandRefused, Usable, Homed
<1>3. /\ SendEffect(home[t]) /\ closed' \in {closed, closed \cup {t}}
      /\ UNCHANGED <<future, phase, attempt, home, resumed, reactor>>
      /\ UNCHANGED <<late, inbox, registered, saw, closes>>
      /\ \/ cmds' = cmds
         \/ cmds' = Deliver(home[t], "close", t)
  BY DEF Close, CommandRefused, reactorVars
<1>4. /\ instance' \in Incarnation \cup {None} /\ active' \in Incarnation \cup {None}
      /\ proxyClosed' \subseteq Incarnation
  BY <1>1, <1>2, <1>3 DEF SendEffect, MarkClosed, ObtainTypes, OtherTypes
<1>5. cmds' \in [Incarnation -> Seq(Cmd)]
  BY <1>1, <1>2, <1>3, DeliverTyped DEF OtherTypes
<1>6. ObtainTypes' /\ OtherTypes'
  BY <1>1, <1>3, <1>4, <1>5 DEF ObtainTypes, OtherTypes
<1>7. Used' = Used
  BY <1>3 DEF Used
<1> QED  BY <1>3, <1>6, <1>7, TransportsKept, TypesSplit

\* A spawn that fails keeps them.
LEMMA SpawnFailsTyped ==
    ASSUME TypeInv, NEW k \in Incarnation, SpawnFails(k), UNCHANGED late,
           inbox' \in Seq(Incoming)
    PROVE  TypeInv'
<1>1. ObtainTypes /\ OtherTypes /\ Homed /\ Resuming
  BY TypesSplit
<1>2. /\ future' = [future EXCEPT ![k] = "failed"] /\ instance' = None /\ resumed' = WaitersOf(k)
      /\ UNCHANGED <<phase, attempt, home, reactor>>
      /\ UNCHANGED <<active, proxyClosed, closed, cmds, registered, saw, closes, late>>
  BY DEF SpawnFails, reactorVars
<1>3. ObtainTypes' /\ OtherTypes' /\ Homed' /\ Resuming'
  BY <1>1, <1>2 DEF ObtainTypes, OtherTypes, Homed, Resuming, WaitersOf
<1>4. Used' = Used /\ attempt \in [Transport -> {0, 1}]
  BY <1>1, <1>2 DEF Used, ObtainTypes
<1>5. SpawnsCounted'
  BY <1>2, <1>4, SpawnsKept DEF TypeInv
<1> QED  BY <1>3, <1>5, TypesSplit

\* The messages and timers of the main isolate keep them.
LEMMA MessagesKeepTypes ==
    ASSUME TypeInv, HandleMessage \/ SpawnTimesOut \/ \E t \in Transport : RegisterTimesOut(t)
    PROVE  TypeInv'
<1>1. ObtainTypes /\ OtherTypes /\ Homed /\ Resuming /\ SpawnsCounted
  BY TypesSplit
<1>2. CASE HandleReady
  <2>1. Head(inbox).k \in Incarnation /\ inbox' \in Seq(Incoming)
    BY <1>2, MessageTyped DEF HandleReady
  <2>2. /\ \/ /\ future' = [future EXCEPT ![Head(inbox).k] = "ready"]
              /\ active' = Head(inbox).k /\ resumed' = WaitersOf(Head(inbox).k)
           \/ UNCHANGED <<future, active, resumed>>
        /\ UNCHANGED <<instance, phase, attempt, home, reactor>>
        /\ UNCHANGED <<proxyClosed, closed, late, cmds, registered, saw, closes>>
    BY <1>2 DEF HandleReady, reactorVars
  <2>3. ObtainTypes' /\ OtherTypes' /\ Homed' /\ Resuming'
    BY <1>1, <2>1, <2>2 DEF ObtainTypes, OtherTypes, Homed, Resuming, WaitersOf
  <2>4. Used' = Used /\ attempt \in [Transport -> {0, 1}]
    BY <1>1, <2>2 DEF Used, ObtainTypes
  <2>5. SpawnsCounted'
    BY <1>1, <2>2, <2>4, SpawnsKept
  <2> QED  BY <2>3, <2>5, TypesSplit
<1>3. CASE HandleBootError
  <2>1. Head(inbox).k \in Incarnation /\ inbox' \in Seq(Incoming)
    BY <1>3, MessageTyped DEF HandleBootError
  <2>2. CASE SpawnFails(Head(inbox).k)
    BY <1>3, <2>1, <2>2, SpawnFailsTyped DEF HandleBootError
  <2>3. CASE ~SpawnFails(Head(inbox).k)
    <3>1. /\ UNCHANGED <<instance, future, phase, attempt, home, resumed, reactor>>
          /\ UNCHANGED <<active, proxyClosed, closed, late, cmds, registered, saw, closes>>
      BY <1>3, <2>3 DEF HandleBootError, tableVars, transportVars, reactorVars
    <3>2. ObtainTypes' /\ OtherTypes' /\ Used' = Used
      BY <1>1, <2>1, <3>1 DEF ObtainTypes, OtherTypes, Used
    <3> QED  BY <3>1, <3>2, TransportsKept, TypesSplit
  <2> QED  BY <2>2, <2>3
<1>4. CASE SpawnTimesOut
  <2>1. PICK k \in Incarnation : SpawnFails(k)
    BY <1>4 DEF SpawnTimesOut
  <2>2. late' = late /\ inbox' \in Seq(Incoming)
    BY <1>1, <1>4 DEF SpawnTimesOut, OtherTypes
  <2> QED  BY <2>1, <2>2, SpawnFailsTyped
<1>5. CASE HandleExit
  <2>1. Head(inbox).k \in Incarnation /\ inbox' \in Seq(Incoming)
    BY <1>5, MessageTyped DEF HandleExit
  <2>2. /\ proxyClosed' \subseteq proxyClosed \cup {Head(inbox).k}
        /\ active' \in {None, active} /\ instance' \in {None, instance}
        /\ UNCHANGED <<future, phase, attempt, home, resumed, reactor>>
        /\ UNCHANGED <<closed, late, cmds, registered, saw, closes>>
    BY <1>5 DEF HandleExit, transportVars, reactorVars
  <2>3. ObtainTypes' /\ OtherTypes' /\ Used' = Used
    BY <1>1, <2>1, <2>2 DEF ObtainTypes, OtherTypes, Used
  <2> QED  BY <2>2, <2>3, TransportsKept, TypesSplit
<1>6. CASE HandleRegistered
  <2>1. Head(inbox).t \in Transport /\ inbox' \in Seq(Incoming) /\ resumed = {}
    BY <1>6, MessageTyped DEF HandleRegistered
  <2>2. /\ \/ phase' = phase
           \/ phase[Head(inbox).t] = "registering"
              /\ phase' = [phase EXCEPT ![Head(inbox).t] = "open"]
        /\ UNCHANGED <<instance, future, attempt, home, resumed, reactor>>
        /\ UNCHANGED <<active, proxyClosed, closed, late, cmds, registered, saw, closes>>
    BY <1>6 DEF HandleRegistered, Answered, tableVars, reactorVars
  <2>3. ObtainTypes' /\ OtherTypes' /\ Homed' /\ Resuming'
    BY <1>1, <2>1, <2>2 DEF ObtainTypes, OtherTypes, Homed, Resuming
  <2>4. /\ Used' = Used /\ attempt \in [Transport -> {0, 1}]
        /\ \A u \in Transport : attempt'[u] \in Int /\ attempt[u] <= attempt'[u]
        /\ \A u \in Transport : phase[u] # "new" => phase'[u] # "new"
    BY <1>1, <2>2 DEF Used, ObtainTypes
  <2>5. SpawnsCounted'
    BY <1>1, <2>4, SpawnsKept
  <2> QED  BY <2>3, <2>5, TypesSplit
<1>7. CASE HandleRefused
  <2> DEFINE t == Head(inbox).t
  <2>1. t \in Transport /\ inbox' \in Seq(Incoming)
    BY <1>7, MessageTyped DEF HandleRefused
  <2>2. UNCHANGED <<active, proxyClosed, late, cmds, registered, saw>>
    BY <1>7 DEF HandleRefused
  <2>3. CASE Answered(Head(inbox).k, t)
    <3>1. phase[t] # "new" /\ RetryOrGiveUp(t, FALSE, instance, active, proxyClosed)
      BY <1>7, <2>3 DEF HandleRefused, Answered
    <3> HIDE DEF t
    <3>2. /\ ObtainTypes' /\ Homed' /\ Resuming' /\ SpawnsCounted'
          /\ closed' = closed /\ closes' \in [Transport -> Nat]
      BY <1>1, <2>1, <3>1, RetryTyped DEF ObtainTypes, OtherTypes
    <3>3. OtherTypes'
      BY <1>1, <2>1, <2>2, <3>2 DEF OtherTypes
    <3> QED  BY <3>2, <3>3, TypesSplit
  <2>4. CASE ~Answered(Head(inbox).k, t)
    <3>1. /\ UNCHANGED <<instance, future, phase, attempt, home, resumed, reactor>>
          /\ UNCHANGED <<closed, closes>>
      BY <1>7, <2>4 DEF HandleRefused, transportVars
    <3>2. ObtainTypes' /\ OtherTypes' /\ Used' = Used
      BY <1>1, <2>1, <2>2, <3>1 DEF ObtainTypes, OtherTypes, Used
    <3> QED  BY <3>1, <3>2, TransportsKept, TypesSplit
  <2> QED  BY <2>3, <2>4
<1>8. CASE HandleClosed
  <2>1. Head(inbox).t \in Transport /\ inbox' \in Seq(Incoming)
    BY <1>8, MessageTyped DEF HandleClosed
  <2>2. /\ closed' \subseteq closed \cup {Head(inbox).t}
        /\ UNCHANGED <<instance, future, phase, attempt, home, resumed, reactor>>
        /\ UNCHANGED <<active, proxyClosed, late, cmds, registered, saw, closes>>
    BY <1>8 DEF HandleClosed, tableVars, reactorVars
  <2>3. ObtainTypes' /\ OtherTypes' /\ Used' = Used
    BY <1>1, <2>1, <2>2 DEF ObtainTypes, OtherTypes, Used
  <2> QED  BY <2>2, <2>3, TransportsKept, TypesSplit
<1>9. ASSUME NEW t \in Transport, RegisterTimesOut(t) PROVE TypeInv'
  <2>1. /\ phase[t] # "new" /\ MarkClosedAndRetry(t)
        /\ late' = late \/ (late > 0 /\ late' = late - 1)
        /\ UNCHANGED <<inbox, cmds, registered, saw>>
    BY <1>9 DEF RegisterTimesOut, TimerArmed
  <2>2. /\ ObtainTypes' /\ Homed' /\ Resuming' /\ SpawnsCounted'
        /\ active' \in Incarnation \cup {None} /\ proxyClosed' \subseteq Incarnation
        /\ closed' = closed /\ closes' \in [Transport -> Nat]
    BY <2>1, MarkClosedTyped
  <2>3. late' \in 0 .. LateTimeouts
    BY <1>1, <2>1, PoolAssumption DEF OtherTypes
  <2>4. OtherTypes'
    BY <1>1, <2>1, <2>2, <2>3 DEF OtherTypes
  <2> QED  BY <2>2, <2>4, TypesSplit
<1> QED  BY <1>2, <1>3, <1>4, <1>5, <1>6, <1>7, <1>8, <1>9 DEF HandleMessage

\* A step of a reactor leaves the main isolate alone.
LEMMA ReactorKeepsTypes ==
    ASSUME TypeInv, NEW k \in Incarnation, Reactor(k)
    PROVE  TypeInv'
<1>1. ObtainTypes /\ OtherTypes
  BY TypesSplit
<1>2. /\ UNCHANGED <<instance, active, future, proxyClosed>>
      /\ UNCHANGED <<phase, attempt, home, closed, resumed, late>>
  BY DEF Reactor, Boot, ProcessCommand, ProcessRegister, ProcessClose, TransportEnds, IdleExit,
         WaitFails, StopPoller, mainVars, tableVars, transportVars
<1>3. /\ reactor[k] # "none"
      /\ \/ reactor' = reactor
         \/ \E s \in {"running", "exiting", "stopped"} : reactor' = [reactor EXCEPT ![k] = s]
  BY DEF Reactor, Boot, ProcessCommand, ProcessRegister, ProcessClose, NextCommand,
         TransportEnds, IdleExit, WaitFails, StopPoller
<1>4. ObtainTypes' /\ Used' = Used
  BY <1>1, <1>2, <1>3 DEF ObtainTypes, Used
<1>5. SUFFICES /\ inbox' \in Seq(Incoming) /\ cmds' \in [Incarnation -> Seq(Cmd)]
               /\ registered' \in [Incarnation -> SUBSET Transport]
               /\ saw' \subseteq Incarnation /\ closes' \in [Transport -> Nat]
  <2>1. OtherTypes'
    BY <1>1, <1>2, <1>5 DEF OtherTypes
  <2> QED  BY <1>2, <1>4, <2>1, TransportsKept, TypesSplit
<1>6. /\ inbox \in Seq(Incoming) /\ cmds \in [Incarnation -> Seq(Cmd)]
      /\ registered \in [Incarnation -> SUBSET Transport]
      /\ saw \subseteq Incarnation /\ closes \in [Transport -> Nat]
  BY <1>1 DEF OtherTypes
<1>7. CASE Boot(k)
  <2>1. OfShard("ready", k) \in Incoming /\ OfShard("bootError", k) \in Incoming
    BY DEF OfShard, Incoming
  <2>2. \/ inbox' = Append(inbox, OfShard("ready", k))
        \/ inbox' = Append(inbox, OfShard("bootError", k))
    BY <1>7 DEF Boot
  <2>3. inbox' \in Seq(Incoming)
    <3>1. \A x \in Incoming : Append(inbox, x) \in Seq(Incoming)
      BY <1>6
    <3> QED  BY <2>1, <2>2, <3>1
  <2> QED  BY <1>6, <1>7, <2>3 DEF Boot
<1>8. CASE StopPoller(k)
  <2>1. OfShard("exit", k) \in Incoming
    BY DEF OfShard, Incoming
  <2> QED  BY <1>6, <1>8, <2>1 DEF StopPoller
<1>9. CASE IdleExit(k)
  BY <1>6, <1>9 DEF IdleExit
<1>10. CASE ProcessRegister(k)
  <2> DEFINE t == Head(cmds[k]).t
  <2>1. t \in Transport /\ cmds' \in [Incarnation -> Seq(Cmd)]
    BY <1>10, CommandTyped DEF ProcessRegister
  <2>2. /\ inbox' \in {Append(inbox, About("registered", k, t)), Append(inbox, About("refused", k, t))}
        /\ registered' \in {registered, [registered EXCEPT ![k] = @ \cup {t}]}
        /\ saw' \in {saw, saw \cup {k}} /\ closes' = closes
    BY <1>10 DEF ProcessRegister, RefusedOnly
  <2> HIDE DEF t
  <2>3. About("registered", k, t) \in Incoming /\ About("refused", k, t) \in Incoming
    BY <2>1 DEF About, Incoming
  <2>4. inbox' \in Seq(Incoming)
    <3>1. \A x \in Incoming : Append(inbox, x) \in Seq(Incoming)
      BY <1>6
    <3> QED  BY <2>2, <2>3, <3>1
  <2>5. registered' \in [Incarnation -> SUBSET Transport] /\ saw' \subseteq Incarnation
    BY <1>6, <2>1, <2>2
  <2> QED  BY <1>6, <2>1, <2>2, <2>4, <2>5
<1>11. CASE ProcessClose(k)
  <2>1. cmds' \in [Incarnation -> Seq(Cmd)] /\ saw' = saw
    BY <1>11, CommandTyped DEF ProcessClose
  <2>2. PICK S \in SUBSET Transport : CloseStates(k, S)
    BY <1>6, <1>11 DEF ProcessClose
  <2> QED  BY <1>6, <2>1, <2>2, CloseStatesTyped
<1>12. CASE TransportEnds(k)
  <2>1. cmds' = cmds /\ saw' = saw
    BY <1>12 DEF TransportEnds
  <2>2. PICK S \in SUBSET Transport : CloseStates(k, S)
    BY <1>6, <1>12 DEF TransportEnds
  <2> QED  BY <1>6, <2>1, <2>2, CloseStatesTyped
<1>13. CASE WaitFails(k)
  <2>1. cmds' = cmds /\ saw' = saw
    BY <1>13 DEF WaitFails
  <2>2. PICK S \in SUBSET Transport : CloseStates(k, S)
    BY <1>6, <1>13 DEF WaitFails
  <2> QED  BY <1>6, <2>1, <2>2, CloseStatesTyped
<1> QED  BY <1>7, <1>8, <1>9, <1>10, <1>11, <1>12, <1>13 DEF Reactor, ProcessCommand

\* Nothing was spawned at first.
LEMMA TypeStarts ==
    ASSUME PoolInit
    PROVE  TypeInv
<1>1. ObtainTypes /\ OtherTypes
  BY PoolAssumption DEF PoolInit, ObtainTypes, OtherTypes
<1>2. Homed /\ Resuming
  BY DEF PoolInit, Homed, Resuming
<1>3. Used = {}
  BY DEF PoolInit, Used
<1> DEFINE f == [k \in {} |-> <<0, 0>>]
<1>4. f \in [{} -> Attempts]
  OBVIOUS
<1>5. SpawnedBy(f)
  BY <1>3, <1>4 DEF SpawnedBy, Injection, IsInjective
<1>6. SpawnsCounted
  BY <1>5 DEF SpawnsCounted
<1> QED  BY <1>1, <1>2, <1>6, TypesSplit

\* Every step keeps the types.
LEMMA TypeSteps ==
    ASSUME TypeInv, [PoolNext]_poolVars
    PROVE  TypeInv'
<1>1. CASE UNCHANGED poolVars
  <2>1. /\ UNCHANGED <<instance, active, future, proxyClosed>>
        /\ UNCHANGED <<phase, attempt, home, closed, resumed, late>>
        /\ UNCHANGED <<inbox, reactor, cmds, registered, saw, closes>>
    BY <1>1 DEF poolVars, mainVars, tableVars, transportVars, reactorVars
  <2>2. ObtainTypes' /\ OtherTypes' /\ Used' = Used
    BY <2>1, TypesSplit DEF ObtainTypes, OtherTypes, Used
  <2> QED  BY <2>1, <2>2, TransportsKept, TypesSplit
<1>2. ASSUME NEW t \in Transport, Adopt(t) \/ Register(t) PROVE TypeInv'
  BY <1>2, RegisterKeepsTypes
<1>3. ASSUME NEW t \in Transport, Close(t) \/ CommandRefused(t) PROVE TypeInv'
  BY <1>3, CallsKeepTypes
<1>4. ASSUME HandleMessage \/ SpawnTimesOut \/ \E t \in Transport : RegisterTimesOut(t)
      PROVE  TypeInv'
  BY <1>4, MessagesKeepTypes
<1>5. ASSUME NEW k \in Incarnation, Reactor(k) PROVE TypeInv'
  BY <1>5, ReactorKeepsTypes
<1> QED  BY <1>1, <1>2, <1>3, <1>4, <1>5 DEF PoolNext, Main

\* Every variable keeps its type, whatever fails and however many registrations
\* are late: in particular forTransport always finds a reactor, as a transport
\* spawns at most one for each attempt that _registerWithReactor makes.
THEOREM PoolTyped == PoolSpec => []PoolTypeOK
<1>1. PoolInit => TypeInv
  BY TypeStarts
<1>2. TypeInv /\ [PoolNext]_poolVars => TypeInv'
  BY TypeSteps
<1>3. TypeInv => PoolTypeOK
  BY DEF TypeInv
<1> QED  BY <1>1, <1>2, <1>3, PTL DEF PoolSpec

-----------------------------------------------------------------------------
(* Ownership, while no registration times out with an answer coming.       *)

Answers == {"registered", "refused"}

\* The incarnations that were asked to register t, those that accepted and
\* those that refused, as far as the command or the answer is on its way.
AskedBy(t) == {k \in Incarnation : Holds(cmds[k], [kind |-> "register", t |-> t])}
AcceptedBy(t) == {k \in Incarnation : Holds(inbox, About("registered", k, t))}
RefusedBy(t) == {k \in Incarnation : Holds(inbox, About("refused", k, t))}

\* Nothing about t is on its way, and nobody owns it.
AtRest(t) == AskedBy(t) = {} /\ AcceptedBy(t) = {} /\ RefusedBy(t) = {} /\ Owners(t) = {}

\* Everything about t concerns its home; a command comes before its answer, a
\* registration is in force only before a close, and while t waits for the answer
\* of an owner that answer is there.
Consistent(t) ==
    /\ AskedBy(t) \subseteq {home[t]} /\ AcceptedBy(t) \subseteq {home[t]}
    /\ RefusedBy(t) \subseteq {home[t]} /\ Owners(t) \subseteq {home[t]}
    /\ AskedBy(t) # {} =>
         /\ phase[t] = "registering" /\ closes[t] = 0
         /\ AcceptedBy(t) = {} /\ RefusedBy(t) = {} /\ Owners(t) = {}
    /\ RefusedBy(t) # {} => phase[t] = "registering" /\ closes[t] = 0 /\ Owners(t) = {}
    /\ AcceptedBy(t) # {} => phase[t] = "registering"
    /\ Owners(t) # {} => phase[t] \in {"registering", "open"} /\ closes[t] = 0
    /\ phase[t] = "registering" /\ AcceptedBy(t) = {} => Owners(t) = {} /\ closes[t] = 0
    /\ phase[t] \in {"new", "obtaining"} => closes[t] = 0

\* At most one answer about a transport is on its way, and one request.
AskedOnce == Once(inbox, Answers) /\ \A k \in Incarnation : Once(cmds[k], {"register"})

OwnInv == TypeInv /\ AskedOnce /\ \A t \in Transport : Consistent(t)

\* What Consistent says of t has not changed.
Kept(t) ==
    /\ phase'[t] = phase[t] /\ home'[t] = home[t] /\ closes'[t] = closes[t]
    /\ AskedBy(t)' = AskedBy(t) /\ AcceptedBy(t)' = AcceptedBy(t)
    /\ RefusedBy(t)' = RefusedBy(t) /\ Owners(t)' = Owners(t)

\* A transport of which nothing changed stays consistent.
LEMMA KeptConsistent ==
    ASSUME NEW t \in Transport, Consistent(t), Kept(t)
    PROVE  Consistent(t)'
  BY DEF Consistent, Kept

\* A transport that is not registering and not open is at rest.
LEMMA IdleAtRest ==
    ASSUME NEW t \in Transport, Consistent(t), phase[t] \in {"new", "obtaining", "failed"}
    PROVE  AtRest(t)
  BY DEF Consistent, AtRest

\* A transport at rest may obtain a proxy while its descriptor is open, and fail.
LEMMA AtRestConsistent ==
    ASSUME NEW t \in Transport, AtRest(t)',
           \/ phase'[t] = "failed"
           \/ phase'[t] \in {"new", "obtaining", "registering"} /\ closes'[t] = 0
    PROVE  Consistent(t)'
  BY DEF Consistent, AtRest

\* An answer about t leaves the inbox.
LEMMA AnswerTaken ==
    ASSUME OwnInv, NEW kind \in Answers, NextMessage(kind),
           NEW k, k = Head(inbox).k, NEW t, t = Head(inbox).t
    PROVE  /\ t \in Transport /\ k \in Incarnation
           /\ kind = "registered" => k \in AcceptedBy(t)
           /\ kind = "refused" => k \in RefusedBy(t)
           /\ AcceptedBy(t)' = {} /\ RefusedBy(t)' = {}
           /\ \A u \in Transport : u # t =>
                AcceptedBy(u)' = AcceptedBy(u) /\ RefusedBy(u)' = RefusedBy(u)
           /\ Once(inbox', Answers)
<1>1. /\ inbox \in Seq(Incoming) /\ inbox # <<>> /\ Head(inbox) \in Incoming
      /\ Head(inbox).kind = kind /\ inbox' = Tail(inbox) /\ k \in Incarnation /\ t \in Transport
  BY MessageTyped DEF OwnInv, Answers
<1>2. Head(inbox) = About(kind, k, t)
  <2> DEFINE m == Head(inbox)
  <2>1. m \in Incoming /\ m.kind = kind /\ m.k = k /\ m.t = t
    BY <1>1
  <2> HIDE DEF m
  <2>2. m = About(kind, k, t)
    BY <2>1 DEF Incoming, Answers, About
  <2> QED  BY <2>2 DEF m
<1>3. /\ \A m : Holds(inbox, m) <=> m = About(kind, k, t) \/ Holds(inbox', m)
      /\ Holds(inbox, About(kind, k, t)) /\ Once(inbox', Answers)
      /\ \A m : Holds(inbox', m) /\ m.kind \in Answers => m.t # t
  <2>1. Once(inbox, Answers)
    BY DEF OwnInv, AskedOnce
  <2> QED  BY <1>1, <1>2, <2>1, QueueTail
<1>4. ASSUME NEW a \in Answers, NEW j \in Incarnation
      PROVE  ~Holds(inbox', About(a, j, t))
  <2>1. About(a, j, t).kind = a /\ About(a, j, t).t = t
    BY DEF About
  <2> QED  BY <1>3, <2>1
<1>5. ASSUME NEW a \in Answers, NEW j \in Incarnation, NEW u \in Transport, u # t
      PROVE  Holds(inbox', About(a, j, u)) <=> Holds(inbox, About(a, j, u))
  <2>1. About(a, j, u) # About(kind, k, t)
    BY <1>5 DEF About
  <2> QED  BY <1>3, <2>1
<1>6. AcceptedBy(t)' = {} /\ RefusedBy(t)' = {}
  BY <1>4 DEF AcceptedBy, RefusedBy, Answers
<1>7. \A u \in Transport : u # t =>
        AcceptedBy(u)' = AcceptedBy(u) /\ RefusedBy(u)' = RefusedBy(u)
  BY <1>5 DEF AcceptedBy, RefusedBy, Answers
<1>8. /\ kind = "registered" => k \in AcceptedBy(t)
      /\ kind = "refused" => k \in RefusedBy(t)
  BY <1>1, <1>3 DEF AcceptedBy, RefusedBy
<1> QED  BY <1>1, <1>3, <1>6, <1>7, <1>8

\* The inbox holds the same answers.
SameAnswers ==
    /\ Once(inbox', Answers)
    /\ \A u \in Transport : AcceptedBy(u)' = AcceptedBy(u) /\ RefusedBy(u)' = RefusedBy(u)

\* That is so when exactly the same answers are in the queue.
LEMMA AnswersSame ==
    ASSUME Once(inbox', Answers),
           \A m : m.kind \in Answers => (Holds(inbox', m) <=> Holds(inbox, m))
    PROVE  SameAnswers
<1>1. ASSUME NEW a \in Answers, NEW j \in Incarnation, NEW u \in Transport
      PROVE  Holds(inbox', About(a, j, u)) <=> Holds(inbox, About(a, j, u))
  <2>1. About(a, j, u).kind = a
    BY DEF About
  <2> QED  BY <2>1
<1> QED  BY <1>1 DEF AcceptedBy, RefusedBy, Answers, SameAnswers

\* Another message leaves it.
LEMMA OtherTaken ==
    ASSUME OwnInv, NEW kind, kind \notin Answers, NextMessage(kind)
    PROVE  SameAnswers
<1>1. /\ inbox \in Seq(Incoming) /\ inbox # <<>>
      /\ Head(inbox).kind = kind /\ inbox' = Tail(inbox) /\ Once(inbox, Answers)
  BY DEF OwnInv, AskedOnce, TypeInv, PoolTypeOK, NextMessage
<1>2. /\ \A m : Holds(inbox, m) <=> m = Head(inbox) \/ Holds(inbox', m)
      /\ Once(inbox', Answers)
  BY <1>1, QueueTail
<1>3. \A m : m.kind \in Answers => (Holds(inbox', m) <=> Holds(inbox, m))
  BY <1>1, <1>2
<1> QED  BY <1>2, <1>3, AnswersSame

\* Another message joins it.
LEMMA OtherSent ==
    ASSUME OwnInv, NEW x \in Incoming, x.kind \notin Answers, inbox' = Append(inbox, x)
    PROVE  SameAnswers
<1>1. inbox \in Seq(Incoming) /\ Once(inbox, Answers)
  BY DEF OwnInv, AskedOnce, TypeInv, PoolTypeOK
<1>2. (\A m : Holds(inbox', m) <=> m = x \/ Holds(inbox, m)) /\ Once(inbox', Answers)
  BY <1>1, QueueAppend
<1>3. \A m : m.kind \in Answers => (Holds(inbox', m) <=> Holds(inbox, m))
  BY <1>2
<1> QED  BY <1>2, <1>3, AnswersSame

\* The closed transports of an incarnation are announced.
LEMMA ClosingsSent ==
    ASSUME OwnInv, NEW k \in Incarnation, NEW S \in SUBSET Transport, CloseStates(k, S)
    PROVE  SameAnswers
<1> DEFINE z == SetToSeq({About("closed", k, t) : t \in S})
<1>1. z \in Seq(Closings) /\ inbox' = inbox \o z
  BY ClosingsQueued DEF CloseStates
<1> HIDE DEF z
<1>2. inbox \in Seq(Incoming) /\ Once(inbox, Answers)
  BY DEF OwnInv, AskedOnce, TypeInv, PoolTypeOK
<1>3. Closings \in SUBSET Incoming /\ \A m \in Closings : m.kind \notin Answers
  BY DEF Closings, Answers
<1>4. /\ \A m : m.kind \in Answers => (Holds(inbox', m) <=> Holds(inbox, m))
      /\ Once(inbox', Answers)
  BY <1>1, <1>2, <1>3, QueueConcat
<1> QED  BY <1>4, AnswersSame

\* An answer to a transport without one joins it.
LEMMA AnswerSent ==
    ASSUME OwnInv, NEW a \in Answers, NEW k \in Incarnation, NEW t \in Transport,
           inbox' = Append(inbox, About(a, k, t)), AcceptedBy(t) = {}, RefusedBy(t) = {}
    PROVE  /\ Once(inbox', Answers)
           /\ AcceptedBy(t)' = IF a = "registered" THEN {k} ELSE {}
           /\ RefusedBy(t)' = IF a = "refused" THEN {k} ELSE {}
           /\ \A u \in Transport : u # t =>
                AcceptedBy(u)' = AcceptedBy(u) /\ RefusedBy(u)' = RefusedBy(u)
<1> DEFINE x == About(a, k, t)
<1>1. inbox \in Seq(Incoming) /\ Once(inbox, Answers)
  BY DEF OwnInv, AskedOnce, TypeInv, PoolTypeOK
<1>2. x \in Incoming /\ x.t = t /\ x.kind = a /\ inbox' = Append(inbox, x)
  BY DEF About, Incoming, Answers
<1>3. ASSUME NEW m, Holds(inbox, m), m.kind \in Answers, m.t = t PROVE FALSE
  <2>1. m \in Incoming
    BY <1>1, <1>3 DEF Holds
  <2>2. m = About(m.kind, m.k, t) /\ m.k \in Incarnation
    BY <1>3, <2>1 DEF Incoming, Answers, About
  <2>3. m = About("registered", m.k, t) \/ m = About("refused", m.k, t)
    BY <1>3, <2>2 DEF Answers
  <2> QED  BY <1>3, <2>2, <2>3 DEF AcceptedBy, RefusedBy
<1> HIDE DEF x
<1>4. (\A m : Holds(inbox', m) <=> m = x \/ Holds(inbox, m)) /\ Once(inbox', Answers)
  BY <1>1, <1>2, <1>3, QueueAppend
<1>5. ASSUME NEW b \in Answers, NEW j \in Incarnation, NEW u \in Transport
      PROVE  Holds(inbox', About(b, j, u)) <=>
               (b = a /\ j = k /\ u = t) \/ Holds(inbox, About(b, j, u))
  <2>1. About(b, j, u) = x <=> b = a /\ j = k /\ u = t
    BY DEF About, x
  <2> QED  BY <1>4, <2>1
<1>6. ASSUME NEW u \in Transport
      PROVE  /\ AcceptedBy(u)' = AcceptedBy(u) \cup (IF a = "registered" /\ u = t THEN {k} ELSE {})
             /\ RefusedBy(u)' = RefusedBy(u) \cup (IF a = "refused" /\ u = t THEN {k} ELSE {})
  BY <1>5 DEF AcceptedBy, RefusedBy, Answers
<1> QED  BY <1>4, <1>6

\* The same requests are on their way.
SameRequests ==
    /\ \A k \in Incarnation : Once(cmds'[k], {"register"})
    /\ \A u \in Transport : AskedBy(u)' = AskedBy(u)

\* Nothing else was sent, or a close.
LEMMA CloseSent ==
    ASSUME OwnInv, NEW k \in Incarnation, NEW t \in Transport,
           cmds' = cmds \/ cmds' = Deliver(k, "close", t)
    PROVE  SameRequests
<1>1. /\ cmds \in [Incarnation -> Seq(Cmd)]
      /\ \A j \in Incarnation : cmds[j] \in Seq(Cmd) /\ Once(cmds[j], {"register"})
  BY DEF OwnInv, AskedOnce, TypeInv, PoolTypeOK
<1>2. CASE cmds' = cmds
  BY <1>1, <1>2 DEF SameRequests, AskedBy
<1> DEFINE c == [kind |-> "close", t |-> t]
<1>3. CASE cmds' = [cmds EXCEPT ![k] = Append(@, c)]
  <2>1. c \in Cmd /\ c.kind \notin {"register"}
    BY DEF Cmd
  <2> HIDE DEF c
  <2>2. /\ \A m : Holds(Append(cmds[k], c), m) <=> m = c \/ Holds(cmds[k], m)
        /\ Once(Append(cmds[k], c), {"register"})
    BY <1>1, <2>1, QueueAppend
  <2>3. ASSUME NEW j \in Incarnation
        PROVE  /\ Once(cmds'[j], {"register"})
               /\ \A u \in Transport : Holds(cmds'[j], [kind |-> "register", t |-> u]) <=>
                                       Holds(cmds[j], [kind |-> "register", t |-> u])
    <3>1. CASE j = k
      <4>1. cmds'[j] = Append(cmds[k], c)
        BY <1>1, <1>3, <3>1
      <4>2. \A u \in Transport : [kind |-> "register", t |-> u] # c
        BY <2>1
      <4> QED  BY <2>2, <3>1, <4>1, <4>2
    <3>2. CASE j # k
      <4>1. cmds'[j] = cmds[j]
        BY <1>1, <1>3, <3>2
      <4> QED  BY <1>1, <4>1
    <3> QED  BY <3>1, <3>2
  <2> QED  BY <2>3 DEF SameRequests, AskedBy
<1> QED  BY <1>2, <1>3 DEF Deliver

\* A close leaves the queue of an incarnation.
LEMMA CloseTaken ==
    ASSUME OwnInv, NEW k \in Incarnation, NextCommand(k, "close")
    PROVE  SameRequests
<1>1. /\ cmds \in [Incarnation -> Seq(Cmd)]
      /\ \A j \in Incarnation : cmds[j] \in Seq(Cmd) /\ Once(cmds[j], {"register"})
  BY DEF OwnInv, AskedOnce, TypeInv, PoolTypeOK
<1>2. /\ cmds[k] # <<>> /\ Head(cmds[k]).kind = "close"
      /\ cmds' = [cmds EXCEPT ![k] = Tail(@)]
  BY DEF NextCommand
<1>3. /\ \A m : Holds(cmds[k], m) <=> m = Head(cmds[k]) \/ Holds(Tail(cmds[k]), m)
      /\ Once(Tail(cmds[k]), {"register"})
  BY <1>1, <1>2, QueueTail
<1>4. ASSUME NEW j \in Incarnation
      PROVE  /\ Once(cmds'[j], {"register"})
             /\ \A u \in Transport : Holds(cmds'[j], [kind |-> "register", t |-> u]) <=>
                                     Holds(cmds[j], [kind |-> "register", t |-> u])
  <2>1. CASE j = k
    <3>1. cmds'[j] = Tail(cmds[k])
      BY <1>1, <1>2, <2>1
    <3>2. \A u \in Transport : [kind |-> "register", t |-> u] # Head(cmds[k])
      BY <1>2
    <3> QED  BY <1>3, <2>1, <3>1, <3>2
  <2>2. CASE j # k
    <3>1. cmds'[j] = cmds[j]
      BY <1>1, <1>2, <2>2
    <3> QED  BY <1>1, <3>1
  <2> QED  BY <2>1, <2>2
<1> QED  BY <1>4 DEF SameRequests, AskedBy

\* A request to register t, which had none, is sent.
LEMMA RequestSent ==
    ASSUME OwnInv, NEW k \in Incarnation, NEW t \in Transport, AskedBy(t) = {},
           cmds' = Deliver(k, "register", t)
    PROVE  /\ \A j \in Incarnation : Once(cmds'[j], {"register"})
           /\ AskedBy(t)' = IF reactor[k] = "running" THEN {k} ELSE {}
           /\ \A u \in Transport : u # t => AskedBy(u)' = AskedBy(u)
<1>1. /\ cmds \in [Incarnation -> Seq(Cmd)]
      /\ \A j \in Incarnation : cmds[j] \in Seq(Cmd) /\ Once(cmds[j], {"register"})
  BY DEF OwnInv, AskedOnce, TypeInv, PoolTypeOK
<1>2. CASE reactor[k] # "running"
  <2>1. cmds' = cmds
    BY <1>2 DEF Deliver
  <2> QED  BY <1>1, <1>2, <2>1 DEF AskedBy
<1> DEFINE c == [kind |-> "register", t |-> t]
<1>3. CASE reactor[k] = "running"
  <2>1. c \in Cmd /\ c.kind = "register" /\ c.t = t
    BY DEF Cmd
  <2>2. cmds' = [cmds EXCEPT ![k] = Append(@, c)]
    BY <1>3 DEF Deliver
  <2>3. ASSUME NEW m, Holds(cmds[k], m), m.kind \in {"register"}, m.t = t PROVE FALSE
    <3>1. m \in Cmd
      BY <1>1, <2>3 DEF Holds
    <3>2. m = c
      BY <2>3, <3>1 DEF Cmd
    <3> QED  BY <2>3, <3>2 DEF AskedBy
  <2> HIDE DEF c
  <2>4. /\ \A m : Holds(Append(cmds[k], c), m) <=> m = c \/ Holds(cmds[k], m)
        /\ Once(Append(cmds[k], c), {"register"})
    BY <1>1, <2>1, <2>3, QueueAppend
  <2>5. ASSUME NEW j \in Incarnation
        PROVE  /\ Once(cmds'[j], {"register"})
               /\ \A u \in Transport : Holds(cmds'[j], [kind |-> "register", t |-> u]) <=>
                    (j = k /\ u = t) \/ Holds(cmds[j], [kind |-> "register", t |-> u])
    <3>1. CASE j = k
      <4>1. cmds'[j] = Append(cmds[k], c)
        BY <1>1, <2>2, <3>1
      <4>2. \A u \in Transport : [kind |-> "register", t |-> u] = c <=> u = t
        BY DEF c
      <4> QED  BY <2>4, <3>1, <4>1, <4>2
    <3>2. CASE j # k
      <4>1. cmds'[j] = cmds[j]
        BY <1>1, <2>2, <3>2
      <4> QED  BY <1>1, <3>2, <4>1
    <3> QED  BY <3>1, <3>2
  <2> QED  BY <1>3, <2>5 DEF AskedBy
<1> QED  BY <1>2, <1>3

\* The request to register t is taken by an incarnation.
LEMMA RequestTaken ==
    ASSUME OwnInv, NEW k \in Incarnation, NextCommand(k, "register"),
           NEW t, t = Head(cmds[k]).t
    PROVE  /\ t \in Transport /\ k \in AskedBy(t)
           /\ \A j \in Incarnation : Once(cmds'[j], {"register"})
           /\ AskedBy(t)' = AskedBy(t) \ {k}
           /\ \A u \in Transport : u # t => AskedBy(u)' = AskedBy(u)
<1>1. /\ cmds \in [Incarnation -> Seq(Cmd)]
      /\ \A j \in Incarnation : cmds[j] \in Seq(Cmd) /\ Once(cmds[j], {"register"})
  BY DEF OwnInv, AskedOnce, TypeInv, PoolTypeOK
<1>2. /\ cmds[k] # <<>> /\ Head(cmds[k]) = [kind |-> "register", t |-> t] /\ t \in Transport
      /\ cmds' = [cmds EXCEPT ![k] = Tail(@)]
  BY CommandTyped DEF OwnInv
<1>3. /\ \A m : Holds(cmds[k], m) <=> m = Head(cmds[k]) \/ Holds(Tail(cmds[k]), m)
      /\ Once(Tail(cmds[k]), {"register"}) /\ Holds(cmds[k], Head(cmds[k]))
      /\ \A m : Holds(Tail(cmds[k]), m) /\ m.kind \in {"register"} => m.t # t
  BY <1>1, <1>2, QueueTail
<1>4. ASSUME NEW j \in Incarnation
      PROVE  /\ Once(cmds'[j], {"register"})
             /\ \A u \in Transport : Holds(cmds'[j], [kind |-> "register", t |-> u]) <=>
                  ~(j = k /\ u = t) /\ Holds(cmds[j], [kind |-> "register", t |-> u])
  <2>1. CASE j = k
    <3>1. cmds'[j] = Tail(cmds[k])
      BY <1>1, <1>2, <2>1
    <3>2. \A u \in Transport : [kind |-> "register", t |-> u] = Head(cmds[k]) <=> u = t
      BY <1>2
    <3> QED  BY <1>3, <2>1, <3>1, <3>2
  <2>2. CASE j # k
    <3>1. cmds'[j] = cmds[j]
      BY <1>1, <1>2, <2>2
    <3> QED  BY <1>1, <2>2, <3>1
  <2> QED  BY <2>1, <2>2
<1>5. k \in AskedBy(t)
  BY <1>2, <1>3 DEF AskedBy
<1>6. \A u \in Transport : AskedBy(u)' = AskedBy(u) \ (IF u = t THEN {k} ELSE {})
  BY <1>4 DEF AskedBy
<1> QED  BY <1>2, <1>4, <1>5, <1>6

\* What FdOwner allows.
OwnerStep == Ownership!Next \/ UNCHANGED <<Owner, closes>>

\* Nobody takes or closes a descriptor.
LEMMA OwnerSame ==
    ASSUME UNCHANGED <<registered, closes>>
    PROVE  OwnerStep /\ \A u \in Transport : Owners(u)' = Owners(u)
<1>1. \A u \in Transport : Owners(u)' = Owners(u)
  BY DEF Owners
<1>2. Owner' = Owner
  BY <1>1 DEF Owner
<1> QED  BY <1>1, <1>2 DEF OwnerStep

\* The owners of the open descriptors S close them.
LEMMA OwnersClose ==
    ASSUME TypeInv, NEW S \in SUBSET Transport, \A t \in S : closes[t] = 0,
           closes' = [t \in Transport |-> IF t \in S THEN closes[t] + 1 ELSE closes[t]],
           \A t \in Transport \ S : Owners(t)' = Owners(t)
    PROVE  OwnerStep
<1>1. closes \in [Transport -> Nat]
  BY DEF TypeInv, PoolTypeOK
<1>2. CASE S = {}
  <2>1. closes' = closes
    BY <1>1, <1>2
  <2>2. Owner' = Owner
    BY <1>2, <2>1 DEF Owner
  <2> QED  BY <2>1, <2>2 DEF OwnerStep
<1>3. CASE S # {}
  <2>1. ASSUME NEW t \in Transport
        PROVE  Owner'[t] = IF t \in S THEN "nobody" ELSE Owner[t]
    BY <1>1 DEF Owner
  <2>2. Owner' = [t \in Transport |-> IF t \in S THEN "nobody" ELSE Owner[t]]
    BY <2>1 DEF Owner
  <2>3. \A t \in S : Owner[t] # "nobody"
    BY <1>1 DEF Owner
  <2>4. Ownership!Release(S)
    BY <1>3, <2>2, <2>3 DEF Ownership!Release
  <2> QED  BY <2>4 DEF OwnerStep, Ownership!Next
<1> QED  BY <1>2, <1>3

\* What a retry or a failure of t changes of the transports.
LEMMA RetryMoves ==
    ASSUME TypeInv, NEW t \in Transport, NEW retryable, NEW inst, NEW act, NEW shut,
           RetryOrGiveUp(t, retryable, inst, act, shut)
    PROVE  /\ \A u \in Transport : u # t =>
                phase'[u] = phase[u] /\ home'[u] = home[u] /\ closes'[u] = closes[u]
           /\ \/ phase'[t] = "obtaining" /\ closes' = closes
              \/ phase'[t] = "failed"
                 /\ closes' = [u \in Transport |->
                                 IF u \in {t} THEN closes[u] + 1 ELSE closes[u]]
<1>1. /\ phase \in [Transport -> {"new", "obtaining", "registering", "open", "failed"}]
      /\ home \in [Transport -> Incarnation \cup {None}] /\ closes \in [Transport -> Nat]
  BY DEF TypeInv, PoolTypeOK
<1>2. CASE Retries(t, retryable)
  <2>1. \E k : /\ home' = [home EXCEPT ![t] = k] /\ phase' = [phase EXCEPT ![t] = "obtaining"]
               /\ closes' = closes
    BY <1>2 DEF RetryOrGiveUp, Obtain
  <2> QED  BY <1>1, <2>1
<1>3. CASE ~Retries(t, retryable)
  <2>1. /\ home' = home /\ phase' = [phase EXCEPT ![t] = "failed"]
        /\ closes' = [closes EXCEPT ![t] = @ + 1]
    BY <1>3 DEF RetryOrGiveUp, GiveUp, Cleanup
  <2> QED  BY <1>1, <2>1
<1> QED  BY <1>2, <1>3

\* A transport that is at rest, with its descriptor open, tries again or fails.
LEMMA RetryOwned ==
    ASSUME OwnInv, NEW t \in Transport, NEW retryable, NEW inst, NEW act, NEW shut,
           RetryOrGiveUp(t, retryable, inst, act, shut), registered' = registered,
           closes[t] = 0, AtRest(t)',
           \A u \in Transport : u # t =>
             /\ AskedBy(u)' = AskedBy(u) /\ AcceptedBy(u)' = AcceptedBy(u)
             /\ RefusedBy(u)' = RefusedBy(u)
    PROVE  OwnerStep /\ \A u \in Transport : Consistent(u)'
<1>1. /\ \A u \in Transport : u # t =>
           phase'[u] = phase[u] /\ home'[u] = home[u] /\ closes'[u] = closes[u]
      /\ \/ phase'[t] = "obtaining" /\ closes' = closes
         \/ phase'[t] = "failed"
            /\ closes' = [u \in Transport |-> IF u \in {t} THEN closes[u] + 1 ELSE closes[u]]
  BY RetryMoves DEF OwnInv
<1>2. \A u \in Transport : Owners(u)' = Owners(u)
  BY DEF Owners
<1>3. OwnerStep
  <2>1. CASE closes' = closes
    BY <2>1, OwnerSame
  <2>2. CASE closes' = [u \in Transport |-> IF u \in {t} THEN closes[u] + 1 ELSE closes[u]]
    <3>1. {t} \in SUBSET Transport /\ \A u \in {t} : closes[u] = 0
      OBVIOUS
    <3> QED  BY <1>2, <2>2, <3>1, OwnersClose DEF OwnInv
  <2> QED  BY <1>1, <2>1, <2>2
<1>4. Consistent(t)'
  BY <1>1, AtRestConsistent
<1>5. ASSUME NEW u \in Transport, u # t PROVE Consistent(u)'
  <2>1. Kept(u)
    BY <1>1, <1>2, <1>5 DEF Kept
  <2> QED  BY <2>1, KeptConsistent DEF OwnInv
<1> QED  BY <1>3, <1>4, <1>5

\* Answers and requests stay the same, and every transport.
LEMMA NothingMoves ==
    ASSUME OwnInv, SameAnswers, SameRequests, UNCHANGED <<phase, home, registered, closes>>
    PROVE  AskedOnce' /\ OwnerStep /\ \A u \in Transport : Consistent(u)'
<1>1. AskedOnce'
  BY DEF SameAnswers, SameRequests, AskedOnce
<1>2. OwnerStep /\ \A u \in Transport : Owners(u)' = Owners(u)
  BY OwnerSame
<1>3. \A u \in Transport : Kept(u)
  BY <1>2 DEF Kept, SameAnswers, SameRequests
<1> QED  BY <1>1, <1>2, <1>3, KeptConsistent DEF OwnInv

\* The inbox and the queues of commands are left alone.
LEMMA QueuesSame ==
    ASSUME OwnInv
    PROVE  /\ inbox' = inbox => SameAnswers
           /\ cmds' = cmds => SameRequests
<1>1. inbox' = inbox => SameAnswers
  BY DEF OwnInv, AskedOnce, SameAnswers, AcceptedBy, RefusedBy
<1>2. cmds' = cmds => SameRequests
  BY DEF OwnInv, AskedOnce, SameRequests, AskedBy
<1> QED  BY <1>1, <1>2

\* A transport that was idle is adopted, sends its request, or gives up.
LEMMA RegisterOwned ==
    ASSUME OwnInv, NEW t \in Transport, Adopt(t) \/ Register(t)
    PROVE  AskedOnce' /\ OwnerStep /\ \A u \in Transport : Consistent(u)'
<1>1. /\ TypeInv /\ PoolTypeOK /\ Resuming /\ Homed /\ Consistent(t)
      /\ \A u \in Transport : Consistent(u)
  BY DEF OwnInv, TypeInv
<1>2. phase[t] \in {"new", "obtaining"}
  BY <1>1 DEF Adopt, Register, RegisterUnstarted, RegisterStopped, RegisterUnwoken, RegisterSent,
              Reachable, Resuming
<1>3. AtRest(t) /\ closes[t] = 0
  BY <1>1, <1>2, IdleAtRest DEF Consistent
<1>4. inbox' = inbox /\ registered' = registered
  BY DEF Adopt, Register, RegisterUnstarted, RegisterStopped, RegisterUnwoken, RegisterSent,
         reactorVars
<1>5. SameAnswers /\ \A u \in Transport : Owners(u)' = Owners(u)
  BY <1>4, QueuesSame DEF Owners
<1>6. CASE RegisterSent(t)
  <2>1. /\ cmds' = Deliver(home[t], "register", t) /\ home[t] \in Incarnation
        /\ phase' = [phase EXCEPT ![t] = "registering"]
        /\ UNCHANGED <<home, registered, closes>>
    BY <1>1, <1>6 DEF RegisterSent, Reachable, Resuming, Homed
  <2>2. /\ \A j \in Incarnation : Once(cmds'[j], {"register"})
        /\ AskedBy(t)' = IF reactor[home[t]] = "running" THEN {home[t]} ELSE {}
        /\ \A u \in Transport : u # t => AskedBy(u)' = AskedBy(u)
    BY <1>3, <2>1, RequestSent DEF AtRest
  <2>3. AskedOnce'
    BY <1>5, <2>2 DEF AskedOnce, SameAnswers
  <2>4. OwnerStep
    BY <2>1, OwnerSame
  <2>5. Consistent(t)'
    <3>1. phase'[t] = "registering" /\ home'[t] = home[t] /\ closes'[t] = 0
      BY <1>1, <1>3, <2>1 DEF PoolTypeOK
    <3>2. /\ AcceptedBy(t)' = {} /\ RefusedBy(t)' = {} /\ Owners(t)' = {}
          /\ AskedBy(t)' \subseteq {home[t]}
      BY <1>3, <1>5, <2>2 DEF AtRest, SameAnswers
    <3> QED  BY <3>1, <3>2 DEF Consistent
  <2>6. ASSUME NEW u \in Transport, u # t PROVE Consistent(u)'
    <3>1. Kept(u)
      BY <1>1, <1>5, <2>1, <2>2, <2>6 DEF Kept, SameAnswers, PoolTypeOK
    <3> QED  BY <1>1, <3>1, KeptConsistent
  <2> QED  BY <2>3, <2>4, <2>5, <2>6
<1>7. CASE ~RegisterSent(t)
  <2>1. cmds' = cmds
    BY <1>7 DEF Adopt, Register, RegisterUnstarted, RegisterStopped, RegisterUnwoken, Deliver,
                WakeFails, reactorVars
  <2>2. SameRequests
    BY <2>1, QueuesSame
  <2>3. AskedOnce' /\ AtRest(t)'
    BY <1>3, <1>5, <2>2 DEF AskedOnce, AtRest, SameAnswers, SameRequests
  <2>4. \A u \in Transport : /\ AskedBy(u)' = AskedBy(u) /\ AcceptedBy(u)' = AcceptedBy(u)
                             /\ RefusedBy(u)' = RefusedBy(u)
    BY <1>5, <2>2 DEF SameAnswers, SameRequests
  <2>5. CASE Adopt(t)
    <3>1. /\ \E k : home' = [home EXCEPT ![t] = k]
          /\ phase' = [phase EXCEPT ![t] = "obtaining"] /\ closes' = closes
      BY <2>5 DEF Adopt, Obtain
    <3>2. OwnerStep
      BY <1>4, <3>1, OwnerSame
    <3>3. Consistent(t)'
      BY <1>1, <1>3, <2>3, <3>1, AtRestConsistent DEF PoolTypeOK
    <3>4. ASSUME NEW u \in Transport, u # t PROVE Consistent(u)'
      <4>1. Kept(u)
        BY <1>1, <1>5, <2>4, <3>1, <3>4 DEF Kept, PoolTypeOK
      <4> QED  BY <1>1, <4>1, KeptConsistent
    <3> QED  BY <2>3, <3>2, <3>3, <3>4
  <2>6. CASE RegisterUnstarted(t)
    <3>1. /\ UNCHANGED <<home, registered>> /\ closes' = [closes EXCEPT ![t] = @ + 1]
          /\ phase' = [phase EXCEPT ![t] = "failed"]
      BY <2>6, <1>4 DEF RegisterUnstarted, GiveUp, Cleanup
    <3>2. closes' = [u \in Transport |-> IF u \in {t} THEN closes[u] + 1 ELSE closes[u]]
      BY <1>1, <3>1 DEF PoolTypeOK
    <3>3. {t} \in SUBSET Transport /\ \A u \in {t} : closes[u] = 0
      BY <1>3
    <3>4. OwnerStep
      BY <1>1, <1>5, <3>2, <3>3, OwnersClose
    <3>5. Consistent(t)'
      BY <1>1, <2>3, <3>1, AtRestConsistent DEF PoolTypeOK
    <3>6. ASSUME NEW u \in Transport, u # t PROVE Consistent(u)'
      <4>1. Kept(u)
        BY <1>1, <1>5, <2>4, <3>1, <3>6 DEF Kept, PoolTypeOK
      <4> QED  BY <1>1, <4>1, KeptConsistent
    <3> QED  BY <2>3, <3>4, <3>5, <3>6
  <2>7. CASE RegisterStopped(t)
    <3>1. RetryOrGiveUp(t, FALSE, None, active, proxyClosed)
      BY <2>7 DEF RegisterStopped
    <3> QED  BY <1>3, <1>4, <2>3, <2>4, <3>1, RetryOwned
  <2>8. CASE RegisterUnwoken(t)
    <3>1. PICK act, shut : RetryOrGiveUp(t, TRUE, None, act, shut)
      BY <2>8 DEF RegisterUnwoken, MarkClosedAndRetry
    <3> QED  BY <1>3, <1>4, <2>3, <2>4, <3>1, RetryOwned
  <2> QED  BY <1>7, <2>5, <2>6, <2>7, <2>8 DEF Register
<1> QED  BY <1>6, <1>7

\* The answer to a registration is handled: it is the only one, and its transport
\* is still waiting for it.
LEMMA AnswersOwned ==
    ASSUME OwnInv, HandleRegistered \/ HandleRefused
    PROVE  AskedOnce' /\ OwnerStep /\ \A u \in Transport : Consistent(u)'
<1>1. PICK kind \in Answers :
        /\ NextMessage(kind)
        /\ kind = "registered" => HandleRegistered
        /\ kind = "refused" => HandleRefused
  BY DEF HandleRegistered, HandleRefused, Answers
<1>2. PICK k, t : k = Head(inbox).k /\ t = Head(inbox).t
  OBVIOUS
<1>3. /\ t \in Transport /\ k \in Incarnation
      /\ kind = "registered" => k \in AcceptedBy(t)
      /\ kind = "refused" => k \in RefusedBy(t)
      /\ AcceptedBy(t)' = {} /\ RefusedBy(t)' = {}
      /\ \A u \in Transport : u # t =>
           AcceptedBy(u)' = AcceptedBy(u) /\ RefusedBy(u)' = RefusedBy(u)
      /\ Once(inbox', Answers)
  BY <1>1, <1>2, AnswerTaken
<1>4. TypeInv /\ PoolTypeOK /\ \A u \in Transport : Consistent(u)
  BY DEF OwnInv, TypeInv
<1>5. cmds' = cmds /\ registered' = registered
  BY <1>1 DEF HandleRegistered, HandleRefused, reactorVars
<1>6. SameRequests /\ \A u \in Transport : Owners(u)' = Owners(u)
  BY <1>5, QueuesSame DEF Owners
<1>7. AskedOnce'
  BY <1>3, <1>6 DEF AskedOnce, SameRequests
<1>8. phase[t] = "registering" /\ home[t] = k /\ AskedBy(t) = {}
  BY <1>1, <1>3, <1>4 DEF Consistent, Answers
<1>9. Answered(k, t)
  BY <1>8 DEF Answered
<1>10. CASE kind = "registered"
  <2>1. phase' = [phase EXCEPT ![t] = "open"] /\ home' = home /\ closes' = closes
    BY <1>1, <1>2, <1>9, <1>10 DEF HandleRegistered
  <2>2. Consistent(t)'
    <3>1. phase'[t] = "open" /\ home'[t] = k /\ closes'[t] = closes[t]
      BY <1>3, <1>4, <1>8, <2>1 DEF PoolTypeOK
    <3>2. AskedBy(t)' = {} /\ Owners(t)' = Owners(t)
      BY <1>3, <1>6, <1>8 DEF SameRequests
    <3> QED  BY <1>3, <1>4, <1>8, <3>1, <3>2 DEF Consistent
  <2>3. ASSUME NEW u \in Transport, u # t PROVE Consistent(u)'
    <3>1. Kept(u)
      BY <1>3, <1>4, <1>6, <2>1, <2>3 DEF Kept, SameRequests, PoolTypeOK
    <3> QED  BY <1>4, <3>1, KeptConsistent
  <2>4. OwnerStep
    BY <1>5, <2>1, OwnerSame
  <2> QED  BY <1>7, <2>2, <2>3, <2>4
<1>11. CASE kind = "refused"
  <2>1. RetryOrGiveUp(t, FALSE, instance, active, proxyClosed)
    BY <1>1, <1>2, <1>9, <1>11 DEF HandleRefused
  <2>2. closes[t] = 0 /\ Owners(t) = {}
    BY <1>3, <1>4, <1>11 DEF Consistent
  <2>3. AtRest(t)'
    BY <1>3, <1>6, <1>8, <2>2 DEF AtRest, SameRequests
  <2>4. \A u \in Transport : u # t =>
          /\ AskedBy(u)' = AskedBy(u) /\ AcceptedBy(u)' = AcceptedBy(u)
          /\ RefusedBy(u)' = RefusedBy(u)
    BY <1>3, <1>6 DEF SameRequests
  <2> QED  BY <1>3, <1>5, <1>7, <2>1, <2>2, <2>3, <2>4, RetryOwned
<1> QED  BY <1>1, <1>10, <1>11 DEF Answers

\* With no late registration, a timer runs out only when no answer will come.
LEMMA TimeoutOwned ==
    ASSUME OwnInv, LateTimeouts = 0, NEW t \in Transport, RegisterTimesOut(t)
    PROVE  AskedOnce' /\ OwnerStep /\ \A u \in Transport : Consistent(u)'
<1>1. /\ TypeInv /\ PoolTypeOK /\ Homed /\ Consistent(t)
      /\ \A j \in Incarnation : cmds[j] \in Seq(Cmd)
  BY DEF OwnInv, TypeInv, PoolTypeOK
<1>2. late = 0
  BY <1>1 DEF PoolTypeOK
<1>3. phase[t] = "registering" /\ home[t] \in Incarnation /\ ~AnswerPending(home[t], t)
  BY <1>1, <1>2 DEF RegisterTimesOut, TimerArmed, Homed
<1>4. home[t] \notin AskedBy(t)
  BY <1>1, <1>3 DEF AskedBy, Holds, AnswerPending
<1>5. home[t] \notin AcceptedBy(t) /\ home[t] \notin RefusedBy(t)
  <2>1. inbox \in Seq(Incoming)
    BY <1>1 DEF PoolTypeOK
  <2> QED  BY <1>3, <2>1 DEF AcceptedBy, RefusedBy, Holds, AnswerPending
<1>6. AtRest(t) /\ closes[t] = 0
  BY <1>1, <1>3, <1>4, <1>5 DEF Consistent, AtRest
<1>7. UNCHANGED <<inbox, cmds, registered>>
  BY DEF RegisterTimesOut
<1>8. SameAnswers /\ SameRequests /\ \A u \in Transport : Owners(u)' = Owners(u)
  BY <1>7, QueuesSame DEF Owners
<1>9. AskedOnce' /\ AtRest(t)'
  BY <1>6, <1>8 DEF AskedOnce, AtRest, SameAnswers, SameRequests
<1>10. \A u \in Transport : /\ AskedBy(u)' = AskedBy(u) /\ AcceptedBy(u)' = AcceptedBy(u)
                            /\ RefusedBy(u)' = RefusedBy(u)
  BY <1>8 DEF SameAnswers, SameRequests
<1>11. PICK act, shut : RetryOrGiveUp(t, TRUE, None, act, shut)
  BY DEF RegisterTimesOut, MarkClosedAndRetry
<1> QED  BY <1>6, <1>7, <1>9, <1>10, <1>11, RetryOwned

\* The other steps of the main isolate do not concern who owns a descriptor.
LEMMA OthersOwned ==
    ASSUME OwnInv,
           \/ \E t \in Transport : Close(t) \/ CommandRefused(t)
           \/ HandleReady \/ HandleBootError \/ HandleExit \/ HandleClosed \/ SpawnTimesOut
    PROVE  AskedOnce' /\ OwnerStep /\ \A u \in Transport : Consistent(u)'
<1>1. UNCHANGED <<phase, home, registered, closes>>
  BY DEF Close, CommandRefused, HandleReady, HandleBootError, HandleExit, HandleClosed,
         SpawnTimesOut, SpawnFails, transportVars, reactorVars
<1>2. SameAnswers
  <2>1. CASE inbox' = inbox
    BY <2>1, QueuesSame
  <2>2. ASSUME NEW kind \in {"ready", "bootError", "exit", "closed"}, NextMessage(kind)
        PROVE  SameAnswers
    BY <2>2, OtherTaken DEF Answers
  <2>3. \/ inbox' = inbox
        \/ NextMessage("ready") \/ NextMessage("bootError") \/ NextMessage("exit")
        \/ NextMessage("closed")
    BY DEF Close, CommandRefused, HandleReady, HandleBootError, HandleExit, HandleClosed,
           SpawnTimesOut
  <2> QED  BY <2>1, <2>2, <2>3
<1>3. SameRequests
  <2>1. CASE cmds' = cmds
    BY <2>1, QueuesSame
  <2>2. ASSUME NEW t \in Transport, Close(t) PROVE SameRequests
    <3>1. home[t] \in Incarnation
      BY <2>2 DEF Close, Usable, OwnInv, TypeInv, Homed
    <3>2. cmds' = cmds \/ cmds' = Deliver(home[t], "close", t)
      BY <2>2 DEF Close
    <3> QED  BY <3>1, <3>2, CloseSent
  <2>3. cmds' = cmds \/ \E t \in Transport : Close(t)
    BY DEF CommandRefused, HandleReady, HandleBootError, HandleExit, HandleClosed,
           SpawnTimesOut, SpawnFails, reactorVars
  <2> QED  BY <2>1, <2>2, <2>3
<1> QED  BY <1>1, <1>2, <1>3, NothingMoves

\* A reactor takes a request: it was the only one, nothing else about its
\* transport is on its way, and the descriptor is open and nobody's.
LEMMA RequestOwned ==
    ASSUME OwnInv, NEW k \in Incarnation, ProcessRegister(k)
    PROVE  AskedOnce' /\ OwnerStep /\ \A u \in Transport : Consistent(u)'
<1>1. PICK t : t = Head(cmds[k]).t
  OBVIOUS
<1>2. /\ TypeInv /\ PoolTypeOK /\ \A u \in Transport : Consistent(u)
      /\ NextCommand(k, "register") /\ UNCHANGED <<phase, home, closes>>
  BY DEF OwnInv, TypeInv, ProcessRegister, RefusedOnly, mainVars, transportVars
<1>3. /\ t \in Transport /\ k \in AskedBy(t)
      /\ \A j \in Incarnation : Once(cmds'[j], {"register"})
      /\ AskedBy(t)' = AskedBy(t) \ {k}
      /\ \A u \in Transport : u # t => AskedBy(u)' = AskedBy(u)
  BY <1>1, <1>2, RequestTaken
<1>4. /\ home[t] = k /\ phase[t] = "registering" /\ closes[t] = 0 /\ AskedBy(t)' = {}
      /\ AcceptedBy(t) = {} /\ RefusedBy(t) = {} /\ Owners(t) = {}
  BY <1>2, <1>3 DEF Consistent
<1>5. /\ phase' = phase /\ home' = home /\ closes' = closes
      /\ \/ /\ registered' = [registered EXCEPT ![k] = @ \cup {t}]
            /\ inbox' = Append(inbox, About("registered", k, t))
         \/ /\ registered' = registered
            /\ inbox' = Append(inbox, About("refused", k, t))
  BY <1>1, <1>2 DEF ProcessRegister
<1>6. registered \in [Incarnation -> SUBSET Transport] /\ closes \in [Transport -> Nat]
  BY <1>2 DEF PoolTypeOK
<1>7. CASE /\ registered' = [registered EXCEPT ![k] = @ \cup {t}]
           /\ inbox' = Append(inbox, About("registered", k, t))
  <2>1. /\ Once(inbox', Answers) /\ AcceptedBy(t)' = {k} /\ RefusedBy(t)' = {}
        /\ \A u \in Transport : u # t =>
             AcceptedBy(u)' = AcceptedBy(u) /\ RefusedBy(u)' = RefusedBy(u)
    BY <1>3, <1>4, <1>7, AnswerSent DEF Answers
  <2>2. \A u \in Transport : Owners(u)' = IF u = t THEN {k} ELSE Owners(u)
    BY <1>4, <1>6, <1>7 DEF Owners
  <2>3. Consistent(t)'
    <3>1. phase'[t] = "registering" /\ home'[t] = k /\ closes'[t] = 0
      BY <1>4, <1>5
    <3>2. AskedBy(t)' = {} /\ Owners(t)' = {k}
      BY <1>3, <1>4, <2>2
    <3> QED  BY <2>1, <3>1, <3>2 DEF Consistent
  <2>4. ASSUME NEW u \in Transport, u # t PROVE Consistent(u)'
    <3>1. Kept(u)
      BY <1>3, <1>5, <2>1, <2>2, <2>4 DEF Kept
    <3> QED  BY <1>2, <3>1, KeptConsistent
  <2>5. Ownership!HandOver(t)
    <3>1. Owner[t] = "main"
      BY <1>3, <1>4 DEF Owner
    <3>2. ASSUME NEW u \in Transport
          PROVE  Owner'[u] = IF u = t THEN "reactor" ELSE Owner[u]
      <4>1. Owner'[u] = IF closes'[u] > 0 THEN "nobody"
                        ELSE IF Owners(u)' # {} THEN "reactor" ELSE "main"
        BY DEF Owner
      <4>2. CASE u = t
        <5>1. Owners(u)' # {} /\ ~(closes'[u] > 0)
          BY <1>4, <1>5, <2>2, <4>2
        <5> QED  BY <4>1, <4>2, <5>1
      <4>3. CASE u # t
        <5>1. Owners(u)' = Owners(u) /\ closes'[u] = closes[u]
          BY <1>5, <2>2, <4>3
        <5> QED  BY <4>1, <4>3, <5>1 DEF Owner
      <4> QED  BY <4>2, <4>3
    <3>3. Owner' = [Owner EXCEPT ![t] = "reactor"]
      BY <3>2 DEF Owner
    <3> QED  BY <1>5, <3>1, <3>3 DEF Ownership!HandOver
  <2>6. OwnerStep
    BY <1>3, <2>5 DEF OwnerStep, Ownership!Next
  <2> QED  BY <1>3, <2>1, <2>3, <2>4, <2>6 DEF AskedOnce
<1>8. CASE /\ registered' = registered /\ inbox' = Append(inbox, About("refused", k, t))
  <2>1. /\ Once(inbox', Answers) /\ AcceptedBy(t)' = {} /\ RefusedBy(t)' = {k}
        /\ \A u \in Transport : u # t =>
             AcceptedBy(u)' = AcceptedBy(u) /\ RefusedBy(u)' = RefusedBy(u)
    BY <1>3, <1>4, <1>8, AnswerSent DEF Answers
  <2>2. OwnerStep /\ \A u \in Transport : Owners(u)' = Owners(u)
    BY <1>5, <1>8, OwnerSame
  <2>3. Consistent(t)'
    <3>1. phase'[t] = "registering" /\ home'[t] = k /\ closes'[t] = 0
      BY <1>4, <1>5
    <3>2. AskedBy(t)' = {} /\ Owners(t)' = {}
      BY <1>3, <1>4, <2>2
    <3> QED  BY <2>1, <3>1, <3>2 DEF Consistent
  <2>4. ASSUME NEW u \in Transport, u # t PROVE Consistent(u)'
    <3>1. Kept(u)
      BY <1>3, <1>5, <2>1, <2>2, <2>4 DEF Kept
    <3> QED  BY <1>2, <3>1, KeptConsistent
  <2> QED  BY <1>3, <2>1, <2>2, <2>3, <2>4 DEF AskedOnce
<1> QED  BY <1>5, <1>7, <1>8

\* A reactor closes transports that it has registered.
LEMMA ClosingOwned ==
    ASSUME OwnInv, NEW k \in Incarnation, NEW S \in SUBSET registered[k], CloseStates(k, S),
           SameRequests, UNCHANGED <<phase, home>>
    PROVE  AskedOnce' /\ OwnerStep /\ \A u \in Transport : Consistent(u)'
<1>1. TypeInv /\ PoolTypeOK /\ \A u \in Transport : Consistent(u)
  BY DEF OwnInv, TypeInv
<1>2. /\ registered \in [Incarnation -> SUBSET Transport] /\ closes \in [Transport -> Nat]
      /\ S \in SUBSET Transport
  BY <1>1 DEF PoolTypeOK
<1>3. SameAnswers
  BY <1>2, ClosingsSent
<1>4. AskedOnce'
  BY <1>3 DEF AskedOnce, SameAnswers, SameRequests
<1>5. /\ registered' = [registered EXCEPT ![k] = @ \ S]
      /\ closes' = [t \in Transport |-> IF t \in S THEN closes[t] + 1 ELSE closes[t]]
  BY DEF CloseStates
<1>6. \A u \in Transport : Owners(u)' = IF u \in S THEN Owners(u) \ {k} ELSE Owners(u)
  BY <1>2, <1>5 DEF Owners
<1>7. ASSUME NEW u \in S
      PROVE  /\ u \in Transport /\ home[u] = k /\ Owners(u)' = {} /\ closes[u] = 0
             /\ AskedBy(u) = {} /\ RefusedBy(u) = {}
             /\ \/ phase[u] = "registering" /\ AcceptedBy(u) # {}
                \/ phase[u] = "open"
  <2>1. u \in Transport /\ Consistent(u) /\ k \in Owners(u)
    BY <1>1, <1>2 DEF Owners
  <2>2. home[u] = k /\ Owners(u) \subseteq {k}
    BY <2>1 DEF Consistent
  <2>3. Owners(u)' = {}
    BY <1>6, <2>1, <2>2
  <2> QED  BY <2>1, <2>2, <2>3 DEF Consistent
<1>8. OwnerStep
  BY <1>1, <1>2, <1>5, <1>6, <1>7, OwnersClose
<1>9. ASSUME NEW u \in Transport PROVE Consistent(u)'
  <2>1. CASE u \notin S
    <3>1. Kept(u)
      BY <1>3, <1>5, <1>6, <2>1 DEF Kept, SameAnswers, SameRequests
    <3> QED  BY <1>1, <3>1, KeptConsistent
  <2>2. CASE u \in S
    <3>1. /\ AskedBy(u)' = {} /\ RefusedBy(u)' = {} /\ Owners(u)' = {}
          /\ AcceptedBy(u)' = AcceptedBy(u) /\ phase'[u] = phase[u] /\ home'[u] = home[u]
      BY <1>3, <1>7, <2>2 DEF SameAnswers, SameRequests
    <3>2. /\ AcceptedBy(u) \subseteq {home[u]}
          /\ \/ phase[u] = "registering" /\ AcceptedBy(u) # {}
             \/ phase[u] = "open" /\ AcceptedBy(u) = {}
      BY <1>1, <1>7, <2>2 DEF Consistent
    <3> QED  BY <3>1, <3>2 DEF Consistent
  <2> QED  BY <2>1, <2>2
<1> QED  BY <1>4, <1>8, <1>9

\* Every step of a reactor.
LEMMA ReactorOwned ==
    ASSUME OwnInv, NEW k \in Incarnation, Reactor(k)
    PROVE  AskedOnce' /\ OwnerStep /\ \A u \in Transport : Consistent(u)'
<1>1. /\ registered \in [Incarnation -> SUBSET Transport] /\ phase' = phase /\ home' = home
  BY DEF Reactor, Boot, ProcessCommand, ProcessRegister, ProcessClose, TransportEnds, IdleExit,
         WaitFails, StopPoller, mainVars, transportVars, OwnInv, TypeInv, PoolTypeOK
<1>2. CASE Boot(k) \/ StopPoller(k)
  <2>1. PICK kind \in {"ready", "bootError", "exit"} : inbox' = Append(inbox, OfShard(kind, k))
    BY <1>2 DEF Boot, StopPoller
  <2>2. OfShard(kind, k) \in Incoming /\ OfShard(kind, k).kind \notin Answers
    BY DEF OfShard, Incoming, Answers
  <2>3. SameAnswers
    BY <2>1, <2>2, OtherSent
  <2>4. UNCHANGED <<cmds, registered, closes>>
    BY <1>2 DEF Boot, StopPoller
  <2> QED  BY <1>1, <2>3, <2>4, QueuesSame, NothingMoves
<1>3. CASE IdleExit(k)
  <2>1. UNCHANGED <<inbox, cmds, registered, closes>>
    BY <1>3 DEF IdleExit
  <2> QED  BY <1>1, <2>1, QueuesSame, NothingMoves
<1>4. CASE ProcessRegister(k)
  BY <1>4, RequestOwned
<1>5. CASE ProcessClose(k)
  <2>1. PICK S \in SUBSET registered[k] : CloseStates(k, S)
    BY <1>5 DEF ProcessClose
  <2>2. SameRequests
    BY <1>5, CloseTaken DEF ProcessClose
  <2> QED  BY <1>1, <2>1, <2>2, ClosingOwned
<1>6. CASE TransportEnds(k) \/ WaitFails(k)
  <2>1. PICK S \in SUBSET registered[k] : CloseStates(k, S)
    BY <1>6 DEF TransportEnds, WaitFails
  <2>2. SameRequests
    BY <1>6, QueuesSame DEF TransportEnds, WaitFails
  <2> QED  BY <1>1, <2>1, <2>2, ClosingOwned
<1> QED  BY <1>2, <1>3, <1>4, <1>5, <1>6 DEF Reactor, ProcessCommand

\* At first nothing is on its way and the main isolate owns every descriptor.
LEMMA OwnStarts ==
    ASSUME PoolInit
    PROVE  OwnInv /\ Ownership!Init
<1>1. /\ inbox = <<>> /\ \A k \in Incarnation : cmds[k] = <<>> /\ registered[k] = {}
      /\ \A t \in Transport : closes[t] = 0 /\ phase[t] = "new"
      /\ closes = [t \in Transport |-> 0]
  BY DEF PoolInit
<1>2. \A m : ~Holds(<<>>, m)
  BY DEF Holds
<1>3. Once(<<>>, Answers) /\ Once(<<>>, {"register"})
  BY DEF Once
<1>4. \A t \in Transport : AtRest(t)
  BY <1>1, <1>2 DEF AtRest, AskedBy, AcceptedBy, RefusedBy, Owners
<1>5. \A t \in Transport : Consistent(t)
  BY <1>1, <1>4 DEF AtRest, Consistent
<1>6. AskedOnce
  BY <1>1, <1>3 DEF AskedOnce
<1>7. OwnInv
  BY <1>5, <1>6, TypeStarts DEF OwnInv
<1>8. Ownership!Init
  BY <1>1, <1>4 DEF Ownership!Init, Owner, AtRest
<1> QED  BY <1>7, <1>8

\* Every step keeps the ownership and is one that FdOwner allows.
LEMMA OwnSteps ==
    ASSUME LateTimeouts = 0, OwnInv, [PoolNext]_poolVars
    PROVE  OwnInv' /\ OwnerStep
<1>1. TypeInv'
  BY TypeSteps DEF OwnInv
<1>2. SUFFICES AskedOnce' /\ OwnerStep /\ \A u \in Transport : Consistent(u)'
  BY <1>1, <1>2 DEF OwnInv
<1>3. CASE UNCHANGED poolVars
  <2>1. UNCHANGED <<inbox, cmds, phase, home, registered, closes>>
    BY <1>3 DEF poolVars, mainVars, transportVars, reactorVars
  <2> QED  BY <2>1, QueuesSame, NothingMoves
<1>4. ASSUME NEW t \in Transport, Adopt(t) \/ Register(t)
      PROVE  AskedOnce' /\ OwnerStep /\ \A u \in Transport : Consistent(u)'
  BY <1>4, RegisterOwned
<1>5. ASSUME NEW t \in Transport, RegisterTimesOut(t)
      PROVE  AskedOnce' /\ OwnerStep /\ \A u \in Transport : Consistent(u)'
  BY <1>5, TimeoutOwned
<1>6. CASE HandleRegistered \/ HandleRefused
  BY <1>6, AnswersOwned
<1>7. CASE \/ \E t \in Transport : Close(t) \/ CommandRefused(t)
           \/ HandleReady \/ HandleBootError \/ HandleExit \/ HandleClosed \/ SpawnTimesOut
  BY <1>7, OthersOwned
<1>8. ASSUME NEW k \in Incarnation, Reactor(k)
      PROVE  AskedOnce' /\ OwnerStep /\ \A u \in Transport : Consistent(u)'
  BY <1>8, ReactorOwned
<1> QED  BY <1>3, <1>4, <1>5, <1>6, <1>7, <1>8 DEF PoolNext, Main, HandleMessage

\* While no registration times out with an answer coming, the transport and the
\* reactors agree on the owner, through exits of incarnations, lost commands,
\* refusals and retries.
THEOREM OwnersAgree ==
    ASSUME LateTimeouts = 0
    PROVE  PoolSpec => []OwnerIsAddressed
<1>1. PoolInit => OwnInv
  BY OwnStarts
<1>2. OwnInv /\ [PoolNext]_poolVars => OwnInv'
  BY OwnSteps
<1>3. OwnInv => OwnerIsAddressed
  BY DEF OwnInv, Consistent, OwnerIsAddressed
<1> QED  BY <1>1, <1>2, <1>3, PTL DEF PoolSpec

\* Then the pool implements FdOwner: a descriptor is handed over at most once,
\* and closed at most once, by the one that owns it.
THEOREM OneOwnerHolds ==
    ASSUME LateTimeouts = 0
    PROVE  PoolSpec => OneOwner
<1>1. PoolInit => OwnInv /\ Ownership!Init
  BY OwnStarts
<1>2. OwnInv /\ [PoolNext]_poolVars => OwnInv' /\ [Ownership!Next]_<<Owner, closes>>
  BY OwnSteps DEF OwnerStep
<1> QED  BY <1>1, <1>2, PTL DEF PoolSpec, OneOwner, Ownership!Spec
=============================================================================
