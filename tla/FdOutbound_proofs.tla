-------------------------- MODULE FdOutbound_proofs --------------------------
(***************************************************************************)
(* The outbound half of FdTransport for every value of its constants:      *)
(* write, closeWrite and close on the main isolate, their commands, the    *)
(* flush loop with its partial writes, and the events that resolve the     *)
(* futures.                                                                *)
(***************************************************************************)
EXTENDS FdInbound_proofs, WellFoundedInduction

-----------------------------------------------------------------------------
(* Sums.                                                                   *)

\* g[k] is the sum of b[1] .. b[k].
IsSum(g, b, n) ==
    /\ g \in [0 .. n -> Int]
    /\ g[0] = 0
    /\ \A k \in 1 .. n : g[k] = g[k - 1] + b[k]

\* A set of natural numbers has a least element: induction over data, without the library's
\* induction theorems, whose operator parameter the provers cannot instantiate.
LEMMA LeastNat ==
    ASSUME NEW T, T \subseteq Nat, T # {}
    PROVE  \E x \in T : \A y \in T : x <= y
<1>1. PICK x \in T : \A y \in T : ~ (<<y, x>> \in OpToRel(<, Nat))
  BY NatLessThanWellFounded, WFMin
<1>2. ASSUME NEW y \in T PROVE x <= y
  <2>1. <<y, x>> \notin OpToRel(<, Nat)
    BY <1>1
  <2>2. ~ (y < x)
    BY <2>1 DEF OpToRel
  <2> QED  BY <2>2
<1> QED  BY <1>2

\* Such sums exist: the least n without any would extend those of n - 1.
LEMMA SumExists ==
    ASSUME NEW b, NEW n \in Nat, \A k \in 1 .. n : b[k] \in Int
    PROVE  \E g : IsSum(g, b, n)
<1> DEFINE T == {m \in 0 .. n : ~ \E g : IsSum(g, b, m)}
<1>1. SUFFICES ASSUME T # {} PROVE FALSE
  <2>1. n \in 0 .. n
    OBVIOUS
  <2> QED  BY <1>1, <2>1
<1>2. PICK m \in T : \A y \in T : m <= y
  <2>1. T \subseteq Nat
    OBVIOUS
  <2> HIDE DEF T
  <2> QED  BY <1>1, <2>1, LeastNat
<1>3. m # 0
  <2>1. IsSum([k \in 0 .. 0 |-> 0], b, 0)
    BY DEF IsSum
  <2> QED  BY <2>1
<1>4. m \in 1 .. n /\ m - 1 \in 0 .. n /\ m - 1 \in Nat /\ ~(m <= m - 1)
  BY <1>3
<1>5. m - 1 \notin T
  <2> HIDE DEF T
  <2> QED  BY <1>2, <1>4
<1>6. PICK g : IsSum(g, b, m - 1)
  BY <1>4, <1>5
<1> DEFINE h == [k \in 0 .. m |-> IF k = m THEN g[m - 1] + b[m] ELSE g[k]]
<1>7. IsSum(h, b, m)
  <2>1. g[m - 1] + b[m] \in Int
    BY <1>4, <1>6 DEF IsSum
  <2>2. h \in [0 .. m -> Int]
    BY <1>4, <1>6, <2>1 DEF IsSum
  <2>3. h[0] = 0
    BY <1>4, <1>6 DEF IsSum
  <2>4. ASSUME NEW k \in 1 .. m PROVE h[k] = h[k - 1] + b[k]
    BY <1>4, <1>6 DEF IsSum
  <2> HIDE DEF h
  <2> QED  BY <2>2, <2>3, <2>4 DEF IsSum
<1> QED  BY <1>7

\* The value of the recursive definition is the value of any function that satisfies its equation.
LEMMA SumIs ==
    ASSUME NEW b, NEW n \in Nat, \A k \in 1 .. n : b[k] \in Int,
           NEW g, IsSum(g, b, n)
    PROVE  SumTo(b, n) = g[n]
<1> DEFINE E(f) == [k \in 0 .. n |-> IF k = 0 THEN 0 ELSE f[k - 1] + b[k]]
           u == CHOOSE f : f = E(f)
           T == {m \in 0 .. n : u[m] # g[m]}
<1>1. g = E(g)
  BY DEF IsSum
<1>2. u = E(u)
  <2> HIDE DEF E
  <2> QED  BY <1>1
<1>3. SumTo(b, n) = u[n]
  BY DEF SumTo
<1> HIDE DEF u
<1>4. ASSUME T # {} PROVE FALSE
  <2>1. PICK m \in T : \A y \in T : m <= y
    <3>1. T \subseteq Nat
      OBVIOUS
    <3> HIDE DEF T
    <3> QED  BY <1>4, <3>1, LeastNat
  <2>2. m # 0
    BY <1>1, <1>2
  <2>3. m \in 1 .. n /\ m - 1 \in 0 .. n /\ ~(m <= m - 1)
    BY <2>2
  <2>4. m - 1 \notin T
    <3> HIDE DEF T
    <3> QED  BY <2>1, <2>3
  <2>5. u[m] = u[m - 1] + b[m] /\ g[m] = g[m - 1] + b[m]
    BY <1>1, <1>2, <2>3
  <2> QED  BY <2>3, <2>4, <2>5
<1> QED  BY <1>3, <1>4

\* The sum of nothing,
LEMMA SumZero == ASSUME NEW b PROVE SumTo(b, 0) = 0
<1>1. IsSum([k \in 0 .. 0 |-> 0], b, 0)
  BY DEF IsSum
<1> QED  BY <1>1, SumIs

\* and of one summand more.
LEMMA SumStep ==
    ASSUME NEW b, NEW n \in Nat, \A k \in 1 .. n + 1 : b[k] \in Int
    PROVE  SumTo(b, n) \in Int /\ SumTo(b, n + 1) = SumTo(b, n) + b[n + 1]
<1>1. PICK g : IsSum(g, b, n + 1)
  BY SumExists
<1>2. SumTo(b, n + 1) = g[n + 1]
  BY <1>1, SumIs
<1> DEFINE h == [k \in 0 .. n |-> g[k]]
<1>3. IsSum(h, b, n)
  BY <1>1 DEF IsSum
<1>4. SumTo(b, n) = g[n]
  BY <1>3, SumIs
<1> QED  BY <1>1, <1>2, <1>4 DEF IsSum

\* A change of one summand changes the sum by as much.
LEMMA SumChange ==
    ASSUME NEW b, NEW c, NEW n \in Nat, NEW i \in 1 .. n,
           \A k \in 1 .. n : b[k] \in Int, \A k \in 1 .. n : c[k] \in Int,
           \A k \in 1 .. n : k # i => c[k] = b[k]
    PROVE  SumTo(c, n) = SumTo(b, n) - b[i] + c[i]
<1>1. PICK g : IsSum(g, b, n)
  BY SumExists
<1> DEFINE h == [k \in 0 .. n |-> IF k < i THEN g[k] ELSE g[k] - b[i] + c[i]]
<1>2. IsSum(h, c, n)
  <2>1. h \in [0 .. n -> Int]
    BY <1>1 DEF IsSum
  <2>2. h[0] = 0
    BY <1>1 DEF IsSum
  <2>3. ASSUME NEW k \in 1 .. n PROVE h[k] = h[k - 1] + c[k]
    <3>1. g[k] = g[k - 1] + b[k] /\ g[k] \in Int /\ g[k - 1] \in Int /\ b[k] \in Int /\ c[k] \in Int
      BY <1>1 DEF IsSum
    <3>2. b[i] \in Int /\ c[i] \in Int
      OBVIOUS
    <3>3. CASE k < i
      BY <3>1, <3>2, <3>3
    <3>4. CASE k = i
      BY <3>1, <3>2, <3>4
    <3>5. CASE k > i
      BY <3>1, <3>2, <3>5
    <3> QED  BY <3>3, <3>4, <3>5
  <2> HIDE DEF h
  <2> QED  BY <2>1, <2>2, <2>3 DEF IsSum
<1>3. SumTo(b, n) = g[n] /\ SumTo(c, n) = h[n]
  <2> HIDE DEF h
  <2> QED  BY <1>1, <1>2, SumIs
<1> QED  BY <1>3

\* Only the summands matter.
LEMMA SumSame ==
    ASSUME NEW b, NEW c, NEW n \in Nat,
           \A k \in 1 .. n : b[k] \in Int,
           \A k \in 1 .. n : c[k] = b[k]
    PROVE  SumTo(c, n) = SumTo(b, n)
<1>1. PICK g : IsSum(g, b, n)
  BY SumExists
<1>2. IsSum(g, c, n)
  BY <1>1 DEF IsSum
<1> QED  BY <1>1, <1>2, SumIs

\* Sums of natural numbers grow with their number.
LEMMA SumGrows ==
    ASSUME NEW b, NEW n \in Nat, NEW m \in 0 .. n, \A k \in 1 .. n : b[k] \in Nat
    PROVE  SumTo(b, m) \in Nat /\ SumTo(b, n) \in Nat /\ SumTo(b, m) <= SumTo(b, n)
<1>1. PICK g : IsSum(g, b, n)
  BY SumExists
<1> DEFINE T == {j \in 0 .. n : ~ (g[j] \in Nat /\ \A k \in 0 .. j : g[k] <= g[j])}
<1>2. ASSUME T # {} PROVE FALSE
  <2>1. PICK j \in T : \A y \in T : j <= y
    <3>1. T \subseteq Nat
      OBVIOUS
    <3> HIDE DEF T
    <3> QED  BY <1>2, <3>1, LeastNat
  <2>2. j # 0
    BY <1>1 DEF IsSum
  <2>3. j \in 1 .. n /\ j - 1 \in 0 .. n /\ ~(j <= j - 1)
    BY <2>2
  <2>4. j - 1 \notin T
    <3> HIDE DEF T
    <3> QED  BY <2>1, <2>3
  <2>5. g[j] = g[j - 1] + b[j] /\ b[j] \in Nat /\ g[j - 1] \in Nat
    BY <1>1, <2>3, <2>4 DEF IsSum
  <2>6. \A k \in 0 .. j - 1 : g[k] <= g[j - 1] /\ g[k] \in Int
    BY <1>1, <2>3, <2>4 DEF IsSum
  <2>7. \A k \in 0 .. j : g[k] <= g[j]
    BY <2>3, <2>5, <2>6
  <2> QED  BY <2>5, <2>7
<1> DEFINE h == [k \in 0 .. m |-> g[k]]
<1>3. IsSum(h, b, m)
  BY <1>1 DEF IsSum
<1>4. SumTo(b, m) = g[m] /\ SumTo(b, n) = g[n]
  BY <1>1, <1>3, SumIs
<1>5. g[n] \in Nat /\ g[m] \in Nat /\ g[m] <= g[n]
  <2>1. n \notin T /\ m \notin T
    BY <1>2
  <2> QED  BY <2>1
<1> QED  BY <1>4, <1>5

-----------------------------------------------------------------------------
(* The path of a write: its command, the reactor's queue, the fd, its      *)
(* event.  Writes and closeWrite are numbered by their futures; d of them  *)
(* are done.                                                               *)

Carriers == {"write", "shutdownWrite"}

\* The writes and the closeWrite that are commanded in q are those after `from', up to `to',
\* in order; g counts them along q.
Numbered(q, from, to) ==
    \E g \in [0 .. Len(q) -> 0 .. to] :
        /\ g[0] = from /\ g[Len(q)] = to
        /\ \A i, j \in 0 .. Len(q) : i <= j => g[i] <= g[j]
        /\ \A i \in 1 .. Len(q) :
             IF q[i].kind \in Carriers
             THEN g[i] = g[i - 1] + 1 /\ q[i].id = g[i]
             ELSE g[i] = g[i - 1]

\* Future that the pending closeWrite of the reactor takes behind its queue.
Ending == IF r.closingWrite THEN 1 ELSE 0

\* The queue follows on the writes that are done; only its first may be begun.
QueueAt(d) ==
    /\ \A i \in DOMAIN r.writes :
         r.writes[i].id = d + i /\ (i > 1 => r.writes[i].offset = 0)
    /\ r.closingWrite => r.shutdownWriteId = d + Len(r.writes) + 1

CommandsAt(d) == Numbered(cmds, d + Len(r.writes) + Ending, Len(futures))

\* The fd has the writes that are done and the part of the next that was taken.
WireAt(d) ==
    Len(wire) = BytesBefore(d + 1) + (IF r.writes = <<>> THEN 0 ELSE r.writes[1].offset)

\* Not done, unless it is the closeWrite after its SHUT_WR.
Outstanding(d, id) == id > d /\ ~(r.writeClosed /\ id = r.shutdownWriteId)

\* What is not done is neither resolved nor about to be.
PendingAt(d) ==
    /\ \A id \in DOMAIN futures : Outstanding(d, id) /\ ~closed => futures[id].state = "pending"
    /\ \A i \in DOMAIN evts : evts[i].kind = "writeOk" => ~Outstanding(d, evts[i].id)

Pipeline ==
    ~r.closed =>
        /\ shardUp
        /\ \A i \in DOMAIN evts : evts[i].kind # "writeError"
        /\ \E d \in 0 .. Len(futures) :
             QueueAt(d) /\ CommandsAt(d) /\ WireAt(d) /\ PendingAt(d)

\* Only the last future may be a closeWrite, and it ends the writing.
EndIsLast ==
    \A id \in DOMAIN futures : futures[id].bytes = 0 => id = Len(futures) /\ writeFinished

\* A future of closeWrite.
IsEnd(id) == id \in DOMAIN futures /\ futures[id].bytes = 0

EndIsMarked ==
    /\ \A i \in DOMAIN cmds : cmds[i].kind = "shutdownWrite" => IsEnd(cmds[i].id)
    /\ r.closingWrite => IsEnd(r.shutdownWriteId)
    /\ r.writeClosed => r.closingWrite
    /\ txShut => r.writeClosed /\ writeFinished

\* The bytes of id, and what was queued before it, are on the fd.
Written(id) ==
    /\ id \in DOMAIN futures
    /\ Len(wire) >= BytesBefore(id) + futures[id].bytes
    /\ futures[id].bytes = 0 => txShut

OkIsTrue ==
    /\ \A id \in DOMAIN futures : futures[id].state = "ok" => Written(id)
    /\ \A i \in DOMAIN evts : evts[i].kind = "writeOk" => Written(evts[i].id)

WireOrdered ==
    \A i \in DOMAIN wire :
        /\ wire[i][1] \in DOMAIN futures
        /\ wire[i][2] <= futures[wire[i][1]].bytes
        /\ i = BytesBefore(wire[i][1]) + wire[i][2]

ShutIsLast == txShut => Len(wire) = BytesBefore(Len(futures) + 1)

Accounted ==
    ~closed => /\ pendingWriteBytes = SumTo(Unresolved, Len(futures))
               /\ pendingWriteBytes <= MaxPendingWrite

OutboundInv ==
    /\ EndIsLast /\ EndIsMarked
    /\ WireOrdered /\ OkIsTrue /\ ShutIsLast
    /\ Accounted /\ Pipeline

-----------------------------------------------------------------------------
(* What commands and teardowns do to the numbering and to the bytes.       *)

\* The numbers of the commands in q lie between its ends.
LEMMA NumberedIds ==
    ASSUME NEW q \in Seq(Cmd), NEW from \in Nat, NEW to \in Nat, Numbered(q, from, to)
    PROVE  /\ from <= to
           /\ \A i \in DOMAIN q : q[i].kind \in Carriers => q[i].id \in from + 1 .. to
<1>1. PICK g \in [0 .. Len(q) -> 0 .. to] :
        /\ g[0] = from /\ g[Len(q)] = to
        /\ \A i, j \in 0 .. Len(q) : i <= j => g[i] <= g[j]
        /\ \A i \in 1 .. Len(q) :
             IF q[i].kind \in Carriers
             THEN g[i] = g[i - 1] + 1 /\ q[i].id = g[i]
             ELSE g[i] = g[i - 1]
  BY DEF Numbered
<1>2. Len(q) \in Nat /\ 0 \in 0 .. Len(q) /\ Len(q) \in 0 .. Len(q)
  OBVIOUS
<1>3. from <= to
  BY <1>1, <1>2
<1>4. ASSUME NEW i \in 1 .. Len(q), q[i].kind \in Carriers
      PROVE  q[i].id \in from + 1 .. to
  <2>1. i \in 0 .. Len(q) /\ i - 1 \in 0 .. Len(q) /\ 0 <= i - 1 /\ i <= Len(q)
    BY <1>2
  <2>2. g[i] = g[i - 1] + 1 /\ q[i].id = g[i]
    BY <1>1, <1>4
  <2>3. g[0] <= g[i - 1] /\ g[i] <= g[Len(q)]
    BY <1>1, <1>2, <2>1
  <2>4. g[i] \in 0 .. to /\ g[i - 1] \in 0 .. to
    BY <1>1, <2>1
  <2> QED  BY <1>1, <2>2, <2>3, <2>4
<1> QED  BY <1>3, <1>4

\* A command at the end either takes the next number or none.
LEMMA NumberedAppend ==
    ASSUME NEW q \in Seq(Cmd), NEW m \in Cmd, NEW from \in Nat, NEW to \in Nat,
           Numbered(q, from, to)
    PROVE  /\ m.kind \notin Carriers => Numbered(Append(q, m), from, to)
           /\ m.kind \in Carriers /\ m.id = to + 1 => Numbered(Append(q, m), from, to + 1)
<1> DEFINE qq == Append(q, m)
           n == Len(q)
<1>1. PICK g \in [0 .. n -> 0 .. to] :
        /\ g[0] = from /\ g[n] = to
        /\ \A i, j \in 0 .. n : i <= j => g[i] <= g[j]
        /\ \A i \in 1 .. n :
             IF q[i].kind \in Carriers
             THEN g[i] = g[i - 1] + 1 /\ q[i].id = g[i]
             ELSE g[i] = g[i - 1]
  BY DEF Numbered
<1>2. n \in Nat /\ Len(qq) = n + 1 /\ qq[n + 1] = m /\ \A i \in 1 .. n : qq[i] = q[i]
  OBVIOUS
<1>3. ASSUME NEW t \in {to, to + 1},
             t = (IF m.kind \in Carriers THEN to + 1 ELSE to),
             m.kind \in Carriers => m.id = to + 1
      PROVE  Numbered(qq, from, t)
  <2> DEFINE h == [i \in 0 .. n + 1 |-> IF i = n + 1 THEN t ELSE g[i]]
  <2>1. t \in Nat /\ to <= t
    OBVIOUS
  <2>2. \A i \in 0 .. n : h[i] = g[i] /\ g[i] \in 0 .. to
    BY <1>1, <1>2
  <2>3. h \in [0 .. n + 1 -> 0 .. t]
    BY <1>2, <2>1, <2>2
  <2>4. h[0] = from /\ h[n + 1] = t
    BY <1>1, <1>2
  <2>5. ASSUME NEW i \in 0 .. n + 1, NEW j \in 0 .. n + 1, i <= j
        PROVE  h[i] <= h[j]
    <3>1. CASE j = n + 1
      <4>1. h[j] = t /\ h[i] \in 0 .. t
        BY <2>3, <3>1
      <4> QED  BY <2>1, <4>1
    <3>2. CASE j # n + 1
      <4>1. i \in 0 .. n /\ j \in 0 .. n
        BY <1>2, <2>5, <3>2
      <4> QED  BY <1>1, <2>2, <2>5, <4>1
    <3> QED  BY <3>1, <3>2
  <2>6. ASSUME NEW i \in 1 .. n + 1
        PROVE  IF qq[i].kind \in Carriers
               THEN h[i] = h[i - 1] + 1 /\ qq[i].id = h[i]
               ELSE h[i] = h[i - 1]
    <3>1. CASE i = n + 1
      <4>1. h[i] = t /\ h[i - 1] = to /\ qq[i] = m
        BY <1>1, <1>2, <3>1
      <4> QED  BY <1>3, <4>1
    <3>2. CASE i # n + 1
      <4>1. i \in 1 .. n /\ i \in 0 .. n /\ i - 1 \in 0 .. n
        BY <1>2, <3>2
      <4>2. h[i] = g[i] /\ h[i - 1] = g[i - 1] /\ qq[i] = q[i]
        BY <1>2, <2>2, <4>1
      <4> QED  BY <1>1, <4>1, <4>2
    <3> QED  BY <3>1, <3>2
  <2> HIDE DEF h, qq, n
  <2> QED  BY <1>2, <2>3, <2>4, <2>5, <2>6 DEF Numbered
<1> HIDE DEF qq
<1>4. m.kind \notin Carriers => Numbered(qq, from, to)
  BY <1>3
<1>5. m.kind \in Carriers /\ m.id = to + 1 => Numbered(qq, from, to + 1)
  BY <1>3
<1> QED  BY <1>4, <1>5 DEF qq

\* The first command has the next number, or none.
LEMMA NumberedTail ==
    ASSUME NEW q \in Seq(Cmd), q # <<>>, NEW from \in Nat, NEW to \in Nat,
           Numbered(q, from, to)
    PROVE  /\ Head(q).kind \notin Carriers => Numbered(Tail(q), from, to)
           /\ Head(q).kind \in Carriers =>
                Head(q).id = from + 1 /\ Numbered(Tail(q), from + 1, to)
<1> DEFINE n == Len(q)
           qq == Tail(q)
<1>1. PICK g \in [0 .. n -> 0 .. to] :
        /\ g[0] = from /\ g[n] = to
        /\ \A i, j \in 0 .. n : i <= j => g[i] <= g[j]
        /\ \A i \in 1 .. n :
             IF q[i].kind \in Carriers
             THEN g[i] = g[i - 1] + 1 /\ q[i].id = g[i]
             ELSE g[i] = g[i - 1]
  BY DEF Numbered
<1>2. n \in Nat /\ n > 0 /\ Len(qq) = n - 1 /\ Head(q) = q[1]
      /\ \A i \in 1 .. n - 1 : qq[i] = q[i + 1]
  OBVIOUS
<1> DEFINE h == [i \in 0 .. n - 1 |-> g[i + 1]]
<1>3. \A i \in 0 .. n - 1 : h[i] = g[i + 1] /\ i + 1 \in 0 .. n
  BY <1>2
<1>4. h \in [0 .. n - 1 -> 0 .. to] /\ h[0] = g[1] /\ h[n - 1] = to
  BY <1>1, <1>2, <1>3
<1>5. \A i, j \in 0 .. n - 1 : i <= j => h[i] <= h[j]
  <2> SUFFICES ASSUME NEW i \in 0 .. n - 1, NEW j \in 0 .. n - 1, i <= j
               PROVE  h[i] <= h[j]
    OBVIOUS
  <2>1. i + 1 \in 0 .. n /\ j + 1 \in 0 .. n /\ i + 1 <= j + 1
    BY <1>2
  <2>2. g[i + 1] <= g[j + 1]
    BY <1>1, <2>1
  <2> QED  BY <1>3, <2>2
<1>6. ASSUME NEW i \in 1 .. n - 1
      PROVE  IF qq[i].kind \in Carriers
             THEN h[i] = h[i - 1] + 1 /\ qq[i].id = h[i]
             ELSE h[i] = h[i - 1]
  <2>1. i + 1 \in 1 .. n /\ qq[i] = q[i + 1] /\ h[i] = g[i + 1] /\ h[i - 1] = g[(i + 1) - 1]
    BY <1>2
  <2> QED  BY <1>1, <2>1
<1>7. Numbered(qq, g[1], to)
  <2> HIDE DEF h, qq, n
  <2> QED  BY <1>2, <1>4, <1>5, <1>6 DEF Numbered
<1>8. IF Head(q).kind \in Carriers THEN g[1] = from + 1 /\ Head(q).id = g[1] ELSE g[1] = from
  BY <1>1, <1>2
<1> QED  BY <1>7, <1>8

\* The empty queue has no numbers.
LEMMA NumberedEmpty ==
    ASSUME NEW n \in Nat
    PROVE  Numbered(<<>>, n, n)
<1> DEFINE g == [i \in 0 .. 0 |-> n]
<1>1. g \in [0 .. 0 -> 0 .. n] /\ g[0] = n
  OBVIOUS
<1> HIDE DEF g
<1> QED  BY <1>1 DEF Numbered

\* qq is q with commands at its end that are about reads and close.
Unnumbered(q, qq) ==
    /\ \A from, to \in Nat : Numbered(q, from, to) => Numbered(qq, from, to)
    /\ \A i \in DOMAIN qq :
         qq[i].kind = "shutdownWrite" => \E j \in DOMAIN q : q[j] = qq[i]

\* such as one command without a number,
LEMMA UnnumberedAppend ==
    ASSUME NEW p, NEW q \in Seq(Cmd), NEW m \in Cmd, m.kind \notin Carriers, Unnumbered(p, q)
    PROVE  Unnumbered(p, Append(q, m))
<1>1. \A from, to \in Nat : Numbered(p, from, to) => Numbered(Append(q, m), from, to)
  BY NumberedAppend DEF Unnumbered
<1>2. ASSUME NEW i \in DOMAIN Append(q, m), Append(q, m)[i].kind = "shutdownWrite"
      PROVE  \E j \in DOMAIN p : p[j] = Append(q, m)[i]
  <2>1. CASE i = Len(q) + 1
    BY <1>2, <2>1 DEF Carriers
  <2>2. CASE i # Len(q) + 1
    <3>1. i \in DOMAIN q /\ Append(q, m)[i] = q[i]
      BY <2>2
    <3> QED  BY <1>2, <3>1 DEF Unnumbered
  <2> QED  BY <2>1, <2>2
<1> QED  BY <1>1, <1>2 DEF Unnumbered

\* or none.
LEMMA UnnumberedSame == ASSUME NEW q PROVE Unnumbered(q, q)
  BY DEF Unnumbered

\* The bytes before a future and those of it.
LEMMA BytesStep ==
    ASSUME TypeOK
    PROVE  /\ \A id \in 1 .. Len(futures) + 1 : BytesBefore(id) \in Nat
           /\ \A id \in DOMAIN futures :
                /\ futures[id].bytes \in Nat
                /\ BytesBefore(id + 1) = BytesBefore(id) + futures[id].bytes
           /\ BytesBefore(1) = 0
<1>1. futures \in Seq(Future) /\ Len(futures) \in Nat /\ DOMAIN futures = 1 .. Len(futures)
  BY DEF TypeOK
<1>2. \A id \in 1 .. Len(futures) : futures[id].bytes \in Nat /\ Bytes[id] = futures[id].bytes
  <2>1. \A id \in 1 .. Len(futures) : futures[id] \in Future
    BY <1>1
  <2> QED  BY <1>1, <2>1 DEF Future, Bytes
<1>3. ASSUME NEW id \in 1 .. Len(futures) + 1 PROVE BytesBefore(id) \in Nat
  <2>1. id - 1 \in 0 .. Len(futures)
    BY <1>1
  <2> QED  BY <1>1, <1>2, <2>1, SumGrows DEF BytesBefore
<1>4. ASSUME NEW id \in 1 .. Len(futures)
      PROVE  BytesBefore(id + 1) = BytesBefore(id) + futures[id].bytes
  <2>1. id - 1 \in Nat /\ (id - 1) + 1 = id /\ (id + 1) - 1 = id
    BY <1>1
  <2>2. \A k \in 1 .. id : Bytes[k] \in Int
    BY <1>1, <1>2
  <2>3. SumTo(Bytes, id) = SumTo(Bytes, id - 1) + Bytes[id]
    BY <2>1, <2>2, SumStep
  <2> QED  BY <1>2, <2>1, <2>3 DEF BytesBefore
<1>5. BytesBefore(1) = 0
  BY SumZero DEF BytesBefore
<1> QED  BY <1>1, <1>2, <1>3, <1>4, <1>5

\* Futures are added at the end and keep their bytes.
FuturesGrow ==
    /\ Len(futures) <= Len(futures')
    /\ \A id \in DOMAIN futures : futures'[id].bytes = futures[id].bytes

\* What a future has before it stays.
LEMMA BytesKept ==
    ASSUME TypeOK, TypeOK', FuturesGrow, NEW id \in 1 .. Len(futures) + 1
    PROVE  BytesBefore(id)' = BytesBefore(id)
<1>1. futures \in Seq(Future) /\ futures' \in Seq(Future)
  BY DEF TypeOK
<1>2. \A k \in 1 .. Len(futures) : futures[k] \in Future
  BY <1>1
<1>3. \A k \in 1 .. id - 1 : Bytes[k] \in Int /\ Bytes'[k] = Bytes[k]
  BY <1>1, <1>2 DEF Bytes, FuturesGrow, Future
<1>4. id - 1 \in Nat
  BY <1>1
<1>5. SumTo(Bytes', id - 1) = SumTo(Bytes, id - 1)
  BY <1>3, <1>4, SumSame
<1> QED  BY <1>5 DEF BytesBefore

-----------------------------------------------------------------------------
(* What each part of the invariant needs of a step.                        *)

\* The main isolate alone acts; the fd and the reactor stay.
LEMMA WireKept ==
    ASSUME TypeOK, TypeOK', FuturesGrow, wire' = wire, WireOrdered
    PROVE  WireOrdered'
<1>1. DOMAIN futures = 1 .. Len(futures) /\ DOMAIN futures' = 1 .. Len(futures')
      /\ Len(futures) \in Nat /\ Len(futures') \in Nat
  <2>1. futures \in Seq(Future) /\ futures' \in Seq(Future)
    BY DEF TypeOK
  <2> QED  BY ONLY <2>1
<1>2. \A id \in DOMAIN futures : id \in DOMAIN futures' /\ id \in 1 .. Len(futures) + 1
  BY <1>1 DEF FuturesGrow
<1>3. \A id \in DOMAIN futures : BytesBefore(id)' = BytesBefore(id)
  BY <1>2, BytesKept
<1> QED  BY <1>2, <1>3 DEF WireOrdered, FuturesGrow

\* What is written stays written.
LEMMA WrittenKept ==
    ASSUME TypeOK, TypeOK', FuturesGrow, Len(wire) <= Len(wire'), txShut => txShut',
           NEW id, Written(id)
    PROVE  Written(id)'
<1>1. DOMAIN futures = 1 .. Len(futures) /\ DOMAIN futures' = 1 .. Len(futures')
      /\ Len(futures) \in Nat /\ Len(futures') \in Nat
  <2>1. futures \in Seq(Future) /\ futures' \in Seq(Future)
    BY DEF TypeOK
  <2> QED  BY ONLY <2>1
<1>2. Len(wire) \in Nat /\ Len(wire') \in Nat
  <2>1. wire \in Seq(Nat \X Nat) /\ wire' \in Seq(Nat \X Nat)
    BY DEF TypeOK
  <2> QED  BY ONLY <2>1
<1>3. id \in DOMAIN futures /\ id \in DOMAIN futures' /\ id \in 1 .. Len(futures) + 1
  BY <1>1 DEF FuturesGrow, Written
<1>4. BytesBefore(id)' = BytesBefore(id) /\ BytesBefore(id) \in Nat
      /\ futures'[id].bytes = futures[id].bytes /\ futures[id].bytes \in Nat
  BY <1>3, BytesKept, BytesStep DEF FuturesGrow
<1> QED  BY <1>2, <1>3, <1>4 DEF Written

\* A closeWrite stays one.
LEMMA EndKept ==
    ASSUME TypeOK, TypeOK', FuturesGrow, NEW id, IsEnd(id)
    PROVE  IsEnd(id)'
<1>1. DOMAIN futures = 1 .. Len(futures) /\ DOMAIN futures' = 1 .. Len(futures')
      /\ Len(futures) \in Nat /\ Len(futures') \in Nat
  <2>1. futures \in Seq(Future) /\ futures' \in Seq(Future)
    BY DEF TypeOK
  <2> QED  BY ONLY <2>1
<1> QED  BY <1>1 DEF FuturesGrow, IsEnd

\* Futures that only grow in number leave the bytes on the fd where they are.
LEMMA WireAtKept ==
    ASSUME TypeOK, TypeOK', FuturesGrow, wire' = wire, r'.writes = r.writes,
           NEW d \in 0 .. Len(futures), WireAt(d)
    PROVE  WireAt(d)'
<1>1. d + 1 \in 1 .. Len(futures) + 1
  BY DEF TypeOK
<1>2. BytesBefore(d + 1)' = BytesBefore(d + 1)
  BY <1>1, BytesKept
<1> QED  BY <1>2 DEF WireAt

\* A step of the main isolate that accepts no write: the futures keep their number and are
\* at most resolved, by an event or by a teardown.
LEMMA MainKeeps ==
    ASSUME TypeOK, TypeOK', OutboundInv,
           UNCHANGED <<r, wire, txShut, shardUp>>,
           FuturesGrow, Len(futures') = Len(futures),
           writeFinished => writeFinished', closed => closed',
           Unnumbered(cmds, cmds'),
           \A i \in DOMAIN evts' : \E j \in DOMAIN evts : evts'[i] = evts[j],
           \A id \in DOMAIN futures :
               \/ futures'[id].state = futures[id].state
               \/ closed' /\ futures'[id].state = "failed"
               \/ /\ futures'[id].state = "ok"
                  /\ \E j \in DOMAIN evts : evts[j].kind = "writeOk" /\ evts[j].id = id,
           Accounted'
    PROVE  OutboundInv'
<1>1. DOMAIN futures = 1 .. Len(futures) /\ DOMAIN futures' = DOMAIN futures
      /\ Len(futures) \in Nat
  BY DEF TypeOK
<1>2. EndIsLast'
  BY <1>1 DEF EndIsLast, FuturesGrow, OutboundInv
<1>3. EndIsMarked'
  <2>1. \A i \in DOMAIN cmds' : cmds'[i].kind = "shutdownWrite" => IsEnd(cmds'[i].id)
    BY DEF Unnumbered, EndIsMarked, OutboundInv
  <2> QED  BY <2>1, EndKept DEF EndIsMarked, OutboundInv
<1>4. WireOrdered'
  BY WireKept DEF OutboundInv
<1>5. OkIsTrue'
  <2>1. Len(wire) <= Len(wire')
    BY DEF TypeOK
  <2>2. \A id : Written(id) => Written(id)'
    BY <2>1, WrittenKept
  <2>3. \A i \in DOMAIN evts' : evts'[i].kind = "writeOk" => Written(evts'[i].id)
    BY DEF OkIsTrue, OutboundInv
  <2>4. \A id \in DOMAIN futures' : futures'[id].state = "ok" => Written(id)
    BY <1>1 DEF OkIsTrue, OutboundInv
  <2> QED  BY <2>2, <2>3, <2>4 DEF OkIsTrue
<1>6. ShutIsLast'
  <2>1. Len(futures) + 1 \in 1 .. Len(futures) + 1
    BY <1>1
  <2> QED  BY <2>1, BytesKept DEF ShutIsLast, OutboundInv
<1>7. Pipeline'
  <2> SUFFICES ASSUME ~r.closed PROVE Pipeline'
    BY DEF Pipeline
  <2>1. PICK d \in 0 .. Len(futures) :
            QueueAt(d) /\ CommandsAt(d) /\ WireAt(d) /\ PendingAt(d)
    BY DEF Pipeline, OutboundInv
  <2>2. QueueAt(d)'
    BY <2>1 DEF QueueAt
  <2>3. CommandsAt(d)'
    <3>1. d + Len(r.writes) + Ending \in Nat /\ Ending' = Ending
      <4>1. r.writes \in Seq(QueuedWrite)
        BY DEF TypeOK, ReactorState
      <4>2. Len(r.writes) \in Nat
        BY <4>1
      <4>3. Ending \in Nat /\ Ending' = Ending
        BY DEF Ending
      <4> QED  BY <4>2, <4>3
    <3> QED  BY <1>1, <2>1, <3>1 DEF CommandsAt, Unnumbered
  <2>4. WireAt(d)'
    BY <2>1, WireAtKept
  <2>5. PendingAt(d)'
    <3>1. \A id : Outstanding(d, id)' <=> Outstanding(d, id)
      BY DEF Outstanding
    <3>2. \A i \in DOMAIN evts' : evts'[i].kind = "writeOk" => ~Outstanding(d, evts'[i].id)
      BY <2>1 DEF PendingAt
    <3>3. ASSUME NEW id \in DOMAIN futures', Outstanding(d, id), ~closed'
          PROVE  futures'[id].state = "pending"
      BY <1>1, <2>1, <3>3 DEF PendingAt
    <3> QED  BY <3>1, <3>2, <3>3 DEF PendingAt
  <2>6. shardUp' /\ \A i \in DOMAIN evts' : evts'[i].kind # "writeError"
    BY DEF Pipeline, OutboundInv
  <2>7. d \in 0 .. Len(futures')
    OBVIOUS
  <2> QED  BY <2>2, <2>3, <2>4, <2>5, <2>6, <2>7 DEF Pipeline
<1> QED  BY <1>2, <1>3, <1>4, <1>5, <1>6, <1>7 DEF OutboundInv

-----------------------------------------------------------------------------
(* The main isolate.                                                       *)

\* A teardown closes the transport, finishes its writing and at most fails its futures.
LEMMA TeardownFutures ==
    ASSUME NEW result, NEW fs \in Seq(Future), NEW pendingBytes, NEW failWrites \in BOOLEAN,
           NEW closeInput, Teardown(result, fs, pendingBytes, failWrites, closeInput)
    PROVE  /\ closed' /\ writeFinished' /\ evts' = <<>>
           /\ futures' \in Seq(Future) /\ Len(futures') = Len(fs)
           /\ \A id \in DOMAIN fs :
                /\ futures'[id].bytes = fs[id].bytes
                /\ futures'[id].state = fs[id].state \/ futures'[id].state = "failed"
<1>1. \A id \in DOMAIN fs : fs[id] \in Future
  OBVIOUS
<1>2. futures' \in Seq(Future)
  BY FailPendingType DEF Teardown
<1>3. DOMAIN FailPending(fs) = DOMAIN fs
  BY DEF FailPending
<1>4. \A id \in DOMAIN fs :
        /\ FailPending(fs)[id].bytes = fs[id].bytes
        /\ FailPending(fs)[id].state = fs[id].state \/ FailPending(fs)[id].state = "failed"
  BY <1>1 DEF FailPending, Future
<1>5. Len(FailPending(fs)) = Len(fs)
  BY <1>3, FailPendingType
<1> QED  BY <1>2, <1>4, <1>5 DEF Teardown

\* A teardown of futures that are as before, or resolved by a writeOk, keeps the invariant.
LEMMA TeardownKeeps ==
    ASSUME TypeOK, TypeOK', OutboundInv,
           UNCHANGED <<r, wire, txShut, shardUp>>, Unnumbered(cmds, cmds'),
           NEW fs \in Seq(Future), Len(fs) = Len(futures),
           \A id \in DOMAIN futures :
               /\ fs[id].bytes = futures[id].bytes
               /\ \/ fs[id].state = futures[id].state
                  \/ fs[id].state = "failed"
                  \/ /\ fs[id].state = "ok"
                     /\ \E j \in DOMAIN evts : evts[j].kind = "writeOk" /\ evts[j].id = id,
           NEW result, NEW pendingBytes, NEW failWrites \in BOOLEAN, NEW closeInput,
           Teardown(result, fs, pendingBytes, failWrites, closeInput)
    PROVE  OutboundInv'
<1>1. DOMAIN fs = DOMAIN futures
  BY DEF TypeOK
<1>2. /\ closed' /\ writeFinished' /\ evts' = <<>> /\ Len(futures') = Len(fs)
      /\ \A id \in DOMAIN fs :
           /\ futures'[id].bytes = fs[id].bytes
           /\ futures'[id].state = fs[id].state \/ futures'[id].state = "failed"
  BY TeardownFutures
<1>3. FuturesGrow
  BY <1>1, <1>2 DEF FuturesGrow, TypeOK
<1>4. Accounted'
  BY <1>2 DEF Accounted
<1>5. \A i \in DOMAIN evts' : \E j \in DOMAIN evts : evts'[i] = evts[j]
  BY <1>2
<1>6. \A id \in DOMAIN futures :
         \/ futures'[id].state = futures[id].state
         \/ closed' /\ futures'[id].state = "failed"
         \/ /\ futures'[id].state = "ok"
            /\ \E j \in DOMAIN evts : evts[j].kind = "writeOk" /\ evts[j].id = id
  BY <1>1, <1>2
<1> QED  BY <1>2, <1>3, <1>4, <1>5, <1>6, MainKeeps

\* A step that leaves the futures and what is accounted of them.
LEMMA WritesUntouched ==
    ASSUME TypeOK, TypeOK', OutboundInv,
           UNCHANGED <<r, wire, txShut, shardUp, futures, pendingWriteBytes, closed>>,
           writeFinished => writeFinished', Unnumbered(cmds, cmds'),
           \A i \in DOMAIN evts' : \E j \in DOMAIN evts : evts'[i] = evts[j]
    PROVE  OutboundInv'
<1>1. FuturesGrow /\ Len(futures') = Len(futures)
  BY DEF FuturesGrow, TypeOK
<1>2. Accounted'
  BY DEF Accounted, OutboundInv, Unresolved, PendingIds
<1> QED  BY <1>1, <1>2, MainKeeps

\* The rest of the events is part of them.
LEMMA TailWithin ==
    ASSUME NEW S, NEW q \in Seq(S), q # <<>>
    PROVE  \A i \in DOMAIN Tail(q) : \E j \in DOMAIN q : Tail(q)[i] = q[j]
<1> SUFFICES ASSUME NEW i \in DOMAIN Tail(q) PROVE \E j \in DOMAIN q : Tail(q)[i] = q[j]
  OBVIOUS
<1>1. i + 1 \in DOMAIN q /\ Tail(q)[i] = q[i + 1]
  OBVIOUS
<1> QED  BY <1>1

\* _enableReadIfReady adds a command without number, or tears down.
LEMMA EnableReadKeeps ==
    ASSUME TypeOK, TypeOK', OutboundInv,
           UNCHANGED <<r, wire, txShut, shardUp>>,
           NEW s, NEW d, NEW c \in Nat, NEW enabled,
           NEW q \in Seq(Cmd), Unnumbered(cmds, q),
           NEW rest, \A i \in DOMAIN rest : \E j \in DOMAIN evts : rest[i] = evts[j],
           EnableReadIfReady(s, d, c, enabled, q, rest)
    PROVE  OutboundInv'
<1>1. CASE Enables(s, d, c, enabled) /\ ~shardUp
  <2>1. cmds' = q /\ Teardown("error", futures, pendingWriteBytes, TRUE, TRUE)
    BY <1>1 DEF EnableReadIfReady, FinishWithError
  <2>2. futures \in Seq(Future)
    BY DEF TypeOK
  <2> QED  BY <2>1, <2>2, TeardownKeeps
<1>2. CASE ~(Enables(s, d, c, enabled) /\ ~shardUp)
  <2>1. /\ UNCHANGED <<futures, pendingWriteBytes, closed, writeFinished>> /\ evts' = rest
        /\ cmds' = q \/ cmds' = Append(q, ToReactor("enableRead", 0, c))
    BY <1>2 DEF EnableReadIfReady, writeVars
  <2>2. ToReactor("enableRead", 0, c) \in Cmd
        /\ ToReactor("enableRead", 0, c).kind = "enableRead"
    BY ToReactorType DEF CmdKind, ToReactor, Message
  <2>3. Unnumbered(cmds, cmds')
    BY <2>1, <2>2, UnnumberedAppend DEF Carriers
  <2> QED  BY <2>1, <2>3, WritesUntouched
<1> QED  BY <1>1, <1>2

\* A write or a closeWrite that was accepted: one more future, and one more command unless
\* the reactor is gone, in which case the transport fails.
LEMMA NewFutureKeeps ==
    ASSUME TypeOK, TypeOK', OutboundInv, ~closed, ~writeFinished,
           UNCHANGED <<r, wire, txShut, shardUp>>,
           Len(futures') = Len(futures) + 1,
           \A id \in DOMAIN futures :
               /\ futures'[id].bytes = futures[id].bytes
               /\ \/ futures'[id].state = futures[id].state
                  \/ closed' /\ futures'[id].state = "failed",
           futures'[Len(futures) + 1].state # "ok",
           futures'[Len(futures) + 1].bytes = 0 => writeFinished',
           evts' = evts \/ evts' = <<>>,
           NEW m \in Cmd, m.kind \in Carriers, m.id = Len(futures) + 1,
           m.kind = "shutdownWrite" => futures'[Len(futures) + 1].bytes = 0,
           shardUp => futures'[Len(futures) + 1].state = "pending" /\ cmds' = Append(cmds, m),
           ~shardUp => cmds' = cmds,
           Accounted'
    PROVE  OutboundInv'
<1> DEFINE new == Len(futures) + 1
<1>1. DOMAIN futures = 1 .. Len(futures) /\ DOMAIN futures' = 1 .. new
      /\ Len(futures) \in Nat /\ cmds \in Seq(Cmd)
  BY DEF TypeOK
<1>2. FuturesGrow
  BY <1>1 DEF FuturesGrow
<1>3. EndIsLast'
  BY <1>1 DEF EndIsLast, OutboundInv
<1>4. EndIsMarked'
  <2>1. \A i \in DOMAIN cmds' : cmds'[i] = m \/ \E j \in DOMAIN cmds : cmds'[i] = cmds[j]
    BY <1>1
  <2>2. m.kind = "shutdownWrite" => IsEnd(m.id)'
    BY <1>1 DEF IsEnd
  <2>3. ~txShut
    BY DEF EndIsMarked, OutboundInv
  <2> QED  BY <1>2, <2>1, <2>2, <2>3, EndKept DEF EndIsMarked, OutboundInv
<1>5. WireOrdered'
  BY <1>2, WireKept DEF OutboundInv
<1>6. OkIsTrue'
  <2>1. Len(wire) <= Len(wire')
    BY DEF TypeOK
  <2>2. \A id : Written(id) => Written(id)'
    BY <1>2, <2>1, WrittenKept
  <2>3. \A id \in DOMAIN futures' : futures'[id].state = "ok" => Written(id)
    BY <1>1 DEF OkIsTrue, OutboundInv
  <2> QED  BY <2>2, <2>3 DEF OkIsTrue, OutboundInv
<1>7. ShutIsLast'
  BY DEF ShutIsLast, EndIsMarked, OutboundInv
<1>8. Pipeline'
  <2> SUFFICES ASSUME ~r.closed PROVE Pipeline'
    BY DEF Pipeline
  <2>1. shardUp
    BY DEF Pipeline, OutboundInv
  <2>2. PICK d \in 0 .. Len(futures) :
            QueueAt(d) /\ CommandsAt(d) /\ WireAt(d) /\ PendingAt(d)
    BY DEF Pipeline, OutboundInv
  <2>3. QueueAt(d)'
    BY <2>2 DEF QueueAt
  <2>4. CommandsAt(d)'
    <3>1. d + Len(r.writes) + Ending \in Nat /\ Ending' = Ending
      <4>1. r.writes \in Seq(QueuedWrite)
        BY DEF TypeOK, ReactorState
      <4>2. Len(r.writes) \in Nat
        BY <4>1
      <4>3. Ending \in Nat /\ Ending' = Ending
        BY DEF Ending
      <4> QED  BY <4>2, <4>3
    <3>2. Numbered(Append(cmds, m), d + Len(r.writes) + Ending, Len(futures) + 1)
      BY <1>1, <2>2, <3>1, NumberedAppend DEF CommandsAt
    <3> QED  BY <2>1, <3>1, <3>2 DEF CommandsAt
  <2>5. WireAt(d)'
    BY <1>2, <2>2, WireAtKept
  <2>6. PendingAt(d)'
    <3>1. \A id : Outstanding(d, id)' <=> Outstanding(d, id)
      BY DEF Outstanding
    <3>2. \A i \in DOMAIN evts' : evts'[i].kind = "writeOk" => ~Outstanding(d, evts'[i].id)
      BY <2>2 DEF PendingAt
    <3>3. ASSUME NEW id \in DOMAIN futures', Outstanding(d, id), ~closed'
          PROVE  futures'[id].state = "pending"
      BY <1>1, <2>1, <2>2, <3>3 DEF PendingAt
    <3> QED  BY <3>1, <3>2, <3>3 DEF PendingAt
  <2>7. shardUp' /\ \A i \in DOMAIN evts' : evts'[i].kind # "writeError"
    BY DEF Pipeline, OutboundInv
  <2>8. d \in 0 .. Len(futures')
    BY <1>1
  <2> QED  BY <2>3, <2>4, <2>5, <2>6, <2>7, <2>8 DEF Pipeline
<1> QED  BY <1>3, <1>4, <1>5, <1>6, <1>7, <1>8 DEF OutboundInv

\* The sum over the unresolved futures grows by a new one.
LEMMA AccountedAppend ==
    ASSUME TypeOK, TypeOK', OutboundInv, ~closed, NEW n \in Nat,
           pendingWriteBytes + n <= MaxPendingWrite,
           futures' = NewFuture(n, "pending"), pendingWriteBytes' = pendingWriteBytes + n
    PROVE  Accounted'
<1>1. futures \in Seq(Future) /\ Len(futures) \in Nat /\ futures' \in Seq(Future)
  BY DEF TypeOK
<1>2. /\ Len(futures') = Len(futures) + 1
      /\ futures'[Len(futures) + 1] = [bytes |-> n, state |-> "pending"]
      /\ \A id \in 1 .. Len(futures) : futures'[id] = futures[id] /\ futures[id] \in Future
  BY <1>1 DEF NewFuture
<1>3. ASSUME NEW id \in 1 .. Len(futures)
      PROVE  Unresolved'[id] = Unresolved[id] /\ Unresolved'[id] \in Int
  <2>1. id \in DOMAIN futures /\ id \in DOMAIN futures' /\ futures'[id] = futures[id]
    BY <1>1, <1>2
  <2>2. futures[id].bytes \in Int
    BY <1>2 DEF Future
  <2>3. Unresolved[id] = IF futures[id].state = "pending" THEN futures[id].bytes ELSE 0
    BY <2>1 DEF Unresolved, PendingIds
  <2>4. Unresolved'[id] = IF futures'[id].state = "pending" THEN futures'[id].bytes ELSE 0
    BY <2>1 DEF Unresolved, PendingIds
  <2> QED  BY <2>1, <2>2, <2>3, <2>4
<1>4. Unresolved'[Len(futures) + 1] = n
  <2>1. Len(futures) + 1 \in DOMAIN futures'
    BY <1>1, <1>2
  <2> QED  BY <1>2, <2>1 DEF Unresolved, PendingIds
<1>5. \A k \in 1 .. Len(futures) + 1 : Unresolved'[k] \in Int
  BY <1>1, <1>3, <1>4
<1>6. SumTo(Unresolved', Len(futures) + 1) = SumTo(Unresolved', Len(futures)) + n
  BY <1>1, <1>4, <1>5, SumStep
<1>7. SumTo(Unresolved', Len(futures)) = SumTo(Unresolved, Len(futures))
  BY <1>1, <1>3, SumSame
<1> QED  BY <1>2, <1>6, <1>7 DEF Accounted, OutboundInv

\* A step of the application keeps the invariant.
LEMMA ApplicationOut ==
    ASSUME TypeOK, TypeOK', OutboundInv, Application
    PROVE  OutboundInv'
<1> USE DEF socketVars, reactorVars
<1>1. cmds \in Seq(Cmd) /\ received \in Nat /\ futures \in Seq(Future)
  BY DEF TypeOK
<1>2. Unnumbered(cmds, cmds)
  BY UnnumberedSame
<1>3. \A i \in DOMAIN evts : \E j \in DOMAIN evts : evts[i] = evts[j]
  OBVIOUS
<1>4. CASE Listen \/ Resume \/ DeliverBuffered
  <2>1. UNCHANGED <<r, wire, txShut, shardUp>>
    BY <1>4 DEF Listen, Resume, DeliverBuffered
  <2>2. \E s, d : EnableReadIfReady(s, d, received, readEnabled, cmds, evts)
    BY <1>4 DEF Listen, Resume, DeliverBuffered
  <2> QED  BY <1>1, <1>2, <1>3, <2>1, <2>2, EnableReadKeeps
<1>5. CASE Pause
  <2>1. /\ UNCHANGED <<r, wire, txShut, shardUp, futures, pendingWriteBytes, closed>>
        /\ UNCHANGED <<writeFinished, evts>>
        /\ cmds' = cmds \/ cmds' = Append(cmds, ToReactor("disableRead", 0, received))
    BY <1>5 DEF Pause, writeVars
  <2>2. ToReactor("disableRead", 0, received) \in Cmd
        /\ ToReactor("disableRead", 0, received).kind = "disableRead"
    BY <1>1, ToReactorType DEF CmdKind, ToReactor, Message
  <2>3. Unnumbered(cmds, cmds')
    BY <1>1, <1>2, <2>1, <2>2, UnnumberedAppend DEF Carriers
  <2> QED  BY <1>3, <2>1, <2>3, WritesUntouched
<1>6. CASE Cancel
  <2>1. /\ UNCHANGED <<r, wire, txShut, shardUp, futures, pendingWriteBytes, closed>>
        /\ UNCHANGED <<writeFinished, evts, cmds>>
    BY <1>6 DEF Cancel, writeVars, flagVars
  <2> QED  BY <1>2, <1>3, <2>1, WritesUntouched
<1>7. ASSUME NEW n \in WriteSizes, Write(n) PROVE OutboundInv'
  <2> DEFINE m == ToReactor("write", Len(futures) + 1, received)
  <2>1. n \in Nat /\ n # 0
    BY BoundsAssumption
  <2>2. ~closed /\ ~writeFinished /\ pendingWriteBytes + n <= MaxPendingWrite
        /\ UNCHANGED <<r, wire, txShut, shardUp>>
    BY <1>7 DEF Write
  <2>3. m \in Cmd /\ m.kind = "write" /\ m.id = Len(futures) + 1
    BY <1>1, ToReactorType DEF CmdKind, ToReactor, Message
  <2>4. CASE shardUp
    <3>1. /\ futures' = NewFuture(n, "pending") /\ pendingWriteBytes' = pendingWriteBytes + n
          /\ cmds' = Append(cmds, m) /\ evts' = evts
      BY <1>7, <2>4 DEF Write
    <3>2. Accounted'
      BY <2>1, <2>2, <3>1, AccountedAppend
    <3>3. Len(futures') = Len(futures) + 1
          /\ futures'[Len(futures) + 1] = [bytes |-> n, state |-> "pending"]
          /\ \A id \in DOMAIN futures : futures'[id] = futures[id]
      BY <1>1, <3>1 DEF NewFuture
    <3> HIDE DEF m
    <3> QED  BY <2>1, <2>2, <2>3, <2>4, <3>1, <3>2, <3>3, NewFutureKeeps DEF Carriers
  <2>5. CASE ~shardUp
    <3> DEFINE fs == NewFuture(n, "failed")
    <3>1. Teardown("error", fs, pendingWriteBytes, TRUE, TRUE) /\ cmds' = cmds
      BY <1>7, <2>5 DEF Write, FinishWithError
    <3>2. fs \in Seq(Future) /\ Len(fs) = Len(futures) + 1
          /\ fs[Len(futures) + 1] = [bytes |-> n, state |-> "failed"]
          /\ \A id \in DOMAIN futures : id \in DOMAIN fs /\ fs[id] = futures[id]
      <4>1. [bytes |-> n, state |-> "failed"] \in Future
        BY <2>1 DEF Future
      <4> QED  BY <1>1, <4>1 DEF NewFuture
    <3> HIDE DEF fs
    <3>3. /\ closed' /\ writeFinished' /\ evts' = <<>> /\ Len(futures') = Len(futures) + 1
          /\ \A id \in DOMAIN fs :
               /\ futures'[id].bytes = fs[id].bytes
               /\ futures'[id].state = fs[id].state \/ futures'[id].state = "failed"
      BY <3>1, <3>2, TeardownFutures
    <3>4. futures'[Len(futures) + 1].state # "ok" /\ futures'[Len(futures) + 1].bytes = n
      BY <3>2, <3>3
    <3>5. Accounted'
      BY <3>3 DEF Accounted
    <3> HIDE DEF m
    <3> QED  BY <2>1, <2>2, <2>3, <2>5, <3>1, <3>2, <3>3, <3>4, <3>5, NewFutureKeeps DEF Carriers
  <2> QED  BY <2>4, <2>5
<1>8. CASE CloseWrite
  <2> DEFINE m == ToReactor("shutdownWrite", Len(futures) + 1, received)
  <2>1. ~closed /\ ~writeFinished /\ writeFinished' /\ UNCHANGED <<r, wire, txShut, shardUp>>
    BY <1>8 DEF CloseWrite
  <2>2. m \in Cmd /\ m.kind = "shutdownWrite" /\ m.id = Len(futures) + 1
    BY <1>1, ToReactorType DEF CmdKind, ToReactor, Message
  <2>3. CASE shardUp
    <3>1. /\ futures' = NewFuture(0, "pending") /\ pendingWriteBytes' = pendingWriteBytes
          /\ cmds' = Append(cmds, m) /\ evts' = evts
      BY <1>8, <2>3 DEF CloseWrite
    <3>2. Accounted'
      <4>1. pendingWriteBytes \in Int /\ pendingWriteBytes <= MaxPendingWrite
        BY <2>1 DEF TypeOK, OutboundInv, Accounted
      <4>2. pendingWriteBytes + 0 = pendingWriteBytes
        BY <4>1
      <4> QED  BY <2>1, <3>1, <4>1, <4>2, AccountedAppend
    <3>3. Len(futures') = Len(futures) + 1
          /\ futures'[Len(futures) + 1] = [bytes |-> 0, state |-> "pending"]
          /\ \A id \in DOMAIN futures : futures'[id] = futures[id]
      BY <1>1, <3>1 DEF NewFuture
    <3> HIDE DEF m
    <3> QED  BY <2>1, <2>2, <2>3, <3>1, <3>2, <3>3, NewFutureKeeps DEF Carriers
  <2>4. CASE ~shardUp
    <3> DEFINE fs == NewFuture(0, "failed")
    <3>1. Teardown("error", fs, pendingWriteBytes, TRUE, TRUE) /\ cmds' = cmds
      BY <1>8, <2>4 DEF CloseWrite, FinishWithError
    <3>2. fs \in Seq(Future) /\ Len(fs) = Len(futures) + 1
          /\ fs[Len(futures) + 1] = [bytes |-> 0, state |-> "failed"]
          /\ \A id \in DOMAIN futures : id \in DOMAIN fs /\ fs[id] = futures[id]
      <4>1. [bytes |-> 0, state |-> "failed"] \in Future
        BY DEF Future
      <4> QED  BY <1>1, <4>1 DEF NewFuture
    <3> HIDE DEF fs
    <3>3. /\ closed' /\ evts' = <<>> /\ Len(futures') = Len(futures) + 1
          /\ \A id \in DOMAIN fs :
               /\ futures'[id].bytes = fs[id].bytes
               /\ futures'[id].state = fs[id].state \/ futures'[id].state = "failed"
      BY <3>1, <3>2, TeardownFutures
    <3>4. futures'[Len(futures) + 1].state # "ok" /\ futures'[Len(futures) + 1].bytes = 0
      BY <3>2, <3>3
    <3>5. Accounted'
      BY <3>3 DEF Accounted
    <3> HIDE DEF m
    <3> QED  BY <2>1, <2>2, <2>4, <3>1, <3>2, <3>3, <3>4, <3>5, NewFutureKeeps DEF Carriers
  <2> QED  BY <2>3, <2>4
<1>9. CASE Close
  <2>1. /\ Teardown("ok", futures, pendingWriteBytes, TRUE, TRUE)
        /\ UNCHANGED <<r, wire, txShut, shardUp>>
        /\ cmds' = cmds \/ cmds' = Append(cmds, ToReactor("close", 0, received))
    BY <1>9 DEF Close
  <2>2. ToReactor("close", 0, received) \in Cmd
        /\ ToReactor("close", 0, received).kind = "close"
    BY <1>1, ToReactorType DEF CmdKind, ToReactor, Message
  <2>3. Unnumbered(cmds, cmds')
    BY <1>1, <1>2, <2>1, <2>2, UnnumberedAppend DEF Carriers
  <2> QED  BY <1>1, <2>1, <2>3, TeardownKeeps
<1> QED  BY <1>4, <1>5, <1>6, <1>7, <1>8, <1>9 DEF Application

\* The sum over the unresolved futures shrinks by a resolved one.
LEMMA AccountedResolve ==
    ASSUME TypeOK, TypeOK', OutboundInv, ~closed,
           NEW id \in DOMAIN futures, futures[id].state = "pending",
           futures' = Resolve(id, "ok"), pendingWriteBytes' = pendingWriteBytes - futures[id].bytes
    PROVE  Accounted'
<1>1. futures \in Seq(Future) /\ futures' \in Seq(Future)
      /\ Len(futures) \in Nat /\ id \in 1 .. Len(futures) /\ DOMAIN futures = 1 .. Len(futures)
  <2>1. futures \in Seq(Future) /\ futures' \in Seq(Future)
    BY DEF TypeOK
  <2> QED  BY <2>1
<1>2. \A k \in 1 .. Len(futures) : futures[k] \in Future
  BY <1>1
<1>3. /\ DOMAIN futures' = DOMAIN futures /\ Len(futures') = Len(futures)
      /\ futures'[id].state = "ok"
      /\ \A k \in DOMAIN futures : k # id => futures'[k] = futures[k]
  BY <1>1, <1>2 DEF Resolve, Future
<1>4. \A k \in 1 .. Len(futures) :
        /\ Unresolved[k] = IF futures[k].state = "pending" THEN futures[k].bytes ELSE 0
        /\ futures[k].bytes \in Nat
  BY <1>1, <1>2 DEF Unresolved, PendingIds, Future
<1>5. \A k \in 1 .. Len(futures) :
        Unresolved'[k] = IF futures'[k].state = "pending" THEN futures'[k].bytes ELSE 0
  BY <1>1, <1>3 DEF Unresolved, PendingIds
<1>6. Unresolved[id] = futures[id].bytes /\ Unresolved'[id] = 0
      /\ \A k \in 1 .. Len(futures) : k # id => Unresolved'[k] = Unresolved[k]
  BY <1>1, <1>3, <1>4, <1>5
<1>7. \A k \in 1 .. Len(futures) : Unresolved[k] \in Int /\ Unresolved'[k] \in Int
  BY <1>4, <1>6
<1>8. SumTo(Unresolved', Len(futures)) = SumTo(Unresolved, Len(futures)) - Unresolved[id] + Unresolved'[id]
  BY <1>1, <1>6, <1>7, SumChange
<1>9. pendingWriteBytes = SumTo(Unresolved, Len(futures)) /\ pendingWriteBytes <= MaxPendingWrite
      /\ pendingWriteBytes \in Int /\ futures[id].bytes \in Nat /\ MaxPendingWrite \in Int
  <2>1. pendingWriteBytes \in Int
    BY DEF TypeOK
  <2>2. pendingWriteBytes = SumTo(Unresolved, Len(futures)) /\ pendingWriteBytes <= MaxPendingWrite
    BY DEF Accounted, OutboundInv
  <2> QED  BY <1>1, <1>4, <2>1, <2>2, SizesAssumption
<1>10. pendingWriteBytes' = SumTo(Unresolved', Len(futures')) /\ pendingWriteBytes' <= MaxPendingWrite
  BY <1>3, <1>6, <1>8, <1>9
<1> QED  BY <1>10 DEF Accounted

\* An event keeps the invariant.
LEMMA EventOut ==
    ASSUME TypeOK, TypeOK', OutboundInv, HandleReactorEvent
    PROVE  OutboundInv'
<1> USE DEF socketVars, reactorVars
<1>1. cmds \in Seq(Cmd) /\ received \in Nat /\ futures \in Seq(Future)
  BY DEF TypeOK
<1>2. Unnumbered(cmds, cmds)
  BY UnnumberedSame
<1>3. /\ evts # <<>> /\ evts \in Seq(Evt) /\ ~closed /\ Head(evts) = evts[1]
      /\ 1 \in DOMAIN evts /\ Head(evts) \in Evt
  <2>1. evts # <<>> /\ evts \in Seq(Evt) /\ ~closed
    BY DEF HandleReactorEvent, HandleData, HandleEof, HandleReadError, HandleWriteOk,
           HandleWriteError, HandleClosed, NextEvent, TypeOK
  <2> QED  BY <2>1
<1>4. \A i \in DOMAIN Tail(evts) : \E j \in DOMAIN evts : Tail(evts)[i] = evts[j]
  BY <1>3, TailWithin
<1>5. CASE HandleData
  <2> DEFINE n == Head(evts).hi - Head(evts).lo
             live == sub = "listening" /\ ~InputPaused
             ack == Message("inboundConsumed", 0, received, received + n)
  <2>1. PICK s \in (IF live THEN {"listening", "paused"} ELSE {sub}) :
            LET disables == live /\ s = "paused" /\ readEnabled
                q == IF disables /\ shardUp
                     THEN Append(cmds, ToReactor("disableRead", 0, received))
                     ELSE cmds
            IN EnableReadIfReady(s, delivered', received + n, readEnabled /\ ~disables,
                                 IF shardUp THEN Append(q, ack) ELSE q, Tail(evts))
    BY <1>5 DEF HandleData
  <2> DEFINE disables == live /\ s = "paused" /\ readEnabled
             q == IF disables /\ shardUp
                  THEN Append(cmds, ToReactor("disableRead", 0, received))
                  ELSE cmds
             sent == IF shardUp THEN Append(q, ack) ELSE q
  <2>2. EnableReadIfReady(s, delivered', received + n, readEnabled /\ ~disables, sent, Tail(evts))
    BY <2>1
  <2>3. n \in Nat /\ received + n \in Nat /\ received <= received + n
    <3>1. Head(evts).hi \in Nat /\ Head(evts).lo \in Nat /\ Head(evts).lo <= Head(evts).hi
      BY <1>3 DEF Evt
    <3> QED  BY <1>1, <3>1
  <2>4. UNCHANGED <<r, wire, txShut, shardUp>>
    BY <1>5 DEF HandleData
  <2>5. ack \in Cmd /\ ack.kind = "inboundConsumed"
    BY <1>1, <2>3, MessageType DEF CmdKind, Message
  <2>6. ToReactor("disableRead", 0, received) \in Cmd
        /\ ToReactor("disableRead", 0, received).kind = "disableRead"
    BY <1>1, ToReactorType DEF CmdKind, ToReactor, Message
  <2> HIDE DEF n, live, disables, ack
  <2>7. q \in Seq(Cmd) /\ Unnumbered(cmds, q)
    BY <1>1, <1>2, <2>6, UnnumberedAppend DEF Carriers
  <2> HIDE DEF q
  <2>8. sent \in Seq(Cmd) /\ Unnumbered(cmds, sent)
    BY <2>5, <2>7, UnnumberedAppend DEF Carriers
  <2> HIDE DEF sent
  <2> QED  BY <1>4, <2>2, <2>3, <2>4, <2>8, EnableReadKeeps
<1>6. ASSUME NEW rf, NEW wf, NEW ic, NEW fs \in Seq(Future), NEW left,
             MaybeCompleteDone(rf, wf, ic, fs, left),
             UNCHANGED <<r, wire, txShut, shardUp, cmds>>, writeFinished => wf,
             \/ fs = futures /\ left = pendingWriteBytes
             \/ \E id \in DOMAIN futures :
                  /\ futures[id].state = "pending" /\ fs = Resolve(id, "ok")
                  /\ left = pendingWriteBytes - futures[id].bytes
                  /\ \E j \in DOMAIN evts : evts[j].kind = "writeOk" /\ evts[j].id = id
      PROVE  OutboundInv'
  <2>1. /\ Len(fs) = Len(futures)
        /\ \A id \in DOMAIN futures :
             /\ fs[id].bytes = futures[id].bytes
             /\ \/ fs[id].state = futures[id].state
                \/ /\ fs[id].state = "ok"
                   /\ \E j \in DOMAIN evts : evts[j].kind = "writeOk" /\ evts[j].id = id
    <3>1. CASE fs = futures
      BY <3>1
    <3>2. ASSUME NEW k \in DOMAIN futures, fs = Resolve(k, "ok"),
                 \E j \in DOMAIN evts : evts[j].kind = "writeOk" /\ evts[j].id = k
          PROVE  <2>1!:
      <4>1. \A id \in DOMAIN futures : futures[id] \in Future
        BY <1>1
      <4>2. DOMAIN fs = DOMAIN futures
        BY <3>2 DEF Resolve
      <4>3. \A id \in DOMAIN futures :
              /\ fs[id].bytes = futures[id].bytes
              /\ fs[id].state = IF id = k THEN "ok" ELSE futures[id].state
        BY <3>2, <4>1 DEF Resolve, Future
      <4> QED  BY <1>1, <3>2, <4>2, <4>3
    <3> QED  BY <1>6, <3>1, <3>2
  <2>2. CASE rf /\ wf
    <3>1. Teardown("ok", fs, left, FALSE, ic)
      BY <1>6, <2>2 DEF MaybeCompleteDone
    <3> QED  BY <1>2, <1>6, <2>1, <3>1, TeardownKeeps
  <2>3. CASE ~(rf /\ wf)
    <3>1. /\ writeFinished' = wf /\ futures' = fs /\ pendingWriteBytes' = left
          /\ evts' = Tail(evts) /\ closed' = closed
      BY <1>6, <2>3 DEF MaybeCompleteDone
    <3>2. CASE fs = futures /\ left = pendingWriteBytes
      BY <1>2, <1>4, <1>6, <3>1, <3>2, WritesUntouched
    <3>3. CASE ~(fs = futures /\ left = pendingWriteBytes)
      <4>1. Accounted'
        BY <1>3, <1>6, <3>1, <3>3, AccountedResolve
      <4>2. FuturesGrow
        BY <1>1, <2>1, <3>1 DEF FuturesGrow
      <4> QED  BY <1>2, <1>4, <1>6, <2>1, <3>1, <4>1, <4>2, MainKeeps
    <3> QED  BY <3>2, <3>3
  <2> QED  BY <2>2, <2>3
<1>7. CASE HandleEof
  <2>1. MaybeCompleteDone(TRUE, writeFinished, TRUE, futures, pendingWriteBytes)
    BY <1>7, ZenonT(30) DEF HandleEof
  <2>2. UNCHANGED <<r, wire, txShut, shardUp, cmds>>
    BY <1>7 DEF HandleEof
  <2> QED  BY <1>1, <1>6, <2>1, <2>2
<1>8. CASE HandleWriteOk
  <2> DEFINE id == Head(evts).id
             known == id \in DOMAIN futures /\ futures[id].state = "pending"
             bytes == IF known THEN futures[id].bytes ELSE 0
             fs == IF known THEN Resolve(id, "ok") ELSE futures
             left == LeftoverPending(bytes)
  <2>1. UNCHANGED <<r, wire, txShut, shardUp, cmds>> /\ Head(evts).kind = "writeOk"
    BY <1>8 DEF HandleWriteOk, NextEvent
  <2>2. fs \in Seq(Future)
    <3>1. known => futures[id] \in Future
      BY <1>1
    <3>2. known => [futures[id] EXCEPT !.state = "ok"] \in Future
      BY <3>1 DEF Future
    <3> QED  BY <1>1, <3>2 DEF Resolve
  <2>3. left = pendingWriteBytes - bytes /\ pendingWriteBytes \in Int
    BY DEF LeftoverPending, TypeOK
  <2>4. \/ fs = futures /\ left = pendingWriteBytes
        \/ known /\ fs = Resolve(id, "ok") /\ left = pendingWriteBytes - futures[id].bytes
    BY <2>3
  <2>5. \E j \in DOMAIN evts : evts[j].kind = "writeOk" /\ evts[j].id = id
    BY <1>3, <2>1
  <2>6. CASE known /\ bytes = 0
    <3>1. MaybeCompleteDone(readFinished, TRUE, inputClosed, fs, left)
      BY <1>8, <2>6 DEF HandleWriteOk
    <3> HIDE DEF fs, left
    <3> QED  BY <1>6, <2>1, <2>2, <2>4, <2>5, <3>1
  <2>7. CASE ~(known /\ bytes = 0)
    <3>1. /\ futures' = fs /\ pendingWriteBytes' = left /\ evts' = Tail(evts)
          /\ UNCHANGED <<inputClosed, readFinished, writeFinished, closed, done>>
      BY <1>8, <2>7 DEF HandleWriteOk
    <3>2. CASE known
      <4>1. Accounted'
        BY <1>3, <2>3, <3>1, <3>2, AccountedResolve
      <4>2. futures' = Resolve(id, "ok") /\ id \in DOMAIN futures
        BY <3>1, <3>2
      <4>3. \A k \in DOMAIN futures : futures[k] \in Future
        BY <1>1
      <4>4. \A k \in DOMAIN futures :
              /\ futures'[k].bytes = futures[k].bytes
              /\ futures'[k].state = IF k = id THEN "ok" ELSE futures[k].state
        <5> HIDE DEF id
        <5> QED  BY <4>2, <4>3 DEF Resolve, Future
      <4>5. DOMAIN futures' = DOMAIN futures
        BY <4>2 DEF Resolve
      <4>6. Len(futures') = Len(futures)
        BY <1>1, <4>5 DEF TypeOK
      <4>7. FuturesGrow
        BY <1>1, <4>4, <4>6 DEF FuturesGrow
      <4> HIDE DEF id, fs, left
      <4> QED  BY <1>2, <1>4, <2>1, <2>5, <3>1, <4>1, <4>4, <4>6, <4>7, MainKeeps
    <3>3. CASE ~known
      <4>1. futures' = futures /\ pendingWriteBytes' = pendingWriteBytes
        BY <2>3, <3>1, <3>3
      <4> QED  BY <1>2, <1>4, <2>1, <3>1, <4>1, WritesUntouched
    <3> QED  BY <3>2, <3>3
  <2> QED  BY <2>6, <2>7
<1>9. CASE HandleReadError
  <2>1. Teardown("error", futures, pendingWriteBytes, TRUE, TRUE)
    BY <1>9, ZenonT(30) DEF HandleReadError, FinishWithError
  <2>2. UNCHANGED <<r, wire, txShut, shardUp, cmds>>
    BY <1>9 DEF HandleReadError
  <2> QED  BY <1>1, <1>2, <2>1, <2>2, TeardownKeeps
<1>10. CASE HandleClosed
  <2>1. Teardown("ok", futures, pendingWriteBytes, TRUE, TRUE)
    BY <1>10, ZenonT(30) DEF HandleClosed
  <2>2. UNCHANGED <<r, wire, txShut, shardUp, cmds>>
    BY <1>10 DEF HandleClosed
  <2> QED  BY <1>1, <1>2, <2>1, <2>2, TeardownKeeps
<1>11. CASE HandleWriteError
  <2> DEFINE id == Head(evts).id
             known == id \in DOMAIN futures /\ futures[id].state = "pending"
             fs == IF known THEN Resolve(id, "failed") ELSE futures
  <2>1. Teardown("error", fs, pendingWriteBytes, TRUE, TRUE)
        /\ UNCHANGED <<r, wire, txShut, shardUp, cmds>>
    BY <1>11 DEF HandleWriteError, FinishWithError
  <2>2. \A k \in DOMAIN futures : futures[k] \in Future
    BY <1>1
  <2>3. fs \in Seq(Future) /\ Len(fs) = Len(futures)
    <3>1. known => [futures[id] EXCEPT !.state = "failed"] \in Future
      BY <2>2 DEF Future
    <3> QED  BY <1>1, <3>1 DEF Resolve
  <2>4. \A k \in DOMAIN futures :
          /\ fs[k].bytes = futures[k].bytes
          /\ fs[k].state = futures[k].state \/ fs[k].state = "failed"
    BY <2>2 DEF Resolve, Future
  <2> HIDE DEF fs
  <2> QED  BY <1>2, <2>1, <2>3, <2>4, TeardownKeeps
<1> QED  BY <1>5, <1>7, <1>8, <1>9, <1>10, <1>11 DEF HandleReactorEvent

-----------------------------------------------------------------------------
(* The reactor: how it goes on from a state s, with the events out.        *)

\* What a step of the reactor leaves of the write half of s, and what it posts: events of
\* out, and others that resolve no write unless they close the transport.
WentOn(s, out) ==
    /\ r'.closingWrite = s.closingWrite /\ r'.shutdownWriteId = s.shutdownWriteId
    /\ r'.writeClosed = s.writeClosed
    /\ s.closed => r'.closed
    /\ ~r'.closed => r'.writes = s.writes
    /\ \A i \in DOMAIN evts' :
         \/ \E j \in DOMAIN evts : evts'[i] = evts[j]
         \/ \E j \in DOMAIN out : evts'[i] = out[j]
         \/ evts'[i].kind # "writeOk" /\ (evts'[i].kind = "writeError" => r'.closed)

\* A reply posts the old events and the new ones.
LEMMA ReplyPosts ==
    ASSUME TypeOK, NEW t, NEW out \in Seq(Evt), Reply(t, out)
    PROVE  /\ r' = t
           /\ \A i \in DOMAIN evts' :
                \/ \E j \in DOMAIN evts : evts'[i] = evts[j]
                \/ \E j \in DOMAIN out : evts'[i] = out[j]
<1>1. evts \in Seq(Evt)
  BY DEF TypeOK
<1>2. r' = t /\ (evts' = evts \/ evts' = evts \o out)
  BY DEF Reply
<1>3. \A i \in DOMAIN (evts \o out) :
        \/ \E j \in DOMAIN evts : (evts \o out)[i] = evts[j]
        \/ \E j \in DOMAIN out : (evts \o out)[i] = out[j]
  <2> SUFFICES ASSUME NEW i \in DOMAIN (evts \o out)
               PROVE  \/ \E j \in DOMAIN evts : (evts \o out)[i] = evts[j]
                      \/ \E j \in DOMAIN out : (evts \o out)[i] = out[j]
    OBVIOUS
  <2>1. CASE i <= Len(evts)
    <3>1. i \in DOMAIN evts /\ (evts \o out)[i] = evts[i]
      BY <1>1, <2>1
    <3> QED  BY <3>1
  <2>2. CASE ~(i <= Len(evts))
    <3>1. i - Len(evts) \in DOMAIN out /\ (evts \o out)[i] = out[i - Len(evts)]
      BY <1>1, <2>2
    <3> QED  BY <3>1
  <2> QED  BY <2>1, <2>2
<1> QED  BY <1>2, <1>3

\* Closing the reactor state posts `closed',
LEMMA CloseWentOn ==
    ASSUME TypeOK, NEW s \in ReactorState, NEW out \in Seq(Evt), CloseReactorState(s, out)
    PROVE  WentOn(s, out) /\ r'.closed
<1> DEFINE m == ToMain("closed", 0)
           all == Append(out, m)
<1>1. m \in Evt /\ m.kind = "closed"
  BY ToMainType DEF EvtKind, ToMain, Message
<1>2. all \in Seq(Evt) /\ \A j \in DOMAIN all : all[j] = m \/ \E k \in DOMAIN out : all[j] = out[k]
  BY <1>1
<1> HIDE DEF all
<1>3. Reply(ClosedState(s), all)
  BY DEF CloseReactorState, all
<1>4. /\ r' = ClosedState(s)
      /\ \A i \in DOMAIN evts' :
           \/ \E j \in DOMAIN evts : evts'[i] = evts[j]
           \/ \E j \in DOMAIN all : evts'[i] = all[j]
  BY <1>2, <1>3, ReplyPosts
<1>5. /\ r'.closingWrite = s.closingWrite /\ r'.shutdownWriteId = s.shutdownWriteId
      /\ r'.writeClosed = s.writeClosed /\ r'.closed
  BY <1>4 DEF ClosedState, ReactorState
<1> QED  BY <1>1, <1>2, <1>4, <1>5 DEF WentOn

\* with an error it fails the queued writes first,
LEMMA FailWentOn ==
    ASSUME TypeOK, NEW s \in ReactorState, NEW out \in Seq(Evt), FailReactorState(s, out)
    PROVE  WentOn(s, out) /\ r'.closed
<1> DEFINE errors == WriteErrors(s)
           all == out \o errors
<1>1. s.writes \in Seq(QueuedWrite) /\ Len(s.writes) \in Nat
  BY DEF ReactorState
<1>2. \A i \in 1 .. Len(s.writes) : s.writes[i].id \in Nat
  <2>1. \A i \in 1 .. Len(s.writes) : s.writes[i] \in QueuedWrite
    BY <1>1
  <2> QED  BY <2>1 DEF QueuedWrite
<1>3. \A i \in 1 .. Len(s.writes) : ToMain("writeError", s.writes[i].id) \in Evt
  BY <1>2, ToMainType DEF EvtKind
<1>4. errors \in Seq(Evt) /\ Len(errors) = Len(s.writes)
  BY <1>1, <1>3 DEF WriteErrors
<1>5. \A i \in DOMAIN errors : errors[i].kind = "writeError"
  BY <1>1, <1>4 DEF WriteErrors, ToMain, Message
<1> HIDE DEF errors
<1>6. all \in Seq(Evt)
  BY <1>4
<1>7. \A j \in DOMAIN all : all[j].kind = "writeError" \/ \E k \in DOMAIN out : all[j] = out[k]
  <2> SUFFICES ASSUME NEW j \in DOMAIN all
               PROVE  all[j].kind = "writeError" \/ \E k \in DOMAIN out : all[j] = out[k]
    OBVIOUS
  <2>1. CASE j <= Len(out)
    <3>1. j \in DOMAIN out /\ all[j] = out[j]
      BY <1>4, <2>1
    <3> QED  BY <3>1
  <2>2. CASE ~(j <= Len(out))
    <3>1. j - Len(out) \in DOMAIN errors /\ all[j] = errors[j - Len(out)]
      BY <1>4, <2>2
    <3> QED  BY <1>5, <3>1
  <2> QED  BY <2>1, <2>2
<1>8. CloseReactorState(s, all)
  BY DEF FailReactorState, errors
<1> HIDE DEF all
<1>9. WentOn(s, all) /\ r'.closed
  BY <1>6, <1>8, CloseWentOn
<1> QED  BY <1>7, <1>9 DEF WentOn

\* and _updateReactorInterest posts nothing, or closes with an error.
LEMMA UpdateWentOn ==
    ASSUME TypeOK, NEW s \in ReactorState, NEW out \in Seq(Evt),
           UpdateInterest(s, out) \/ UpdateFails(s, out)
    PROVE  WentOn(s, out)
<1>1. CASE Reply([s EXCEPT !.interest = Wanted(s)], out)
  <2>1. /\ r' = [s EXCEPT !.interest = Wanted(s)]
        /\ \A i \in DOMAIN evts' :
             \/ \E j \in DOMAIN evts : evts'[i] = evts[j]
             \/ \E j \in DOMAIN out : evts'[i] = out[j]
    BY <1>1, ReplyPosts
  <2>2. /\ r'.closingWrite = s.closingWrite /\ r'.shutdownWriteId = s.shutdownWriteId
        /\ r'.writeClosed = s.writeClosed /\ r'.closed = s.closed /\ r'.writes = s.writes
    BY <2>1 DEF ReactorState
  <2> QED  BY <2>1, <2>2 DEF WentOn
<1>2. CASE UpdateFails(s, out)
  <2> DEFINE m == ToMain("readError", 0)
             all == Append(out, m)
  <2>1. m \in Evt /\ m.kind = "readError"
    BY ToMainType DEF EvtKind, ToMain, Message
  <2>2. all \in Seq(Evt) /\ \A j \in DOMAIN all : all[j] = m \/ \E k \in DOMAIN out : all[j] = out[k]
    BY <2>1
  <2>3. FailReactorState(s, all)
    BY <1>2 DEF UpdateFails
  <2> HIDE DEF all
  <2>4. WentOn(s, all)
    BY <2>2, <2>3, FailWentOn
  <2> QED  BY <2>1, <2>2, <2>4 DEF WentOn
<1> QED  BY <1>1, <1>2 DEF UpdateInterest

-----------------------------------------------------------------------------
(* The reactor's steps.                                                    *)

\* The futures do not change in a step of the reactor; what they are owed is posted once it
\* is true.
LEMMA ReactorFacts ==
    ASSUME TypeOK, TypeOK', OutboundInv,
           UNCHANGED <<futures, pendingWriteBytes, closed, writeFinished>>,
           Len(wire) <= Len(wire'), txShut => txShut',
           \A i \in DOMAIN evts' :
               evts'[i].kind = "writeOk" =>
                   \/ \E j \in DOMAIN evts : evts'[i] = evts[j]
                   \/ Written(evts[i].id)'
    PROVE  EndIsLast' /\ OkIsTrue' /\ Accounted'
<1>1. FuturesGrow
  BY DEF FuturesGrow, TypeOK
<1>2. \A id : Written(id) => Written(id)'
  BY <1>1, WrittenKept
<1>3. OkIsTrue'
  <2>1. /\ \A id \in DOMAIN futures : futures[id].state = "ok" => Written(id)
        /\ \A i \in DOMAIN evts : evts[i].kind = "writeOk" => Written(evts[i].id)
    BY DEF OkIsTrue, OutboundInv
  <2>2. \A id \in DOMAIN futures' : futures'[id].state = "ok" => Written(id)'
    BY <1>2, <2>1
  <2>3. ASSUME NEW i \in DOMAIN evts', evts'[i].kind = "writeOk"
        PROVE  Written(evts[i].id)'
    <3>1. CASE \E j \in DOMAIN evts : evts'[i] = evts[j]
      <4>1. PICK j \in DOMAIN evts : evts'[i] = evts[j]
        BY <3>1
      <4>2. PICK id : id = evts[j].id
        OBVIOUS
      <4>3. Written(id) /\ evts'[i].id = id
        BY <2>1, <2>3, <4>1, <4>2
      <4>4. Written(id)'
        BY <1>2, <4>3
      <4> QED  BY <4>3, <4>4 DEF Written
    <3> QED  BY <2>3, <3>1
  <2> QED  BY <2>2, <2>3 DEF OkIsTrue
<1> QED  BY <1>3 DEF EndIsLast, Accounted, OutboundInv, Unresolved, PendingIds

\* Commands that are taken leave closeWrites that are marked.
LEMMA MarksKept ==
    ASSUME EndIsMarked, UNCHANGED <<futures, txShut, writeFinished>>,
           \A i \in DOMAIN cmds' : \E j \in DOMAIN cmds : cmds'[i] = cmds[j],
           r'.closingWrite = r.closingWrite, r'.shutdownWriteId = r.shutdownWriteId,
           r'.writeClosed = r.writeClosed
    PROVE  EndIsMarked'
  BY DEF EndIsMarked, IsEnd

\* A step of the reactor that takes no write and no closeWrite, and writes nothing.
LEMMA ReactorKeeps ==
    ASSUME TypeOK, TypeOK', OutboundInv,
           UNCHANGED <<futures, pendingWriteBytes, closed, writeFinished, wire, txShut>>,
           NEW s, s.writes = r.writes, s.closingWrite = r.closingWrite,
           s.shutdownWriteId = r.shutdownWriteId, s.writeClosed = r.writeClosed,
           r.closed => s.closed,
           NEW out, WentOn(s, out),
           \A j \in DOMAIN out :
               out[j].kind # "writeOk" /\ (out[j].kind = "writeError" => r'.closed),
           \/ cmds' = cmds
           \/ cmds # <<>> /\ cmds' = Tail(cmds) /\ (Head(cmds).kind \notin Carriers \/ r'.closed),
           shardUp' = shardUp \/ r'.closed
    PROVE  OutboundInv'
<1>1. cmds \in Seq(Cmd)
  BY DEF TypeOK
<1>2. \A i \in DOMAIN cmds' : \E j \in DOMAIN cmds : cmds'[i] = cmds[j]
  BY <1>1, TailWithin
<1>3. EndIsMarked'
  BY <1>2, MarksKept DEF OutboundInv, WentOn
<1>4. \A i \in DOMAIN evts' :
         \/ \E j \in DOMAIN evts : evts'[i] = evts[j]
         \/ evts'[i].kind # "writeOk" /\ (evts'[i].kind = "writeError" => r'.closed)
  BY DEF WentOn
<1>5. EndIsLast' /\ OkIsTrue' /\ Accounted'
  <2>1. Len(wire) <= Len(wire')
    BY DEF TypeOK
  <2> QED  BY <1>4, <2>1, ReactorFacts
<1>6. FuturesGrow
  BY DEF FuturesGrow, TypeOK
<1>7. WireOrdered'
  BY <1>6, WireKept DEF OutboundInv
<1>8. ShutIsLast'
  <2>1. Len(futures) + 1 \in 1 .. Len(futures) + 1
    BY DEF TypeOK
  <2> QED  BY <1>6, <2>1, BytesKept DEF ShutIsLast, OutboundInv
<1>9. Pipeline'
  <2> SUFFICES ASSUME ~r'.closed PROVE Pipeline'
    BY DEF Pipeline
  <2>1. ~r.closed /\ r'.writes = r.writes /\ r'.closingWrite = r.closingWrite
        /\ r'.shutdownWriteId = r.shutdownWriteId /\ r'.writeClosed = r.writeClosed
    BY DEF WentOn
  <2>2. shardUp /\ \A i \in DOMAIN evts : evts[i].kind # "writeError"
    BY <2>1 DEF Pipeline, OutboundInv
  <2>3. PICK d \in 0 .. Len(futures) :
            QueueAt(d) /\ CommandsAt(d) /\ WireAt(d) /\ PendingAt(d)
    BY <2>1 DEF Pipeline, OutboundInv
  <2>4. QueueAt(d)'
    BY <2>1, <2>3 DEF QueueAt
  <2>5. CommandsAt(d)'
    <3>1. d + Len(r.writes) + Ending \in Nat /\ Ending' = Ending
      <4>1. r.writes \in Seq(QueuedWrite)
        BY DEF TypeOK, ReactorState
      <4>2. Len(r.writes) \in Nat
        BY <4>1
      <4>3. Ending \in Nat /\ Ending' = Ending
        BY <2>1 DEF Ending
      <4> QED  BY <4>2, <4>3
    <3>2. Len(futures) \in Nat
      BY DEF TypeOK
    <3>3. Numbered(cmds', d + Len(r.writes) + Ending, Len(futures))
      BY <1>1, <2>3, <3>1, <3>2, NumberedTail DEF CommandsAt
    <3> QED  BY <2>1, <3>1, <3>3 DEF CommandsAt
  <2>6. WireAt(d)'
    BY <1>6, <2>1, <2>3, WireAtKept
  <2>7. PendingAt(d)'
    <3>1. \A id : Outstanding(d, id)' <=> Outstanding(d, id)
      BY <2>1 DEF Outstanding
    <3>2. \A i \in DOMAIN evts' : evts'[i].kind = "writeOk" => ~Outstanding(d, evts'[i].id)
      BY <1>4, <2>3 DEF PendingAt
    <3> QED  BY <2>3, <3>1, <3>2 DEF PendingAt
  <2>8. shardUp' /\ \A i \in DOMAIN evts' : evts'[i].kind # "writeError"
    BY <1>4, <2>2
  <2>9. d \in 0 .. Len(futures')
    OBVIOUS
  <2> QED  BY <2>4, <2>5, <2>6, <2>7, <2>8, <2>9 DEF Pipeline
<1> QED  BY <1>3, <1>5, <1>7, <1>8, <1>9 DEF OutboundInv

\* ProcessWrite, ProcessShutdownWrite: the number is the next one, and no closeWrite is pending.
LEMMA NextNumber ==
    ASSUME TypeOK, OutboundInv, ~r.closed, cmds # <<>>, Head(cmds).kind \in Carriers,
           NEW d \in 0 .. Len(futures), QueueAt(d), CommandsAt(d)
    PROVE  /\ ~r.closingWrite /\ Head(cmds).id = d + Len(r.writes) + 1
           /\ Numbered(Tail(cmds), d + Len(r.writes) + 1, Len(futures))
<1> DEFINE from == d + Len(r.writes) + Ending
<1>1. cmds \in Seq(Cmd) /\ Len(futures) \in Nat
  BY DEF TypeOK
<1>2. Len(r.writes) \in Nat
  <2>1. r.writes \in Seq(QueuedWrite)
    BY DEF TypeOK, ReactorState
  <2> QED  BY <2>1
<1>3. Ending \in {0, 1} /\ d \in Nat
  <2>1. Ending \in {0, 1}
    BY DEF Ending
  <2> QED  BY <1>1, <2>1
<1>4. from \in Nat /\ Numbered(cmds, from, Len(futures))
  BY <1>2, <1>3 DEF CommandsAt
<1> HIDE DEF from
<1>5. Head(cmds).id = from + 1 /\ Numbered(Tail(cmds), from + 1, Len(futures))
  BY <1>1, <1>4, NumberedTail
<1>6. from + 1 <= Len(futures)
  <2>1. Tail(cmds) \in Seq(Cmd) /\ from + 1 \in Nat
    BY <1>1, <1>4
  <2> QED  BY <1>1, <1>5, <2>1, NumberedIds
<1>7. ASSUME r.closingWrite PROVE FALSE
  <2>1. r.shutdownWriteId = d + Len(r.writes) + 1
    BY <1>7 DEF QueueAt
  <2>2. r.shutdownWriteId = Len(futures)
    BY <1>7 DEF OutboundInv, EndIsMarked, EndIsLast, IsEnd
  <2>3. from = d + Len(r.writes) + 1
    BY <1>7 DEF from, Ending
  <2> QED  BY <1>1, <1>4, <1>6, <2>1, <2>2, <2>3
<1>8. from = d + Len(r.writes)
  <2>1. Ending = 0
    BY <1>7 DEF Ending
  <2> QED  BY <1>2, <1>3, <2>1 DEF from
<1> QED  BY <1>5, <1>7, <1>8

\* A write is queued behind the others.
LEMMA WriteQueued ==
    ASSUME TypeOK, TypeOK', OutboundInv, ProcessWrite
    PROVE  OutboundInv'
<1>1. /\ ~r.closed /\ cmds # <<>> /\ Head(cmds).kind = "write" /\ cmds' = Tail(cmds)
      /\ UNCHANGED <<futures, pendingWriteBytes, closed, writeFinished, wire, txShut, evts, shardUp>>
      /\ r' = [r EXCEPT !.writes = Append(@, [id |-> Head(cmds).id, offset |-> 0])]
  BY DEF ProcessWrite, NextCommand, mainVars, writeVars, flagVars, socketVars
<1>2. /\ r \in ReactorState /\ r.writes \in Seq(QueuedWrite) /\ cmds \in Seq(Cmd)
      /\ Len(futures) \in Nat
  <2>1. r \in ReactorState /\ cmds \in Seq(Cmd) /\ futures \in Seq(Future)
    BY DEF TypeOK
  <2>2. r.writes \in Seq(QueuedWrite)
    BY <2>1 DEF ReactorState
  <2> QED  BY <2>1, <2>2
<1> DEFINE new == [id |-> Head(cmds).id, offset |-> 0]
           q == Append(r.writes, new)
<1>3. /\ r'.closingWrite = r.closingWrite /\ r'.shutdownWriteId = r.shutdownWriteId
      /\ r'.writeClosed = r.writeClosed /\ r'.closed = r.closed /\ r'.writes = q
  BY <1>1, <1>2 DEF ReactorState
<1>4. /\ Len(q) = Len(r.writes) + 1 /\ Len(r.writes) \in Nat /\ q # <<>>
      /\ \A i \in 1 .. Len(r.writes) : q[i] = r.writes[i]
      /\ q[Len(r.writes) + 1] = new /\ DOMAIN q = 1 .. Len(r.writes) + 1
  BY ONLY <1>2
<1>5. PICK d \in 0 .. Len(futures) :
          QueueAt(d) /\ CommandsAt(d) /\ WireAt(d) /\ PendingAt(d)
  BY <1>1 DEF Pipeline, OutboundInv
<1>6. /\ ~r.closingWrite /\ Head(cmds).id = d + Len(r.writes) + 1
      /\ Numbered(Tail(cmds), d + Len(r.writes) + 1, Len(futures))
  BY <1>1, <1>5, NextNumber DEF Carriers
<1>7. EndIsMarked'
  <2>1. \A i \in DOMAIN cmds' : \E j \in DOMAIN cmds : cmds'[i] = cmds[j]
    BY <1>1, <1>2, TailWithin
  <2> QED  BY <1>1, <1>3, <2>1, MarksKept DEF OutboundInv
<1>8. EndIsLast' /\ OkIsTrue' /\ Accounted'
  <2>1. Len(wire) <= Len(wire')
    BY <1>1 DEF TypeOK
  <2> QED  BY <1>1, <2>1, ReactorFacts
<1>9. FuturesGrow
  BY <1>1 DEF FuturesGrow, TypeOK
<1>10. WireOrdered'
  BY <1>1, <1>9, WireKept DEF OutboundInv
<1>11. ShutIsLast'
  <2>1. Len(futures) + 1 \in 1 .. Len(futures) + 1
    BY <1>2
  <2> QED  BY <1>1, <1>9, <2>1, BytesKept DEF ShutIsLast, OutboundInv
<1>12. QueueAt(d)'
  <2>1. \A i \in DOMAIN q : q[i].id = d + i /\ (i > 1 => q[i].offset = 0)
    <3> SUFFICES ASSUME NEW i \in DOMAIN q
                 PROVE  q[i].id = d + i /\ (i > 1 => q[i].offset = 0)
      OBVIOUS
    <3>1. CASE i = Len(r.writes) + 1
      BY <1>4, <1>6, <3>1
    <3>2. CASE i # Len(r.writes) + 1
      <4>1. i \in DOMAIN r.writes /\ q[i] = r.writes[i]
        BY <1>2, <1>4, <3>2
      <4> QED  BY <1>5, <4>1 DEF QueueAt
    <3> QED  BY <3>1, <3>2
  <2> HIDE DEF q
  <2> QED  BY <1>3, <1>6, <2>1 DEF QueueAt
<1>13. CommandsAt(d)'
  <2>1. d + Len(q) + Ending' = d + Len(r.writes) + 1
    BY <1>3, <1>4, <1>6 DEF Ending
  <2> HIDE DEF q
  <2> QED  BY <1>1, <1>3, <1>6, <2>1 DEF CommandsAt
<1>14. WireAt(d)'
  <2>1. d + 1 \in 1 .. Len(futures) + 1
    BY <1>2
  <2>2. BytesBefore(d + 1)' = BytesBefore(d + 1)
    BY <1>9, <2>1, BytesKept
  <2>3. q[1].offset = IF r.writes = <<>> THEN 0 ELSE r.writes[1].offset
    <3>1. CASE r.writes = <<>>
      BY <1>2, <3>1
    <3>2. CASE r.writes # <<>>
      BY <1>2, <3>2
    <3> QED  BY <3>1, <3>2
  <2> HIDE DEF q
  <2> QED  BY <1>1, <1>3, <1>4, <1>5, <2>2, <2>3 DEF WireAt
<1>15. PendingAt(d)'
  <2>1. \A id : Outstanding(d, id)' <=> Outstanding(d, id)
    BY <1>3 DEF Outstanding
  <2> QED  BY <1>1, <1>5, <2>1 DEF PendingAt
<1>16. Pipeline'
  <2>1. shardUp' /\ \A i \in DOMAIN evts' : evts'[i].kind # "writeError"
    BY <1>1 DEF Pipeline, OutboundInv
  <2>2. d \in 0 .. Len(futures')
    BY <1>1
  <2> QED  BY <1>12, <1>13, <1>14, <1>15, <2>1, <2>2 DEF Pipeline
<1> QED  BY <1>7, <1>8, <1>10, <1>11, <1>16 DEF OutboundInv

\* A closeWrite waits behind the queue.
LEMMA ShutdownQueued ==
    ASSUME TypeOK, TypeOK', OutboundInv, ProcessShutdownWrite
    PROVE  OutboundInv'
<1>1. /\ ~r.closed /\ cmds # <<>> /\ Head(cmds).kind = "shutdownWrite" /\ cmds' = Tail(cmds)
      /\ UNCHANGED <<futures, pendingWriteBytes, closed, writeFinished, wire, txShut, evts, shardUp>>
      /\ r' = [r EXCEPT !.closingWrite = TRUE, !.shutdownWriteId = Head(cmds).id]
  BY DEF ProcessShutdownWrite, NextCommand, mainVars, writeVars, flagVars, socketVars
<1>2. /\ r \in ReactorState /\ r.writes \in Seq(QueuedWrite) /\ cmds \in Seq(Cmd)
      /\ Len(futures) \in Nat
  <2>1. r \in ReactorState /\ cmds \in Seq(Cmd) /\ futures \in Seq(Future)
    BY DEF TypeOK
  <2>2. r.writes \in Seq(QueuedWrite)
    BY <2>1 DEF ReactorState
  <2> QED  BY <2>1, <2>2
<1>3. /\ r'.closingWrite /\ r'.shutdownWriteId = Head(cmds).id
      /\ r'.writeClosed = r.writeClosed /\ r'.closed = r.closed /\ r'.writes = r.writes
  BY <1>1, <1>2 DEF ReactorState
<1>4. PICK d \in 0 .. Len(futures) :
          QueueAt(d) /\ CommandsAt(d) /\ WireAt(d) /\ PendingAt(d)
  BY <1>1 DEF Pipeline, OutboundInv
<1>5. /\ ~r.closingWrite /\ Head(cmds).id = d + Len(r.writes) + 1
      /\ Numbered(Tail(cmds), d + Len(r.writes) + 1, Len(futures))
  BY <1>1, <1>4, NextNumber DEF Carriers
<1>6. EndIsMarked'
  <2>1. \A i \in DOMAIN cmds' : \E j \in DOMAIN cmds : cmds'[i] = cmds[j]
    BY <1>1, <1>2, TailWithin
  <2>2. IsEnd(Head(cmds).id)
    <3>1. 1 \in DOMAIN cmds /\ Head(cmds) = cmds[1]
      BY <1>1, <1>2
    <3> QED  BY <1>1, <3>1 DEF EndIsMarked, OutboundInv
  <2>3. ~r.writeClosed /\ ~txShut
    BY <1>5 DEF EndIsMarked, OutboundInv
  <2>4. \A id : IsEnd(id)' <=> IsEnd(id)
    BY <1>1 DEF IsEnd
  <2>5. \A i \in DOMAIN cmds' : cmds'[i].kind = "shutdownWrite" => IsEnd(cmds'[i].id)
    BY <2>1 DEF EndIsMarked, OutboundInv
  <2> QED  BY <1>1, <1>3, <2>2, <2>3, <2>4, <2>5 DEF EndIsMarked
<1>7. EndIsLast' /\ OkIsTrue' /\ Accounted'
  <2>1. Len(wire) <= Len(wire')
    BY <1>1 DEF TypeOK
  <2> QED  BY <1>1, <2>1, ReactorFacts
<1>8. FuturesGrow
  BY <1>1 DEF FuturesGrow, TypeOK
<1>9. WireOrdered'
  BY <1>1, <1>8, WireKept DEF OutboundInv
<1>10. ShutIsLast'
  <2>1. Len(futures) + 1 \in 1 .. Len(futures) + 1
    BY <1>2
  <2> QED  BY <1>1, <1>8, <2>1, BytesKept DEF ShutIsLast, OutboundInv
<1>11. QueueAt(d)'
  BY <1>3, <1>4, <1>5 DEF QueueAt
<1>12. CommandsAt(d)'
  <2>1. Ending' = 1
    BY <1>3 DEF Ending
  <2> QED  BY <1>1, <1>3, <1>5, <2>1 DEF CommandsAt
<1>13. WireAt(d)'
  BY <1>1, <1>3, <1>4, <1>8, WireAtKept
<1>14. PendingAt(d)'
  <2>1. ~r.writeClosed
    BY <1>5 DEF EndIsMarked, OutboundInv
  <2>2. \A id : Outstanding(d, id)' <=> Outstanding(d, id)
    BY <1>3, <2>1 DEF Outstanding
  <2> QED  BY <1>1, <1>4, <2>2 DEF PendingAt
<1>15. Pipeline'
  <2>1. shardUp' /\ \A i \in DOMAIN evts' : evts'[i].kind # "writeError"
    BY <1>1 DEF Pipeline, OutboundInv
  <2>2. d \in 0 .. Len(futures')
    BY <1>1
  <2> QED  BY <1>11, <1>12, <1>13, <1>14, <2>1, <2>2 DEF Pipeline
<1> QED  BY <1>6, <1>7, <1>9, <1>10, <1>15 DEF OutboundInv

\* A command keeps the invariant.
LEMMA CommandOut ==
    ASSUME TypeOK, TypeOK', OutboundInv, ProcessCommand
    PROVE  OutboundInv'
<1>1. r \in ReactorState /\ cmds \in Seq(Cmd) /\ <<>> \in Seq(Evt)
  BY DEF TypeOK
<1>2. /\ UNCHANGED <<futures, pendingWriteBytes, closed, writeFinished, wire, txShut, shardUp>>
      /\ cmds # <<>> /\ cmds' = Tail(cmds)
  BY DEF ProcessCommand, ProcessDropped, ProcessEnableRead, ProcessDisableRead,
         ProcessInboundConsumed, ProcessWrite, ProcessShutdownWrite, ProcessClose,
         NextCommand, mainVars, writeVars, flagVars, socketVars
<1>3. CASE ProcessDropped
  <2>1. r.closed /\ r' = r /\ evts' = evts
    BY <1>3 DEF ProcessDropped, reactorVars
  <2>2. WentOn(r, <<>>)
    BY <2>1 DEF WentOn
  <2> QED  BY <1>2, <2>1, <2>2, ReactorKeeps
<1>4. CASE ProcessEnableRead \/ ProcessDisableRead
  <2>1. PICK b \in BOOLEAN : UpdateInterest([r EXCEPT !.readEnabled = b], <<>>)
    BY <1>4 DEF ProcessEnableRead, ProcessDisableRead
  <2> DEFINE s == [r EXCEPT !.readEnabled = b]
  <2>2. /\ s \in ReactorState /\ s.writes = r.writes /\ s.closingWrite = r.closingWrite
        /\ s.shutdownWriteId = r.shutdownWriteId /\ s.writeClosed = r.writeClosed
        /\ s.closed = r.closed
    BY <1>1 DEF ReactorState
  <2> HIDE DEF s
  <2>3. WentOn(s, <<>>)
    BY <1>1, <2>1, <2>2, UpdateWentOn DEF s
  <2>4. Head(cmds).kind \notin Carriers
    BY <1>4 DEF ProcessEnableRead, ProcessDisableRead, NextCommand, Carriers
  <2> QED  BY <1>2, <2>2, <2>3, <2>4, ReactorKeeps
<1>5. CASE ProcessInboundConsumed
  <2> DEFINE s == Acknowledged(Head(cmds).hi - Head(cmds).lo)
  <2>1. UpdateInterest(s, <<>>)
    BY <1>5 DEF ProcessInboundConsumed
  <2>2. Head(cmds).hi - Head(cmds).lo \in Nat
    <3>1. Head(cmds) \in Cmd
      BY <1>1, <1>2, HeadTailType
    <3> QED  BY <3>1 DEF Cmd
  <2>3. /\ s \in ReactorState /\ s.writes = r.writes /\ s.closingWrite = r.closingWrite
        /\ s.shutdownWriteId = r.shutdownWriteId /\ s.writeClosed = r.writeClosed
        /\ s.closed = r.closed
    <3> DEFINE n == Head(cmds).hi - Head(cmds).lo
               left == IF n > r.pendingInbound THEN 0 ELSE r.pendingInbound - n
    <3>1. r.pendingInbound \in Nat
      BY <1>1 DEF ReactorState
    <3>2. left \in Nat
      BY <2>2, <3>1
    <3>3. s = [r EXCEPT !.pendingInbound = left]
      BY DEF Acknowledged
    <3> HIDE DEF left, s
    <3> QED  BY <1>1, <3>2, <3>3 DEF ReactorState
  <2> HIDE DEF s
  <2>4. WentOn(s, <<>>)
    BY <1>1, <2>1, <2>3, UpdateWentOn
  <2>5. Head(cmds).kind \notin Carriers
    BY <1>5 DEF ProcessInboundConsumed, NextCommand, Carriers
  <2> QED  BY <1>2, <2>3, <2>4, <2>5, ReactorKeeps
<1>6. CASE ProcessClose
  <2>1. CloseReactorState(r, <<>>)
    BY <1>6 DEF ProcessClose
  <2>2. WentOn(r, <<>>) /\ r'.closed
    BY <1>1, <2>1, CloseWentOn
  <2> QED  BY <1>2, <2>2, ReactorKeeps
<1> QED  BY <1>3, <1>4, <1>5, <1>6, WriteQueued, ShutdownQueued DEF ProcessCommand

-----------------------------------------------------------------------------
(* The flush loop.                                                         *)

\* What is queued has futures.
LEMMA WithinFutures ==
    ASSUME TypeOK, NEW d \in 0 .. Len(futures), CommandsAt(d)
    PROVE  /\ d \in Nat /\ Len(r.writes) \in Nat /\ Len(futures) \in Nat
           /\ d + Len(r.writes) <= Len(futures)
           /\ r.closingWrite => d + Len(r.writes) + 1 <= Len(futures)
<1>1. cmds \in Seq(Cmd) /\ futures \in Seq(Future) /\ r \in ReactorState
  BY DEF TypeOK
<1>2. r.writes \in Seq(QueuedWrite)
  BY <1>1 DEF ReactorState
<1>3. Len(futures) \in Nat /\ Len(r.writes) \in Nat /\ d \in Nat
  BY <1>1, <1>2
<1>4. Ending \in {0, 1}
  BY DEF Ending
<1> DEFINE from == d + Len(r.writes) + Ending
<1>5. from \in Nat
  BY <1>3, <1>4
<1>6. Numbered(cmds, from, Len(futures))
  BY DEF CommandsAt
<1> HIDE DEF from
<1>7. from <= Len(futures)
  BY <1>1, <1>3, <1>5, <1>6, NumberedIds
<1>8. d + Len(r.writes) <= Len(futures)
  BY <1>3, <1>4, <1>7 DEF from
<1>9. ASSUME r.closingWrite PROVE d + Len(r.writes) + 1 <= Len(futures)
  <2>1. Ending = 1
    BY <1>9 DEF Ending
  <2> QED  BY <1>3, <1>7, <2>1 DEF from
<1> QED  BY <1>3, <1>8, <1>9

\* The head of the queue: the write after those that are done, and where the fd stands in it.
LEMMA QueueHead ==
    ASSUME TypeOK, r.writes # <<>>,
           NEW d \in 0 .. Len(futures), QueueAt(d), CommandsAt(d), WireAt(d)
    PROVE  /\ Head(r.writes) = r.writes[1] /\ Head(r.writes) \in QueuedWrite
           /\ Head(r.writes).id = d + 1 /\ d + 1 \in DOMAIN futures
           /\ futures[d + 1].bytes \in Nat /\ BytesBefore(d + 1) \in Nat
           /\ BytesBefore(d + 2) = BytesBefore(d + 1) + futures[d + 1].bytes
           /\ Len(wire) = BytesBefore(d + 1) + Head(r.writes).offset
<1>1. futures \in Seq(Future) /\ r \in ReactorState
  BY DEF TypeOK
<1>2. r.writes \in Seq(QueuedWrite)
  BY <1>1 DEF ReactorState
<1>3. /\ Head(r.writes) = r.writes[1] /\ Head(r.writes) \in QueuedWrite
      /\ 1 \in DOMAIN r.writes /\ Len(r.writes) >= 1
  BY <1>2
<1>4. d \in Nat /\ Len(r.writes) \in Nat /\ Len(futures) \in Nat
      /\ d + Len(r.writes) <= Len(futures)
  BY WithinFutures
<1>5. d + 1 \in 1 .. Len(futures)
  BY <1>3, <1>4
<1>6. d + 1 \in DOMAIN futures /\ (d + 1) + 1 = d + 2 /\ d + 1 \in 1 .. Len(futures) + 1
  BY <1>1, <1>4, <1>5
<1>7. r.writes[1].id = d + 1
  BY <1>3 DEF QueueAt
<1>8. Len(wire) = BytesBefore(d + 1) + r.writes[1].offset
  BY DEF WireAt
<1>9. BytesBefore((d + 1) + 1) = BytesBefore(d + 1) + futures[d + 1].bytes
      /\ futures[d + 1].bytes \in Nat /\ BytesBefore(d + 1) \in Nat
  BY <1>6, BytesStep
<1> QED  BY <1>3, <1>6, <1>7, <1>8, <1>9

\* A sequence is found behind the one it is put after.
LEMMA ConcatAt ==
    ASSUME NEW S, NEW p \in Seq(S), NEW q \in Seq(S)
    PROVE  /\ Len(p) \in Nat /\ Len(p \o q) = Len(p) + Len(q)
           /\ \A i \in 1 .. Len(p) : (p \o q)[i] = p[i]
           /\ \A k \in 1 .. Len(q) : (p \o q)[Len(p) + k] = q[k]
  OBVIOUS

\* Bytes of the head that are taken stand where they belong.
LEMMA TakenInOrder ==
    ASSUME TypeOK, TypeOK', WireOrdered, futures' = futures,
           NEW w \in QueuedWrite, w.id \in DOMAIN futures,
           NEW n \in Nat, w.offset + n <= futures[w.id].bytes,
           Len(wire) = BytesBefore(w.id) + w.offset,
           wire' = wire \o Taken(w, n)
    PROVE  WireOrdered' /\ Len(wire') = Len(wire) + n
<1>1. wire \in Seq(Nat \X Nat) /\ futures \in Seq(Future)
  BY DEF TypeOK
<1>2. w.id \in Nat /\ w.offset \in Nat
  BY DEF QueuedWrite
<1>3. Taken(w, n) \in Seq(Nat \X Nat) /\ Len(Taken(w, n)) = n
  <2>1. PICK S : S = Nat \X Nat
    OBVIOUS
  <2>2. \A k \in 1 .. n : <<w.id, w.offset + k>> \in S
    BY <1>2, <2>1
  <2> DEFINE t == [k \in 1 .. n |-> <<w.id, w.offset + k>>]
  <2>3. t \in [1 .. n -> S]
    BY <2>2
  <2> HIDE DEF t
  <2>4. t \in Seq(S)
    BY <2>3, SeqDef
  <2>5. Len(t) = n
    BY <2>3, <2>4, LenProperties
  <2> QED  BY <2>1, <2>4, <2>5 DEF t, Taken
<1>4. FuturesGrow
  BY DEF FuturesGrow, TypeOK
<1>5. \A id \in DOMAIN futures : BytesBefore(id)' = BytesBefore(id) /\ BytesBefore(id) \in Nat
  <2>1. \A id \in DOMAIN futures : id \in 1 .. Len(futures) + 1
    BY <1>1
  <2> QED  BY <1>4, <2>1, BytesKept, BytesStep
<1>6. /\ Len(wire) \in Nat /\ Len(wire') = Len(wire) + n
      /\ DOMAIN wire = 1 .. Len(wire) /\ DOMAIN wire' = 1 .. Len(wire) + n
      /\ \A i \in 1 .. Len(wire) : wire'[i] = wire[i]
      /\ \A k \in 1 .. n : wire'[Len(wire) + k] = Taken(w, n)[k]
  <2>1. PICK S : S = Nat \X Nat
    OBVIOUS
  <2>2. PICK t : t = Taken(w, n)
    OBVIOUS
  <2>3. wire \in Seq(S) /\ t \in Seq(S) /\ Len(t) = n /\ wire' = wire \o t
    BY <1>1, <1>3, <2>1, <2>2
  <2>4. /\ Len(wire) \in Nat /\ Len(wire \o t) = Len(wire) + Len(t)
        /\ DOMAIN wire = 1 .. Len(wire) /\ DOMAIN (wire \o t) = 1 .. Len(wire) + Len(t)
        /\ \A i \in 1 .. Len(wire) : (wire \o t)[i] = wire[i]
        /\ \A k \in 1 .. Len(t) : (wire \o t)[Len(wire) + k] = t[k]
    <3>1. wire \in Seq(S)
      BY <2>3
    <3>2. t \in Seq(S)
      BY <2>3
    <3>3. Len(wire) \in Nat /\ Len(wire \o t) = Len(wire) + Len(t)
      BY <3>1, <3>2, ConcatAt
    <3>4. DOMAIN wire = 1 .. Len(wire) /\ DOMAIN (wire \o t) = 1 .. Len(wire) + Len(t)
      <4>1. wire \o t \in Seq(S)
        BY <3>1, <3>2, ConcatProperties
      <4> QED  BY <3>1, <3>3, <4>1, LenProperties
    <3>5. \A i \in 1 .. Len(wire) : (wire \o t)[i] = wire[i]
      BY <3>1, <3>2, ConcatAt
    <3>6. \A k \in 1 .. Len(t) : (wire \o t)[Len(wire) + k] = t[k]
      BY <3>1, <3>2, ConcatAt
    <3> QED  BY <3>3, <3>4, <3>5, <3>6
  <2> QED  BY ONLY <2>2, <2>3, <2>4
<1>7. ASSUME NEW i \in DOMAIN wire'
      PROVE  /\ wire'[i][1] \in DOMAIN futures
             /\ wire'[i][2] <= futures[wire'[i][1]].bytes
             /\ i = BytesBefore(wire'[i][1]) + wire'[i][2]
  <2>1. CASE i <= Len(wire)
    <3>1. i \in DOMAIN wire /\ wire'[i] = wire[i]
      BY <1>6, <2>1
    <3> QED  BY <3>1 DEF WireOrdered
  <2>2. CASE ~(i <= Len(wire))
    <3>1. i \in 1 .. Len(wire) + n /\ Len(wire) \in Nat
      BY <1>6
    <3>2. PICK k \in 1 .. n : i = Len(wire) + k
      <4>1. i - Len(wire) \in 1 .. n /\ i = Len(wire) + (i - Len(wire))
        BY <2>2, <3>1
      <4> QED  BY <4>1
    <3>3. wire'[i] = Taken(w, n)[k]
      BY <1>6, <3>2
    <3>4. wire'[i] = <<w.id, w.offset + k>>
      BY <3>3 DEF Taken
    <3>5. w.offset + k <= futures[w.id].bytes
      <4>1. futures[w.id] \in Future
        BY <1>1
      <4>2. futures[w.id].bytes \in Nat
        BY <4>1 DEF Future
      <4>3. PICK b : b = futures[w.id].bytes
        OBVIOUS
      <4>4. PICK o : o = w.offset
        OBVIOUS
      <4>5. o + n <= b /\ o \in Nat /\ b \in Nat
        BY <1>2, <4>2, <4>3, <4>4
      <4>6. o + k <= b
        BY <4>5
      <4> QED  BY <4>3, <4>4, <4>6
    <3>6. i = BytesBefore(w.id) + (w.offset + k)
      <4>1. BytesBefore(w.id) \in Nat /\ k \in Nat
        BY <1>5
      <4> QED  BY <1>2, <3>2, <4>1
    <3> QED  BY <3>4, <3>5, <3>6
  <2> QED  BY <2>1, <2>2
<1>8. WireOrdered'
  <2>1. ASSUME NEW i \in DOMAIN wire', NEW id, id = wire'[i][1]
        PROVE  i = BytesBefore(id)' + wire'[i][2]
    BY <1>5, <1>7, <2>1
  <2>2. ASSUME NEW i \in DOMAIN wire'
        PROVE  (i = BytesBefore(wire[i][1]) + wire[i][2])'
    BY ONLY <2>1, <2>2 DEF BytesBefore
  <2> QED  BY <1>7, <2>2 DEF WireOrdered
<1> QED  BY <1>8, <1>6

\* The last byte of a write was taken: it leaves the queue, and its future is completed.
LEMMA FinishedKeeps ==
    ASSUME TypeOK, TypeOK', OutboundInv, ~r.closed, ~r.writeClosed, ~txShut, r.writes # <<>>,
           UNCHANGED <<futures, pendingWriteBytes, closed, writeFinished, cmds, shardUp, txShut>>,
           NEW n \in Nat, n > 0,
           Head(r.writes).offset + n = futures[Head(r.writes).id].bytes,
           wire' = wire \o Taken(Head(r.writes), n),
           Reply([r EXCEPT !.writes = Tail(@)], <<ToMain("writeOk", Head(r.writes).id)>>)
    PROVE  OutboundInv'
<1>1. r \in ReactorState /\ r.writes \in Seq(QueuedWrite) /\ Len(r.writes) \in Nat
  <2>1. r \in ReactorState
    BY DEF TypeOK
  <2>2. r.writes \in Seq(QueuedWrite)
    BY <2>1 DEF ReactorState
  <2> QED  BY <2>1, <2>2
<1>2. PICK d \in 0 .. Len(futures) :
          QueueAt(d) /\ CommandsAt(d) /\ WireAt(d) /\ PendingAt(d)
  BY DEF Pipeline, OutboundInv
<1>3. /\ d \in Nat /\ Len(r.writes) \in Nat /\ Len(futures) \in Nat
      /\ d + Len(r.writes) <= Len(futures)
  BY <1>2, WithinFutures
<1>4. /\ Head(r.writes) = r.writes[1] /\ Head(r.writes) \in QueuedWrite
      /\ Head(r.writes).id = d + 1 /\ d + 1 \in DOMAIN futures
      /\ futures[d + 1].bytes \in Nat /\ BytesBefore(d + 1) \in Nat
      /\ BytesBefore(d + 2) = BytesBefore(d + 1) + futures[d + 1].bytes
      /\ Len(wire) = BytesBefore(d + 1) + Head(r.writes).offset
  BY <1>2, QueueHead
<1> DEFINE w == Head(r.writes)
           m == ToMain("writeOk", w.id)
           q == Tail(r.writes)
<1>5. w.offset \in Nat /\ m \in Evt /\ m.kind = "writeOk" /\ m.id = d + 1 /\ w \in QueuedWrite
  <2>1. w.offset \in Nat /\ w.id \in Nat
    BY <1>4 DEF QueuedWrite
  <2>2. m \in Evt
    BY <2>1, ToMainType DEF EvtKind
  <2>3. m.kind = "writeOk" /\ m.id = d + 1
    BY <1>4 DEF ToMain, Message
  <2> QED  BY <1>4, <2>1, <2>2, <2>3
<1> DEFINE b == futures[d + 1].bytes
           o == w.offset
<1>6. b \in Nat /\ o \in Nat /\ o + n = b
  <2>1. b \in Nat /\ futures[w.id].bytes = b
    BY <1>4
  <2> QED  BY <1>5, <2>1
<1> HIDE DEF b, o
<1>7. b # 0 /\ o + n <= b
  BY <1>6
<1>8. WireOrdered' /\ Len(wire') = Len(wire) + n
  <2>1. w.offset + n <= futures[w.id].bytes
    BY <1>4, <1>7 DEF o, b
  <2>2. w.id \in DOMAIN futures /\ Len(wire) = BytesBefore(w.id) + w.offset /\ WireOrdered
    BY <1>4 DEF OutboundInv
  <2> HIDE DEF w
  <2> QED  BY <1>5, <2>1, <2>2, TakenInOrder DEF w
<1>9. /\ r' = [r EXCEPT !.writes = q]
      /\ \A i \in DOMAIN evts' : evts'[i] = m \/ \E j \in DOMAIN evts : evts'[i] = evts[j]
  <2>1. <<m>> \in Seq(Evt) /\ \A j \in DOMAIN <<m>> : <<m>>[j] = m
    BY <1>5
  <2> HIDE DEF m
  <2>2. Reply([r EXCEPT !.writes = q], <<m>>)
    BY DEF m
  <2> QED  BY <2>1, <2>2, ReplyPosts
<1> HIDE DEF m
<1>10. /\ r'.closingWrite = r.closingWrite /\ r'.shutdownWriteId = r.shutdownWriteId
      /\ r'.writeClosed = r.writeClosed /\ r'.closed = r.closed /\ r'.writes = q
  BY <1>1, <1>9 DEF ReactorState
<1>11. /\ Len(q) = Len(r.writes) - 1 /\ Len(r.writes) >= 1
      /\ \A i \in DOMAIN q : q[i] = r.writes[i + 1] /\ i + 1 \in DOMAIN r.writes /\ i \in Nat /\ i > 0
  <2>1. Len(q) = Len(r.writes) - 1 /\ Len(r.writes) >= 1 /\ q \in Seq(QueuedWrite)
    BY <1>1
  <2>2. ASSUME NEW i \in DOMAIN q
        PROVE  q[i] = r.writes[i + 1] /\ i + 1 \in DOMAIN r.writes /\ i \in Nat /\ i > 0
    <3>1. i \in Nat /\ i > 0 /\ i <= Len(r.writes) - 1
      BY <1>1
    <3>2. i + 1 \in DOMAIN r.writes
      BY <1>1, <3>1
    <3>3. q[i] = r.writes[i + 1]
      BY <1>1
    <3> QED  BY <3>1, <3>2, <3>3
  <2> QED  BY <2>1, <2>2
<1> HIDE DEF q
<1>12. FuturesGrow
  BY DEF FuturesGrow, TypeOK
<1>13. Len(wire') = BytesBefore(d + 1) + b
  <2>1. Len(wire) = BytesBefore(d + 1) + o /\ BytesBefore(d + 1) \in Nat
    BY <1>4 DEF o
  <2> QED  BY <1>8, <1>6, <2>1
<1>14. EndIsMarked'
  BY <1>10, MarksKept DEF OutboundInv
<1>15. EndIsLast' /\ OkIsTrue' /\ Accounted'
  <2>1. Len(wire) <= Len(wire')
    BY <1>8 DEF TypeOK
  <2>2. d + 1 \in 1 .. Len(futures) + 1
    BY <1>3
  <2>3. BytesBefore(d + 1)' = BytesBefore(d + 1)
    BY <1>12, <2>2, BytesKept
  <2>4. futures[d + 1].bytes # 0
    BY <1>7 DEF b
  <2>5. Len(wire') >= BytesBefore(d + 1) + futures[d + 1].bytes
    BY <1>4, <1>13 DEF b
  <2>6. Written(d + 1)'
    BY <1>4, <2>3, <2>4, <2>5 DEF Written
  <2>7. ASSUME NEW i \in DOMAIN evts', evts'[i] = m PROVE Written(evts[i].id)'
    <3>1. evts'[i].id = d + 1
      BY <1>5, <2>7
    <3> QED  BY <2>6, <3>1 DEF Written
  <2> QED  BY <1>9, <2>1, <2>7, ReactorFacts
<1>16. ShutIsLast'
  BY DEF ShutIsLast
<1>17. QueueAt(d + 1)'
  <2>1. \A i \in DOMAIN q : q[i].id = d + 1 + i /\ (i > 1 => q[i].offset = 0)
    <3> SUFFICES ASSUME NEW i \in DOMAIN q
                 PROVE  q[i].id = d + 1 + i /\ (i > 1 => q[i].offset = 0)
      OBVIOUS
    <3>1. q[i] = r.writes[i + 1] /\ i + 1 \in DOMAIN r.writes /\ i \in Nat /\ i > 0
      BY <1>11
    <3>2. q[i].id = d + (i + 1) /\ q[i].offset = 0
      BY <1>2, <3>1 DEF QueueAt
    <3> QED  BY <1>3, <3>1, <3>2
  <2>2. r.closingWrite => r.shutdownWriteId = d + 1 + Len(q) + 1
    BY <1>2, <1>3, <1>11 DEF QueueAt
  <2> QED  BY <1>10, <2>1, <2>2 DEF QueueAt
<1>18. CommandsAt(d + 1)'
  <2>1. Ending' = Ending
    BY <1>10 DEF Ending
  <2>2. Len(q) = Len(r.writes) - 1
    BY <1>11
  <2>3. d + 1 + Len(q) = d + Len(r.writes)
    <3>1. PICK k \in Nat : k = Len(r.writes)
      BY <1>3
    <3>2. d + 1 + (k - 1) = d + k
      BY <1>3
    <3> QED  BY <2>2, <3>1, <3>2
  <2> QED  BY <1>2, <1>10, <2>1, <2>3 DEF CommandsAt
<1>19. WireAt(d + 1)'
  <2>1. d + 2 \in 1 .. Len(futures) + 1 /\ (d + 1) + 1 = d + 2
    <3>1. Len(r.writes) >= 1
      BY ONLY <1>11
    <3> QED  BY ONLY <1>3, <3>1
  <2>2. BytesBefore(d + 2)' = BytesBefore(d + 2)
    <3>1. \A id \in 1 .. Len(futures) + 1 : BytesBefore(id)' = BytesBefore(id)
      <4> SUFFICES ASSUME NEW id \in 1 .. Len(futures) + 1
                   PROVE  BytesBefore(id)' = BytesBefore(id)
        OBVIOUS
      <4> QED  BY ONLY TypeOK, TypeOK', <1>12, id \in 1 .. Len(futures) + 1, BytesKept
    <3> QED  BY ONLY <2>1, <3>1
  <2>3. q # <<>> => q[1].offset = 0
    <3>1. ASSUME q # <<>> PROVE q[1].offset = 0
      <4>1. 1 \in DOMAIN q
        BY <1>1, <3>1 DEF q
      <4>2. q[1] = r.writes[1 + 1] /\ 1 + 1 \in DOMAIN r.writes
        BY <1>11, <4>1
      <4> QED  BY <1>2, <4>2 DEF QueueAt
    <3> QED  BY <3>1
  <2>4. (IF q = <<>> THEN 0 ELSE q[1].offset) = 0
    BY <2>3
  <2>5. Len(wire') = BytesBefore(d + 2) + 0
    <3>1. BytesBefore(d + 2) = BytesBefore(d + 1) + b /\ BytesBefore(d + 1) \in Nat
      BY <1>4 DEF b
    <3> QED  BY <1>13, <1>6, <3>1
  <2>6. Len(wire') = BytesBefore((d + 1) + 1)' + (IF q = <<>> THEN 0 ELSE q[1].offset)
    BY <2>1, <2>2, <2>4, <2>5
  <2> QED  BY <1>10, <2>6 DEF WireAt
<1>20. PendingAt(d + 1)'
  <2>1. ~ Outstanding(d + 1, d + 1)'
    BY <1>3 DEF Outstanding
  <2>2. \A id \in Nat : Outstanding(d + 1, id)' => Outstanding(d, id)
    BY <1>3, <1>10 DEF Outstanding
  <2>3. \A id \in DOMAIN futures' : Outstanding(d + 1, id)' /\ ~closed' => futures'[id].state = "pending"
    <3>1. DOMAIN futures \subseteq Nat
      <4>1. futures \in Seq(Future)
        BY DEF TypeOK
      <4> QED  BY <4>1
    <3> QED  BY <1>2, <2>2, <3>1 DEF PendingAt
  <2>4. ASSUME NEW i \in DOMAIN evts', evts'[i].kind = "writeOk", NEW id, id = evts'[i].id
        PROVE  ~ Outstanding(d + 1, id)'
    <3>1. CASE evts'[i] = m
      BY <1>5, <2>1, <2>4, <3>1
    <3>2. CASE \E j \in DOMAIN evts : evts'[i] = evts[j]
      <4>1. PICK j \in DOMAIN evts : evts'[i] = evts[j]
        BY <3>2
      <4>2. ~ Outstanding(d, id)
        BY <1>2, <2>4, <4>1 DEF PendingAt
      <4>3. id \in Nat
        <5>1. evts \in Seq(Evt)
          BY DEF TypeOK
        <5>2. evts[j] \in Evt
          BY <5>1
        <5> QED  BY <2>4, <4>1, <5>2 DEF Evt
      <4> QED  BY <2>2, <4>2, <4>3
    <3> QED  BY <1>9, <3>1, <3>2
  <2>5. ASSUME NEW i \in DOMAIN evts', evts'[i].kind = "writeOk"
        PROVE  ~ Outstanding(d + 1, evts[i].id)'
    BY <2>4, <2>5 DEF Outstanding
  <2> QED  BY <2>3, <2>5 DEF PendingAt
<1>21. Pipeline'
  <2>1. shardUp' /\ \A i \in DOMAIN evts' : evts'[i].kind # "writeError"
    BY <1>5, <1>9 DEF Pipeline, OutboundInv
  <2>2. d + 1 \in 0 .. Len(futures')
    BY <1>3, <1>11
  <2> QED  BY <1>17, <1>18, <1>19, <1>20, <2>1, <2>2 DEF Pipeline
<1> QED  BY <1>8, <1>14, <1>15, <1>16, <1>21 DEF OutboundInv

\* Some of its bytes were taken: the write stays at the head.
LEMMA UnfinishedKeeps ==
    ASSUME TypeOK, TypeOK', OutboundInv, ~r.closed, ~txShut, r.writes # <<>>,
           UNCHANGED <<futures, pendingWriteBytes, closed, writeFinished, cmds, shardUp, txShut>>,
           NEW n \in Nat,
           Head(r.writes).offset + n <= futures[Head(r.writes).id].bytes,
           wire' = wire \o Taken(Head(r.writes), n),
           Reply([r EXCEPT !.writes[1].offset = Head(r.writes).offset + n], <<>>)
    PROVE  OutboundInv'
<1>1. r \in ReactorState /\ r.writes \in Seq(QueuedWrite) /\ Len(r.writes) \in Nat
  <2>1. r \in ReactorState
    BY DEF TypeOK
  <2>2. r.writes \in Seq(QueuedWrite)
    BY <2>1 DEF ReactorState
  <2> QED  BY <2>1, <2>2
<1>2. PICK d \in 0 .. Len(futures) :
          QueueAt(d) /\ CommandsAt(d) /\ WireAt(d) /\ PendingAt(d)
  BY DEF Pipeline, OutboundInv
<1>3. /\ Head(r.writes) = r.writes[1] /\ Head(r.writes) \in QueuedWrite
      /\ Head(r.writes).id = d + 1 /\ d + 1 \in DOMAIN futures
      /\ BytesBefore(d + 1) \in Nat
      /\ Len(wire) = BytesBefore(d + 1) + Head(r.writes).offset
  BY <1>2, QueueHead
<1> DEFINE w == Head(r.writes)
           o == w.offset
           ww == [w EXCEPT !.offset = o + n]
           q == [r.writes EXCEPT ![1] = ww]
<1>4. o \in Nat /\ w \in QueuedWrite
  BY <1>3 DEF QueuedWrite
<1>5. WireOrdered' /\ Len(wire') = Len(wire) + n
  <2>1. w.offset + n <= futures[w.id].bytes
    BY DEF w
  <2>2. w.id \in DOMAIN futures /\ Len(wire) = BytesBefore(w.id) + w.offset /\ WireOrdered
    BY <1>3 DEF OutboundInv
  <2> HIDE DEF w
  <2> QED  BY <1>4, <2>1, <2>2, TakenInOrder DEF w
<1>6. /\ r' = [r EXCEPT !.writes = q]
      /\ \A i \in DOMAIN evts' : \E j \in DOMAIN evts : evts'[i] = evts[j]
  <2>1. <<>> \in Seq(Evt) /\ DOMAIN <<>> = {}
    OBVIOUS
  <2>2. [r EXCEPT !.writes[1].offset = Head(r.writes).offset + n] = [r EXCEPT !.writes = q]
    BY <1>1, <1>3
  <2>3. Reply([r EXCEPT !.writes = q], <<>>)
    BY <2>2
  <2> HIDE DEF q
  <2> QED  BY <2>1, <2>3, ReplyPosts
<1>7. /\ DOMAIN q = DOMAIN r.writes /\ 1 \in DOMAIN r.writes /\ q[1] = ww
      /\ \A i \in DOMAIN q : i # 1 => q[i] = r.writes[i]
  BY <1>1
<1>8. q # <<>> /\ Len(q) = Len(r.writes)
  BY <1>1
<1>9. ww.id = w.id /\ ww.offset = o + n
  BY <1>4 DEF QueuedWrite
<1> HIDE DEF q, ww
<1>10. /\ r'.closingWrite = r.closingWrite /\ r'.shutdownWriteId = r.shutdownWriteId
       /\ r'.writeClosed = r.writeClosed /\ r'.closed = r.closed /\ r'.writes = q
  BY <1>1, <1>6 DEF ReactorState
<1>11. FuturesGrow
  BY DEF FuturesGrow, TypeOK
<1>12. EndIsMarked'
  BY <1>10, MarksKept DEF OutboundInv
<1>13. EndIsLast' /\ OkIsTrue' /\ Accounted'
  <2>1. Len(wire) <= Len(wire')
    BY <1>5 DEF TypeOK
  <2> QED  BY <1>6, <2>1, ReactorFacts
<1>14. ShutIsLast'
  BY DEF ShutIsLast
<1>15. QueueAt(d)'
  <2>1. ASSUME NEW i \in DOMAIN q PROVE q[i].id = d + i /\ (i > 1 => q[i].offset = 0)
    <3>1. CASE i = 1
      BY <1>3, <1>7, <1>9, <3>1
    <3>2. CASE i # 1
      BY <1>2, <1>7, <3>2 DEF QueueAt
    <3> QED  BY <3>1, <3>2
  <2>2. r.closingWrite => r.shutdownWriteId = d + Len(q) + 1
    BY <1>2, <1>8 DEF QueueAt
  <2> QED  BY <1>10, <2>1, <2>2 DEF QueueAt
<1>16. CommandsAt(d)'
  <2>1. Ending' = Ending
    BY <1>10 DEF Ending
  <2> QED  BY <1>2, <1>8, <1>10, <2>1 DEF CommandsAt
<1>17. WireAt(d)'
  <2>1. d + 1 \in 1 .. Len(futures) + 1
    <3>1. Len(futures) \in Nat
      BY <1>2, WithinFutures
    <3> QED  BY <3>1
  <2>2. BytesBefore(d + 1)' = BytesBefore(d + 1)
    BY <1>11, <2>1, BytesKept
  <2>3. (IF q = <<>> THEN 0 ELSE q[1].offset) = o + n
    BY <1>7, <1>8, <1>9
  <2>4. Len(wire') = BytesBefore(d + 1) + (o + n)
    <3>1. Len(wire) = BytesBefore(d + 1) + o /\ BytesBefore(d + 1) \in Nat
      BY <1>3
    <3> HIDE DEF o
    <3> QED  BY <1>4, <1>5, <3>1
  <2> HIDE DEF o
  <2> QED  BY <1>10, <2>2, <2>3, <2>4 DEF WireAt
<1>18. PendingAt(d)'
  <2>1. \A id : Outstanding(d, id)' <=> Outstanding(d, id)
    BY <1>10 DEF Outstanding
  <2>2. \A i \in DOMAIN evts' : evts'[i].kind = "writeOk" => ~ Outstanding(d, evts'[i].id)
    BY <1>2, <1>6 DEF PendingAt
  <2> QED  BY <1>2, <2>1, <2>2 DEF PendingAt
<1>19. Pipeline'
  <2>1. shardUp' /\ \A i \in DOMAIN evts' : evts'[i].kind # "writeError"
    BY <1>6 DEF Pipeline, OutboundInv
  <2> QED  BY <1>15, <1>16, <1>17, <1>18, <2>1 DEF Pipeline
<1> QED  BY <1>5, <1>12, <1>13, <1>14, <1>19 DEF OutboundInv

\* write(2) took bytes.
LEMMA BytesOut ==
    ASSUME TypeOK, TypeOK', OutboundInv, ~r.closed, FlushBytes
    PROVE  OutboundInv'
<1> DEFINE w == Head(r.writes)
<1>1. PICK n \in 1 .. WriteChunk :
        /\ n <= futures[w.id].bytes - w.offset
        /\ wire' = wire \o Taken(w, n)
        /\ IF Finished(w, n)
           THEN Reply([r EXCEPT !.writes = Tail(@)], <<ToMain("writeOk", w.id)>>)
           ELSE Reply([r EXCEPT !.writes[1].offset = w.offset + n], <<>>)
  BY DEF FlushBytes
<1>2. UNCHANGED <<futures, pendingWriteBytes, closed, writeFinished, cmds, shardUp, txShut>>
      /\ ~r.writeClosed /\ r.writes # <<>>
  BY DEF FlushBytes, Queued, mainVars, writeVars, flagVars
<1>3. ~txShut
  BY <1>2 DEF OutboundInv, EndIsMarked
<1>4. n \in Nat /\ n > 0
  OBVIOUS
<1>5. CASE Finished(w, n)
  BY <1>1, <1>2, <1>3, <1>4, <1>5, FinishedKeeps DEF Finished
<1>6. CASE ~Finished(w, n)
  <2>1. PICK d \in 0 .. Len(futures) : QueueAt(d) /\ CommandsAt(d) /\ WireAt(d)
    BY DEF Pipeline, OutboundInv
  <2>2. futures[w.id].bytes \in Nat /\ w.offset \in Nat
    BY <1>2, <2>1, QueueHead DEF QueuedWrite
  <2>3. w.offset + n <= futures[w.id].bytes
    <3>1. PICK b \in Nat, o \in Nat : b = futures[w.id].bytes /\ o = w.offset
      BY <2>2
    <3>2. n <= b - o
      BY <1>1, <3>1
    <3>3. o + n <= b
      BY <1>4, <3>2
    <3> QED  BY <3>1, <3>3
  <2> QED  BY <1>1, <1>2, <1>3, <1>4, <1>6, <2>3, UnfinishedKeeps
<1> QED  BY <1>5, <1>6

\* SHUT_WR: the closeWrite was the last, and all bytes before it are on the fd.
LEMMA ShutOut ==
    ASSUME TypeOK, TypeOK', OutboundInv, ~r.closed, FlushShutdown
    PROVE  OutboundInv'
<1> DEFINE s == [r EXCEPT !.writeClosed = TRUE]
           last == r.shutdownWriteId
           m == ToMain("writeOk", last)
           ok == <<m>>
<1>1. /\ UNCHANGED <<futures, pendingWriteBytes, closed, writeFinished, cmds, shardUp, wire>>
      /\ txShut' /\ ~r.writeClosed /\ r.writes = <<>> /\ r.closingWrite
  BY DEF FlushShutdown, Drained, mainVars, writeVars, flagVars
<1>2. CloseReactorState(s, ok) \/ Reply(s, ok)
  BY DEF FlushShutdown
<1>3. r \in ReactorState /\ last \in Nat /\ Len(r.writes) = 0
  BY <1>1 DEF TypeOK, ReactorState
<1>4. /\ s \in ReactorState /\ s.closingWrite = r.closingWrite /\ s.shutdownWriteId = last
      /\ s.writeClosed /\ s.writes = r.writes /\ s.closed = r.closed
  BY <1>3 DEF ReactorState
<1>5. m \in Evt /\ m.kind = "writeOk" /\ m.id = last
  BY <1>3, ToMainType DEF EvtKind, ToMain, Message
<1> HIDE DEF s, m
<1>6. ok \in Seq(Evt) /\ \A j \in DOMAIN ok : ok[j] = m
  BY <1>5
<1> HIDE DEF ok
<1>7. WentOn(s, ok)
  <2>1. CASE CloseReactorState(s, ok)
    BY <1>4, <1>6, <2>1, CloseWentOn
  <2>2. CASE Reply(s, ok)
    BY <1>6, <2>2, ReplyPosts DEF WentOn
  <2> QED  BY <1>2, <2>1, <2>2
<1>8. /\ r'.closingWrite = r.closingWrite /\ r'.shutdownWriteId = last /\ r'.writeClosed
      /\ ~r'.closed => r'.writes = r.writes
      /\ \A i \in DOMAIN evts' :
           \/ \E j \in DOMAIN evts : evts'[i] = evts[j]
           \/ evts'[i] = m
           \/ evts'[i].kind # "writeOk" /\ (evts'[i].kind = "writeError" => r'.closed)
  BY <1>4, <1>6, <1>7 DEF WentOn
<1>9. PICK d \in 0 .. Len(futures) :
          QueueAt(d) /\ CommandsAt(d) /\ WireAt(d) /\ PendingAt(d)
  BY DEF Pipeline, OutboundInv
<1>10. d \in Nat /\ Len(futures) \in Nat
  BY <1>9, WithinFutures
<1>11. /\ last \in DOMAIN futures /\ futures[last].bytes = 0
       /\ last = Len(futures) /\ writeFinished /\ last = d + 1
  <2>1. IsEnd(last)
    BY <1>1 DEF EndIsMarked, OutboundInv
  <2>2. last = Len(futures) /\ writeFinished
    BY <2>1 DEF IsEnd, EndIsLast, OutboundInv
  <2>3. last = d + 0 + 1
    BY <1>1, <1>3, <1>9 DEF QueueAt
  <2> QED  BY <1>10, <2>1, <2>2, <2>3 DEF IsEnd
<1>12. Len(wire) = BytesBefore(last) /\ BytesBefore(last) \in Nat
       /\ BytesBefore(Len(futures) + 1) = Len(wire)
  <2>1. last \in 1 .. Len(futures) + 1
    BY <1>10, <1>11
  <2>2. BytesBefore(last) \in Nat /\ BytesBefore(last + 1) = BytesBefore(last) + 0
    BY <1>11, <2>1, BytesStep
  <2>3. Len(wire) = BytesBefore(last) + 0
    BY <1>1, <1>9, <1>11 DEF WireAt
  <2> QED  BY <1>11, <2>2, <2>3
<1> HIDE DEF last
<1>13. FuturesGrow
  BY <1>1 DEF FuturesGrow, TypeOK
<1>14. \A id \in {last, Len(futures) + 1} : BytesBefore(id)' = BytesBefore(id)
  <2>1. \A id \in {last, Len(futures) + 1} : id \in 1 .. Len(futures) + 1
    BY <1>10, <1>11
  <2> QED  BY <1>13, <2>1, BytesKept
<1>15. EndIsMarked'
  <2>1. \A id : IsEnd(id)' <=> IsEnd(id)
    BY <1>1 DEF IsEnd
  <2>2. IsEnd(last)
    BY <1>11 DEF IsEnd
  <2> QED  BY <1>1, <1>8, <1>11, <2>1, <2>2 DEF EndIsMarked, OutboundInv
<1>16. WireOrdered'
  BY <1>1, <1>13, WireKept DEF OutboundInv
<1>17. EndIsLast' /\ OkIsTrue' /\ Accounted'
  <2>1. Len(wire) <= Len(wire')
    BY <1>1 DEF TypeOK
  <2>2. ASSUME NEW i \in DOMAIN evts', evts'[i] = m PROVE Written(evts[i].id)'
    <3>1. evts'[i].id = last
      BY <1>5, <2>2
    <3>2. Len(wire') >= SumTo(Bytes', last - 1) + futures'[last].bytes
      <4>1. Len(wire') >= BytesBefore(last) + 0
        BY <1>1, <1>12
      <4>2. SumTo(Bytes', last - 1) = BytesBefore(last)
        <5>1. PICK id : id = last
          OBVIOUS
        <5>2. BytesBefore(id)' = BytesBefore(id)
          BY <1>14, <5>1
        <5> QED  BY <5>1, <5>2 DEF BytesBefore
      <4> QED  BY <1>1, <1>11, <4>1, <4>2
    <3> QED  BY <1>1, <1>11, <3>1, <3>2 DEF Written, BytesBefore
  <2> QED  BY <1>1, <1>8, <2>1, <2>2, ReactorFacts
<1>18. ShutIsLast'
  <2>1. BytesBefore(Len(futures) + 1)' = BytesBefore(Len(futures) + 1)
    <3>1. PICK id : id = Len(futures) + 1
      OBVIOUS
    <3>2. BytesBefore(id)' = BytesBefore(id)
      BY <1>14, <3>1
    <3> QED  BY <1>1, <3>1, <3>2 DEF BytesBefore
  <2> QED  BY <1>1, <1>12, <2>1 DEF ShutIsLast
<1>19. Pipeline'
  <2> SUFFICES ASSUME ~r'.closed PROVE Pipeline'
    BY DEF Pipeline
  <2>1. r'.writes = r.writes
    BY <1>8
  <2>2. QueueAt(d)'
    BY <1>8, <1>9, <2>1 DEF QueueAt, last
  <2>3. CommandsAt(d)'
    BY <1>1, <1>8, <1>9, <2>1 DEF CommandsAt, Ending
  <2>4. WireAt(d)'
    BY <1>1, <1>9, <1>13, <2>1, WireAtKept
  <2>5. PendingAt(d)'
    <3>1. \A id : Outstanding(d, id)' => Outstanding(d, id)
      BY <1>1 DEF Outstanding
    <3>2. ASSUME NEW id, id = last PROVE ~ Outstanding(d, id)'
      BY <1>8, <3>2 DEF Outstanding
    <3>3. ASSUME NEW i \in DOMAIN evts', evts'[i].kind = "writeOk", NEW id, id = evts'[i].id
          PROVE  ~ Outstanding(d, id)'
      BY <1>5, <1>8, <1>9, <3>1, <3>2, <3>3 DEF PendingAt
    <3>4. ASSUME NEW i \in DOMAIN evts', evts'[i].kind = "writeOk"
          PROVE  ~ Outstanding(d, evts[i].id)'
      BY <3>3, <3>4 DEF Outstanding
    <3> QED  BY <1>1, <1>9, <3>1, <3>4 DEF PendingAt
  <2>6. shardUp' /\ \A i \in DOMAIN evts' : evts'[i].kind # "writeError"
    BY <1>1, <1>5, <1>8 DEF Pipeline, OutboundInv
  <2>7. d \in 0 .. Len(futures')
    BY <1>1
  <2> QED  BY <2>2, <2>3, <2>4, <2>5, <2>6, <2>7 DEF Pipeline
<1> QED  BY <1>15, <1>16, <1>17, <1>18, <1>19 DEF OutboundInv

\* A step of the flush loop keeps the invariant.
LEMMA FlushOut ==
    ASSUME TypeOK, TypeOK', OutboundInv, LoopOpen, Flush
    PROVE  OutboundInv'
<1>1. r \in ReactorState /\ <<>> \in Seq(Evt)
  BY DEF TypeOK
<1>2. ~r.closed
  <2>1. Flushing
    BY DEF Flush, FlushRefused, FlushBytes, FlushAgain, FlushFails, FlushShutdown,
           FlushShutdownFails, FlushYields, Queued, Drained
  <2> QED  BY <2>1 DEF Flushing, LoopOpen
<1>3. CASE FlushRefused
  <2>1. /\ UNCHANGED <<futures, pendingWriteBytes, closed, writeFinished, wire, txShut>>
        /\ UNCHANGED <<r, cmds, evts, shardUp>>
    BY <1>3 DEF FlushRefused, mainVars, writeVars, flagVars, socketVars
  <2>2. WentOn(r, <<>>)
    BY <2>1 DEF WentOn
  <2> QED  BY <2>1, <2>2, ReactorKeeps
<1>4. CASE FlushAgain \/ FlushYields
  <2>1. UNCHANGED <<futures, pendingWriteBytes, closed, writeFinished, wire, txShut, cmds, shardUp>>
    BY <1>4 DEF FlushAgain, FlushYields, mainVars, writeVars, flagVars, socketVars
  <2>2. UpdateInterest(r, <<>>)
    BY <1>4 DEF FlushAgain, FlushYields
  <2>3. WentOn(r, <<>>)
    BY <1>1, <2>2, UpdateWentOn
  <2> QED  BY <2>1, <2>3, ReactorKeeps
<1>5. CASE FlushFails \/ FlushShutdownFails
  <2>1. UNCHANGED <<futures, pendingWriteBytes, closed, writeFinished, wire, txShut, cmds, shardUp>>
    BY <1>5 DEF FlushFails, FlushShutdownFails, mainVars, writeVars, flagVars, socketVars
  <2>2. PICK id \in Nat : FailReactorState(r, <<ToMain("writeError", id)>>)
    <3>1. CASE FlushFails
      <4>1. r.writes # <<>> /\ r.writes \in Seq(QueuedWrite)
        BY <1>1, <3>1 DEF FlushFails, Queued, ReactorState
      <4>2. Head(r.writes) \in QueuedWrite
        BY <4>1
      <4>3. Head(r.writes).id \in Nat
        BY <4>2 DEF QueuedWrite
      <4> QED  BY <3>1, <4>3 DEF FlushFails
    <3>2. CASE FlushShutdownFails
      BY <1>1, <3>2 DEF FlushShutdownFails, ReactorState
    <3> QED  BY <1>5, <3>1, <3>2
  <2> DEFINE m == ToMain("writeError", id)
  <2>3. m \in Evt /\ m.kind = "writeError"
    BY ToMainType DEF EvtKind, ToMain, Message
  <2> HIDE DEF m
  <2>4. <<m>> \in Seq(Evt) /\ \A j \in DOMAIN <<m>> : <<m>>[j] = m
    BY <2>3
  <2>5. WentOn(r, <<m>>) /\ r'.closed
    BY <1>1, <2>2, <2>4, FailWentOn DEF m
  <2> QED  BY <2>1, <2>3, <2>4, <2>5, ReactorKeeps
<1> QED  BY <1>2, <1>3, <1>4, <1>5, BytesOut, ShutOut DEF Flush

\* So does a step of the read loop, which has nothing to do with writes.
LEMMA ReadOut ==
    ASSUME TypeOK, TypeOK', OutboundInv, Read
    PROVE  OutboundInv'
<1>1. r \in ReactorState /\ <<>> \in Seq(Evt)
  BY DEF TypeOK
<1>2. UNCHANGED <<futures, pendingWriteBytes, closed, writeFinished, wire, txShut, cmds, shardUp>>
  BY DEF Read, ReadRefused, ReadYields, ReadData, ReadAgain, ReadEof, ReadFails,
         mainVars, writeVars, flagVars, socketVars
<1>3. CASE ReadRefused \/ ReadAgain
  <2>1. r' = r /\ evts' = evts
    BY <1>3 DEF ReadRefused, ReadAgain
  <2>2. WentOn(r, <<>>)
    BY <2>1 DEF WentOn
  <2> QED  BY <1>2, <2>2, ReactorKeeps
<1>4. CASE ReadYields
  <2>1. UpdateInterest(r, <<>>)
    BY <1>4 DEF ReadYields
  <2>2. WentOn(r, <<>>)
    BY <1>1, <2>1, UpdateWentOn
  <2> QED  BY <1>2, <2>2, ReactorKeeps
<1>5. ASSUME NEW m \in Evt, m.kind # "writeOk", m.kind # "writeError",
             NEW s \in ReactorState, s.writes = r.writes, s.closingWrite = r.closingWrite,
             s.shutdownWriteId = r.shutdownWriteId, s.writeClosed = r.writeClosed,
             s.closed = r.closed, WentOn(s, <<m>>)
      PROVE  OutboundInv'
  <2>1. \A j \in DOMAIN <<m>> : <<m>>[j] = m
    OBVIOUS
  <2> QED  BY <1>2, <1>5, <2>1, ReactorKeeps
<1>6. CASE ReadData
  <2>1. PICK n \in 1 .. ReadChunk :
            Reply([r EXCEPT !.pendingInbound = @ + n], <<Message("data", 0, rd, rd + n)>>)
    BY <1>6 DEF ReadData
  <2> DEFINE m == Message("data", 0, rd, rd + n)
             s == [r EXCEPT !.pendingInbound = @ + n]
  <2>2. n \in Nat /\ rd \in Nat
    BY SizesAssumption DEF TypeOK
  <2>3. m \in Evt /\ m.kind = "data"
    BY <2>2, MessageType DEF EvtKind, Message
  <2>4. /\ s \in ReactorState /\ s.writes = r.writes /\ s.closingWrite = r.closingWrite
        /\ s.shutdownWriteId = r.shutdownWriteId /\ s.writeClosed = r.writeClosed
        /\ s.closed = r.closed
    <3>1. r.pendingInbound + n \in Nat
      BY <1>1, <2>2 DEF ReactorState
    <3> QED  BY <1>1, <3>1 DEF ReactorState
  <2> HIDE DEF m, s
  <2>5. <<m>> \in Seq(Evt)
    BY <2>3
  <2>6. WentOn(s, <<m>>)
    BY <2>1, <2>5, ReplyPosts DEF WentOn, m, s
  <2> QED  BY <1>5, <2>3, <2>4, <2>6
<1>7. CASE ReadEof
  <2> DEFINE m == ToMain("eof", 0)
             s == [r EXCEPT !.readClosed = TRUE, !.readEnabled = FALSE]
  <2>1. CloseReactorState(s, <<m>>) \/ UpdateInterest(s, <<m>>) \/ UpdateFails(s, <<m>>)
    BY <1>7 DEF ReadEof
  <2>2. m \in Evt /\ m.kind = "eof"
    BY ToMainType DEF EvtKind, ToMain, Message
  <2>3. /\ s \in ReactorState /\ s.writes = r.writes /\ s.closingWrite = r.closingWrite
        /\ s.shutdownWriteId = r.shutdownWriteId /\ s.writeClosed = r.writeClosed
        /\ s.closed = r.closed
    BY <1>1 DEF ReactorState
  <2> HIDE DEF m, s
  <2>4. <<m>> \in Seq(Evt)
    BY <2>2
  <2>5. WentOn(s, <<m>>)
    BY <2>1, <2>3, <2>4, CloseWentOn, UpdateWentOn
  <2> QED  BY <1>5, <2>2, <2>3, <2>5
<1>8. CASE ReadFails
  <2> DEFINE m == ToMain("readError", 0)
  <2>1. FailReactorState(r, <<m>>)
    BY <1>8 DEF ReadFails
  <2>2. m \in Evt /\ m.kind = "readError"
    BY ToMainType DEF EvtKind, ToMain, Message
  <2> HIDE DEF m
  <2>3. <<m>> \in Seq(Evt)
    BY <2>2
  <2>4. WentOn(r, <<m>>)
    BY <1>1, <2>1, <2>3, FailWentOn
  <2> QED  BY <1>1, <1>5, <2>2, <2>4
<1> QED  BY <1>3, <1>4, <1>6, <1>7, <1>8 DEF Read

\* So do the turns of the reactor's loop; a failed wait and an idle exit leave no open transport.
LEMMA LoopOut ==
    ASSUME TypeOK, TypeOK', OutboundInv, Wait \/ WaitFails \/ IdleExit \/ Dispatch
    PROVE  OutboundInv'
<1>1. r \in ReactorState /\ <<>> \in Seq(Evt)
  BY DEF TypeOK
<1>2. UNCHANGED <<futures, pendingWriteBytes, closed, writeFinished, wire, txShut, cmds>>
  BY DEF Wait, WaitFails, IdleExit, Dispatch, mainVars, writeVars, flagVars, socketVars
<1>3. WentOn(r, <<>>) /\ (shardUp' = shardUp \/ r'.closed)
  <2>1. CASE r' = r /\ evts' = evts /\ (shardUp' = shardUp \/ r.closed)
    BY <2>1 DEF WentOn
  <2>2. CASE WaitFails /\ ~r.closed
    <3>1. FailReactorState(r, <<>>)
      BY <2>2 DEF WaitFails
    <3> QED  BY <1>1, <3>1, FailWentOn
  <2>3. CASE WaitFails /\ r.closed
    BY <2>1, <2>3 DEF WaitFails
  <2>4. CASE Wait \/ IdleExit \/ Dispatch
    BY <2>1, <2>4 DEF Wait, IdleExit, Dispatch, reactorVars
  <2> QED  BY <2>2, <2>3, <2>4
<1> QED  BY <1>2, <1>3, ReactorKeeps

\* The peer, and a step that changes nothing, change none of it.
LEMMA OtherOut ==
    ASSUME TypeOK, TypeOK', OutboundInv, Peer \/ UNCHANGED vars
    PROVE  OutboundInv'
<1>1. /\ UNCHANGED <<futures, pendingWriteBytes, closed, writeFinished, wire, txShut>>
      /\ UNCHANGED <<r, cmds, evts, shardUp>>
  BY DEF Peer, PeerSends, PeerConsumes, PeerEnds, vars, mainVars, writeVars, flagVars,
         reactorVars, socketVars
<1>2. WentOn(r, <<>>)
  BY <1>1 DEF WentOn
<1> QED  BY <1>1, <1>2, ReactorKeeps

-----------------------------------------------------------------------------
(* The theorems.                                                           *)

\* Nothing is written, queued or accepted at first.
LEMMA OutboundInit == ASSUME TypeOK, Init PROVE OutboundInv
<1> USE DEF Init, Registered
<1>1. EndIsLast /\ EndIsMarked
  BY DEF EndIsLast, EndIsMarked
<1>2. WireOrdered /\ OkIsTrue /\ ShutIsLast
  BY DEF WireOrdered, OkIsTrue, ShutIsLast
<1>3. Accounted
  <2>1. SumTo(Unresolved, 0) = 0
    BY SumZero
  <2>2. Len(futures) = 0
    OBVIOUS
  <2> QED  BY <2>1, <2>2, SizesAssumption DEF Accounted
<1>4. Pipeline
  <2>1. QueueAt(0) /\ PendingAt(0)
    BY DEF QueueAt, PendingAt
  <2>2. CommandsAt(0)
    BY NumberedEmpty DEF CommandsAt, Ending
  <2>3. WireAt(0)
    BY BytesStep DEF WireAt
  <2>4. 0 \in 0 .. Len(futures)
    OBVIOUS
  <2> QED  BY <2>1, <2>2, <2>3, <2>4 DEF Pipeline
<1> QED  BY <1>1, <1>2, <1>3, <1>4 DEF OutboundInv

\* The invariant of the outbound half.
THEOREM OutboundInvariant == Spec => []OutboundInv
<1>1. TypeOK /\ TypeOK' /\ InboundInv /\ OutboundInv /\ [Next]_vars => OutboundInv'
  BY ApplicationOut, EventOut, CommandOut, FlushOut, ReadOut, LoopOut, OtherOut
     DEF Next, Reactor, InboundInv
<1> QED  BY <1>1, OutboundInit, TypeCorrect, InboundInvariant, PTL DEF Spec

\* The fd gets the bytes of the accepted writes in the order of the calls, each once.
THEOREM WiredInOrder == Spec => []WireInOrder
<1>1. OutboundInv => WireInOrder
  BY DEF OutboundInv, WireOrdered, WireInOrder
<1> QED  BY <1>1, OutboundInvariant, PTL

\* A write that completed normally has all its bytes on the fd.
THEOREM OkMeansWritten == Spec => []WriteOkMeansWritten
<1>1. OutboundInv => WriteOkMeansWritten
  BY DEF OutboundInv, OkIsTrue, Written, WriteOkMeansWritten
<1> QED  BY <1>1, OutboundInvariant, PTL

\* SHUT_WR comes after every accepted byte, and the future of closeWrite completes after it.
THEOREM ShutAfterWrites == Spec => []ShutdownAfterWrites
<1>1. OutboundInv => ShutdownAfterWrites
  BY DEF OutboundInv, OkIsTrue, Written, ShutIsLast, ShutdownAfterWrites
<1> QED  BY <1>1, OutboundInvariant, PTL

\* What waits for the fd is counted against maxPendingWriteBytes, and stays within it.
THEOREM PendingBounded == Spec => []OutboundBounded
<1>1. ASSUME TypeOK, OutboundInv, ~closed, ~r.closed PROVE Waiting \subseteq PendingIds
  <2>1. PICK d \in 0 .. Len(futures) : QueueAt(d) /\ CommandsAt(d) /\ PendingAt(d)
    BY <1>1 DEF OutboundInv, Pipeline
  <2>2. /\ d \in Nat /\ Len(r.writes) \in Nat /\ Len(futures) \in Nat
        /\ d + Len(r.writes) <= Len(futures)
    BY <1>1, <2>1, WithinFutures
  <2>3. r.writes \in Seq(QueuedWrite) /\ futures \in Seq(Future) /\ cmds \in Seq(Cmd)
    BY <1>1 DEF TypeOK, ReactorState
  <2>4. ASSUME NEW id \in d + 1 .. Len(futures), ~(r.writeClosed /\ id = r.shutdownWriteId)
        PROVE  id \in PendingIds
    <3>1. id \in DOMAIN futures /\ id > d
      BY <2>2, <2>3
    <3> QED  BY <1>1, <2>1, <2>4, <3>1 DEF PendingAt, Outstanding, PendingIds
  <2>5. ASSUME NEW i \in DOMAIN r.writes PROVE r.writes[i].id \in PendingIds
    <3>1. i \in 1 .. Len(r.writes) /\ r.writes[i].id = d + i
      BY <2>1, <2>3 DEF QueueAt
    <3>2. d + i \in d + 1 .. Len(futures)
      BY <2>2, <3>1
    <3>3. ~(r.writeClosed /\ d + i = r.shutdownWriteId)
      <4>1. r.writeClosed => r.shutdownWriteId = d + Len(r.writes) + 1
        BY <1>1, <2>1 DEF OutboundInv, EndIsMarked, QueueAt
      <4> QED  BY <2>2, <3>1, <4>1
    <3> QED  BY <2>4, <3>1, <3>2, <3>3
  <2>6. ASSUME NEW i \in DOMAIN cmds, cmds[i].kind = "write" PROVE cmds[i].id \in PendingIds
    <3> DEFINE from == d + Len(r.writes) + Ending
    <3>1. Ending \in {0, 1} /\ (r.closingWrite => Ending = 1)
      BY DEF Ending
    <3>2. from \in Nat /\ Numbered(cmds, from, Len(futures)) /\ d + Len(r.writes) <= from
      BY <2>1, <2>2, <3>1 DEF CommandsAt
    <3>3. r.closingWrite => from = d + Len(r.writes) + 1
      BY <3>1
    <3> HIDE DEF from
    <3>4. cmds[i].id \in from + 1 .. Len(futures)
      BY <2>2, <2>3, <2>6, <3>2, NumberedIds DEF Carriers
    <3>5. cmds[i].id \in d + 1 .. Len(futures)
      BY <2>2, <3>2, <3>4
    <3>6. ~(r.writeClosed /\ cmds[i].id = r.shutdownWriteId)
      <4>1. r.writeClosed => r.closingWrite /\ r.shutdownWriteId = d + Len(r.writes) + 1
        BY <1>1, <2>1 DEF OutboundInv, EndIsMarked, QueueAt
      <4> QED  BY <3>2, <3>3, <3>4, <4>1
    <3> QED  BY <2>4, <3>5, <3>6
  <2> QED  BY <2>5, <2>6 DEF Waiting
<1>2. TypeOK /\ OutboundInv => OutboundBounded
  BY <1>1 DEF OutboundBounded, OutboundInv, Accounted
<1> QED  BY <1>2, TypeCorrect, OutboundInvariant, PTL
=============================================================================
