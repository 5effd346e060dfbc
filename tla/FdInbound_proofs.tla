--------------------------- MODULE FdInbound_proofs ---------------------------
(***************************************************************************)
(* The inbound half of FdTransport, for every value of its constants: the  *)
(* bound on undelivered bytes and the completeness of an end of file.      *)
(*                                                                         *)
(* Neither is inductive.  Both rest on how the two queues of messages tile *)
(* the stream: every byte read is in exactly one place between the reactor *)
(* and the listener (Linked), and a transport that stopped reading has told*)
(* the reactor so at a point of the stream the application has seen (Quiet)*)
(***************************************************************************)
EXTENDS FdTransport_proofs, SequenceTheorems

-----------------------------------------------------------------------------
(* The inductive invariant.                                                *)

\* The messages q, in order, tile the stream from byte `from' to byte `to'; those
\* of the kind `carrier' are the ones that cover some of it.
Linked(q, carrier, from, to) ==
    /\ from <= to
    /\ \A i \in 1 .. Len(q) :
         /\ from <= q[i].lo /\ q[i].hi <= to
         /\ q[i].kind = carrier <=> q[i].lo < q[i].hi
    /\ \A i, j \in 1 .. Len(q) : i < j => q[i].hi <= q[j].lo
    /\ \A i \in 1 .. Len(q) : i + 1 <= Len(q) => q[i].hi = q[i + 1].lo
    /\ Len(q) = 0 => from = to
    /\ Len(q) > 0 => q[1].lo = from /\ q[Len(q)].hi = to

\* Bytes read and not yet handled by the main isolate are in the event port, until
\* it is closed.
EventsLinked == IF closed THEN evts = <<>> ELSE Linked(evts, "data", received, rd)

\* Bytes the reactor counts as pending are in the event port, or handled and
\* their acknowledgement is in the command queue.
CommandsLinked ==
    ~closed /\ ~r.closed =>
        Linked(cmds, "inboundConsumed", rd - r.pendingInbound, received)

\* A paused or still buffering input never has reads enabled.
PausedOff == ~closed /\ (sub = "paused" \/ delivered < received) => ~readEnabled

NoEnable(q, first) == \A i \in 1 .. Len(q) : first <= i => q[i].kind # "enableRead"

\* The reactor, whose flag is `enabled', has stopped reading for good, or will
\* before it learns of a byte beyond d.
Quieted(enabled, q, d) ==
    \/ ~enabled /\ NoEnable(q, 1)
    \/ \E i \in 1 .. Len(q) :
         q[i].kind = "disableRead" /\ q[i].lo <= d /\ NoEnable(q, i + 1)

Quiet == ~closed /\ ~r.closed /\ ~readEnabled => Quieted(r.readEnabled, cmds, delivered)

\* The loops only run for an open transport, and a stopped shard has closed it.
LoopOpen == (r.closed => agenda = {}) /\ (~shardUp => r.closed)

\* An end of file was seen at the end of the stream, and reported after all of it.
EofReported(q, finished, at) ==
    /\ finished => r.readClosed /\ at = rd
    /\ \A i \in 1 .. Len(q) : q[i].kind = "eof" => r.readClosed /\ q[i].hi = rd

EofSeen ==
    /\ r.readClosed => peerFin /\ rd = peerSent
    /\ ~closed => EofReported(evts, readFinished, received)

InboundInv ==
    /\ TypeOK
    /\ delivered <= received
    /\ r.pendingInbound <= MaxInbound
    /\ EventsLinked /\ CommandsLinked /\ PausedOff /\ Quiet /\ LoopOpen /\ EofSeen
    /\ UndeliveredBounded

-----------------------------------------------------------------------------
(* The queues.                                                             *)

\* Messages have the fields of their channel.
LEMMA MessageFields ==
    /\ \A m \in Cmd : /\ m.kind \in CmdKind /\ m.lo \in Nat /\ m.hi \in Nat
                      /\ m.lo <= m.hi
    /\ \A m \in Evt : /\ m.kind \in EvtKind /\ m.lo \in Nat /\ m.hi \in Nat
                      /\ m.lo <= m.hi
  BY DEF Cmd, Evt

\* A message sent at the end of the tiled interval extends it.
LEMMA LinkedAppend ==
    ASSUME NEW S \in {Cmd, Evt}, NEW q \in Seq(S), NEW m \in S, NEW carrier,
           NEW from \in Int, NEW to \in Int, Linked(q, carrier, from, to),
           m.lo = to, m.kind = carrier <=> m.lo < m.hi
    PROVE  Linked(Append(q, m), carrier, from, m.hi)
<1>. DEFINE p == Append(q, m)
<1>1. /\ p \in Seq(S) /\ Len(p) = Len(q) + 1 /\ Len(q) \in Nat
      /\ \A i \in 1 .. Len(q) : p[i] = q[i]
      /\ p[Len(q) + 1] = m
  BY AppendProperties
<1>2. \A i \in 1 .. Len(q) : q[i].lo \in Nat /\ q[i].hi \in Nat /\ q[i].lo <= q[i].hi
  BY MessageFields, ElementOfSeq
<1>3. m.lo \in Nat /\ m.hi \in Nat /\ m.lo <= m.hi
  BY MessageFields
<1>. HIDE DEF p
<1>4. from <= m.hi
  BY <1>3 DEF Linked
<1>5. \A i \in 1 .. Len(p) : /\ from <= p[i].lo /\ p[i].hi <= m.hi
                             /\ p[i].kind = carrier <=> p[i].lo < p[i].hi
  BY <1>1, <1>2, <1>3, SMTT(30) DEF Linked
<1>6. \A i, j \in 1 .. Len(p) : i < j => p[i].hi <= p[j].lo
  <2> SUFFICES ASSUME NEW i \in 1 .. Len(p), NEW j \in 1 .. Len(p), i < j
               PROVE  p[i].hi <= p[j].lo
    OBVIOUS
  <2>1. i \in 1 .. Len(q) /\ p[i] = q[i] /\ q[i].hi <= to
    BY <1>1 DEF Linked
  <2>2. CASE j \in 1 .. Len(q)
    <3>1. p[j] = q[j]
      BY <1>1, <2>2
    <3>. QED
      BY <2>1, <2>2, <3>1 DEF Linked
  <2>3. CASE j = Len(q) + 1
    BY <1>1, <2>1, <2>3
  <2>. QED
    BY <1>1, <2>2, <2>3
<1>7. \A i \in 1 .. Len(p) : i + 1 <= Len(p) => p[i].hi = p[i + 1].lo
  <2> SUFFICES ASSUME NEW i \in 1 .. Len(p), i + 1 <= Len(p) PROVE p[i].hi = p[i + 1].lo
    OBVIOUS
  <2>1. CASE i + 1 <= Len(q)
    BY <1>1, <2>1, SMTT(60) DEF Linked
  <2>2. CASE i = Len(q)
    BY <1>1, <2>2 DEF Linked
  <2>. QED
    BY <1>1, <2>1, <2>2
<1>8. Len(p) > 0 /\ p[1].lo = from /\ p[Len(p)].hi = m.hi
  BY <1>1 DEF Linked
<1>. QED
  BY <1>1, <1>4, <1>5, <1>6, <1>7, <1>8, SMTT(30) DEF Linked, p

\* Taking the head off leaves the rest of the interval.
LEMMA LinkedTail ==
    ASSUME NEW S \in {Cmd, Evt}, NEW q \in Seq(S), q # <<>>, NEW carrier,
           NEW from \in Int, NEW to \in Int, Linked(q, carrier, from, to)
    PROVE  /\ Head(q).lo = from /\ Head(q).hi <= to
           /\ Head(q).kind = carrier <=> Head(q).lo < Head(q).hi
           /\ Linked(Tail(q), carrier, Head(q).hi, to)
<1>. DEFINE p == Tail(q)
<1>1. /\ p \in Seq(S) /\ Len(p) = Len(q) - 1 /\ Len(q) \in Nat \ {0}
      /\ \A i \in 1 .. Len(p) : p[i] = q[i + 1]
      /\ Head(q) = q[1]
  BY HeadTailProperties, EmptySeq
<1>2. \A i \in 1 .. Len(q) : q[i].lo \in Nat /\ q[i].hi \in Nat /\ q[i].lo <= q[i].hi
  BY MessageFields, ElementOfSeq
<1>. HIDE DEF p
<1>3. /\ Head(q).lo = from /\ Head(q).hi <= to
      /\ Head(q).kind = carrier <=> Head(q).lo < Head(q).hi
  BY <1>1 DEF Linked
<1>4. \A i \in 1 .. Len(p) : /\ Head(q).hi <= p[i].lo /\ p[i].hi <= to
                             /\ p[i].kind = carrier <=> p[i].lo < p[i].hi
  BY <1>1, SMTT(60) DEF Linked
<1>5. \A i, j \in 1 .. Len(p) : i < j => p[i].hi <= p[j].lo
  BY <1>1, SMTT(60) DEF Linked
<1>6. \A i \in 1 .. Len(p) : i + 1 <= Len(p) => p[i].hi = p[i + 1].lo
  BY <1>1, SMTT(30) DEF Linked
<1>7. /\ Len(p) = 0 => Head(q).hi = to
      /\ Len(p) > 0 => p[1].lo = Head(q).hi /\ p[Len(p)].hi = to
  BY <1>1 DEF Linked
<1>. QED
  BY <1>3, <1>4, <1>5, <1>6, <1>7 DEF Linked, p

\* Events that carry no bytes, stamped with the position of the reactor.
Stamped(out, readClosed) ==
    \A i \in 1 .. Len(out) :
        /\ out[i].lo = rd /\ out[i].hi = rd /\ out[i].kind # "data"
        /\ out[i].kind = "eof" => readClosed

\* They may follow what was read so far.
LEMMA LinkedConcat ==
    ASSUME NEW q \in Seq(Evt), NEW out \in Seq(Evt), NEW readClosed,
           NEW from \in Int, rd \in Nat, Linked(q, "data", from, rd),
           Stamped(out, readClosed)
    PROVE  Linked(q \o out, "data", from, rd)
<1>. DEFINE p == q \o out
<1>1. /\ p \in Seq(Evt) /\ Len(p) = Len(q) + Len(out)
      /\ Len(q) \in Nat /\ Len(out) \in Nat
      /\ \A i \in 1 .. Len(q) : p[i] = q[i]
      /\ \A i \in Len(q) + 1 .. Len(p) : /\ p[i] = out[i - Len(q)]
                                         /\ i - Len(q) \in 1 .. Len(out)
  BY ConcatProperties
<1>2. \A i \in 1 .. Len(q) : q[i].lo \in Nat /\ q[i].hi \in Nat /\ q[i].lo <= q[i].hi
  BY MessageFields, ElementOfSeq
<1>. HIDE DEF p
<1>3. \A i \in Len(q) + 1 .. Len(p) : p[i].lo = rd /\ p[i].hi = rd /\ p[i].kind # "data"
  BY <1>1, SMTT(30) DEF Stamped
<1>4. \A i \in 1 .. Len(p) : i \in 1 .. Len(q) \/ i \in Len(q) + 1 .. Len(p)
  BY <1>1
<1>5. \A i \in 1 .. Len(p) : /\ from <= p[i].lo /\ p[i].hi <= rd
                             /\ p[i].kind = "data" <=> p[i].lo < p[i].hi
  BY <1>1, <1>3, <1>4, SMTT(60) DEF Linked
<1>6. \A i, j \in 1 .. Len(p) : i < j => p[i].hi <= p[j].lo
  <2> SUFFICES ASSUME NEW i \in 1 .. Len(p), NEW j \in 1 .. Len(p), i < j
               PROVE  p[i].hi <= p[j].lo
    OBVIOUS
  <2>1. CASE j \in 1 .. Len(q)
    <3>1. i \in 1 .. Len(q) /\ p[i] = q[i] /\ p[j] = q[j]
      BY <1>1, <2>1
    <3>. QED
      BY <2>1, <3>1 DEF Linked
  <2>2. CASE j \in Len(q) + 1 .. Len(p)
    BY <1>3, <1>5, <2>2
  <2>. QED
    BY <1>4, <2>1, <2>2
<1>7. \A i \in 1 .. Len(p) : i + 1 <= Len(p) => p[i].hi = p[i + 1].lo
  <2> SUFFICES ASSUME NEW i \in 1 .. Len(p), i + 1 <= Len(p) PROVE p[i].hi = p[i + 1].lo
    OBVIOUS
  <2>1. CASE i + 1 <= Len(q)
    <3>1. i \in 1 .. Len(q) /\ i + 1 \in 1 .. Len(q)
      BY <1>1, <2>1
    <3>2. p[i] = q[i] /\ p[i + 1] = q[i + 1]
      BY <1>1, <3>1
    <3>. QED
      BY <2>1, <3>1, <3>2 DEF Linked
  <2>2. CASE i = Len(q)
    <3>1. i \in 1 .. Len(q) /\ i + 1 \in Len(q) + 1 .. Len(p)
      BY <1>1, <2>2
    <3>2. p[i] = q[Len(q)] /\ p[i + 1].lo = rd
      BY <1>1, <1>3, <2>2, <3>1
    <3>. QED
      BY <1>1, <2>2, <3>1, <3>2 DEF Linked
  <2>3. CASE i > Len(q)
    <3>1. i \in Len(q) + 1 .. Len(p) /\ i + 1 \in Len(q) + 1 .. Len(p)
      BY <1>1, <2>3
    <3>. QED
      BY <1>3, <3>1
  <2>. QED
    BY <1>1, <2>1, <2>2, <2>3
<1>8. Len(p) = 0 => from = rd
  BY <1>1 DEF Linked
<1>9. Len(p) > 0 => p[1].lo = from /\ p[Len(p)].hi = rd
  <2>1. CASE Len(out) = 0
    BY <1>1, <2>1 DEF Linked
  <2>2. CASE Len(out) > 0 /\ Len(q) = 0
    BY <1>1, <1>3, <2>2 DEF Linked
  <2>3. CASE Len(out) > 0 /\ Len(q) > 0
    BY <1>1, <1>3, <2>3, SMTT(60) DEF Linked
  <2>. QED
    BY <1>1, <2>1, <2>2, <2>3
<1>. QED
  BY <1>5, <1>6, <1>7, <1>8, <1>9 DEF Linked, p

\* A command other than enableRead leaves a quieted reactor quieted,
LEMMA QuietedAppend ==
    ASSUME NEW enabled \in BOOLEAN, NEW q \in Seq(Cmd), NEW m \in Cmd, NEW d \in Nat,
           Quieted(enabled, q, d), m.kind # "enableRead"
    PROVE  Quieted(enabled, Append(q, m), d)
<1>. DEFINE p == Append(q, m)
<1>1. /\ p \in Seq(Cmd) /\ Len(p) = Len(q) + 1 /\ Len(q) \in Nat
      /\ \A i \in 1 .. Len(q) : p[i] = q[i]
      /\ p[Len(q) + 1] = m
  BY AppendProperties
<1>. HIDE DEF p
<1>2. ASSUME NEW first \in Nat, NoEnable(q, first) PROVE NoEnable(p, first)
  BY <1>1, <1>2 DEF NoEnable
<1>3. CASE ~enabled /\ NoEnable(q, 1)
  BY <1>2, <1>3 DEF Quieted, p
<1>4. CASE ~(~enabled /\ NoEnable(q, 1))
  <2>1. PICK i \in 1 .. Len(q) :
          q[i].kind = "disableRead" /\ q[i].lo <= d /\ NoEnable(q, i + 1)
    BY <1>4 DEF Quieted
  <2>2. i \in 1 .. Len(p) /\ p[i] = q[i] /\ i + 1 \in Nat
    BY <1>1
  <2>3. NoEnable(p, i + 1)
    BY <1>2, <2>1, <2>2
  <2>. QED
    BY <2>1, <2>2, <2>3 DEF Quieted, p
<1>. QED
  BY <1>3, <1>4

\* and a disableRead sent where the application has seen every byte makes one.
LEMMA QuietedDisable ==
    ASSUME NEW enabled \in BOOLEAN, NEW q \in Seq(Cmd), NEW m \in Cmd, NEW d \in Nat,
           m.kind = "disableRead", m.lo <= d
    PROVE  Quieted(enabled, Append(q, m), d)
<1>. DEFINE p == Append(q, m)
<1>1. /\ Len(p) = Len(q) + 1 /\ Len(q) \in Nat /\ p[Len(q) + 1] = m
  BY AppendProperties
<1>. HIDE DEF p
<1>2. Len(q) + 1 \in 1 .. Len(p) /\ NoEnable(p, Len(q) + 2)
  BY <1>1 DEF NoEnable
<1>. QED
  BY <1>1, <1>2 DEF Quieted, p

\* Processing a command keeps it quieted, unless that was its disableRead.
LEMMA QuietedTail ==
    ASSUME NEW enabled \in BOOLEAN, NEW q \in Seq(Cmd), NEW d \in Nat, q # <<>>,
           Quieted(enabled, q, d)
    PROVE  /\ Head(q).kind # "disableRead" => Quieted(enabled, Tail(q), d)
           /\ Quieted(FALSE, Tail(q), d)
           /\ Head(q).kind = "enableRead" => Quieted(TRUE, Tail(q), d)
<1>. DEFINE p == Tail(q)
<1>1. /\ p \in Seq(Cmd) /\ Len(p) = Len(q) - 1 /\ Len(q) \in Nat \ {0}
      /\ \A i \in 1 .. Len(p) : p[i] = q[i + 1]
      /\ Head(q) = q[1]
  BY HeadTailProperties, EmptySeq
<1>. HIDE DEF p
<1>2. ASSUME NEW first \in Nat, NoEnable(q, first + 1) PROVE NoEnable(p, first)
  BY <1>1, <1>2 DEF NoEnable
<1>3. CASE ~enabled /\ NoEnable(q, 1)
  <2>1. Head(q).kind # "enableRead"
    BY <1>1, <1>3 DEF NoEnable
  <2>2. NoEnable(p, 1)
    BY <1>1, <1>3, SMTT(30) DEF NoEnable
  <2>. QED
    BY <1>3, <2>1, <2>2 DEF Quieted, p
<1>4. CASE ~(~enabled /\ NoEnable(q, 1))
  <2>1. PICK i \in 1 .. Len(q) :
          q[i].kind = "disableRead" /\ q[i].lo <= d /\ NoEnable(q, i + 1)
    BY <1>4 DEF Quieted
  <2>2. CASE i = 1
    BY <1>1, <1>2, <2>1, <2>2 DEF Quieted, p
  <2>3. CASE i # 1
    <3>1. i - 1 \in 1 .. Len(p) /\ p[i - 1] = q[i] /\ i \in Nat
      BY <1>1, <2>3
    <3>2. NoEnable(p, i)
      BY <1>2, <2>1, <3>1
    <3>3. p[i - 1].kind = "disableRead" /\ p[i - 1].lo <= d /\ NoEnable(p, (i - 1) + 1)
      BY <2>1, <3>1, <3>2
    <3>. QED
      BY <3>1, <3>3 DEF Quieted, p
  <2>. QED
    BY <2>2, <2>3
<1>. QED
  BY <1>3, <1>4

\* It stays quieted when the application sees more of the stream.
LEMMA QuietedLater ==
    ASSUME NEW enabled \in BOOLEAN, NEW q \in Seq(Cmd), NEW d \in Nat, NEW e \in Nat,
           d <= e, Quieted(enabled, q, d)
    PROVE  Quieted(enabled, q, e)
<1>1. \A i \in 1 .. Len(q) : q[i].lo \in Nat
  BY MessageFields, ElementOfSeq
<1>. QED
  BY <1>1 DEF Quieted

-----------------------------------------------------------------------------
(* What the reactor answers.                                               *)

\* The reactor goes on with the flags of s, and tells the main isolate about it
\* without handing over bytes.
Answers(s) ==
    /\ r'.readEnabled = s.readEnabled /\ r'.readClosed = s.readClosed
    /\ r'.pendingInbound = s.pendingInbound
    /\ s.closed => r'.closed
    /\ closed => evts' = evts
    /\ ~closed => \E out \in Seq(Evt) : evts' = evts \o out /\ Stamped(out, s.readClosed)

\* Stamped events can be appended to one another.
LEMMA StampedType ==
    ASSUME TypeOK, NEW out \in Seq(Evt), NEW kind \in EvtKind \ {"data", "eof"},
           NEW id \in Nat, NEW readClosed, Stamped(out, readClosed)
    PROVE  /\ Append(out, ToMain(kind, id)) \in Seq(Evt)
           /\ Stamped(Append(out, ToMain(kind, id)), readClosed)
<1>. DEFINE m == ToMain(kind, id)
            p == Append(out, m)
<1>1. m \in Evt /\ m.lo = rd /\ m.hi = rd /\ m.kind = kind
  BY ToMainType DEF ToMain, Message
<1>2. /\ p \in Seq(Evt) /\ Len(p) = Len(out) + 1 /\ Len(out) \in Nat
      /\ \A i \in 1 .. Len(out) : p[i] = out[i]
      /\ p[Len(out) + 1] = m
  BY <1>1, AppendProperties
<1>. HIDE DEF m, p
<1>3. Stamped(p, readClosed)
  BY <1>1, <1>2 DEF Stamped
<1>. QED
  BY <1>2, <1>3 DEF m, p

\* A plain reply answers s.
LEMMA ReplyAnswers ==
    ASSUME TypeOK, NEW s \in ReactorState, NEW out \in Seq(Evt), NEW t,
           Stamped(out, s.readClosed), Reply(t, out),
           t.readEnabled = s.readEnabled, t.readClosed = s.readClosed,
           t.pendingInbound = s.pendingInbound, s.closed => t.closed
    PROVE  Answers(s)
  BY DEF Reply, Answers

\* So does closing the reactor state,
LEMMA CloseReactorAnswers ==
    ASSUME TypeOK, NEW s \in ReactorState, NEW out \in Seq(Evt),
           Stamped(out, s.readClosed), CloseReactorState(s, out)
    PROVE  Answers(s) /\ r'.closed
<1>1. /\ Append(out, ToMain("closed", 0)) \in Seq(Evt)
      /\ Stamped(Append(out, ToMain("closed", 0)), s.readClosed)
  BY StampedType DEF EvtKind
<1>2. Reply(ClosedState(s), Append(out, ToMain("closed", 0)))
  BY DEF CloseReactorState
<1>3. /\ ClosedState(s).readEnabled = s.readEnabled
      /\ ClosedState(s).readClosed = s.readClosed
      /\ ClosedState(s).pendingInbound = s.pendingInbound
      /\ ClosedState(s).closed
  BY DEF ClosedState, ReactorState
<1>4. Answers(s)
  BY <1>1, <1>2, <1>3, ReplyAnswers
<1>. QED
  BY <1>2, <1>3, <1>4 DEF Reply

\* closing it with an error,
LEMMA FailReactorAnswers ==
    ASSUME TypeOK, NEW s \in ReactorState, NEW out \in Seq(Evt),
           Stamped(out, s.readClosed), FailReactorState(s, out)
    PROVE  Answers(s) /\ r'.closed
<1>. DEFINE errors == WriteErrors(s)
            all == out \o errors
<1>1. s.writes \in Seq(QueuedWrite) /\ Len(s.writes) \in Nat
  BY DEF ReactorState
<1>2. \A i \in 1 .. Len(s.writes) : s.writes[i].id \in Nat
  <2>1. \A i \in 1 .. Len(s.writes) : s.writes[i] \in QueuedWrite
    BY <1>1
  <2>. QED
    BY <2>1 DEF QueuedWrite
<1>3. \A i \in 1 .. Len(s.writes) : ToMain("writeError", s.writes[i].id) \in Evt
  BY <1>2, ToMainType DEF EvtKind
<1>4. errors \in Seq(Evt) /\ Len(errors) = Len(s.writes)
  BY <1>1, <1>3 DEF WriteErrors
<1>5. \A i \in 1 .. Len(errors) : /\ errors[i].lo = rd /\ errors[i].hi = rd
                                  /\ errors[i].kind = "writeError"
  BY <1>1, <1>4 DEF WriteErrors, ToMain, Message
<1>6. /\ all \in Seq(Evt) /\ Len(all) = Len(out) + Len(errors)
      /\ Len(out) \in Nat /\ Len(errors) \in Nat
      /\ \A i \in 1 .. Len(out) : all[i] = out[i]
      /\ \A i \in Len(out) + 1 .. Len(all) : /\ all[i] = errors[i - Len(out)]
                                             /\ i - Len(out) \in 1 .. Len(errors)
  BY <1>4, ConcatProperties, SMTT(30)
<1>7. Stamped(all, s.readClosed)
  <2>. HIDE DEF all, errors
  <2> SUFFICES ASSUME NEW i \in 1 .. Len(all)
               PROVE  /\ all[i].lo = rd /\ all[i].hi = rd /\ all[i].kind # "data"
                      /\ all[i].kind = "eof" => s.readClosed
    BY DEF Stamped
  <2>1. CASE i \in 1 .. Len(out)
    BY <1>6, <2>1 DEF Stamped
  <2>2. CASE i \in Len(out) + 1 .. Len(all)
    BY <1>5, <1>6, <2>2, ZenonT(30)
  <2>. QED
    BY <1>6, <2>1, <2>2
<1>8. CloseReactorState(s, all)
  BY DEF FailReactorState
<1>. QED
  <2>. HIDE DEF all
  <2>. QED
    BY <1>6, <1>7, <1>8, CloseReactorAnswers

\* and recomputing the interest mask.
LEMMA UpdateInterestAnswers ==
    ASSUME TypeOK, NEW s \in ReactorState, NEW out \in Seq(Evt),
           Stamped(out, s.readClosed), UpdateInterest(s, out) \/ UpdateFails(s, out)
    PROVE  Answers(s)
<1>1. CASE Reply([s EXCEPT !.interest = Wanted(s)], out)
  <2>. DEFINE t == [s EXCEPT !.interest = Wanted(s)]
  <2>1. /\ t.readEnabled = s.readEnabled /\ t.readClosed = s.readClosed
        /\ t.pendingInbound = s.pendingInbound /\ t.closed = s.closed
    BY DEF ReactorState
  <2>. HIDE DEF t
  <2>2. Reply(t, out)
    BY <1>1 DEF t
  <2>. QED
    BY <2>1, <2>2, ReplyAnswers
<1>2. CASE UpdateFails(s, out)
  <2>1. /\ Append(out, ToMain("readError", 0)) \in Seq(Evt)
        /\ Stamped(Append(out, ToMain("readError", 0)), s.readClosed)
    BY StampedType DEF EvtKind
  <2>. QED
    BY <1>2, <2>1, FailReactorAnswers DEF UpdateFails
<1>. QED
  BY <1>1, <1>2 DEF UpdateInterest

-----------------------------------------------------------------------------
(* The reactor's steps.                                                    *)

\* An answer of the reactor keeps the invariant when the commands left in the
\* queue agree with the flags it goes on with.
LEMMA AnswersStep ==
    ASSUME InboundInv, TypeOK', NEW s \in ReactorState, Answers(s),
           UNCHANGED <<mainVars, peerVars, rd>>,
           s.pendingInbound <= MaxInbound,
           r.readClosed => s.readClosed,
           s.readClosed => r.readClosed \/ (peerFin /\ rd = peerSent),
           r.closed => r'.closed,
           ~closed /\ ~r'.closed =>
               Linked(cmds', "inboundConsumed", rd - s.pendingInbound, received),
           ~closed /\ ~r'.closed /\ ~readEnabled =>
               Quieted(s.readEnabled, cmds', delivered),
           r'.closed => agenda' = {},
           ~shardUp' => r'.closed
    PROVE  InboundInv'
<1>. USE DEF mainVars, inputVars, flagVars, writeVars, peerVars
<1>1. rd \in Nat /\ received \in Int /\ evts \in Seq(Evt) /\ closed' = closed
  BY DEF InboundInv, TypeOK
<1>2. delivered' <= received' /\ r'.pendingInbound <= MaxInbound
  BY DEF InboundInv, Answers
<1>3. EventsLinked'
  <2> SUFFICES ASSUME ~closed PROVE Linked(evts', "data", received, rd)
    BY DEF EventsLinked, InboundInv, Answers
  <2>1. PICK out \in Seq(Evt) : evts' = evts \o out /\ Stamped(out, s.readClosed)
    BY DEF Answers
  <2>2. Linked(evts, "data", received, rd)
    BY DEF InboundInv, EventsLinked
  <2>. QED
    BY <1>1, <2>1, <2>2, LinkedConcat
<1>4. CommandsLinked'
  BY DEF CommandsLinked, Answers
<1>5. PausedOff'
  BY DEF InboundInv, PausedOff
<1>6. Quiet'
  BY DEF Quiet, Answers
<1>7. LoopOpen'
  BY DEF LoopOpen
<1>8. EofSeen'
  <2>1. r'.readClosed => peerFin' /\ rd' = peerSent'
    BY DEF InboundInv, EofSeen, Answers
  <2>2. ASSUME ~closed PROVE EofReported(evts, readFinished, received)'
    <3>1. EofReported(evts, readFinished, received)
      BY <2>2 DEF InboundInv, EofSeen
    <3>2. PICK out \in Seq(Evt) : evts' = evts \o out /\ Stamped(out, s.readClosed)
      BY <2>2 DEF Answers
    <3>3. readFinished' => r'.readClosed /\ received' = rd'
      BY <3>1 DEF EofReported, Answers
    <3>4. ASSUME NEW i \in 1 .. Len(evts'), evts'[i].kind = "eof"
          PROVE  r'.readClosed /\ evts'[i].hi = rd'
      <4>1. Len(evts') = Len(evts) + Len(out) /\ Len(evts) \in Nat /\ Len(out) \in Nat
        BY <1>1, <3>2, ConcatProperties
      <4>2. evts'[i] = IF i <= Len(evts) THEN evts[i] ELSE out[i - Len(evts)]
        BY <1>1, <3>2, <4>1, ConcatProperties
      <4>3. CASE i <= Len(evts)
        <5>1. i \in 1 .. Len(evts) /\ evts'[i] = evts[i]
          BY <4>1, <4>2, <4>3
        <5>. QED
          BY <3>1, <3>4, <5>1 DEF EofReported, Answers
      <4>4. CASE ~(i <= Len(evts))
        <5>1. i - Len(evts) \in 1 .. Len(out) /\ evts'[i] = out[i - Len(evts)]
          BY <4>1, <4>2, <4>4
        <5>. QED
          BY <3>2, <3>4, <5>1 DEF Stamped, Answers
      <4>. QED
        BY <4>3, <4>4
    <3>. QED
      BY <3>3, <3>4 DEF EofReported
  <2>. QED
    BY <2>1, <2>2 DEF EofSeen
<1>9. UndeliveredBounded'
  BY DEF InboundInv, UndeliveredBounded
<1>. QED
  BY <1>2, <1>3, <1>4, <1>5, <1>6, <1>7, <1>8, <1>9 DEF InboundInv

\* What the invariant says of the first command: it starts where the reactor's
\* account does, and taking it off the queue moves that on.
LEMMA FirstCommand ==
    ASSUME InboundInv, cmds # <<>>, ~r.closed, ~closed
    PROVE  /\ Head(cmds).lo = rd - r.pendingInbound
           /\ Head(cmds).hi \in Nat /\ Head(cmds).hi <= received /\ received <= rd
           /\ Head(cmds).kind # "inboundConsumed" => Head(cmds).lo = Head(cmds).hi
           /\ Head(cmds).lo <= Head(cmds).hi
           /\ Linked(Tail(cmds), "inboundConsumed", Head(cmds).hi, received)
<1>1. /\ cmds \in Seq(Cmd) /\ rd \in Nat /\ received \in Nat
      /\ rd - r.pendingInbound \in Int
  BY DEF InboundInv, TypeOK, ReactorState
<1>2. Linked(cmds, "inboundConsumed", rd - r.pendingInbound, received)
  BY DEF InboundInv, CommandsLinked
<1>3. received <= rd
  BY DEF InboundInv, EventsLinked, Linked
<1>4. Head(cmds) \in Cmd
  BY <1>1, HeadTailType
<1>5. Head(cmds).lo \in Nat /\ Head(cmds).hi \in Nat /\ Head(cmds).lo <= Head(cmds).hi
  BY <1>4, MessageFields
<1>6. /\ Head(cmds).lo = rd - r.pendingInbound /\ Head(cmds).hi <= received
      /\ Head(cmds).kind = "inboundConsumed" <=> Head(cmds).lo < Head(cmds).hi
      /\ Linked(Tail(cmds), "inboundConsumed", Head(cmds).hi, received)
  BY <1>1, <1>2, LinkedTail
<1>. QED
  BY <1>3, <1>5, <1>6

\* A command keeps the invariant.
LEMMA CommandStep == ASSUME InboundInv, TypeOK', ProcessCommand PROVE InboundInv'
<1>1. /\ r \in ReactorState /\ <<>> \in Seq(Evt) /\ cmds \in Seq(Cmd)
      /\ delivered \in Nat /\ r.pendingInbound \in Nat /\ r.readEnabled \in BOOLEAN
      /\ r.pendingInbound <= MaxInbound /\ rd \in Nat /\ evts \in Seq(Evt)
      /\ MaxInbound \in Nat
  BY SizesAssumption DEF InboundInv, TypeOK, ReactorState
<1>2. ASSUME NEW readClosed PROVE Stamped(<<>>, readClosed)
  BY DEF Stamped
<1>3. UNCHANGED <<peerVars, rd>>
  BY DEF ProcessCommand, ProcessDropped, ProcessEnableRead, ProcessDisableRead,
         ProcessInboundConsumed, ProcessWrite, ProcessShutdownWrite, ProcessClose,
         socketVars
<1>4. UNCHANGED mainVars
  BY DEF ProcessCommand, ProcessDropped, ProcessEnableRead, ProcessDisableRead,
         ProcessInboundConsumed, ProcessWrite, ProcessShutdownWrite, ProcessClose
<1>. HIDE DEF mainVars
<1>5. shardUp' = shardUp /\ (~shardUp => r.closed)
  BY DEF ProcessCommand, ProcessDropped, ProcessEnableRead, ProcessDisableRead,
         ProcessInboundConsumed, ProcessWrite, ProcessShutdownWrite, ProcessClose,
         InboundInv, LoopOpen
<1>6. ASSUME ~closed, ~r.closed, ~readEnabled
      PROVE  Quieted(r.readEnabled, cmds, delivered)
  BY <1>6 DEF InboundInv, Quiet
<1>7. ASSUME ProcessDropped PROVE InboundInv'
  <2>1. r' = r /\ r.closed /\ evts' = evts /\ agenda' = agenda /\ agenda = {}
    BY <1>7 DEF ProcessDropped, reactorVars, loopVars
  <2>2. \E out \in Seq(Evt) : evts' = evts \o out /\ Stamped(out, r.readClosed)
    BY <1>1, <1>2, <2>1, ConcatEmptySeq
  <2>3. Answers(r)
    BY <2>1, <2>2 DEF Answers
  <2>. QED
    BY <1>1, <1>3, <1>4, <1>5, <2>1, <2>3, AnswersStep
<1>8. ASSUME NEW kind, NextCommand(kind)
      PROVE  /\ cmds # <<>> /\ ~r.closed /\ agenda = {}
             /\ Head(cmds).kind = kind /\ cmds' = Tail(cmds)
  BY <1>8 DEF NextCommand
<1>9. ASSUME NEW s \in ReactorState, Answers(s), cmds # <<>>, ~r.closed,
             cmds' = Tail(cmds), Head(cmds).kind # "inboundConsumed",
             s.pendingInbound = r.pendingInbound, s.readClosed = r.readClosed,
             ~closed /\ ~r'.closed /\ ~readEnabled =>
                 Quieted(s.readEnabled, cmds', delivered),
             r'.closed => agenda' = {}
      PROVE  InboundInv'
  <2>1. ~closed => Linked(cmds', "inboundConsumed", rd - s.pendingInbound, received)
    BY <1>9, FirstCommand
  <2>. QED
    BY <1>1, <1>3, <1>4, <1>5, <1>9, <2>1, AnswersStep
<1>10. ASSUME ProcessEnableRead PROVE InboundInv'
  <2>. DEFINE s == [r EXCEPT !.readEnabled = TRUE]
  <2>1. s \in ReactorState /\ s.pendingInbound = r.pendingInbound
        /\ s.readClosed = r.readClosed /\ s.readEnabled = TRUE
    BY <1>1 DEF ReactorState
  <2>2. UpdateInterest(s, <<>>) /\ NextCommand("enableRead") /\ agenda' = agenda
    BY <1>10 DEF ProcessEnableRead, loopVars
  <2>. HIDE DEF s
  <2>3. Answers(s)
    BY <1>1, <1>2, <2>1, <2>2, UpdateInterestAnswers DEF InboundInv
  <2>4. /\ cmds # <<>> /\ ~r.closed /\ agenda = {}
        /\ Head(cmds).kind = "enableRead" /\ cmds' = Tail(cmds)
    BY <1>8, <2>2
  <2>5. ~closed /\ ~readEnabled => Quieted(s.readEnabled, cmds', delivered)
    BY <1>1, <1>6, <2>1, <2>4, QuietedTail
  <2>. QED
    BY <1>9, <2>1, <2>2, <2>3, <2>4, <2>5
<1>11. ASSUME ProcessDisableRead PROVE InboundInv'
  <2>. DEFINE s == [r EXCEPT !.readEnabled = FALSE]
  <2>1. s \in ReactorState /\ s.pendingInbound = r.pendingInbound
        /\ s.readClosed = r.readClosed /\ s.readEnabled = FALSE
    BY <1>1 DEF ReactorState
  <2>2. UpdateInterest(s, <<>>) /\ NextCommand("disableRead") /\ agenda' = agenda
    BY <1>11 DEF ProcessDisableRead, loopVars
  <2>. HIDE DEF s
  <2>3. Answers(s)
    BY <1>1, <1>2, <2>1, <2>2, UpdateInterestAnswers DEF InboundInv
  <2>4. /\ cmds # <<>> /\ ~r.closed /\ agenda = {}
        /\ Head(cmds).kind = "disableRead" /\ cmds' = Tail(cmds)
    BY <1>8, <2>2
  <2>5. ~closed /\ ~readEnabled => Quieted(s.readEnabled, cmds', delivered)
    BY <1>1, <1>6, <2>1, <2>4, QuietedTail
  <2>. QED
    BY <1>9, <2>1, <2>2, <2>3, <2>4, <2>5
<1>12. ASSUME NextCommand("write") \/ NextCommand("shutdownWrite") \/ NextCommand("close"),
              Answers(r), r'.closed => agenda' = {}
       PROVE  InboundInv'
  <2>1. /\ cmds # <<>> /\ ~r.closed /\ cmds' = Tail(cmds)
        /\ Head(cmds).kind \in {"write", "shutdownWrite", "close"}
    BY <1>8, <1>12
  <2>2. ~closed /\ ~readEnabled => Quieted(r.readEnabled, cmds', delivered)
    BY <1>1, <1>6, <2>1, QuietedTail
  <2>. QED
    BY <1>1, <1>9, <1>12, <2>1, <2>2
<1>13. ASSUME ProcessWrite PROVE InboundInv'
  <2>1. NextCommand("write") /\ evts' = evts
    BY <1>13 DEF ProcessWrite
  <2>2. /\ r'.readEnabled = r.readEnabled /\ r'.readClosed = r.readClosed
        /\ r'.pendingInbound = r.pendingInbound /\ r'.closed = r.closed
    BY <1>1, <1>13 DEF ProcessWrite, ReactorState
  <2>3. \E out \in Seq(Evt) : evts' = evts \o out /\ Stamped(out, r.readClosed)
    BY <1>1, <1>2, <2>1, ConcatEmptySeq
  <2>4. Answers(r)
    BY <2>1, <2>2, <2>3 DEF Answers
  <2>. QED
    BY <1>8, <1>12, <2>1, <2>2, <2>4
<1>14. ASSUME ProcessShutdownWrite PROVE InboundInv'
  <2>1. NextCommand("shutdownWrite") /\ evts' = evts
    BY <1>14 DEF ProcessShutdownWrite
  <2>2. /\ r'.readEnabled = r.readEnabled /\ r'.readClosed = r.readClosed
        /\ r'.pendingInbound = r.pendingInbound /\ r'.closed = r.closed
    BY <1>1, <1>14 DEF ProcessShutdownWrite, ReactorState
  <2>3. \E out \in Seq(Evt) : evts' = evts \o out /\ Stamped(out, r.readClosed)
    BY <1>1, <1>2, <2>1, ConcatEmptySeq
  <2>4. Answers(r)
    BY <2>1, <2>2, <2>3 DEF Answers
  <2>. QED
    BY <1>8, <1>12, <2>1, <2>2, <2>4
<1>15. ASSUME ProcessClose PROVE InboundInv'
  <2>1. NextCommand("close") /\ CloseReactorState(r, <<>>) /\ agenda' = agenda
    BY <1>15 DEF ProcessClose, loopVars
  <2>2. Answers(r)
    BY <1>1, <1>2, <2>1, CloseReactorAnswers DEF InboundInv
  <2>. QED
    BY <1>8, <1>12, <2>1, <2>2
<1>16. ASSUME ProcessInboundConsumed PROVE InboundInv'
  <2>. DEFINE n == Head(cmds).hi - Head(cmds).lo
              s == Acknowledged(n)
  <2>1. /\ UpdateInterest(s, <<>>) /\ NextCommand("inboundConsumed")
        /\ agenda' = agenda
    BY <1>16 DEF ProcessInboundConsumed, loopVars
  <2>2. /\ cmds # <<>> /\ ~r.closed /\ agenda = {}
        /\ Head(cmds).kind = "inboundConsumed" /\ cmds' = Tail(cmds)
    BY <1>8, <2>1
  <2>3. n \in Nat
    <3>1. Head(cmds) \in Cmd
      BY <1>1, <2>2, HeadTailType
    <3>. QED
      BY <3>1, MessageFields
  <2>4. /\ s \in ReactorState /\ s.readClosed = r.readClosed
        /\ s.readEnabled = r.readEnabled
        /\ s.pendingInbound = IF n > r.pendingInbound THEN 0 ELSE r.pendingInbound - n
    <3>. DEFINE left == IF n > r.pendingInbound THEN 0 ELSE r.pendingInbound - n
    <3>1. left \in Nat
      BY <1>1, <2>3
    <3>2. s = [r EXCEPT !.pendingInbound = left]
      BY DEF Acknowledged
    <3>. HIDE DEF n, s, left
    <3>3. /\ s \in ReactorState /\ s.readClosed = r.readClosed
          /\ s.readEnabled = r.readEnabled /\ s.pendingInbound = left
      BY <1>1, <3>1, <3>2 DEF ReactorState
    <3>. QED
      BY <3>3 DEF left
  <2>5. ~closed => Linked(cmds', "inboundConsumed", rd - s.pendingInbound, received)
    <3> SUFFICES ASSUME ~closed
                 PROVE  Linked(cmds', "inboundConsumed", rd - s.pendingInbound, received)
      OBVIOUS
    <3>1. /\ Head(cmds).lo = rd - r.pendingInbound
          /\ Head(cmds).hi \in Nat /\ Head(cmds).hi <= received /\ received <= rd
          /\ Linked(Tail(cmds), "inboundConsumed", Head(cmds).hi, received)
      BY <2>2, FirstCommand
    <3>2. received \in Nat /\ n <= r.pendingInbound
      <4>1. received \in Nat
        BY DEF InboundInv, TypeOK
      <4>2. n = Head(cmds).hi - (rd - r.pendingInbound)
        BY <3>1
      <4>. HIDE DEF n, s
      <4>. QED
        BY <1>1, <3>1, <4>1, <4>2, SMTT(30)
    <3>3. s.pendingInbound = r.pendingInbound - n
      BY <1>1, <2>3, <2>4, <3>2
    <3>4. r.pendingInbound - n = rd - Head(cmds).hi
      BY <1>1, <3>1
    <3>5. rd - s.pendingInbound = Head(cmds).hi
      <4>. HIDE DEF s
      <4>. QED
        BY <1>1, <3>1, <3>3, <3>4
    <3>. QED
      BY <2>2, <3>1, <3>5
  <2>6. s.pendingInbound <= MaxInbound
    BY <1>1, <2>3, <2>4
  <2>. HIDE DEF s, n
  <2>7. Answers(s)
    BY <1>1, <1>2, <2>1, <2>4, UpdateInterestAnswers DEF InboundInv
  <2>8. ~closed /\ ~readEnabled => Quieted(s.readEnabled, cmds', delivered)
    BY <1>1, <1>6, <2>2, <2>4, QuietedTail
  <2>. QED
    BY <1>3, <1>4, <1>5, <2>1, <2>2, <2>4, <2>5, <2>6, <2>7, <2>8, AnswersStep
<1>. QED
  BY <1>7, <1>10, <1>11, <1>13, <1>14, <1>15, <1>16 DEF ProcessCommand

\* The rest of the reactor's turn: waiting, stopping, dispatching.
LEMMA LoopStep ==
    ASSUME InboundInv, TypeOK', Wait \/ WaitFails \/ IdleExit \/ Dispatch
    PROVE  InboundInv'
<1>1. /\ r \in ReactorState /\ <<>> \in Seq(Evt) /\ evts \in Seq(Evt)
      /\ r.pendingInbound <= MaxInbound
  BY DEF InboundInv, TypeOK
<1>2. UNCHANGED <<mainVars, cmds, peerVars, rd>>
  BY DEF Wait, WaitFails, IdleExit, Dispatch, socketVars
<1>. HIDE DEF mainVars
<1>3. ASSUME ~closed, ~r.closed
      PROVE  /\ Linked(cmds', "inboundConsumed", rd - r.pendingInbound, received)
             /\ ~readEnabled => Quieted(r.readEnabled, cmds', delivered)
  BY <1>2, <1>3 DEF InboundInv, CommandsLinked, Quiet
<1>4. ASSUME NEW readClosed PROVE Stamped(<<>>, readClosed)
  BY DEF Stamped
<1>5. ASSUME r' = r, evts' = evts PROVE Answers(r)
  <2>1. \E out \in Seq(Evt) : evts' = evts \o out /\ Stamped(out, r.readClosed)
    BY <1>1, <1>4, <1>5, ConcatEmptySeq
  <2>. QED
    BY <1>5, <2>1 DEF Answers
<1>6. (r.closed => agenda = {}) /\ (~shardUp => r.closed)
  BY DEF InboundInv, LoopOpen
<1>7. CASE Wait \/ IdleExit \/ Dispatch
  <2>1. /\ r' = r /\ evts' = evts /\ (r'.closed => agenda' = {})
        /\ (~shardUp' => r'.closed)
    BY <1>6, <1>7 DEF Wait, IdleExit, Dispatch, reactorVars, loopVars
  <2>. QED
    BY <1>1, <1>2, <1>3, <1>5, <2>1, AnswersStep
<1>8. CASE WaitFails
  <2>1. Answers(r) /\ r'.closed
    <3>1. CASE r.closed
      BY <1>5, <1>8, <3>1 DEF WaitFails
    <3>2. CASE ~r.closed
      BY <1>1, <1>4, <1>8, <3>2, FailReactorAnswers DEF WaitFails, InboundInv
    <3>. QED
      BY <3>1, <3>2
  <2>2. agenda' = {}
    BY <1>8 DEF WaitFails, loopVars
  <2>. QED
    BY <1>1, <1>2, <2>1, <2>2, AnswersStep
<1>. QED
  BY <1>7, <1>8

\* A handler that reads or writes nothing more keeps the invariant.
LEMMA HandlerStep ==
    ASSUME InboundInv, TypeOK', NEW s \in ReactorState, Answers(s),
           UNCHANGED <<mainVars, cmds, shardUp, peerVars, rd>>,
           s.pendingInbound = r.pendingInbound, s.closed = r.closed,
           r.readClosed => s.readClosed,
           s.readClosed => r.readClosed \/ (peerFin /\ rd = peerSent),
           s.readEnabled => r.readEnabled,
           r'.closed => agenda' = {}
    PROVE  InboundInv'
<1>. HIDE DEF mainVars
<1>1. r.pendingInbound <= MaxInbound /\ (~shardUp => r.closed) /\ (r.closed => r'.closed)
  BY DEF InboundInv, LoopOpen, Answers
<1>2. ASSUME ~closed, ~r.closed
      PROVE  /\ Linked(cmds', "inboundConsumed", rd - r.pendingInbound, received)
             /\ ~readEnabled => Quieted(s.readEnabled, cmds', delivered)
  BY <1>2 DEF InboundInv, CommandsLinked, Quiet, Quieted
<1>. QED
  BY <1>1, <1>2, AnswersStep

\* read(2) moves at most what the inbound queue has room for: the bound holds
\* because whatever the reactor does not yet count as consumed was delivered, or
\* it has been told to stop.
LEMMA ReadDataStep == ASSUME InboundInv, TypeOK', ReadData PROVE InboundInv'
<1>1. PICK n \in 1 .. ReadChunk :
          /\ ReadFits(n)
          /\ rd' = rd + n
          /\ Reply([r EXCEPT !.pendingInbound = @ + n], <<Message("data", 0, rd, rd + n)>>)
  BY DEF ReadData
<1>2. /\ r \in ReactorState /\ rd \in Nat /\ n \in Nat /\ n > 0 /\ MaxInbound \in Nat
      /\ r.pendingInbound \in Nat /\ received \in Nat /\ delivered \in Nat
      /\ cmds \in Seq(Cmd) /\ evts \in Seq(Evt)
      /\ rd + n \in Nat /\ rd <= rd + n
  BY SizesAssumption, SMTT(30) DEF InboundInv, TypeOK, ReactorState
<1>3. /\ r'.readEnabled = r.readEnabled /\ r'.readClosed = r.readClosed
      /\ r'.pendingInbound = r.pendingInbound + n /\ r'.closed = r.closed
  BY <1>1, <1>2 DEF Reply, ReactorState
<1>4. UNCHANGED <<mainVars, cmds, shardUp, agenda, peerVars>> /\ CanRead /\ Reading
  BY DEF ReadData
<1>5. ~r.closed /\ r.readEnabled /\ ~r.readClosed
  BY <1>4 DEF CanRead, Reading, InboundInv, LoopOpen
<1>6. r.pendingInbound + n <= MaxInbound
  BY <1>1, <1>2, SMTT(30) DEF ReadFits
<1>. USE DEF mainVars, inputVars, flagVars, writeVars, peerVars
<1>7. rd - r.pendingInbound <= delivered \/ closed
  <2> SUFFICES ASSUME ~closed PROVE rd - r.pendingInbound <= delivered
    OBVIOUS
  <2>1. Linked(cmds, "inboundConsumed", rd - r.pendingInbound, received)
    BY <1>5 DEF InboundInv, CommandsLinked
  <2>2. CASE readEnabled
    BY <1>2, <2>1, <2>2 DEF InboundInv, PausedOff, Linked
  <2>3. CASE ~readEnabled
    <3>1. PICK i \in 1 .. Len(cmds) : cmds[i].lo <= delivered
      BY <1>5, <2>3 DEF InboundInv, Quiet, Quieted
    <3>2. cmds[i].lo \in Nat /\ rd - r.pendingInbound <= cmds[i].lo
      BY <1>2, <2>1, MessageFields, ElementOfSeq DEF Linked
    <3>. QED
      BY <1>2, <3>1, <3>2
  <2>. QED
    BY <2>2, <2>3
<1>8. UndeliveredBounded'
  BY <1>1, <1>2, <1>4, <1>6, <1>7, SMTT(60) DEF InboundInv, UndeliveredBounded
<1>9. ASSUME ~closed
      PROVE  /\ Message("data", 0, rd, rd + n) \in Evt
             /\ evts' = Append(evts, Message("data", 0, rd, rd + n))
  <2>1. Message("data", 0, rd, rd + n) \in Evt
    BY <1>2, MessageType DEF EvtKind
  <2>2. evts' = evts \o <<Message("data", 0, rd, rd + n)>>
    BY <1>1, <1>9 DEF Reply
  <2>. QED
    BY <1>2, <2>1, <2>2, AppendIsConcat
<1>10. EventsLinked'
  <2> SUFFICES ASSUME ~closed PROVE Linked(evts', "data", received, rd')
    BY <1>1, <1>4 DEF EventsLinked, InboundInv, Reply
  <2>. DEFINE m == Message("data", 0, rd, rd + n)
  <2>1. m.lo = rd /\ m.hi = rd + n /\ m.kind = "data"
    BY DEF Message
  <2>2. m \in Evt /\ evts' = Append(evts, m)
    BY <1>9
  <2>3. Linked(evts, "data", received, rd)
    BY DEF InboundInv, EventsLinked
  <2>4. m.kind = "data" <=> m.lo < m.hi
    BY <1>2, <2>1
  <2>5. Linked(Append(evts, m), "data", received, m.hi)
    <3>. HIDE DEF m
    <3>. QED
      BY <1>2, <2>1, <2>2, <2>3, <2>4, LinkedAppend
  <2>. QED
    BY <1>1, <2>1, <2>2, <2>5
<1>11. CommandsLinked'
  <2>1. rd' - r'.pendingInbound = rd - r.pendingInbound
    BY <1>1, <1>2, <1>3
  <2>. QED
    BY <1>3, <1>4, <2>1 DEF InboundInv, CommandsLinked
<1>12. PausedOff' /\ Quiet' /\ LoopOpen'
  BY <1>3, <1>4 DEF InboundInv, PausedOff, Quiet, LoopOpen
<1>13. EofSeen'
  <2>1. ASSUME ~closed PROVE EofReported(evts, readFinished, received)'
    <3>1. EofReported(evts, readFinished, received)
      BY <2>1 DEF InboundInv, EofSeen
    <3>2. ~readFinished /\ \A i \in 1 .. Len(evts) : evts[i].kind # "eof"
      BY <1>5, <3>1 DEF EofReported
    <3>3. \A i \in 1 .. Len(evts') : evts'[i].kind # "eof"
      <4>. DEFINE m == Message("data", 0, rd, rd + n)
      <4>1. m \in Evt /\ evts' = Append(evts, m) /\ m.kind = "data"
        BY <1>9, <2>1 DEF Message
      <4>. HIDE DEF m
      <4>2. /\ Len(evts') = Len(evts) + 1 /\ Len(evts) \in Nat
            /\ \A i \in 1 .. Len(evts) : evts'[i] = evts[i]
            /\ evts'[Len(evts) + 1] = m
        BY <1>2, <4>1, AppendProperties
      <4> SUFFICES ASSUME NEW i \in 1 .. Len(evts') PROVE evts'[i].kind # "eof"
        OBVIOUS
      <4>3. CASE i \in 1 .. Len(evts)
        BY <3>2, <4>2, <4>3
      <4>4. CASE i = Len(evts) + 1
        BY <4>1, <4>2, <4>4
      <4>. QED
        BY <4>2, <4>3, <4>4
    <3>. QED
      BY <1>4, <3>2, <3>3 DEF EofReported
  <2>. QED
    BY <1>3, <1>4, <1>5, <2>1 DEF EofSeen
<1>14. delivered' <= received' /\ r'.pendingInbound <= MaxInbound
  BY <1>3, <1>4, <1>6 DEF InboundInv
<1>. QED
  BY <1>8, <1>10, <1>11, <1>12, <1>13, <1>14 DEF InboundInv

\* The other ends of the read loop keep it.
LEMMA ReadStep == ASSUME InboundInv, TypeOK', Read PROVE InboundInv'
<1>1. r \in ReactorState /\ <<>> \in Seq(Evt) /\ evts \in Seq(Evt) /\ TypeOK
  BY SMTT(60) DEF InboundInv, TypeOK
<1>2. ASSUME NEW readClosed PROVE Stamped(<<>>, readClosed)
  BY DEF Stamped
<1>3. ASSUME HandlerReturns PROVE r'.closed => agenda' = {}
  BY <1>3 DEF HandlerReturns
<1>4. ASSUME r' = r, evts' = evts PROVE Answers(r)
  <2>1. \E out \in Seq(Evt) : evts' = evts \o out /\ Stamped(out, r.readClosed)
    BY <1>1, <1>2, <1>4, ConcatEmptySeq
  <2>. QED
    BY <1>4, <2>1 DEF Answers
<1>5. CASE ReadRefused \/ ReadAgain
  <2>1. /\ r' = r /\ evts' = evts /\ HandlerReturns
        /\ UNCHANGED <<mainVars, cmds, shardUp, peerVars, rd>>
    BY <1>5 DEF ReadRefused, ReadAgain, socketVars
  <2>. QED
    BY <1>1, <1>3, <1>4, <2>1, HandlerStep
<1>6. CASE ReadYields
  <2>1. /\ UpdateInterest(r, <<>>) /\ HandlerReturns
        /\ UNCHANGED <<mainVars, cmds, shardUp, peerVars, rd>>
    BY <1>6 DEF ReadYields, socketVars
  <2>2. Answers(r)
    BY <1>1, <1>2, <2>1, UpdateInterestAnswers
  <2>. QED
    BY <1>1, <1>3, <2>1, <2>2, HandlerStep
<1>7. CASE ReadFails
  <2>1. /\ FailReactorState(r, <<ToMain("readError", 0)>>) /\ HandlerReturns
        /\ UNCHANGED <<mainVars, cmds, shardUp, peerVars, rd>>
    BY <1>7 DEF ReadFails, socketVars
  <2>2. ToMain("readError", 0) \in Evt
    BY <1>1, ToMainType DEF EvtKind
  <2>3. /\ <<ToMain("readError", 0)>> \in Seq(Evt)
        /\ Stamped(<<ToMain("readError", 0)>>, r.readClosed)
    BY <2>2 DEF Stamped, ToMain, Message
  <2>4. Answers(r)
    BY <1>1, <2>1, <2>3, FailReactorAnswers
  <2>. QED
    BY <1>1, <1>3, <2>1, <2>4, HandlerStep
<1>8. CASE ReadEof
  <2>. DEFINE s == [r EXCEPT !.readClosed = TRUE, !.readEnabled = FALSE]
              eof == <<ToMain("eof", 0)>>
  <2>1. /\ s \in ReactorState /\ s.readClosed = TRUE /\ s.readEnabled = FALSE
        /\ s.pendingInbound = r.pendingInbound /\ s.closed = r.closed
    BY <1>1 DEF ReactorState
  <2>2. ToMain("eof", 0) \in Evt
    BY <1>1, ToMainType DEF EvtKind
  <2>3. eof \in Seq(Evt) /\ Stamped(eof, TRUE)
    BY <2>2 DEF Stamped, ToMain, Message
  <2>4. /\ CloseReactorState(s, eof) \/ UpdateFails(s, eof) \/ UpdateInterest(s, eof)
        /\ HandlerReturns /\ UNCHANGED <<mainVars, cmds, shardUp, peerVars, rd>>
        /\ peerFin /\ rd = peerSent
    BY <1>8 DEF ReadEof, AtEof, socketVars
  <2>. HIDE DEF s, eof, mainVars
  <2>5. Answers(s)
    BY <1>1, <2>1, <2>3, <2>4, CloseReactorAnswers, UpdateInterestAnswers
  <2>. QED
    BY <1>3, <2>1, <2>4, <2>5, HandlerStep
<1>. QED
  BY <1>5, <1>6, <1>7, <1>8, ReadDataStep DEF Read

\* The flush loop does not touch the inbound half.
LEMMA FlushStep == ASSUME InboundInv, TypeOK', Flush PROVE InboundInv'
<1>1. /\ r \in ReactorState /\ <<>> \in Seq(Evt) /\ evts \in Seq(Evt) /\ TypeOK
      /\ r.shutdownWriteId \in Nat
  <2>1. TypeOK
    BY DEF InboundInv
  <2>2. r \in ReactorState /\ evts \in Seq(Evt)
    BY <2>1 DEF TypeOK
  <2>3. r.shutdownWriteId \in Nat
    BY <2>2 DEF ReactorState
  <2>. QED
    BY <2>1, <2>2, <2>3
<1>2. ASSUME NEW readClosed PROVE Stamped(<<>>, readClosed)
  BY DEF Stamped
<1>3. ASSUME HandlerReturns PROVE r'.closed => agenda' = {}
  BY <1>3 DEF HandlerReturns
<1>4. ASSUME NEW kind \in {"writeOk", "writeError"}, NEW id \in Nat, NEW readClosed
      PROVE  <<ToMain(kind, id)>> \in Seq(Evt) /\ Stamped(<<ToMain(kind, id)>>, readClosed)
  <2>1. ToMain(kind, id) \in Evt
    BY <1>1, ToMainType DEF EvtKind
  <2>. QED
    BY <2>1 DEF Stamped, ToMain, Message
<1>5. ASSUME r.writes # <<>> PROVE Head(r.writes).id \in Nat
  <2>1. Head(r.writes) \in QueuedWrite
    BY <1>1, <1>5, HeadTailType DEF ReactorState
  <2>. QED
    BY <2>1 DEF QueuedWrite
<1>6. CASE FlushRefused
  <2>1. /\ r' = r /\ evts' = evts /\ HandlerReturns
        /\ UNCHANGED <<mainVars, cmds, shardUp, peerVars, rd>>
    BY <1>6 DEF FlushRefused, socketVars
  <2>2. \E out \in Seq(Evt) : evts' = evts \o out /\ Stamped(out, r.readClosed)
    BY <1>1, <1>2, <2>1, ConcatEmptySeq
  <2>3. Answers(r)
    BY <2>1, <2>2 DEF Answers
  <2>. QED
    BY <1>1, <1>3, <2>1, <2>3, HandlerStep
<1>7. CASE FlushBytes
  <2>. DEFINE w == Head(r.writes)
  <2>1. r.writes # <<>> /\ Flushing
    BY <1>7 DEF FlushBytes, Queued
  <2>2. PICK n \in 1 .. WriteChunk :
            IF Finished(w, n)
            THEN Reply([r EXCEPT !.writes = Tail(@)], <<ToMain("writeOk", w.id)>>)
            ELSE Reply([r EXCEPT !.writes[1].offset = w.offset + n], <<>>)
    BY <1>7 DEF FlushBytes
  <2>3. UNCHANGED <<mainVars, cmds, shardUp, agenda, peerVars, rd>>
    BY <1>7 DEF FlushBytes
  <2>4. PICK t, out : /\ Reply(t, out)
                      /\ \/ t = [r EXCEPT !.writes = Tail(@)]
                         \/ t = [r EXCEPT !.writes[1].offset = w.offset + n]
                      /\ out \in {<<>>, <<ToMain("writeOk", w.id)>>}
    BY <2>2
  <2>5. /\ t.readEnabled = r.readEnabled /\ t.readClosed = r.readClosed
        /\ t.pendingInbound = r.pendingInbound /\ t.closed = r.closed
    BY <1>1, <2>4 DEF ReactorState
  <2>6. out \in Seq(Evt) /\ Stamped(out, r.readClosed)
    BY <1>1, <1>2, <1>4, <1>5, <2>1, <2>4
  <2>7. Answers(r)
    BY <1>1, <2>4, <2>5, <2>6, ReplyAnswers
  <2>8. r'.closed => agenda' = {}
    BY <2>3, <2>4, <2>5 DEF Reply, InboundInv, LoopOpen
  <2>. HIDE DEF mainVars
  <2>. QED
    BY <1>1, <2>3, <2>7, <2>8, HandlerStep
<1>8. CASE FlushAgain \/ FlushYields
  <2>1. /\ UpdateInterest(r, <<>>) /\ HandlerReturns
        /\ UNCHANGED <<mainVars, cmds, shardUp, peerVars, rd>>
    BY <1>8 DEF FlushAgain, FlushYields, socketVars
  <2>2. Answers(r)
    BY <1>1, <1>2, <2>1, UpdateInterestAnswers
  <2>. QED
    BY <1>1, <1>3, <2>1, <2>2, HandlerStep
<1>9. CASE FlushFails \/ FlushShutdownFails
  <2>1. PICK id \in Nat : FailReactorState(r, <<ToMain("writeError", id)>>)
    BY <1>1, <1>5, <1>9 DEF FlushFails, FlushShutdownFails, Queued
  <2>2. HandlerReturns /\ UNCHANGED <<mainVars, cmds, shardUp, peerVars, rd>>
    BY <1>9 DEF FlushFails, FlushShutdownFails, socketVars
  <2>3. Answers(r)
    BY <1>1, <1>4, <2>1, FailReactorAnswers
  <2>. QED
    BY <1>1, <1>3, <2>2, <2>3, HandlerStep
<1>10. CASE FlushShutdown
  <2>. DEFINE s == [r EXCEPT !.writeClosed = TRUE]
              ok == <<ToMain("writeOk", r.shutdownWriteId)>>
  <2>1. /\ s \in ReactorState /\ s.readClosed = r.readClosed
        /\ s.readEnabled = r.readEnabled
        /\ s.pendingInbound = r.pendingInbound /\ s.closed = r.closed
    BY <1>1 DEF ReactorState
  <2>2. ok \in Seq(Evt) /\ Stamped(ok, s.readClosed)
    BY <1>1, <1>4
  <2>3. /\ CloseReactorState(s, ok) \/ Reply(s, ok)
        /\ HandlerReturns /\ UNCHANGED <<mainVars, cmds, shardUp, peerVars, rd>>
    BY <1>10 DEF FlushShutdown
  <2>. HIDE DEF s, ok, mainVars
  <2>4. Answers(s)
    BY <1>1, <2>1, <2>2, <2>3, CloseReactorAnswers, ReplyAnswers
  <2>. QED
    BY <1>3, <2>1, <2>3, <2>4, HandlerStep
<1>. QED
  BY <1>6, <1>7, <1>8, <1>9, <1>10 DEF Flush

\* Neither does the peer, but that it stops sending when it has shut its side.
LEMMA PeerStep == ASSUME InboundInv, TypeOK', Peer PROVE InboundInv'
<1>1. UNCHANGED <<mainVars, cmds, evts, shardUp, reactorVars, rd>>
  BY DEF Peer, PeerSends, PeerConsumes, PeerEnds, peerVars
<1>2. r'.readClosed => peerFin' /\ rd' = peerSent'
  BY <1>1 DEF Peer, PeerSends, PeerConsumes, PeerEnds, peerVars, reactorVars,
              InboundInv, EofSeen
<1>. USE DEF mainVars, inputVars, flagVars, writeVars, reactorVars, loopVars
<1>3. EofSeen'
  BY <1>1, <1>2 DEF InboundInv, EofSeen, EofReported
<1>4. EventsLinked' /\ CommandsLinked' /\ PausedOff' /\ Quiet' /\ LoopOpen'
  BY <1>1 DEF InboundInv, EventsLinked, CommandsLinked, PausedOff, Quiet, LoopOpen
<1>. QED
  BY <1>1, <1>3, <1>4 DEF InboundInv, UndeliveredBounded

-----------------------------------------------------------------------------
(* The main isolate's steps.                                               *)

\* Delivering more, or receiving less, keeps a bound on the difference.
LEMMA BoundKept ==
    ASSUME NEW a \in Nat, NEW b \in Nat, NEW c \in Nat, NEW e \in Nat, NEW bound \in Nat,
           a - b <= bound, e <= a, b <= c
    PROVE  e - c <= bound
  OBVIOUS

\* A step that tears the transport down only has to keep the bound.
LEMMA TeardownStep ==
    ASSUME InboundInv, TypeOK', UNCHANGED <<shardUp, reactorVars, socketVars>>,
           closed', evts' = <<>>, delivered' <= received', delivered <= delivered',
           closed => received' = received, ~closed => received' <= rd
    PROVE  InboundInv'
<1>. USE DEF reactorVars, loopVars, socketVars, peerVars
<1>1. EventsLinked' /\ CommandsLinked' /\ PausedOff' /\ Quiet' /\ LoopOpen' /\ EofSeen'
  BY DEF InboundInv, EventsLinked, CommandsLinked, PausedOff, Quiet, LoopOpen, EofSeen
<1>2. UndeliveredBounded'
  <2>1. /\ received \in Nat /\ delivered \in Nat /\ received' \in Nat /\ delivered' \in Nat
        /\ rd \in Nat /\ MaxInbound \in Nat
    BY SizesAssumption DEF InboundInv, TypeOK
  <2>2. IF closed THEN received - delivered <= MaxInbound ELSE rd - delivered <= MaxInbound
    BY DEF InboundInv, UndeliveredBounded
  <2>3. delivered <= delivered' /\ (received' = received \/ received' <= rd)
    OBVIOUS
  <2>4. CASE closed
    <3>1. received' <= received /\ received - delivered <= MaxInbound
      BY <2>1, <2>2, <2>4
    <3>2. received' - delivered' <= MaxInbound
      BY <2>1, <2>3, <3>1, BoundKept
    <3>. QED
      BY <3>2 DEF UndeliveredBounded
  <2>5. CASE ~closed
    <3>1. received' <= rd /\ rd - delivered <= MaxInbound
      BY <2>2, <2>5
    <3>2. received' - delivered' <= MaxInbound
      BY <2>1, <2>3, <3>1, BoundKept
    <3>. QED
      BY <3>2 DEF UndeliveredBounded
  <2>. QED
    BY <2>4, <2>5
<1>. QED
  BY <1>1, <1>2 DEF InboundInv

\* Bytes handled were read before.
LEMMA ReceivedRead == ASSUME InboundInv, ~closed PROVE received <= rd
  BY DEF InboundInv, EventsLinked, Linked

\* A step that leaves the transport open has to keep each part.
LEMMA OpenStep ==
    ASSUME InboundInv, TypeOK', UNCHANGED <<shardUp, reactorVars, socketVars>>,
           ~closed, ~closed', delivered' <= received', delivered <= delivered',
           EventsLinked', CommandsLinked', PausedOff', Quiet',
           EofReported(evts, readFinished, received)'
    PROVE  InboundInv'
<1>. USE DEF reactorVars, loopVars, socketVars, peerVars
<1>1. UndeliveredBounded'
  <2>1. /\ delivered \in Nat /\ delivered' \in Nat /\ rd \in Nat /\ MaxInbound \in Nat
        /\ rd <= rd
    BY SizesAssumption DEF InboundInv, TypeOK
  <2>2. rd - delivered <= MaxInbound /\ rd' = rd
    BY DEF InboundInv, UndeliveredBounded
  <2>3. delivered <= delivered'
    OBVIOUS
  <2>4. rd - delivered' <= MaxInbound
    BY <2>1, <2>2, <2>3, BoundKept
  <2>. QED
    BY <2>2, <2>4 DEF UndeliveredBounded
<1>2. EofSeen' /\ LoopOpen'
  BY DEF InboundInv, EofSeen, LoopOpen
<1>. QED
  BY <1>1, <1>2 DEF InboundInv

\* _enableReadIfReady at the end of a callback keeps the invariant if what it was
\* given does: it enables reads only where every byte handled was delivered.
LEMMA EnableReadStep ==
    ASSUME InboundInv, TypeOK', UNCHANGED <<shardUp, reactorVars, socketVars>>,
           NEW s, NEW d \in Nat, NEW c \in Nat, NEW enabled \in BOOLEAN,
           NEW q \in Seq(Cmd), NEW rest \in Seq(Evt),
           EnableReadIfReady(s, d, c, enabled, q, rest),
           sub' = s, delivered' = d, received' = c,
           d <= c, delivered <= d, closed => c = received /\ rest = evts,
           ~closed => Linked(rest, "data", c, rd),
           ~closed /\ ~r.closed =>
               Linked(q, "inboundConsumed", rd - r.pendingInbound, c),
           ~closed /\ (s = "paused" \/ d < c) => ~enabled,
           ~closed /\ ~r.closed /\ ~enabled => Quieted(r.readEnabled, q, d),
           ~closed => EofReported(rest, readFinished, c)
    PROVE  InboundInv'
<1>. DEFINE m == ToReactor("enableRead", 0, c)
<1>0. rd \in Nat /\ r.pendingInbound \in Nat /\ (~closed => c <= rd)
  BY DEF InboundInv, TypeOK, ReactorState, Linked
<1>1. CASE closed'
  <2>1. evts' = <<>>
    BY <1>1 DEF EnableReadIfReady, Enables, FinishWithError, Teardown, InboundInv,
                EventsLinked
  <2>. QED
    BY <1>0, <1>1, <2>1, TeardownStep
<1>2. CASE ~closed'
  <2>1. /\ ~closed /\ evts' = rest /\ readFinished' = readFinished
        /\ \/ /\ Enables(s, d, c, enabled) /\ readEnabled' = TRUE
              /\ cmds' = Append(q, m)
           \/ readEnabled' = enabled /\ cmds' = q
    BY <1>2 DEF EnableReadIfReady, FinishWithError, Teardown
  <2>2. UNCHANGED <<r, rd>>
    BY DEF reactorVars, socketVars
  <2>3. EventsLinked'
    <3>1. Linked(rest, "data", c, rd)
      BY <2>1
    <3>2. /\ closed' = FALSE /\ evts' = rest /\ received' = c /\ rd' = rd
      BY <1>2, <2>1, <2>2
    <3>. QED
      BY <3>1, <3>2 DEF EventsLinked
  <2>4. EofReported(evts, readFinished, received)'
    BY <2>1, <2>2 DEF EofReported
  <2>5. CASE readEnabled' = enabled /\ cmds' = q
    <3>1. CommandsLinked'
      BY <2>1, <2>2, <2>5 DEF CommandsLinked
    <3>2. PausedOff' /\ Quiet'
      BY <2>1, <2>2, <2>5 DEF PausedOff, Quiet
    <3>. QED
      BY <1>2, <2>1, <2>3, <2>4, <3>1, <3>2, OpenStep
  <2>6. CASE Enables(s, d, c, enabled) /\ readEnabled' = TRUE /\ cmds' = Append(q, m)
    <3>1. m \in Cmd /\ m.lo = c /\ m.hi = c /\ m.kind = "enableRead"
      BY ToReactorType DEF CmdKind, ToReactor, Message
    <3>2. CommandsLinked'
      <4> SUFFICES ASSUME ~r.closed
                   PROVE  Linked(cmds', "inboundConsumed", rd - r.pendingInbound, c)
        BY <2>2 DEF CommandsLinked
      <4>1. Linked(q, "inboundConsumed", rd - r.pendingInbound, c)
        BY <2>1
      <4>2. Linked(Append(q, m), "inboundConsumed", rd - r.pendingInbound, m.hi)
        <5>. HIDE DEF m
        <5>. QED
          BY <1>0, <3>1, <4>1, LinkedAppend, SMTT(30)
      <4>. QED
        BY <2>6, <3>1, <4>2
    <3>3. s = "listening" /\ d = c
      BY <2>6 DEF Enables
    <3>4. PausedOff' /\ Quiet'
      BY <2>6, <3>3 DEF PausedOff, Quiet
    <3>. QED
      BY <1>2, <2>1, <2>3, <2>4, <3>2, <3>4, OpenStep
  <2>. QED
    BY <2>1, <2>5, <2>6
<1>. QED
  BY <1>1, <1>2

\* What the invariant says of the command queue, in the form the steps use.
LEMMA QueueFacts ==
    ASSUME InboundInv
    PROVE  /\ delivered \in Nat /\ received \in Nat /\ rd \in Nat
           /\ cmds \in Seq(Cmd) /\ evts \in Seq(Evt)
           /\ readEnabled \in BOOLEAN /\ r.readEnabled \in BOOLEAN
           /\ rd - r.pendingInbound \in Int
           /\ delivered <= received
           /\ closed => evts = <<>>
           /\ ~closed => /\ Linked(evts, "data", received, rd)
                         /\ EofReported(evts, readFinished, received)
                         /\ sub = "paused" \/ delivered < received => ~readEnabled
           /\ ~closed /\ ~r.closed =>
                Linked(cmds, "inboundConsumed", rd - r.pendingInbound, received)
           /\ ~closed /\ ~r.closed /\ ~readEnabled =>
                Quieted(r.readEnabled, cmds, delivered)
<1>1. /\ delivered \in Nat /\ received \in Nat /\ rd \in Nat
      /\ cmds \in Seq(Cmd) /\ evts \in Seq(Evt)
      /\ readEnabled \in BOOLEAN /\ r \in ReactorState
  BY DEF InboundInv, TypeOK
<1>2. r.readEnabled \in BOOLEAN /\ rd - r.pendingInbound \in Int
  BY <1>1 DEF ReactorState
<1>. QED
  BY <1>1, <1>2 DEF InboundInv, EventsLinked, CommandsLinked, PausedOff, Quiet, EofSeen

\* A command without bytes, sent from where the main isolate is, extends the queue.
LEMMA SendCommand ==
    ASSUME InboundInv, NEW kind \in CmdKind \ {"inboundConsumed"}, NEW id \in Nat,
           NEW q \in Seq(Cmd), NEW at \in Nat,
           Linked(q, "inboundConsumed", rd - r.pendingInbound, at)
    PROVE  Linked(Append(q, ToReactor(kind, id, at)), "inboundConsumed",
                  rd - r.pendingInbound, at)
<1>. DEFINE m == ToReactor(kind, id, at)
<1>1. m \in Cmd /\ m.lo = at /\ m.hi = at /\ m.kind = kind
  BY ToReactorType DEF ToReactor, Message
<1>2. rd - r.pendingInbound \in Int
  BY QueueFacts
<1>3. Linked(Append(q, m), "inboundConsumed", rd - r.pendingInbound, m.hi)
  <2>. HIDE DEF m
  <2>. QED
    BY <1>1, <1>2, LinkedAppend
<1>. QED
  BY <1>1, <1>3

\* The application's steps.
LEMMA ApplicationStep == ASSUME InboundInv, TypeOK', Application PROVE InboundInv'
<1>1. CASE Listen \/ Resume \/ DeliverBuffered
  <2>1. PICK d \in {delivered, delivered + 1} :
          /\ EnableReadIfReady("listening", d, received, readEnabled, cmds, evts)
          /\ sub' = "listening" /\ delivered' = d /\ received' = received
          /\ UNCHANGED <<shardUp, reactorVars, socketVars>>
          /\ d = delivered \/ delivered < received
    BY <1>1 DEF Listen, Resume, DeliverBuffered
  <2>2. d \in Nat /\ d <= received /\ delivered <= d
    BY <2>1, QueueFacts
  <2>3. ~closed /\ d < received => ~readEnabled
    BY <2>1, QueueFacts
  <2>4. ~closed /\ ~r.closed /\ ~readEnabled => Quieted(r.readEnabled, cmds, d)
    BY <2>2, QueueFacts, QuietedLater
  <2>. QED
    BY <2>1, <2>2, <2>3, <2>4, QueueFacts, EnableReadStep
<1>2. CASE Pause
  <2>. DEFINE m == ToReactor("disableRead", 0, received)
  <2>1. /\ UNCHANGED <<received, delivered, closed, evts, readFinished>>
        /\ UNCHANGED <<shardUp, reactorVars, socketVars>>
        /\ sub = "listening" /\ sub' = "paused"
    BY <1>2 DEF Pause
  <2>2. m \in Cmd /\ m.kind = "disableRead" /\ m.lo = received
    BY QueueFacts, ToReactorType DEF CmdKind, ToReactor, Message
  <2>3. UNCHANGED <<r, rd>>
    BY <2>1 DEF reactorVars, socketVars
  <2>4. CASE closed
    BY <2>1, <2>4, QueueFacts, TeardownStep
  <2>5. CASE ~closed /\ cmds' = cmds /\ readEnabled' = readEnabled /\ ~readEnabled
    <3>1. EventsLinked' /\ CommandsLinked' /\ PausedOff' /\ Quiet'
      BY <2>1, <2>3, <2>5, QueueFacts DEF EventsLinked, CommandsLinked, PausedOff, Quiet
    <3>2. EofReported(evts, readFinished, received)'
      BY <2>1, <2>3, <2>5, QueueFacts DEF EofReported
    <3>. QED
      BY <2>1, <2>5, <3>1, <3>2, QueueFacts, OpenStep
  <2>6. CASE ~closed /\ ~InputPaused /\ readEnabled
    <3>1. readEnabled' = FALSE /\ cmds' = IF shardUp THEN Append(cmds, m) ELSE cmds
      BY <1>2, <2>6 DEF Pause
    <3>2. delivered = received
      BY <2>6, QueueFacts DEF InputPaused
    <3>3. CommandsLinked'
      <4> SUFFICES ASSUME ~r.closed
                   PROVE  Linked(cmds', "inboundConsumed", rd - r.pendingInbound, received)
        BY <2>1, <2>3 DEF CommandsLinked
      <4>1. shardUp
        BY DEF InboundInv, LoopOpen
      <4>. QED
        BY <2>6, <3>1, <4>1, QueueFacts, SendCommand DEF CmdKind
    <3>4. Quiet'
      <4> SUFFICES ASSUME ~r.closed PROVE Quieted(r.readEnabled, cmds', delivered)
        BY <2>1, <2>3 DEF Quiet
      <4>1. shardUp
        BY DEF InboundInv, LoopOpen
      <4>2. cmds' = Append(cmds, m)
        BY <3>1, <4>1
      <4>. HIDE DEF m
      <4>. QED
        BY <2>2, <3>2, <4>2, QueueFacts, QuietedDisable
    <3>5. EventsLinked' /\ PausedOff'
      BY <2>1, <2>3, <2>6, <3>1, QueueFacts DEF EventsLinked, PausedOff
    <3>6. EofReported(evts, readFinished, received)'
      BY <2>1, <2>3, <2>6, QueueFacts DEF EofReported
    <3>. QED
      BY <2>1, <2>6, <3>3, <3>4, <3>5, <3>6, QueueFacts, OpenStep
  <2>7. CASE ~closed /\ ~(~InputPaused /\ readEnabled)
    <3>1. cmds' = cmds /\ readEnabled' = readEnabled
      BY <1>2, <2>7 DEF Pause
    <3>2. ~readEnabled
      BY <2>7, QueueFacts DEF InputPaused
    <3>. QED
      BY <2>5, <2>7, <3>1, <3>2
  <2>. QED
    BY <2>4, <2>6, <2>7
<1>3. CASE Cancel
  <2>1. /\ UNCHANGED <<received, closed, evts, cmds, readEnabled, readFinished>>
        /\ UNCHANGED <<shardUp, reactorVars, socketVars>>
        /\ sub' = "cancelled" /\ delivered' = received
    BY <1>3 DEF Cancel, flagVars
  <2>2. UNCHANGED <<r, rd>>
    BY <2>1 DEF reactorVars, socketVars
  <2>3. CASE closed
    BY <2>1, <2>3, QueueFacts, TeardownStep
  <2>4. CASE ~closed
    <3>1. EventsLinked' /\ CommandsLinked' /\ PausedOff'
      BY <2>1, <2>2, <2>4, QueueFacts DEF EventsLinked, CommandsLinked, PausedOff
    <3>2. Quiet'
      BY <2>1, <2>2, <2>4, QueueFacts, QuietedLater DEF Quiet
    <3>3. EofReported(evts, readFinished, received)'
      BY <2>1, <2>2, <2>4, QueueFacts DEF EofReported
    <3>. QED
      BY <2>1, <2>4, <3>1, <3>2, <3>3, QueueFacts, OpenStep
  <2>. QED
    BY <2>3, <2>4
<1>4. CASE (\E n \in WriteSizes : Write(n)) \/ CloseWrite \/ Close
  <2>1. /\ UNCHANGED <<sub, received, delivered, readEnabled>> /\ ~closed
        /\ UNCHANGED <<shardUp, reactorVars, socketVars>>
    BY <1>4 DEF Write, CloseWrite, Close
  <2>2. UNCHANGED <<r, rd>>
    BY <2>1 DEF reactorVars, socketVars
  <2>3. CASE closed'
    <3>1. evts' = <<>>
      BY <1>4, <2>1, <2>3 DEF Write, CloseWrite, Close, FinishWithError, Teardown
    <3>. QED
      BY <2>1, <2>3, <3>1, QueueFacts, ReceivedRead, TeardownStep
  <2>4. CASE ~closed'
    <3>1. PICK kind \in {"write", "shutdownWrite"} :
            cmds' = Append(cmds, ToReactor(kind, Len(futures) + 1, received))
      BY <1>4, <2>4 DEF Write, CloseWrite, Close, FinishWithError, Teardown
    <3>2. evts' = evts /\ readFinished' = readFinished
      BY <1>4, <2>4 DEF Write, CloseWrite, Close, FinishWithError, Teardown
    <3>. DEFINE m == ToReactor(kind, Len(futures) + 1, received)
    <3>3. Len(futures) + 1 \in Nat
      BY DEF InboundInv, TypeOK
    <3>4. m \in Cmd /\ m.kind = kind
      BY <3>3, QueueFacts, ToReactorType DEF CmdKind, ToReactor, Message
    <3>5. EventsLinked' /\ PausedOff'
      <4>1. /\ Linked(evts, "data", received, rd)
            /\ sub = "paused" \/ delivered < received => ~readEnabled
        BY <2>1, QueueFacts
      <4>. QED
        BY <2>1, <2>2, <2>4, <3>2, <4>1 DEF EventsLinked, PausedOff
    <3>6. CommandsLinked'
      <4> SUFFICES ASSUME ~r.closed
                   PROVE  Linked(cmds', "inboundConsumed", rd - r.pendingInbound, received)
        BY <2>1, <2>2 DEF CommandsLinked
      <4>. QED
        BY <2>1, <3>1, <3>3, QueueFacts, SendCommand DEF CmdKind
    <3>7. Quiet'
      <4> SUFFICES ASSUME ~r.closed, ~readEnabled
                   PROVE  Quieted(r.readEnabled, cmds', delivered)
        BY <2>1, <2>2 DEF Quiet
      <4>. HIDE DEF m
      <4>1. cmds' = Append(cmds, m)
        BY <3>1 DEF m
      <4>. QED
        BY <2>1, <3>4, <4>1, QueueFacts, QuietedAppend
    <3>8. EofReported(evts, readFinished, received)'
      BY <2>1, <2>2, <3>2, QueueFacts DEF EofReported
    <3>. QED
      BY <2>1, <2>4, <3>5, <3>6, <3>7, <3>8, QueueFacts, OpenStep
  <2>. QED
    BY <2>3, <2>4
<1>. QED
  BY <1>1, <1>2, <1>3, <1>4 DEF Application

\* The event handlers' steps.
LEMMA EventStep == ASSUME InboundInv, TypeOK', HandleReactorEvent PROVE InboundInv'
<1>1. /\ ~closed /\ evts # <<>>
      /\ UNCHANGED <<shardUp, reactorVars, socketVars>>
  BY DEF HandleReactorEvent, HandleData, HandleEof, HandleReadError, HandleWriteOk,
         HandleWriteError, HandleClosed, NextEvent
<1>2. UNCHANGED <<r, rd>>
  BY <1>1 DEF reactorVars, socketVars
<1>3. Tail(evts) \in Seq(Evt) /\ Head(evts) \in Evt
  BY <1>1, QueueFacts, HeadTailType
<1>4. /\ Head(evts).lo = received /\ Head(evts).hi <= rd
      /\ Head(evts).kind = "data" <=> Head(evts).lo < Head(evts).hi
      /\ Linked(Tail(evts), "data", Head(evts).hi, rd)
      /\ Head(evts).lo \in Nat /\ Head(evts).hi \in Nat /\ Head(evts).lo <= Head(evts).hi
  BY <1>1, <1>3, QueueFacts, LinkedTail, MessageFields
<1>5. \A i \in 1 .. Len(Tail(evts)) :
          Tail(evts)[i].kind = "eof" => r.readClosed /\ Tail(evts)[i].hi = rd
  <2>1. /\ Len(Tail(evts)) = Len(evts) - 1 /\ Len(evts) \in Nat
        /\ \A i \in 1 .. Len(Tail(evts)) : Tail(evts)[i] = evts[i + 1]
    BY <1>1, QueueFacts, HeadTailProperties
  <2>2. EofReported(evts, readFinished, received)
    BY <1>1, QueueFacts
  <2>. QED
    BY <2>1, <2>2 DEF EofReported
<1>6. Head(evts).kind = "eof" => r.readClosed /\ Head(evts).hi = rd
  <2>1. Head(evts) = evts[1] /\ 1 \in 1 .. Len(evts)
    BY <1>1, QueueFacts, EmptySeq
  <2>2. EofReported(evts, readFinished, received)
    BY <1>1, QueueFacts
  <2>. QED
    BY <2>1, <2>2 DEF EofReported
<1>7. readFinished => r.readClosed /\ received = rd
  BY <1>1, QueueFacts DEF EofReported
<1>8. CASE HandleData
  <2>. DEFINE n == Head(evts).hi - Head(evts).lo
              live == sub = "listening" /\ ~InputPaused
  <2>1. PICK s \in (IF live THEN {"listening", "paused"} ELSE {sub}) :
            LET disables == live /\ s = "paused" /\ readEnabled
                q == IF disables /\ shardUp
                     THEN Append(cmds, ToReactor("disableRead", 0, received))
                     ELSE cmds
                ack == Message("inboundConsumed", 0, received, received + n)
            IN /\ sub' = s
               /\ received' = received + n
               /\ delivered' = IF live \/ ~HasListener THEN received + n ELSE delivered
               /\ EnableReadIfReady(s, delivered', received + n, readEnabled /\ ~disables,
                                    IF shardUp THEN Append(q, ack) ELSE q, Tail(evts))
    BY <1>8 DEF HandleData
  <2>. DEFINE disables == live /\ s = "paused" /\ readEnabled
              m == ToReactor("disableRead", 0, received)
              q == IF disables /\ shardUp THEN Append(cmds, m) ELSE cmds
              ack == Message("inboundConsumed", 0, received, received + n)
              sent == IF shardUp THEN Append(q, ack) ELSE q
              c == received + n
              d == IF live \/ ~HasListener THEN c ELSE delivered
  <2>2. Head(evts).kind = "data"
    BY <1>8 DEF HandleData, NextEvent
  <2>3. c = Head(evts).hi /\ n \in Nat /\ n > 0 /\ c \in Nat /\ received < c
    BY <1>4, <2>2, QueueFacts, SMTT(30)
  <2>4. d \in Nat /\ d <= c /\ delivered <= d
    BY <2>3, QueueFacts, SMTT(30)
  <2>5. /\ sub' = s /\ received' = c /\ delivered' = d
        /\ EnableReadIfReady(s, d, c, readEnabled /\ ~disables, sent, Tail(evts))
    BY <2>1
  <2>6. live => delivered = received
    BY QueueFacts DEF InputPaused
  <2>7. m \in Cmd /\ m.kind = "disableRead" /\ m.lo = received
    BY QueueFacts, ToReactorType DEF CmdKind, ToReactor, Message
  <2>8. ack \in Cmd /\ ack.kind = "inboundConsumed" /\ ack.lo = received /\ ack.hi = c
    <3>1. ack.kind = "inboundConsumed" /\ ack.lo = received /\ ack.hi = c
      BY DEF Message
    <3>2. received \in Nat /\ received <= c /\ c \in Nat
      BY <2>3, QueueFacts
    <3>3. ack \in Cmd
      <4>. HIDE DEF n
      <4>. QED
        BY <3>2, MessageType DEF CmdKind
    <3>. QED
      BY <3>1, <3>3
  <2>9. ~r.closed => shardUp
    BY DEF InboundInv, LoopOpen
  <2>10. q \in Seq(Cmd) /\ sent \in Seq(Cmd)
    <3>1. q \in Seq(Cmd)
      BY <2>7, QueueFacts, AppendProperties
    <3>. QED
      BY <2>8, <3>1, AppendProperties
  <2>11. ~r.closed => Linked(sent, "inboundConsumed", rd - r.pendingInbound, c)
    <3> SUFFICES ASSUME ~r.closed
                 PROVE  Linked(sent, "inboundConsumed", rd - r.pendingInbound, c)
      OBVIOUS
    <3>1. Linked(cmds, "inboundConsumed", rd - r.pendingInbound, received)
      BY <1>1, QueueFacts
    <3>2. Linked(Append(cmds, m), "inboundConsumed", rd - r.pendingInbound, received)
      BY <3>1, QueueFacts, SendCommand DEF CmdKind
    <3>3. Linked(q, "inboundConsumed", rd - r.pendingInbound, received)
      BY <3>1, <3>2
    <3>4. ack.kind = "inboundConsumed" <=> ack.lo < ack.hi
      BY <2>3, <2>8
    <3>5. Linked(Append(q, ack), "inboundConsumed", rd - r.pendingInbound, ack.hi)
      <4>. HIDE DEF q, ack
      <4>. QED
        BY <2>8, <2>10, <3>3, <3>4, QueueFacts, LinkedAppend
    <3>. QED
      BY <2>8, <2>9, <3>5
  <2>12. s = "paused" \/ d < c => ~(readEnabled /\ ~disables)
    <3>1. CASE live
      BY <2>1, <2>3, <3>1
    <3>2. CASE ~live /\ HasListener
      <4>1. sub = "paused" \/ delivered < received
        BY <3>2 DEF HasListener, InputPaused
      <4>. QED
        BY <1>1, <4>1, QueueFacts
    <3>3. CASE ~live /\ ~HasListener
      BY <2>1, <2>3, <3>3 DEF HasListener
    <3>. QED
      BY <3>1, <3>2, <3>3
  <2>13. ~r.closed /\ ~(readEnabled /\ ~disables) => Quieted(r.readEnabled, sent, d)
    <3> SUFFICES ASSUME ~r.closed, ~(readEnabled /\ ~disables)
                 PROVE  Quieted(r.readEnabled, sent, d)
      OBVIOUS
    <3>1. Quieted(r.readEnabled, q, d)
      <4>1. CASE disables
        <5>1. q = Append(cmds, m) /\ m.lo <= d
          BY <2>4, <2>6, <2>7, <2>9, <4>1, QueueFacts
        <5>. HIDE DEF q, m, d
        <5>. QED
          BY <2>4, <2>7, <5>1, QueueFacts, QuietedDisable
      <4>2. CASE ~disables
        <5>1. q = cmds /\ ~readEnabled
          BY <4>2
        <5>2. Quieted(r.readEnabled, cmds, delivered)
          BY <1>1, <5>1, QueueFacts
        <5>. HIDE DEF q, d
        <5>. QED
          BY <2>4, <5>1, <5>2, QueueFacts, QuietedLater
      <4>. QED
        BY <4>1, <4>2
    <3>2. Quieted(r.readEnabled, Append(q, ack), d)
      <4>. HIDE DEF q, ack, d
      <4>. QED
        BY <2>4, <2>8, <2>10, <3>1, QueueFacts, QuietedAppend
    <3>. QED
      BY <2>9, <3>2
  <2>14. EofReported(Tail(evts), readFinished, c)
    BY <1>4, <1>5, <1>7, <2>3, QueueFacts, SMTT(30) DEF EofReported
  <2>15. Linked(Tail(evts), "data", c, rd)
    BY <1>4, <2>3
  <2>16. (readEnabled /\ ~disables) \in BOOLEAN
    OBVIOUS
  <2>. HIDE DEF n, live, disables, m, q, ack, sent, c, d
  <2>. QED
    BY <1>1, <1>3, <2>4, <2>3, <2>5, <2>10, <2>11, <2>12, <2>13, <2>14, <2>15, <2>16,
       EnableReadStep
<1>9. CASE ~HandleData
  <2>1. UNCHANGED <<sub, received, delivered, readEnabled, cmds>>
    BY <1>9 DEF HandleReactorEvent, HandleEof, HandleReadError, HandleWriteOk,
                HandleWriteError, HandleClosed
  <2>2. CASE closed'
    <3>1. evts' = <<>>
      BY <1>1, <1>9, <2>2 DEF HandleReactorEvent, HandleEof, HandleReadError,
           HandleWriteOk, HandleWriteError, HandleClosed, MaybeCompleteDone,
           FinishWithError, Teardown
    <3>. QED
      BY <1>1, <2>1, <2>2, <3>1, QueueFacts, ReceivedRead, TeardownStep
  <2>3. CASE ~closed'
    <3>1. evts' = Tail(evts) /\ (readFinished' => readFinished \/ Head(evts).kind = "eof")
      BY <1>9, <2>3 DEF HandleReactorEvent, HandleEof, HandleReadError, HandleWriteOk,
           HandleWriteError, HandleClosed, MaybeCompleteDone, FinishWithError, Teardown,
           NextEvent
    <3>2. Head(evts).kind # "data"
      BY <1>9 DEF HandleReactorEvent, HandleEof, HandleReadError, HandleWriteOk,
           HandleWriteError, HandleClosed, NextEvent
    <3>3. Head(evts).hi = received
      BY <1>4, <3>2
    <3>4. EventsLinked'
      BY <1>2, <1>4, <2>1, <2>3, <3>1, <3>3 DEF EventsLinked
    <3>5. CommandsLinked' /\ PausedOff' /\ Quiet'
      BY <1>1, <1>2, <2>1, QueueFacts DEF CommandsLinked, PausedOff, Quiet
    <3>6. EofReported(evts, readFinished, received)'
      BY <1>2, <1>5, <1>6, <1>7, <2>1, <3>1, <3>3 DEF EofReported
    <3>. QED
      BY <1>1, <2>1, <2>3, <3>4, <3>5, <3>6, QueueFacts, OpenStep
  <2>. QED
    BY <2>2, <2>3
<1>. QED
  BY <1>8, <1>9

-----------------------------------------------------------------------------
(* The theorems.                                                           *)

\* The invariant is inductive.
LEMMA InboundInvariant == Spec => []InboundInv
<1>1. TypeOK /\ Init => InboundInv
  <2> SUFFICES ASSUME TypeOK, Init PROVE InboundInv
    OBVIOUS
  <2>1. /\ evts = <<>> /\ cmds = <<>> /\ received = 0 /\ delivered = 0 /\ rd = 0
        /\ r = Registered /\ ~readFinished /\ ~closed /\ sub = "none" /\ ~readEnabled
        /\ shardUp /\ agenda = {}
    BY DEF Init
  <2>2. Len(evts) = 0 /\ Len(cmds) = 0
    BY <2>1
  <2>3. /\ r.pendingInbound = 0 /\ ~r.readEnabled /\ ~r.readClosed /\ ~r.closed
    BY <2>1 DEF Registered
  <2>4. MaxInbound \in Nat
    BY SizesAssumption
  <2>5. EventsLinked /\ CommandsLinked
    BY <2>1, <2>2, <2>3 DEF EventsLinked, CommandsLinked, Linked
  <2>6. PausedOff /\ Quiet /\ LoopOpen /\ EofSeen
    BY <2>1, <2>2, <2>3
       DEF PausedOff, Quiet, Quieted, NoEnable, LoopOpen, EofSeen, EofReported
  <2>7. UndeliveredBounded
    BY <2>1, <2>4 DEF UndeliveredBounded
  <2>. QED
    BY <2>1, <2>3, <2>4, <2>5, <2>6, <2>7 DEF InboundInv
<1>2. InboundInv /\ TypeOK' /\ [Next]_vars => InboundInv'
  <2> SUFFICES ASSUME InboundInv, TypeOK', [Next]_vars PROVE InboundInv'
    OBVIOUS
  <2>1. CASE UNCHANGED vars
    BY <2>1 DEF vars, mainVars, inputVars, flagVars, writeVars, socketVars, peerVars,
          reactorVars, loopVars, InboundInv, EventsLinked, CommandsLinked, PausedOff,
          Quiet, LoopOpen, EofSeen, EofReported, UndeliveredBounded
  <2>2. CASE Next
    BY <2>2, ApplicationStep, EventStep, CommandStep, LoopStep, ReadStep, FlushStep,
       PeerStep DEF Next, Reactor
  <2>. QED
    BY <2>1, <2>2
<1>3. Spec => []TypeOK
  BY TypeCorrect
<1>. QED
  BY <1>1, <1>2, <1>3, PTL DEF Spec

\* Whatever the application, the peer and the scheduler do, no more than
\* maxInboundQueuedBytes bytes are ever read from the descriptor and not yet
\* delivered, although the main isolate acknowledges bytes it only buffered.
THEOREM InboundBounded == Spec => []UndeliveredBounded
<1>1. InboundInv => UndeliveredBounded
  BY DEF InboundInv
<1>. QED
  BY <1>1, InboundInvariant, PTL

\* The end of file reaches the main isolate after every byte the peer sent, and
\* only when there are no more.
THEOREM EofCorrect == Spec => []EofComplete
<1>1. InboundInv => EofComplete
  <2> SUFFICES ASSUME InboundInv PROVE EofComplete
    OBVIOUS
  <2>1. readFinished /\ ~closed => received = peerSent
    BY DEF InboundInv, EofSeen, EofReported
  <2>2. ASSUME NEW i \in DOMAIN evts, evts[i].kind = "eof", ~closed
        PROVE  /\ peerFin /\ evts[i].hi = peerSent
               /\ \A j \in i .. Len(evts) : evts[j].kind # "data"
    <3>1. i \in 1 .. Len(evts) /\ Len(evts) \in Nat /\ rd \in Nat
      BY QueueFacts, LenProperties
    <3>2. r.readClosed /\ evts[i].hi = rd /\ peerFin /\ rd = peerSent
      BY <2>2, <3>1 DEF InboundInv, EofSeen, EofReported
    <3>3. ASSUME NEW j \in i .. Len(evts), evts[j].kind = "data" PROVE FALSE
      <4>1. j \in 1 .. Len(evts) /\ j # i /\ i < j
        BY <2>2, <3>1, <3>3
      <4>2. Linked(evts, "data", received, rd)
        BY <2>2, QueueFacts
      <4>3. evts[i].hi <= evts[j].lo /\ evts[j].lo < evts[j].hi /\ evts[j].hi <= rd
        BY <3>1, <3>3, <4>1, <4>2 DEF Linked
      <4>4. evts[j].lo \in Nat /\ evts[j].hi \in Nat
        BY <4>1, QueueFacts, ElementOfSeq, MessageFields
      <4>. QED
        BY <3>1, <3>2, <4>3, <4>4
    <3>. QED
      BY <3>2, <3>3
  <2>3. closed => evts = <<>>
    BY QueueFacts
  <2>. QED
    BY <2>1, <2>2, <2>3 DEF EofComplete
<1>. QED
  BY <1>1, InboundInvariant, PTL

-----------------------------------------------------------------------------
(* The interest mask: what lastInterest says of reading is what the state  *)
(* wants, unless the read loop has just filled the queue and has yet to    *)
(* return.                                                                 *)

\* The mask of s is the one _updateReactorInterest would compute now.
ReadCurrent(s) == "read" \in s.interest <=> "read" \in Wanted(s)

\* A mask that is stale belongs to a read loop that can only yield, and recompute it.
InterestKept ==
    ~r.closed => ReadCurrent(r) \/ (Reading /\ CanRead /\ ~InboundRoom)

\* _closeReactorState and its form with an error close the state.
LEMMA CloseCloses ==
    ASSUME NEW s \in ReactorState, NEW out, CloseReactorState(s, out) \/ FailReactorState(s, out)
    PROVE  r'.closed
<1>1. r' = ClosedState(s)
  BY DEF CloseReactorState, FailReactorState, Reply
<1>2. ClosedState(s).closed
  BY DEF ClosedState, ReactorState
<1> QED  BY <1>1, <1>2

\* After _updateReactorInterest the mask is current, or the state is closed.
LEMMA UpdateCurrent ==
    ASSUME NEW s \in ReactorState, NEW out, UpdateInterest(s, out) \/ UpdateFails(s, out)
    PROVE  r'.closed \/ ReadCurrent(r')
<1>1. CASE UpdateFails(s, out)
  BY <1>1, CloseCloses DEF UpdateFails
<1>2. CASE Reply([s EXCEPT !.interest = Wanted(s)], out)
  <2>1. r' = [s EXCEPT !.interest = Wanted(s)]
    BY <1>2 DEF Reply
  <2>2. /\ r'.interest = Wanted(s)
        /\ r'.readEnabled = s.readEnabled /\ r'.readClosed = s.readClosed
        /\ r'.pendingInbound = s.pendingInbound
    BY <2>1 DEF ReactorState
  <2>3. "read" \in Wanted(r') <=> "read" \in Wanted(s)
    BY <2>2 DEF Wanted
  <2> QED  BY <2>2, <2>3 DEF ReadCurrent
<1> QED  BY <1>1, <1>2 DEF UpdateInterest

\* A step that leaves alone what the mask depends on leaves it current.
LEMMA StillCurrent ==
    ASSUME ReadCurrent(r),
           r'.interest = r.interest, r'.readEnabled = r.readEnabled,
           r'.readClosed = r.readClosed, r'.pendingInbound = r.pendingInbound
    PROVE  ReadCurrent(r')
  BY DEF ReadCurrent, Wanted

\* Between two dispatches, and during a flush, no read loop is under way.
LEMMA NotReading ==
    ASSUME InterestKept, ~r.closed, agenda = {} \/ Flushing \/ ~CanRead \/ InboundRoom
    PROVE  ReadCurrent(r)
  BY DEF InterestKept, Reading, Flushing

\* A command leaves the mask current.
LEMMA CommandInterest ==
    ASSUME TypeOK, InterestKept, ProcessCommand
    PROVE  InterestKept'
<1>1. r \in ReactorState
  BY DEF TypeOK
<1>2. CASE ProcessDropped
  BY <1>2 DEF ProcessDropped, reactorVars, loopVars, InterestKept
<1>3. CASE ProcessEnableRead
  <2>1. [r EXCEPT !.readEnabled = TRUE] \in ReactorState
    BY <1>1 DEF ReactorState
  <2> QED  BY <1>3, <2>1, UpdateCurrent DEF ProcessEnableRead, InterestKept
<1>4. CASE ProcessDisableRead
  <2>1. [r EXCEPT !.readEnabled = FALSE] \in ReactorState
    BY <1>1 DEF ReactorState
  <2> QED  BY <1>4, <2>1, UpdateCurrent DEF ProcessDisableRead, InterestKept
<1>5. CASE ProcessInboundConsumed
  <2>1. cmds # <<>> /\ cmds \in Seq(Cmd)
    BY <1>5 DEF ProcessInboundConsumed, NextCommand, TypeOK
  <2>2. Head(cmds) \in Cmd
    BY <2>1, HeadTailType
  <2>3. Head(cmds).hi - Head(cmds).lo \in Nat
    BY <2>2 DEF Cmd
  <2>4. ASSUME NEW n \in Nat PROVE Acknowledged(n) \in ReactorState
    <3>1. r.pendingInbound \in Nat
      BY <1>1 DEF ReactorState
    <3>2. (IF n > r.pendingInbound THEN 0 ELSE r.pendingInbound - n) \in Nat
      BY <3>1
    <3> QED  BY <1>1, <3>2 DEF Acknowledged, ReactorState
  <2> QED  BY <1>5, <2>3, <2>4, UpdateCurrent DEF ProcessInboundConsumed, InterestKept
<1>6. CASE ProcessWrite \/ ProcessShutdownWrite
  <2>1. agenda = {} /\ ~r.closed
    BY <1>6 DEF ProcessWrite, ProcessShutdownWrite, NextCommand
  <2>2. /\ r'.interest = r.interest /\ r'.readEnabled = r.readEnabled
        /\ r'.readClosed = r.readClosed /\ r'.pendingInbound = r.pendingInbound
    BY <1>1, <1>6 DEF ProcessWrite, ProcessShutdownWrite, ReactorState
  <2> QED  BY <2>1, <2>2, NotReading, StillCurrent DEF InterestKept
<1>7. CASE ProcessClose
  BY <1>1, <1>7, CloseCloses DEF ProcessClose, InterestKept
<1> QED  BY <1>2, <1>3, <1>4, <1>5, <1>6, <1>7 DEF ProcessCommand

\* A read leaves the mask current, or has filled the queue.
LEMMA ReadInterest ==
    ASSUME TypeOK, InterestKept, Read
    PROVE  InterestKept'
<1>1. r \in ReactorState
  BY DEF TypeOK
<1>2. CASE ReadRefused \/ ReadAgain
  <2>1. r' = r /\ (~CanRead \/ InboundRoom)
    BY <1>2 DEF ReadRefused, ReadAgain
  <2> QED  BY <2>1, NotReading DEF InterestKept
<1>3. CASE ReadYields
  BY <1>1, <1>3, UpdateCurrent DEF ReadYields, InterestKept
<1>4. CASE ReadData
  <2>1. PICK n \in 1 .. ReadChunk :
            Reply([r EXCEPT !.pendingInbound = @ + n], <<Message("data", 0, rd, rd + n)>>)
    BY <1>4 DEF ReadData
  <2>2. /\ r'.interest = r.interest /\ r'.readEnabled = r.readEnabled
        /\ r'.readClosed = r.readClosed /\ r'.closed = r.closed
    BY <1>1, <2>1 DEF Reply, ReactorState
  <2>3. Reading /\ CanRead /\ InboundRoom /\ agenda' = agenda
    BY <1>4 DEF ReadData
  <2>4. Reading' /\ CanRead'
    BY <2>2, <2>3 DEF Reading, CanRead
  <2>5. InboundRoom' => ("read" \in Wanted(r)' <=> "read" \in Wanted(r))
    BY <2>2, <2>3 DEF Wanted, InboundRoom
  <2> QED  BY <2>2, <2>3, <2>4, <2>5, NotReading DEF InterestKept, ReadCurrent
<1>5. CASE ReadEof
  <2> DEFINE s == [r EXCEPT !.readClosed = TRUE, !.readEnabled = FALSE]
  <2>1. s \in ReactorState
    BY <1>1 DEF ReactorState
  <2>2. \E out : \/ CloseReactorState(s, out) \/ UpdateFails(s, out)
                 \/ UpdateInterest(s, out)
    BY <1>5 DEF ReadEof
  <2> HIDE DEF s
  <2> QED  BY <2>1, <2>2, CloseCloses, UpdateCurrent DEF InterestKept
<1>6. CASE ReadFails
  BY <1>1, <1>6, CloseCloses DEF ReadFails, InterestKept
<1> QED  BY <1>2, <1>3, <1>4, <1>5, <1>6 DEF Read

\* A flush never touches what the mask says of reading.
LEMMA FlushInterest ==
    ASSUME TypeOK, InterestKept, Flush
    PROVE  InterestKept'
<1>1. r \in ReactorState
  BY DEF TypeOK
<1>2. Flushing
  BY DEF Flush, FlushRefused, FlushBytes, FlushAgain, FlushFails, FlushShutdown,
         FlushShutdownFails, FlushYields, Queued, Drained
<1>3. CASE FlushRefused
  BY <1>2, <1>3, NotReading DEF FlushRefused, InterestKept
<1>4. CASE FlushBytes
  <2>1. \E n : \/ r' = [r EXCEPT !.writes = Tail(@)]
               \/ r' = [r EXCEPT !.writes[1].offset = n]
    BY <1>4 DEF FlushBytes, Reply
  <2>2. /\ r'.interest = r.interest /\ r'.readEnabled = r.readEnabled
        /\ r'.readClosed = r.readClosed /\ r'.pendingInbound = r.pendingInbound
        /\ r'.closed = r.closed
    BY <1>1, <2>1 DEF ReactorState
  <2> QED  BY <1>2, <2>2, NotReading, StillCurrent DEF InterestKept
<1>5. CASE FlushAgain \/ FlushYields
  BY <1>1, <1>5, UpdateCurrent DEF FlushAgain, FlushYields, InterestKept
<1>6. CASE FlushFails \/ FlushShutdownFails
  BY <1>1, <1>6, CloseCloses DEF FlushFails, FlushShutdownFails, InterestKept
<1>7. CASE FlushShutdown
  <2> DEFINE s == [r EXCEPT !.writeClosed = TRUE]
  <2>1. s \in ReactorState
    BY <1>1 DEF ReactorState
  <2>2. \E out : CloseReactorState(s, out) \/ Reply(s, out)
    BY <1>7 DEF FlushShutdown
  <2>3. ASSUME NEW out, Reply(s, out) PROVE InterestKept'
    <3>1. /\ r'.interest = r.interest /\ r'.readEnabled = r.readEnabled
          /\ r'.readClosed = r.readClosed /\ r'.pendingInbound = r.pendingInbound
          /\ r'.closed = r.closed
      BY <1>1, <2>3 DEF ReactorState, Reply
    <3> QED  BY <1>2, <3>1, NotReading, StillCurrent DEF InterestKept
  <2> HIDE DEF s
  <2> QED  BY <2>1, <2>2, <2>3, CloseCloses DEF InterestKept
<1> QED  BY <1>3, <1>4, <1>5, <1>6, <1>7 DEF Flush

\* Everything else leaves the reactor state alone, but for the loop that fails as a whole.
LEMMA OtherInterest ==
    ASSUME TypeOK, InterestKept,
           \/ Application \/ HandleReactorEvent \/ Peer \/ UNCHANGED vars
           \/ Wait \/ WaitFails \/ IdleExit \/ Dispatch
    PROVE  InterestKept'
<1>1. r \in ReactorState
  BY DEF TypeOK
<1>2. CASE Application \/ HandleReactorEvent \/ Peer \/ UNCHANGED vars
  <2>1. UNCHANGED <<r, agenda>>
    BY <1>2 DEF Application, Listen, Pause, Resume, DeliverBuffered, Cancel, Write,
                CloseWrite, Close, HandleReactorEvent, HandleData, HandleEof,
                HandleReadError, HandleWriteOk, HandleWriteError, HandleClosed,
                Peer, PeerSends, PeerConsumes, PeerEnds, vars, reactorVars, loopVars
  <2> QED  BY <2>1 DEF InterestKept, Reading, CanRead, InboundRoom
<1>3. CASE Wait \/ IdleExit
  BY <1>3 DEF Wait, IdleExit, reactorVars, loopVars, InterestKept, Reading, CanRead,
              InboundRoom
<1>4. CASE WaitFails
  <2>1. CASE r.closed
    BY <1>4, <2>1 DEF WaitFails, InterestKept
  <2>2. CASE ~r.closed
    BY <1>1, <1>4, <2>2, CloseCloses DEF WaitFails, InterestKept
  <2> QED  BY <2>1, <2>2
<1>5. CASE Dispatch
  BY <1>5, NotReading DEF Dispatch, InterestKept
<1> QED  BY <1>2, <1>3, <1>4, <1>5

\* The mask cached in lastInterest is exact between two dispatches, whatever the sizes, the
\* commands and the faults: no command, read or flush leaves _updateReactorInterest out when
\* the mask would change.
THEOREM InterestExact == Spec => []ReadInterestExact
<1>1. Init => InterestKept
  BY DEF Init, Registered, InterestKept, ReadCurrent, Wanted
<1>2. TypeOK /\ InterestKept /\ [Next]_vars => InterestKept'
  BY CommandInterest, ReadInterest, FlushInterest, OtherInterest DEF Next, Reactor
<1>3. InterestKept => ReadInterestExact
  BY DEF InterestKept, ReadInterestExact, ReadCurrent, Reading
<1> QED  BY <1>1, <1>2, <1>3, TypeCorrect, PTL DEF Spec
=============================================================================
