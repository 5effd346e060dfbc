--------------------------- MODULE WorkerRpc_proofs ---------------------------
(***************************************************************************)
(* WorkerRpc, for any number of callers: the types, that every response    *)
(* reaches the request it answers, and that nobody waits for a worker that *)
(* is gone.                                                                *)
(*                                                                         *)
(* That a response belongs to the oldest request is a fact about the whole *)
(* path of a command, from _pendingRequests through the queue of the       *)
(* worker and its execution to the inbox of the main isolate: the open     *)
(* requests are on it in the order of _pendingRequests, none twice and     *)
(* none missing before another (Aligned).                                  *)
(***************************************************************************)
EXTENDS WorkerRpc, TLAPS, SequenceTheorems

-----------------------------------------------------------------------------
(* The inductive invariant.                                                *)

\* What each state of the worker isolate excludes.
Shapes ==
    /\ disposed => isolate = "dead" /\ waiting = <<>> /\ pending = <<>> /\ inbox = <<>>
    /\ isolate # "running" => queue = <<>> /\ executing = <<>>
    /\ isolate = "booting" => port = "pending" /\ inbox = <<>>
    /\ ~disposed => port # "failed"
    /\ port = "pending" => pending = <<>>
    /\ port # "pending" => waiting = <<>>
    /\ \A i \in 1 .. Len(inbox) : inbox[i].kind \in {"bootFailure", "exit"} => isolate = "dead"

\* The callers in `waiting' wait for the port, and each is in it once.
Waiters ==
    \A i \in 1 .. Len(waiting) :
        /\ call[waiting[i]].at = "waiting"
        /\ \A j \in 1 .. Len(waiting) : waiting[j] = waiting[i] => j = i

\* The callers in _pendingRequests await the request that is recorded there.
Senders ==
    \A i \in 1 .. Len(pending) :
        LET c == pending[i].from IN call[c].at = "sent" /\ call[c].n = pending[i].n

\* Command number n, of caller c, is open and the main isolate knows it as such.
Open(p, a, n, c) == n \in a + 1 .. a + Len(p) /\ p[n - a].from = c

\* The response to command n is among the first i messages of the inbox b.
Answer(b, i, n) == \E j \in 1 .. i : b[j].kind = "response" /\ b[j].n = n

Queued(q, i, n) == \E j \in 1 .. i : q[j].kind = "command" /\ q[j].n = n

\* The pending requests p, of which a were answered before, are those on the path: in
\* the queue q, under execution in e, or answered in the inbox b.
Numbered(p, a) == \A i \in 1 .. Len(p) : p[i].n = a + i

InboxAligned(p, a, b) ==
    \A i \in 1 .. Len(b) : b[i].kind = "response" =>
        /\ Open(p, a, b[i].n, b[i].to)
        /\ \A k \in a + 1 .. b[i].n - 1 : Answer(b, i - 1, k)
        /\ \A j \in 1 .. i - 1 : b[j].kind = "response" => b[j].n < b[i].n

ExecutingAligned(p, a, b, e) ==
    \A i \in 1 .. Len(e) :
        /\ Open(p, a, e[i].n, e[i].from)
        /\ \A k \in a + 1 .. e[i].n - 1 : Answer(b, Len(b), k)
        /\ \A j \in 1 .. Len(b) : b[j].kind = "response" => b[j].n < e[i].n

Executed(e, n) == \E i \in 1 .. Len(e) : e[i].n = n

QueueAligned(p, a, b, e, q) ==
    \A i \in 1 .. Len(q) : q[i].kind = "command" =>
        /\ Open(p, a, q[i].n, q[i].from)
        /\ \A k \in a + 1 .. q[i].n - 1 :
             Answer(b, Len(b), k) \/ Executed(e, k) \/ Queued(q, i - 1, k)
        /\ \A j \in 1 .. i - 1 : q[j].kind = "command" => q[j].n < q[i].n
        /\ \A j \in 1 .. Len(e) : e[j].n < q[i].n
        /\ \A j \in 1 .. Len(b) : b[j].kind = "response" => b[j].n < q[i].n

\* Nothing is lost while the worker runs.
AllThere(p, a, b, e, q) ==
    \A k \in a + 1 .. a + Len(p) :
        Answer(b, Len(b), k) \/ Executed(e, k) \/ Queued(q, Len(q), k)

Aligned(p, a, b, e, q, up) ==
    /\ Numbered(p, a) /\ InboxAligned(p, a, b) /\ ExecutingAligned(p, a, b, e)
    /\ QueueAligned(p, a, b, e, q)
    /\ up => AllThere(p, a, b, e, q)

Path ==
    ~disposed =>
        /\ sent = answered + Len(pending)
        /\ Aligned(pending, answered, inbox, executing, queue, isolate = "running")

RpcInv == RpcTypeOK /\ Shapes /\ Waiters /\ Senders /\ Path /\ AnswersMatch /\ NobodyForgotten

-----------------------------------------------------------------------------
(* What each operation on a message does to the path.                      *)

Inbox == Response \cup Push \cup Notice

\* Only responses and commands carry a number.
LEMMA Numbers ==
    /\ \A m \in Inbox : m.kind = "response" => m \in Response
    /\ \A m \in Command \cup Push : m.kind = "command" => m \in Command
    /\ \A m \in Response : m.n \in Nat /\ m.to \in Caller
    /\ \A m \in Command : m.n \in Nat /\ m.from \in Caller
    /\ \A m \in Completer : m.n \in Nat /\ m.from \in Caller
BY DEF Inbox, Response, Push, Notice, Command, Completer

\* The rest of the path only looks at which responses there are.
LEMMA SameResponses ==
    ASSUME NEW p, NEW a, NEW b, NEW c, NEW e, NEW q, NEW up,
           \A k : Answer(c, Len(c), k) <=> Answer(b, Len(b), k),
           \A j \in 1 .. Len(c) : c[j].kind = "response" => \E i \in 1 .. Len(b) : b[i] = c[j],
           InboxAligned(p, a, c), Aligned(p, a, b, e, q, up)
    PROVE  Aligned(p, a, c, e, q, up)
<1>1. ExecutingAligned(p, a, c, e)
  <2> SUFFICES ASSUME NEW i \in 1 .. Len(e)
               PROVE  /\ Open(p, a, e[i].n, e[i].from)
                      /\ \A k \in a + 1 .. e[i].n - 1 : Answer(c, Len(c), k)
                      /\ \A j \in 1 .. Len(c) : c[j].kind = "response" => c[j].n < e[i].n
    BY DEF ExecutingAligned
  <2>1. /\ Open(p, a, e[i].n, e[i].from)
        /\ \A k \in a + 1 .. e[i].n - 1 : Answer(b, Len(b), k)
        /\ \A j \in 1 .. Len(b) : b[j].kind = "response" => b[j].n < e[i].n
    BY DEF Aligned, ExecutingAligned
  <2>2. ASSUME NEW j \in 1 .. Len(c), c[j].kind = "response"  PROVE c[j].n < e[i].n
    <3>1. PICK l \in 1 .. Len(b) : b[l] = c[j]
      BY <2>2
    <3> QED  BY <2>1, <2>2, <3>1
  <2> QED  BY <2>1, <2>2
<1>2. QueueAligned(p, a, c, e, q)
  <2> SUFFICES ASSUME NEW i \in 1 .. Len(q), q[i].kind = "command"
               PROVE  /\ Open(p, a, q[i].n, q[i].from)
                      /\ \A k \in a + 1 .. q[i].n - 1 :
                           Answer(c, Len(c), k) \/ Executed(e, k) \/ Queued(q, i - 1, k)
                      /\ \A j \in 1 .. i - 1 : q[j].kind = "command" => q[j].n < q[i].n
                      /\ \A j \in 1 .. Len(e) : e[j].n < q[i].n
                      /\ \A j \in 1 .. Len(c) : c[j].kind = "response" => c[j].n < q[i].n
    BY DEF QueueAligned
  <2>1. /\ Open(p, a, q[i].n, q[i].from)
        /\ \A k \in a + 1 .. q[i].n - 1 :
             Answer(b, Len(b), k) \/ Executed(e, k) \/ Queued(q, i - 1, k)
        /\ \A j \in 1 .. i - 1 : q[j].kind = "command" => q[j].n < q[i].n
        /\ \A j \in 1 .. Len(e) : e[j].n < q[i].n
        /\ \A j \in 1 .. Len(b) : b[j].kind = "response" => b[j].n < q[i].n
    BY DEF Aligned, QueueAligned
  <2>2. ASSUME NEW j \in 1 .. Len(c), c[j].kind = "response"  PROVE c[j].n < q[i].n
    <3>1. PICK l \in 1 .. Len(b) : b[l] = c[j]
      BY <2>2
    <3> QED  BY <2>1, <2>2, <3>1
  <2> QED  BY <2>1, <2>2
<1>3. up => AllThere(p, a, c, e, q)
  BY DEF Aligned, AllThere
<1> QED  BY <1>1, <1>2, <1>3 DEF Aligned

\* A message that is no response joins the inbox.
LEMMA OtherJoins ==
    ASSUME NEW p, NEW a, NEW b \in Seq(Inbox), NEW e, NEW q, NEW up,
           NEW m \in Inbox, m.kind # "response", NEW c, c = Append(b, m),
           Aligned(p, a, b, e, q, up)
    PROVE  Aligned(p, a, c, e, q, up)
<1>1. /\ Len(c) = Len(b) + 1 /\ Len(b) \in Nat
      /\ \A i \in 1 .. Len(b) : c[i] = b[i]
      /\ c[Len(b) + 1] = m
  OBVIOUS
<1>2. \A j \in 1 .. Len(c) : c[j].kind = "response" => j \in 1 .. Len(b)
  BY <1>1
<1>3. ASSUME NEW k  PROVE Answer(c, Len(c), k) <=> Answer(b, Len(b), k)
  <2>1. \A j \in 1 .. Len(b) : j \in 1 .. Len(c)
    BY <1>1
  <2> QED  BY <1>1, <1>2, <2>1 DEF Answer
<1>4. InboxAligned(p, a, c)
  <2> SUFFICES ASSUME NEW i \in 1 .. Len(c), c[i].kind = "response"
               PROVE  /\ Open(p, a, c[i].n, c[i].to)
                      /\ \A k \in a + 1 .. c[i].n - 1 : Answer(c, i - 1, k)
                      /\ \A j \in 1 .. i - 1 : c[j].kind = "response" => c[j].n < c[i].n
    BY DEF InboxAligned
  <2>1. i \in 1 .. Len(b) /\ c[i] = b[i]
    BY <1>1, <1>2
  <2>2. /\ Open(p, a, b[i].n, b[i].to)
        /\ \A k \in a + 1 .. b[i].n - 1 : Answer(b, i - 1, k)
        /\ \A j \in 1 .. i - 1 : b[j].kind = "response" => b[j].n < b[i].n
    BY <2>1 DEF Aligned, InboxAligned
  <2>3. \A j \in 1 .. i - 1 : j \in 1 .. Len(b)
    BY <1>1, <2>1
  <2>4. \A j \in 1 .. i - 1 : c[j] = b[j]
    BY <1>1, <2>3
  <2>5. \A k \in a + 1 .. c[i].n - 1 : Answer(c, i - 1, k)
    BY <2>1, <2>2, <2>4 DEF Answer
  <2> QED  BY <2>1, <2>2, <2>4, <2>5
<1> QED  BY <1>1, <1>2, <1>3, <1>4, SameResponses, ZenonT(30)

\* A message that is no response leaves the inbox.
LEMMA OtherLeaves ==
    ASSUME NEW p, NEW a, NEW b \in Seq(Inbox), NEW e, NEW q, NEW up,
           b # <<>>, Head(b).kind # "response", NEW c, c = Tail(b),
           Aligned(p, a, b, e, q, up)
    PROVE  Aligned(p, a, c, e, q, up)
<1>1. /\ Len(c) = Len(b) - 1 /\ Len(b) \in Nat /\ Len(b) > 0
      /\ \A i \in 1 .. Len(c) : c[i] = b[i + 1]
      /\ b[1].kind # "response"
  BY HeadTailProperties
<1>2. \A i \in 1 .. Len(c) : i + 1 \in 1 .. Len(b)
  BY <1>1
<1>3. ASSUME NEW i \in 0 .. Len(c), NEW k  PROVE Answer(c, i, k) <=> Answer(b, i + 1, k)
  <2>1. ASSUME NEW j \in 1 .. i, c[j].kind = "response", c[j].n = k  PROVE Answer(b, i + 1, k)
    <3>1. j + 1 \in 1 .. i + 1 /\ b[j + 1] = c[j]
      BY <1>1
    <3> QED  BY <2>1, <3>1 DEF Answer
  <2>2. ASSUME NEW j \in 1 .. i + 1, b[j].kind = "response", b[j].n = k  PROVE Answer(c, i, k)
    <3>1. j # 1
      BY <1>1, <2>2
    <3>2. j - 1 \in 1 .. i /\ j - 1 \in 1 .. Len(c) /\ (j - 1) + 1 = j
      BY <1>1, <3>1
    <3>3. c[j - 1] = b[j]
      BY <1>1, <3>2
    <3> QED  BY <2>2, <3>2, <3>3 DEF Answer
  <2> QED  BY <2>1, <2>2 DEF Answer
<1>4. \A k : Answer(c, Len(c), k) <=> Answer(b, Len(b), k)
  <2>1. Len(c) \in 0 .. Len(c) /\ Len(c) + 1 = Len(b)
    BY <1>1
  <2> QED  BY <1>3, <2>1
<1>5. InboxAligned(p, a, c)
  <2> SUFFICES ASSUME NEW i \in 1 .. Len(c), c[i].kind = "response"
               PROVE  /\ Open(p, a, c[i].n, c[i].to)
                      /\ \A k \in a + 1 .. c[i].n - 1 : Answer(c, i - 1, k)
                      /\ \A j \in 1 .. i - 1 : c[j].kind = "response" => c[j].n < c[i].n
    BY DEF InboxAligned
  <2>1. i + 1 \in 1 .. Len(b) /\ c[i] = b[i + 1] /\ (i + 1) - 1 = i
    BY <1>1, <1>2
  <2>2. /\ Open(p, a, b[i + 1].n, b[i + 1].to)
        /\ \A k \in a + 1 .. b[i + 1].n - 1 : Answer(b, (i + 1) - 1, k)
        /\ \A j \in 1 .. (i + 1) - 1 : b[j].kind = "response" => b[j].n < b[i + 1].n
    BY <2>1 DEF Aligned, InboxAligned
  <2>3. i - 1 \in 0 .. Len(c) /\ (i - 1) + 1 = i
    BY <1>1
  <2>4. \A k \in a + 1 .. c[i].n - 1 : Answer(c, i - 1, k)
    BY <1>3, <2>1, <2>2, <2>3
  <2>5. ASSUME NEW j \in 1 .. i - 1, c[j].kind = "response"  PROVE c[j].n < c[i].n
    <3>1. j \in 1 .. Len(c) /\ j + 1 \in 1 .. (i + 1) - 1
      BY <1>1
    <3> QED  BY <1>1, <2>1, <2>2, <2>5, <3>1
  <2> QED  BY <2>1, <2>2, <2>4, <2>5
<1> QED  BY <1>1, <1>2, <1>4, <1>5, SameResponses

\* A push joins the queue.
LEMMA PushJoins ==
    ASSUME NEW p, NEW a, NEW b, NEW e, NEW q \in Seq(Command \cup Push), NEW up,
           NEW m \in Push, NEW d, d = Append(q, m),
           Aligned(p, a, b, e, q, up)
    PROVE  Aligned(p, a, b, e, d, up)
<1>1. /\ Len(d) = Len(q) + 1 /\ Len(q) \in Nat
      /\ \A i \in 1 .. Len(q) : d[i] = q[i]
      /\ d[Len(q) + 1] = m /\ m.kind # "command"
  BY DEF Push
<1>2. \A j \in 1 .. Len(d) : d[j].kind = "command" => j \in 1 .. Len(q)
  BY <1>1
<1>3. ASSUME NEW k  PROVE Queued(d, Len(d), k) <=> Queued(q, Len(q), k)
  <2>1. \A j \in 1 .. Len(q) : j \in 1 .. Len(d)
    BY <1>1
  <2> QED  BY <1>1, <1>2, <2>1 DEF Queued
<1>4. QueueAligned(p, a, b, e, d)
  <2> SUFFICES ASSUME NEW i \in 1 .. Len(d), d[i].kind = "command"
               PROVE  /\ Open(p, a, d[i].n, d[i].from)
                      /\ \A k \in a + 1 .. d[i].n - 1 :
                           Answer(b, Len(b), k) \/ Executed(e, k) \/ Queued(d, i - 1, k)
                      /\ \A j \in 1 .. i - 1 : d[j].kind = "command" => d[j].n < d[i].n
                      /\ \A j \in 1 .. Len(e) : e[j].n < d[i].n
                      /\ \A j \in 1 .. Len(b) : b[j].kind = "response" => b[j].n < d[i].n
    BY DEF QueueAligned
  <2>1. i \in 1 .. Len(q) /\ d[i] = q[i]
    BY <1>1, <1>2
  <2>2. /\ Open(p, a, q[i].n, q[i].from)
        /\ \A k \in a + 1 .. q[i].n - 1 :
             Answer(b, Len(b), k) \/ Executed(e, k) \/ Queued(q, i - 1, k)
        /\ \A j \in 1 .. i - 1 : q[j].kind = "command" => q[j].n < q[i].n
        /\ \A j \in 1 .. Len(e) : e[j].n < q[i].n
        /\ \A j \in 1 .. Len(b) : b[j].kind = "response" => b[j].n < q[i].n
    BY <2>1 DEF Aligned, QueueAligned
  <2>3. \A j \in 1 .. i - 1 : j \in 1 .. Len(q)
    BY <1>1, <2>1
  <2>4. \A j \in 1 .. i - 1 : d[j] = q[j]
    BY <1>1, <2>3
  <2>5. \A k : Queued(d, i - 1, k) <=> Queued(q, i - 1, k)
    BY <2>4 DEF Queued
  <2> QED  BY <2>1, <2>2, <2>4, <2>5
<1>5. up => AllThere(p, a, b, e, d)
  BY <1>3 DEF Aligned, AllThere
<1> QED  BY <1>4, <1>5 DEF Aligned

\* The worker takes the head of its queue; a command goes into execution.
LEMMA HeadLeaves ==
    ASSUME NEW p, NEW a \in Int, NEW b, NEW q \in Seq(Command \cup Push), NEW up,
           q # <<>>, NEW d, d = Tail(q),
           NEW e, e = IF Head(q).kind = "command" THEN <<Head(q)>> ELSE <<>>,
           Aligned(p, a, b, <<>>, q, up)
    PROVE  Aligned(p, a, b, e, d, up)
<1>1. /\ Len(d) = Len(q) - 1 /\ Len(q) \in Nat /\ Len(q) > 0
      /\ \A i \in 1 .. Len(d) : d[i] = q[i + 1]
      /\ Head(q) = q[1] /\ q[1] \in Command \cup Push
  BY HeadTailProperties
<1>2. \A i \in 1 .. Len(d) : i + 1 \in 1 .. Len(q)
  BY <1>1
<1>3. /\ \A k : ~Executed(<<>>, k)
      /\ \A k : Executed(e, k) <=> q[1].kind = "command" /\ q[1].n = k
      /\ \A i \in 1 .. Len(e) : e[i] = q[1] /\ q[1].kind = "command"
  <2>1. CASE q[1].kind = "command"
    <3>1. e = <<q[1]>> /\ Len(e) = 1 /\ e[1] = q[1]
      BY <1>1, <2>1
    <3>2. \A i \in 1 .. Len(e) : i = 1
      BY <3>1
    <3>3. 1 \in 1 .. Len(e)
      BY <3>1
    <3> QED  BY <2>1, <3>1, <3>2, <3>3 DEF Executed
  <2>2. CASE q[1].kind # "command"
    <3>1. e = <<>> /\ Len(e) = 0
      BY <1>1, <2>2
    <3> QED  BY <2>2, <3>1 DEF Executed
  <2> QED  BY <2>1, <2>2
<1>4. ASSUME NEW i \in 0 .. Len(d), NEW k
      PROVE  Queued(q, i + 1, k) <=> Executed(e, k) \/ Queued(d, i, k)
  <2>1. ASSUME NEW j \in 1 .. i, d[j].kind = "command", d[j].n = k  PROVE Queued(q, i + 1, k)
    <3>1. j + 1 \in 1 .. i + 1 /\ q[j + 1] = d[j]
      BY <1>1
    <3> QED  BY <2>1, <3>1 DEF Queued
  <2>2. ASSUME NEW j \in 1 .. i + 1, q[j].kind = "command", q[j].n = k
        PROVE  Executed(e, k) \/ Queued(d, i, k)
    <3>1. CASE j = 1
      BY <1>3, <2>2, <3>1
    <3>2. CASE j # 1
      <4>1. j - 1 \in 1 .. i /\ j - 1 \in 1 .. Len(d) /\ (j - 1) + 1 = j
        BY <1>1, <3>2
      <4>2. d[j - 1] = q[j]
        BY <1>1, <4>1
      <4> QED  BY <2>2, <4>1, <4>2 DEF Queued
    <3> QED  BY <3>1, <3>2
  <2>3. 1 \in 1 .. i + 1
    OBVIOUS
  <2> QED  BY <1>3, <2>1, <2>2, <2>3 DEF Queued
<1>5. ExecutingAligned(p, a, b, e)
  <2> SUFFICES ASSUME q[1].kind = "command"
               PROVE  /\ Open(p, a, q[1].n, q[1].from)
                      /\ \A k \in a + 1 .. q[1].n - 1 : Answer(b, Len(b), k)
                      /\ \A j \in 1 .. Len(b) : b[j].kind = "response" => b[j].n < q[1].n
    BY <1>3 DEF ExecutingAligned
  <2>1. /\ Open(p, a, q[1].n, q[1].from)
        /\ \A k \in a + 1 .. q[1].n - 1 :
             Answer(b, Len(b), k) \/ Executed(<<>>, k) \/ Queued(q, 1 - 1, k)
        /\ \A j \in 1 .. Len(b) : b[j].kind = "response" => b[j].n < q[1].n
    <3>1. 1 \in 1 .. Len(q)
      BY <1>1
    <3> QED  BY <3>1 DEF Aligned, QueueAligned
  <2>2. \A k : ~Queued(q, 1 - 1, k)
    BY DEF Queued
  <2> QED  BY <1>3, <2>1, <2>2
<1>6. QueueAligned(p, a, b, e, d)
  <2> SUFFICES ASSUME NEW i \in 1 .. Len(d), d[i].kind = "command"
               PROVE  /\ Open(p, a, d[i].n, d[i].from)
                      /\ \A k \in a + 1 .. d[i].n - 1 :
                           Answer(b, Len(b), k) \/ Executed(e, k) \/ Queued(d, i - 1, k)
                      /\ \A j \in 1 .. i - 1 : d[j].kind = "command" => d[j].n < d[i].n
                      /\ \A j \in 1 .. Len(e) : e[j].n < d[i].n
                      /\ \A j \in 1 .. Len(b) : b[j].kind = "response" => b[j].n < d[i].n
    BY DEF QueueAligned
  <2>1. i + 1 \in 1 .. Len(q) /\ d[i] = q[i + 1] /\ (i + 1) - 1 = i
    BY <1>1, <1>2
  <2>2. /\ Open(p, a, q[i + 1].n, q[i + 1].from)
        /\ \A k \in a + 1 .. q[i + 1].n - 1 :
             Answer(b, Len(b), k) \/ Executed(<<>>, k) \/ Queued(q, (i + 1) - 1, k)
        /\ \A j \in 1 .. (i + 1) - 1 : q[j].kind = "command" => q[j].n < q[i + 1].n
        /\ \A j \in 1 .. Len(b) : b[j].kind = "response" => b[j].n < q[i + 1].n
    BY <2>1 DEF Aligned, QueueAligned
  <2>3. i - 1 \in 0 .. Len(d) /\ (i - 1) + 1 = i
    BY <1>1
  <2>4. \A k : Queued(q, i, k) => Executed(e, k) \/ Queued(d, i - 1, k)
    BY <1>4, <2>3
  <2>5. \A k \in a + 1 .. d[i].n - 1 :
          Answer(b, Len(b), k) \/ Executed(e, k) \/ Queued(d, i - 1, k)
    BY <1>3, <2>1, <2>2, <2>4
  <2>6. ASSUME NEW j \in 1 .. i - 1, d[j].kind = "command"  PROVE d[j].n < d[i].n
    <3>1. j \in 1 .. Len(d) /\ j + 1 \in 1 .. (i + 1) - 1
      BY <1>1
    <3> QED  BY <1>1, <2>1, <2>2, <2>6, <3>1
  <2>7. ASSUME NEW j \in 1 .. Len(e)  PROVE e[j].n < d[i].n
    <3>1. e[j] = q[1] /\ q[1].kind = "command" /\ 1 \in 1 .. (i + 1) - 1
      BY <1>1, <1>3
    <3> QED  BY <2>1, <2>2, <3>1
  <2> QED  BY <2>1, <2>2, <2>5, <2>6, <2>7
<1>7. up => AllThere(p, a, b, e, d)
  <2>1. Len(d) \in 0 .. Len(d) /\ Len(d) + 1 = Len(q)
    BY <1>1
  <2>2. \A k : Queued(q, Len(q), k) => Executed(e, k) \/ Queued(d, Len(d), k)
    BY <1>4, <2>1
  <2> QED  BY <1>3, <2>2 DEF Aligned, AllThere
<1> QED  BY <1>5, <1>6, <1>7 DEF Aligned

\* The worker answers the command it executes.
LEMMA AnswerJoins ==
    ASSUME NEW p, NEW a \in Nat, NEW b \in Seq(Inbox), NEW e \in Seq(Command), NEW q, NEW up,
           Len(e) = 1, NEW m, m.kind = "response", m.n = e[1].n, m.to = e[1].from,
           NEW c, c = Append(b, m),
           Aligned(p, a, b, e, q, up)
    PROVE  Aligned(p, a, c, <<>>, q, up)
<1>1. /\ Len(c) = Len(b) + 1 /\ Len(b) \in Nat
      /\ \A i \in 1 .. Len(b) : c[i] = b[i]
      /\ c[Len(b) + 1] = m
  OBVIOUS
<1>2. \A j \in 1 .. Len(c) : j = Len(b) + 1 \/ j \in 1 .. Len(b)
  BY <1>1
<1>3. ASSUME NEW k, NEW i \in 0 .. Len(b)  PROVE Answer(c, i, k) <=> Answer(b, i, k)
  <2>1. \A j \in 1 .. i : j \in 1 .. Len(b)
    BY <1>1
  <2> QED  BY <1>1, <2>1 DEF Answer
<1>4. ASSUME NEW k  PROVE Answer(c, Len(c), k) <=> Answer(b, Len(b), k) \/ Executed(e, k)
  <2>1. \A j \in 1 .. Len(b) : j \in 1 .. Len(c)
    BY <1>1
  <2>2. Len(b) + 1 \in 1 .. Len(c)
    BY <1>1
  <2>3. Executed(e, k) <=> m.n = k
    BY DEF Executed
  <2> QED  BY <1>1, <1>2, <2>1, <2>2, <2>3 DEF Answer
<1>5. /\ Open(p, a, m.n, m.to)
      /\ \A k \in a + 1 .. m.n - 1 : Answer(b, Len(b), k)
      /\ \A j \in 1 .. Len(b) : b[j].kind = "response" => b[j].n < m.n
  <2>1. 1 \in 1 .. Len(e)
    OBVIOUS
  <2> QED  BY <2>1 DEF Aligned, ExecutingAligned
<1>6. InboxAligned(p, a, c)
  <2> SUFFICES ASSUME NEW i \in 1 .. Len(c), c[i].kind = "response"
               PROVE  /\ Open(p, a, c[i].n, c[i].to)
                      /\ \A k \in a + 1 .. c[i].n - 1 : Answer(c, i - 1, k)
                      /\ \A j \in 1 .. i - 1 : c[j].kind = "response" => c[j].n < c[i].n
    BY DEF InboxAligned
  <2>1. i - 1 \in 0 .. Len(b) /\ \A j \in 1 .. i - 1 : j \in 1 .. Len(b)
    BY <1>1
  <2>2. CASE i \in 1 .. Len(b)
    <3>1. /\ Open(p, a, b[i].n, b[i].to)
          /\ \A k \in a + 1 .. b[i].n - 1 : Answer(b, i - 1, k)
          /\ \A j \in 1 .. i - 1 : b[j].kind = "response" => b[j].n < b[i].n
      BY <1>1, <2>2 DEF Aligned, InboxAligned
    <3> QED  BY <1>1, <1>3, <2>1, <2>2, <3>1
  <2>3. CASE i = Len(b) + 1
    <3>1. i - 1 = Len(b) /\ c[i] = m
      BY <1>1, <2>3
    <3> QED  BY <1>1, <1>3, <1>5, <2>1, <3>1
  <2> QED  BY <1>2, <2>2, <2>3
<1>7. ExecutingAligned(p, a, c, <<>>)
  BY DEF ExecutingAligned
<1>8. QueueAligned(p, a, c, <<>>, q)
  <2> SUFFICES ASSUME NEW i \in 1 .. Len(q), q[i].kind = "command"
               PROVE  /\ Open(p, a, q[i].n, q[i].from)
                      /\ \A k \in a + 1 .. q[i].n - 1 :
                           Answer(c, Len(c), k) \/ Executed(<<>>, k) \/ Queued(q, i - 1, k)
                      /\ \A j \in 1 .. i - 1 : q[j].kind = "command" => q[j].n < q[i].n
                      /\ \A j \in 1 .. Len(c) : c[j].kind = "response" => c[j].n < q[i].n
    BY SMTT(30) DEF QueueAligned
  <2>1. /\ Open(p, a, q[i].n, q[i].from)
        /\ \A k \in a + 1 .. q[i].n - 1 :
             Answer(b, Len(b), k) \/ Executed(e, k) \/ Queued(q, i - 1, k)
        /\ \A j \in 1 .. i - 1 : q[j].kind = "command" => q[j].n < q[i].n
        /\ \A j \in 1 .. Len(e) : e[j].n < q[i].n
        /\ \A j \in 1 .. Len(b) : b[j].kind = "response" => b[j].n < q[i].n
    BY DEF Aligned, QueueAligned
  <2>2. m.n < q[i].n
    <3>1. 1 \in 1 .. Len(e)
      OBVIOUS
    <3> QED  BY <2>1, <3>1
  <2> QED  BY <1>1, <1>2, <1>4, <2>1, <2>2
<1>9. up => AllThere(p, a, c, <<>>, q)
  BY <1>4 DEF Aligned, AllThere
<1> QED  BY <1>6, <1>7, <1>8, <1>9 DEF Aligned

\* A request that is open remains open when others follow it.
LEMMA StaysOpen ==
    ASSUME NEW p, NEW a \in Int, NEW o, Len(p) \in Nat, Len(o) \in Nat, Len(p) <= Len(o),
           \A i \in 1 .. Len(p) : o[i] = p[i], NEW n, NEW c, Open(p, a, n, c)
    PROVE  Open(o, a, n, c)
<1>1. n \in a + 1 .. a + Len(p) /\ p[n - a].from = c
  BY DEF Open
<1>2. n - a \in 1 .. Len(p) /\ n \in a + 1 .. a + Len(o)
  BY <1>1
<1>3. o[n - a] = p[n - a]
  BY <1>2
<1> QED  BY <1>1, <1>2, <1>3 DEF Open

\* Requests are made: z commands are sent, to a worker that runs or into the void.
LEMMA CommandsJoin ==
    ASSUME NEW p, NEW a \in Int, NEW b, NEW e, NEW q, NEW up \in BOOLEAN, NEW z \in Nat,
           NEW o, NEW d, Len(p) \in Nat, Len(q) \in Nat,
           Len(o) = Len(p) + z, \A i \in 1 .. Len(p) : o[i] = p[i],
           \A i \in Len(p) + 1 .. Len(p) + z : o[i].n = a + i,
           ~up => d = q,
           up => /\ Len(d) = Len(q) + z /\ \A i \in 1 .. Len(q) : d[i] = q[i]
                 /\ \A l \in 1 .. z :
                      /\ d[Len(q) + l].kind = "command"
                      /\ d[Len(q) + l].n = a + Len(p) + l
                      /\ d[Len(q) + l].from = o[Len(p) + l].from,
           Aligned(p, a, b, e, q, up)
    PROVE  Aligned(o, a, b, e, d, up)
<1>1. Len(o) \in Nat /\ Len(p) <= Len(o)
  OBVIOUS
<1>2. \A n, c : Open(p, a, n, c) => Open(o, a, n, c) /\ n \in Int /\ n < a + Len(p) + 1
  <2> SUFFICES ASSUME NEW n, NEW c, Open(p, a, n, c)
               PROVE  Open(o, a, n, c) /\ n \in Int /\ n < a + Len(p) + 1
    OBVIOUS
  <2>1. Open(o, a, n, c)
    BY <1>1, StaysOpen
  <2> QED  BY <2>1 DEF Open
<1>3. Numbered(o, a)
  <2>1. \A i \in 1 .. Len(o) : i \in 1 .. Len(p) \/ i \in Len(p) + 1 .. Len(p) + z
    OBVIOUS
  <2> QED  BY <2>1 DEF Aligned, Numbered
<1>4. InboxAligned(o, a, b)
  BY <1>2 DEF Aligned, InboxAligned
<1>5. ExecutingAligned(o, a, b, e)
  BY <1>2 DEF Aligned, ExecutingAligned
<1>6. CASE ~up
  <2>1. QueueAligned(o, a, b, e, d)
    BY <1>2, <1>6 DEF Aligned, QueueAligned
  <2> QED  BY <1>3, <1>4, <1>5, <1>6, <2>1 DEF Aligned
<1>7. CASE up
  <2>1. \A j \in 1 .. Len(d) : j \in 1 .. Len(q) \/ \E l \in 1 .. z : j = Len(q) + l
    <3> SUFFICES ASSUME NEW j \in 1 .. Len(d), j \notin 1 .. Len(q)
                 PROVE  \E l \in 1 .. z : j = Len(q) + l
      OBVIOUS
    <3>1. j - Len(q) \in 1 .. z /\ j = Len(q) + (j - Len(q))
      BY <1>7
    <3> QED  BY <3>1
  <2>2. ASSUME NEW i \in 0 .. Len(q), NEW k  PROVE Queued(d, i, k) <=> Queued(q, i, k)
    <3>1. \A j \in 1 .. i : j \in 1 .. Len(q)
      OBVIOUS
    <3>2. \A j \in 1 .. i : d[j] = q[j]
      BY <1>7, <3>1
    <3> QED  BY <3>2 DEF Queued
  <2>3. ASSUME NEW l \in 0 .. z, NEW k \in a + 1 .. a + Len(p) + l
        PROVE  Answer(b, Len(b), k) \/ Executed(e, k) \/ Queued(d, Len(q) + l, k)
    <3>1. CASE k \in a + 1 .. a + Len(p)
      <4>1. Answer(b, Len(b), k) \/ Executed(e, k) \/ Queued(q, Len(q), k)
        BY <1>7, <3>1 DEF Aligned, AllThere
      <4>2. Queued(q, Len(q), k) => Queued(d, Len(q), k)
        <5>1. Len(q) \in 0 .. Len(q)
          OBVIOUS
        <5> QED  BY <2>2, <5>1
      <4>3. \A j \in 1 .. Len(q) : j \in 1 .. Len(q) + l
        OBVIOUS
      <4> QED  BY <4>1, <4>2, <4>3 DEF Queued
    <3>2. CASE k \notin a + 1 .. a + Len(p)
      <4> DEFINE j == k - a - Len(p)
      <4>1. j \in 1 .. z /\ j \in 1 .. l /\ k = a + Len(p) + j /\ Len(q) + j \in 1 .. Len(q) + l
        BY <3>2, SMTT(30)
      <4>2. d[Len(q) + j].kind = "command" /\ d[Len(q) + j].n = k
        BY <1>7, <4>1
      <4> QED  BY <4>1, <4>2 DEF Queued
    <3> QED  BY <3>1, <3>2
  <2>4. QueueAligned(o, a, b, e, d)
    <3> SUFFICES ASSUME NEW i \in 1 .. Len(d), d[i].kind = "command"
                 PROVE  /\ Open(o, a, d[i].n, d[i].from)
                        /\ \A k \in a + 1 .. d[i].n - 1 :
                             Answer(b, Len(b), k) \/ Executed(e, k) \/ Queued(d, i - 1, k)
                        /\ \A j \in 1 .. i - 1 : d[j].kind = "command" => d[j].n < d[i].n
                        /\ \A j \in 1 .. Len(e) : e[j].n < d[i].n
                        /\ \A j \in 1 .. Len(b) : b[j].kind = "response" => b[j].n < d[i].n
      BY DEF QueueAligned
    <3>1. CASE i \in 1 .. Len(q)
      <4>1. d[i] = q[i]
        BY <1>7, <3>1
      <4>2. /\ Open(p, a, q[i].n, q[i].from)
            /\ \A k \in a + 1 .. q[i].n - 1 :
                 Answer(b, Len(b), k) \/ Executed(e, k) \/ Queued(q, i - 1, k)
            /\ \A j \in 1 .. i - 1 : q[j].kind = "command" => q[j].n < q[i].n
            /\ \A j \in 1 .. Len(e) : e[j].n < q[i].n
            /\ \A j \in 1 .. Len(b) : b[j].kind = "response" => b[j].n < q[i].n
        BY <3>1, <4>1 DEF Aligned, QueueAligned
      <4>3. i - 1 \in 0 .. Len(q) /\ \A j \in 1 .. i - 1 : j \in 1 .. Len(q)
        BY <3>1
      <4>4. \A j \in 1 .. i - 1 : d[j] = q[j]
        BY <1>7, <4>3
      <4> QED  BY <1>2, <2>2, <4>1, <4>2, <4>3, <4>4
    <3>2. CASE i \notin 1 .. Len(q)
      <4>1. PICK l \in 1 .. z : i = Len(q) + l
        BY <2>1, <3>2
      <4>2. /\ d[i].n = a + Len(p) + l /\ d[i].from = o[Len(p) + l].from
            /\ l - 1 \in 0 .. z /\ i - 1 = Len(q) + (l - 1)
        BY <1>7, <4>1
      <4>3. Open(o, a, d[i].n, d[i].from)
        <5>1. d[i].n \in a + 1 .. a + Len(o) /\ d[i].n - a = Len(p) + l
          BY <4>2, SMTT(30)
        <5> QED  BY <4>2, <5>1 DEF Open
      <4>4. \A k \in a + 1 .. d[i].n - 1 :
              Answer(b, Len(b), k) \/ Executed(e, k) \/ Queued(d, i - 1, k)
        <5>1. \A k \in a + 1 .. d[i].n - 1 : k \in a + 1 .. a + Len(p) + (l - 1)
          BY <4>2, SMTT(60)
        <5> QED  BY <2>3, <4>2, <5>1
      <4>5. \A n : n \in Int /\ n < a + Len(p) + 1 => n < d[i].n
        BY <4>2
      <4>6. ASSUME NEW j \in 1 .. i - 1, d[j].kind = "command"  PROVE d[j].n < d[i].n
        <5>1. CASE j \in 1 .. Len(q)
          <6>1. d[j] = q[j]
            BY <1>7, <5>1
          <6>2. Open(p, a, q[j].n, q[j].from)
            BY <4>6, <5>1, <6>1 DEF Aligned, QueueAligned
          <6> QED  BY <1>2, <4>5, <6>1, <6>2
        <5>2. CASE j \notin 1 .. Len(q)
          <6>1. j \in 1 .. Len(d)
            BY <4>1, <1>7
          <6>2. PICK h \in 1 .. z : j = Len(q) + h
            BY <2>1, <5>2, <6>1
          <6>3. d[j].n = a + Len(p) + h /\ h < l
            BY <1>7, <4>1, <6>2, SMTT(60)
          <6> QED  BY <4>2, <6>3
        <5> QED  BY <5>1, <5>2
      <4>7. \A j \in 1 .. Len(e) : e[j].n < d[i].n
        BY <1>2, <4>5 DEF Aligned, ExecutingAligned
      <4>8. \A j \in 1 .. Len(b) : b[j].kind = "response" => b[j].n < d[i].n
        BY <1>2, <4>5 DEF Aligned, InboxAligned
      <4> QED  BY <4>3, <4>4, <4>6, <4>7, <4>8
    <3> QED  BY <3>1, <3>2
  <2>5. AllThere(o, a, b, e, d)
    <3>1. z \in 0 .. z /\ Len(q) + z = Len(d) /\ a + Len(p) + z = a + Len(o)
      BY <1>7
    <3> QED  BY <2>3, <3>1 DEF AllThere
  <2> QED  BY <1>3, <1>4, <1>5, <2>4, <2>5 DEF Aligned
<1> QED  BY <1>6, <1>7

\* The response at the head of the inbox is that of the oldest request.
LEMMA HeadAnswers ==
    ASSUME NEW p, NEW a \in Int, NEW b, NEW e, NEW q, NEW up,
           Len(b) \in Nat, Len(b) > 0, b[1].kind = "response",
           Aligned(p, a, b, e, q, up)
    PROVE  /\ Open(p, a, b[1].n, b[1].to) /\ b[1].n = a + 1
           /\ Len(p) \in Int => Len(p) > 0 /\ p[1].n = a + 1 /\ p[1].from = b[1].to
<1>1. /\ Open(p, a, b[1].n, b[1].to)
      /\ \A k \in a + 1 .. b[1].n - 1 : Answer(b, 1 - 1, k)
  <2>1. 1 \in 1 .. Len(b)
    OBVIOUS
  <2> QED  BY <2>1 DEF Aligned, InboxAligned
<1>2. \A k : ~Answer(b, 1 - 1, k)
  BY DEF Answer
<1>3. b[1].n = a + 1
  <2>1. b[1].n \in a + 1 .. a + Len(p)
    BY <1>1 DEF Open
  <2>2. b[1].n # a + 1 => a + 1 \in a + 1 .. b[1].n - 1
    BY <2>1
  <2> QED  BY <1>1, <1>2, <2>2
<1>4. ASSUME Len(p) \in Int  PROVE Len(p) > 0 /\ p[1].n = a + 1 /\ p[1].from = b[1].to
  <2>1. a + 1 \in a + 1 .. a + Len(p) /\ (a + 1) - a = 1 /\ p[(a + 1) - a].from = b[1].to
    BY <1>1, <1>3 DEF Open
  <2>2. Len(p) > 0 /\ 1 \in 1 .. Len(p)
    BY <1>4, <2>1
  <2>3. p[1].n = a + 1
    BY <2>2 DEF Aligned, Numbered
  <2> QED  BY <2>1, <2>2, <2>3
<1> QED  BY <1>1, <1>3, <1>4

\* The oldest request is completed.
LEMMA AnswerLeaves ==
    ASSUME NEW p \in Seq(Completer), NEW a \in Int, NEW b \in Seq(Inbox), NEW e, NEW q, NEW up,
           b # <<>>, Head(b).kind = "response", p # <<>>,
           NEW o, o = Tail(p), NEW c, c = Tail(b),
           Aligned(p, a, b, e, q, up)
    PROVE  Aligned(o, a + 1, c, e, q, up)
<1>1. /\ Len(c) = Len(b) - 1 /\ Len(b) \in Nat /\ Len(b) > 0
      /\ \A i \in 1 .. Len(c) : c[i] = b[i + 1]
      /\ b[1].kind = "response"
      /\ Len(o) = Len(p) - 1 /\ Len(p) \in Nat /\ Len(p) > 0
      /\ \A i \in 1 .. Len(o) : o[i] = p[i + 1]
  BY HeadTailProperties
<1>2. \A i \in 1 .. Len(c) : i + 1 \in 1 .. Len(b)
  BY <1>1
<1>3. b[1].n = a + 1
  BY <1>1, HeadAnswers
<1>4. ASSUME NEW n, NEW w, Open(p, a, n, w), n > b[1].n  PROVE Open(o, a + 1, n, w)
  <2>1. n \in a + 1 .. a + Len(p) /\ p[n - a].from = w
    BY <1>4 DEF Open
  <2>2. n - (a + 1) \in 1 .. Len(o) /\ (n - (a + 1)) + 1 = n - a
    BY <1>1, <1>3, <1>4, <2>1
  <2>3. n \in (a + 1) + 1 .. (a + 1) + Len(o)
    BY <1>1, <1>3, <1>4, <2>1
  <2>4. o[n - (a + 1)] = p[n - a]
    BY <1>1, <2>2
  <2> QED  BY <2>1, <2>3, <2>4 DEF Open
<1>5. ASSUME NEW i \in 0 .. Len(c), NEW k, k # a + 1, Answer(b, i + 1, k)
      PROVE  Answer(c, i, k)
  <2>1. PICK j \in 1 .. i + 1 : b[j].kind = "response" /\ b[j].n = k
    BY <1>5 DEF Answer
  <2>2. j # 1
    BY <1>3, <1>5, <2>1
  <2>3. j - 1 \in 1 .. i /\ j - 1 \in 1 .. Len(c) /\ (j - 1) + 1 = j
    BY <1>1, <2>2
  <2>4. c[j - 1] = b[j]
    BY <1>1, <2>3
  <2> QED  BY <2>1, <2>3, <2>4 DEF Answer
<1>6. ASSUME NEW k, k # a + 1, Answer(b, Len(b), k)  PROVE Answer(c, Len(c), k)
  <2>1. Len(c) \in 0 .. Len(c) /\ Len(c) + 1 = Len(b)
    BY <1>1
  <2> QED  BY <1>5, <1>6, <2>1
<1>7. ASSUME NEW n  PROVE \A k \in (a + 1) + 1 .. n - 1 : k # a + 1 /\ k \in a + 1 .. n - 1
  OBVIOUS
<1>8. Numbered(o, a + 1)
  <2> SUFFICES ASSUME NEW i \in 1 .. Len(o)  PROVE o[i].n = (a + 1) + i
    BY DEF Numbered
  <2>1. i + 1 \in 1 .. Len(p) /\ o[i] = p[i + 1]
    BY <1>1
  <2>2. p[i + 1].n = a + (i + 1)
    BY <2>1 DEF Aligned, Numbered
  <2> QED  BY <2>1, <2>2
<1>9. InboxAligned(o, a + 1, c)
  <2> SUFFICES ASSUME NEW i \in 1 .. Len(c), c[i].kind = "response"
               PROVE  /\ Open(o, a + 1, c[i].n, c[i].to)
                      /\ \A k \in (a + 1) + 1 .. c[i].n - 1 : Answer(c, i - 1, k)
                      /\ \A j \in 1 .. i - 1 : c[j].kind = "response" => c[j].n < c[i].n
    BY DEF InboxAligned
  <2>1. i + 1 \in 1 .. Len(b) /\ c[i] = b[i + 1] /\ (i + 1) - 1 = i
    BY <1>1, <1>2
  <2>2. /\ Open(p, a, b[i + 1].n, b[i + 1].to)
        /\ \A k \in a + 1 .. b[i + 1].n - 1 : Answer(b, (i + 1) - 1, k)
        /\ \A j \in 1 .. (i + 1) - 1 : b[j].kind = "response" => b[j].n < b[i + 1].n
    BY <2>1 DEF Aligned, InboxAligned
  <2>3. i - 1 \in 0 .. Len(c) /\ (i - 1) + 1 = i /\ 1 \in 1 .. (i + 1) - 1
    BY <1>1
  <2>4. b[1].n < c[i].n /\ c[i].n \in Int
    BY <1>1, <2>1, <2>2, <2>3 DEF Open
  <2>5. Open(o, a + 1, c[i].n, c[i].to)
    BY <1>3, <1>4, <2>1, <2>2, <2>4
  <2>6. ASSUME NEW k \in (a + 1) + 1 .. c[i].n - 1  PROVE Answer(c, i - 1, k)
    <3>1. k # a + 1 /\ Answer(b, i, k)
      BY <1>7, <2>1, <2>2
    <3> QED  BY <1>5, <2>3, <3>1
  <2>7. ASSUME NEW j \in 1 .. i - 1, c[j].kind = "response"  PROVE c[j].n < c[i].n
    <3>1. j \in 1 .. Len(c) /\ j + 1 \in 1 .. (i + 1) - 1
      BY <1>1
    <3> QED  BY <1>1, <2>1, <2>2, <2>7, <3>1
  <2> QED  BY <2>5, <2>6, <2>7
<1>10. \A j \in 1 .. Len(c) : c[j].kind = "response" =>
          \E l \in 1 .. Len(b) : b[l] = c[j]
  BY <1>1, <1>2
<1>11. ExecutingAligned(o, a + 1, c, e)
  <2> SUFFICES ASSUME NEW i \in 1 .. Len(e)
               PROVE  /\ Open(o, a + 1, e[i].n, e[i].from)
                      /\ \A k \in (a + 1) + 1 .. e[i].n - 1 : Answer(c, Len(c), k)
                      /\ \A j \in 1 .. Len(c) : c[j].kind = "response" => c[j].n < e[i].n
    BY DEF ExecutingAligned
  <2>1. /\ Open(p, a, e[i].n, e[i].from)
        /\ \A k \in a + 1 .. e[i].n - 1 : Answer(b, Len(b), k)
        /\ \A j \in 1 .. Len(b) : b[j].kind = "response" => b[j].n < e[i].n
    BY DEF Aligned, ExecutingAligned
  <2>2. e[i].n > b[1].n
    <3>1. 1 \in 1 .. Len(b) /\ e[i].n \in Int
      BY <1>1, <2>1 DEF Open
    <3> QED  BY <1>1, <1>3, <2>1, <3>1
  <2>3. Open(o, a + 1, e[i].n, e[i].from)
    BY <1>4, <2>1, <2>2
  <2>4. \A k \in (a + 1) + 1 .. e[i].n - 1 : Answer(c, Len(c), k)
    BY <1>6, <1>7, <2>1
  <2>5. \A j \in 1 .. Len(c) : c[j].kind = "response" => c[j].n < e[i].n
    BY <1>10, <2>1, SMTT(30)
  <2> QED  BY <2>3, <2>4, <2>5
<1>12. QueueAligned(o, a + 1, c, e, q)
  <2> SUFFICES ASSUME NEW i \in 1 .. Len(q), q[i].kind = "command"
               PROVE  /\ Open(o, a + 1, q[i].n, q[i].from)
                      /\ \A k \in (a + 1) + 1 .. q[i].n - 1 :
                           Answer(c, Len(c), k) \/ Executed(e, k) \/ Queued(q, i - 1, k)
                      /\ \A j \in 1 .. i - 1 : q[j].kind = "command" => q[j].n < q[i].n
                      /\ \A j \in 1 .. Len(e) : e[j].n < q[i].n
                      /\ \A j \in 1 .. Len(c) : c[j].kind = "response" => c[j].n < q[i].n
    BY DEF QueueAligned
  <2>1. /\ Open(p, a, q[i].n, q[i].from)
        /\ \A k \in a + 1 .. q[i].n - 1 :
             Answer(b, Len(b), k) \/ Executed(e, k) \/ Queued(q, i - 1, k)
        /\ \A j \in 1 .. i - 1 : q[j].kind = "command" => q[j].n < q[i].n
        /\ \A j \in 1 .. Len(e) : e[j].n < q[i].n
        /\ \A j \in 1 .. Len(b) : b[j].kind = "response" => b[j].n < q[i].n
    BY DEF Aligned, QueueAligned
  <2>2. q[i].n > b[1].n
    <3>1. 1 \in 1 .. Len(b) /\ q[i].n \in Int
      BY <1>1, <2>1 DEF Open
    <3> QED  BY <1>1, <1>3, <2>1, <3>1
  <2>3. Open(o, a + 1, q[i].n, q[i].from)
    BY <1>4, <2>1, <2>2
  <2>4. \A k \in (a + 1) + 1 .. q[i].n - 1 :
          Answer(c, Len(c), k) \/ Executed(e, k) \/ Queued(q, i - 1, k)
    BY <1>6, <1>7, <2>1
  <2>5. \A j \in 1 .. Len(c) : c[j].kind = "response" => c[j].n < q[i].n
    BY <1>10, <2>1
  <2> QED  BY <2>1, <2>3, <2>4, <2>5
<1>13. up => AllThere(o, a + 1, c, e, q)
  <2>1. \A k \in (a + 1) + 1 .. (a + 1) + Len(o) : k # a + 1 /\ k \in a + 1 .. a + Len(p)
    BY <1>1
  <2> QED  BY <1>6, <2>1 DEF Aligned, AllThere
<1> QED  BY <1>8, <1>9, <1>11, <1>12, <1>13 DEF Aligned

\* The worker ends: what it had not answered is lost.
LEMMA Lost ==
    ASSUME NEW p, NEW a, NEW b, NEW e, NEW q, NEW up, Aligned(p, a, b, e, q, up)
    PROVE  Aligned(p, a, b, <<>>, <<>>, FALSE)
BY DEF Aligned, ExecutingAligned, QueueAligned

-----------------------------------------------------------------------------
(* The steps.                                                              *)

\* A function on 1 .. n is a sequence of length n.
LEMMA FunctionIsSequence ==
    ASSUME NEW S, NEW n \in Nat, NEW f \in [1 .. n -> S]
    PROVE  f \in Seq(S) /\ Len(f) = n
<1>1. f \in Seq(S)
  BY SeqDef
<1>2. DOMAIN f = 1 .. Len(f) /\ Len(f) \in Nat
  BY <1>1, LenProperties
<1>3. 1 .. n = 1 .. Len(f)
  BY <1>2
<1> QED  BY <1>1, <1>2, <1>3

\* What Send does to the requests and to the path.
LEMMA Sent ==
    ASSUME RpcTypeOK, Shapes, Path, ~disposed, isolate # "booting",
           NEW s \in Seq([c : Caller, what : Request]), Send(s)
    PROVE  /\ pending' \in Seq(Completer) /\ queue' \in Seq(Command \cup Push)
           /\ sent' \in Nat /\ sent' = answered + Len(pending')
           /\ isolate # "running" => queue' = queue
           /\ Aligned(pending', answered, inbox, executing, queue', isolate = "running")
           /\ Len(pending') = Len(pending) + Len(s) /\ Len(pending) \in Nat /\ Len(s) \in Nat
           /\ \A i \in 1 .. Len(pending) : pending'[i] = pending[i]
           /\ \A i \in 1 .. Len(s) :
                pending'[Len(pending) + i] = [from |-> s[i].c, n |-> sent + i]
<1> DEFINE z == Len(s)
           ps == [i \in DOMAIN s |-> [from |-> s[i].c, n |-> sent + i]]
           cs == [i \in DOMAIN s |->
                     [kind |-> "command", from |-> s[i].c, n |-> sent + i, what |-> s[i].what]]
<1>1. /\ pending \in Seq(Completer) /\ queue \in Seq(Command \cup Push)
      /\ sent \in Nat /\ answered \in Nat /\ sent = answered + Len(pending)
      /\ Len(pending) \in Nat /\ Len(queue) \in Nat
      /\ z \in Nat /\ DOMAIN s = 1 .. z
      /\ Aligned(pending, answered, inbox, executing, queue, isolate = "running")
  BY DEF RpcTypeOK, Path
<1>2. ASSUME NEW i \in 1 .. z  PROVE s[i].c \in Caller /\ s[i].what \in Request
  <2>1. s[i] \in [c : Caller, what : Request]
    BY ElementOfSeq
  <2> QED  BY <2>1
<1>3. /\ ps \in [1 .. z -> Completer] /\ cs \in [1 .. z -> Command]
      /\ \A i \in 1 .. z : ps[i] = [from |-> s[i].c, n |-> sent + i]
      /\ \A i \in 1 .. z : /\ cs[i].kind = "command" /\ cs[i].from = s[i].c
                           /\ cs[i].n = sent + i
  BY <1>1, <1>2, SMTT(30) DEF Completer, Command
<1>4. /\ pending' = pending \o ps
      /\ queue' = IF isolate = "running" THEN queue \o cs ELSE queue
      /\ sent' = sent + z
  BY DEF Send
<1> HIDE DEF z, ps, cs
<1>5. ps \in Seq(Completer) /\ Len(ps) = z
  BY <1>1, <1>3, FunctionIsSequence
<1>6. cs \in Seq(Command \cup Push) /\ Len(cs) = z
  <2>1. cs \in [1 .. z -> Command \cup Push]
    BY <1>3
  <2> QED  BY <1>1, <2>1, FunctionIsSequence
<1>7. /\ pending' \in Seq(Completer) /\ Len(pending') = Len(pending) + z
      /\ \A i \in 1 .. Len(pending) : pending'[i] = pending[i]
      /\ \A i \in 1 .. z : pending'[Len(pending) + i] = ps[i]
  <2>1. /\ pending' \in Seq(Completer) /\ Len(pending') = Len(pending) + z
        /\ \A i \in 1 .. Len(pending) + z : pending'[i] =
             IF i <= Len(pending) THEN pending[i] ELSE ps[i - Len(pending)]
    <3>1. pending' = pending \o ps
      BY <1>4
    <3> QED  BY ONLY <1>1, <1>5, <3>1, ConcatProperties, ZenonT(30)
  <2>2. \A i \in 1 .. z : /\ Len(pending) + i \in 1 .. Len(pending) + z
                          /\ ~(Len(pending) + i <= Len(pending))
                          /\ (Len(pending) + i) - Len(pending) = i
    BY <1>1
  <2>3. \A i \in 1 .. Len(pending) : i \in 1 .. Len(pending) + z /\ i <= Len(pending)
    BY <1>1
  <2>4. \A i \in 1 .. Len(pending) : pending'[i] = pending[i]
    BY <2>1, <2>3
  <2>5. \A i \in 1 .. z : pending'[Len(pending) + i] = ps[i]
    BY <2>1, <2>2
  <2> QED  BY <2>1, <2>4, <2>5
<1>8. /\ queue' \in Seq(Command \cup Push)
      /\ isolate # "running" => queue' = queue
      /\ isolate = "running" =>
           /\ Len(queue') = Len(queue) + z
           /\ \A i \in 1 .. Len(queue) : queue'[i] = queue[i]
           /\ \A i \in 1 .. z : queue'[Len(queue) + i] = cs[i]
  <2>1. CASE isolate = "running"
    <3>1. /\ queue' \in Seq(Command \cup Push) /\ Len(queue') = Len(queue) + z
          /\ \A i \in 1 .. Len(queue) + z : queue'[i] =
               IF i <= Len(queue) THEN queue[i] ELSE cs[i - Len(queue)]
      <4>1. queue' = queue \o cs
        BY <1>4, <2>1
      <4> QED  BY ONLY <1>1, <1>6, <4>1, ConcatProperties, ZenonT(60)
    <3>2. \A i \in 1 .. z : /\ Len(queue) + i \in 1 .. Len(queue) + z
                            /\ ~(Len(queue) + i <= Len(queue))
                            /\ (Len(queue) + i) - Len(queue) = i
      BY <1>1
    <3> QED  BY <1>1, <2>1, <3>1, <3>2, SMTT(60)
  <2>2. CASE isolate # "running"
    BY <1>1, <1>4, <2>2
  <2> QED  BY <2>1, <2>2
<1>9. \A i \in Len(pending) + 1 .. Len(pending) + z : pending'[i].n = answered + i
  <2> SUFFICES ASSUME NEW i \in Len(pending) + 1 .. Len(pending) + z
               PROVE  pending'[i].n = answered + i
    OBVIOUS
  <2>1. i - Len(pending) \in 1 .. z /\ Len(pending) + (i - Len(pending)) = i
    BY <1>1
  <2>2. pending'[i] = ps[i - Len(pending)]
    BY <1>7, <2>1
  <2> QED  BY <1>1, <1>3, <2>1, <2>2
<1>10. isolate = "running" => \A l \in 1 .. z :
          /\ queue'[Len(queue) + l].kind = "command"
          /\ queue'[Len(queue) + l].n = answered + Len(pending) + l
          /\ queue'[Len(queue) + l].from = pending'[Len(pending) + l].from
  <2> SUFFICES ASSUME isolate = "running", NEW l \in 1 .. z
               PROVE  /\ queue'[Len(queue) + l].kind = "command"
                      /\ queue'[Len(queue) + l].n = answered + Len(pending) + l
                      /\ queue'[Len(queue) + l].from = pending'[Len(pending) + l].from
    OBVIOUS
  <2>1. queue'[Len(queue) + l] = cs[l] /\ pending'[Len(pending) + l] = ps[l]
    BY <1>7, <1>8
  <2>2. ps[l].from = s[l].c /\ cs[l].from = s[l].c /\ cs[l].n = sent + l
    BY <1>3
  <2> QED  BY <1>1, <1>3, <2>1, <2>2
<1>11. Aligned(pending', answered, inbox, executing, queue', isolate = "running")
  <2>1. answered \in Int /\ (isolate = "running") \in BOOLEAN
    BY <1>1
  <2> QED  BY <1>1, <1>7, <1>8, <1>9, <1>10, <2>1, CommandsJoin, ZenonT(60)
<1>12. \A i \in 1 .. z : pending'[Len(pending) + i] = [from |-> s[i].c, n |-> sent + i]
  BY ONLY <1>3, <1>7
<1>13. sent' \in Nat /\ sent' = answered + Len(pending')
  BY ONLY <1>1, <1>4, <1>7, SMTT(30)
<1>14. z = Len(s) /\ z \in Nat /\ Len(pending) \in Nat
  BY <1>1 DEF z
<1>15. /\ Len(pending') = Len(pending) + Len(s) /\ Len(pending) \in Nat /\ Len(s) \in Nat
       /\ \A i \in 1 .. Len(s) :
            pending'[Len(pending) + i] = [from |-> s[i].c, n |-> sent + i]
  BY ONLY <1>7, <1>12, <1>14
<1>16. /\ pending' \in Seq(Completer)
       /\ \A i \in 1 .. Len(pending) : pending'[i] = pending[i]
  BY ONLY <1>7
<1>17. queue' \in Seq(Command \cup Push) /\ (isolate # "running" => queue' = queue)
  BY ONLY <1>8
<1> QED  BY ONLY <1>11, <1>13, <1>15, <1>16, <1>17

\* Steps that leave the requests of the main isolate alone.
LEMMA RequestsKept ==
    RpcInv /\ UNCHANGED mainVars => Waiters' /\ Senders' /\ AnswersMatch' /\ NobodyForgotten'
BY DEF RpcInv, mainVars, Waiters, Senders, AnswersMatch, NobodyForgotten

\* The first message of the worker, whichever it is, keeps the invariant.
LEMMA Started ==
    ASSUME RpcInv, BootSucceeds \/ BootFails
    PROVE  RpcInv'
<1>1. /\ RpcTypeOK /\ Shapes /\ Path /\ UNCHANGED <<mainVars, queue, executing>>
      /\ isolate = "booting" /\ pending = <<>> /\ queue = <<>> /\ executing = <<>> /\ inbox = <<>>
      /\ ~disposed
      /\ isolate' \in {"running", "dead"}
  BY DEF RpcInv, Shapes, BootSucceeds, BootFails
<1>2. \/ inbox' = <<[kind |-> "ready"]>> /\ isolate' = "running"
      \/ inbox' = <<[kind |-> "bootFailure"]>> /\ isolate' = "dead"
  BY <1>1 DEF BootSucceeds, BootFails
<1>3. inbox' \in Seq(Response \cup Push \cup Notice)
  <2>1. \A m \in Notice : <<m>> \in Seq(Response \cup Push \cup Notice)
    OBVIOUS
  <2>2. [kind |-> "ready"] \in Notice /\ [kind |-> "bootFailure"] \in Notice
    BY DEF Notice
  <2> QED  BY ONLY <1>2, <2>1, <2>2
<1>4. Len(inbox') = 1 /\ (inbox'[1].kind = "ready" \/ isolate' = "dead")
      /\ inbox'[1].kind # "response"
  BY <1>2
<1>5. \A i \in 1 .. Len(inbox') : i = 1
  BY <1>4
<1>6. RpcTypeOK'
  BY <1>1, <1>3 DEF RpcTypeOK, mainVars
<1>7. Shapes'
  BY <1>1, <1>2, <1>4, <1>5 DEF Shapes, mainVars
<1>8. Path'
  <2>1. sent = answered + Len(pending) /\ Numbered(pending, answered) /\ Len(pending) = 0
    BY <1>1 DEF Path, Aligned
  <2>2. answered \in Nat
    BY <1>1 DEF RpcTypeOK
  <2>3. InboxAligned(pending, answered, inbox')
    BY <1>4, <1>5 DEF InboxAligned
  <2>4. /\ ExecutingAligned(pending, answered, inbox', <<>>)
        /\ QueueAligned(pending, answered, inbox', <<>>, <<>>)
    BY DEF ExecutingAligned, QueueAligned
  <2>5. AllThere(pending, answered, inbox', <<>>, <<>>)
    BY <2>1, <2>2 DEF AllThere
  <2> QED  BY <1>1, <2>1, <2>3, <2>4, <2>5 DEF Path, Aligned, mainVars
<1> QED  BY <1>1, <1>6, <1>7, <1>8, RequestsKept DEF RpcInv

\* A command goes from the queue into execution.
LEMMA BeginKeeps ==
    ASSUME RpcInv, Begin
    PROVE  RpcInv'
<1>1. /\ RpcTypeOK /\ Shapes /\ Path /\ UNCHANGED <<mainVars, isolate, inbox>>
      /\ isolate = "running" /\ executing = <<>> /\ queue # <<>>
      /\ Head(queue).kind = "command"
      /\ executing' = <<Head(queue)>> /\ queue' = Tail(queue)
  BY DEF RpcInv, Begin, NextEvent
<1>2. queue \in Seq(Command \cup Push) /\ answered \in Int
  BY <1>1 DEF RpcTypeOK
<1>3. Head(queue) \in Command /\ queue' \in Seq(Command \cup Push)
  <2>1. Head(queue) \in Command \cup Push /\ Tail(queue) \in Seq(Command \cup Push)
    BY <1>1, <1>2, HeadTailProperties
  <2> QED  BY <1>1, <2>1, Numbers
<1>4. executing' \in Seq(Command) /\ Len(executing') <= 1
  BY <1>1, <1>3
<1>5. RpcTypeOK'
  BY <1>1, <1>3, <1>4 DEF RpcTypeOK, mainVars
<1>6. Shapes'
  BY <1>1 DEF Shapes, mainVars
<1>7. Path'
  <2>1. ASSUME ~disposed
        PROVE  Aligned(pending, answered, inbox, executing', queue', isolate = "running")
    <3>1. Aligned(pending, answered, inbox, <<>>, queue, isolate = "running")
      BY <1>1, <2>1 DEF Path
    <3> QED  BY <1>1, <1>2, <3>1, HeadLeaves
  <2> QED  BY <1>1, <2>1 DEF Path, mainVars
<1> QED  BY <1>1, <1>5, <1>6, <1>7, RequestsKept DEF RpcInv

\* A push joins the queue of the running worker.
LEMMA PostKeeps ==
    ASSUME RpcInv, isolate = "running", Posts, UNCHANGED <<mainVars, isolate, executing, inbox>>
    PROVE  RpcInv'
<1>1. RpcTypeOK /\ Shapes /\ Path
  BY DEF RpcInv
<1>2. PICK m \in Push : queue' = Append(queue, m)
  BY DEF Posts, Push
<1>3. queue \in Seq(Command \cup Push)
  BY <1>1 DEF RpcTypeOK
<1>4. RpcTypeOK'
  BY <1>1, <1>2, <1>3 DEF RpcTypeOK, mainVars
<1>5. Shapes'
  BY <1>1 DEF Shapes, mainVars
<1>6. Path'
  <2>1. ASSUME ~disposed
        PROVE  Aligned(pending, answered, inbox, executing, queue', isolate = "running")
    BY <1>1, <1>2, <1>3, <2>1, PushJoins DEF Path
  <2> QED  BY <1>1, <2>1 DEF Path, mainVars
<1> QED  BY <1>4, <1>5, <1>6, RequestsKept DEF RpcInv

\* The answer, seen before the push that may go with it.
LEMMA RespondKeeps ==
    ASSUME RpcInv, Responds
    PROVE  RpcInv'
<1>1. /\ RpcTypeOK /\ Shapes /\ Path /\ UNCHANGED <<mainVars, isolate>>
      /\ executing # <<>> /\ executing' = <<>>
  BY DEF RpcInv, Responds, Respond
<1>2. PICK reply \in Reply :
        inbox' = Append(inbox, [kind |-> "response", to |-> executing[1].from,
                                n |-> executing[1].n, reply |-> reply])
  BY DEF Responds, Respond
<1> DEFINE m == [kind |-> "response", to |-> executing[1].from, n |-> executing[1].n,
                 reply |-> reply]
<1>3. /\ executing \in Seq(Command) /\ Len(executing) = 1 /\ executing[1] \in Command
      /\ inbox \in Seq(Inbox) /\ answered \in Nat /\ queue \in Seq(Command \cup Push)
  <2>1. /\ executing \in Seq(Command) /\ Len(executing) <= 1
        /\ inbox \in Seq(Inbox) /\ answered \in Nat /\ queue \in Seq(Command \cup Push)
    BY <1>1 DEF RpcTypeOK, Inbox
  <2>2. Len(executing) \in Nat \ {0}
    BY <1>1, <2>1, EmptySeq
  <2>3. Len(executing) = 1
    <3>1. \A n \in Nat \ {0} : n <= 1 => n = 1
      OBVIOUS
    <3> QED  BY <2>1, <2>2, <3>1, Zenon
  <2>4. 1 \in 1 .. Len(executing)
    BY <2>3
  <2> QED  BY <2>1, <2>3, <2>4, ElementOfSeq
<1>4. m \in Response /\ m.kind = "response" /\ m.n = executing[1].n /\ m.to = executing[1].from
  BY <1>3, Numbers DEF Response
<1> HIDE DEF m
<1>5. inbox' = Append(inbox, m)
  BY <1>2 DEF m
<1>6. isolate = "running"
  BY <1>1 DEF Shapes, RpcTypeOK
<1>7. queue' = queue \/ \E p \in Push : queue' = Append(queue, p)
  BY DEF Responds, Posts, Push
<1>8. RpcTypeOK'
  <2>1. inbox' \in Seq(Response \cup Push \cup Notice)
    BY <1>3, <1>4, <1>5 DEF Inbox
  <2>2. queue' \in Seq(Command \cup Push)
    BY <1>3, <1>7
  <2>3. executing' \in Seq(Command) /\ Len(executing') <= 1
    BY <1>1
  <2> QED  BY <1>1, <2>1, <2>2, <2>3 DEF RpcTypeOK, mainVars
<1>9. Shapes'
  <2>1. \A i \in 1 .. Len(inbox') :
          inbox'[i].kind \in {"bootFailure", "exit"} => isolate' = "dead"
    <3> SUFFICES ASSUME NEW i \in 1 .. Len(inbox'), inbox'[i].kind \in {"bootFailure", "exit"}
                 PROVE  isolate' = "dead"
      OBVIOUS
    <3>1. i # Len(inbox) + 1
      BY <1>3, <1>4, <1>5
    <3>2. i \in 1 .. Len(inbox) /\ inbox'[i] = inbox[i]
      BY <1>3, <1>5, <3>1
    <3> QED  BY <1>1, <3>2 DEF Shapes
  <2> QED  BY <1>1, <1>6, <2>1 DEF Shapes, mainVars
<1>10. Path'
  <2>1. ASSUME ~disposed
        PROVE  Aligned(pending, answered, inbox', <<>>, queue', isolate = "running")
    <3>1. Aligned(pending, answered, inbox', <<>>, queue, isolate = "running")
      BY <1>1, <1>3, <1>4, <1>5, <2>1, AnswerJoins DEF Path
    <3> QED  BY <1>3, <1>7, <3>1, PushJoins
  <2> QED  BY <1>1, <2>1 DEF Path, mainVars
<1> QED  BY <1>1, <1>8, <1>9, <1>10, RequestsKept DEF RpcInv

\* A push goes from the queue to the inbox.
LEMMA ForwardKeeps ==
    ASSUME RpcInv, Forward
    PROVE  RpcInv'
<1> DEFINE m == Head(queue)
<1>1. /\ RpcTypeOK /\ Shapes /\ Path /\ UNCHANGED <<mainVars, isolate, executing>>
      /\ isolate = "running" /\ executing = <<>> /\ queue # <<>> /\ m.kind = "push"
      /\ inbox' = Append(inbox, m) /\ queue' = Tail(queue)
  BY DEF RpcInv, Forward, NextEvent
<1>2. /\ queue \in Seq(Command \cup Push) /\ answered \in Int /\ inbox \in Seq(Inbox)
  BY <1>1 DEF RpcTypeOK, Inbox
<1>3. m \in Push /\ m \in Inbox /\ queue' \in Seq(Command \cup Push)
  <2>1. m \in Command \cup Push /\ Tail(queue) \in Seq(Command \cup Push)
    BY <1>1, <1>2, HeadTailProperties
  <2>2. m \notin Command
    BY <1>1 DEF Command
  <2> QED  BY <1>1, <2>1, <2>2 DEF Inbox
<1> HIDE DEF m
<1>4. RpcTypeOK'
  <2>1. inbox' \in Seq(Response \cup Push \cup Notice)
    BY <1>1, <1>2, <1>3 DEF Inbox
  <2> QED  BY <1>1, <1>3, <2>1 DEF RpcTypeOK, mainVars
<1>5. Shapes'
  <2>1. \A i \in 1 .. Len(inbox') :
          inbox'[i].kind \in {"bootFailure", "exit"} => isolate' = "dead"
    <3> SUFFICES ASSUME NEW i \in 1 .. Len(inbox'), inbox'[i].kind \in {"bootFailure", "exit"}
                 PROVE  isolate' = "dead"
      OBVIOUS
    <3>1. i # Len(inbox) + 1
      BY <1>1, <1>2, <1>3
    <3>2. i \in 1 .. Len(inbox) /\ inbox'[i] = inbox[i]
      BY <1>1, <1>2, <3>1
    <3> QED  BY <1>1, <3>2 DEF Shapes
  <2> QED  BY <1>1, <2>1 DEF Shapes, mainVars
<1>6. Path'
  <2>1. ASSUME ~disposed
        PROVE  Aligned(pending, answered, inbox', <<>>, queue', isolate = "running")
    <3>1. Aligned(pending, answered, inbox, <<>>, queue, isolate = "running")
      BY <1>1, <2>1 DEF Path
    <3>2. Aligned(pending, answered, inbox, <<>>, queue', isolate = "running")
      <4>1. Head(queue).kind # "command"
        BY <1>1 DEF m
      <4> QED  BY <1>1, <1>2, <3>1, <4>1, HeadLeaves
    <3>3. m.kind # "response"
      BY <1>1
    <3> QED  BY <1>1, <1>2, <1>3, <3>2, <3>3, OtherJoins
  <2> QED  BY <1>1, <2>1 DEF Path, mainVars
<1> QED  BY <1>1, <1>4, <1>5, <1>6, RequestsKept DEF RpcInv

\* The worker ends and what it had not answered is lost.
LEMMA ExitKeeps ==
    ASSUME RpcInv, Exit
    PROVE  RpcInv'
<1> DEFINE m == [kind |-> "exit"]
<1>1. /\ RpcTypeOK /\ Shapes /\ Path /\ UNCHANGED <<mainVars, executing>>
      /\ isolate = "running" /\ executing = <<>> /\ isolate' = "dead"
      /\ inbox' = Append(inbox, m) /\ queue' = <<>>
  BY DEF RpcInv, Exit
<1>2. inbox \in Seq(Inbox) /\ m \in Inbox /\ m.kind # "response"
  BY <1>1 DEF RpcTypeOK, Inbox, Notice
<1> HIDE DEF m
<1>3. RpcTypeOK'
  <2>1. inbox' \in Seq(Response \cup Push \cup Notice)
    BY <1>1, <1>2 DEF Inbox
  <2> QED  BY <1>1, <2>1 DEF RpcTypeOK, mainVars
<1>4. Shapes'
  BY <1>1 DEF Shapes, mainVars
<1>5. Path'
  <2>1. ASSUME ~disposed
        PROVE  Aligned(pending, answered, inbox', <<>>, <<>>, FALSE)
    <3>1. Aligned(pending, answered, inbox, executing, queue, isolate = "running")
      BY <1>1, <2>1 DEF Path
    <3>2. Aligned(pending, answered, inbox, <<>>, <<>>, FALSE)
      BY <3>1, Lost
    <3> QED  BY <1>1, <1>2, <3>2, OtherJoins
  <2> QED  BY <1>1, <2>1 DEF Path, mainVars
<1> QED  BY <1>1, <1>3, <1>4, <1>5, RequestsKept DEF RpcInv

\* A request fails at once, waits for the port, or becomes the youngest.
LEMMA AskKeeps ==
    ASSUME RpcInv, NEW c \in Caller, call[c].at \notin {"waiting", "sent"},
           NEW what \in Request, Ask(c, what)
    PROVE  RpcInv'
<1>1. /\ RpcTypeOK /\ Shapes /\ Waiters /\ Senders /\ Path /\ AnswersMatch /\ NobodyForgotten
      /\ UNCHANGED <<port, disposed, answered, isolate, executing, inbox>>
  BY DEF RpcInv, Ask
<1>2. call \in [Caller -> Calls] /\ waiting \in Seq(Caller) /\ sent \in Nat
  BY <1>1 DEF RpcTypeOK
<1>3. \A i \in 1 .. Len(waiting) : waiting[i] \in Caller /\ waiting[i] # c
  BY <1>1, <1>2, ElementOfSeq DEF Waiters
<1>senders. /\ pending \in Seq(Completer) /\ Len(pending) \in Nat
      /\ \A i \in 1 .. Len(pending) : pending[i].from \in Caller /\ pending[i].from # c
  <2>1. pending \in Seq(Completer) /\ Len(pending) \in Nat
    BY <1>1 DEF RpcTypeOK
  <2>2. ASSUME NEW i \in 1 .. Len(pending)
        PROVE  pending[i].from \in Caller /\ pending[i].from # c
    <3>1. pending[i] \in Completer
      BY <2>1, ElementOfSeq
    <3> QED  BY <1>1, <3>1, Numbers DEF Senders
  <2> QED  BY <2>1, <2>2
<1>4. CASE /\ disposed /\ call' = [call EXCEPT ![c] = [at |-> "failed"]]
           /\ UNCHANGED <<waiting, pending, sent, queue>>
  <2>1. /\ call' \in [Caller -> Calls] /\ call'[c].at = "failed"
        /\ \A d \in Caller : d # c => call'[d] = call[d]
    BY <1>2, <1>4 DEF Calls
  <2>2. RpcTypeOK'
    BY <1>1, <1>4, <2>1 DEF RpcTypeOK
  <2>3. Shapes'
    BY <1>1, <1>4 DEF Shapes
  <2>4. Waiters' /\ Senders'
    BY <1>1, <1>3, <1>senders, <1>4, <2>1 DEF Waiters, Senders
  <2>5. Path'
    BY <1>1, <1>4 DEF Path
  <2>6. AnswersMatch'
    BY <1>1, <2>1 DEF AnswersMatch
  <2>7. NobodyForgotten'
    BY <1>1, <1>4, <2>1 DEF NobodyForgotten
  <2> QED  BY <2>2, <2>3, <2>4, <2>5, <2>6, <2>7 DEF RpcInv
<1>5. CASE /\ ~disposed /\ port = "pending"
           /\ call' = [call EXCEPT ![c] = [at |-> "waiting", what |-> what]]
           /\ waiting' = Append(waiting, c) /\ UNCHANGED <<pending, sent, queue>>
  <2>1. /\ call' \in [Caller -> Calls] /\ call'[c].at = "waiting"
        /\ \A d \in Caller : d # c => call'[d] = call[d]
    BY <1>2, <1>5 DEF Calls
  <2>2. /\ waiting' \in Seq(Caller) /\ Len(waiting') = Len(waiting) + 1 /\ Len(waiting) \in Nat
        /\ \A i \in 1 .. Len(waiting) : waiting'[i] = waiting[i]
        /\ waiting'[Len(waiting) + 1] = c
    BY <1>2, <1>5
  <2>3. RpcTypeOK'
    BY <1>1, <1>5, <2>1, <2>2 DEF RpcTypeOK
  <2>4. Shapes'
    BY <1>1, <1>5 DEF Shapes
  <2>5. Waiters'
    <3> SUFFICES ASSUME NEW i \in 1 .. Len(waiting')
                 PROVE  /\ call'[waiting'[i]].at = "waiting"
                        /\ \A j \in 1 .. Len(waiting') : waiting'[j] = waiting'[i] => j = i
      BY DEF Waiters
    <3>1. \A j \in 1 .. Len(waiting') : j = Len(waiting) + 1 \/ j \in 1 .. Len(waiting)
      BY <2>2
    <3>2. CASE i = Len(waiting) + 1
      BY <1>3, <2>1, <2>2, <3>1, <3>2
    <3>3. CASE i \in 1 .. Len(waiting)
      BY <1>1, <1>3, <2>1, <2>2, <3>1, <3>3 DEF Waiters
    <3> QED  BY <3>1, <3>2, <3>3
  <2>senders. Senders'
    BY <1>1, <1>senders, <1>5, <2>1 DEF Senders
  <2>6. Path'
    BY <1>1, <1>5 DEF Path
  <2>7. AnswersMatch'
    BY <1>1, <2>1 DEF AnswersMatch
  <2>8. NobodyForgotten'
    <3>1. DOMAIN waiting = 1 .. Len(waiting) /\ DOMAIN waiting' = 1 .. Len(waiting')
      BY <1>2, <2>2
    <3>2. Len(waiting) + 1 \in DOMAIN waiting' /\ \A i \in DOMAIN waiting : i \in DOMAIN waiting'
      BY <2>2, <3>1
    <3> SUFFICES ASSUME NEW d \in Caller
                 PROVE  /\ call'[d].at = "waiting" => \E i \in DOMAIN waiting' : waiting'[i] = d
                        /\ call'[d].at = "sent" => \E i \in DOMAIN pending' :
                             pending'[i] = [from |-> d, n |-> call'[d].n]
                        /\ disposed' => call'[d].at \notin {"waiting", "sent"}
      BY DEF NobodyForgotten
    <3>3. CASE d = c
      BY <1>1, <1>5, <2>1, <2>2, <3>2, <3>3
    <3>4. CASE d # c
      BY <1>1, <1>5, <2>1, <2>2, <3>1, <3>2, <3>4 DEF NobodyForgotten
    <3> QED  BY <3>3, <3>4
  <2> QED  BY <2>3, <2>4, <2>5, <2>senders, <2>6, <2>7, <2>8 DEF RpcInv
<1>6. CASE /\ ~disposed /\ port = "ready"
           /\ call' = [call EXCEPT ![c] = [at |-> "sent", n |-> sent + 1]]
           /\ Send(<<[c |-> c, what |-> what]>>) /\ UNCHANGED waiting
  <2> DEFINE s == <<[c |-> c, what |-> what]>>
  <2>1. s \in Seq([c : Caller, what : Request]) /\ Len(s) = 1 /\ s[1].c = c
    OBVIOUS
  <2>2. Send(s)
    BY <1>6
  <2> HIDE DEF s
  <2>3. isolate # "booting"
    BY <1>1, <1>6 DEF Shapes
  <2>4. /\ pending' \in Seq(Completer) /\ queue' \in Seq(Command \cup Push)
        /\ sent' \in Nat /\ sent' = answered + Len(pending')
        /\ isolate # "running" => queue' = queue
        /\ Aligned(pending', answered, inbox, executing, queue', isolate = "running")
        /\ Len(pending') = Len(pending) + 1 /\ Len(pending) \in Nat
        /\ \A i \in 1 .. Len(pending) : pending'[i] = pending[i]
        /\ pending'[Len(pending) + 1] = [from |-> c, n |-> sent + 1]
    <3>1. 1 \in 1 .. Len(s)
      BY <2>1
    <3> QED  BY <1>1, <1>6, <2>1, <2>2, <2>3, <3>1, Sent
  <2>5. /\ call' \in [Caller -> Calls] /\ call'[c].at = "sent" /\ call'[c].n = sent + 1
        /\ \A d \in Caller : d # c => call'[d] = call[d]
    BY <1>2, <1>6 DEF Calls
  <2>6. RpcTypeOK'
    BY <1>1, <1>6, <2>4, <2>5 DEF RpcTypeOK
  <2>7. Shapes'
    BY <1>1, <1>6, <2>4 DEF Shapes
  <2>8. Waiters'
    BY <1>1, <1>3, <1>6, <2>5 DEF Waiters
  <2>senders. Senders'
    <3> SUFFICES ASSUME NEW i \in 1 .. Len(pending')
                 PROVE  LET d == pending'[i].from
                        IN  call'[d].at = "sent" /\ call'[d].n = pending'[i].n
      BY DEF Senders
    <3>1. CASE i = Len(pending) + 1
      BY <2>4, <2>5, <3>1
    <3>2. CASE i \in 1 .. Len(pending)
      BY <1>1, <1>senders, <2>4, <2>5, <3>2 DEF Senders
    <3> QED  BY <2>4, <3>1, <3>2
  <2>9. Path'
    BY <1>1, <2>4 DEF Path
  <2>10. AnswersMatch'
    BY <1>1, <2>5 DEF AnswersMatch
  <2>11. NobodyForgotten'
    <3>1. pending \in Seq(Completer)
      BY <1>1 DEF RpcTypeOK
    <3>2. DOMAIN pending = 1 .. Len(pending) /\ DOMAIN pending' = 1 .. Len(pending')
      BY <2>4, <3>1
    <3>3. Len(pending) + 1 \in DOMAIN pending' /\ \A i \in DOMAIN pending : i \in DOMAIN pending'
      BY <2>4, <3>2
    <3> SUFFICES ASSUME NEW d \in Caller
                 PROVE  /\ call'[d].at = "waiting" => \E i \in DOMAIN waiting' : waiting'[i] = d
                        /\ call'[d].at = "sent" => \E i \in DOMAIN pending' :
                             pending'[i] = [from |-> d, n |-> call'[d].n]
                        /\ disposed' => call'[d].at \notin {"waiting", "sent"}
      BY DEF NobodyForgotten
    <3>4. CASE d = c
      BY <1>1, <1>6, <2>4, <2>5, <3>3, <3>4
    <3>5. CASE d # c
      BY <1>1, <1>6, <2>4, <2>5, <3>2, <3>3, <3>5 DEF NobodyForgotten
    <3> QED  BY <3>4, <3>5
  <2> QED  BY <2>6, <2>7, <2>8, <2>senders, <2>9, <2>10, <2>11 DEF RpcInv
<1> QED  BY <1>4, <1>5, <1>6 DEF Ask

\* A caller takes its result.
LEMMA GoesKeeps ==
    ASSUME RpcInv, NEW c \in Caller, Goes(c)
    PROVE  RpcInv'
<1>1. /\ RpcTypeOK /\ Shapes /\ Waiters /\ Senders /\ Path /\ AnswersMatch /\ NobodyForgotten
      /\ UNCHANGED <<port, disposed, waiting, pending, sent, answered, isolate, queue, executing,
                     inbox>>
      /\ call[c].at \in {"answered", "failed"} /\ call' = [call EXCEPT ![c] = Idle]
  BY DEF RpcInv, Goes, Consume
<1>2. call \in [Caller -> Calls] /\ waiting \in Seq(Caller)
  BY <1>1 DEF RpcTypeOK
<1>3. \A i \in 1 .. Len(waiting) : waiting[i] \in Caller /\ waiting[i] # c
  BY <1>1, <1>2, ElementOfSeq DEF Waiters
<1>senders. \A i \in 1 .. Len(pending) : pending[i].from \in Caller /\ pending[i].from # c
  <2> SUFFICES ASSUME NEW i \in 1 .. Len(pending)
               PROVE  pending[i].from \in Caller /\ pending[i].from # c
    OBVIOUS
  <2>1. pending[i] \in Completer
    BY <1>1, ElementOfSeq DEF RpcTypeOK
  <2> QED  BY <1>1, <2>1, Numbers DEF Senders
<1>4. /\ call' \in [Caller -> Calls] /\ call'[c].at = "idle"
      /\ \A d \in Caller : d # c => call'[d] = call[d]
  BY <1>1, <1>2 DEF Calls, Idle
<1>5. RpcTypeOK'
  BY <1>1, <1>4 DEF RpcTypeOK
<1>6. Shapes'
  BY <1>1 DEF Shapes
<1>7. Waiters' /\ Senders'
  BY <1>1, <1>3, <1>senders, <1>4 DEF Waiters, Senders
<1>8. Path'
  BY <1>1 DEF Path
<1>9. AnswersMatch' /\ NobodyForgotten'
  BY <1>1, <1>4 DEF AnswersMatch, NobodyForgotten
<1> QED  BY <1>5, <1>6, <1>7, <1>8, <1>9 DEF RpcInv

\* A push leaves the inbox.
LEMMA PushKeeps ==
    ASSUME RpcInv, HandlePush
    PROVE  RpcInv'
<1>1. /\ RpcTypeOK /\ Shapes /\ Path /\ UNCHANGED <<mainVars, isolate, queue, executing>>
      /\ inbox # <<>> /\ Head(inbox).kind = "push" /\ inbox' = Tail(inbox)
  BY DEF RpcInv, HandlePush, NextMessage
<1>2. inbox \in Seq(Inbox) /\ inbox' \in Seq(Inbox)
  BY <1>1, HeadTailProperties DEF RpcTypeOK, Inbox
<1>3. RpcTypeOK'
  BY <1>1, <1>2 DEF RpcTypeOK, mainVars, Inbox
<1>4. Shapes'
  <2>1. \A i \in 1 .. Len(inbox') : i + 1 \in 1 .. Len(inbox) /\ inbox'[i] = inbox[i + 1]
    BY <1>1, <1>2, HeadTailProperties
  <2> QED  BY <1>1, <2>1 DEF Shapes, mainVars
<1>5. Path'
  <2>1. ASSUME ~disposed
        PROVE  Aligned(pending, answered, inbox', executing, queue, isolate = "running")
    BY <1>1, <1>2, <2>1, OtherLeaves DEF Path
  <2> QED  BY <1>1, <2>1 DEF Path, mainVars
<1> QED  BY <1>1, <1>3, <1>4, <1>5, RequestsKept DEF RpcInv

\* The request that is completed is the one that was answered.
LEMMA ResponseKeeps ==
    ASSUME RpcInv, HandleResponse
    PROVE  RpcInv'
<1> DEFINE p == Head(pending)
           m == Head(inbox)
<1>1. /\ RpcTypeOK /\ Shapes /\ Waiters /\ Senders /\ Path /\ AnswersMatch /\ NobodyForgotten
      /\ inbox # <<>> /\ m.kind = "response" /\ inbox' = Tail(inbox)
      /\ UNCHANGED <<port, disposed, waiting, sent, isolate, queue, executing>>
  BY DEF RpcInv, HandleResponse, NextMessage
<1>2. ~disposed
  BY <1>1 DEF Shapes
<1>3. /\ call \in [Caller -> Calls] /\ waiting \in Seq(Caller) /\ answered \in Nat
      /\ pending \in Seq(Completer) /\ inbox \in Seq(Inbox)
  BY <1>1 DEF RpcTypeOK, Inbox
<1>4. /\ sent = answered + Len(pending)
      /\ Aligned(pending, answered, inbox, executing, queue, isolate = "running")
  BY <1>1, <1>2 DEF Path
<1>5. /\ Len(inbox) \in Nat /\ Len(inbox) > 0 /\ m = inbox[1] /\ m \in Response
      /\ inbox' \in Seq(Inbox)
      /\ \A i \in 1 .. Len(inbox') : i + 1 \in 1 .. Len(inbox) /\ inbox'[i] = inbox[i + 1]
  <2>1. m \in Inbox
    BY <1>1, <1>3, HeadTailProperties
  <2> QED  BY <1>1, <1>3, <2>1, HeadTailProperties, Numbers
<1>6. /\ Len(pending) \in Nat /\ Len(pending) > 0
      /\ pending[1].n = answered + 1 /\ pending[1].from = m.to /\ m.n = answered + 1
  <2>1. answered \in Int /\ Len(pending) \in Int /\ Len(pending) \in Nat
    BY <1>3
  <2>2. /\ inbox[1].n = answered + 1
        /\ Len(pending) > 0 /\ pending[1].n = answered + 1 /\ pending[1].from = inbox[1].to
    BY <1>1, <1>4, <1>5, <2>1, HeadAnswers
  <2> QED  BY <1>5, <2>1, <2>2
<1>7. pending # <<>> /\ p = pending[1] /\ p \in Completer /\ p.from \in Caller /\ p.n \in Nat
  BY <1>3, <1>6, Numbers
<1>8. /\ pending' = Tail(pending) /\ answered' = answered + 1
      /\ call' = [call EXCEPT ![p.from] = [at |-> "answered", n |-> p.n, by |-> m]]
  BY <1>7 DEF HandleResponse, Oldest
<1> HIDE DEF p, m
<1>9. /\ call' \in [Caller -> Calls] /\ call'[p.from].at = "answered"
      /\ call'[p.from].by = m /\ call'[p.from].n = p.n
      /\ \A d \in Caller : d # p.from => call'[d] = call[d]
  <2>1. [at |-> "answered", n |-> p.n, by |-> m] \in Calls
    BY <1>5, <1>7 DEF Calls
  <2> QED  BY <1>3, <1>7, <1>8, <2>1
<1>10. /\ pending' \in Seq(Completer) /\ Len(pending') = Len(pending) - 1
       /\ \A i \in 1 .. Len(pending') : pending'[i] = pending[i + 1]
  BY <1>3, <1>7, <1>8, HeadTailProperties
<1>11. RpcTypeOK'
  BY <1>1, <1>3, <1>5, <1>8, <1>9, <1>10 DEF RpcTypeOK, Inbox
<1>12. port = "ready" /\ waiting = <<>>
  <2>1. port # "pending" /\ port # "failed"
    BY <1>1, <1>2, <1>7 DEF Shapes
  <2> QED  BY <1>1, <2>1 DEF Shapes, RpcTypeOK
<1>13. Shapes'
  BY <1>1, <1>2, <1>5, <1>12 DEF Shapes
<1>14. Waiters'
  BY <1>1, <1>12 DEF Waiters
<1>senders. Senders'
  <2> SUFFICES ASSUME NEW i \in 1 .. Len(pending')
               PROVE  LET d == pending'[i].from
                      IN  call'[d].at = "sent" /\ call'[d].n = pending'[i].n
    BY DEF Senders
  <2>1. i \in Nat /\ i + 1 \in 1 .. Len(pending) /\ pending'[i] = pending[i + 1]
    BY <1>6, <1>10
  <2>2. pending[i + 1].n = answered + (i + 1) /\ pending[i + 1].from \in Caller
    <3>1. pending[i + 1] \in Completer
      BY <1>3, <2>1, ElementOfSeq
    <3> QED  BY <1>4, <2>1, <3>1, Numbers DEF Aligned, Numbered
  <2>3. /\ call[pending[i + 1].from].at = "sent"
        /\ call[pending[i + 1].from].n = pending[i + 1].n
        /\ call[p.from].n = p.n
    <3>1. 1 \in 1 .. Len(pending)
      BY <1>6
    <3> QED  BY <1>1, <1>7, <2>1, <3>1 DEF Senders
  <2>4. pending[i + 1].n # p.n
    BY <1>3, <1>6, <1>7, <2>1, <2>2
  <2> QED  BY <1>9, <2>1, <2>2, <2>3, <2>4
<1>15. Path'
  <2>1. answered \in Int /\ Head(inbox).kind = "response"
    BY <1>1, <1>3 DEF m
  <2>2. Aligned(pending', answered', inbox', executing, queue, isolate = "running")
    BY <1>1, <1>3, <1>4, <1>7, <1>8, <2>1, AnswerLeaves
  <2>3. sent = answered' + Len(pending')
    BY <1>3, <1>4, <1>6, <1>8, <1>10
  <2> QED  BY <1>1, <2>2, <2>3 DEF Path
<1>16. AnswersMatch'
  BY <1>1, <1>6, <1>7, <1>9 DEF AnswersMatch
<1>17. NobodyForgotten'
  <2> SUFFICES ASSUME NEW d \in Caller
               PROVE  /\ call'[d].at = "waiting" => \E i \in DOMAIN waiting' : waiting'[i] = d
                      /\ call'[d].at = "sent" => \E i \in DOMAIN pending' :
                           pending'[i] = [from |-> d, n |-> call'[d].n]
                      /\ disposed' => call'[d].at \notin {"waiting", "sent"}
    BY DEF NobodyForgotten
  <2>1. CASE d = p.from
    BY <1>1, <1>2, <1>9, <2>1
  <2>2. CASE d # p.from
    <3>1. call'[d] = call[d]
      BY <1>9, <2>2
    <3>2. ASSUME call[d].at = "sent"
          PROVE  \E i \in DOMAIN pending' : pending'[i] = [from |-> d, n |-> call[d].n]
      <4>1. PICK i \in DOMAIN pending : pending[i] = [from |-> d, n |-> call[d].n]
        BY <1>1, <3>2 DEF NobodyForgotten
      <4>2. i # 1
        BY <1>7, <2>2, <4>1
      <4>3. i \in 1 .. Len(pending)
        BY <1>3, <4>1
      <4>4. i - 1 \in 1 .. Len(pending') /\ (i - 1) + 1 = i
        BY <1>6, <1>10, <4>2, <4>3
      <4>5. pending'[i - 1] = pending[i] /\ i - 1 \in DOMAIN pending'
        BY <1>10, <4>4
      <4> QED  BY <4>1, <4>5
    <3> QED  BY <1>1, <1>2, <3>1, <3>2 DEF NobodyForgotten
  <2> QED  BY <2>1, <2>2
<1> QED  BY <1>11, <1>13, <1>14, <1>senders, <1>15, <1>16, <1>17 DEF RpcInv

\* The callers that waited for the port become the youngest requests, in their order.
LEMMA ReadyKeeps ==
    ASSUME RpcInv, HandleReady
    PROVE  RpcInv'
<1> DEFINE s == [i \in DOMAIN waiting |-> [c |-> waiting[i], what |-> call[waiting[i]].what]]
           first(c) == CHOOSE i \in DOMAIN waiting : waiting[i] = c
<1>1. /\ RpcTypeOK /\ Shapes /\ Waiters /\ Senders /\ Path /\ AnswersMatch /\ NobodyForgotten
      /\ inbox # <<>> /\ Head(inbox).kind = "ready" /\ inbox' = Tail(inbox)
      /\ port' = "ready" /\ waiting' = <<>> /\ Send(s)
      /\ call' = [c \in Caller |-> IF call[c].at # "waiting" THEN call[c]
                                   ELSE [at |-> "sent", n |-> sent + first(c)]]
      /\ UNCHANGED <<disposed, answered, isolate, executing>>
  BY DEF RpcInv, HandleReady, NextMessage
<1>2. ~disposed /\ isolate # "booting"
  BY <1>1 DEF Shapes
<1>3. /\ call \in [Caller -> Calls] /\ waiting \in Seq(Caller) /\ sent \in Nat
      /\ pending \in Seq(Completer) /\ inbox \in Seq(Inbox) /\ inbox' \in Seq(Inbox)
      /\ Len(waiting) \in Nat /\ DOMAIN waiting = 1 .. Len(waiting)
  BY <1>1, HeadTailProperties DEF RpcTypeOK, Inbox
<1>4. /\ s \in Seq([c : Caller, what : Request]) /\ Len(s) = Len(waiting)
      /\ \A i \in 1 .. Len(waiting) : s[i].c = waiting[i]
  <2>1. ASSUME NEW i \in 1 .. Len(waiting)
        PROVE  waiting[i] \in Caller /\ call[waiting[i]].what \in Request
    <3>1. waiting[i] \in Caller
      BY <1>3, ElementOfSeq
    <3>2. call[waiting[i]] \in Calls /\ call[waiting[i]].at = "waiting"
      BY <1>1, <1>3, <3>1 DEF Waiters
    <3> QED  BY <3>1, <3>2 DEF Calls
  <2>2. s \in [1 .. Len(waiting) -> [c : Caller, what : Request]]
    BY <1>3, <2>1
  <2>3. \A i \in 1 .. Len(waiting) : s[i].c = waiting[i]
    BY <1>3
  <2> DEFINE R == [c : Caller, what : Request]
  <2>4. s \in [1 .. Len(waiting) -> R]
    BY <2>2
  <2> HIDE DEF s, R
  <2>5. s \in Seq(R) /\ Len(s) = Len(waiting)
    BY <1>3, <2>4, FunctionIsSequence
  <2> QED  BY <2>3, <2>5 DEF R
<1>5. ASSUME NEW c \in Caller, call[c].at = "waiting"
      PROVE  first(c) \in 1 .. Len(waiting) /\ waiting[first(c)] = c
  <2>1. \E i \in DOMAIN waiting : waiting[i] = c
    BY <1>1, <1>5 DEF NobodyForgotten
  <2> QED  BY <1>3, <2>1
<1> HIDE DEF s, first
<1>6. /\ pending' \in Seq(Completer) /\ queue' \in Seq(Command \cup Push)
      /\ sent' \in Nat /\ sent' = answered + Len(pending')
      /\ isolate # "running" => queue' = queue
      /\ Aligned(pending', answered, inbox, executing, queue', isolate = "running")
      /\ Len(pending') = Len(pending) + Len(waiting) /\ Len(pending) \in Nat
      /\ \A i \in 1 .. Len(pending) : pending'[i] = pending[i]
      /\ \A i \in 1 .. Len(waiting) :
           pending'[Len(pending) + i] = [from |-> waiting[i], n |-> sent + i]
  BY <1>1, <1>2, <1>4, Sent, ZenonT(60)
<1>7. /\ DOMAIN call' = Caller
      /\ \A c \in Caller : IF call[c].at # "waiting" THEN call'[c] = call[c]
                           ELSE call'[c] = [at |-> "sent", n |-> sent + first(c)]
  BY <1>1
<1>8. call' \in [Caller -> Calls]
  <2>1. ASSUME NEW c \in Caller  PROVE call'[c] \in Calls
    <3>1. CASE call[c].at # "waiting"
      BY <1>3, <1>7, <3>1
    <3>2. CASE call[c].at = "waiting"
      <4>1. sent + first(c) \in Nat
        BY <1>3, <1>5, <3>2
      <4> QED  BY <1>7, <3>2, <4>1 DEF Calls
    <3> QED  BY <3>1, <3>2
  <2> QED  BY <1>1, <2>1
<1>9. RpcTypeOK'
  <2>1. waiting' \in Seq(Caller)
    BY <1>1
  <2> QED  BY <1>1, <1>3, <1>6, <1>8, <2>1 DEF RpcTypeOK, Inbox
<1>10. Shapes'
  <2>1. \A i \in 1 .. Len(inbox') : i + 1 \in 1 .. Len(inbox) /\ inbox'[i] = inbox[i + 1]
    BY <1>1, <1>3, HeadTailProperties
  <2> QED  BY <1>1, <1>2, <1>6, <2>1 DEF Shapes
<1>11. Waiters'
  BY <1>1 DEF Waiters
<1>senders. Senders'
  <2> SUFFICES ASSUME NEW i \in 1 .. Len(pending')
               PROVE  LET d == pending'[i].from
                      IN  call'[d].at = "sent" /\ call'[d].n = pending'[i].n
    BY DEF Senders
  <2>1. CASE i \in 1 .. Len(pending)
    <3>1. pending[i].from \in Caller
      <4>1. pending[i] \in Completer
        BY <1>3, <2>1, ElementOfSeq
      <4> QED  BY <4>1, Numbers
    <3> QED  BY <1>1, <1>6, <1>7, <2>1, <3>1, SMTT(30) DEF Senders
  <2>2. CASE i \notin 1 .. Len(pending)
    <3>1. PICK j \in 1 .. Len(waiting) : i = Len(pending) + j
      <4>1. i - Len(pending) \in 1 .. Len(waiting) /\ i = Len(pending) + (i - Len(pending))
        BY <1>3, <1>6, <2>2
      <4> QED  BY <4>1
    <3>2. pending'[i] = [from |-> waiting[j], n |-> sent + j]
      BY <1>6, <3>1
    <3>3. waiting[j] \in Caller /\ call[waiting[j]].at = "waiting"
      BY <1>1, <1>3, ElementOfSeq DEF Waiters
    <3>4. first(waiting[j]) = j
      <4>1. first(waiting[j]) \in 1 .. Len(waiting) /\ waiting[first(waiting[j])] = waiting[j]
        BY <1>5, <3>3
      <4> QED  BY <1>1, <4>1 DEF Waiters
    <3> QED  BY <1>7, <3>2, <3>3, <3>4
  <2> QED  BY <2>1, <2>2
<1>12. Path'
  <2>1. Aligned(pending', answered, inbox', executing, queue', isolate = "running")
    BY <1>1, <1>3, <1>6, OtherLeaves
  <2> QED  BY <1>1, <1>6, <2>1 DEF Path
<1>13. AnswersMatch'
  BY <1>1, <1>7 DEF AnswersMatch
<1>14. NobodyForgotten'
  <2>1. DOMAIN pending = 1 .. Len(pending) /\ DOMAIN pending' = 1 .. Len(pending')
    BY <1>3, <1>6
  <2> SUFFICES ASSUME NEW d \in Caller
               PROVE  /\ call'[d].at # "waiting"
                      /\ call'[d].at = "sent" => \E i \in DOMAIN pending' :
                           pending'[i] = [from |-> d, n |-> call'[d].n]
    BY <1>1, <1>2 DEF NobodyForgotten
  <2>2. CASE call[d].at # "waiting"
    <3>1. call'[d] = call[d]
      BY <1>7, <2>2
    <3>2. ASSUME call[d].at = "sent"
          PROVE  \E i \in DOMAIN pending' : pending'[i] = [from |-> d, n |-> call[d].n]
      <4>1. PICK i \in DOMAIN pending : pending[i] = [from |-> d, n |-> call[d].n]
        BY <1>1, <3>2 DEF NobodyForgotten
      <4>2. i \in 1 .. Len(pending) /\ i \in DOMAIN pending'
        BY <1>3, <1>6, <2>1
      <4> QED  BY <1>6, <4>1, <4>2
    <3> QED  BY <2>2, <3>1, <3>2
  <2>3. CASE call[d].at = "waiting"
    <3>1. call'[d].at = "sent" /\ call'[d].n = sent + first(d)
      BY <1>7, <2>3
    <3>2. first(d) \in 1 .. Len(waiting) /\ waiting[first(d)] = d
      BY <1>5, <2>3
    <3>3. Len(pending) + first(d) \in DOMAIN pending'
      BY <1>3, <1>6, <2>1, <3>2
    <3>4. pending'[Len(pending) + first(d)] = [from |-> d, n |-> sent + first(d)]
      BY <1>6, <3>2
    <3> QED  BY <3>1, <3>3, <3>4
  <2> QED  BY <2>2, <2>3
<1> QED  BY <1>9, <1>10, <1>11, <1>senders, <1>12, <1>13, <1>14 DEF RpcInv

\* Whoever is open when the worker is found dead is failed.
LEMMA DisposeKeeps ==
    ASSUME RpcInv, Dispose, isolate' = "dead", queue = <<>>, executing = <<>>
    PROVE  RpcInv'
<1>1. /\ RpcTypeOK /\ Shapes /\ AnswersMatch /\ NobodyForgotten
      /\ disposed' = TRUE /\ port' = IF port = "pending" THEN "failed" ELSE port
      /\ call' = [c \in Caller |-> IF call[c].at \in {"waiting", "sent"} THEN [at |-> "failed"]
                                   ELSE call[c]]
      /\ waiting' = <<>> /\ pending' = <<>> /\ inbox' = <<>>
      /\ UNCHANGED <<sent, answered, queue, executing>>
  BY DEF RpcInv, Dispose, Ended
<1>2. \A c \in Caller : IF call[c].at \in {"waiting", "sent"} THEN call'[c] = [at |-> "failed"]
                        ELSE call'[c] = call[c]
  BY <1>1
<1>3. call' \in [Caller -> Calls]
  <2>1. [at |-> "failed"] \in Calls /\ call \in [Caller -> Calls]
    BY <1>1 DEF Calls, RpcTypeOK
  <2> QED  BY <1>1, <2>1
<1>4. RpcTypeOK'
  <2>1. /\ waiting' \in Seq(Caller) /\ pending' \in Seq(Completer)
        /\ inbox' \in Seq(Response \cup Push \cup Notice)
    BY <1>1
  <2>2. port' \in {"pending", "ready", "failed"} /\ disposed' \in BOOLEAN
    BY <1>1 DEF RpcTypeOK
  <2> QED  BY <1>1, <1>3, <2>1, <2>2 DEF RpcTypeOK
<1>5. Shapes'
  BY <1>1 DEF Shapes
<1>6. Waiters' /\ Senders' /\ Path'
  BY <1>1 DEF Waiters, Senders, Path
<1>7. AnswersMatch'
  BY <1>1, <1>2 DEF AnswersMatch
<1>8. NobodyForgotten'
  BY <1>1, <1>2 DEF NobodyForgotten
<1> QED  BY <1>4, <1>5, <1>6, <1>7, <1>8 DEF RpcInv

\* The three ways in which the main isolate learns that there is no worker.
LEMMA EndKeeps ==
    ASSUME RpcInv, SpawnFails \/ HandleBootFailure \/ HandleExit
    PROVE  RpcInv'
<1>1. CASE SpawnFails
  BY <1>1, DisposeKeeps DEF SpawnFails, RpcInv, Shapes
<1>2. CASE HandleBootFailure \/ HandleExit
  <2>1. /\ RpcTypeOK /\ Shapes /\ Dispose /\ UNCHANGED isolate
        /\ inbox # <<>> /\ Head(inbox).kind \in {"bootFailure", "exit"}
    BY <1>2 DEF RpcInv, HandleBootFailure, HandleExit, NextMessage
  <2>2. Head(inbox) = inbox[1] /\ 1 \in 1 .. Len(inbox)
    BY <2>1, HeadTailProperties DEF RpcTypeOK
  <2>3. isolate = "dead" /\ queue = <<>> /\ executing = <<>>
    BY <2>1, <2>2 DEF Shapes
  <2> QED  BY <2>1, <2>3, DisposeKeeps
<1> QED  BY <1>1, <1>2

\* The invariant holds when the main isolate spawns the worker.
LEMMA InvStarts == Init => RpcInv
<1> SUFFICES ASSUME Init  PROVE RpcInv
  OBVIOUS
<1>1. RpcTypeOK
  <2>1. Idle \in Calls /\ Len(executing) <= 1
    BY DEF Init, Calls, Idle
  <2>2. call \in [Caller -> Calls]
    BY <2>1 DEF Init
  <2>3. /\ waiting \in Seq(Caller) /\ pending \in Seq(Completer)
        /\ queue \in Seq(Command \cup Push) /\ executing \in Seq(Command)
        /\ inbox \in Seq(Response \cup Push \cup Notice)
    <3>1. \A S : <<>> \in Seq(S)
      OBVIOUS
    <3> QED  BY <3>1 DEF Init
  <2>4. /\ isolate \in {"booting", "running", "dead"} /\ port \in {"pending", "ready", "failed"}
        /\ disposed \in BOOLEAN /\ sent \in Nat /\ answered \in Nat
    BY DEF Init
  <2> QED  BY <2>1, <2>2, <2>3, <2>4 DEF RpcTypeOK
<1>2. Shapes /\ Waiters /\ Senders
  BY DEF Init, Shapes, Waiters, Senders
<1>3. Path
  BY DEF Init, Path, Aligned, Numbered, InboxAligned, ExecutingAligned, QueueAligned, AllThere
<1>4. AnswersMatch /\ NobodyForgotten
  BY DEF Init, Idle, AnswersMatch, NobodyForgotten
<1> QED  BY <1>1, <1>2, <1>3, <1>4 DEF RpcInv

\* Every step of either isolate keeps the invariant.
LEMMA InvKept == RpcInv /\ [Next]_vars => RpcInv'
<1> SUFFICES ASSUME RpcInv, [Next]_vars  PROVE RpcInv'
  OBVIOUS
<1>1. ASSUME NEW c \in Caller, Asks(c) \/ GoesOn(c)  PROVE RpcInv'
  <2>1. PICK what \in Request : Ask(c, what)
    BY <1>1 DEF Asks, GoesOn
  <2>2. call[c].at \notin {"waiting", "sent"}
    BY <1>1 DEF Asks, GoesOn, Idle
  <2> QED  BY <2>1, <2>2, AskKeeps
<1>2. ASSUME NEW c \in Caller, Goes(c)  PROVE RpcInv'
  BY <1>2, GoesKeeps
<1>3. CASE SpawnFails \/ HandleBootFailure \/ HandleExit
  BY <1>3, EndKeeps
<1>4. CASE HandleReady
  BY <1>4, ReadyKeeps
<1>5. CASE HandleResponse
  BY <1>5, ResponseKeeps
<1>6. CASE HandlePush
  BY <1>6, PushKeeps
<1>7. CASE BootSucceeds \/ BootFails
  BY <1>7, Started
<1>8. CASE Begin
  BY <1>8, BeginKeeps
<1>9. CASE Responds
  BY <1>9, RespondKeeps
<1>10. CASE Forward
  BY <1>10, ForwardKeeps
<1>11. CASE Exit
  BY <1>11, ExitKeeps
<1>12. CASE Pushed
  BY <1>12, PostKeeps DEF Pushed
<1>13. CASE UNCHANGED vars
  BY <1>13 DEF vars, mainVars, RpcInv, RpcTypeOK, Shapes, Waiters, Senders, Path, AnswersMatch,
               NobodyForgotten
<1> QED  BY <1>1, <1>2, <1>3, <1>4, <1>5, <1>6, <1>7, <1>8, <1>9, <1>10, <1>11, <1>12, <1>13
         DEF Next

-----------------------------------------------------------------------------
(* The results.                                                            *)

\* The inductive invariant holds of every behaviour of the layer.
THEOREM RpcInvariant == Spec => []RpcInv
BY InvStarts, InvKept, PTL DEF Spec

\* The state of the RPC layer keeps its types (worker.dart, entrypoint.dart).
THEOREM RpcTypeCorrect == Spec => []RpcTypeOK
<1>1. RpcInv => RpcTypeOK
  BY DEF RpcInv
<1> QED  BY <1>1, RpcInvariant, PTL

\* For any number of callers: though _request sends no identifier, the response that
\* completes the oldest completer of _pendingRequests is that of its own command.
THEOREM EveryAnswerMatches == Spec => []AnswersMatch
<1>1. RpcInv => AnswersMatch
  BY DEF RpcInv
<1> QED  BY <1>1, RpcInvariant, PTL

\* For any number of callers: every open request is in _pendingRequests or waits for the
\* port, and _dispose leaves none open.
THEOREM EveryCallerIsKept == Spec => []NobodyForgotten
<1>1. RpcInv => NobodyForgotten
  BY DEF RpcInv
<1> QED  BY <1>1, RpcInvariant, PTL
=============================================================================
