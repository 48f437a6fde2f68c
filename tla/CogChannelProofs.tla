-------------------------- MODULE CogChannelProofs --------------------------
(***************************************************************************)
(* Proofs about CogChannel, for any number of worker and user threads, any *)
(* message strings and any socket capacity.                                *)
(***************************************************************************)
EXTENDS CogChannel, FiniteSetTheorems, TLAPS

-----------------------------------------------------------------------------
(***************************************************************************)
(* The inductive invariant.                                                *)
(***************************************************************************)
\* Barriers begin and return in turn, and the server completes one only
\* when every worker has sent it.
Counters ==
  /\ bret <= bstart /\ bstart <= bret + 1
  /\ phase = "none" <=> bstart = bret
  /\ sdone <= bstart
  /\ sdone > bret => phase = "fence" /\ left = {}

\* Nothing older than the last barrier to return is left in the buffer, and
\* nothing older than the barrier in progress once it is past the drain.
BufferWindow ==
  \A m \in Buffered :
    /\ m.lo <= bret
    /\ bret <= m.hi
    /\ phase = "fence" => bstart <= m.hi

\* The last barrier whose message worker w has sent.
Fenced(w) == IF phase = "fence" /\ w \notin left THEN bstart ELSE bret

\* The barrier messages in a socket q, when d is the last barrier that the
\* server completed and f the last that was sent: d+1 to f, in this order.
BlocksInOrder(q, d, f) ==
  /\ \A i \in DOMAIN q : q[i].bar # 0 => d < q[i].bar /\ q[i].bar <= f
  /\ \A i, j \in DOMAIN q : i < j /\ q[i].bar # 0 /\ q[j].bar # 0 =>
       q[i].bar < q[j].bar
  /\ \A k \in Nat : d < k /\ k <= f => \E i \in DOMAIN q : q[i].bar = k

\* A message stands behind the barriers that had returned when it was made,
\* and before those that had not begun.
MessagesBetween(q, d) ==
  \A i \in DOMAIN q : q[i].bar = 0 =>
    /\ d <= q[i].hi
    /\ \A j \in DOMAIN q : j < i => q[j].bar <= q[i].hi
    /\ \A k \in Nat : d < k /\ k <= q[i].lo => \E j \in DOMAIN q : j < i /\ q[j].bar = k

SockInv(q, d, f) == BlocksInOrder(q, d, f) /\ MessagesBetween(q, d)

WorkerWires == \A w \in Worker : SockInv(wire[w], sdone, Fenced(w))

\* Barrier messages are sent by workers only.
UserWires ==
  \A u \in User : \A i \in DOMAIN wire[u] : wire[u][i].bar = 0

IInv ==
  /\ TypeOK
  /\ Counters
  /\ BufferWindow
  /\ WorkerWires
  /\ UserWires
  /\ exq <= sdone

-----------------------------------------------------------------------------
(***************************************************************************)
(* Types.                                                                  *)
(***************************************************************************)
\* What an insertion may put in the buffer: the message made here and now.
LEMMA InsertFacts ==
  ASSUME TypeOK, NEW str \in Str, NEW data \in Data, NEW nr \in BOOLEAN,
         Insert(NewMsg(str, data, nr))
  PROVE  /\ msgq' \subseteq Msg
         /\ seqctr' \in Nat
         /\ \A m \in msgq' : m \in msgq \/ (m.lo = bret /\ m.hi = bstart)
<1> DEFINE n == NewMsg(str, data, nr)
<1>1. n \in Msg /\ n.lo = bret /\ n.hi = bstart
  BY DEF NewMsg, Request, Msg, TypeOK
<1>2. msgq' = msgq \/ msgq' = msgq \cup {n}
  BY DEF Insert
<1>3. seqctr' \in Nat
  BY <1>1 DEF Insert, TypeOK, Msg
<1> QED
  BY <1>1, <1>2, <1>3 DEF TypeOK

\* Sending a message or a barrier keeps the sockets well-typed.
LEMMA SendType ==
  ASSUME TypeOK, NEW t \in Thread, NEW x \in Item, DoSend(t, x)
  PROVE  wire' \in [Thread -> Seq(Item)] /\ UNCHANGED <<back, got>>
BY DEF TypeOK, DoSend, Sock

\* Receiving a reply keeps the replies well-typed.
LEMMA RecvType ==
  ASSUME TypeOK, NEW t \in Thread, DoRecv(t)
  PROVE  /\ back' \in [Thread -> Seq(Reply)]
         /\ got' \in [Thread -> Reply \cup {NoMsg}]
         /\ UNCHANGED wire
<1>1. back[t] \in Seq(Reply) /\ back[t] # <<>>
  BY DEF TypeOK, DoRecv, Sock
<1>2. Head(back[t]) \in Reply /\ Tail(back[t]) \in Seq(Reply)
  BY <1>1
<1> QED
  BY <1>2 DEF TypeOK, DoRecv, Sock

\* Every step keeps the types.
LEMMA TypeStep ==
  ASSUME TypeOK, Counters, Next
  PROVE  TypeOK'
<1> USE ThreadAssumption, MessageAssumption, BoundAssumption
<1>1. ASSUME NEW u \in User, NEW str \in Asking, NEW d \in Data, Enqueue(u, str, d)
      PROVE  TypeOK'
  BY <1>1, InsertFacts DEF TypeOK, Enqueue, workVars, sockVars, barVars, srvVars
<1>2. ASSUME NEW u \in User, NEW str \in Str \ Asking, EnqueueNoreply(u, str)
      PROVE  TypeOK'
  BY <1>2, InsertFacts DEF TypeOK, EnqueueNoreply, workVars, sockVars, barVars, srvVars
<1>3. ASSUME NEW u \in User, NEW str \in Asking, SynchroSend(u, str)
      PROVE  TypeOK'
  <2>1. Request(str, 0, FALSE, NoData) \in Item
    BY DEF Request, Item, Msg, TypeOK
  <2> QED
    BY <1>3, <2>1, SendType
       DEF TypeOK, SynchroSend, Thread, bufVars, workVars, barVars, srvVars
<1>4. ASSUME NEW u \in User, SynchroRecv(u)
      PROVE  TypeOK'
  BY <1>4, RecvType DEF TypeOK, SynchroRecv, Thread, bufVars, workVars, barVars, srvVars
<1>5. ASSUME NEW u \in User, FlushBegin(u) \/ FlushEnd(u)
      PROVE  TypeOK'
  BY <1>5 DEF TypeOK, FlushBegin, FlushEnd, bufVars, workVars, sockVars, barVars, srvVars
<1>6. ASSUME NEW u \in User, BarrierBegin(u) \/ BarrierEnd(u)
      PROVE  TypeOK'
  BY <1>6, SMTT(30) DEF TypeOK, BarrierBegin, BarrierEnd, bufVars, workVars, sockVars, srvVars
<1>7. ASSUME NEW w \in Worker, NEW m \in msgq, WorkerTake(w, m)
      PROVE  TypeOK'
  BY <1>7 DEF TypeOK, WorkerTake, sockVars, barVars, srvVars
<1>8. ASSUME NEW w \in Worker, WorkerSend(w)
      PROVE  TypeOK'
  <2>1. hand[w] \in Item
    BY <1>8 DEF TypeOK, WorkerSend, Item
  <2>2. wire' \in [Thread -> Seq(Item)] /\ UNCHANGED <<back, got>>
    BY <1>8, <2>1, SendType DEF WorkerSend, Thread
  <2> QED
    BY <1>8, <2>2, ZenonT(30) DEF TypeOK, WorkerSend, WorkerIdle, bufVars, barVars, srvVars
<1>9. ASSUME NEW w \in Worker, WorkerRecv(w)
      PROVE  TypeOK'
  BY <1>9, RecvType DEF TypeOK, WorkerRecv, Thread, bufVars, barVars, srvVars
<1>10. ASSUME NEW w \in Worker, NEW str \in FollowUp, NEW d \in Data,
              CallbackEnqueue(w, str, d)
       PROVE  TypeOK'
  BY <1>10, InsertFacts DEF TypeOK, CallbackEnqueue, workVars, sockVars, barVars, srvVars
<1>11. ASSUME NEW w \in Worker, CallbackDone(w)
       PROVE  TypeOK'
  BY <1>11 DEF TypeOK, CallbackDone, WorkerIdle, Thread, bufVars, barVars, srvVars
<1>12. ASSUME NEW w \in Worker, WorkerSendBlock(w)
       PROVE  TypeOK'
  <2>1. Block(bstart) \in Item
    BY <1>12 DEF TypeOK, Counters, WorkerSendBlock, Block, Item
  <2> QED
    BY <1>12, <2>1, SendType
       DEF TypeOK, WorkerSendBlock, Thread, bufVars, workVars, srvVars
<1>13. CASE BarrierDrained
  BY <1>13 DEF TypeOK, BarrierDrained, bufVars, workVars, sockVars, srvVars
<1>14. ASSUME NEW t \in Thread, NEW r \in Answer, ServerExec(t, r)
       PROVE  TypeOK'
  <2> DEFINE m == Head(wire[t])
  <2>1. wire[t] \in Seq(Item) /\ wire[t] # <<>> /\ m \in Item /\ m.bar = 0
    BY <1>14 DEF TypeOK, ServerExec
  <2>2. m \in Msg
    BY <2>1 DEF Item
  <2>3. wire' \in [Thread -> Seq(Item)]
    BY <1>14, <2>1 DEF TypeOK, ServerExec
  <2>4. back' \in [Thread -> Seq(Reply)]
    <3>1. [to |-> m.str, val |-> r] \in Reply
      BY <2>2 DEF Msg, Reply
    <3> QED
      BY <1>14, <3>1 DEF TypeOK, ServerExec
  <2>5. exq' \in Nat /\ exu' \in Nat
    BY <1>14, <2>2 DEF TypeOK, ServerExec, Later, Msg
  <2> QED
    BY <1>14, <2>3, <2>4, <2>5 DEF TypeOK, ServerExec, bufVars, workVars, barVars
<1>15. ASSUME NEW k \in 1..bstart, ServerBarrier(k)
       PROVE  TypeOK'
  <2>1. \A t \in AtBarrier(k) : wire[t] \in Seq(Item) /\ wire[t] # <<>>
    BY DEF TypeOK, AtBarrier
  <2>2. wire' \in [Thread -> Seq(Item)]
    BY <1>15, <2>1 DEF TypeOK, ServerBarrier
  <2> QED
    BY <1>15, <2>2 DEF TypeOK, ServerBarrier, bufVars, workVars, barVars
<1> QED
  BY <1>1, <1>2, <1>3, <1>4, <1>5, <1>6, <1>7, <1>8, <1>9, <1>10, <1>11, <1>12,
     <1>13, <1>14, <1>15 DEF Next, UserNext, WorkerNext, ServerNext

-----------------------------------------------------------------------------
(***************************************************************************)
(* What sending and running a message does to a socket.                    *)
(***************************************************************************)
\* A message made after barrier m.lo returned, and sent behind barriers that
\* had begun when it was made.
LEMMA AppendMsg ==
  ASSUME NEW q \in Seq(Item), NEW d \in Nat, NEW f \in Nat, SockInv(q, d, f),
         NEW m \in Msg, m.lo <= f, f <= m.hi, d <= m.hi
  PROVE  SockInv(Append(q, m), d, f)
<1> DEFINE n == Len(q)
           p == Append(q, m)
<1>1. /\ n \in Nat /\ DOMAIN q = 1..n /\ DOMAIN p = 1..(n + 1)
      /\ \A i \in 1..n : p[i] = q[i] /\ q[i] \in Item /\ q[i].bar \in Nat
      /\ p[n + 1] = m /\ m.bar = 0 /\ m.lo \in Nat /\ m.hi \in Nat
  BY DEF Msg, Item
<1> HIDE DEF n, p
<1>2. BlocksInOrder(p, d, f)
  <2>1. \A i \in 1..(n + 1) : p[i].bar # 0 => i \in 1..n
    BY <1>1
  <2>2. \A i \in DOMAIN p : p[i].bar # 0 => d < p[i].bar /\ p[i].bar <= f
    BY <1>1, <2>1 DEF SockInv, BlocksInOrder
  <2>3. \A i, j \in DOMAIN p : i < j /\ p[i].bar # 0 /\ p[j].bar # 0 =>
          p[i].bar < p[j].bar
    BY <1>1, <2>1 DEF SockInv, BlocksInOrder
  <2>4. \A k \in Nat : d < k /\ k <= f => \E i \in DOMAIN p : p[i].bar = k
    <3> SUFFICES ASSUME NEW k \in Nat, d < k, k <= f
                 PROVE  \E i \in DOMAIN p : p[i].bar = k
      OBVIOUS
    <3>1. PICK i \in 1..n : q[i].bar = k
      BY <1>1 DEF SockInv, BlocksInOrder
    <3> QED
      BY <1>1, <3>1, SMTT(30)
  <2> QED
    BY <2>2, <2>3, <2>4 DEF BlocksInOrder
<1>3. MessagesBetween(p, d)
  <2> SUFFICES ASSUME NEW i \in 1..(n + 1), p[i].bar = 0
               PROVE  /\ d <= p[i].hi
                      /\ \A j \in 1..(n + 1) : j < i => p[j].bar <= p[i].hi
                      /\ \A k \in Nat : d < k /\ k <= p[i].lo =>
                           \E j \in 1..(n + 1) : j < i /\ p[j].bar = k
    BY <1>1, SMTT(30) DEF MessagesBetween
  <2>1. CASE i \in 1..n
    <3>1. q[i].bar = 0
      BY <1>1, <2>1
    <3>2. \A k \in Nat : d < k /\ k <= q[i].lo => \E j \in 1..n : j < i /\ q[j].bar = k
      BY <1>1, <2>1, <3>1 DEF SockInv, MessagesBetween
    <3>3. d <= q[i].hi /\ \A j \in 1..n : j < i => q[j].bar <= q[i].hi
      BY <1>1, <2>1, <3>1 DEF SockInv, MessagesBetween
    <3>4. \A k \in Nat : d < k /\ k <= p[i].lo => \E j \in 1..(n + 1) : j < i /\ p[j].bar = k
      <4> SUFFICES ASSUME NEW k \in Nat, d < k, k <= p[i].lo
                   PROVE  \E j \in 1..(n + 1) : j < i /\ p[j].bar = k
        OBVIOUS
      <4>1. PICK j \in 1..n : j < i /\ q[j].bar = k
        BY <1>1, <2>1, <3>2
      <4> QED
        BY <1>1, <4>1, SMTT(30)
    <3> QED
      BY <1>1, <2>1, <3>3, <3>4
  <2>2. CASE i = n + 1
    <3>1. ASSUME NEW j \in 1..n
          PROVE  q[j].bar <= m.hi
      <4>1. q[j].bar \in Nat /\ m.hi \in Nat
        BY <1>1 DEF Msg
      <4>2. q[j].bar <= f
        <5>1. q[j].bar # 0 => q[j].bar <= f
          BY <1>1 DEF SockInv, BlocksInOrder
        <5> QED
          BY <4>1, <5>1
      <4> QED
        BY <4>1, <4>2
    <3>2. ASSUME NEW k \in Nat, d < k, k <= m.lo
          PROVE  \E j \in 1..(n + 1) : j < i /\ p[j].bar = k
      <4>1. PICK j \in 1..n : q[j].bar = k
        BY <1>1, <3>2, SMTT(30) DEF SockInv, BlocksInOrder
      <4> QED
        BY <1>1, <2>2, <4>1
    <3> QED
      BY <1>1, <2>2, <3>1, <3>2
  <2> QED
    BY <1>1, <2>1, <2>2
<1> QED
  BY <1>2, <1>3 DEF SockInv, p

\* The next barrier is sent behind everything else.
LEMMA AppendBlock ==
  ASSUME NEW q \in Seq(Item), NEW d \in Nat, NEW f \in Nat, SockInv(q, d, f), d <= f
  PROVE  SockInv(Append(q, Block(f + 1)), d, f + 1)
<1> DEFINE n == Len(q)
           p == Append(q, Block(f + 1))
<1>1. /\ n \in Nat /\ DOMAIN q = 1..n /\ DOMAIN p = 1..(n + 1)
      /\ \A i \in 1..n : p[i] = q[i] /\ q[i] \in Item /\ q[i].bar \in Nat
      /\ p[n + 1].bar = f + 1
  BY DEF Msg, Item, Block
<1> HIDE DEF n, p
<1>2. BlocksInOrder(p, d, f + 1)
  <2>1. \A i \in 1..n : p[i].bar # 0 => d < p[i].bar /\ p[i].bar <= f
    BY <1>1 DEF SockInv, BlocksInOrder
  <2>2. \A i \in DOMAIN p : p[i].bar # 0 => d < p[i].bar /\ p[i].bar <= f + 1
    BY <1>1, <2>1
  <2>3. \A i, j \in DOMAIN p : i < j /\ p[i].bar # 0 /\ p[j].bar # 0 =>
          p[i].bar < p[j].bar
    <3> SUFFICES ASSUME NEW i \in 1..(n + 1), NEW j \in 1..(n + 1), i < j,
                        p[i].bar # 0, p[j].bar # 0
                 PROVE  p[i].bar < p[j].bar
      BY <1>1
    <3>1. CASE j = n + 1
      BY <1>1, <2>1, <3>1
    <3>2. CASE j # n + 1
      <4>1. i \in 1..n /\ j \in 1..n
        BY <1>1, <3>2
      <4> QED
        BY <1>1, <4>1 DEF SockInv, BlocksInOrder
    <3> QED
      BY <3>1, <3>2
  <2>4. ASSUME NEW k \in Nat, d < k, k <= f + 1
        PROVE  \E i \in DOMAIN p : p[i].bar = k
    <3>1. CASE k = f + 1
      BY <1>1, <3>1
    <3>2. CASE k # f + 1
      <4>1. PICK i \in 1..n : q[i].bar = k
        BY <1>1, <2>4, <3>2 DEF SockInv, BlocksInOrder
      <4> QED
        BY <1>1, <4>1, SMTT(30)
    <3> QED
      BY <3>1, <3>2
  <2> QED
    BY <2>2, <2>3, <2>4 DEF BlocksInOrder
<1>3. MessagesBetween(p, d)
  <2> SUFFICES ASSUME NEW i \in 1..(n + 1), p[i].bar = 0
               PROVE  /\ d <= p[i].hi
                      /\ \A j \in 1..(n + 1) : j < i => p[j].bar <= p[i].hi
                      /\ \A k \in Nat : d < k /\ k <= p[i].lo =>
                           \E j \in 1..(n + 1) : j < i /\ p[j].bar = k
    BY <1>1 DEF MessagesBetween
  <2>1. i \in 1..n /\ q[i].bar = 0
    BY <1>1
  <2>2. \A k \in Nat : d < k /\ k <= q[i].lo => \E j \in 1..n : j < i /\ q[j].bar = k
    BY <1>1, <2>1, ZenonT(30) DEF SockInv, MessagesBetween
  <2>3. d <= q[i].hi /\ \A j \in 1..n : j < i => q[j].bar <= q[i].hi
    BY <1>1, <2>1 DEF SockInv, MessagesBetween
  <2>4. ASSUME NEW k \in Nat, d < k, k <= p[i].lo
        PROVE  \E j \in 1..(n + 1) : j < i /\ p[j].bar = k
    <3>1. PICK j \in 1..n : j < i /\ q[j].bar = k
      BY <1>1, <2>1, <2>2, <2>4
    <3> QED
      BY <1>1, <3>1, SMTT(30)
  <2> QED
    BY <1>1, <2>1, <2>3, <2>4
<1> QED
  BY <1>2, <1>3 DEF SockInv, p

\* The items of the tail of a socket, by their place in the socket.
LEMMA TailItems ==
  ASSUME NEW q \in Seq(Item), q # <<>>
  PROVE  /\ Tail(q) \in Seq(Item) /\ Len(Tail(q)) \in Nat
         /\ DOMAIN q = 1..(Len(Tail(q)) + 1)
         /\ DOMAIN Tail(q) = 1..Len(Tail(q))
         /\ \A i \in 1..Len(Tail(q)) : Tail(q)[i] = q[i + 1]
         /\ \A i \in 1..(Len(Tail(q)) + 1) : q[i] \in Item /\ q[i].bar \in Nat
         /\ q[1] = Head(q)
<1>1. Len(q) \in Nat /\ Len(q) >= 1 /\ Len(Tail(q)) = Len(q) - 1 /\ Tail(q) \in Seq(Item)
  OBVIOUS
<1>2. \A i \in DOMAIN q : q[i] \in Item /\ q[i].bar \in Nat
  BY DEF Item, Msg
<1>3. \A i \in 1..Len(Tail(q)) : Tail(q)[i] = q[i + 1]
  BY <1>1
<1> QED
  BY <1>1, <1>2, <1>3

\* The server runs a message: the barriers it had to follow are completed.
LEMMA TailMsg ==
  ASSUME NEW q \in Seq(Item), q # <<>>, NEW d \in Nat, NEW f \in Nat,
         SockInv(q, d, f), Head(q).bar = 0
  PROVE  SockInv(Tail(q), d, f) /\ Head(q) \in Msg /\ Head(q).lo <= d
<1> DEFINE p == Tail(q)
           n == Len(p)
<1>1. n \in Nat /\ DOMAIN q = 1..(n + 1) /\ DOMAIN p = 1..n
  BY TailItems
<1>2. \A i \in 1..n : p[i] = q[i + 1] /\ i + 1 \in 1..(n + 1)
  BY TailItems
<1>3. \A i \in 1..(n + 1) : q[i] \in Item /\ q[i].bar \in Nat
  BY TailItems
<1>4. q[1] = Head(q) /\ 1 \in 1..(n + 1)
  BY TailItems
<1> HIDE DEF n, p
<1>5. \A i \in 1..(n + 1) : q[i].bar # 0 => \E j \in 1..n : i = j + 1
  <2> SUFFICES ASSUME NEW i \in 1..(n + 1), q[i].bar # 0
               PROVE  i - 1 \in 1..n /\ i = (i - 1) + 1
    OBVIOUS
  <2>1. i # 1
    BY <1>4
  <2> QED
    BY <1>1, <2>1
<1>6. BlocksInOrder(p, d, f)
  <2>1. ASSUME NEW i \in 1..n, p[i].bar # 0
        PROVE  d < p[i].bar /\ p[i].bar <= f
    <3>1. i + 1 \in DOMAIN q /\ p[i] = q[i + 1]
      BY <1>1, <1>2
    <3> QED
      BY <2>1, <3>1 DEF SockInv, BlocksInOrder
  <2>2. ASSUME NEW i \in 1..n, NEW j \in 1..n, i < j, p[i].bar # 0, p[j].bar # 0
        PROVE  p[i].bar < p[j].bar
    <3>1. i + 1 < j + 1 /\ i + 1 \in DOMAIN q /\ j + 1 \in DOMAIN q
      BY <1>1, <1>2, <2>2
    <3> QED
      BY <1>2, <2>2, <3>1 DEF SockInv, BlocksInOrder
  <2>3. ASSUME NEW k \in Nat, d < k, k <= f
        PROVE  \E i \in 1..n : p[i].bar = k
    <3>1. PICK i \in 1..(n + 1) : q[i].bar = k
      BY <1>1, <2>3 DEF SockInv, BlocksInOrder
    <3>2. q[i].bar # 0
      BY <2>3, <3>1
    <3>3. PICK j \in 1..n : i = j + 1
      BY <1>5, <3>2
    <3> QED
      BY <1>2, <3>1, <3>3
  <2> QED
    BY <1>1, <2>1, <2>2, <2>3 DEF BlocksInOrder
<1>7. MessagesBetween(p, d)
  <2> SUFFICES ASSUME NEW i \in 1..n, p[i].bar = 0
               PROVE  /\ d <= p[i].hi
                      /\ \A j \in 1..n : j < i => p[j].bar <= p[i].hi
                      /\ \A k \in Nat : d < k /\ k <= p[i].lo =>
                           \E j \in 1..n : j < i /\ p[j].bar = k
    BY <1>1 DEF MessagesBetween
  <2>1. i + 1 \in DOMAIN q /\ p[i] = q[i + 1] /\ q[i + 1].bar = 0
    BY <1>1, <1>2
  <2>2. /\ d <= q[i + 1].hi
        /\ \A j \in DOMAIN q : j < i + 1 => q[j].bar <= q[i + 1].hi
        /\ \A k \in Nat : d < k /\ k <= q[i + 1].lo =>
             \E j \in DOMAIN q : j < i + 1 /\ q[j].bar = k
    BY <2>1 DEF SockInv, MessagesBetween
  <2>3. ASSUME NEW j \in 1..n, j < i
        PROVE  p[j].bar <= p[i].hi
    <3>1. j + 1 \in DOMAIN q /\ j + 1 < i + 1 /\ p[j] = q[j + 1]
      BY <1>1, <1>2, <2>3
    <3> QED
      BY <2>1, <2>2, <3>1
  <2>4. ASSUME NEW k \in Nat, d < k, k <= p[i].lo
        PROVE  \E j \in 1..n : j < i /\ p[j].bar = k
    <3>1. PICK j \in 1..(n + 1) : j < i + 1 /\ q[j].bar = k
      BY <1>1, <2>1, <2>2, <2>4
    <3>2. q[j].bar # 0
      BY <2>4, <3>1
    <3>3. PICK l \in 1..n : j = l + 1
      BY <1>5, <3>2
    <3>4. l < i
      BY <1>1, <3>1, <3>3
    <3> QED
      BY <1>2, <3>1, <3>3, <3>4
  <2> QED
    BY <2>1, <2>2, <2>3, <2>4
<1>8. Head(q) \in Msg
  BY <1>3, <1>4 DEF Item
<1>9. Head(q).lo <= d
  <2> SUFFICES ASSUME ~(Head(q).lo <= d)
               PROVE  FALSE
    OBVIOUS
  <2>1. Head(q).lo \in Nat /\ d < Head(q).lo
    BY <1>8 DEF Msg
  <2>2. \E j \in DOMAIN q : j < 1 /\ q[j].bar = Head(q).lo
    BY <1>1, <1>4, <2>1 DEF SockInv, MessagesBetween
  <2> QED
    BY <1>1, <2>2
<1> QED
  BY <1>6, <1>7, <1>8, <1>9 DEF SockInv, p

\* The server completes a barrier: what is behind it follows that barrier.
LEMMA TailBlock ==
  ASSUME NEW q \in Seq(Item), q # <<>>, NEW d \in Nat, NEW f \in Nat,
         SockInv(q, d, f), NEW k \in Nat \ {0}, Head(q).bar = k
  PROVE  SockInv(Tail(q), k, f) /\ d < k /\ k <= f
<1> DEFINE p == Tail(q)
           n == Len(p)
<1>1. n \in Nat /\ DOMAIN q = 1..(n + 1) /\ DOMAIN p = 1..n
  BY TailItems
<1>2. \A i \in 1..n : p[i] = q[i + 1] /\ i + 1 \in 1..(n + 1) /\ 1 < i + 1
  BY TailItems
<1>3. q[1].bar = k /\ 1 \in 1..(n + 1)
  BY TailItems
<1> HIDE DEF n, p
<1>4. d < k /\ k <= f
  BY <1>1, <1>3 DEF SockInv, BlocksInOrder
<1>5. \A i \in 1..(n + 1) : q[i].bar # k => \E j \in 1..n : i = j + 1
  <2> SUFFICES ASSUME NEW i \in 1..(n + 1), q[i].bar # k
               PROVE  i - 1 \in 1..n /\ i = (i - 1) + 1
    OBVIOUS
  <2>1. i # 1
    BY <1>3
  <2> QED
    BY <1>1, <2>1
<1>6. BlocksInOrder(p, k, f)
  <2>1. ASSUME NEW i \in 1..n, p[i].bar # 0
        PROVE  k < p[i].bar /\ p[i].bar <= f
    <3>1. 1 \in DOMAIN q /\ i + 1 \in DOMAIN q /\ 1 < i + 1
      BY <1>1, <1>2, <1>3
    <3> QED
      BY <1>2, <1>3, <2>1, <3>1 DEF SockInv, BlocksInOrder
  <2>2. ASSUME NEW i \in 1..n, NEW j \in 1..n, i < j, p[i].bar # 0, p[j].bar # 0
        PROVE  p[i].bar < p[j].bar
    <3>1. i + 1 < j + 1 /\ i + 1 \in DOMAIN q /\ j + 1 \in DOMAIN q
      BY <1>1, <1>2, <2>2
    <3> QED
      BY <1>2, <2>2, <3>1, SMTT(30) DEF SockInv, BlocksInOrder
  <2>3. ASSUME NEW l \in Nat, k < l, l <= f
        PROVE  \E i \in 1..n : p[i].bar = l
    <3>1. PICK i \in 1..(n + 1) : q[i].bar = l
      BY <1>1, <1>4, <2>3 DEF SockInv, BlocksInOrder
    <3>2. q[i].bar # k
      BY <2>3, <3>1
    <3>3. PICK j \in 1..n : i = j + 1
      BY <1>5, <3>2
    <3> QED
      BY <1>2, <3>1, <3>3
  <2> QED
    BY <1>1, <2>1, <2>2, <2>3 DEF BlocksInOrder
<1>7. MessagesBetween(p, k)
  <2> SUFFICES ASSUME NEW i \in 1..n, p[i].bar = 0
               PROVE  /\ k <= p[i].hi
                      /\ \A j \in 1..n : j < i => p[j].bar <= p[i].hi
                      /\ \A l \in Nat : k < l /\ l <= p[i].lo =>
                           \E j \in 1..n : j < i /\ p[j].bar = l
    BY <1>1 DEF MessagesBetween
  <2>1. i + 1 \in DOMAIN q /\ 1 < i + 1 /\ p[i] = q[i + 1] /\ q[i + 1].bar = 0
    BY <1>1, <1>2
  <2>2. /\ \A j \in DOMAIN q : j < i + 1 => q[j].bar <= q[i + 1].hi
        /\ \A l \in Nat : d < l /\ l <= q[i + 1].lo =>
             \E j \in DOMAIN q : j < i + 1 /\ q[j].bar = l
    BY <2>1 DEF SockInv, MessagesBetween
  <2>3. k <= p[i].hi
    BY <1>1, <1>3, <2>1, <2>2
  <2>4. ASSUME NEW j \in 1..n, j < i
        PROVE  p[j].bar <= p[i].hi
    <3>1. j + 1 \in DOMAIN q /\ j + 1 < i + 1 /\ p[j] = q[j + 1]
      BY <1>1, <1>2, <2>4
    <3> QED
      BY <2>1, <2>2, <3>1
  <2>5. ASSUME NEW l \in Nat, k < l, l <= p[i].lo
        PROVE  \E j \in 1..n : j < i /\ p[j].bar = l
    <3>1. d < l /\ l <= q[i + 1].lo
      BY <1>4, <2>1, <2>5
    <3>2. PICK j \in 1..(n + 1) : j < i + 1 /\ q[j].bar = l
      BY <1>1, <2>2, <3>1
    <3>3. q[j].bar # k
      BY <2>5, <3>2
    <3>4. PICK h \in 1..n : j = h + 1
      BY <1>5, <3>3
    <3>5. h < i
      BY <1>1, <3>2, <3>4
    <3> QED
      BY <1>2, <3>2, <3>4, <3>5
  <2> QED
    BY <2>3, <2>4, <2>5
<1> QED
  BY <1>4, <1>6, <1>7 DEF SockInv, p

-----------------------------------------------------------------------------
(***************************************************************************)
(* The invariant, one lemma per kind of step.                              *)
(***************************************************************************)
\* A step that only moves messages within the buffer and its workers, or
\* adds messages made in this step.
LEMMA BufferOnly ==
  ASSUME IInv, TypeOK', UNCHANGED <<wire, barVars, srvVars>>,
         \A m \in Buffered' : m \in Buffered \/ (m.lo = bret /\ m.hi = bstart)
  PROVE  IInv'
<1>1. Counters' /\ (exq <= sdone)'
  BY DEF IInv, Counters, barVars, srvVars
<1>2. BufferWindow'
  BY DEF IInv, BufferWindow, Counters, TypeOK, barVars
<1>3. WorkerWires' /\ UserWires'
  BY DEF IInv, WorkerWires, UserWires, Fenced, barVars, srvVars
<1> QED
  BY <1>1, <1>2, <1>3 DEF IInv

\* A step that changes sockets only, other than those of the workers.
LEMMA UserWireOnly ==
  ASSUME IInv, TypeOK', UNCHANGED <<bufVars, workVars, barVars, sdone, exq>>,
         \A w \in Worker : wire'[w] = wire[w],
         UserWires'
  PROVE  IInv'
<1>1. Counters' /\ (exq <= sdone)'
  BY DEF IInv, Counters, barVars
<1>2. BufferWindow'
  BY DEF IInv, BufferWindow, Buffered, barVars, bufVars, workVars
<1>3. WorkerWires'
  BY DEF IInv, WorkerWires, Fenced, barVars
<1> QED
  BY <1>1, <1>2, <1>3 DEF IInv

\* A user thread sends a request on its own socket, where no barrier is.
LEMMA SynchroSendStep ==
  ASSUME IInv, TypeOK', NEW u \in User, NEW str \in Asking, SynchroSend(u, str)
  PROVE  IInv'
<1> DEFINE m == Request(str, 0, FALSE, NoData)
<1>1. u \in Thread /\ wire[u] \in Seq(Item) /\ m.bar = 0
  BY DEF IInv, TypeOK, Thread, Request
<1>2. wire' = [wire EXCEPT ![u] = Append(wire[u], m)]
  BY DEF SynchroSend, DoSend, Sock
<1>3. \A w \in Worker : wire'[w] = wire[w]
  BY <1>2, ThreadAssumption DEF IInv, TypeOK, Thread
<1>4. UserWires'
  <2> SUFFICES ASSUME NEW v \in User, NEW i \in DOMAIN wire'[v]
               PROVE  wire'[v][i].bar = 0
    BY DEF UserWires
  <2>1. CASE v # u
    BY <1>2, <2>1 DEF IInv, TypeOK, UserWires, Thread
  <2>2. CASE v = u
    <3>1. wire'[u] = Append(wire[u], m)
      BY <1>1, <1>2 DEF IInv, TypeOK
    <3> HIDE DEF m
    <3>2. i \in 1..Len(wire[u]) \/ i = Len(wire[u]) + 1
      BY <1>1, <2>2, <3>1
    <3> QED
      BY <1>1, <2>2, <3>1, <3>2 DEF IInv, UserWires
  <2> QED
    BY <2>1, <2>2
<1> QED
  BY <1>3, <1>4, UserWireOnly DEF SynchroSend, srvVars

\* A worker sends a message: BufferWindow places it between the barriers.
LEMMA SendStep ==
  ASSUME IInv, TypeOK', NEW w \in Worker, WorkerSend(w)
  PROVE  IInv'
<1> DEFINE m == hand[w]
<1>1. w \in Thread /\ w \notin User /\ wire[w] \in Seq(Item) /\ m \in Msg /\ m \in Buffered
  BY ThreadAssumption DEF IInv, TypeOK, Thread, WorkerSend, Buffered
<1>2. wire'[w] = Append(wire[w], m) /\ \A t \in Thread \ {w} : wire'[t] = wire[t]
  BY <1>1 DEF WorkerSend, DoSend, Sock, IInv, TypeOK
<1>3. UNCHANGED <<bufVars, barVars, srvVars>>
  BY DEF WorkerSend
<1>4. Counters' /\ (exq <= sdone)'
  BY <1>3 DEF IInv, Counters, barVars, srvVars
<1>5. BufferWindow'
  <2>1. \A x \in Buffered' : x \in Buffered
    BY DEF Buffered, WorkerSend, WorkerIdle, bufVars, IInv, TypeOK
  <2> QED
    BY <1>3, <2>1 DEF IInv, BufferWindow, barVars
<1>6. WorkerWires'
  <2> SUFFICES ASSUME NEW v \in Worker
               PROVE  SockInv(wire'[v], sdone, Fenced(v))
    BY <1>3 DEF WorkerWires, Fenced, barVars, srvVars
  <2>1. CASE v # w
    BY <1>2, <2>1 DEF IInv, WorkerWires, Thread
  <2>2. CASE v = w
    <3>1. m.lo <= bret /\ bret <= m.hi /\ (phase = "fence" => bstart <= m.hi)
      BY <1>1 DEF IInv, BufferWindow
    <3>2. m.lo \in Nat /\ m.hi \in Nat /\ bret \in Nat /\ bstart \in Nat /\ sdone \in Nat
      BY <1>1 DEF IInv, TypeOK, Msg
    <3>3. sdone <= m.hi
      BY <3>1, <3>2 DEF IInv, Counters
    <3>4. Fenced(w) \in Nat /\ m.lo <= Fenced(w) /\ Fenced(w) <= m.hi
      BY <3>1, <3>2 DEF Fenced, IInv, Counters
    <3>5. SockInv(wire[w], sdone, Fenced(w))
      BY DEF IInv, WorkerWires
    <3> HIDE DEF m
    <3> QED
      BY <1>1, <1>2, <2>2, <3>2, <3>3, <3>4, <3>5, AppendMsg
  <2> QED
    BY <2>1, <2>2
<1>7. UserWires'
  BY <1>1, <1>2 DEF IInv, UserWires, Thread
<1> QED
  BY <1>4, <1>5, <1>6, <1>7 DEF IInv

\* A worker sends the message of the barrier in progress.
LEMMA SendBlockStep ==
  ASSUME IInv, TypeOK', NEW w \in Worker, WorkerSendBlock(w)
  PROVE  IInv'
<1>1. w \in Thread /\ w \notin User /\ wire[w] \in Seq(Item)
  BY ThreadAssumption DEF IInv, TypeOK, Thread
<1>2. /\ wire'[w] = Append(wire[w], Block(bstart))
      /\ \A t \in Thread \ {w} : wire'[t] = wire[t]
  BY <1>1 DEF WorkerSendBlock, DoSend, Sock, IInv, TypeOK
<1>3. /\ phase = "fence" /\ w \in left /\ left' = left \ {w}
      /\ UNCHANGED <<bufVars, workVars, phase, bstart, bret, srvVars>>
  BY DEF WorkerSendBlock
<1>4. bret \in Nat /\ sdone \in Nat /\ bstart = bret + 1 /\ sdone <= bret
  BY <1>3 DEF IInv, TypeOK, Counters
<1>5. Counters' /\ (exq <= sdone)'
  BY <1>3, <1>4 DEF IInv, Counters, srvVars
<1>6. BufferWindow'
  BY <1>3 DEF IInv, BufferWindow, Buffered, bufVars, workVars
<1>7. WorkerWires'
  <2> SUFFICES ASSUME NEW v \in Worker
               PROVE  SockInv(wire'[v], sdone, Fenced(v)')
    BY <1>3 DEF WorkerWires, srvVars
  <2>1. CASE v # w
    <3>1. Fenced(v)' = Fenced(v) /\ wire'[v] = wire[v]
      BY <1>2, <1>3, <2>1 DEF Fenced, Thread
    <3> QED
      BY <3>1 DEF IInv, WorkerWires
  <2>2. CASE v = w
    <3>1. Fenced(w) = bret /\ Fenced(w)' = bret + 1
      BY <1>3, <1>4 DEF Fenced
    <3>2. SockInv(wire[w], sdone, bret)
      BY <3>1 DEF IInv, WorkerWires
    <3> QED
      BY <1>1, <1>2, <1>4, <2>2, <3>1, <3>2, AppendBlock
  <2> QED
    BY <2>1, <2>2
<1>8. UserWires'
  BY <1>1, <1>2 DEF IInv, UserWires, Thread
<1> QED
  BY <1>5, <1>6, <1>7, <1>8 DEF IInv

\* Beginning a barrier, passing its drain and returning from it leave what
\* each worker has sent as it is.
LEMMA BarrierStep ==
  ASSUME IInv, TypeOK',
         BarrierDrained \/ \E v \in User : BarrierBegin(v) \/ BarrierEnd(v)
  PROVE  IInv'
<1>1. UNCHANGED <<bufVars, workVars, sockVars, srvVars>>
  BY DEF BarrierBegin, BarrierDrained, BarrierEnd
<1>2. Counters' /\ (exq <= sdone)'
  <2>1. bret \in Nat /\ bstart \in Nat /\ sdone \in Nat /\ exq \in Nat
    BY DEF IInv, TypeOK
  <2>2. (exq <= sdone)' /\ sdone' = sdone
    BY <1>1 DEF IInv, srvVars
  <2>3. CASE \E v \in User : BarrierBegin(v)
    BY <2>1, <2>2, <2>3 DEF IInv, Counters, BarrierBegin
  <2>4. CASE BarrierDrained
    BY <2>1, <2>2, <2>4 DEF IInv, Counters, BarrierDrained
  <2>5. CASE \E v \in User : BarrierEnd(v)
    BY <2>1, <2>2, <2>5 DEF IInv, Counters, BarrierEnd
  <2> QED
    BY <2>2, <2>3, <2>4, <2>5
<1>3. BufferWindow'
  <2>1. Buffered' = Buffered
    BY <1>1 DEF Buffered, bufVars, workVars
  <2>2. CASE \E v \in User : BarrierBegin(v)
    BY <2>1, <2>2 DEF IInv, BufferWindow, BarrierBegin
  <2>3. CASE BarrierDrained
    <3>1. Buffered = {}
      BY <2>3 DEF BarrierDrained, Drained, Buffered
    <3> QED
      BY <2>1, <3>1 DEF BufferWindow
  <2>4. CASE \E v \in User : BarrierEnd(v)
    <3>1. \A m \in Buffered : m \in Msg /\ m.lo \in Nat /\ m.hi \in Nat
      BY DEF Buffered, IInv, TypeOK, Msg
    <3>2. bret' = bstart /\ phase = "fence" /\ phase' = "none" /\ bret <= bstart
      BY <2>4 DEF BarrierEnd, IInv, Counters
    <3>3. bret \in Nat /\ bstart \in Nat
      BY DEF IInv, TypeOK
    <3> QED
      BY <2>1, <3>1, <3>2, <3>3 DEF IInv, BufferWindow
  <2> QED
    BY <2>2, <2>3, <2>4
<1>4. \A w \in Worker : Fenced(w)' = Fenced(w)
  BY DEF IInv, Counters, TypeOK, Fenced, BarrierBegin, BarrierDrained, BarrierEnd
<1>5. WorkerWires' /\ UserWires'
  BY <1>1, <1>4 DEF IInv, WorkerWires, UserWires, sockVars, srvVars
<1> QED
  BY <1>2, <1>3, <1>5 DEF IInv

\* The server runs a message.
LEMMA ExecStep ==
  ASSUME IInv, TypeOK', NEW t \in Thread, NEW r \in Answer, ServerExec(t, r)
  PROVE  IInv'
<1>1. wire[t] \in Seq(Item) /\ wire[t] # <<>> /\ Head(wire[t]).bar = 0
  BY DEF IInv, TypeOK, ServerExec
<1>2. wire'[t] = Tail(wire[t]) /\ \A v \in Thread \ {t} : wire'[v] = wire[v]
  BY DEF IInv, TypeOK, ServerExec
<1>3. UNCHANGED <<bufVars, workVars, barVars, sdone>>
  BY DEF ServerExec
<1>4. CASE t \in Worker
  <2>1. \A w \in Worker : Fenced(w)' = Fenced(w) /\ Fenced(w) \in Nat
    BY <1>3 DEF Fenced, barVars, IInv, TypeOK
  <2>2. sdone \in Nat /\ SockInv(wire[t], sdone, Fenced(t))
    BY <1>4 DEF IInv, TypeOK, WorkerWires
  <2>3. SockInv(Tail(wire[t]), sdone, Fenced(t)) /\ Head(wire[t]).lo <= sdone
    BY <1>1, <1>4, <2>1, <2>2, TailMsg
  <2>4. WorkerWires'
    BY <1>2, <1>3, <2>1, <2>3 DEF IInv, WorkerWires, Thread
  <2>5. UserWires'
    BY <1>2, <1>4, ThreadAssumption DEF IInv, UserWires, Thread
  <2>6. Counters' /\ (exq <= sdone)'
    BY <1>3, <1>4, <2>3 DEF IInv, Counters, ServerExec, Later, barVars
  <2>7. BufferWindow'
    BY <1>3 DEF IInv, BufferWindow, Buffered, barVars, bufVars, workVars
  <2> QED
    BY <2>4, <2>5, <2>6, <2>7 DEF IInv
<1>5. CASE t \notin Worker
  <2>1. t \in User
    BY <1>5 DEF Thread
  <2>2. \A i \in DOMAIN wire'[t] : wire'[t][i].bar = 0
    <3> DEFINE n == Len(Tail(wire[t]))
    <3>1. /\ DOMAIN wire'[t] = 1..n /\ n \in Nat /\ DOMAIN wire[t] = 1..(n + 1)
          /\ \A i \in 1..n : wire'[t][i] = wire[t][i + 1]
      BY <1>1, <1>2, TailItems
    <3> HIDE DEF n
    <3>2. \A i \in 1..n : i + 1 \in 1..(n + 1)
      BY <3>1
    <3> QED
      BY <2>1, <3>1, <3>2 DEF IInv, UserWires
  <2>3. UserWires'
    BY <1>2, <2>2 DEF IInv, UserWires, Thread
  <2>4. \A w \in Worker : wire'[w] = wire[w]
    BY <1>2, <1>5 DEF Thread
  <2>5. exq' = exq
    BY <1>5 DEF ServerExec
  <2> QED
    BY <1>3, <2>3, <2>4, <2>5, UserWireOnly
<1> QED
  BY <1>4, <1>5

\* The server completes a barrier when NTHREADS sockets are there, which are
\* those of all the workers.
LEMMA AllAtBarrier ==
  ASSUME IInv, NEW k \in 1..bstart, ServerBarrier(k)
  PROVE  AtBarrier(k) = Worker
<1>1. k # 0
  BY DEF IInv, TypeOK
<1>2. AtBarrier(k) \subseteq Worker
  <2> SUFFICES ASSUME NEW t \in AtBarrier(k), t \in User
               PROVE  FALSE
    BY DEF AtBarrier, Thread
  <2>1. wire[t] \in Seq(Item) /\ wire[t] # <<>> /\ Head(wire[t]).bar = k
    BY DEF AtBarrier, IInv, TypeOK
  <2>2. 1 \in DOMAIN wire[t] /\ wire[t][1] = Head(wire[t])
    BY <2>1
  <2> QED
    BY <1>1, <2>1, <2>2 DEF IInv, UserWires
<1>3. Cardinality(AtBarrier(k)) = Cardinality(Worker)
  BY DEF ServerBarrier, NTHREADS
<1> QED
  BY <1>2, <1>3, ThreadAssumption, FS_Subset

\* The server completes the barrier that all the workers have reached.
LEMMA ServerBarrierStep ==
  ASSUME IInv, TypeOK', NEW k \in 1..bstart, ServerBarrier(k)
  PROVE  IInv'
<1>1. AtBarrier(k) = Worker
  BY AllAtBarrier
<1>2. k \in Nat \ {0} /\ sdone \in Nat /\ bret \in Nat /\ bstart \in Nat
  BY DEF IInv, TypeOK
<1>3. \A t \in Thread : wire'[t] = IF t \in Worker THEN Tail(wire[t]) ELSE wire[t]
  BY <1>1 DEF ServerBarrier
<1>4. sdone' = k /\ UNCHANGED <<bufVars, workVars, barVars, exq>>
  BY DEF ServerBarrier
<1>5. ASSUME NEW w \in Worker
      PROVE  SockInv(wire'[w], k, Fenced(w)) /\ sdone < k /\ k <= Fenced(w)
  <2>1. wire[w] \in Seq(Item) /\ wire[w] # <<>> /\ Head(wire[w]).bar = k
    BY <1>1 DEF AtBarrier, IInv, TypeOK, Thread
  <2>2. Fenced(w) \in Nat /\ SockInv(wire[w], sdone, Fenced(w))
    BY DEF Fenced, IInv, TypeOK, WorkerWires
  <2>3. wire'[w] = Tail(wire[w])
    BY <1>3 DEF Thread
  <2> QED
    BY <1>2, <2>1, <2>2, <2>3, TailBlock
<1>6. WorkerWires'
  <2>1. \A w \in Worker : Fenced(w)' = Fenced(w)
    BY <1>4 DEF Fenced, barVars
  <2> QED
    BY <1>4, <1>5, <2>1 DEF WorkerWires
<1>7. UserWires'
  BY <1>3, ThreadAssumption DEF IInv, UserWires, Thread
<1>8. Counters'
  <2>1. k <= bstart
    BY <1>2
  <2>2. ASSUME k > bret
        PROVE  phase = "fence" /\ left = {}
    <3>1. \A w \in Worker : phase = "fence" /\ w \notin left
      BY <1>2, <1>5, <2>2 DEF Fenced
    <3> QED
      BY <3>1, ThreadAssumption DEF IInv, TypeOK
  <2> QED
    BY <1>4, <2>1, <2>2 DEF IInv, Counters, barVars
<1>9. (exq <= sdone)'
  <2>1. PICK w \in Worker : TRUE
    BY ThreadAssumption
  <2>2. exq \in Nat /\ exq <= sdone /\ sdone < k
    BY <1>5, <2>1 DEF IInv, TypeOK
  <2> QED
    BY <1>2, <1>4, <2>2
<1>10. BufferWindow'
  BY <1>4 DEF IInv, BufferWindow, Buffered, barVars, bufVars, workVars
<1> QED
  BY <1>6, <1>7, <1>8, <1>9, <1>10 DEF IInv

-----------------------------------------------------------------------------
\* The invariant holds initially.
LEMMA InitIInv == Init => IInv
<1> SUFFICES ASSUME Init
             PROVE  IInv
  OBVIOUS
<1>1. TypeOK
  BY DEF Init, TypeOK
<1>2. Counters /\ exq <= sdone
  BY DEF Init, Counters
<1>3. BufferWindow
  BY DEF Init, BufferWindow, Buffered
<1>4. \A t \in Thread : wire[t] = <<>>
  BY DEF Init
<1>5. SockInv(<<>>, 0, 0)
  BY DEF SockInv, BlocksInOrder, MessagesBetween
<1>6. WorkerWires /\ UserWires
  BY <1>4, <1>5 DEF Init, WorkerWires, UserWires, Fenced, Thread
<1> QED
  BY <1>1, <1>2, <1>3, <1>6 DEF IInv

\* Every step preserves the invariant.
LEMMA NextIInv == IInv /\ [Next]_vars => IInv'
<1> SUFFICES ASSUME IInv, [Next]_vars
             PROVE  IInv'
  OBVIOUS
<1>1. CASE Next
  <2>1. TypeOK'
    BY <1>1, TypeStep DEF IInv
  <2>2. ASSUME NEW u \in User, NEW str \in Asking, NEW d \in Data, Enqueue(u, str, d)
        PROVE  IInv'
    <3>1. \A m \in msgq' : m \in msgq \/ (m.lo = bret /\ m.hi = bstart)
      BY <2>2, InsertFacts, MessageAssumption DEF IInv, Enqueue
    <3> QED
      BY <2>1, <2>2, <3>1, BufferOnly DEF Enqueue, Buffered, workVars, sockVars
  <2>3. ASSUME NEW u \in User, NEW str \in Str \ Asking, EnqueueNoreply(u, str)
        PROVE  IInv'
    <3>1. \A m \in msgq' : m \in msgq \/ (m.lo = bret /\ m.hi = bstart)
      BY <2>3, InsertFacts, MessageAssumption DEF IInv, EnqueueNoreply
    <3> QED
      BY <2>1, <2>3, <3>1, BufferOnly DEF EnqueueNoreply, Buffered, workVars, sockVars
  <2>4. ASSUME NEW u \in User, NEW str \in Asking, SynchroSend(u, str)
        PROVE  IInv'
    BY <2>1, <2>4, SynchroSendStep
  <2>5. ASSUME NEW u \in User, SynchroRecv(u) \/ FlushBegin(u) \/ FlushEnd(u)
        PROVE  IInv'
    <3>1. Buffered' = Buffered /\ UNCHANGED <<wire, barVars, srvVars>>
      BY <2>5 DEF SynchroRecv, FlushBegin, FlushEnd, DoRecv, Buffered, bufVars,
                  workVars, sockVars
    <3> QED
      BY <2>1, <3>1, BufferOnly
  <2>6. ASSUME NEW u \in User, BarrierBegin(u) \/ BarrierEnd(u)
        PROVE  IInv'
    BY <2>1, <2>6, BarrierStep
  <2>7. ASSUME NEW w \in Worker, NEW m \in msgq, WorkerTake(w, m)
        PROVE  IInv'
    <3>1. \A x \in Buffered' : x \in Buffered
      BY <2>7 DEF WorkerTake, Buffered, IInv, TypeOK
    <3> QED
      BY <2>1, <2>7, <3>1, BufferOnly DEF WorkerTake, sockVars
  <2>8. ASSUME NEW w \in Worker, WorkerSend(w)
        PROVE  IInv'
    BY <2>1, <2>8, SendStep
  <2>9. ASSUME NEW w \in Worker, WorkerRecv(w) \/ CallbackDone(w)
        PROVE  IInv'
    <3>1. \A x \in Buffered' : x \in Buffered
      BY <2>9 DEF WorkerRecv, CallbackDone, WorkerIdle, Buffered, bufVars, IInv, TypeOK
    <3>2. UNCHANGED <<wire, barVars, srvVars>>
      BY <2>9 DEF WorkerRecv, CallbackDone, DoRecv
    <3> QED
      BY <2>1, <3>1, <3>2, BufferOnly
  <2>10. ASSUME NEW w \in Worker, NEW str \in FollowUp, NEW d \in Data,
                CallbackEnqueue(w, str, d)
         PROVE  IInv'
    <3>1. \A m \in msgq' : m \in msgq \/ (m.lo = bret /\ m.hi = bstart)
      BY <2>10, InsertFacts, MessageAssumption DEF IInv, CallbackEnqueue
    <3> QED
      BY <2>1, <2>10, <3>1, BufferOnly DEF CallbackEnqueue, Buffered, workVars, sockVars
  <2>11. ASSUME NEW w \in Worker, WorkerSendBlock(w)
         PROVE  IInv'
    BY <2>1, <2>11, SendBlockStep
  <2>12. CASE BarrierDrained
    BY <2>1, <2>12, BarrierStep
  <2>13. ASSUME NEW t \in Thread, NEW r \in Answer, ServerExec(t, r)
         PROVE  IInv'
    BY <2>1, <2>13, ExecStep
  <2>14. ASSUME NEW k \in 1..bstart, ServerBarrier(k)
         PROVE  IInv'
    BY <2>1, <2>14, ServerBarrierStep
  <2> QED
    BY <1>1, <2>2, <2>3, <2>4, <2>5, <2>6, <2>7, <2>8, <2>9, <2>10, <2>11, <2>12,
       <2>13, <2>14 DEF Next, UserNext, WorkerNext, ServerNext
<1>2. CASE UNCHANGED vars
  <2>1. TypeOK' /\ UNCHANGED <<wire, barVars, srvVars>> /\ Buffered' = Buffered
    BY <1>2 DEF vars, IInv, TypeOK, Buffered, bufVars, workVars, sockVars, barVars, srvVars
  <2> QED
    BY <2>1, BufferOnly
<1> QED
  BY <1>1, <1>2

\* The invariant always holds.
LEMMA Invariance == Spec => []IInv
BY InitIInv, NextIInv, PTL DEF Spec

-----------------------------------------------------------------------------
(***************************************************************************)
(* The channel keeps its types: in particular a worker that waits for a    *)
(* reply, or runs a callback, holds the message it is for.                 *)
(***************************************************************************)
THEOREM TypeCorrect == Spec => []TypeOK
<1>1. IInv => TypeOK
  BY DEF IInv
<1> QED
  BY <1>1, Invariance, PTL

\* A pending message is in the buffer, or in a worker's socket behind every
\* barrier that is completed.
LEMMA PendingWindow ==
  ASSUME IInv, NEW m \in Pending
  PROVE  m \in Msg /\ sdone <= m.hi
<1>1. CASE m \in msgq \/ \E w \in Worker : wpc[w] = "send" /\ m = hand[w]
  <2>1. m \in Buffered /\ m \in Msg
    BY <1>1 DEF Buffered, IInv, TypeOK
  <2> QED
    BY <2>1 DEF IInv, TypeOK, Counters, BufferWindow, Msg
<1>2. CASE m \in Sent
  <2>1. PICK w \in Worker : \E i \in DOMAIN wire[w] : m = wire[w][i] /\ m.bar = 0
    BY <1>2 DEF Sent
  <2>2. PICK i \in DOMAIN wire[w] : m = wire[w][i] /\ m.bar = 0
    BY <2>1
  <2>3. wire[w] \in Seq(Item) /\ wire[w][i] \in Item
    BY DEF IInv, TypeOK, Thread
  <2>4. m \in Msg
    BY <2>2, <2>3 DEF Item
  <2> QED
    BY <2>2, <2>4 DEF IInv, WorkerWires, SockInv, MessagesBetween
<1> QED
  BY <1>1, <1>2 DEF Pending

(***************************************************************************)
(* The fence, for any number of threads: once the server has run a message *)
(* enqueued after barrier() returned, every message enqueued before that   *)
(* barrier began has been run, on whatever socket it went.                 *)
(***************************************************************************)
THEOREM FenceHolds == Spec => []Fence
<1>1. IInv => Fence
  <2> SUFFICES ASSUME IInv, NEW m \in Pending
               PROVE  exq <= m.hi
    BY DEF Fence
  <2>1. m \in Msg /\ sdone <= m.hi
    BY PendingWindow
  <2> QED
    BY <2>1 DEF IInv, TypeOK, Msg
<1> QED
  BY <1>1, Invariance, PTL

(***************************************************************************)
(* A caller that returns from barrier() finds no message from before its   *)
(* call waiting or in the hands of a worker: all callbacks have run.       *)
(***************************************************************************)
THEOREM BarrierWaitsHolds == Spec => []BarrierWaits
<1>1. IInv => BarrierWaits
  BY DEF IInv, BufferWindow, BarrierWaits
<1> QED
  BY <1>1, Invariance, PTL

-----------------------------------------------------------------------------
(***************************************************************************)
(* The refinement.  A step changes what is pending in one of three ways.   *)
(***************************************************************************)
\* A message is sent and not run when it stands in a worker's socket.
LEMMA InSent ==
  ASSUME NEW m
  PROVE  m \in Sent <=> \E w \in Worker : \E i \in DOMAIN wire[w] :
                           m = wire[w][i] /\ m.bar = 0
BY DEF Sent

\* The same, one step later.
LEMMA InSentNext ==
  ASSUME NEW m
  PROVE  m \in Sent' <=> \E w \in Worker : \E i \in DOMAIN wire'[w] :
                            m = wire'[w][i] /\ m.bar = 0
BY DEF Sent

\* A message that a step inserts is the only one that can become pending.
LEMMA InsertPending ==
  ASSUME TypeOK, NEW str \in Str, NEW data \in Data, NEW nr \in BOOLEAN,
         Insert(NewMsg(str, data, nr)),
         UNCHANGED <<workVars, wire, barVars, exq>>
  PROVE  [FQ!Next]_FQ!vars
<1> DEFINE n == NewMsg(str, data, nr)
<1>1. n.lo = bret /\ n.hi = bstart
  BY DEF NewMsg, Request
<1>2. msgq' = msgq \/ msgq' = msgq \cup {n}
  BY DEF Insert
<1> HIDE DEF n
<1>3. Pending' = Pending \/ Pending' = Pending \cup {n}
  BY <1>2 DEF Pending, Sent, workVars
<1>4. Out' = Out \/ Out' = Out \cup {<<bret, bstart>>}
  BY <1>1, <1>3 DEF Out
<1> QED
  BY <1>4 DEF FQ!Next, FQ!Submit, FQ!vars, barVars

\* A step that leaves the pending messages, the barriers and exq alone.
LEMMA PendingSame ==
  ASSUME Pending' = Pending, UNCHANGED <<bstart, bret, exq>>
  PROVE  [FQ!Next]_FQ!vars
BY DEF FQ!vars, Out

\* What a worker sends is pending, unless it is a barrier.
LEMMA AppendSent ==
  ASSUME NEW w \in Worker, wire[w] \in Seq(Item), NEW z \in Item,
         wire'[w] = Append(wire[w], z),
         \A v \in Worker \ {w} : wire'[v] = wire[v]
  PROVE  Sent' = IF z.bar = 0 THEN Sent \cup {z} ELSE Sent
<1> DEFINE n == Len(wire[w])
<1>1. /\ n \in Nat /\ DOMAIN wire[w] = 1..n /\ DOMAIN wire'[w] = 1..(n + 1)
      /\ \A i \in 1..n : wire'[w][i] = wire[w][i]
      /\ wire'[w][n + 1] = z
  OBVIOUS
<1> HIDE DEF n
<1>2. ASSUME NEW x \in Sent' PROVE x \in Sent \/ (x = z /\ z.bar = 0)
  <2>1. PICK v \in Worker : \E i \in DOMAIN wire'[v] : x = wire'[v][i] /\ x.bar = 0
    BY <1>2, InSentNext
  <2>2. PICK i \in DOMAIN wire'[v] : x = wire'[v][i] /\ x.bar = 0
    BY <2>1
  <2>3. CASE v # w
    BY <2>2, <2>3, InSent
  <2>4. CASE v = w
    <3>1. i \in 1..n \/ i = n + 1
      BY <1>1, <2>4
    <3> QED
      BY <1>1, <2>2, <2>4, <3>1, InSent
  <2> QED
    BY <2>3, <2>4
<1>3. ASSUME NEW x \in Sent PROVE x \in Sent'
  <2>1. PICK v \in Worker : \E i \in DOMAIN wire[v] : x = wire[v][i] /\ x.bar = 0
    BY <1>3, InSent
  <2>2. PICK i \in DOMAIN wire[v] : x = wire[v][i] /\ x.bar = 0
    BY <2>1
  <2>3. i \in DOMAIN wire'[v] /\ wire'[v][i] = wire[v][i]
    <3>1. CASE v # w
      BY <3>1
    <3>2. CASE v = w
      BY <1>1, <3>2
    <3> QED
      BY <3>1, <3>2
  <2> QED
    BY <2>2, <2>3, InSentNext
<1>4. z.bar = 0 => z \in Sent'
  <2>1. n + 1 \in DOMAIN wire'[w]
    BY <1>1
  <2> QED
    BY <1>1, <2>1, InSentNext
<1> QED
  BY <1>2, <1>3, <1>4

\* A worker sends its message, which stays pending on the socket.
LEMMA SendPending ==
  ASSUME IInv, NEW w \in Worker, WorkerSend(w)
  PROVE  Pending' = Pending
<1> DEFINE m == hand[w]
<1>1. wire[w] \in Seq(Item) /\ m \in Item /\ m.bar = 0
  BY DEF IInv, TypeOK, Thread, WorkerSend, Item, Msg
<1>2. wire'[w] = Append(wire[w], m) /\ \A t \in Worker \ {w} : wire'[t] = wire[t]
  BY <1>1 DEF WorkerSend, DoSend, Sock, IInv, TypeOK, Thread
<1>3. Sent' = Sent \cup {m}
  BY <1>1, <1>2, AppendSent
<1>4. /\ wpc[w] = "send" /\ wpc'[w] # "send" /\ msgq' = msgq
      /\ \A v \in Worker \ {w} : hand'[v] = hand[v] /\ wpc'[v] = wpc[v]
  BY DEF WorkerSend, WorkerIdle, IInv, TypeOK, bufVars
<1>5. {hand'[v] : v \in {x \in Worker : wpc'[x] = "send"}} \cup {m}
        = {hand[v] : v \in {x \in Worker : wpc[x] = "send"}}
  BY <1>4
<1>6. Pending' = msgq \cup {hand'[v] : v \in {x \in Worker : wpc'[x] = "send"}} \cup Sent'
  BY <1>4 DEF Pending
<1> QED
  BY <1>3, <1>5, <1>6 DEF Pending

\* A barrier is no message: sending it leaves what is pending as it is.
LEMMA SendBlockPending ==
  ASSUME IInv, NEW w \in Worker, WorkerSendBlock(w)
  PROVE  Pending' = Pending
<1>1. wire[w] \in Seq(Item) /\ Block(bstart) \in Item /\ Block(bstart).bar # 0
  BY DEF IInv, TypeOK, Thread, WorkerSendBlock, Block, Counters, Item
<1>2. /\ wire'[w] = Append(wire[w], Block(bstart))
      /\ \A t \in Worker \ {w} : wire'[t] = wire[t]
  BY <1>1 DEF WorkerSendBlock, DoSend, Sock, IInv, TypeOK, Thread
<1>3. Sent' = Sent
  BY <1>1, <1>2, AppendSent
<1> QED
  BY <1>3 DEF WorkerSendBlock, Pending, bufVars, workVars

\* The server takes a message from a worker's socket, and only that one is no
\* longer pending.
LEMMA ExecMessages ==
  ASSUME IInv, NEW t \in Worker, NEW r, ServerExec(t, r)
  PROVE  /\ Head(wire[t]) \in Msg /\ Head(wire[t]).lo <= sdone
         /\ Head(wire[t]) \in Pending
         /\ Pending' \subseteq Pending /\ Pending \subseteq Pending' \cup {Head(wire[t])}
<1> DEFINE m == Head(wire[t])
           n == Len(Tail(wire[t]))
<1>1. UNCHANGED <<bufVars, workVars>>
  BY DEF ServerExec
<1>2. wire'[t] = Tail(wire[t]) /\ \A v \in Thread \ {t} : wire'[v] = wire[v]
  BY DEF IInv, TypeOK, ServerExec, Thread
<1>3. wire[t] \in Seq(Item) /\ wire[t] # <<>> /\ m.bar = 0
  BY DEF IInv, TypeOK, ServerExec, Thread
<1>4. /\ n \in Nat /\ DOMAIN wire[t] = 1..(n + 1) /\ DOMAIN wire'[t] = 1..n
      /\ \A i \in 1..n : wire'[t][i] = wire[t][i + 1] /\ i + 1 \in 1..(n + 1)
      /\ wire[t][1] = m /\ 1 \in 1..(n + 1)
  BY <1>2, <1>3, TailItems
<1>5. m \in Msg /\ m.lo <= sdone
  <2>1. Fenced(t) \in Nat /\ sdone \in Nat /\ SockInv(wire[t], sdone, Fenced(t))
    BY DEF Fenced, IInv, TypeOK, WorkerWires
  <2> QED
    BY <1>3, <2>1, TailMsg
<1> HIDE DEF n, m
<1>6. ASSUME NEW y \in Sent' PROVE y \in Sent
  <2>0. PICK v \in Worker : \E i \in DOMAIN wire'[v] : y = wire'[v][i] /\ y.bar = 0
    BY <1>6, InSentNext
  <2>1. PICK i \in DOMAIN wire'[v] : y = wire'[v][i] /\ y.bar = 0
    BY <2>0
  <2>2. CASE v # t
    BY <1>2, <2>1, <2>2, InSent DEF Thread
  <2>3. CASE v = t
    <3>1. i \in 1..n /\ i + 1 \in DOMAIN wire[t] /\ y = wire[t][i + 1]
      BY <1>4, <2>1, <2>3
    <3> QED
      BY <2>1, <3>1, InSent
  <2> QED
    BY <2>2, <2>3
<1>7. ASSUME NEW y \in Sent PROVE y \in Sent' \cup {m}
  <2>0. PICK v \in Worker : \E i \in DOMAIN wire[v] : y = wire[v][i] /\ y.bar = 0
    BY <1>7, InSent
  <2>1. PICK i \in DOMAIN wire[v] : y = wire[v][i] /\ y.bar = 0
    BY <2>0
  <2>2. CASE v # t
    <3>1. wire'[v] = wire[v]
      BY <1>2, <2>2 DEF Thread
    <3> QED
      BY <2>1, <3>1, InSentNext
  <2>3. CASE v = t /\ i = 1
    BY <1>4, <2>1, <2>3
  <2>4. CASE v = t /\ i # 1
    <3>1. i - 1 \in 1..n /\ (i - 1) + 1 = i
      BY <1>4, <2>4
    <3>2. i - 1 \in DOMAIN wire'[v] /\ wire'[v][i - 1] = wire[v][i]
      BY <1>4, <2>4, <3>1
    <3> QED
      BY <2>1, <3>2, InSentNext
  <2> QED
    BY <2>2, <2>3, <2>4
<1>8. m \in Sent
  BY <1>3, <1>4, InSent
<1>9. Pending' \subseteq Pending /\ Pending \subseteq Pending' \cup {m} /\ m \in Pending
  BY <1>1, <1>6, <1>7, <1>8 DEF Pending, bufVars, workVars
<1> QED
  BY <1>5, <1>9 DEF m

\* The server runs a message of a user: that was never pending here.
LEMMA ExecUser ==
  ASSUME IInv, NEW t \in Thread \ Worker, NEW r, ServerExec(t, r)
  PROVE  Pending' = Pending
<1>1. \A v \in Worker : wire'[v] = wire[v]
  BY DEF IInv, TypeOK, ServerExec, Thread
<1>2. Sent' = Sent
  BY <1>1 DEF Sent
<1> QED
  BY <1>2 DEF ServerExec, Pending, bufVars, workVars

\* The server runs a message of a worker: no fence forbids it.
LEMMA ExecPending ==
  ASSUME IInv, NEW t \in Thread, NEW r \in Answer, ServerExec(t, r)
  PROVE  [FQ!Next]_FQ!vars
<1>1. UNCHANGED <<bstart, bret>>
  BY DEF ServerExec, barVars
<1>2. CASE t \notin Worker
  BY <1>1, <1>2, ExecUser, PendingSame DEF ServerExec
<1>3. CASE t \in Worker
  <2> DEFINE m == Head(wire[t])
             x == <<m.lo, m.hi>>
  <2>1. /\ m \in Msg /\ m.lo <= sdone /\ m \in Pending
        /\ Pending' \subseteq Pending /\ Pending \subseteq Pending' \cup {m}
    BY <1>3, ExecMessages
  <2>2. exq' = IF exq < x[1] THEN x[1] ELSE exq
    BY <1>3 DEF ServerExec, Later
  <2> HIDE DEF m
  <2>3. x \in Out /\ Out' \subseteq Out /\ Out \subseteq Out' \cup {x}
    BY <2>1 DEF Out
  <2>4. Out' = Out \/ Out' = Out \ {x}
    BY <2>3
  <2>5. \A y \in Out : x[1] <= y[2]
    <3> SUFFICES ASSUME NEW p \in Pending
                 PROVE  m.lo <= p.hi
      BY DEF Out
    <3>1. p \in Msg /\ sdone <= p.hi
      BY PendingWindow
    <3> QED
      BY <2>1, <3>1 DEF Msg, IInv, TypeOK
  <2>6. FQ!Run(x)
    BY <1>1, <2>2, <2>3, <2>4, <2>5 DEF FQ!Run
  <2> QED
    BY <2>3, <2>6 DEF FQ!Next
<1> QED
  BY <1>2, <1>3

\* Completing a barrier runs no message.
LEMMA ServerBarrierPending ==
  ASSUME IInv, NEW k \in 1..bstart, ServerBarrier(k)
  PROVE  Pending' = Pending
<1>1. AtBarrier(k) = Worker /\ k # 0
  BY AllAtBarrier DEF IInv, TypeOK
<1>2. ASSUME NEW w \in Worker
      PROVE  /\ wire'[w] = Tail(wire[w]) /\ wire[w] \in Seq(Item) /\ wire[w] # <<>>
             /\ Head(wire[w]).bar = k
  BY <1>1 DEF ServerBarrier, AtBarrier, IInv, TypeOK, Thread
<1>3. ASSUME NEW x
      PROVE  x \in Sent' <=> x \in Sent
  <2>1. ASSUME x \in Sent' PROVE x \in Sent
    <3>0. PICK v \in Worker : \E i \in DOMAIN wire'[v] : x = wire'[v][i] /\ x.bar = 0
      BY <2>1, InSentNext
    <3>1. PICK i \in DOMAIN wire'[v] : x = wire'[v][i] /\ x.bar = 0
      BY <3>0
    <3> DEFINE n == Len(Tail(wire[v]))
    <3>2. /\ n \in Nat /\ DOMAIN wire[v] = 1..(n + 1) /\ DOMAIN wire'[v] = 1..n
          /\ \A j \in 1..n : wire'[v][j] = wire[v][j + 1]
      BY <1>2, TailItems
    <3> HIDE DEF n
    <3>3. i + 1 \in DOMAIN wire[v] /\ x = wire[v][i + 1]
      BY <3>1, <3>2
    <3> QED
      BY <3>1, <3>3, InSent
  <2>2. ASSUME x \in Sent PROVE x \in Sent'
    <3>0. PICK v \in Worker : \E i \in DOMAIN wire[v] : x = wire[v][i] /\ x.bar = 0
      BY <2>2, InSent
    <3>1. PICK i \in DOMAIN wire[v] : x = wire[v][i] /\ x.bar = 0
      BY <3>0
    <3> DEFINE n == Len(Tail(wire[v]))
    <3>2. /\ n \in Nat /\ DOMAIN wire[v] = 1..(n + 1) /\ DOMAIN wire'[v] = 1..n
          /\ \A j \in 1..n : wire'[v][j] = wire[v][j + 1]
          /\ wire[v][1].bar = k
      BY <1>2, TailItems
    <3> HIDE DEF n
    <3>3. i # 1
      BY <1>1, <3>1, <3>2
    <3>4. i - 1 \in 1..n /\ (i - 1) + 1 = i
      BY <3>1, <3>2, <3>3
    <3>5. i - 1 \in DOMAIN wire'[v] /\ x = wire'[v][i - 1]
      BY <3>1, <3>2, <3>4
    <3> QED
      BY <3>1, <3>5, InSentNext
  <2> QED
    BY <2>1, <2>2
<1>4. Sent' = Sent
  BY <1>3
<1> QED
  BY <1>4 DEF ServerBarrier, Pending, bufVars, workVars

\* The steps that neither make a message nor run one.
Moves ==
  \/ \E u \in User :
       \/ \E str \in Asking : SynchroSend(u, str)
       \/ SynchroRecv(u) \/ FlushBegin(u) \/ FlushEnd(u)
       \/ BarrierBegin(u) \/ BarrierEnd(u)
  \/ \E w \in Worker :
       \/ \E m \in msgq : WorkerTake(w, m)
       \/ WorkerSend(w) \/ WorkerRecv(w) \/ CallbackDone(w) \/ WorkerSendBlock(w)
  \/ BarrierDrained
  \/ \E k \in 1..bstart : ServerBarrier(k)

\* Such a step leaves what is pending as it is.
LEMMA MovePending ==
  ASSUME IInv, Moves
  PROVE  Pending' = Pending
<1>1. ASSUME NEW u \in User, NEW str \in Asking, SynchroSend(u, str)
      PROVE  Pending' = Pending
  <2>1. \A w \in Worker : wire'[w] = wire[w]
    BY <1>1, ThreadAssumption DEF SynchroSend, DoSend, Sock, IInv, TypeOK, Thread
  <2>2. Sent' = Sent
    BY <2>1 DEF Sent
  <2> QED
    BY <1>1, <2>2 DEF SynchroSend, Pending, bufVars, workVars
<1>2. ASSUME NEW u \in User, \/ SynchroRecv(u) \/ FlushBegin(u) \/ FlushEnd(u)
                             \/ BarrierBegin(u) \/ BarrierEnd(u)
      PROVE  Pending' = Pending
  BY <1>2 DEF SynchroRecv, FlushBegin, FlushEnd, BarrierBegin, BarrierEnd, DoRecv,
              Pending, Sent, bufVars, workVars, sockVars
<1>3. ASSUME NEW w \in Worker, NEW m \in msgq, WorkerTake(w, m)
      PROVE  Pending' = Pending
  <2>1. {hand'[v] : v \in {x \in Worker : wpc'[x] = "send"}}
          = {hand[v] : v \in {x \in Worker : wpc[x] = "send"}} \cup {m}
    BY <1>3 DEF WorkerTake, IInv, TypeOK
  <2>2. Sent' = Sent
    BY <1>3 DEF WorkerTake, Sent, sockVars
  <2> QED
    BY <1>3, <2>1, <2>2 DEF WorkerTake, Pending
<1>4. ASSUME NEW w \in Worker, WorkerRecv(w) \/ CallbackDone(w)
      PROVE  Pending' = Pending
  <2>1. {hand'[v] : v \in {x \in Worker : wpc'[x] = "send"}}
          = {hand[v] : v \in {x \in Worker : wpc[x] = "send"}}
    <3>1. wpc[w] # "send" /\ wpc'[w] # "send"
      BY <1>4 DEF WorkerRecv, CallbackDone, WorkerIdle, IInv, TypeOK
    <3>2. \A v \in Worker \ {w} : hand'[v] = hand[v] /\ wpc'[v] = wpc[v]
      BY <1>4 DEF WorkerRecv, CallbackDone, WorkerIdle, IInv, TypeOK
    <3> QED
      BY <3>1, <3>2
  <2>2. Sent' = Sent /\ msgq' = msgq
    BY <1>4 DEF WorkerRecv, CallbackDone, DoRecv, Sent, bufVars
  <2> QED
    BY <2>1, <2>2 DEF Pending
<1>5. CASE BarrierDrained
  BY <1>5 DEF BarrierDrained, Pending, Sent, bufVars, workVars, sockVars
<1> QED
  BY <1>1, <1>2, <1>3, <1>4, <1>5, SendPending, SendBlockPending, ServerBarrierPending
     DEF Moves

\* Every step of the channel is a step of the FencedQueue, or none.
LEMMA StepRefines ==
  ASSUME IInv, Next
  PROVE  [FQ!Next]_FQ!vars
<1> USE MessageAssumption
<1>0. TypeOK
  BY DEF IInv
<1>1. ASSUME NEW u \in User, NEW str \in Asking, NEW d \in Data, Enqueue(u, str, d)
      PROVE  [FQ!Next]_FQ!vars
  BY <1>0, <1>1, InsertPending DEF Enqueue, sockVars, srvVars
<1>2. ASSUME NEW u \in User, NEW str \in Str \ Asking, EnqueueNoreply(u, str)
      PROVE  [FQ!Next]_FQ!vars
  BY <1>0, <1>2, InsertPending DEF EnqueueNoreply, sockVars, srvVars
<1>3. ASSUME NEW w \in Worker, NEW str \in FollowUp, NEW d \in Data,
             CallbackEnqueue(w, str, d)
      PROVE  [FQ!Next]_FQ!vars
  BY <1>0, <1>3, InsertPending DEF CallbackEnqueue, sockVars, srvVars
<1>4. ASSUME NEW u \in User, BarrierBegin(u) \/ BarrierEnd(u)
      PROVE  [FQ!Next]_FQ!vars
  <2>1. Out' = Out /\ exq' = exq
    BY <1>4, MovePending DEF Moves, Out, BarrierBegin, BarrierEnd, srvVars
  <2>2. CASE BarrierBegin(u)
    BY <2>1, <2>2 DEF BarrierBegin, IInv, Counters, TypeOK, FQ!Next, FQ!FenceBegin
  <2>3. CASE BarrierEnd(u)
    <3>1. bret < bstart
      BY <2>3 DEF BarrierEnd, IInv, Counters, TypeOK
    <3> QED
      BY <2>1, <2>3, <3>1 DEF BarrierEnd, FQ!Next, FQ!FenceReturn
  <2> QED
    BY <1>4, <2>2, <2>3
<1>5. CASE Moves /\ ~\E u \in User : BarrierBegin(u) \/ BarrierEnd(u)
  <2>1. UNCHANGED <<bstart, bret, exq>>
    BY <1>5 DEF Moves, SynchroSend, SynchroRecv, FlushBegin, FlushEnd, WorkerTake,
      WorkerSend, WorkerRecv, CallbackDone, WorkerSendBlock, BarrierDrained,
      ServerBarrier, barVars, srvVars
  <2> QED
    BY <1>5, <2>1, MovePending, PendingSame
<1>6. ASSUME NEW t \in Thread, NEW r \in Answer, ServerExec(t, r)
      PROVE  [FQ!Next]_FQ!vars
  BY <1>6, ExecPending
<1> QED
  BY <1>1, <1>2, <1>3, <1>4, <1>5, <1>6 DEF Next, UserNext, WorkerNext, ServerNext, Moves

(***************************************************************************)
(* CogChannel implements FencedQueue: buffer, workers, sockets and server  *)
(* together never run messages in an order that a barrier forbids.         *)
(***************************************************************************)
THEOREM ChannelIsFenced == Spec => FencedSpec
<1>1. Init => FQ!Init
  <2> SUFFICES ASSUME Init PROVE FQ!Init
    OBVIOUS
  <2>1. Sent = {}
    <3>1. \A w \in Worker : wire[w] = <<>>
      BY DEF Init, Thread
    <3> QED
      BY <3>1, InSent
  <2>2. Pending = {}
    BY <2>1 DEF Init, Pending
  <2> QED
    BY <2>2 DEF Init, FQ!Init, Out
<1>2. IInv /\ [Next]_vars => [FQ!Next]_FQ!vars
  <2> SUFFICES ASSUME IInv, [Next]_vars
               PROVE  [FQ!Next]_FQ!vars
    OBVIOUS
  <2>1. CASE Next
    BY <2>1, StepRefines
  <2>2. CASE UNCHANGED vars
    <3>1. Pending' = Pending /\ UNCHANGED <<bstart, bret, exq>>
      BY <2>2 DEF vars, Pending, Sent, bufVars, workVars, sockVars, barVars, srvVars
    <3> QED
      BY <3>1, PendingSame
  <2> QED
    BY <2>1, <2>2
<1> QED
  BY <1>1, <1>2, Invariance, PTL DEF Spec, FencedSpec, FQ!Spec

=============================================================================
