--------------------------- MODULE CogReplyProofs ---------------------------
(***************************************************************************)
(* Every callback of CogChannel gets the reply to its own message, for any *)
(* number of worker and user threads and any socket capacity.              *)
(*                                                                         *)
(* The second half is what a storage node needs to know of its channel:    *)
(* that every call in progress has what it waits for (CallInv), and which  *)
(* messages are still to run or to come, of those made since a barrier     *)
(* began (Behind, OnlyLeft, Coming).                                       *)
(***************************************************************************)
EXTENDS CogChannelProofs

-----------------------------------------------------------------------------
(***************************************************************************)
(* The inductive invariant: a worker's socket holds no unanswered question *)
(* but the one that the worker is waiting for, and no reply but to it.     *)
(***************************************************************************)
\* What stands in a socket and will be answered.
Question(x) == x.bar = 0 /\ x.str \in Asking

Quiet(q) == \A i \in DOMAIN q : ~Question(q[i])

\* The string str is the only question in socket q.
OneQuestion(q, str) ==
  \E i \in DOMAIN q : /\ Question(q[i]) /\ q[i].str = str
                      /\ \A j \in DOMAIN q : Question(q[j]) => j = i

\* Messages whose sender does not wait are those that the server is silent on.
WaitsRightly(m) == m.noreply <=> m.str \notin Asking

Labels ==
  /\ \A m \in msgq : WaitsRightly(m)
  /\ \A w \in Worker : wpc[w] # "idle" => WaitsRightly(hand[w])

Waiting(w) ==
  \/ back[w] = <<>> /\ OneQuestion(wire[w], hand[w].str)
  \/ back[w] = <<[to |-> hand[w].str, val |-> back[w][1].val]>> /\ Quiet(wire[w])

Conversation ==
  \A w \in Worker :
    /\ wpc[w] = "recv" => hand[w].str \in Asking /\ Waiting(w)
    /\ wpc[w] # "recv" => back[w] = <<>> /\ Quiet(wire[w])

ReplyInv == Labels /\ Conversation /\ ReplyMatches

-----------------------------------------------------------------------------
(***************************************************************************)
(* Questions in a socket.                                                  *)
(***************************************************************************)
\* What is silent does not make a socket less quiet.
LEMMA AppendQuiet ==
  ASSUME NEW q \in Seq(Item), NEW x \in Item, Quiet(q), ~Question(x)
  PROVE  Quiet(Append(q, x))
BY DEF Quiet

\* A question that is sent into a quiet socket is the only one there.
LEMMA AppendQuestion ==
  ASSUME NEW q \in Seq(Item), NEW x \in Item, Quiet(q), Question(x)
  PROVE  OneQuestion(Append(q, x), x.str)
<1> DEFINE r == Append(q, x)
<1>1. /\ Len(q) + 1 \in DOMAIN r /\ r[Len(q) + 1] = x
      /\ \A j \in DOMAIN r : j # Len(q) + 1 => j \in DOMAIN q /\ r[j] = q[j]
  OBVIOUS
<1>2. \A j \in DOMAIN r : Question(r[j]) => j = Len(q) + 1
  BY <1>1 DEF Quiet
<1> QED
  BY <1>1, <1>2 DEF OneQuestion

\* Running a message of a quiet socket leaves it quiet.
LEMMA TailQuiet ==
  ASSUME NEW q \in Seq(Item), q # <<>>, Quiet(q)
  PROVE  Quiet(Tail(q)) /\ ~Question(Head(q))
<1>1. \A i \in DOMAIN Tail(q) : i + 1 \in DOMAIN q /\ Tail(q)[i] = q[i + 1]
  OBVIOUS
<1> QED
  BY <1>1 DEF Quiet

\* When something else is run, the question stays in the socket.
LEMMA TailOther ==
  ASSUME NEW q \in Seq(Item), q # <<>>, NEW str, OneQuestion(q, str), ~Question(Head(q))
  PROVE  OneQuestion(Tail(q), str)
<1>1. PICK i \in DOMAIN q : /\ Question(q[i]) /\ q[i].str = str
                            /\ \A j \in DOMAIN q : Question(q[j]) => j = i
  BY DEF OneQuestion
<1>2. i # 1 /\ i \in 1..Len(q)
  BY <1>1
<1>3. /\ i - 1 \in DOMAIN Tail(q) /\ Tail(q)[i - 1] = q[i]
      /\ \A j \in DOMAIN Tail(q) : j \in Nat /\ j + 1 \in DOMAIN q /\ Tail(q)[j] = q[j + 1]
  BY <1>2
<1>4. \A j \in DOMAIN Tail(q) : Question(Tail(q)[j]) => j = i - 1
  BY <1>1, <1>2, <1>3
<1> QED
  BY <1>1, <1>3, <1>4 DEF OneQuestion

\* When the question is run, the socket is quiet.
LEMMA TailQuestion ==
  ASSUME NEW q \in Seq(Item), q # <<>>, NEW str, OneQuestion(q, str), Question(Head(q))
  PROVE  Head(q).str = str /\ Quiet(Tail(q))
<1>1. PICK i \in DOMAIN q : /\ Question(q[i]) /\ q[i].str = str
                            /\ \A j \in DOMAIN q : Question(q[j]) => j = i
  BY DEF OneQuestion
<1>2. i = 1 /\ Head(q) = q[1]
  BY <1>1
<1>3. \A j \in DOMAIN Tail(q) : j \in Nat \ {0} /\ j + 1 \in DOMAIN q /\ Tail(q)[j] = q[j + 1]
  OBVIOUS
<1> QED
  BY <1>1, <1>2, <1>3 DEF Quiet

-----------------------------------------------------------------------------
(***************************************************************************)
(* The steps.                                                              *)
(***************************************************************************)
\* An insertion of a message that is labelled rightly.
LEMMA InsertReply ==
  ASSUME IInv, ReplyInv, NEW str \in Str, NEW data \in Data, NEW nr \in BOOLEAN,
         nr <=> str \notin Asking,
         Insert(NewMsg(str, data, nr)), UNCHANGED <<workVars, sockVars>>
  PROVE  ReplyInv'
<1> DEFINE n == NewMsg(str, data, nr)
<1>1. WaitsRightly(n)
  BY DEF WaitsRightly, NewMsg, Request
<1>2. msgq' = msgq \/ msgq' = msgq \cup {n}
  BY DEF Insert
<1> HIDE DEF n
<1>3. Labels'
  BY <1>1, <1>2 DEF ReplyInv, Labels, workVars, WaitsRightly
<1> QED
  BY <1>3 DEF ReplyInv, Conversation, Waiting, ReplyMatches, workVars, sockVars

\* A step in which the sockets of the workers do nothing.
LEMMA OtherReply ==
  ASSUME ReplyInv, UNCHANGED <<msgq, workVars>>,
         \A w \in Worker : wire'[w] = wire[w] /\ back'[w] = back[w] /\ got'[w] = got[w]
  PROVE  ReplyInv'
BY DEF ReplyInv, Labels, Conversation, Waiting, ReplyMatches, workVars, WaitsRightly

\* The worker sends its message and waits for the reply, if there will be one.
LEMMA WorkerSendReply ==
  ASSUME IInv, ReplyInv, NEW w \in Worker, WorkerSend(w)
  PROVE  ReplyInv'
<1>1. /\ hand[w] \in Msg /\ hand[w] \in Item /\ wire[w] \in Seq(Item) /\ w \in Thread
      /\ wpc[w] = "send" /\ back[w] = <<>> /\ Quiet(wire[w]) /\ WaitsRightly(hand[w])
  BY DEF IInv, TypeOK, ReplyInv, Labels, Conversation, WorkerSend, Item, Thread
<1>2. /\ wire' = [wire EXCEPT ![w] = Append(@, hand[w])] /\ UNCHANGED <<back, got, msgq>>
  BY DEF WorkerSend, DoSend, Sock, bufVars
<1>3. /\ wire'[w] = Append(wire[w], hand[w])
      /\ \A v \in Worker \ {w} : wire'[v] = wire[v]
  BY <1>1, <1>2 DEF IInv, TypeOK, Thread
<1>4. Question(hand[w]) <=> ~hand[w].noreply
  BY <1>1 DEF Question, WaitsRightly, Msg
<1>5. CASE hand[w].noreply
  <2>1. /\ wpc' = [wpc EXCEPT ![w] = "idle"] /\ hand' = [hand EXCEPT ![w] = NoMsg]
    BY <1>5 DEF WorkerSend, WorkerIdle
  <2>2. /\ wpc'[w] = "idle"
        /\ \A v \in Worker \ {w} : wpc'[v] = wpc[v] /\ hand'[v] = hand[v]
    BY <2>1 DEF IInv, TypeOK
  <2>3. Quiet(wire'[w])
    BY <1>1, <1>3, <1>4, <1>5, AppendQuiet
  <2>4. Conversation'
    BY <1>1, <1>2, <1>3, <2>2, <2>3 DEF ReplyInv, Conversation, Waiting
  <2>5. Labels'
    BY <1>2, <2>2 DEF ReplyInv, Labels, WaitsRightly
  <2>6. ReplyMatches'
    BY <1>2, <2>2 DEF ReplyInv, ReplyMatches
  <2> QED
    BY <2>4, <2>5, <2>6 DEF ReplyInv
<1>6. CASE ~hand[w].noreply
  <2>1. wpc' = [wpc EXCEPT ![w] = "recv"] /\ hand' = hand
    BY <1>6 DEF WorkerSend
  <2>2. wpc'[w] = "recv" /\ \A v \in Worker \ {w} : wpc'[v] = wpc[v]
    BY <2>1 DEF IInv, TypeOK
  <2>3. OneQuestion(wire'[w], hand[w].str) /\ hand[w].str \in Asking
    BY <1>1, <1>3, <1>4, <1>6, AppendQuestion DEF Question
  <2>4. Waiting(w)'
    BY <1>1, <1>2, <2>1, <2>3 DEF Waiting
  <2>5. Conversation'
    BY <1>1, <1>2, <1>3, <2>1, <2>2, <2>3, <2>4 DEF ReplyInv, Conversation, Waiting
  <2>6. Labels'
    BY <1>1, <1>2, <2>1, <2>2 DEF ReplyInv, Labels, WaitsRightly
  <2>7. ReplyMatches'
    BY <1>2, <2>1, <2>2 DEF ReplyInv, ReplyMatches
  <2> QED
    BY <2>5, <2>6, <2>7 DEF ReplyInv
<1> QED
  BY <1>5, <1>6

\* The reply that do_recv returns is to the message in hand.
LEMMA WorkerRecvReply ==
  ASSUME IInv, ReplyInv, NEW w \in Worker, WorkerRecv(w)
  PROVE  ReplyInv'
<1>1. /\ w \in Thread /\ wpc[w] = "recv" /\ back[w] # <<>> /\ back[w] \in Seq(Reply)
      /\ hand[w].str \in Asking /\ Waiting(w)
  BY DEF IInv, TypeOK, ReplyInv, Conversation, WorkerRecv, DoRecv, Sock, Thread
<1>2. back[w] = <<[to |-> hand[w].str, val |-> back[w][1].val]>> /\ Quiet(wire[w])
  BY <1>1 DEF Waiting
<1>3. Head(back[w]).to = hand[w].str /\ Tail(back[w]) = <<>>
  <2> DEFINE x == [to |-> hand[w].str, val |-> back[w][1].val]
  <2>1. back[w] = <<x>> /\ x.to = hand[w].str
    BY <1>2
  <2> HIDE DEF x
  <2>2. Head(<<x>>) = x /\ Tail(<<x>>) = <<>>
    OBVIOUS
  <2> QED
    BY <2>1, <2>2
<1>4. /\ got' = [got EXCEPT ![w] = Head(back[w])]
      /\ back' = [back EXCEPT ![w] = Tail(@)]
      /\ wpc' = [wpc EXCEPT ![w] = "callback"] /\ UNCHANGED <<hand, wire, msgq>>
  BY DEF WorkerRecv, DoRecv, Sock, bufVars
<1>5. /\ got'[w].to = hand[w].str /\ back'[w] = <<>> /\ wpc'[w] = "callback"
      /\ \A v \in Worker \ {w} : got'[v] = got[v] /\ back'[v] = back[v] /\ wpc'[v] = wpc[v]
  BY <1>1, <1>3, <1>4 DEF IInv, TypeOK, Thread
<1>6. Labels'
  BY <1>1, <1>4, <1>5 DEF ReplyInv, Labels, WaitsRightly
<1>7. Conversation'
  BY <1>2, <1>4, <1>5 DEF ReplyInv, Conversation, Waiting
<1>8. ReplyMatches'
  BY <1>4, <1>5 DEF ReplyInv, ReplyMatches
<1> QED
  BY <1>6, <1>7, <1>8 DEF ReplyInv

\* Taking a message up, and having done with it.
LEMMA WorkerHandReply ==
  ASSUME IInv, ReplyInv, NEW w \in Worker,
         CallbackDone(w) \/ \E m \in msgq : WorkerTake(w, m)
  PROVE  ReplyInv'
<1>1. CASE CallbackDone(w)
  <2>1. /\ wpc' = [wpc EXCEPT ![w] = "idle"] /\ hand' = [hand EXCEPT ![w] = NoMsg]
        /\ got' = [got EXCEPT ![w] = NoMsg] /\ UNCHANGED <<wire, back, msgq>>
        /\ wpc[w] = "callback"
    BY <1>1 DEF CallbackDone, WorkerIdle, bufVars
  <2>2. /\ wpc'[w] = "idle"
        /\ \A v \in Worker \ {w} : wpc'[v] = wpc[v] /\ hand'[v] = hand[v] /\ got'[v] = got[v]
    BY <2>1 DEF IInv, TypeOK, Thread
  <2>3. Labels'
    BY <2>1, <2>2 DEF ReplyInv, Labels, WaitsRightly
  <2>4. Conversation'
    BY <2>1, <2>2 DEF ReplyInv, Conversation, Waiting
  <2>5. ReplyMatches'
    BY <2>2 DEF ReplyInv, ReplyMatches
  <2> QED
    BY <2>3, <2>4, <2>5 DEF ReplyInv
<1>2. ASSUME NEW m \in msgq, WorkerTake(w, m) PROVE ReplyInv'
  <2>1. /\ wpc' = [wpc EXCEPT ![w] = "send"] /\ hand' = [hand EXCEPT ![w] = m]
        /\ msgq' = msgq \ {m} /\ UNCHANGED <<wire, back, got>> /\ wpc[w] = "idle"
    BY <1>2 DEF WorkerTake, sockVars
  <2>2. /\ wpc'[w] = "send" /\ hand'[w] = m
        /\ \A v \in Worker \ {w} : wpc'[v] = wpc[v] /\ hand'[v] = hand[v]
    BY <2>1 DEF IInv, TypeOK
  <2>3. Labels'
    BY <2>1, <2>2 DEF ReplyInv, Labels, WaitsRightly
  <2>4. Conversation'
    BY <2>1, <2>2 DEF ReplyInv, Conversation, Waiting
  <2>5. ReplyMatches'
    BY <2>1, <2>2 DEF ReplyInv, ReplyMatches
  <2> QED
    BY <2>3, <2>4, <2>5 DEF ReplyInv
<1> QED
  BY <1>1, <1>2

\* A barrier message is no question.
LEMMA SendBlockReply ==
  ASSUME IInv, ReplyInv, NEW w \in Worker, WorkerSendBlock(w)
  PROVE  ReplyInv'
<1> DEFINE x == Block(bstart)
<1>1. x \in Item /\ ~Question(x) /\ wire[w] \in Seq(Item) /\ w \in Thread
  BY DEF IInv, TypeOK, Counters, WorkerSendBlock, Block, Item, Question, Thread
<1>2. /\ wire' = [wire EXCEPT ![w] = Append(@, x)] /\ UNCHANGED <<back, got, msgq, wpc, hand>>
      /\ wpc[w] = "idle"
  BY DEF WorkerSendBlock, DoSend, Sock, bufVars, workVars
<1> HIDE DEF x
<1>3. /\ wire'[w] = Append(wire[w], x)
      /\ \A v \in Worker \ {w} : wire'[v] = wire[v]
  BY <1>1, <1>2 DEF IInv, TypeOK, Thread
<1>4. Quiet(wire'[w])
  BY <1>1, <1>2, <1>3, AppendQuiet DEF ReplyInv, Conversation
<1> QED
  BY <1>2, <1>3, <1>4 DEF ReplyInv, Labels, Conversation, Waiting, ReplyMatches, WaitsRightly

\* The server answers the question that the worker waits for, or is silent.
LEMMA ExecReply ==
  ASSUME IInv, ReplyInv, NEW w \in Worker, NEW r \in Answer, ServerExec(w, r)
  PROVE  ReplyInv'
<1> DEFINE q == wire[w]
           m == Head(q)
<1>1. q \in Seq(Item) /\ q # <<>> /\ w \in Thread /\ m.bar = 0 /\ back[w] \in Seq(Reply)
  BY DEF IInv, TypeOK, ServerExec, Thread
<1>2. /\ wire' = [wire EXCEPT ![w] = Tail(@)]
      /\ back' = IF m.str \in Asking
                 THEN [back EXCEPT ![w] = Append(@, [to |-> m.str, val |-> r])] ELSE back
      /\ UNCHANGED <<wpc, hand, got, msgq>>
  BY DEF ServerExec, workVars, bufVars
<1>3. /\ wire'[w] = Tail(q)
      /\ \A v \in Worker \ {w} : wire'[v] = wire[v] /\ back'[v] = back[v]
      /\ m.str \in Asking => back'[w] = Append(back[w], [to |-> m.str, val |-> r])
      /\ m.str \notin Asking => back'[w] = back[w]
  BY <1>1, <1>2 DEF IInv, TypeOK, Thread
<1>4. m.str \in Asking <=> Question(m)
  BY <1>1 DEF Question
<1> HIDE DEF q, m
<1>5. CASE Quiet(q)
  <2>1. Quiet(wire'[w]) /\ back'[w] = back[w]
    BY <1>1, <1>3, <1>4, <1>5, TailQuiet DEF m
  <2>2. \A i \in {1} : ~OneQuestion(q, hand[w].str)
    BY <1>5 DEF Quiet, OneQuestion
  <2>3. wpc[w] = "recv" => Waiting(w)'
    BY <1>2, <2>1, <2>2 DEF ReplyInv, Conversation, Waiting, q
  <2>4. Conversation'
    BY <1>2, <1>3, <2>1, <2>3 DEF ReplyInv, Conversation, Waiting
  <2> QED
    BY <1>2, <2>4 DEF ReplyInv, Labels, ReplyMatches, WaitsRightly
<1>6. CASE ~Quiet(q)
  <2>1. wpc[w] = "recv" /\ back[w] = <<>> /\ OneQuestion(q, hand[w].str)
    BY <1>6 DEF ReplyInv, Conversation, Waiting, q
  <2>2. CASE Question(m)
    <3>1. m.str = hand[w].str /\ Quiet(wire'[w])
      BY <1>1, <1>3, <2>1, <2>2, TailQuestion DEF m
    <3>2. back'[w] = <<[to |-> hand[w].str, val |-> r]>>
      BY <1>3, <1>4, <2>1, <2>2, <3>1
    <3>3. back'[w][1].val = r
      BY <3>2
    <3>4. Waiting(w)'
      BY <1>2, <3>1, <3>2, <3>3 DEF Waiting
    <3>5. Conversation'
      BY <1>2, <1>3, <2>1, <3>4 DEF ReplyInv, Conversation, Waiting
    <3> QED
      BY <1>2, <3>5 DEF ReplyInv, Labels, ReplyMatches, WaitsRightly
  <2>3. CASE ~Question(m)
    <3>1. OneQuestion(wire'[w], hand[w].str) /\ back'[w] = back[w]
      BY <1>1, <1>3, <1>4, <2>1, <2>3, TailOther DEF m
    <3>2. Waiting(w)'
      BY <1>2, <2>1, <3>1 DEF Waiting
    <3>3. Conversation'
      BY <1>2, <1>3, <2>1, <3>2 DEF ReplyInv, Conversation, Waiting
    <3> QED
      BY <1>2, <3>3 DEF ReplyInv, Labels, ReplyMatches, WaitsRightly
  <2> QED
    BY <2>2, <2>3
<1> QED
  BY <1>5, <1>6

\* The sockets that leave a barrier have run no question.
LEMMA ServerBarrierReply ==
  ASSUME IInv, ReplyInv, NEW k \in 1..bstart, ServerBarrier(k)
  PROVE  ReplyInv'
<1>1. /\ wire' = [t \in Thread |-> IF t \in AtBarrier(k) THEN Tail(wire[t]) ELSE wire[t]]
      /\ UNCHANGED <<wpc, hand, got, back, msgq>> /\ k # 0
  BY DEF ServerBarrier, workVars, bufVars, IInv, TypeOK
<1>2. ASSUME NEW w \in Worker
      PROVE  /\ Quiet(wire[w]) => Quiet(wire'[w])
             /\ OneQuestion(wire[w], hand[w].str) => OneQuestion(wire'[w], hand[w].str)
  <2>1. w \in Thread /\ wire[w] \in Seq(Item)
    BY DEF IInv, TypeOK, Thread
  <2>2. CASE w \in AtBarrier(k)
    <3>1. wire[w] # <<>> /\ ~Question(Head(wire[w])) /\ wire'[w] = Tail(wire[w])
      BY <1>1, <2>1, <2>2 DEF AtBarrier, Question
    <3> QED
      BY <2>1, <3>1, TailQuiet, TailOther
  <2>3. CASE w \notin AtBarrier(k)
    BY <1>1, <2>1, <2>3
  <2> QED
    BY <2>2, <2>3
<1>3. Conversation'
  BY <1>1, <1>2 DEF ReplyInv, Conversation, Waiting
<1> QED
  BY <1>1, <1>3 DEF ReplyInv, Labels, ReplyMatches, WaitsRightly

\* Every step of the channel keeps the conversations apart.
LEMMA ReplyStep == IInv /\ ReplyInv /\ [Next]_vars => ReplyInv'
<1> SUFFICES ASSUME IInv, ReplyInv, [Next]_vars PROVE ReplyInv'
  OBVIOUS
<1> USE ThreadAssumption, MessageAssumption
<1>1. ASSUME NEW u \in User, UserNext(u) PROVE ReplyInv'
  <2>1. ASSUME NEW str \in Asking, NEW d \in Data, Enqueue(u, str, d) PROVE ReplyInv'
    BY <2>1, InsertReply DEF Enqueue
  <2>2. ASSUME NEW str \in Str \ Asking, EnqueueNoreply(u, str) PROVE ReplyInv'
    BY <2>2, InsertReply DEF EnqueueNoreply
  <2>3. CASE (\E str \in Asking : SynchroSend(u, str)) \/ SynchroRecv(u)
    <3>1. \A w \in Worker : w # u /\ wire'[w] = wire[w] /\ back'[w] = back[w] /\ got'[w] = got[w]
      BY <2>3, ZenonT(30) DEF SynchroSend, SynchroRecv, DoSend, DoRecv, Sock, IInv, TypeOK, Thread
    <3> QED
      BY <2>3, <3>1, OtherReply DEF SynchroSend, SynchroRecv, bufVars
  <2>4. CASE FlushBegin(u) \/ FlushEnd(u) \/ BarrierBegin(u) \/ BarrierEnd(u)
    BY <2>4, OtherReply DEF FlushBegin, FlushEnd, BarrierBegin, BarrierEnd, bufVars, sockVars
  <2> QED
    BY <1>1, <2>1, <2>2, <2>3, <2>4 DEF UserNext
<1>2. ASSUME NEW w \in Worker, WorkerNext(w) PROVE ReplyInv'
  <2>1. ASSUME NEW str \in FollowUp, NEW d \in Data, CallbackEnqueue(w, str, d) PROVE ReplyInv'
    BY <2>1, InsertReply DEF CallbackEnqueue
  <2> QED
    BY <1>2, <2>1, WorkerHandReply, WorkerSendReply, WorkerRecvReply, SendBlockReply
       DEF WorkerNext
<1>3. CASE BarrierDrained
  BY <1>3, OtherReply DEF BarrierDrained, bufVars, sockVars
<1>4. ASSUME NEW t \in Thread, NEW r \in Answer, ServerExec(t, r) PROVE ReplyInv'
  <2>1. CASE t \in Worker
    BY <1>4, <2>1, ExecReply
  <2>2. CASE t \notin Worker
    <3>1. \A w \in Worker : w # t /\ wire'[w] = wire[w] /\ back'[w] = back[w] /\ got'[w] = got[w]
      BY <1>4, <2>2 DEF ServerExec, IInv, TypeOK, Thread
    <3> QED
      BY <1>4, <3>1, OtherReply DEF ServerExec, bufVars
  <2> QED
    BY <2>1, <2>2
<1>5. CASE UNCHANGED vars
  BY <1>5, OtherReply DEF vars, bufVars, sockVars
<1> QED
  BY <1>1, <1>2, <1>3, <1>4, <1>5, ServerBarrierReply DEF Next, ServerNext

(***************************************************************************)
(* The reply that a callback is given is the reply to its own message:     *)
(* messages that nobody answers, barriers and the questions of other       *)
(* threads never shift the replies of a socket.                            *)
(***************************************************************************)
THEOREM ReplyMatchesHolds == Spec => []ReplyMatches
<1>1. Init => ReplyInv
  BY ThreadAssumption
     DEF Init, ReplyInv, Labels, Conversation, Quiet, ReplyMatches, Thread
<1>2. ReplyInv => ReplyMatches
  BY DEF ReplyInv
<1> QED
  BY <1>1, <1>2, ReplyStep, Invariance, PTL DEF Spec

-----------------------------------------------------------------------------
(***************************************************************************)
(* What the operations of a storage node build on.                         *)
(***************************************************************************)
\* A question that was sent is in the hands of the worker that waits for it.
Held ==
  \A w \in Worker : wpc[w] = "recv" =>
    \A i \in DOMAIN wire[w] : Question(wire[w][i]) => wire[w][i] = hand[w]

\* One thread at a time is in barrier().
OneBarrier ==
  /\ \A u \in User : upc[u] = "barrier" => phase # "none"
  /\ \A u, v \in User : upc[u] = "barrier" /\ upc[v] = "barrier" => u = v

\* The messages that are yet to be run, or whose callback is yet to end.
Live == Pending \cup Buffered

Stamped == \A m \in Live : m.hi <= bstart

CallInv == IInv /\ ReplyInv /\ Held /\ OneBarrier /\ Stamped

\* The messages made since barrier k began are all in S.
Behind(k, S) == \A m \in Live : m.hi >= k => m.str \in S

\* What is yet to be run is all in S.
OnlyLeft(S) == \A m \in Pending : m.str \in S

\* The message str is yet to be run, and what the fences let run after it is
\* all in S.  If thread u is in barrier(), it called that after str.
Coming(u, str, S) ==
  \E c \in Pending :
    /\ c.str = str
    /\ c.hi <= bstart
    /\ upc[u] = "barrier" => c.hi < bstart
    /\ \A m \in Pending : m = c \/ (m.hi >= c.lo => m.str \in S)

\* What stands in a socket after x is sent.
LEMMA AppendItems ==
  ASSUME NEW q \in Seq(Item), NEW x \in Item, NEW i \in DOMAIN Append(q, x)
  PROVE  \/ i \in DOMAIN q /\ Append(q, x)[i] = q[i]
         \/ i = Len(q) + 1 /\ Append(q, x)[i] = x
<1>1. Len(q) \in Nat /\ DOMAIN q = 1..Len(q) /\ DOMAIN Append(q, x) = 1..(Len(q) + 1)
  OBVIOUS
<1>2. CASE i = Len(q) + 1
  BY <1>2
<1>3. CASE i # Len(q) + 1
  <2>1. i \in 1..Len(q)
    BY <1>1, <1>3
  <2> QED
    BY <1>1, <2>1
<1> QED
  BY <1>2, <1>3

\* A worker sends a question, and waits for the reply with it in its hands.
LEMMA SendHeld ==
  ASSUME IInv, ReplyInv, Held, NEW w \in Worker, WorkerSend(w)
  PROVE  Held'
<1>1. /\ hand[w] \in Msg /\ wire[w] \in Seq(Item) /\ wpc[w] = "send" /\ Quiet(wire[w])
  BY DEF IInv, TypeOK, ReplyInv, Conversation, WorkerSend, Thread
<1>2. /\ wire'[w] = Append(wire[w], hand[w])
      /\ \A v \in Worker \ {w} : wire'[v] = wire[v] /\ wpc'[v] = wpc[v] /\ hand'[v] = hand[v]
      /\ wpc'[w] = "recv" => hand'[w] = hand[w]
  BY <1>1 DEF WorkerSend, WorkerIdle, DoSend, Sock, IInv, TypeOK, Thread
<1>3. \A i \in DOMAIN wire'[w] :
        \/ i \in DOMAIN wire[w] /\ wire'[w][i] = wire[w][i]
        \/ i = Len(wire[w]) + 1 /\ wire'[w][i] = hand[w]
  BY <1>1, <1>2, AppendItems DEF Item
<1>4. \A i \in DOMAIN wire'[w] : Question(wire'[w][i]) => wire'[w][i] = hand[w]
  BY <1>1, <1>3 DEF Quiet
<1> QED
  BY <1>2, <1>4 DEF Held, Question

\* The server takes what is first in some sockets of workers.
LEMMA TailHeld ==
  ASSUME IInv, Held, UNCHANGED workVars,
         \A w \in Worker : \/ wire'[w] = wire[w]
                           \/ wire[w] # <<>> /\ wire'[w] = Tail(wire[w])
  PROVE  Held'
<1> SUFFICES ASSUME NEW w \in Worker, wpc[w] = "recv", NEW i \in DOMAIN wire'[w],
                    Question(wire'[w][i])
             PROVE  wire'[w][i] = hand[w]
  BY DEF Held, workVars, Question
<1>1. CASE wire'[w] = wire[w]
  BY <1>1 DEF Held
<1>2. CASE wire[w] # <<>> /\ wire'[w] = Tail(wire[w])
  <2>1. wire[w] \in Seq(Item)
    BY DEF IInv, TypeOK, Thread
  <2>2. i + 1 \in DOMAIN wire[w] /\ wire'[w][i] = wire[w][i + 1]
    BY <1>2, <2>1
  <2> QED
    BY <2>2 DEF Held
<1> QED
  BY <1>1, <1>2

\* Questions that are sent stay in the hands of their senders.
LEMMA HeldStep == IInv /\ ReplyInv /\ Held /\ [Next]_vars => Held'
<1> SUFFICES ASSUME IInv, ReplyInv, Held, [Next]_vars PROVE Held'
  OBVIOUS
<1> USE ThreadAssumption
<1>1. ASSUME UNCHANGED workVars, \A w \in Worker : wire'[w] = wire[w] PROVE Held'
  BY <1>1 DEF Held, workVars, Question
<1>2. ASSUME NEW u \in User, UserNext(u) PROVE Held'
  <2>1. UNCHANGED workVars /\ \A w \in Worker : wire'[w] = wire[w]
    <3>1. CASE \E str \in Asking : SynchroSend(u, str)
      BY <3>1, ZenonT(30) DEF SynchroSend, DoSend, Sock, IInv, TypeOK, Thread
    <3>2. CASE ~\E str \in Asking : SynchroSend(u, str)
      BY <1>2, <3>2 DEF UserNext, Enqueue, EnqueueNoreply, SynchroRecv, DoRecv,
        FlushBegin, FlushEnd, BarrierBegin, BarrierEnd, sockVars
    <3> QED
      BY <3>1, <3>2
  <2> QED
    BY <1>1, <2>1
<1>3. ASSUME NEW w \in Worker, WorkerNext(w) PROVE Held'
  <2>1. ASSUME NEW m \in msgq, WorkerTake(w, m) PROVE Held'
    BY <2>1 DEF WorkerTake, Held, Question, IInv, TypeOK, sockVars
  <2>2. CASE WorkerRecv(w) \/ CallbackDone(w)
    BY <2>2 DEF WorkerRecv, CallbackDone, WorkerIdle, DoRecv, Held, Question, IInv, TypeOK
  <2>3. CASE \E str \in FollowUp, d \in Data : CallbackEnqueue(w, str, d)
    BY <1>1, <2>3 DEF CallbackEnqueue, sockVars
  <2>4. CASE WorkerSendBlock(w)
    <3> DEFINE b == Block(bstart)
    <3>1. wire[w] \in Seq(Item) /\ b \in Item /\ ~Question(b)
      BY <2>4 DEF IInv, TypeOK, Thread, WorkerSendBlock, Block, Counters, Item, Question
    <3>2. wire'[w] = Append(wire[w], b) /\ \A v \in Worker \ {w} : wire'[v] = wire[v]
      BY <2>4 DEF WorkerSendBlock, DoSend, Sock, IInv, TypeOK, Thread
    <3> HIDE DEF b
    <3>3. \A i \in DOMAIN wire'[w] :
            \/ i \in DOMAIN wire[w] /\ wire'[w][i] = wire[w][i]
            \/ i = Len(wire[w]) + 1 /\ wire'[w][i] = b
      BY <3>1, <3>2, AppendItems
    <3> QED
      BY <2>4, <3>1, <3>2, <3>3 DEF WorkerSendBlock, workVars, Held, Question
  <2> QED
    BY <1>3, <2>1, <2>2, <2>3, <2>4, SendHeld DEF WorkerNext
<1>4. CASE BarrierDrained
  BY <1>1, <1>4 DEF BarrierDrained, sockVars
<1>5. ASSUME NEW t \in Thread, NEW r \in Answer, ServerExec(t, r) PROVE Held'
  <2>1. \A w \in Worker : \/ wire'[w] = wire[w]
                          \/ wire[w] # <<>> /\ wire'[w] = Tail(wire[w])
    BY <1>5 DEF ServerExec, IInv, TypeOK, Thread
  <2> QED
    BY <1>5, <2>1, TailHeld DEF ServerExec
<1>6. ASSUME NEW k \in 1..bstart, ServerBarrier(k) PROVE Held'
  <2>1. \A w \in Worker : \/ wire'[w] = wire[w]
                          \/ wire[w] # <<>> /\ wire'[w] = Tail(wire[w])
    BY <1>6 DEF ServerBarrier, AtBarrier, Thread
  <2> QED
    BY <1>6, <2>1, TailHeld DEF ServerBarrier
<1>7. CASE UNCHANGED vars
  BY <1>1, <1>7 DEF vars, sockVars
<1> QED
  BY <1>2, <1>3, <1>4, <1>5, <1>6, <1>7 DEF Next, ServerNext

\* Barriers stay apart.
LEMMA OneBarrierStep == TypeOK /\ OneBarrier /\ [Next]_vars => OneBarrier'
<1> SUFFICES ASSUME TypeOK, OneBarrier, [Next]_vars PROVE OneBarrier'
  OBVIOUS
<1>1. ASSUME UNCHANGED <<upc, phase>> PROVE OneBarrier'
  BY <1>1 DEF OneBarrier
<1>2. ASSUME NEW u \in User, UserNext(u) PROVE OneBarrier'
  <2>1. CASE BarrierBegin(u) \/ BarrierEnd(u)
    BY <2>1 DEF BarrierBegin, BarrierEnd, OneBarrier, TypeOK
  <2>2. CASE SynchroRecv(u) \/ FlushBegin(u) \/ FlushEnd(u)
                \/ \E str \in Asking : SynchroSend(u, str)
    BY <2>2 DEF SynchroSend, SynchroRecv, FlushBegin, FlushEnd, OneBarrier, TypeOK, barVars
  <2>3. CASE (\E str \in Asking, d \in Data : Enqueue(u, str, d))
               \/ (\E str \in Str \ Asking : EnqueueNoreply(u, str))
    BY <1>1, <2>3 DEF Enqueue, EnqueueNoreply, barVars
  <2> QED
    BY <1>2, <2>1, <2>2, <2>3 DEF UserNext
<1>3. ASSUME NEW w \in Worker, WorkerNext(w) PROVE OneBarrier'
  BY <1>1, <1>3 DEF WorkerNext, WorkerTake, WorkerSend, WorkerRecv, CallbackEnqueue,
    CallbackDone, WorkerSendBlock, barVars
<1>4. CASE BarrierDrained
  BY <1>4 DEF BarrierDrained, OneBarrier
<1>5. CASE ServerNext
  BY <1>1, <1>5 DEF ServerNext, ServerExec, ServerBarrier, barVars
<1>6. CASE UNCHANGED vars
  BY <1>1, <1>6 DEF vars, barVars
<1> QED
  BY <1>2, <1>3, <1>4, <1>5, <1>6 DEF Next

\* A new message is the only one that an insertion adds, and it does add it
\* unless the same string waits already.
LEMMA InsertLive ==
  ASSUME NEW str, NEW data, NEW nr, Insert(NewMsg(str, data, nr)),
         UNCHANGED <<workVars, wire>>
  PROVE  /\ \A m \in Live' : m \in Live \/ m = NewMsg(str, data, nr)
         /\ \A m \in Pending' : m \in Pending \/ m = NewMsg(str, data, nr)
         /\ \A m \in Buffered' : m \in Buffered \/ m = NewMsg(str, data, nr)
         /\ msgq \subseteq msgq' /\ Buffered \subseteq Buffered'
         /\ \E m \in msgq' : m.str = str
         /\ Pending \subseteq Pending'
         /\ (\A m \in msgq : m.str # str) => NewMsg(str, data, nr) \in Pending'
<1> DEFINE n == NewMsg(str, data, nr)
<1>1. n.seq = 0 /\ n.str = str
  BY DEF NewMsg, Request, GetsSequence, CompareLen, LiteralLen
<1>2. msgq' = msgq \/ msgq' = msgq \cup {n}
  BY DEF Insert
<1>3. (\A m \in msgq : m.str # str) => msgq' = msgq \cup {n}
  BY <1>1 DEF Insert, SameMsg
<1>4. \E m \in msgq' : m.str = str
  <2>1. CASE \E m \in msgq : SameMsg(n, m)
    BY <1>1, <2>1 DEF Insert, SameMsg
  <2>2. CASE ~\E m \in msgq : SameMsg(n, m)
    BY <1>1, <2>2 DEF Insert
  <2> QED
    BY <2>1, <2>2
<1> HIDE DEF n
<1>5. UNCHANGED <<wpc, hand, Sent>>
  BY DEF workVars, Sent
<1> QED
  BY <1>2, <1>3, <1>4, <1>5 DEF Live, Pending, Buffered, n

\* Steps that make no message and run none.
LEMMA MoveLive ==
  ASSUME IInv, Moves
  PROVE  Live' \subseteq Live /\ Pending' = Pending /\ Buffered' \subseteq Buffered
<1>1. Buffered' \subseteq Buffered
  <2>1. ASSUME UNCHANGED <<msgq, workVars>> PROVE Buffered' \subseteq Buffered
    BY <2>1 DEF Buffered, workVars
  <2>2. ASSUME NEW w \in Worker, NEW m \in msgq, WorkerTake(w, m)
        PROVE  Buffered' \subseteq Buffered
    BY <2>2 DEF WorkerTake, Buffered, IInv, TypeOK
  <2>3. ASSUME NEW w \in Worker, WorkerSend(w) \/ WorkerRecv(w) \/ CallbackDone(w)
        PROVE  Buffered' \subseteq Buffered
    <3>1. /\ msgq' = msgq /\ wpc[w] # "idle" /\ (wpc'[w] = "idle" \/ hand'[w] = hand[w])
          /\ \A v \in Worker \ {w} : wpc'[v] = wpc[v] /\ hand'[v] = hand[v]
      BY <2>3 DEF WorkerSend, WorkerRecv, CallbackDone, WorkerIdle, IInv, TypeOK, bufVars
    <3> QED
      BY <3>1 DEF Buffered
  <2>4. CASE \/ \E u \in User : \/ \E str \in Asking : SynchroSend(u, str)
                                \/ SynchroRecv(u) \/ FlushBegin(u) \/ FlushEnd(u)
                                \/ BarrierBegin(u) \/ BarrierEnd(u)
             \/ \E w \in Worker : WorkerSendBlock(w)
             \/ BarrierDrained
             \/ \E k \in 1..bstart : ServerBarrier(k)
    BY <2>1, <2>4 DEF SynchroSend, SynchroRecv, FlushBegin, FlushEnd, BarrierBegin,
      BarrierEnd, WorkerSendBlock, BarrierDrained, ServerBarrier, bufVars
  <2> QED
    BY <2>2, <2>3, <2>4 DEF Moves
<1> QED
  BY <1>1, MovePending DEF Live

\* The server runs a message.
LEMMA ExecLive ==
  ASSUME IInv, NEW t \in Thread, NEW r, ServerExec(t, r)
  PROVE  Live' \subseteq Live /\ Pending' \subseteq Pending /\ Buffered' = Buffered
<1>1. Pending' \subseteq Pending
  BY ExecUser, ExecMessages
<1>2. Buffered' = Buffered
  BY DEF ServerExec, Buffered, bufVars, workVars
<1> QED
  BY <1>1, <1>2 DEF Live

\* What is live is a message.
LEMMA LiveType ==
  ASSUME IInv, NEW m \in Live
  PROVE  m \in Msg
<1>1. CASE m \in Pending
  BY <1>1, PendingWindow
<1>2. CASE m \in Buffered
  BY <1>2 DEF Buffered, IInv, TypeOK
<1> QED
  BY <1>1, <1>2 DEF Live

\* Messages stay younger than the latest barrier to begin.
LEMMA StampedStep == IInv /\ Stamped /\ [Next]_vars => Stamped'
<1> SUFFICES ASSUME IInv, Stamped, [Next]_vars, NEW m \in Live'
             PROVE  m.hi <= bstart'
  BY DEF Stamped
<1>1. bstart \in Nat /\ (bstart' = bstart \/ bstart' = bstart + 1)
  BY DEF IInv, TypeOK, Next, UserNext, WorkerNext, ServerNext, Enqueue, EnqueueNoreply,
    SynchroSend, SynchroRecv, FlushBegin, FlushEnd, BarrierBegin, BarrierEnd, WorkerTake,
    WorkerSend, WorkerRecv, CallbackEnqueue, CallbackDone, WorkerSendBlock,
    BarrierDrained, ServerExec, ServerBarrier, barVars, vars
<1>2. m \in Live \/ m.hi = bstart
  <2>1. ASSUME NEW str, NEW data, NEW nr, Insert(NewMsg(str, data, nr)),
               UNCHANGED <<workVars, wire>>
        PROVE  m \in Live \/ m.hi = bstart
    <3>1. NewMsg(str, data, nr).hi = bstart
      BY DEF NewMsg, Request
    <3> QED
      BY <2>1, <3>1, InsertLive
  <2>2. CASE Moves
    BY <2>2, MoveLive
  <2>3. CASE \E t \in Thread, r \in Answer : ServerExec(t, r)
    BY <2>3, ExecLive
  <2>4. CASE UNCHANGED vars
    BY <2>4 DEF vars, Live, Pending, Sent, Buffered, bufVars, workVars, sockVars
  <2>5. ASSUME NEW u \in User, NEW str, NEW d, Enqueue(u, str, d)
        PROVE  m \in Live \/ m.hi = bstart
    BY <2>1, <2>5 DEF Enqueue, sockVars
  <2>6. ASSUME NEW u \in User, NEW str, EnqueueNoreply(u, str)
        PROVE  m \in Live \/ m.hi = bstart
    BY <2>1, <2>6 DEF EnqueueNoreply, sockVars
  <2>7. ASSUME NEW w \in Worker, NEW str, NEW d, CallbackEnqueue(w, str, d)
        PROVE  m \in Live \/ m.hi = bstart
    BY <2>1, <2>7 DEF CallbackEnqueue, sockVars
  <2> QED
    BY <2>2, <2>3, <2>4, <2>5, <2>6, <2>7 DEF Next, UserNext, WorkerNext, ServerNext, Moves
<1>3. CASE m \in Live
  <2>1. m \in Msg /\ m.hi <= bstart
    BY <1>3, LiveType DEF Stamped
  <2> QED
    BY <1>1, <2>1 DEF Msg
<1> QED
  BY <1>1, <1>2, <1>3

\* The invariant of the channel that its callers build on.
LEMMA CallInvStep == CallInv /\ [Next]_vars => CallInv'
BY NextIInv, ReplyStep, HeldStep, OneBarrierStep, StampedStep DEF CallInv, IInv

\* It holds in the beginning.
LEMMA CallInvInit == Init => CallInv
<1> SUFFICES ASSUME Init PROVE CallInv
  OBVIOUS
<1>1. ReplyInv /\ Held /\ OneBarrier
  BY ThreadAssumption
     DEF Init, ReplyInv, Labels, Conversation, Quiet, ReplyMatches, Thread, Held, OneBarrier
<1>2. Live = {}
  <2>1. Sent = {}
    <3>1. \A w \in Worker : wire[w] = <<>>
      BY DEF Init, Thread
    <3> QED
      BY <3>1, InSent
  <2> QED
    BY <2>1 DEF Init, Live, Pending, Buffered
<1> QED
  BY <1>1, <1>2, InitIInv DEF CallInv, Stamped

\* Where the pending messages are, in every state.
LEMMA PendingAll == \A x : IInv /\ x \in Pending => x \in Msg /\ sdone <= x.hi
BY PendingWindow

\* The same, one step later.
LEMMA WindowNext ==
  ASSUME IInv', NEW m \in Pending'
  PROVE  m \in Msg /\ sdone' <= m.hi
<1>1. (\A x : IInv /\ x \in Pending => x \in Msg /\ sdone <= x.hi)'
  BY PendingAll, PTL
<1> QED
  BY <1>1

-----------------------------------------------------------------------------
(***************************************************************************)
(* Fencing a message off: what remains of the messages made before.        *)
(***************************************************************************)
\* A question that is yet to be run is with a worker.
LEMMA AsksAreHeld ==
  ASSUME CallInv, NEW m \in Pending, m.str \in Asking
  PROVE  m \in Buffered
<1>1. CASE m \notin Sent
  BY <1>1 DEF Pending, Buffered
<1>2. CASE m \in Sent
  <2>1. PICK w \in Worker : \E i \in DOMAIN wire[w] : m = wire[w][i] /\ m.bar = 0
    BY <1>2, InSent
  <2>2. PICK i \in DOMAIN wire[w] : m = wire[w][i] /\ m.bar = 0
    BY <2>1
  <2>3. Question(wire[w][i])
    BY <2>2 DEF Question
  <2>4. wpc[w] = "recv" /\ hand[w] = m
    BY <2>2, <2>3 DEF CallInv, ReplyInv, Conversation, Quiet, Held
  <2> QED
    BY <2>4 DEF Buffered
<1> QED
  BY <1>1, <1>2

\* When barrier() ends, what was to come has come.
LEMMA ComingEnds ==
  ASSUME CallInv, NEW u \in User, NEW str \in Asking, NEW S, Coming(u, str, S),
         upc[u] = "barrier"
  PROVE  phase # "fence"
<1>1. PICK c \in Pending : c.str = str /\ c.hi < bstart
  BY DEF Coming
<1>2. c \in Buffered
  BY <1>1, AsksAreHeld
<1>3. c \in Msg
  BY <1>1, PendingWindow DEF CallInv
<1> QED
  BY <1>1, <1>2, <1>3 DEF CallInv, IInv, TypeOK, BufferWindow, Msg

\* Steps that run no message, and add none but those in S.
LEMMA ComingStays ==
  ASSUME CallInv, NEW u \in User, NEW str, NEW S, Coming(u, str, S),
         \A m \in Pending' : m \in Pending \/ m.str \in S,
         Pending \subseteq Pending',
         \/ UNCHANGED bstart /\ (upc'[u] = "barrier" => upc[u] = "barrier")
         \/ bstart' = bstart + 1
  PROVE  Coming(u, str, S)'
<1>1. PICK c \in Pending : /\ c.str = str /\ c.hi <= bstart
                           /\ upc[u] = "barrier" => c.hi < bstart
                           /\ \A m \in Pending : m = c \/ (m.hi >= c.lo => m.str \in S)
  BY DEF Coming
<1>2. c \in Msg /\ bstart \in Nat
  BY <1>1, PendingWindow DEF CallInv, IInv, TypeOK
<1>3. c.hi <= bstart' /\ (upc'[u] = "barrier" => c.hi < bstart')
  BY <1>1, <1>2 DEF Msg
<1> QED
  BY <1>1, <1>3 DEF Coming

\* The server runs a message: if it is the one that was to come, only those
\* in S are left.
LEMMA ComingRuns ==
  ASSUME CallInv, CallInv', NEW u \in User, NEW str, NEW S, Coming(u, str, S),
         NEW t \in Thread, NEW r, ServerExec(t, r)
  PROVE  \/ Coming(u, str, S)'
         \/ t \in Worker /\ Head(wire[t]).str = str /\ OnlyLeft(S)'
<1>1. PICK c \in Pending : /\ c.str = str /\ c.hi <= bstart
                           /\ upc[u] = "barrier" => c.hi < bstart
                           /\ \A m \in Pending : m = c \/ (m.hi >= c.lo => m.str \in S)
  BY DEF Coming
<1>2. UNCHANGED <<bstart, upc, sdone>>
  BY DEF ServerExec, barVars
<1>3. CASE c \in Pending'
  <2>1. Pending' \subseteq Pending
    BY ExecUser, ExecMessages DEF CallInv
  <2> QED
    BY <1>1, <1>2, <1>3, <2>1 DEF Coming
<1>4. CASE c \notin Pending'
  <2>1. t \in Worker
    BY <1>1, <1>4, ExecUser DEF CallInv
  <2>2. /\ c = Head(wire[t]) /\ c \in Msg /\ c.lo <= sdone
        /\ Pending' \subseteq Pending
    BY <1>1, <1>4, <2>1, ExecMessages DEF CallInv
  <2>3. ASSUME NEW m \in Pending' PROVE m.str \in S
    <3>1. m \in Msg /\ sdone' <= m.hi
      <4>1. IInv'
        BY DEF CallInv
      <4> QED
        BY <2>3, <4>1, WindowNext
    <3>2. m.hi >= c.lo
      BY <1>2, <2>2, <3>1, SMTT(30) DEF Msg, CallInv, IInv, TypeOK
    <3> QED
      BY <1>1, <1>4, <2>2, <2>3, <3>2
  <2> QED
    BY <1>1, <2>1, <2>2, <2>3 DEF OnlyLeft
<1> QED
  BY <1>3, <1>4

\* Thread u makes the message that is to come, where everything made since
\* the last barrier to return is in S.
LEMMA ComingBegins ==
  ASSUME CallInv, NEW u \in User, upc[u] = "ready", NEW S, Behind(bret, S),
         NEW str, str \notin S, NEW data, NEW nr, Insert(NewMsg(str, data, nr)),
         UNCHANGED <<workVars, upc, wire, barVars>>
  PROVE  Coming(u, str, S)'
<1> DEFINE n == NewMsg(str, data, nr)
<1>1. n.str = str /\ n.lo = bret /\ n.hi = bstart
  BY DEF NewMsg, Request
<1>2. ASSUME NEW m \in msgq PROVE m.str # str
  <2>1. m \in Buffered /\ m \in Live /\ m \in Msg
    BY DEF Buffered, Live, CallInv, IInv, TypeOK
  <2>2. m.hi >= bret
    BY <2>1 DEF CallInv, IInv, TypeOK, BufferWindow, Msg
  <2> QED
    BY <2>1, <2>2 DEF Behind
<1>3. n \in Pending' /\ \A m \in Live' : m \in Live \/ m = n
  BY <1>2, InsertLive
<1>4. \A m \in Pending' : m = n \/ (m.hi >= n.lo => m.str \in S)
  BY <1>1, <1>3 DEF Behind, Live
<1>5. bstart \in Nat /\ UNCHANGED <<bstart, upc>>
  BY DEF CallInv, IInv, TypeOK, barVars
<1> QED
  BY <1>1, <1>3, <1>4, <1>5 DEF Coming, n

=============================================================================
