----------------------------- MODULE CogChannel -----------------------------
(***************************************************************************)
(* The communications channel of the production backend, CogChannel: a     *)
(* de-duplicating message buffer, NTHREADS worker threads that empty it,   *)
(* one socket per thread, and the CogServer at the other end.              *)
(*                                                                         *)
(* Two parts live outside the repository and are modelled by the use this  *)
(* code makes of them: the buffer (opencog/util/async_buffer.h) and the    *)
(* CogServer (one handler per socket, which runs the messages of that      *)
(* socket in order, and holds a socket at a cog-barrier until N sockets    *)
(* have arrived there).  The channel is taken to be open; opening and      *)
(* closing it belong to the storage node.                                  *)
(***************************************************************************)
EXTENDS Naturals, Sequences, FiniteSets

CONSTANTS
  Worker,       \* the threads of _msg_buffer; there are NTHREADS of them
  User,         \* the threads that call into the channel
  Str,          \* message strings
  Asking,       \* the strings the CogServer answers
  Listing,      \* those whose callback enqueues more (decode_atom_list)
  FollowUp,     \* the strings that such a callback enqueues
  Update,       \* the strings that start with "(cog-update-value!"
  Data,         \* what a message carries for its callback (struct Pkt)
  NoData,       \* the empty packet
  Answer,       \* what the server may answer
  NoMsg,        \* a worker that holds no message
  SockBuf,      \* bound: messages in a socket before send() blocks
  MaxBarriers   \* bound: calls of barrier()

ASSUME ThreadAssumption ==
  /\ IsFiniteSet(Worker)
  /\ Worker # {}
  /\ Worker \cap User = {}

ASSUME MessageAssumption ==
  /\ Asking \subseteq Str
  /\ Listing \subseteq Asking
  /\ FollowUp \subseteq Asking \ Listing
  /\ Update \subseteq Str
  /\ NoData \in Data

ASSUME BoundAssumption == SockBuf \in Nat \ {0} /\ MaxBarriers \in Nat

Thread == Worker \cup User

\* A barrier message that asks for one thread too few.
NTHREADSLess == Cardinality(Worker) - 1

\* The number of worker threads, and of sockets that a barrier waits for.
NTHREADS == Cardinality(Worker)

VARIABLES
  msgq,      \* _msg_buffer: the messages that wait for a worker
  seqctr,    \* Msg::_sequence_counter
  wpc,       \* where each worker is in reply_handler
  hand,      \* the message each worker is running
  upc,       \* where each user thread is in a call
  wire,      \* per socket: sent, and not yet run by the server
  back,      \* per socket: replies not yet received
  got,       \* the reply that do_recv has returned to a thread
  phase,     \* the barrier in progress: none, drain or fence
  left,      \* the workers that still have to send the barrier message
  bstart,    \* barriers begun                             (history)
  bret,      \* barriers that have returned to the caller  (history)
  sdone,     \* the last barrier the server completed      (history)
  exq,       \* latest stamp run for a worker's socket     (history)
  exu        \* latest stamp run for a user's socket       (history)

bufVars  == <<msgq, seqctr>>
workVars == <<wpc, hand>>
sockVars == <<wire, back, got>>
barVars  == <<phase, left, bstart, bret>>
srvVars  == <<sdone, exq, exu>>
vars == <<bufVars, workVars, upc, sockVars, barVars, srvVars>>

-----------------------------------------------------------------------------
(***************************************************************************)
(* Messages.  lo and hi are history: how many barriers had returned, and   *)
(* how many had begun, when the message was made.                          *)
(***************************************************************************)
Msg == [bar: {0}, str: Str, seq: Nat, noreply: BOOLEAN, data: Data,
        lo: Nat, hi: Nat]

\* The message "(cog-barrier NTHREADS id)"; the id is taken to be unique.
Block(k) == [bar |-> k]

Item == Msg \cup [bar: Nat \ {0}]

Reply == [to: Str, val: Answer]

\* str.compare(0, 19, "(cog-update-value!") compares the first 19 characters
\* of a longer str with a literal that has 18.
CompareLen == 19
LiteralLen == 18
GetsSequence(str) == str \in Update /\ CompareLen = LiteralLen

Request(str, seq, nr, data) ==
  [bar |-> 0, str |-> str, seq |-> seq, noreply |-> nr, data |-> data,
   lo |-> bret, hi |-> bstart]

\* The constructor of Msg.
NewMsg(str, data, nr) ==
  Request(str, IF GetsSequence(str) THEN seqctr + 1 ELSE 0, nr, data)

\* Neither of m < n and n < m, for the operator< of Msg.
SameMsg(m, n) ==
  IF m.seq = 0 /\ n.seq = 0 THEN m.str = n.str ELSE m.seq = n.seq

\* _msg_buffer.insert: a set, so an equal message is dropped.
Insert(m) ==
  /\ msgq' = IF \E n \in msgq : SameMsg(m, n) THEN msgq ELSE msgq \cup {m}
  /\ seqctr' = IF m.seq = 0 THEN seqctr ELSE m.seq

\* A barrier that waits for the workers and forgets the messages in the queue.
IdleOnly == \A w \in Worker : wpc[w] = "idle"

\* What barrier() and flush() of the buffer wait for.
Drained == msgq = {} /\ \A w \in Worker : wpc[w] = "idle"

-----------------------------------------------------------------------------
Init ==
  /\ msgq = {} /\ seqctr = 0
  /\ wpc = [w \in Worker |-> "idle"]
  /\ hand = [w \in Worker |-> NoMsg]
  /\ upc = [u \in User |-> "ready"]
  /\ wire = [t \in Thread |-> <<>>]
  /\ back = [t \in Thread |-> <<>>]
  /\ got = [t \in Thread |-> NoMsg]
  /\ phase = "none" /\ left = {}
  /\ bstart = 0 /\ bret = 0
  /\ sdone = 0 /\ exq = 0 /\ exu = 0

(***************************************************************************)
(* Calls of the user threads.                                              *)
(***************************************************************************)
Enqueue(u, str, data) ==
  /\ upc[u] = "ready"
  /\ Insert(NewMsg(str, data, FALSE))
  /\ UNCHANGED <<workVars, upc, sockVars, barVars, srvVars>>

EnqueueNoreply(u, str) ==
  /\ upc[u] = "ready"
  /\ Insert(NewMsg(str, NoData, TRUE))
  /\ UNCHANGED <<workVars, upc, sockVars, barVars, srvVars>>

\* A socket that is one static member and not thread_local: the last thread
\* to connect would set it for all.
SharedSock(t) == CHOOSE w \in Worker : TRUE

\* static thread_local struct tlso s: the socket of a thread is its own.
Sock(t) == t

\* do_send: send() blocks while the socket is full.
DoSend(t, item) ==
  /\ Len(wire[Sock(t)]) < SockBuf
  /\ wire' = [wire EXCEPT ![Sock(t)] = Append(@, item)]
  /\ UNCHANGED <<back, got>>

\* do_recv: the reply to the oldest unanswered request of this socket.
DoRecv(t) ==
  /\ back[Sock(t)] # <<>>
  /\ got' = [got EXCEPT ![t] = Head(back[Sock(t)])]
  /\ back' = [back EXCEPT ![Sock(t)] = Tail(@)]
  /\ UNCHANGED wire

\* synchro runs in the calling thread, on that thread's own socket.
SynchroSend(u, str) ==
  /\ upc[u] = "ready"
  /\ DoSend(u, Request(str, 0, FALSE, NoData))
  /\ upc' = [upc EXCEPT ![u] = "ask"]
  /\ UNCHANGED <<bufVars, workVars, barVars, srvVars>>

SynchroRecv(u) ==
  /\ upc[u] = "ask"
  /\ DoRecv(u)
  /\ upc' = [upc EXCEPT ![u] = "ready"]
  /\ UNCHANGED <<bufVars, workVars, barVars, srvVars>>

\* flush() waits for the buffer to empty, and sends nothing.
FlushBegin(u) ==
  /\ upc[u] = "ready"
  /\ upc' = [upc EXCEPT ![u] = "flush"]
  /\ UNCHANGED <<bufVars, workVars, sockVars, barVars, srvVars>>

FlushEnd(u) ==
  /\ upc[u] = "flush"
  /\ Drained
  /\ upc' = [upc EXCEPT ![u] = "ready"]
  /\ UNCHANGED <<bufVars, workVars, sockVars, barVars, srvVars>>

\* barrier(): the buffer runs one barrier at a time.
BarrierBegin(u) ==
  /\ upc[u] = "ready"
  /\ phase = "none"
  /\ bstart < MaxBarriers
  /\ upc' = [upc EXCEPT ![u] = "barrier"]
  /\ phase' = "drain"
  /\ bstart' = bstart + 1
  /\ UNCHANGED <<bufVars, workVars, sockVars, left, bret, srvVars>>

\* Everything inserted so far has been run: hand the block to every worker.
BarrierDrained ==
  /\ phase = "drain"
  /\ Drained
  /\ phase' = "fence"
  /\ left' = Worker
  /\ UNCHANGED <<bufVars, workVars, upc, sockVars, bstart, bret, srvVars>>

BarrierEnd(u) ==
  /\ upc[u] = "barrier"
  /\ phase = "fence"
  /\ left = {}
  /\ upc' = [upc EXCEPT ![u] = "ready"]
  /\ phase' = "none"
  /\ bret' = bstart
  /\ UNCHANGED <<bufVars, workVars, sockVars, left, bstart, srvVars>>

(***************************************************************************)
(* The worker threads.                                                     *)
(***************************************************************************)
\* A buffer that hands out a message and does not take it out.
WorkerTakeKeeps(w, m) ==
  /\ wpc[w] = "idle"
  /\ m \in msgq
  /\ wpc' = [wpc EXCEPT ![w] = "send"]
  /\ hand' = [hand EXCEPT ![w] = m]
  /\ UNCHANGED <<bufVars, upc, sockVars, barVars, srvVars>>

\* The buffer hands out some waiting message: its order is that of strings.
WorkerTake(w, m) ==
  /\ wpc[w] = "idle"
  /\ m \in msgq
  /\ msgq' = msgq \ {m}
  /\ wpc' = [wpc EXCEPT ![w] = "send"]
  /\ hand' = [hand EXCEPT ![w] = m]
  /\ UNCHANGED <<seqctr, upc, sockVars, barVars, srvVars>>

WorkerIdle(w) ==
  /\ wpc' = [wpc EXCEPT ![w] = "idle"]
  /\ hand' = [hand EXCEPT ![w] = NoMsg]

\* The message is given up once it is sent, before its reply is in.
WorkerSendForgets(w) ==
  /\ wpc[w] = "send"
  /\ DoSend(w, hand[w])
  /\ wpc' = [wpc EXCEPT ![w] = IF hand[w].noreply THEN "idle" ELSE "recv"]
  /\ hand' = [hand EXCEPT ![w] = NoMsg]
  /\ UNCHANGED <<bufVars, upc, barVars, srvVars>>

\* The worker waits for a reply to every message, the noreply ones too.
WorkerSendWaits(w) ==
  /\ wpc[w] = "send"
  /\ DoSend(w, hand[w])
  /\ wpc' = [wpc EXCEPT ![w] = "recv"]
  /\ UNCHANGED <<hand, bufVars, upc, barVars, srvVars>>

\* reply_handler: send; a message without reply is finished then.
WorkerSend(w) ==
  /\ wpc[w] = "send"
  /\ DoSend(w, hand[w])
  /\ IF hand[w].noreply
     THEN WorkerIdle(w)
     ELSE wpc' = [wpc EXCEPT ![w] = "recv"] /\ UNCHANGED hand
  /\ UNCHANGED <<bufVars, upc, barVars, srvVars>>

WorkerRecv(w) ==
  /\ wpc[w] = "recv"
  /\ DoRecv(w)
  /\ wpc' = [wpc EXCEPT ![w] = "callback"]
  /\ UNCHANGED <<bufVars, hand, upc, barVars, srvVars>>

\* The callback may put more messages in the buffer before it is done.
CallbackEnqueue(w, str, data) ==
  /\ wpc[w] = "callback"
  /\ hand[w].str \in Listing
  /\ str \in FollowUp
  /\ Insert(NewMsg(str, data, FALSE))
  /\ UNCHANGED <<workVars, upc, sockVars, barVars, srvVars>>

CallbackDone(w) ==
  /\ wpc[w] = "callback"
  /\ WorkerIdle(w)
  /\ got' = [got EXCEPT ![w] = NoMsg]
  /\ UNCHANGED <<bufVars, upc, wire, back, barVars, srvVars>>

\* reply_handler on the barrier's block, which has no reply.
WorkerSendBlock(w) ==
  /\ phase = "fence"
  /\ w \in left
  /\ wpc[w] = "idle"
  /\ DoSend(w, Block(bstart))
  /\ left' = left \ {w}
  /\ UNCHANGED <<bufVars, workVars, upc, phase, bstart, bret, srvVars>>

(***************************************************************************)
(* The CogServer.                                                          *)
(***************************************************************************)
Later(a, b) == IF a < b THEN b ELSE a

\* The handler of socket t runs the next message and answers r if asked.
ServerExec(t, r) ==
  /\ wire[t] # <<>>
  /\ LET m == Head(wire[t])
     IN /\ m.bar = 0
        /\ back' = IF m.str \in Asking
                   THEN [back EXCEPT ![t] = Append(@, [to |-> m.str, val |-> r])]
                   ELSE back
        /\ exq' = IF t \in Worker THEN Later(exq, m.lo) ELSE exq
        /\ exu' = IF t \in Worker THEN exu ELSE Later(exu, m.lo)
  /\ wire' = [wire EXCEPT ![t] = Tail(@)]
  /\ UNCHANGED <<bufVars, workVars, upc, got, barVars, sdone>>

AtBarrier(k) == {t \in Thread : wire[t] # <<>> /\ Head(wire[t]).bar = k}

\* cog-barrier: the sockets that wait at k move on once NTHREADS are there.
ServerBarrier(k) ==
  /\ Cardinality(AtBarrier(k)) = NTHREADS
  /\ wire' = [t \in Thread |->
                IF t \in AtBarrier(k) THEN Tail(wire[t]) ELSE wire[t]]
  /\ sdone' = k
  /\ UNCHANGED <<bufVars, workVars, upc, back, got, barVars, exq, exu>>

-----------------------------------------------------------------------------
UserNext(u) ==
  \/ \E str \in Asking, d \in Data : Enqueue(u, str, d)
  \/ \E str \in Str \ Asking : EnqueueNoreply(u, str)
  \/ \E str \in Asking : SynchroSend(u, str)
  \/ SynchroRecv(u)
  \/ FlushBegin(u)
  \/ FlushEnd(u)
  \/ BarrierBegin(u)
  \/ BarrierEnd(u)

WorkerNext(w) ==
  \/ \E m \in msgq : WorkerTake(w, m)
  \/ WorkerSend(w)
  \/ WorkerRecv(w)
  \/ \E str \in FollowUp, d \in Data : CallbackEnqueue(w, str, d)
  \/ CallbackDone(w)
  \/ WorkerSendBlock(w)

ServerNext ==
  \/ \E t \in Thread, r \in Answer : ServerExec(t, r)
  \/ \E k \in 1..bstart : ServerBarrier(k)

Next ==
  \/ \E u \in User : UserNext(u)
  \/ \E w \in Worker : WorkerNext(w)
  \/ BarrierDrained
  \/ ServerNext

Spec == Init /\ [][Next]_vars

\* The threads of the buffer and of the server run; the callers may stop.
Fairness ==
  /\ \A w \in Worker :
       /\ WF_vars(\E m \in msgq : WorkerTake(w, m))
       /\ WF_vars(WorkerSend(w) \/ WorkerRecv(w) \/ CallbackDone(w))
       /\ WF_vars(WorkerSendBlock(w))
  /\ WF_vars(BarrierDrained)
  /\ \A u \in User : WF_vars(SynchroRecv(u) \/ FlushEnd(u) \/ BarrierEnd(u))
  /\ \A t \in Thread : WF_vars(\E r \in Answer : ServerExec(t, r))
  /\ WF_vars(\E k \in 1..bstart : ServerBarrier(k))

FairSpec == Spec /\ Fairness

-----------------------------------------------------------------------------
(***************************************************************************)
(* Properties.                                                             *)
(***************************************************************************)
TypeOK ==
  /\ msgq \subseteq Msg
  /\ seqctr \in Nat
  /\ wpc \in [Worker -> {"idle", "send", "recv", "callback"}]
  /\ hand \in [Worker -> Msg \cup {NoMsg}]
  /\ \A w \in Worker : wpc[w] # "idle" => hand[w] \in Msg
  /\ upc \in [User -> {"ready", "ask", "flush", "barrier"}]
  /\ wire \in [Thread -> Seq(Item)]
  /\ back \in [Thread -> Seq(Reply)]
  /\ got \in [Thread -> Reply \cup {NoMsg}]
  /\ phase \in {"none", "drain", "fence"}
  /\ left \subseteq Worker
  /\ bstart \in Nat /\ bret \in Nat
  /\ sdone \in Nat /\ exq \in Nat /\ exu \in Nat

\* The messages that are in the buffer or with a worker.
Buffered == msgq \cup {hand[w] : w \in {v \in Worker : wpc[v] # "idle"}}

\* The messages sent by workers that the server has not run.
Sent == UNION {{m \in {wire[w][i] : i \in DOMAIN wire[w]} : m.bar = 0} :
                 w \in Worker}

\* Messages that are still to be run by the server.
Pending == msgq \cup {hand[w] : w \in {v \in Worker : wpc[v] = "send"}} \cup Sent

(***************************************************************************)
(* The fence: once the server has run a message enqueued after a barrier   *)
(* returned, no message enqueued before that barrier began is still to be  *)
(* run, whatever workers and sockets the messages took.                    *)
(***************************************************************************)
Fence == \A m \in Pending : exq <= m.hi

(***************************************************************************)
(* barrier() returns only when the callback of every message enqueued      *)
(* before it began has finished, so that its results may be looked at.     *)
(***************************************************************************)
BarrierWaits == \A m \in Buffered : bret <= m.hi

(***************************************************************************)
(* A callback is always given the reply to its own message, although many  *)
(* messages without reply may share the socket.                            *)
(***************************************************************************)
ReplyMatches ==
  \A w \in Worker : wpc[w] = "callback" => got[w].to = hand[w].str

(***************************************************************************)
(* The channel implements a FencedQueue: whatever workers and sockets the  *)
(* messages take, the server runs them in an order that the fences allow.  *)
(***************************************************************************)
Out == {<<m.lo, m.hi>> : m \in Pending}

FQ == INSTANCE FencedQueue WITH
        out <- Out, begun <- bstart, returned <- bret, ran <- exq

FencedSpec == FQ!Spec

(***************************************************************************)
(* Every synchro, flush and barrier returns to its caller, although the    *)
(* workers, the sockets and the server all wait for one another in it.     *)
(***************************************************************************)
CallsReturn == \A u \in User : upc[u] # "ready" ~> upc[u] = "ready"

(***************************************************************************)
(* The fence as the README has it, for all reads and writes: it also       *)
(* covers what a user thread asks through synchro on its own socket.       *)
(***************************************************************************)
FenceForAll == \A m \in Pending : exq <= m.hi /\ exu <= m.hi

=============================================================================
