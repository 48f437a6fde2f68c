-------------------------- MODULE CogConnectProofs --------------------------
(***************************************************************************)
(* The connections of CogConnect, for any number of channels, servers,     *)
(* threads, descriptors, calls and failures.                               *)
(***************************************************************************)
EXTENDS CogConnect, FiniteSetTheorems, WellFoundedInduction, TLAPS

-----------------------------------------------------------------------------
(***************************************************************************)
(* The inductive invariant, in parts.                                      *)
(***************************************************************************)
\* How far a thread is agrees with what it is doing, and for which channel.
Calls ==
  /\ \A t \in Thread :
       /\ op[t] = "none" <=> chan[t] = None
       /\ op[t] = "none" <=> pc[t] \in {"ready", "gone"}
       /\ op[t] = "close" <=> pc[t] = "closing"
       /\ pc[t] \in {"opened", "cleanup"} => op[t] = "open"
  /\ \A u \in User : op[u] # "message" /\ (op[u] # "none" => chan[u] \in used[u])
  /\ \A w \in Worker : /\ op[w] \in {"none", "message"}
                       /\ op[w] = "message" => chan[w] = ChanOf[w]

\* A channel that is being used is open, and nobody else uses one that is
\* being opened or closed: neither a caller nor, at first, a thread of its
\* buffer.
Nodes ==
  /\ \A w \in Worker : pc[w] # "gone" => info[ChanOf[w]]
  /\ \A u \in User : op[u] # "none" => info[chan[u]]
  /\ \A u \in User : op[u] \in {"open", "close"} =>
       \A v \in User \ {u} : chan[v] # chan[u]
  /\ \A u \in User : op[u] = "open" =>
       \A w \in Worker : ChanOf[w] = chan[u] => pc[w] = "gone"

\* A thread has the socket that it needs, and knows which channel opened it.
Hands ==
  \A t \in Thread :
    /\ sockfd[t] # 0 => owner[t] \in NodesOf(t)
    /\ pc[t] \in {"prompt", "recv", "opened"} => sockfd[t] # 0
    /\ pc[t] = "prompt" => owner[t] = chan[t]

\* Without failures every connection works, and leads to the server of the
\* channel that opened it.
Sound ==
  lost = 0 =>
    /\ \A d \in Fd : desc[d] # None => desc[d].live
    /\ \A t \in Thread : sockfd[t] # 0 => desc[sockfd[t]].srv = ServerOf[owner[t]]

\* The servers of the open channels can be reached, as those who opened them
\* have found out.
Reach ==
  lost = 0 /\ ~reused =>
    /\ ~dead
    /\ \A w \in Worker : pc[w] # "gone" => ServerOf[ChanOf[w]] \in up
    /\ \A u \in User : op[u] = "open" /\ sockfd[u] # 0 => ServerOf[chan[u]] \in up

Inv == Types /\ Calls /\ Nodes /\ NoLeak /\ Hands /\ SocketsApart /\ Sound /\ Reach

-----------------------------------------------------------------------------
(***************************************************************************)
(* Facts that several steps need.                                          *)
(***************************************************************************)
\* The system hands out a descriptor that is free.
LEMMA LowestFdFree ==
  ASSUME FreeFd # {}
  PROVE  LowestFd \in FreeFd
<1>1. FreeFd \subseteq Nat
  BY BoundAssumption DEF FreeFd, Fd
<1> DEFINE R == OpToRel(<, Nat)
<1>2. IsWellFoundedOn(R, Nat)
  BY NatLessThanWellFounded
<1>3. R = {r \in Nat \X Nat : r[1] < r[2]}
  BY DEF OpToRel
<1> HIDE DEF R
<1>4. \E d \in FreeFd : \A e \in FreeFd : ~(<<e, d>> \in R)
  BY <1>1, <1>2, WFMin
<1>5. ASSUME NEW d \in Nat, NEW e \in Nat, <<e, d>> \notin R PROVE d <= e
  <2>1. <<e, d>> \in Nat \X Nat /\ <<e, d>>[1] = e /\ <<e, d>>[2] = d
    OBVIOUS
  <2>2. ~(e < d)
    BY <1>3, <1>5, <2>1
  <2> QED
    BY <2>2
<1>6. \E d \in FreeFd : \A e \in FreeFd : d <= e
  BY <1>1, <1>4, <1>5
<1> QED
  BY <1>6 DEF LowestFd

\* What a thread does next, when it throws.
LEMMA ThrowCases ==
  ASSUME NEW t \in Thread, Throw(t), Types
  PROVE  \/ op[t] = "synchro" /\ Finish(t) /\ dead' = dead
         \/ op[t] = "open" /\ Goto(t, "cleanup") /\ dead' = dead
         \/ op[t] = "message" /\ dead' = TRUE /\ UNCHANGED callVars
BY DEF Throw

\* The variables of a call, when it moves on or ends.
LEMMA GotoTypes ==
  ASSUME Types, NEW t \in Thread,
         NEW l \in {"send", "prompt", "recv", "opened", "cleanup", "gone"}, Goto(t, l)
  PROVE  /\ pc' \in [Thread -> {"ready", "send", "prompt", "recv", "opened", "cleanup",
                                "closing", "gone"}]
         /\ pc'[t] = l /\ \A v \in Thread \ {t} : pc'[v] = pc[v]
         /\ UNCHANGED <<op, chan, calls, used, reused>>
BY DEF Types, Goto

LEMMA FinishTypes ==
  ASSUME Types, NEW t \in Thread, Finish(t)
  PROVE  /\ pc' \in [Thread -> {"ready", "send", "prompt", "recv", "opened", "cleanup",
                                "closing", "gone"}]
         /\ op' \in [Thread -> {"none", "open", "synchro", "close", "message"}]
         /\ chan' \in [Thread -> Channel \cup {None}]
         /\ pc'[t] = "ready" /\ op'[t] = "none" /\ chan'[t] = None
         /\ \A v \in Thread \ {t} : pc'[v] = pc[v] /\ op'[v] = op[v] /\ chan'[v] = chan[v]
         /\ UNCHANGED <<calls, used, reused>>
BY DEF Types, Finish

LEMMA BeginTypes ==
  ASSUME Types, NEW t \in Thread, NEW c \in Channel,
         NEW f \in {"open", "synchro", "close", "message"},
         NEW l \in {"send", "closing"}, Begin(t, f, c, l)
  PROVE  /\ pc' \in [Thread -> {"ready", "send", "prompt", "recv", "opened", "cleanup",
                                "closing", "gone"}]
         /\ op' \in [Thread -> {"none", "open", "synchro", "close", "message"}]
         /\ chan' \in [Thread -> Channel \cup {None}]
         /\ pc[t] = "ready" /\ pc'[t] = l /\ op'[t] = f /\ chan'[t] = c
         /\ \A v \in Thread \ {t} : pc'[v] = pc[v] /\ op'[v] = op[v] /\ chan'[v] = chan[v]
BY DEF Types, Begin

LEMMA UserCallTypes ==
  ASSUME Types, NEW u \in User, NEW c \in Channel,
         NEW f \in {"open", "synchro", "close", "message"},
         NEW l \in {"send", "closing"}, UserCall(u, f, c, l)
  PROVE  /\ used' \in [User -> SUBSET Channel]
         /\ used'[u] = used[u] \cup {c} /\ \A v \in User \ {u} : used'[v] = used[v]
         /\ calls' \in 0..MaxCalls
         /\ UNCHANGED <<nsocks, tlsVars, desc, envVars, dead>>
BY BoundAssumption DEF Types, UserCall

\* Closing a descriptor.
LEMMA CloseFdTypes ==
  ASSUME Types, NEW d \in 0..MaxFd, CloseFd(d)
  PROVE  /\ desc' \in [Fd -> Conn \cup {None}]
         /\ d # 0 => d \in Fd /\ desc'[d] = None
         /\ \A e \in Fd \ {d} : desc'[e] = desc[e]
BY BoundAssumption DEF Types, CloseFd, Fd

\* What is sent and received leaves a connection as it is.
LEMMA NextTypes ==
  ASSUME Types, NEW d \in Fd, desc[d] \in Conn, NEW q \in Seq(Thread),
         desc' = [desc EXCEPT ![d].next = q]
  PROVE  /\ desc' \in [Fd -> Conn \cup {None}] /\ desc'[d] \in Conn
         /\ desc'[d].srv = desc[d].srv /\ desc'[d].live = desc[d].live
         /\ \A e \in Fd \ {d} : desc'[e] = desc[e]
<1> DEFINE k == [desc[d] EXCEPT !.next = q]
<1>1. k \in Conn /\ k.srv = desc[d].srv /\ k.live = desc[d].live
  BY DEF Conn
<1>2. desc' = [desc EXCEPT ![d] = k]
  OBVIOUS
<1> HIDE DEF k
<1> QED
  BY <1>1, <1>2 DEF Types

LEMMA LineNextTypes ==
  ASSUME Types, NEW t \in Thread, MySock(t) # 0, Line(t) # None,
         \/ desc' = [desc EXCEPT ![MySock(t)].next = IF Line(t).live THEN Append(@, t) ELSE @]
         \/ Line(t).next # <<>> /\ desc' = [desc EXCEPT ![MySock(t)].next = Tail(@)]
  PROVE  /\ desc' \in [Fd -> Conn \cup {None}]
         /\ \A e \in Fd : /\ desc'[e] = None <=> desc[e] = None
                          /\ desc'[e] # None => /\ desc'[e].srv = desc[e].srv
                                                /\ desc'[e].live = desc[e].live
<1> DEFINE d == MySock(t)
           q == desc[d].next
<1>1. d \in Fd /\ desc[d] # None
  BY BoundAssumption DEF Types, MySock, Tls, Fd, Line
<1>2. desc[d] \in Conn
  BY <1>1 DEF Types
<1>3. q \in Seq(Thread)
  BY <1>2 DEF Conn
<1>4. \E r \in Seq(Thread) : desc' = [desc EXCEPT ![d].next = r]
  <2>1. CASE desc' = [desc EXCEPT ![d].next = IF Line(t).live THEN Append(@, t) ELSE @]
    <3>1. CASE Line(t).live
      <4>1. desc' = [desc EXCEPT ![d].next = Append(q, t)] /\ Append(q, t) \in Seq(Thread)
        BY <1>1, <1>3, <2>1, <3>1
      <4> QED
        BY <4>1
    <3>2. CASE ~Line(t).live
      <4>1. desc' = [desc EXCEPT ![d].next = q]
        BY <1>1, <2>1, <3>2
      <4> QED
        BY <4>1, <1>3
    <3> QED
      BY <3>1, <3>2
  <2>2. CASE Line(t).next # <<>> /\ desc' = [desc EXCEPT ![d].next = Tail(@)]
    <3>1. desc' = [desc EXCEPT ![d].next = Tail(q)] /\ Tail(q) \in Seq(Thread)
      BY <1>1, <1>3, <2>2 DEF Line
    <3> QED
      BY <3>1
  <2> QED
    BY <2>1, <2>2
<1> HIDE DEF d, q
<1>5. None \notin Conn
  BY ThreadAssumption
<1> QED
  BY <1>1, <1>2, <1>4, <1>5, NextTypes, ZenonT(60)

LEMMA SetSockTypes ==
  ASSUME Types, NEW t \in Thread, NEW d \in 0..MaxFd, SetSock(t, d)
  PROVE  /\ sockfd' \in [Thread -> 0..MaxFd]
         /\ sockfd'[t] = d /\ \A v \in Thread \ {t} : sockfd'[v] = sockfd[v]
BY DEF Types, SetSock, Tls

-----------------------------------------------------------------------------
(***************************************************************************)
(* Types.                                                                  *)
(***************************************************************************)
LEMMA InitTypes == Init => Types
<1> SUFFICES ASSUME Init PROVE Types
  OBVIOUS
<1>1. pc \in [Thread -> {"ready", "send", "prompt", "recv", "opened", "cleanup",
                        "closing", "gone"}]
  BY DEF Init
<1>2. /\ calls \in 0..MaxCalls /\ lost \in 0..MaxLost /\ leaked \subseteq Fd
      /\ sockfd \in [Thread -> 0..MaxFd] /\ nsocks \in [Channel -> Int]
  BY BoundAssumption DEF Init
<1>3. info \in [Channel -> BOOLEAN] /\ used \in [User -> SUBSET Channel]
  BY DEF Init
<1>4. /\ owner \in [Thread -> Channel \cup {None}]
      /\ chan \in [Thread -> Channel \cup {None}]
      /\ desc \in [Fd -> Conn \cup {None}]
      /\ op \in [Thread -> {"none", "open", "synchro", "close", "message"}]
      /\ up \subseteq Server /\ dead \in BOOLEAN /\ reused \in BOOLEAN
  BY DEF Init
<1> QED
  BY <1>1, <1>2, <1>3, <1>4 DEF Types

LEMMA TypesStep ==
  ASSUME Types, Calls, [Next]_vars
  PROVE  Types'
<1> USE DEF chanVars, tlsVars, envVars
<1>1. ASSUME NEW u \in User, NEW c \in Channel, Open(u, c) \/ Synchro(u, c) \/ Close(u, c)
      PROVE  Types'
  <2> DEFINE f == IF Open(u, c) THEN "open" ELSE IF Synchro(u, c) THEN "synchro" ELSE "close"
             l == IF Open(u, c) \/ Synchro(u, c) THEN "send" ELSE "closing"
  <2>1. UserCall(u, f, c, l) /\ Begin(u, f, c, l)
    BY <1>1 DEF Open, Synchro, Close, UserCall
  <2>2. info' \in [Channel -> BOOLEAN] /\ reused' \in BOOLEAN
    BY <1>1 DEF Open, Synchro, Close, Types
  <2> HIDE DEF f, l
  <2>3. /\ f \in {"open", "synchro", "close", "message"} /\ l \in {"send", "closing"}
        /\ u \in Thread
    BY DEF f, l, Thread
  <2> QED
    BY <2>1, <2>2, <2>3, BeginTypes, UserCallTypes DEF Types
<1>2. ASSUME NEW u \in User, Opened(u) PROVE Types'
  <2>1. u \in Thread /\ MySock(u) \in 0..MaxFd /\ 0 \in 0..MaxFd
    BY BoundAssumption DEF Types, MySock, Tls, Thread
  <2>2. /\ desc' \in [Fd -> Conn \cup {None}]
        /\ sockfd' \in [Thread -> 0..MaxFd]
    BY <1>2, <2>1, CloseFdTypes, SetSockTypes DEF Opened
  <2> QED
    BY <1>2, <2>2 DEF Opened, Types
<1>3. ASSUME NEW u \in User, OpenFailed(u) \/ Closed(u) PROVE Types'
  <2>1. /\ u \in Thread /\ MySock(u) \in 0..MaxFd /\ 0 \in 0..MaxFd
    BY BoundAssumption DEF Types, MySock, Tls, Thread
  <2>0. info' \in [Channel -> BOOLEAN]
    <3>1. info' = [info EXCEPT ![chan[u]] = FALSE]
      BY <1>3 DEF OpenFailed, Closed
    <3> QED
      BY <3>1 DEF Types
  <2>2. /\ desc' \in [Fd -> Conn \cup {None}]
        /\ sockfd' \in [Thread -> 0..MaxFd]
    BY <1>3, <2>1, CloseFdTypes, SetSockTypes DEF OpenFailed, Closed, Types
  <2>3. Finish(u) /\ UNCHANGED <<nsocks, owner, envVars, dead>>
    BY <1>3 DEF OpenFailed, Closed
  <2> QED
    BY <2>0, <2>1, <2>2, <2>3, FinishTypes DEF Types
<1>4. ASSUME NEW t \in Thread, UserExit(t) \/ WorkerExit(t) PROVE Types'
  <2>1. /\ MySock(t) \in 0..MaxFd /\ 0 \in 0..MaxFd
        /\ owner' \in [Thread -> Channel \cup {None}]
        /\ nsocks' \in [Channel -> Int]
    BY <1>4, BoundAssumption DEF Types, MySock, Tls, EndThread, UserExit, WorkerExit
  <2>2. /\ desc' \in [Fd -> Conn \cup {None}]
        /\ sockfd' \in [Thread -> 0..MaxFd]
    BY <1>4, <2>1, CloseFdTypes, SetSockTypes DEF UserExit, WorkerExit, EndThread
  <2>3. Goto(t, "gone") /\ UNCHANGED <<info, envVars, dead>>
    BY <1>4 DEF UserExit, WorkerExit
  <2> QED
    BY <2>1, <2>2, <2>3, GotoTypes DEF Types
<1>5. ASSUME NEW w \in Worker, Message(w) PROVE Types'
  <2>1. w \in Thread /\ ChanOf[w] \in Channel
    BY ThreadAssumption DEF Thread
  <2> QED
    BY <1>5, <2>1, BeginTypes DEF Types, Message
<1>6. ASSUME NEW t \in Thread, SockStep(t) PROVE Types'
  <2>0. ASSUME Throw(t)
        PROVE  /\ pc' \in [Thread -> {"ready", "send", "prompt", "recv", "opened", "cleanup",
                                      "closing", "gone"}]
               /\ op' \in [Thread -> {"none", "open", "synchro", "close", "message"}]
               /\ chan' \in [Thread -> Channel \cup {None}]
               /\ UNCHANGED <<calls, used, reused>> /\ dead' \in BOOLEAN
    BY <2>0, ThrowCases, GotoTypes, FinishTypes DEF Types, callVars
  <2>1. MySock(t) \in 0..MaxFd
    BY DEF Types, MySock, Tls
  <2>2. CASE OpenSock(t)
    <3>1. LowestFd \in Fd /\ LowestFd \in 0..MaxFd
      BY <2>2, LowestFdFree, BoundAssumption DEF OpenSock, FreeFd, Fd
    <3>2. chan[t] \in Channel
      BY <2>2 DEF OpenSock, NeedsSock, Calls, Types
    <3>3. Connection(ServerOf[chan[t]], <<t>>) \in Conn
      BY <3>2, ThreadAssumption DEF Connection, Conn
    <3>4. desc' \in [Fd -> Conn \cup {None}]
      BY <2>2, <3>1, <3>3 DEF OpenSock, Types
    <3>5. owner' \in [Thread -> Channel \cup {None}]
      BY <2>2, <3>2 DEF OpenSock, Types, Tls
    <3> QED
      BY <2>2, <3>1, <3>4, <3>5, SetSockTypes, GotoTypes DEF OpenSock, Types
  <2>3. CASE OpenSockFails(t)
    BY <2>3, <2>0 DEF OpenSockFails, Types
  <2>4. CASE OpenSockBreaks(t)
    <3>1. LowestFd \in Fd
      BY <2>4, LowestFdFree DEF OpenSockBreaks, FreeFd
    <3>2. chan[t] \in Channel
      BY <2>4 DEF OpenSockBreaks, NeedsSock, Calls, Types
    <3>3. Broken(ServerOf[chan[t]]) \in Conn
      BY <3>2, ThreadAssumption DEF Broken, Conn
    <3>4. desc' \in [Fd -> Conn \cup {None}] /\ lost' \in 0..MaxLost /\ leaked' \subseteq Fd
      BY <2>4, <3>1, <3>3, BoundAssumption DEF OpenSockBreaks, Types
    <3> QED
      BY <2>4, <2>0, <3>4 DEF OpenSockBreaks, Types
  <2>5. CASE DoSend(t)
    <3>2. desc' \in [Fd -> Conn \cup {None}]
      BY <2>5, LineNextTypes DEF DoSend, HasSock
    <3> QED
      BY <2>5, <3>2, GotoTypes DEF DoSend, Types
  <2>6. CASE DoSendFails(t)
    BY <2>6, <2>0 DEF DoSendFails, Types
  <2>7. CASE RecvPrompt(t)
    <3>1. chan[t] \in Channel
      BY <2>7 DEF RecvPrompt, HasSock, Types, Calls
    <3>2. desc' \in [Fd -> Conn \cup {None}]
      BY <2>7, LineNextTypes DEF RecvPrompt, HasSock
    <3>3. nsocks' \in [Channel -> Int]
      BY <2>7, <3>1 DEF RecvPrompt, Types
    <3> QED
      BY <2>7, <3>2, <3>3, GotoTypes DEF RecvPrompt, Types
  <2>8. CASE DoRecv(t)
    <3>2. desc' \in [Fd -> Conn \cup {None}]
      BY <2>8, LineNextTypes DEF DoRecv, HasSock
    <3> QED
      BY <2>8, <3>2, GotoTypes, FinishTypes DEF DoRecv, Types
  <2>9. CASE DoRecvFails(t)
    <3>1. desc' \in [Fd -> Conn \cup {None}]
      BY <2>9, <2>1, CloseFdTypes DEF DoRecvFails, Types
    <3> QED
      BY <2>9, <2>0, <3>1 DEF DoRecvFails, Types
  <2> QED
    BY <1>6, <2>2, <2>3, <2>4, <2>5, <2>6, <2>7, <2>8, <2>9 DEF SockStep
<1>7. ASSUME NEW s \in Server, ServerStop(s) PROVE Types'
  <2>1. Broken(s) \in Conn
    BY DEF Broken, Conn
  <2> QED
    BY <1>7, <2>1, BoundAssumption DEF ServerStop, Types, callVars
<1>8. ASSUME NEW s \in Server, ServerStart(s) PROVE Types'
  BY <1>8 DEF ServerStart, Types, callVars
<1>9. CASE UNCHANGED vars
  BY <1>9 DEF vars, callVars, Types
<1> QED
  BY <1>1, <1>2, <1>3, <1>4, <1>5, <1>6, <1>7, <1>8, <1>9 DEF Next, CallStep, Thread

-----------------------------------------------------------------------------
(***************************************************************************)
(* Calls and nodes: who is doing what, and for which channel.              *)
(***************************************************************************)
LEMMA InitCalls == Init => Calls /\ Nodes
BY ThreadAssumption DEF Init, Calls, Nodes, Thread

\* A call moves on, or a thread ends between calls.
LEMMA GotoCalls ==
  ASSUME Types, Calls, Nodes, NEW t \in Thread, UNCHANGED info, pc[t] # "gone",
         NEW l \in {"send", "prompt", "recv", "opened", "cleanup", "gone"}, Goto(t, l),
         l = "gone" <=> op[t] = "none",
         op[t] # "close",
         l \in {"opened", "cleanup"} => op[t] = "open"
  PROVE  Calls' /\ Nodes'
<1>1. /\ pc'[t] = l /\ \A v \in Thread \ {t} : pc'[v] = pc[v]
      /\ UNCHANGED <<op, chan, used>>
  BY GotoTypes
<1>2. Calls'
  BY <1>1 DEF Calls, Thread
<1>3. Nodes'
  BY <1>1 DEF Nodes, Calls, Thread
<1> QED
  BY <1>2, <1>3

\* A call returns.
LEMMA FinishCalls ==
  ASSUME Types, Calls, Nodes, NEW t \in Thread, op[t] # "none", Finish(t),
         \/ UNCHANGED info
         \/ /\ t \in User /\ op[t] \in {"open", "close"}
            /\ info' = [info EXCEPT ![chan[t]] = FALSE]
            /\ \A w \in Worker : ChanOf[w] = chan[t] => pc[w] = "gone"
  PROVE  Calls' /\ Nodes'
<1>1. /\ pc'[t] = "ready" /\ op'[t] = "none" /\ chan'[t] = None
      /\ \A v \in Thread \ {t} : pc'[v] = pc[v] /\ op'[v] = op[v] /\ chan'[v] = chan[v]
      /\ UNCHANGED used
  BY FinishTypes
<1>2. Calls'
  BY <1>1 DEF Calls, Thread
<1>3. CASE UNCHANGED info
  BY <1>1, <1>2, <1>3, ThreadAssumption DEF Nodes, Calls, Types, Thread
<1>4. CASE ~UNCHANGED info
  <2>1. /\ t \in User /\ op[t] \in {"open", "close"} /\ chan[t] \in Channel
        /\ \A w \in Worker : ChanOf[w] = chan[t] => pc[w] = "gone"
        /\ \A c \in Channel \ {chan[t]} : info'[c] = info[c]
    BY <1>4 DEF Types, Calls
  <2>2. \A w \in Worker : pc'[w] # "gone" => info'[ChanOf[w]]
    BY <1>1, <2>1, ThreadAssumption DEF Nodes, Thread
  <2>3. \A u \in User : op'[u] # "none" => info'[chan'[u]]
    BY <1>1, <2>1 DEF Nodes, Thread, Calls, Types
  <2>4. \A u \in User : op'[u] \in {"open", "close"} =>
          \A v \in User \ {u} : chan'[v] # chan'[u]
    BY <1>1, ThreadAssumption DEF Nodes, Thread, Calls, Types
  <2>5. \A u \in User : op'[u] = "open" =>
          \A w \in Worker : ChanOf[w] = chan'[u] => pc'[w] = "gone"
    BY <1>1, <2>1, ThreadAssumption DEF Nodes, Thread
  <2> QED
    BY <1>2, <2>2, <2>3, <2>4, <2>5 DEF Nodes
<1> QED
  BY <1>2, <1>3, <1>4

\* Nothing changes here, when neither a call nor a channel does.
LEMMA SameCalls ==
  ASSUME Calls, Nodes, UNCHANGED <<info, op, pc, chan, used>>
  PROVE  Calls' /\ Nodes'
BY DEF Calls, Nodes

\* A call begins.
LEMMA UserCallCalls ==
  ASSUME Types, Calls, Nodes, NEW u \in User, NEW c \in Channel,
         Open(u, c) \/ Synchro(u, c) \/ Close(u, c)
  PROVE  Calls' /\ Nodes'
<1> DEFINE f == IF Open(u, c) THEN "open" ELSE IF Synchro(u, c) THEN "synchro" ELSE "close"
           l == IF Open(u, c) \/ Synchro(u, c) THEN "send" ELSE "closing"
<1>1. UserCall(u, f, c, l) /\ Begin(u, f, c, l)
  BY DEF Open, Synchro, Close, UserCall
<1>2. /\ f \in {"open", "synchro", "close"} /\ l \in {"send", "closing"}
      /\ u \in Thread /\ (f = "close" <=> l = "closing")
  BY DEF Thread
<1>5. /\ f = "open" => ~info[c] /\ info' = [info EXCEPT ![c] = TRUE]
      /\ f # "open" => info' = info /\ info[c]
      /\ \A v \in User : chan[v] = c => f = "synchro" /\ op[v] = "synchro"
  BY DEF Open, Synchro, Close, Busy
<1> HIDE DEF f, l
<1>6. info'[c] /\ \A e \in Channel \ {c} : info'[e] = info[e]
  BY <1>5 DEF Types
<1>7. /\ pc'[u] = l /\ op'[u] = f /\ chan'[u] = c /\ pc[u] = "ready"
      /\ \A v \in Thread \ {u} : pc'[v] = pc[v] /\ op'[v] = op[v] /\ chan'[v] = chan[v]
      /\ used'[u] = used[u] \cup {c} /\ \A v \in User \ {u} : used'[v] = used[v]
  BY <1>1, <1>2, BeginTypes, UserCallTypes
<1>8. Calls'
  BY <1>2, <1>7, ThreadAssumption DEF Calls, Thread
<1>9. Nodes'
  <2>1. \A w \in Worker : pc'[w] = pc[w]
    BY <1>7, ThreadAssumption DEF Thread
  <2>2. \A w \in Worker : pc'[w] # "gone" => info'[ChanOf[w]]
    BY <1>6, <2>1, ThreadAssumption DEF Nodes
  <2>3. \A v \in User : op'[v] # "none" => info'[chan'[v]]
    BY <1>6, <1>7 DEF Nodes, Thread, Calls, Types
  <2>4. \A v \in User \ {u} : f # "synchro" => chan'[v] # c
    BY <1>5, <1>7 DEF Thread
  <2>5. \A v \in User \ {u} : op[v] \in {"open", "close"} => chan[v] # c
    BY <1>5
  <2>6. \A v \in User : op'[v] \in {"open", "close"} =>
          \A x \in User \ {v} : chan'[x] # chan'[v]
    BY <1>7, <2>4, <2>5 DEF Nodes, Thread
  <2>7. \A v \in User : op'[v] = "open" =>
          \A w \in Worker : ChanOf[w] = chan'[v] => pc'[w] = "gone"
    BY <1>5, <1>7, <2>1, ThreadAssumption DEF Nodes, Thread
  <2> QED
    BY <2>2, <2>3, <2>6, <2>7 DEF Nodes
<1> QED
  BY <1>8, <1>9

\* The channel is open, and its threads begin.
LEMMA OpenedCalls ==
  ASSUME Types, Calls, Nodes, NEW u \in User, Opened(u)
  PROVE  Calls' /\ Nodes'
<1>1. u \in Thread /\ op[u] = "open" /\ chan[u] \in Channel
  BY DEF Opened, Thread, Calls, Types
<1>2. /\ op'[u] = "none" /\ chan'[u] = None /\ pc'[u] = "ready"
      /\ \A v \in Thread \ {u} : op'[v] = op[v] /\ chan'[v] = chan[v]
      /\ \A v \in User \ {u} : pc'[v] = pc[v]
      /\ \A w \in Worker : pc'[w] = IF ChanOf[w] = chan[u] THEN "ready" ELSE pc[w]
      /\ UNCHANGED <<info, used>>
  BY <1>1, ThreadAssumption DEF Opened, Types, Thread, chanVars
<1>3. \A w \in Worker : ChanOf[w] = chan[u] => pc[w] = "gone" /\ op[w] = "none"
  BY <1>1 DEF Nodes, Calls, Thread
<1>4. Calls'
  <2>1. \A t \in Thread :
          /\ op'[t] = "none" <=> chan'[t] = None
          /\ op'[t] = "none" <=> pc'[t] \in {"ready", "gone"}
          /\ op'[t] = "close" <=> pc'[t] = "closing"
          /\ pc'[t] \in {"opened", "cleanup"} => op'[t] = "open"
    BY <1>2, <1>3, ThreadAssumption DEF Calls, Thread
  <2>2. \A v \in User : op'[v] # "message" /\ (op'[v] # "none" => chan'[v] \in used'[v])
    BY <1>2 DEF Calls, Thread
  <2>3. \A w \in Worker : /\ op'[w] \in {"none", "message"}
                          /\ op'[w] = "message" => chan'[w] = ChanOf[w]
    BY <1>2, ThreadAssumption DEF Calls, Thread
  <2> QED
    BY <2>1, <2>2, <2>3 DEF Calls
<1>5. Nodes'
  <2>1. info[chan[u]]
    BY <1>1 DEF Nodes
  <2>2. \A w \in Worker : pc'[w] # "gone" => info'[ChanOf[w]]
    BY <1>2, <2>1 DEF Nodes
  <2>3. \A v \in User : op'[v] # "none" => info'[chan'[v]]
    BY <1>2 DEF Nodes, Thread
  <2>4. \A v \in User : op'[v] \in {"open", "close"} =>
          \A x \in User \ {v} : chan'[x] # chan'[v]
    BY <1>2, ThreadAssumption DEF Nodes, Thread, Calls, Types
  <2>5. \A v \in User : op'[v] = "open" => v # u /\ chan'[v] # chan[u]
    BY <1>1, <1>2 DEF Nodes, Thread
  <2>6. \A v \in User : op'[v] = "open" =>
          \A w \in Worker : ChanOf[w] = chan'[v] => pc'[w] = "gone"
    BY <1>2, <2>5 DEF Nodes, Thread
  <2> QED
    BY <2>2, <2>3, <2>4, <2>6 DEF Nodes
<1> QED
  BY <1>4, <1>5

\* A thread of a buffer takes a message.
LEMMA MessageCalls ==
  ASSUME Types, Calls, Nodes, NEW w \in Worker, Message(w)
  PROVE  Calls' /\ Nodes'
<1>1. w \in Thread /\ ChanOf[w] \in Channel /\ w \notin User
  BY ThreadAssumption DEF Thread
<1>2. /\ pc'[w] = "send" /\ op'[w] = "message" /\ chan'[w] = ChanOf[w] /\ pc[w] = "ready"
      /\ \A v \in Thread \ {w} : pc'[v] = pc[v] /\ op'[v] = op[v] /\ chan'[v] = chan[v]
      /\ UNCHANGED <<info, used>>
  BY <1>1, BeginTypes DEF Message, chanVars
<1>3. Calls'
  BY <1>1, <1>2, ThreadAssumption DEF Calls, Thread
<1>4. Nodes'
  BY <1>1, <1>2, ThreadAssumption DEF Nodes, Thread
<1> QED
  BY <1>3, <1>4

LEMMA CallsStep ==
  ASSUME Types, Calls, Nodes, [Next]_vars
  PROVE  Calls' /\ Nodes'
<1> USE DEF chanVars, tlsVars, envVars
<1>1. ASSUME NEW u \in User, OpenFailed(u) \/ Closed(u) PROVE Calls' /\ Nodes'
  <2>1. /\ u \in Thread /\ op[u] \in {"open", "close"} /\ Finish(u)
        /\ info' = [info EXCEPT ![chan[u]] = FALSE]
        /\ \A w \in Worker : ChanOf[w] = chan[u] => pc[w] = "gone"
    BY <1>1 DEF OpenFailed, Closed, Nodes, Thread
  <2> QED
    BY <2>1, FinishCalls
<1>2. ASSUME NEW t \in Thread, UserExit(t) \/ WorkerExit(t) PROVE Calls' /\ Nodes'
  <2>1. Goto(t, "gone") /\ UNCHANGED info /\ pc[t] = "ready" /\ op[t] = "none"
    BY <1>2 DEF UserExit, WorkerExit, Calls
  <2> QED
    BY <2>1, GotoCalls
<1>3. ASSUME NEW t \in Thread, SockStep(t) PROVE Calls' /\ Nodes'
  <2>1. ~dead /\ UNCHANGED info /\ pc[t] \in {"send", "prompt", "recv"}
    BY <1>3 DEF SockStep, OpenSock, OpenSockFails, OpenSockBreaks, DoSend, DoSendFails,
                RecvPrompt, DoRecv, DoRecvFails, NeedsSock, HasSock
  <2>2. op[t] \notin {"none", "close"}
    BY <2>1 DEF Calls
  <2>3. \/ Throw(t)
        \/ Goto(t, "prompt") \/ Goto(t, "send") \/ Goto(t, "recv")
        \/ op[t] = "open" /\ Goto(t, "opened")
        \/ Finish(t)
    BY <1>3 DEF SockStep, OpenSock, OpenSockFails, OpenSockBreaks, DoSend, DoSendFails,
                RecvPrompt, DoRecv, DoRecvFails
  <2>4. \/ Goto(t, "prompt") \/ Goto(t, "send") \/ Goto(t, "recv")
        \/ op[t] = "open" /\ (Goto(t, "opened") \/ Goto(t, "cleanup"))
        \/ Finish(t)
        \/ UNCHANGED callVars
    BY <2>3, ThrowCases
  <2> QED
    BY <2>1, <2>2, <2>4, GotoCalls, FinishCalls, SameCalls DEF callVars
<1>4. ASSUME NEW s \in Server, ServerStop(s) \/ ServerStart(s) PROVE Calls' /\ Nodes'
  BY <1>4, SameCalls DEF ServerStop, ServerStart, callVars
<1>5. CASE UNCHANGED vars
  BY <1>5, SameCalls DEF vars, callVars
<1> QED
  BY <1>1, <1>2, <1>3, <1>4, <1>5, UserCallCalls, OpenedCalls, MessageCalls
  DEF Next, CallStep, Thread

-----------------------------------------------------------------------------
(***************************************************************************)
(* What a step may do to the sockets: nothing that matters, drop one, take *)
(* one; or else something has failed.                                      *)
(***************************************************************************)
SameSocks ==
  /\ UNCHANGED <<sockfd, owner, leaked, lost>>
  /\ \A e \in Fd : /\ desc'[e] = None <=> desc[e] = None
                   /\ desc'[e] # None => /\ desc'[e].srv = desc[e].srv
                                         /\ desc'[e].live = desc[e].live

DropsSock(t) ==
  /\ CloseFd(MySock(t)) /\ SetSock(t, 0)
  /\ \A v \in Thread \ {t} : owner'[v] = owner[v]
  /\ UNCHANGED <<leaked, lost>>

LEMMA SocketCases ==
  ASSUME Types, [Next]_vars
  PROVE  \/ SameSocks
         \/ \E t \in Thread : \/ DropsSock(t) \/ OpenSock(t)
                              \/ OpenSockBreaks(t) \/ DoRecvFails(t)
         \/ \E s \in Server : ServerStop(s)
<1> USE DEF tlsVars, envVars
<1>1. ASSUME NEW u \in User, NEW c \in Channel, Open(u, c) \/ Synchro(u, c) \/ Close(u, c)
      PROVE  SameSocks
  BY <1>1 DEF Open, Synchro, Close, UserCall, SameSocks
<1>2. ASSUME NEW u \in User, Opened(u) \/ OpenFailed(u) PROVE DropsSock(u)
  BY <1>2 DEF Opened, OpenFailed, DropsSock
<1>3. ASSUME NEW u \in User, Closed(u) PROVE SameSocks
  BY <1>3 DEF Closed, SameSocks
<1>4. ASSUME NEW t \in Thread, UserExit(t) \/ WorkerExit(t) PROVE DropsSock(t)
  BY <1>4 DEF UserExit, WorkerExit, EndThread, DropsSock, Types, Tls
<1>5. ASSUME NEW w \in Worker, Message(w) PROVE SameSocks
  BY <1>5 DEF Message, SameSocks
<1>6. ASSUME NEW t \in Thread, OpenSockFails(t) \/ DoSendFails(t) PROVE SameSocks
  BY <1>6 DEF OpenSockFails, DoSendFails, SameSocks
<1>7. ASSUME NEW t \in Thread, DoSend(t) \/ RecvPrompt(t) \/ DoRecv(t) PROVE SameSocks
  <2>1. \A e \in Fd : /\ desc'[e] = None <=> desc[e] = None
                      /\ desc'[e] # None => /\ desc'[e].srv = desc[e].srv
                                            /\ desc'[e].live = desc[e].live
    BY <1>7, LineNextTypes DEF DoSend, RecvPrompt, DoRecv, HasSock
  <2> QED
    BY <1>7, <2>1 DEF DoSend, RecvPrompt, DoRecv, SameSocks
<1>8. ASSUME NEW s \in Server, ServerStart(s) PROVE SameSocks
  BY <1>8 DEF ServerStart, SameSocks
<1>9. CASE UNCHANGED vars
  BY <1>9 DEF vars, SameSocks
<1> QED
  BY <1>1, <1>2, <1>3, <1>4, <1>5, <1>6, <1>7, <1>8, <1>9
  DEF Next, CallStep, SockStep, Thread

\* The socket that a thread drops was open, and is closed.
LEMMA DropsSockFacts ==
  ASSUME Types, NEW t \in Thread, DropsSock(t)
  PROVE  /\ sockfd'[t] = 0 /\ \A v \in Thread \ {t} : sockfd'[v] = sockfd[v]
         /\ sockfd[t] # 0 => sockfd[t] \in Fd /\ desc'[sockfd[t]] = None
         /\ \A e \in Fd \ {sockfd[t]} : desc'[e] = desc[e]
<1>1. sockfd[t] \in 0..MaxFd /\ 0 \in 0..MaxFd /\ MySock(t) = sockfd[t]
  BY BoundAssumption DEF Types, MySock, Tls
<1> QED
  BY <1>1, CloseFdTypes, SetSockTypes DEF DropsSock

\* The socket that a thread takes was free.
LEMMA OpenSockFacts ==
  ASSUME Types, Calls, NEW t \in Thread, OpenSock(t)
  PROVE  /\ LowestFd \in Fd /\ LowestFd # 0 /\ desc[LowestFd] = None
         /\ sockfd[t] = 0 /\ sockfd'[t] = LowestFd
         /\ \A v \in Thread \ {t} : sockfd'[v] = sockfd[v] /\ owner'[v] = owner[v]
         /\ chan[t] \in Channel /\ owner'[t] = chan[t]
         /\ ServerOf[chan[t]] \in up
         /\ desc'[LowestFd] = Connection(ServerOf[chan[t]], <<t>>) /\ desc'[LowestFd] # None
         /\ desc'[LowestFd].live /\ desc'[LowestFd].srv = ServerOf[chan[t]]
         /\ \A e \in Fd \ {LowestFd} : desc'[e] = desc[e]
         /\ UNCHANGED <<leaked, lost>>
<1>1. LowestFd \in Fd /\ LowestFd \in 0..MaxFd /\ LowestFd # 0 /\ desc[LowestFd] = None
  BY LowestFdFree, BoundAssumption DEF OpenSock, FreeFd, Fd
<1>2. chan[t] \in Channel /\ sockfd[t] = 0 /\ ServerOf[chan[t]] \in up
  BY DEF OpenSock, NeedsSock, Calls, Types, MySock, Tls
<1> DEFINE k == Connection(ServerOf[chan[t]], <<t>>)
<1>3. k \in Conn /\ k.live /\ k.srv = ServerOf[chan[t]]
  BY <1>2, ThreadAssumption DEF Connection, Conn
<1>4. desc' = [desc EXCEPT ![LowestFd] = k]
  BY DEF OpenSock
<1> HIDE DEF k
<1>5. k # None
  BY <1>3, ThreadAssumption
<1>6. desc'[LowestFd] = k /\ \A e \in Fd \ {LowestFd} : desc'[e] = desc[e]
  BY <1>1, <1>4 DEF Types
<1>7. owner'[t] = chan[t] /\ \A v \in Thread \ {t} : owner'[v] = owner[v]
  BY DEF OpenSock, Types, Tls
<1>8. sockfd'[t] = LowestFd /\ \A v \in Thread \ {t} : sockfd'[v] = sockfd[v]
  BY <1>1, SetSockTypes DEF OpenSock
<1>9. UNCHANGED <<leaked, lost>>
  BY DEF OpenSock, envVars
<1> QED
  BY <1>1, <1>2, <1>3, <1>5, <1>6, <1>7, <1>8, <1>9 DEF k

\* No descriptor is left behind.
LEMMA NoLeakStep ==
  ASSUME Types, Calls, NoLeak, [Next]_vars
  PROVE  NoLeak'
<1>1. CASE SameSocks
  BY <1>1 DEF SameSocks, NoLeak
<1>2. ASSUME NEW t \in Thread, DropsSock(t) PROVE NoLeak'
  <2>1. /\ sockfd'[t] = 0 /\ \A v \in Thread \ {t} : sockfd'[v] = sockfd[v]
        /\ sockfd[t] # 0 => sockfd[t] \in Fd /\ desc'[sockfd[t]] = None
        /\ \A e \in Fd \ {sockfd[t]} : desc'[e] = desc[e]
        /\ leaked' = leaked
    BY <1>2, DropsSockFacts DEF DropsSock
  <2>2. 0 \notin Fd
    BY BoundAssumption DEF Fd
  <2>3. ASSUME NEW d \in Fd, desc'[d] # None
        PROVE  d \in leaked' \/ \E v \in Thread : sockfd'[v] = d
    <3>1. d # sockfd[t] /\ desc[d] # None
      BY <2>1, <2>2, <2>3
    <3> QED
      BY <2>1, <3>1 DEF NoLeak
  <2> QED
    BY <2>3 DEF NoLeak
<1>3. ASSUME NEW t \in Thread, OpenSock(t) PROVE NoLeak'
  <2>1. /\ sockfd[t] = 0 /\ sockfd'[t] = LowestFd
        /\ \A v \in Thread \ {t} : sockfd'[v] = sockfd[v]
        /\ \A e \in Fd \ {LowestFd} : desc'[e] = desc[e]
        /\ leaked' = leaked
    BY <1>3, OpenSockFacts
  <2>2. 0 \notin Fd
    BY BoundAssumption DEF Fd
  <2>3. ASSUME NEW d \in Fd, desc'[d] # None
        PROVE  d \in leaked' \/ \E v \in Thread : sockfd'[v] = d
    BY <2>1, <2>2, <2>3 DEF NoLeak
  <2> QED
    BY <2>3 DEF NoLeak
<1>4. ASSUME NEW t \in Thread, OpenSockBreaks(t) PROVE NoLeak'
  <2>1. /\ desc' = [desc EXCEPT ![LowestFd] = Broken(ServerOf[chan[t]])]
        /\ leaked' = leaked \cup {LowestFd} /\ sockfd' = sockfd
    BY <1>4 DEF OpenSockBreaks, tlsVars
  <2>2. \A e \in Fd \ {LowestFd} : desc'[e] = desc[e]
    BY <2>1 DEF Types
  <2> QED
    BY <2>1, <2>2 DEF NoLeak
<1>5. ASSUME NEW t \in Thread, DoRecvFails(t) PROVE NoLeak'
  <2>1. sockfd' = sockfd /\ leaked' = leaked /\ MySock(t) \in 0..MaxFd
    BY <1>5 DEF DoRecvFails, tlsVars, envVars, Types, MySock, Tls
  <2>2. MySock(t) # 0 /\ (CloseFd(MySock(t)) \/ UNCHANGED desc)
    BY <1>5 DEF DoRecvFails, HasSock
  <2>3. \A e \in Fd : desc'[e] # None => desc[e] # None
    BY <2>1, <2>2, CloseFdTypes
  <2> QED
    BY <2>1, <2>3 DEF NoLeak
<1>6. ASSUME NEW s \in Server, ServerStop(s) PROVE NoLeak'
  <2>1. sockfd' = sockfd /\ leaked' = leaked
    BY <1>6 DEF ServerStop, tlsVars
  <2>2. \A e \in Fd : desc'[e] # None => desc[e] # None
    BY <1>6 DEF ServerStop
  <2> QED
    BY <2>1, <2>2 DEF NoLeak
<1> QED
  BY <1>1, <1>2, <1>3, <1>4, <1>5, <1>6, SocketCases

\* Without failures the sockets are kept apart, and sound.
LEMMA SoundStep ==
  ASSUME Types, Calls, SocketsApart, Sound, [Next]_vars
  PROVE  SocketsApart' /\ Sound'
<1> SUFFICES ASSUME lost' = 0 PROVE SocketsApart' /\ Sound'
  BY DEF SocketsApart, Sound
<1>0. \A t \in Thread : sockfd[t] # 0 => sockfd[t] \in Fd
  BY BoundAssumption DEF Types, Fd
<1>1. CASE SameSocks
  <2>1. lost = 0 /\ UNCHANGED <<sockfd, owner>>
    BY <1>1 DEF SameSocks
  <2>2. SocketsApart'
    BY <1>0, <1>1, <2>1 DEF SameSocks, SocketsApart
  <2>3. \A d \in Fd : desc'[d] # None => desc'[d].live
    BY <1>1, <2>1 DEF SameSocks, Sound
  <2>4. \A t \in Thread : sockfd'[t] # 0 => desc'[sockfd'[t]].srv = ServerOf[owner'[t]]
    BY <1>0, <1>1, <2>1 DEF SameSocks, Sound, SocketsApart
  <2> QED
    BY <2>2, <2>3, <2>4 DEF Sound
<1>2. ASSUME NEW t \in Thread, DropsSock(t) PROVE SocketsApart' /\ Sound'
  <2>1. /\ sockfd'[t] = 0 /\ \A v \in Thread \ {t} : sockfd'[v] = sockfd[v]
        /\ sockfd[t] # 0 => sockfd[t] \in Fd /\ desc'[sockfd[t]] = None
        /\ \A e \in Fd \ {sockfd[t]} : desc'[e] = desc[e]
        /\ lost = 0 /\ \A v \in Thread \ {t} : owner'[v] = owner[v]
    BY <1>2, DropsSockFacts DEF DropsSock
  <2>2. \A v \in Thread : sockfd'[v] # 0 =>
          v # t /\ sockfd[v] # sockfd[t] /\ desc'[sockfd'[v]] = desc[sockfd[v]]
    BY <1>0, <2>1 DEF SocketsApart
  <2>3. SocketsApart'
    BY <2>1, <2>2 DEF SocketsApart
  <2>4. \A d \in Fd : desc'[d] # None => desc'[d].live
    <3>1. 0 \notin Fd
      BY BoundAssumption DEF Fd
    <3> QED
      BY <2>1, <3>1 DEF Sound
  <2>5. \A v \in Thread : sockfd'[v] # 0 => desc'[sockfd'[v]].srv = ServerOf[owner'[v]]
    BY <2>1, <2>2 DEF Sound
  <2> QED
    BY <2>3, <2>4, <2>5 DEF Sound
<1>3. ASSUME NEW t \in Thread, OpenSock(t) PROVE SocketsApart' /\ Sound'
  <2>1. /\ sockfd[t] = 0 /\ sockfd'[t] = LowestFd /\ desc[LowestFd] = None
        /\ \A v \in Thread \ {t} : sockfd'[v] = sockfd[v] /\ owner'[v] = owner[v]
        /\ \A e \in Fd \ {LowestFd} : desc'[e] = desc[e]
        /\ desc'[LowestFd] # None /\ desc'[LowestFd].live
        /\ desc'[LowestFd].srv = ServerOf[owner'[t]] /\ lost = 0
    BY <1>3, OpenSockFacts
  <2>2. \A v \in Thread \ {t} : sockfd'[v] # 0 =>
          sockfd[v] # LowestFd /\ desc'[sockfd'[v]] = desc[sockfd[v]]
    BY <1>0, <2>1 DEF SocketsApart
  <2>3. SocketsApart'
    BY <2>1, <2>2 DEF SocketsApart
  <2>4. \A d \in Fd : desc'[d] # None => desc'[d].live
    BY <2>1 DEF Sound
  <2>5. \A v \in Thread : sockfd'[v] # 0 => desc'[sockfd'[v]].srv = ServerOf[owner'[v]]
    BY <2>1, <2>2 DEF Sound
  <2> QED
    BY <2>3, <2>4, <2>5 DEF Sound
<1>4. ASSUME NEW t \in Thread, OpenSockBreaks(t) PROVE FALSE
  BY <1>4 DEF OpenSockBreaks, Types
<1>5. ASSUME NEW t \in Thread, DoRecvFails(t) PROVE FALSE
  <2>1. lost = 0 /\ sockfd[t] # 0 /\ (desc[sockfd[t]] # None => ~desc[sockfd[t]].live)
    BY <1>5 DEF DoRecvFails, HasSock, Line, MySock, Tls, envVars
  <2> QED
    BY <1>0, <2>1 DEF SocketsApart, Sound
<1>6. ASSUME NEW s \in Server, ServerStop(s) PROVE FALSE
  BY <1>6 DEF ServerStop, Types
<1> QED
  BY <1>1, <1>2, <1>3, <1>4, <1>5, <1>6, SocketCases

\* Threads have the sockets that they need.
LEMMA HandsStep ==
  ASSUME Types, Calls, Hands, [Next]_vars
  PROVE  Hands'
<1> USE DEF chanVars, tlsVars, envVars
<1>0. ASSUME UNCHANGED tlsVars, \A u \in User : used[u] \subseteq used'[u],
             \A t \in Thread : \/ pc'[t] = pc[t] /\ chan'[t] = chan[t]
                               \/ pc'[t] \notin {"prompt", "recv", "opened"}
                               \/ pc'[t] # "prompt" /\ sockfd[t] # 0
      PROVE  Hands'
  <2>1. \A t \in Thread : NodesOf(t) \subseteq NodesOf(t)'
    BY <1>0 DEF NodesOf, Thread
  <2> QED
    BY <1>0, <2>1 DEF Hands
<1>1. ASSUME NEW u \in User, NEW c \in Channel, Open(u, c) \/ Synchro(u, c) \/ Close(u, c)
      PROVE  Hands'
  <2> DEFINE f == IF Open(u, c) THEN "open" ELSE IF Synchro(u, c) THEN "synchro" ELSE "close"
             l == IF Open(u, c) \/ Synchro(u, c) THEN "send" ELSE "closing"
  <2>1. UserCall(u, f, c, l) /\ Begin(u, f, c, l)
    BY <1>1 DEF Open, Synchro, Close, UserCall
  <2>2. /\ f \in {"open", "synchro", "close", "message"} /\ l \in {"send", "closing"}
        /\ u \in Thread
    BY DEF Thread
  <2> HIDE DEF f, l
  <2>3. /\ pc'[u] = l /\ \A v \in Thread \ {u} : pc'[v] = pc[v] /\ chan'[v] = chan[v]
        /\ used'[u] = used[u] \cup {c} /\ \A v \in User \ {u} : used'[v] = used[v]
        /\ UNCHANGED tlsVars
    BY <2>1, <2>2, BeginTypes, UserCallTypes
  <2> QED
    BY <1>0, <2>2, <2>3
<1>2. ASSUME NEW t \in Thread, DropsSock(t), used' = used,
             pc'[t] \notin {"prompt", "recv", "opened"},
             \A v \in Thread \ {t} : \/ pc'[v] = pc[v] /\ chan'[v] = chan[v]
                                     \/ pc'[v] \notin {"prompt", "recv", "opened"}
      PROVE  Hands'
  <2>1. /\ sockfd'[t] = 0 /\ \A v \in Thread \ {t} : sockfd'[v] = sockfd[v]
        /\ \A v \in Thread \ {t} : owner'[v] = owner[v]
    BY <1>2, DropsSockFacts DEF DropsSock
  <2>2. \A v \in Thread : NodesOf(v)' = NodesOf(v)
    BY <1>2 DEF NodesOf
  <2> QED
    BY <1>2, <2>1, <2>2 DEF Hands
<1>3. ASSUME NEW u \in User, Opened(u) PROVE Hands'
  <2>1. /\ u \in Thread /\ DropsSock(u) /\ used' = used
        /\ \A v \in Thread : pc'[v] = pc[v] \/ pc'[v] = "ready"
        /\ \A v \in Thread \ {u} : chan'[v] = chan[v]
        /\ pc'[u] = "ready"
    BY <1>3 DEF Opened, DropsSock, Types, Thread
  <2> QED
    BY <1>2, <2>1
<1>4. ASSUME NEW u \in User, OpenFailed(u) PROVE Hands'
  <2>1. u \in Thread /\ DropsSock(u) /\ Finish(u)
    BY <1>4 DEF OpenFailed, DropsSock, Thread
  <2> QED
    BY <1>2, <2>1, FinishTypes
<1>5. ASSUME NEW u \in User, Closed(u) PROVE Hands'
  <2>1. u \in Thread /\ UNCHANGED tlsVars /\ Finish(u)
    BY <1>5 DEF Closed, Thread
  <2> QED
    BY <1>0, <2>1, FinishTypes
<1>6. ASSUME NEW t \in Thread, UserExit(t) \/ WorkerExit(t) PROVE Hands'
  <2>1. DropsSock(t) /\ Goto(t, "gone")
    BY <1>6 DEF UserExit, WorkerExit, EndThread, DropsSock, Types, Tls
  <2> QED
    BY <1>2, <2>1, GotoTypes
<1>7. ASSUME NEW w \in Worker, Message(w) PROVE Hands'
  <2>1. w \in Thread /\ ChanOf[w] \in Channel
    BY ThreadAssumption DEF Thread
  <2>2. /\ pc'[w] = "send" /\ \A v \in Thread \ {w} : pc'[v] = pc[v] /\ chan'[v] = chan[v]
        /\ UNCHANGED <<tlsVars, used>>
    BY <1>7, <2>1, BeginTypes DEF Message
  <2> QED
    BY <1>0, <2>2
<1>8. ASSUME NEW t \in Thread, OpenSock(t) PROVE Hands'
  <2>1. /\ LowestFd # 0 /\ sockfd'[t] = LowestFd /\ chan[t] \in Channel /\ owner'[t] = chan[t]
        /\ \A v \in Thread \ {t} : sockfd'[v] = sockfd[v] /\ owner'[v] = owner[v]
    BY <1>8, OpenSockFacts
  <2>2. /\ pc'[t] = "prompt" /\ \A v \in Thread \ {t} : pc'[v] = pc[v]
        /\ UNCHANGED <<chan, used>>
    BY <1>8, GotoTypes DEF OpenSock
  <2>3. chan[t] \in NodesOf(t)
    <3>1. op[t] # "none"
      BY <1>8 DEF OpenSock, NeedsSock, Calls
    <3> QED
      BY <3>1 DEF Calls, NodesOf, Thread
  <2>4. \A v \in Thread : NodesOf(v)' = NodesOf(v)
    BY <2>2 DEF NodesOf
  <2> QED
    BY <2>1, <2>2, <2>3, <2>4 DEF Hands
<1>9. ASSUME NEW t \in Thread, Throw(t), UNCHANGED tlsVars PROVE Hands'
  <2>1. Finish(t) \/ Goto(t, "cleanup") \/ UNCHANGED callVars
    BY <1>9, ThrowCases
  <2> QED
    BY <1>0, <1>9, <2>1, GotoTypes, FinishTypes DEF callVars
<1>10. ASSUME NEW t \in Thread,
              OpenSockFails(t) \/ OpenSockBreaks(t) \/ DoSendFails(t) \/ DoRecvFails(t)
       PROVE  Hands'
  BY <1>9, <1>10 DEF OpenSockFails, OpenSockBreaks, DoSendFails, DoRecvFails
<1>11. ASSUME NEW t \in Thread, DoSend(t) \/ RecvPrompt(t) \/ DoRecv(t) PROVE Hands'
  <2>1. /\ sockfd[t] # 0 /\ UNCHANGED tlsVars
        /\ Goto(t, "recv") \/ Goto(t, "send") \/ Goto(t, "opened") \/ Finish(t)
    BY <1>11 DEF DoSend, RecvPrompt, DoRecv, HasSock, MySock, Tls
  <2> QED
    BY <1>0, <2>1, GotoTypes, FinishTypes
<1>12. ASSUME NEW s \in Server, ServerStop(s) \/ ServerStart(s) PROVE Hands'
  BY <1>0, <1>12 DEF ServerStop, ServerStart, callVars
<1>13. CASE UNCHANGED vars
  BY <1>0, <1>13 DEF vars, callVars
<1> QED
  BY <1>1, <1>3, <1>4, <1>5, <1>6, <1>7, <1>8, <1>10, <1>11, <1>12, <1>13
  DEF Next, CallStep, SockStep, Thread

-----------------------------------------------------------------------------
(***************************************************************************)
(* Without failures, and unless open() tried out an old socket, a thread   *)
(* of a buffer finds its server.                                           *)
(***************************************************************************)
LEMMA ReachStep ==
  ASSUME Inv, [Next]_vars
  PROVE  Reach'
<1> SUFFICES ASSUME lost' = 0, ~reused' PROVE Reach'
  BY DEF Reach
<1> USE DEF chanVars, tlsVars, envVars
<1>0. Types /\ Calls /\ Nodes /\ Hands /\ SocketsApart /\ Sound /\ Reach
  BY DEF Inv
<1>1. ASSUME lost = 0, ~reused, up \subseteq up', dead' = dead,
             \A w \in Worker : pc'[w] # "gone" => pc[w] # "gone",
             \A u \in User : op'[u] = "open" /\ sockfd'[u] # 0 =>
                             op[u] = "open" /\ sockfd[u] # 0 /\ chan'[u] = chan[u]
      PROVE  Reach'
  BY <1>0, <1>1 DEF Reach
<1>2. ASSUME NEW u \in User, NEW c \in Channel, Open(u, c) \/ Synchro(u, c) \/ Close(u, c)
      PROVE  Reach'
  <2> DEFINE f == IF Open(u, c) THEN "open" ELSE IF Synchro(u, c) THEN "synchro" ELSE "close"
             l == IF Open(u, c) \/ Synchro(u, c) THEN "send" ELSE "closing"
  <2>1. UserCall(u, f, c, l) /\ Begin(u, f, c, l)
    BY <1>2 DEF Open, Synchro, Close, UserCall
  <2>2. /\ f \in {"open", "synchro", "close", "message"} /\ l \in {"send", "closing"}
        /\ u \in Thread
    BY DEF Thread
  <2>3. ~reused /\ (f = "open" => sockfd[u] = 0)
    <3>1. CASE Open(u, c)
      <4>1. reused' = (reused \/ sockfd[u] # 0)
        BY <3>1 DEF Open, MySock, Tls
      <4> QED
        BY <4>1
    <3>2. CASE ~Open(u, c)
      <4>1. f # "open"
        BY <3>2
      <4>2. reused' = reused
        BY <1>2, <3>2 DEF Synchro, Close
      <4> QED
        BY <4>1, <4>2
    <3> QED
      BY <3>1, <3>2
  <2> HIDE DEF f, l
  <2>4. /\ op'[u] = f
        /\ \A v \in Thread \ {u} : pc'[v] = pc[v] /\ op'[v] = op[v] /\ chan'[v] = chan[v]
        /\ UNCHANGED <<sockfd, up, lost, dead>>
    BY <1>0, <2>1, <2>2, BeginTypes, UserCallTypes
  <2>5. \A w \in Worker : pc'[w] = pc[w]
    BY <2>4, ThreadAssumption DEF Thread
  <2> QED
    BY <1>1, <2>3, <2>4, <2>5 DEF Thread
<1>3. ASSUME NEW u \in User, Opened(u) PROVE Reach'
  <2>1. /\ u \in Thread /\ op[u] = "open" /\ pc[u] = "opened"
        /\ op'[u] = "none" /\ sockfd' = [sockfd EXCEPT ![u] = 0]
        /\ \A v \in Thread \ {u} : op'[v] = op[v] /\ chan'[v] = chan[v]
        /\ \A w \in Worker : pc'[w] # "gone" => pc[w] # "gone" \/ ChanOf[w] = chan[u]
        /\ UNCHANGED <<up, lost, reused, dead>>
    BY <1>0, <1>3 DEF Opened, Types, Thread, SetSock, Tls
  <2>2. ServerOf[chan[u]] \in up
    BY <1>0, <2>1 DEF Hands, Reach
  <2>3. \A v \in Thread \ {u} : sockfd'[v] = sockfd[v]
    BY <1>0, <2>1 DEF Types
  <2> QED
    BY <1>0, <2>1, <2>2, <2>3 DEF Reach, Thread
<1>4. ASSUME NEW u \in User, OpenFailed(u) \/ Closed(u) PROVE Reach'
  <2>1. /\ u \in Thread /\ Finish(u) /\ UNCHANGED <<up, lost, dead>>
        /\ sockfd' = [sockfd EXCEPT ![u] = 0] \/ sockfd' = sockfd
        /\ op[u] \in {"open", "close"}
    BY <1>4 DEF OpenFailed, Closed, SetSock, Tls, Thread
  <2>2. /\ op'[u] = "none"
        /\ \A v \in Thread \ {u} : pc'[v] = pc[v] /\ op'[v] = op[v] /\ chan'[v] = chan[v]
        /\ UNCHANGED reused
    BY <1>0, <2>1, FinishTypes
  <2>3. \A v \in Thread \ {u} : sockfd'[v] = sockfd[v]
    BY <1>0, <2>1 DEF Types
  <2>4. \A w \in Worker : pc'[w] = pc[w]
    BY <2>2, ThreadAssumption DEF Thread
  <2> QED
    BY <1>1, <2>1, <2>2, <2>3, <2>4 DEF Thread
<1>5. ASSUME NEW t \in Thread, UserExit(t) \/ WorkerExit(t) PROVE Reach'
  <2>1. /\ Goto(t, "gone") /\ UNCHANGED <<up, lost, dead>>
        /\ sockfd' = [sockfd EXCEPT ![t] = 0] /\ pc[t] = "ready"
    BY <1>5 DEF UserExit, WorkerExit, EndThread, SetSock, Tls
  <2>2. /\ pc'[t] = "gone" /\ \A v \in Thread \ {t} : pc'[v] = pc[v]
        /\ UNCHANGED <<op, chan, reused>>
    BY <1>0, <2>1, GotoTypes
  <2>3. \A v \in Thread : sockfd'[v] # 0 => sockfd[v] # 0
    BY <1>0, <2>1 DEF Types
  <2> QED
    BY <1>1, <2>1, <2>2, <2>3 DEF Thread
<1>6. ASSUME NEW w \in Worker, Message(w) PROVE Reach'
  <2>1. w \in Thread /\ ChanOf[w] \in Channel /\ w \notin User
    BY ThreadAssumption DEF Thread
  <2>2. /\ pc[w] = "ready"
        /\ \A v \in Thread \ {w} : pc'[v] = pc[v] /\ op'[v] = op[v] /\ chan'[v] = chan[v]
        /\ UNCHANGED <<sockfd, up, lost, dead, reused>>
    BY <1>0, <1>6, <2>1, BeginTypes DEF Message
  <2> QED
    BY <1>1, <2>1, <2>2 DEF Thread
<1>7. ASSUME NEW t \in Thread, OpenSock(t) PROVE Reach'
  <2>1. /\ ServerOf[chan[t]] \in up /\ UNCHANGED <<lost, up, dead>>
        /\ \A v \in Thread \ {t} : sockfd'[v] = sockfd[v]
    BY <1>0, <1>7, OpenSockFacts DEF OpenSock
  <2>2. /\ pc[t] = "send" /\ \A v \in Thread \ {t} : pc'[v] = pc[v]
        /\ UNCHANGED <<op, chan, reused>>
    BY <1>0, <1>7, GotoTypes DEF OpenSock, NeedsSock
  <2> QED
    BY <1>0, <2>1, <2>2 DEF Reach, Thread
<1>8. ASSUME NEW t \in Thread, OpenSockFails(t) PROVE Reach'
  <2>1. /\ pc[t] = "send" /\ ServerOf[chan[t]] \notin up /\ Throw(t)
        /\ UNCHANGED <<sockfd, up, lost>>
    BY <1>8 DEF OpenSockFails, NeedsSock
  <2>2. \/ Finish(t) /\ dead' = dead
        \/ Goto(t, "cleanup") /\ dead' = dead
        \/ op[t] = "message" /\ UNCHANGED callVars
    BY <1>0, <2>1, ThrowCases
  <2>3. UNCHANGED reused
    BY <1>0, <2>2, FinishTypes, GotoTypes DEF callVars
  <2>4. op[t] # "message"
    <3>1. SUFFICES ASSUME op[t] = "message" PROVE FALSE
      OBVIOUS
    <3>2. t \in Worker /\ chan[t] = ChanOf[t]
      BY <1>0, <3>1 DEF Calls, Thread
    <3>3. lost = 0 /\ ~reused
      BY <2>1, <2>3
    <3> QED
      BY <1>0, <2>1, <3>2, <3>3 DEF Reach
  <2>5. /\ \A v \in Thread \ {t} : pc'[v] = pc[v] /\ op'[v] = op[v] /\ chan'[v] = chan[v]
        /\ op'[t] = "none" \/ (op'[t] = op[t] /\ chan'[t] = chan[t])
    BY <1>0, <2>2, <2>4, FinishTypes, GotoTypes
  <2> QED
    BY <1>1, <2>1, <2>2, <2>3, <2>4, <2>5 DEF Thread
<1>9. ASSUME NEW t \in Thread, OpenSockBreaks(t) \/ DoSendFails(t) \/ DoRecvFails(t)
      PROVE  FALSE
  <2>1. ~OpenSockBreaks(t)
    BY <1>0 DEF OpenSockBreaks, Types
  <2>2. lost = 0 /\ sockfd[t] # 0 /\ (desc[sockfd[t]] # None => ~desc[sockfd[t]].live)
    BY <1>9, <2>1 DEF DoSendFails, DoRecvFails, HasSock, Line, MySock, Tls
  <2>3. sockfd[t] \in Fd
    BY <1>0, <2>2, BoundAssumption DEF Types, Fd
  <2> QED
    BY <1>0, <2>2, <2>3 DEF SocketsApart, Sound
<1>10. ASSUME NEW t \in Thread, DoSend(t) \/ RecvPrompt(t) \/ DoRecv(t) PROVE Reach'
  <2>1. /\ UNCHANGED <<sockfd, up, lost, dead>> /\ pc[t] # "gone"
        /\ Goto(t, "recv") \/ Goto(t, "send") \/ Goto(t, "opened") \/ Finish(t)
    BY <1>10 DEF DoSend, RecvPrompt, DoRecv, HasSock
  <2>2. /\ \A v \in Thread \ {t} : pc'[v] = pc[v] /\ op'[v] = op[v] /\ chan'[v] = chan[v]
        /\ op'[t] = "none" \/ (op'[t] = op[t] /\ chan'[t] = chan[t])
        /\ UNCHANGED reused
    BY <1>0, <2>1, FinishTypes, GotoTypes
  <2> QED
    BY <1>1, <2>1, <2>2 DEF Thread
<1>11. ASSUME NEW s \in Server, ServerStop(s) PROVE FALSE
  BY <1>0, <1>11 DEF ServerStop, Types
<1>12. ASSUME NEW s \in Server, ServerStart(s) PROVE Reach'
  BY <1>1, <1>12 DEF ServerStart, callVars
<1>13. CASE UNCHANGED vars
  BY <1>1, <1>13 DEF vars, callVars
<1> QED
  BY <1>2, <1>3, <1>4, <1>5, <1>6, <1>7, <1>8, <1>9, <1>10, <1>11, <1>12, <1>13
  DEF Next, CallStep, SockStep, Thread

-----------------------------------------------------------------------------
(***************************************************************************)
(* The count of sockets.                                                   *)
(***************************************************************************)
\* A set of threads has a size.
LEMMA CountedFinite ==
  ASSUME NEW S, S \subseteq Thread
  PROVE  IsFiniteSet(S) /\ Cardinality(S) \in Nat
BY ThreadAssumption, FS_Subset, FS_CardinalityType

\* What the count of channel c may do, while its sockets change.
LEMMA CountedStep ==
  ASSUME NEW c \in Channel, nsocks[c] \in Int, Cardinality(Counted(c)) <= nsocks[c],
         \/ Counted(c)' \subseteq Counted(c) /\ nsocks'[c] >= nsocks[c]
         \/ \E t \in Thread : /\ Counted(c)' \subseteq Counted(c) \cup {t}
                              /\ nsocks'[c] = nsocks[c] + 1
         \/ \E t \in Counted(c) : /\ Counted(c)' \subseteq Counted(c) \ {t}
                                  /\ nsocks'[c] = nsocks[c] - 1,
         nsocks'[c] \in Int
  PROVE  Cardinality(Counted(c)') <= nsocks'[c]
<1> DEFINE S == Counted(c)
           T == Counted(c)'
<1>1. S \subseteq Thread /\ T \subseteq Thread
  BY DEF Counted
<1> HIDE DEF S, T
<1>2. IsFiniteSet(S) /\ Cardinality(S) \in Nat /\ Cardinality(T) \in Nat
  BY <1>1, CountedFinite
<1>3. CASE T \subseteq S /\ nsocks'[c] >= nsocks[c]
  <2>1. Cardinality(T) <= Cardinality(S)
    BY <1>2, <1>3, FS_Subset
  <2> QED
    BY <1>2, <1>3, <2>1 DEF S, T
<1>4. ASSUME NEW t \in Thread, T \subseteq S \cup {t}, nsocks'[c] = nsocks[c] + 1
      PROVE  Cardinality(T) <= nsocks'[c]
  <2>1. /\ IsFiniteSet(S \cup {t}) /\ Cardinality(S \cup {t}) \in Nat
        /\ Cardinality(S \cup {t}) <= Cardinality(S) + 1
    BY <1>2, FS_AddElement, SMTT(30)
  <2>2. Cardinality(T) <= Cardinality(S \cup {t})
    BY <1>4, <2>1, FS_Subset
  <2> QED
    BY <1>2, <1>4, <2>1, <2>2 DEF S, T
<1>5. ASSUME NEW t \in S, T \subseteq S \ {t}, nsocks'[c] = nsocks[c] - 1
      PROVE  Cardinality(T) <= nsocks'[c]
  <2>1. /\ IsFiniteSet(S \ {t}) /\ Cardinality(S \ {t}) = Cardinality(S) - 1
    BY <1>2, FS_RemoveElement
  <2>2. Cardinality(T) <= Cardinality(S \ {t})
    BY <1>5, <2>1, FS_Subset
  <2> QED
    BY <1>2, <1>5, <2>1, <2>2 DEF S, T
<1> QED
  BY <1>3, <1>4, <1>5 DEF S, T

LEMMA NSocksStep ==
  ASSUME Inv, NSocksCovers, Types', [Next]_vars
  PROVE  NSocksCovers'
<1> SUFFICES ASSUME lost' = 0, NEW c \in Channel
             PROVE  Cardinality(Counted(c)') <= nsocks'[c]
  BY DEF NSocksCovers
<1> USE DEF chanVars, tlsVars, envVars
<1>0. Types /\ Calls /\ Nodes /\ Hands /\ SocketsApart /\ Sound
  BY DEF Inv
<1>1. nsocks[c] \in Int /\ nsocks'[c] \in Int
  BY <1>0 DEF Types
<1> DEFINE P == Cardinality(Counted(c)') <= nsocks'[c]
<1>2. ASSUME lost = 0, nsocks' = nsocks,
             \A t \in Thread : \/ sockfd'[t] = 0 \/ pc'[t] = "prompt"
                               \/ /\ sockfd'[t] = sockfd[t] /\ owner'[t] = owner[t]
                                  /\ pc[t] # "prompt"
      PROVE  P
  <2>1. Counted(c)' \subseteq Counted(c)
    BY <1>2 DEF Counted
  <2>2. Cardinality(Counted(c)) <= nsocks[c]
    BY <1>2 DEF NSocksCovers
  <2> QED
    BY <1>1, <1>2, <2>1, <2>2, CountedStep
<1>3. ASSUME NEW t \in Thread, UNCHANGED <<lost, tlsVars, nsocks>>,
             pc[t] # "prompt", \A v \in Thread \ {t} : pc'[v] = pc[v]
      PROVE  P
  BY <1>2, <1>3
<1>4. ASSUME NEW u \in User, NEW d \in Channel, Open(u, d) \/ Synchro(u, d) \/ Close(u, d)
      PROVE  P
  <2> DEFINE f == IF Open(u, d) THEN "open" ELSE IF Synchro(u, d) THEN "synchro" ELSE "close"
             l == IF Open(u, d) \/ Synchro(u, d) THEN "send" ELSE "closing"
  <2>1. UserCall(u, f, d, l) /\ Begin(u, f, d, l)
    BY <1>4 DEF Open, Synchro, Close, UserCall
  <2>2. /\ f \in {"open", "synchro", "close", "message"} /\ l \in {"send", "closing"}
        /\ u \in Thread
    BY DEF Thread
  <2> HIDE DEF f, l
  <2> QED
    BY <1>0, <1>3, <2>1, <2>2, BeginTypes, UserCallTypes
<1>5. ASSUME NEW u \in User, Opened(u) PROVE P
  <2>1. /\ u \in Thread /\ sockfd' = [sockfd EXCEPT ![u] = 0]
        /\ \A t \in Thread : t = u \/ pc'[t] = pc[t] \/ (t \in Worker /\ ChanOf[t] = chan[u])
        /\ UNCHANGED <<owner, lost, nsocks>> /\ op[u] = "open"
    BY <1>5 DEF Opened, Thread, SetSock, Tls
  <2>2. sockfd'[u] = 0 /\ \A t \in Thread \ {u} : sockfd'[t] = sockfd[t]
    BY <1>0, <2>1 DEF Types
  <2>3. \A t \in Worker : ChanOf[t] = chan[u] => pc[t] # "prompt"
    BY <1>0, <2>1 DEF Nodes
  <2> QED
    BY <1>2, <2>1, <2>2, <2>3
<1>6. ASSUME NEW u \in User, OpenFailed(u) PROVE P
  <2>1. /\ u \in Thread /\ sockfd' = [sockfd EXCEPT ![u] = 0] /\ Finish(u)
        /\ UNCHANGED <<owner, lost, nsocks>>
    BY <1>6 DEF OpenFailed, Thread, SetSock, Tls
  <2>2. /\ sockfd'[u] = 0
        /\ \A t \in Thread \ {u} : sockfd'[t] = sockfd[t] /\ pc'[t] = pc[t]
    BY <1>0, <2>1, FinishTypes DEF Types
  <2> QED
    BY <1>2, <2>1, <2>2
<1>7. ASSUME NEW u \in User, Closed(u) PROVE P
  <2>1. /\ u \in Thread /\ UNCHANGED <<lost, tlsVars, nsocks>> /\ Finish(u)
        /\ pc[u] # "prompt"
    BY <1>0, <1>7 DEF Closed, Thread, Calls
  <2> QED
    BY <1>0, <1>3, <2>1, FinishTypes
<1>8. ASSUME NEW t \in Thread, UserExit(t) \/ WorkerExit(t) PROVE P
  <2>1. /\ EndThread(t) /\ Goto(t, "gone") /\ lost = 0 /\ pc[t] = "ready"
    BY <1>8 DEF UserExit, WorkerExit
  <2>2. /\ sockfd'[t] = 0
        /\ \A v \in Thread \ {t} : sockfd'[v] = sockfd[v] /\ owner'[v] = owner[v]
                                   /\ pc'[v] = pc[v]
    BY <1>0, <2>1, GotoTypes DEF EndThread, SetSock, Tls, Types
  <2>3. CASE sockfd[t] # 0 /\ owner[t] = c
    <3>1. t \in Counted(c)
      BY <2>1, <2>3 DEF Counted
    <3>2. Counted(c)' \subseteq Counted(c) \ {t}
      BY <2>2 DEF Counted
    <3>3. nsocks'[c] = nsocks[c] - 1
      <4>1. owner[t] # None
        BY <2>3, ThreadAssumption
      <4>2. nsocks' = [nsocks EXCEPT ![owner[t]] = @ - 1]
        BY <2>1, <2>3, <4>1 DEF EndThread, MySock, Tls
      <4> QED
        BY <1>0, <2>3, <4>2 DEF Types
    <3>4. Cardinality(Counted(c)) <= nsocks[c]
      BY <2>1 DEF NSocksCovers
    <3> QED
      BY <1>1, <3>1, <3>2, <3>3, <3>4, CountedStep
  <2>4. CASE ~(sockfd[t] # 0 /\ owner[t] = c)
    <3>1. nsocks'[c] = nsocks[c]
      BY <1>0, <2>1, <2>4 DEF EndThread, MySock, Tls, Types
    <3>2. Counted(c)' \subseteq Counted(c)
      BY <2>2 DEF Counted
    <3>3. Cardinality(Counted(c)) <= nsocks[c] /\ nsocks'[c] >= nsocks[c]
      BY <1>1, <2>1, <3>1 DEF NSocksCovers
    <3> QED
      BY <1>1, <3>2, <3>3, CountedStep
  <2> QED
    BY <2>3, <2>4
<1>9. ASSUME NEW w \in Worker, Message(w) PROVE P
  <2>1. w \in Thread /\ ChanOf[w] \in Channel
    BY ThreadAssumption DEF Thread
  <2> QED
    BY <1>0, <1>3, <1>9, <2>1, BeginTypes DEF Message
<1>10. ASSUME NEW t \in Thread, OpenSock(t) PROVE P
  <2>1. /\ sockfd[t] = 0 /\ UNCHANGED <<lost, nsocks>> /\ Goto(t, "prompt")
        /\ \A v \in Thread \ {t} : sockfd'[v] = sockfd[v] /\ owner'[v] = owner[v]
    BY <1>0, <1>10, OpenSockFacts DEF OpenSock
  <2>2. pc'[t] = "prompt" /\ \A v \in Thread \ {t} : pc'[v] = pc[v]
    BY <1>0, <2>1, GotoTypes
  <2> QED
    BY <1>2, <2>1, <2>2
<1>11. ASSUME NEW t \in Thread, OpenSockFails(t) PROVE P
  <2>1. UNCHANGED <<lost, tlsVars, nsocks>> /\ pc[t] = "send" /\ Throw(t)
    BY <1>11 DEF OpenSockFails, NeedsSock
  <2>2. \A v \in Thread \ {t} : pc'[v] = pc[v]
    BY <1>0, <2>1, ThrowCases, GotoTypes, FinishTypes DEF callVars
  <2> QED
    BY <1>3, <2>1, <2>2
<1>12. ASSUME NEW t \in Thread, OpenSockBreaks(t) \/ DoSendFails(t) \/ DoRecvFails(t)
       PROVE  FALSE
  <2>1. ~OpenSockBreaks(t)
    BY <1>0 DEF OpenSockBreaks, Types
  <2>2. lost = 0 /\ sockfd[t] # 0 /\ (desc[sockfd[t]] # None => ~desc[sockfd[t]].live)
    BY <1>12, <2>1 DEF DoSendFails, DoRecvFails, HasSock, Line, MySock, Tls
  <2>3. sockfd[t] \in Fd
    BY <1>0, <2>2, BoundAssumption DEF Types, Fd
  <2> QED
    BY <1>0, <2>2, <2>3 DEF SocketsApart, Sound
<1>13. ASSUME NEW t \in Thread, DoSend(t) \/ DoRecv(t) PROVE P
  <2>1. /\ UNCHANGED <<lost, tlsVars, nsocks>> /\ pc[t] # "prompt"
        /\ Goto(t, "recv") \/ Goto(t, "opened") \/ Finish(t)
    BY <1>13 DEF DoSend, DoRecv, HasSock
  <2> QED
    BY <1>0, <1>3, <2>1, GotoTypes, FinishTypes
<1>14. ASSUME NEW t \in Thread, RecvPrompt(t) PROVE P
  <2>1. /\ lost = 0 /\ UNCHANGED tlsVars /\ Goto(t, "send")
        /\ nsocks' = [nsocks EXCEPT ![chan[t]] = @ + 1] /\ owner[t] = chan[t]
    BY <1>0, <1>14 DEF RecvPrompt, HasSock, Hands
  <2>2. \A v \in Thread \ {t} : pc'[v] = pc[v]
    BY <1>0, <2>1, GotoTypes
  <2>3. Cardinality(Counted(c)) <= nsocks[c]
    BY <2>1 DEF NSocksCovers
  <2>4. CASE chan[t] = c
    <3>1. nsocks'[c] = nsocks[c] + 1
      BY <1>0, <2>1, <2>4 DEF Types
    <3>2. Counted(c)' \subseteq Counted(c) \cup {t}
      BY <2>1, <2>2 DEF Counted
    <3> QED
      BY <1>1, <2>3, <3>1, <3>2, CountedStep
  <2>5. CASE chan[t] # c
    <3>1. nsocks'[c] = nsocks[c] /\ nsocks'[c] >= nsocks[c]
      BY <1>0, <1>1, <2>1, <2>5 DEF Types
    <3>2. Counted(c)' \subseteq Counted(c)
      BY <2>1, <2>2, <2>5 DEF Counted
    <3> QED
      BY <1>1, <2>3, <3>1, <3>2, CountedStep
  <2> QED
    BY <2>4, <2>5
<1>15. ASSUME NEW s \in Server, ServerStop(s) PROVE FALSE
  BY <1>0, <1>15 DEF ServerStop, Types
<1>16. ASSUME UNCHANGED <<lost, tlsVars, nsocks, pc>> PROVE P
  BY <1>2, <1>16
<1>17. ASSUME NEW s \in Server, ServerStart(s) PROVE P
  BY <1>16, <1>17 DEF ServerStart, callVars
<1>18. CASE UNCHANGED vars
  BY <1>16, <1>18 DEF vars, callVars
<1> QED
  BY <1>4, <1>5, <1>6, <1>7, <1>8, <1>9, <1>10, <1>11, <1>12, <1>13, <1>14, <1>15, <1>17,
     <1>18 DEF Next, CallStep, SockStep, Thread

-----------------------------------------------------------------------------
(***************************************************************************)
(* The theorems.                                                           *)
(***************************************************************************)
LEMMA InitInv == Init => Inv /\ NSocksCovers
<1> SUFFICES ASSUME Init PROVE Inv /\ NSocksCovers
  OBVIOUS
<1>1. Types /\ Calls /\ Nodes
  BY InitTypes, InitCalls
<1>2. /\ \A t \in Thread : sockfd[t] = 0 /\ pc[t] \in {"ready", "gone"}
      /\ \A d \in Fd : desc[d] = None
      /\ \A w \in Worker : pc[w] = "gone"
      /\ \A u \in User : op[u] = "none"
      /\ ~dead /\ \A c \in Channel : nsocks[c] = 0
  BY ThreadAssumption DEF Init, Thread
<1>3. NoLeak /\ Hands /\ SocketsApart /\ Sound
  BY <1>2 DEF NoLeak, Hands, SocketsApart, Sound
<1>4. Reach
  BY <1>2 DEF Reach
<1>5. \A c \in Channel : Counted(c) = {}
  BY <1>2 DEF Counted
<1>6. NSocksCovers
  BY <1>2, <1>5, FS_EmptySet DEF NSocksCovers
<1> QED
  BY <1>1, <1>3, <1>4, <1>6 DEF Inv

LEMMA InvStep ==
  ASSUME Inv, NSocksCovers, [Next]_vars
  PROVE  Inv' /\ NSocksCovers'
<1>1. Types' /\ Calls' /\ Nodes' /\ NoLeak' /\ Hands'
  BY TypesStep, CallsStep, NoLeakStep, HandsStep DEF Inv
<1>2. SocketsApart' /\ Sound' /\ Reach'
  BY SoundStep, ReachStep DEF Inv
<1> QED
  BY <1>1, <1>2, NSocksStep DEF Inv

\* The inductive invariant holds in every state of the system.
THEOREM InvHolds == Spec => [](Inv /\ NSocksCovers)
<1>1. Init => Inv /\ NSocksCovers
  BY InitInv
<1>2. Inv /\ NSocksCovers /\ [Next]_vars => Inv' /\ NSocksCovers'
  BY InvStep
<1> QED
  BY <1>1, <1>2, PTL DEF Spec

(***************************************************************************)
(* Types; and the threads of a buffer exist only while the channel that    *)
(* open_connection has opened for them is open.                            *)
(***************************************************************************)
THEOREM TypeOKHolds == Spec => []TypeOK
<1>1. Inv => TypeOK
  BY DEF Inv, Calls, Nodes, TypeOK
<1> QED
  BY <1>1, InvHolds, PTL

(***************************************************************************)
(* Until a server fails, no two threads have their hands on one descriptor *)
(* and none on a closed one, whichever threads open, use and close nodes   *)
(* at the same time, and however often descriptors are handed out again.   *)
(***************************************************************************)
THEOREM SocketsApartHolds == Spec => []SocketsApart
<1>1. Inv => SocketsApart
  BY DEF Inv
<1> QED
  BY <1>1, InvHolds, PTL

(***************************************************************************)
(* Until a server fails, a thread of a buffer talks to the server of its   *)
(* node, and so does a user that has used one node only.                   *)
(***************************************************************************)
THEOREM TalksHomeHolds == Spec => []TalksHome
<1>1. ASSUME Inv PROVE TalksHome
  <2> SUFFICES ASSUME lost = 0, NEW t \in Thread, sockfd[t] # 0
               PROVE  desc[sockfd[t]].srv \in {ServerOf[c] : c \in NodesOf(t)}
    BY DEF TalksHome, MySock, Tls
  <2>1. desc[sockfd[t]].srv = ServerOf[owner[t]] /\ owner[t] \in NodesOf(t)
    BY <1>1 DEF Inv, Sound, Hands
  <2> QED
    BY <2>1
<1> QED
  BY <1>1, InvHolds, PTL

(***************************************************************************)
(* Until a server fails, the count that monitor() reports for a channel is *)
(* never less than the sockets it has opened and that are in use.          *)
(***************************************************************************)
THEOREM NSocksCoversHolds == Spec => []NSocksCovers
BY InvHolds, PTL

(***************************************************************************)
(* The process ends, by an exception that nobody catches in a thread of a  *)
(* buffer, only if a server failed or open() tried out an old socket.      *)
(***************************************************************************)
THEOREM SurvivesHolds == Spec => []Survives
<1>1. ASSUME Inv PROVE Survives
  <2>1. lost \in Nat
    BY <1>1, BoundAssumption DEF Inv, Types
  <2> QED
    BY <1>1, <2>1 DEF Inv, Reach, Survives
<1> QED
  BY <1>1, InvHolds, PTL

(***************************************************************************)
(* A descriptor that is open is in the hands of a thread, or one of those  *)
(* that open_sock gave up; failures of servers included.                   *)
(***************************************************************************)
THEOREM NoLeakHolds == Spec => []NoLeak
<1>1. Inv => NoLeak
  BY DEF Inv
<1> QED
  BY <1>1, InvHolds, PTL

=============================================================================
