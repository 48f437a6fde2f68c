----------------------------- MODULE CogConnect -----------------------------
(***************************************************************************)
(* The connections of the production backend: the socket that each thread  *)
(* keeps in the static thread_local CogChannel::s, when it is opened, used *)
(* and closed, while storage nodes are opened and closed, threads end and  *)
(* servers go away.                                                        *)
(*                                                                         *)
(* Descriptors are small numbers that the system hands out again, lowest   *)
(* first, once they are closed.  What travels over a socket is left out,   *)
(* except for whose reply comes next.  Callers use a node only when it is  *)
(* open, and open or close it while no other call on it is in progress;    *)
(* calls on different nodes overlap.                                       *)
(***************************************************************************)
EXTENDS Integers, Sequences, FiniteSets

CONSTANTS
  Channel,    \* the CogChannels, one in each storage node
  User,       \* the threads that call them
  Worker,     \* the threads of their buffers
  ChanOf,     \* ChanOf[w]: the channel that worker w belongs to
  Server,     \* the CogServers
  ServerOf,   \* ServerOf[c]: the one that the URI of c names
  None,       \* no channel, no connection
  MaxFd,      \* bound: descriptors of the process
  MaxCalls,   \* bound: calls of open, close and synchro
  MaxLost     \* bound: failures of servers

Thread == User \cup Worker
Fd == 1..MaxFd

\* A connection: its server, whether it works, and who reads from it next.
Conn == [srv: Server, live: BOOLEAN, next: Seq(Thread)]

ASSUME ThreadAssumption ==
  /\ User \cap Worker = {}
  /\ IsFiniteSet(Thread)
  /\ ChanOf \in [Worker -> Channel]
  /\ ServerOf \in [Channel -> Server]
  /\ None \notin Channel \cup Conn
ASSUME BoundAssumption == MaxFd \in Nat /\ MaxCalls \in Nat /\ MaxLost \in Nat

VARIABLES
  info,      \* _servinfo is set
  nsocks,    \* _nsocks
  sockfd,    \* s._sockfd of each thread; 0 for none
  owner,     \* s._owner of each thread
  desc,      \* the descriptor table: who reads next from each connection
  up,        \* the servers that accept connections
  op,        \* what each thread is doing
  pc,        \*   and how far it is
  chan,      \*   and for which channel
  dead,      \* the process has ended
  calls,     \* calls of the users                                 (history)
  lost,      \* failures of servers                                (history)
  used,      \* the nodes that each user has used                  (history)
  reused,    \* a node was opened by a thread that had a socket    (history)
  leaked     \* the descriptors that open_sock gave up             (history)

chanVars == <<info, nsocks>>
tlsVars  == <<sockfd, owner>>
callVars == <<op, pc, chan, calls, used, reused>>
envVars  == <<up, lost, leaked>>
vars == <<chanVars, tlsVars, desc, callVars, envVars, dead>>

Init ==
  /\ info = [c \in Channel |-> FALSE]
  /\ nsocks = [c \in Channel |-> 0]
  /\ sockfd = [t \in Thread |-> 0]
  /\ owner = [t \in Thread |-> None]
  /\ desc = [d \in Fd |-> None]
  /\ up \in SUBSET Server
  /\ op = [t \in Thread |-> "none"]
  /\ pc = [t \in Thread |-> IF t \in User THEN "ready" ELSE "gone"]
  /\ chan = [t \in Thread |-> None]
  /\ dead = FALSE
  /\ calls = 0 /\ lost = 0
  /\ used = [u \in User |-> {}]
  /\ reused = FALSE /\ leaked = {}

\* One socket for all the threads of the process.
SharedTls(t) == CHOOSE w \in Worker : TRUE

\* s is thread_local.
Tls(t) == t

MySock(t) == sockfd[Tls(t)]
SetSock(t, d) == sockfd' = [sockfd EXCEPT ![Tls(t)] = d]

\* The connection that a thread has its hands on.
Line(t) == desc[MySock(t)]

Connection(s, readers) == [srv |-> s, live |-> TRUE, next |-> readers]
Broken(s) == [srv |-> s, live |-> FALSE, next |-> <<>>]

FreeFd == {d \in Fd : desc[d] = None}
LowestFd == CHOOSE d \in FreeFd : \A e \in FreeFd : d <= e

\* close(): nothing happens when the descriptor is not open.
CloseFd(d) == desc' = IF d = 0 THEN desc ELSE [desc EXCEPT ![d] = None]

-----------------------------------------------------------------------------
(***************************************************************************)
(* Calls.                                                                  *)
(***************************************************************************)
Busy(c) == \E u \in User : chan[u] = c
Closing(c) == \E u \in User : chan[u] = c /\ op[u] = "close"

Begin(t, f, c, where) ==
  /\ ~dead
  /\ pc[t] = "ready"
  /\ op' = [op EXCEPT ![t] = f]
  /\ chan' = [chan EXCEPT ![t] = c]
  /\ pc' = [pc EXCEPT ![t] = where]

UserCall(u, f, c, where) ==
  /\ calls < MaxCalls
  /\ Begin(u, f, c, where)
  /\ calls' = calls + 1
  /\ used' = [used EXCEPT ![u] = @ \cup {c}]
  /\ UNCHANGED <<nsocks, tlsVars, desc, envVars, dead>>

\* The call returns, or throws.
Finish(t) ==
  /\ op' = [op EXCEPT ![t] = "none"]
  /\ chan' = [chan EXCEPT ![t] = None]
  /\ pc' = [pc EXCEPT ![t] = "ready"]
  /\ UNCHANGED <<calls, used, reused>>

Goto(t, where) == pc' = [pc EXCEPT ![t] = where] /\ UNCHANGED <<op, chan, calls, used, reused>>

\* An open that does not try the connection out.
OpenUntried(u, c) ==
  /\ ~info[c] /\ ~Busy(c)
  /\ UserCall(u, "open", c, "opened")
  /\ info' = [info EXCEPT ![c] = TRUE]
  /\ UNCHANGED reused

\* open_connection: the address is known, and the server is tried out.
Open(u, c) ==
  /\ ~info[c] /\ ~Busy(c)
  /\ UserCall(u, "open", c, "send")
  /\ info' = [info EXCEPT ![c] = TRUE]
  /\ reused' = (reused \/ MySock(u) # 0)

\* The probe's socket is closed, and not forgotten.
OpenedKeeps(u) ==
  /\ ~dead /\ op[u] = "open" /\ pc[u] = "opened"
  /\ CloseFd(MySock(u))
  /\ op' = [op EXCEPT ![u] = "none"]
  /\ chan' = [chan EXCEPT ![u] = None]
  /\ pc' = [t \in Thread |-> IF t = u \/ (t \in Worker /\ ChanOf[t] = chan[u])
                             THEN "ready" ELSE pc[t]]
  /\ UNCHANGED <<chanVars, tlsVars, calls, used, reused, envVars, dead>>

\* It is: close the socket again, and start the threads of the buffer.
Opened(u) ==
  /\ ~dead /\ op[u] = "open" /\ pc[u] = "opened"
  /\ CloseFd(MySock(u))
  /\ SetSock(u, 0)
  /\ op' = [op EXCEPT ![u] = "none"]
  /\ chan' = [chan EXCEPT ![u] = None]
  /\ pc' = [t \in Thread |-> IF t = u \/ (t \in Worker /\ ChanOf[t] = chan[u])
                             THEN "ready" ELSE pc[t]]
  /\ UNCHANGED <<chanVars, owner, calls, used, reused, envVars, dead>>

\* A clean-up that only forgets the socket.
OpenFailedForgets(u) ==
  /\ ~dead /\ op[u] = "open" /\ pc[u] = "cleanup"
  /\ info' = [info EXCEPT ![chan[u]] = FALSE]
  /\ SetSock(u, 0)
  /\ Finish(u)
  /\ UNCHANGED <<nsocks, owner, desc, envVars, dead>>

\* It is not: clean up and throw.  do_recv may have closed the socket already.
OpenFailed(u) ==
  /\ ~dead /\ op[u] = "open" /\ pc[u] = "cleanup"
  /\ info' = [info EXCEPT ![chan[u]] = FALSE]
  /\ CloseFd(MySock(u))
  /\ SetSock(u, 0)
  /\ Finish(u)
  /\ UNCHANGED <<nsocks, owner, envVars, dead>>

Synchro(u, c) ==
  /\ info[c]
  /\ \A v \in User : chan[v] = c => op[v] = "synchro"
  /\ UserCall(u, "synchro", c, "send")
  /\ UNCHANGED <<info, reused>>

\* reply_handler, for a message that some user put into the buffer, and that has a
\* reply.  (One of the noreply kind ends with do_send, and nothing comes back.)
Message(w) ==
  /\ info[ChanOf[w]] /\ ~Closing(ChanOf[w])
  /\ Begin(w, "message", ChanOf[w], "send")
  /\ UNCHANGED <<chanVars, tlsVars, desc, calls, used, reused, envVars, dead>>

\* close_connection: what is in the buffer is sent, and then its threads end.
Close(u, c) ==
  /\ info[c] /\ ~Busy(c)
  /\ UserCall(u, "close", c, "closing")
  /\ UNCHANGED <<info, reused>>

\* ~tlso, when a thread ends.
EndThread(t) ==
  /\ CloseFd(MySock(t))
  /\ nsocks' = IF MySock(t) # 0 /\ owner[Tls(t)] # None
               THEN [nsocks EXCEPT ![owner[Tls(t)]] = @ - 1] ELSE nsocks
  /\ SetSock(t, 0)
  /\ owner' = [owner EXCEPT ![Tls(t)] = None]

WorkerExit(w) ==
  /\ ~dead /\ pc[w] = "ready"
  /\ Closing(ChanOf[w])
  /\ EndThread(w)
  /\ Goto(w, "gone")
  /\ UNCHANGED <<info, envVars, dead>>

\* A close that does not wait for the threads.
ClosedEarly(u) ==
  /\ ~dead /\ op[u] = "close"
  /\ info' = [info EXCEPT ![chan[u]] = FALSE]
  /\ Finish(u)
  /\ UNCHANGED <<nsocks, tlsVars, desc, envVars, dead>>

\* _msg_buffer.close() has joined the threads; the server is forgotten.
Closed(u) ==
  /\ ~dead /\ op[u] = "close"
  /\ \A w \in Worker : ChanOf[w] = chan[u] => pc[w] = "gone"
  /\ info' = [info EXCEPT ![chan[u]] = FALSE]
  /\ Finish(u)
  /\ UNCHANGED <<nsocks, tlsVars, desc, envVars, dead>>

UserExit(u) ==
  /\ ~dead /\ pc[u] = "ready"
  /\ EndThread(u)
  /\ Goto(u, "gone")
  /\ UNCHANGED <<info, envVars, dead>>

-----------------------------------------------------------------------------
(***************************************************************************)
(* do_send, open_sock and do_recv.                                         *)
(***************************************************************************)
\* An exception: synchro passes it on, open cleans up first, and nobody
\* catches it in a thread of the buffer.
Throw(t) ==
  \/ op[t] = "synchro" /\ Finish(t) /\ UNCHANGED dead
  \/ op[t] = "open" /\ Goto(t, "cleanup") /\ UNCHANGED dead
  \/ op[t] = "message" /\ dead' = TRUE /\ UNCHANGED callVars

NeedsSock(t) == ~dead /\ pc[t] = "send" /\ MySock(t) = 0

\* open_sock: connect, ask for the s-expression shell, keep the socket.
OpenSock(t) ==
  /\ NeedsSock(t)
  /\ ServerOf[chan[t]] \in up
  /\ FreeFd # {}
  /\ desc' = [desc EXCEPT ![LowestFd] = Connection(ServerOf[chan[t]], <<t>>)]
  /\ SetSock(t, LowestFd)
  /\ owner' = [owner EXCEPT ![Tls(t)] = chan[t]]
  /\ Goto(t, "prompt")
  /\ UNCHANGED <<chanVars, envVars, dead>>

\* There is no server.
OpenSockFails(t) ==
  /\ NeedsSock(t)
  /\ ServerOf[chan[t]] \notin up
  /\ Throw(t)
  /\ UNCHANGED <<chanVars, tlsVars, desc, envVars>>

\* connect() succeeds and the first send() fails: the descriptor stays open.
OpenSockBreaks(t) ==
  /\ NeedsSock(t)
  /\ ServerOf[chan[t]] \in up
  /\ FreeFd # {} /\ lost < MaxLost
  /\ desc' = [desc EXCEPT ![LowestFd] = Broken(ServerOf[chan[t]])]
  /\ leaked' = leaked \cup {LowestFd}
  /\ lost' = lost + 1
  /\ Throw(t)
  /\ UNCHANGED <<chanVars, tlsVars, up>>

HasSock(t, where) == ~dead /\ pc[t] = where /\ MySock(t) # 0

\* do_send.  What is sent on a broken connection is lost.
DoSend(t) ==
  /\ HasSock(t, "send")
  /\ Line(t) # None
  /\ desc' = [desc EXCEPT ![MySock(t)].next = IF Line(t).live THEN Append(@, t) ELSE @]
  /\ Goto(t, "recv")
  /\ UNCHANGED <<chanVars, tlsVars, envVars, dead>>

DoSendFails(t) ==
  /\ HasSock(t, "send")
  /\ Line(t) # None => ~Line(t).live
  /\ Throw(t)
  /\ UNCHANGED <<chanVars, tlsVars, desc, envVars>>

\* A socket that is counted only when a thread of the buffer opens it.
RecvPromptWorkers(t) ==
  /\ HasSock(t, "prompt")
  /\ Line(t) # None /\ Line(t).next # <<>>
  /\ desc' = [desc EXCEPT ![MySock(t)].next = Tail(@)]
  /\ nsocks' = [nsocks EXCEPT ![chan[t]] = IF t \in Worker THEN @ + 1 ELSE @]
  /\ Goto(t, "send")
  /\ UNCHANGED <<info, tlsVars, envVars, dead>>

\* A prompt that is read up to a newline, which only a later reply has.
RecvPromptLine(t) ==
  /\ HasSock(t, "prompt")
  /\ Line(t) # None /\ Len(Line(t).next) > 1
  /\ desc' = [desc EXCEPT ![MySock(t)].next = <<>>]
  /\ nsocks' = [nsocks EXCEPT ![chan[t]] = @ + 1]
  /\ Goto(t, "send")
  /\ UNCHANGED <<info, tlsVars, envVars, dead>>

\* The last part of open_sock: throw the prompt away, and count the socket.
RecvPrompt(t) ==
  /\ HasSock(t, "prompt")
  /\ Line(t) # None /\ Line(t).next # <<>>
  /\ desc' = [desc EXCEPT ![MySock(t)].next = Tail(@)]
  /\ nsocks' = [nsocks EXCEPT ![chan[t]] = @ + 1]
  /\ Goto(t, "send")
  /\ UNCHANGED <<info, tlsVars, envVars, dead>>

\* The reply to whoever sent first.
DoRecv(t) ==
  /\ HasSock(t, "recv")
  /\ Line(t) # None /\ Line(t).next # <<>>
  /\ desc' = [desc EXCEPT ![MySock(t)].next = Tail(@)]
  /\ IF op[t] = "open" THEN Goto(t, "opened") ELSE Finish(t)
  /\ UNCHANGED <<chanVars, tlsVars, envVars, dead>>

\* The server has closed the connection: close the socket, and keep its
\* number.  Or recv() fails.
DoRecvFails(t) ==
  /\ HasSock(t, "recv") \/ HasSock(t, "prompt")
  /\ Line(t) # None => ~Line(t).live
  /\ CloseFd(MySock(t)) \/ UNCHANGED desc
  /\ Throw(t)
  /\ UNCHANGED <<chanVars, tlsVars, envVars>>

(***************************************************************************)
(* The servers.                                                            *)
(***************************************************************************)
ServerStop(s) ==
  /\ ~dead /\ s \in up /\ lost < MaxLost
  /\ up' = up \ {s}
  /\ lost' = lost + 1
  /\ desc' = [d \in Fd |-> IF desc[d] # None /\ desc[d].srv = s THEN Broken(s) ELSE desc[d]]
  /\ UNCHANGED <<chanVars, tlsVars, callVars, leaked, dead>>

ServerStart(s) ==
  /\ ~dead /\ s \notin up
  /\ up' = up \cup {s}
  /\ UNCHANGED <<chanVars, tlsVars, desc, callVars, lost, leaked, dead>>

-----------------------------------------------------------------------------
SockStep(t) ==
  \/ OpenSock(t)
  \/ OpenSockFails(t)
  \/ OpenSockBreaks(t)
  \/ DoSend(t)
  \/ DoSendFails(t)
  \/ RecvPrompt(t)
  \/ DoRecv(t)
  \/ DoRecvFails(t)

CallStep(u) == Opened(u) \/ OpenFailed(u) \/ Closed(u)

Next ==
  \/ \E u \in User, c \in Channel : Open(u, c) \/ Synchro(u, c) \/ Close(u, c)
  \/ \E u \in User : CallStep(u) \/ UserExit(u)
  \/ \E w \in Worker : Message(w) \/ WorkerExit(w)
  \/ \E t \in Thread : SockStep(t)
  \/ \E s \in Server : ServerStop(s) \/ ServerStart(s)

Spec == Init /\ [][Next]_vars

\* The threads of the process run, and servers answer.
Fairness ==
  /\ \A t \in Thread : WF_vars(SockStep(t))
  /\ \A u \in User : WF_vars(CallStep(u))
  /\ \A w \in Worker : WF_vars(WorkerExit(w))

FairSpec == Spec /\ Fairness

-----------------------------------------------------------------------------
(***************************************************************************)
(* Properties.                                                             *)
(***************************************************************************)
Types ==
  /\ info \in [Channel -> BOOLEAN]
  /\ nsocks \in [Channel -> Int]
  /\ sockfd \in [Thread -> 0..MaxFd]
  /\ owner \in [Thread -> Channel \cup {None}]
  /\ desc \in [Fd -> Conn \cup {None}]
  /\ up \subseteq Server /\ dead \in BOOLEAN /\ reused \in BOOLEAN
  /\ op \in [Thread -> {"none", "open", "synchro", "close", "message"}]
  /\ pc \in [Thread -> {"ready", "send", "prompt", "recv", "opened", "cleanup",
                        "closing", "gone"}]
  /\ chan \in [Thread -> Channel \cup {None}]
  /\ used \in [User -> SUBSET Channel]
  /\ calls \in 0..MaxCalls /\ lost \in 0..MaxLost /\ leaked \subseteq Fd

(***************************************************************************)
(* Types; and the threads of a buffer exist only while its channel is      *)
(* open, so that none of them can use a socket of an earlier connection.   *)
(***************************************************************************)
TypeOK ==
  /\ Types
  /\ \A t \in Thread : op[t] # "none" <=> chan[t] # None
  /\ \A w \in Worker : pc[w] # "gone" => info[ChanOf[w]]

(***************************************************************************)
(* As long as no server has failed, no two threads have their hands on one *)
(* socket, and no thread on a socket that is closed: although open closes  *)
(* sockets of its own thread that other calls opened, threads end at any   *)
(* time, and the system hands out the numbers again.                       *)
(***************************************************************************)
SocketsApart ==
  lost = 0 =>
    \A t \in Thread : sockfd[t] # 0 =>
      /\ desc[sockfd[t]] # None
      /\ \A v \in Thread \ {t} : sockfd[v] # sockfd[t]

(***************************************************************************)
(* What a thread sends goes to the server of the node it was meant for.    *)
(* This is always so for the threads of a buffer, and for the users that   *)
(* have used one node only: s is static, and knows nothing of nodes.       *)
(***************************************************************************)
NodesOf(t) == IF t \in Worker THEN {ChanOf[t]} ELSE used[t]

TalksHome ==
  lost = 0 =>
    \A t \in Thread : MySock(t) # 0 /\ Cardinality(NodesOf(t)) = 1 =>
      desc[MySock(t)].srv \in {ServerOf[c] : c \in NodesOf(t)}

(***************************************************************************)
(* "You can talk to multiple servers at once" (README.md): what open and   *)
(* synchro send goes to the server of the node that they are called on,    *)
(* whichever nodes the thread has used before.  For open() this is also    *)
(* what it takes to "find out immediately if a cogserver is actually       *)
(* there" (CogChannel.cc).                                                 *)
(***************************************************************************)
ManyServers ==
  lost = 0 =>
    \A u \in User : op[u] \in {"open", "synchro"} /\ pc[u] = "recv" =>
      Line(u).srv = ServerOf[chan[u]]

(***************************************************************************)
(* The count of sockets that monitor() reports covers all that are open:   *)
(* a socket is counted before it is used, and a thread that ends takes it  *)
(* off the count of the channel that opened it, for whatever node the      *)
(* thread has worked since.                                                *)
(***************************************************************************)
Counted(c) == {t \in Thread : sockfd[t] # 0 /\ owner[t] = c /\ pc[t] # "prompt"}

NSocksCovers ==
  lost = 0 => \A c \in Channel : Cardinality(Counted(c)) <= nsocks[c]

(***************************************************************************)
(* open() finds out whether there is a server, before a thread that cannot *)
(* pass on an exception has to: the process ends only if a server failed   *)
(* after that, or if the thread that called open() had a socket already,   *)
(* and so tried out that one.                                              *)
(***************************************************************************)
Survives == dead => lost > 0 \/ reused

(***************************************************************************)
(* Every descriptor that is open is in the hands of a thread, which will   *)
(* close it when it ends, whichever step of a call fails; but for those    *)
(* that open_sock gives up when the first send() fails.                    *)
(***************************************************************************)
NoLeak ==
  \A d \in Fd : desc[d] # None => d \in leaked \/ \E t \in Thread : sockfd[t] = d

(***************************************************************************)
(* Every open, close and synchro returns, until a server fails: then a     *)
(* thread may wait for a reply that another one has taken, because both    *)
(* have the same number in their hands.                                    *)
(***************************************************************************)
CallsReturn == \A u \in User : op[u] # "none" ~> op[u] = "none" \/ dead \/ lost > 0

=============================================================================
