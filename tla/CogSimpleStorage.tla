-------------------------- MODULE CogSimpleStorage --------------------------
(***************************************************************************)
(* CogSimpleStorage (the CogSimpleStorageNode): one socket that all the    *)
(* calling threads share under the mutex _mtx, and a cache of the frames   *)
(* (AtomSpaces) that the CogServer was told of.                            *)
(*                                                                         *)
(* An operation is a sequence of steps; a thread may be overtaken by the   *)
(* others between any two.  The Values on an Atom are known by a stamp:    *)
(* the number of changes the server had seen when they were set.  The      *)
(* effect of a command on the server is that of the CogServer's command    *)
(* interpreter, which is external.  _mtx_frame is only held within a step. *)
(***************************************************************************)
EXTENDS Naturals, Integers, Sequences, FiniteSets

CONSTANTS
  User,        \* the threads that share the storage node
  Node, Link,  \* the Atoms; every Link holds all Nodes
  Space,       \* the AtomSpaces an Atom may live in
  Main,        \* _atom_space, the one that holds the storage node
  Below,       \* Below[s]: s and the AtomSpaces it is built on
  Home,        \* Home[a]: the AtomSpace that Atom a lives in
  None,        \* no thread, no frame, no argument
  MaxCalls,    \* bound: calls of storage operations
  MaxFew,      \* bound: calls, as long as all of them are of Few
  Few,         \* operations that may make up the longer runs
  MaxLost,     \* bound: connections that the server drops
  Menu,        \* the operations that the callers use
  Alone,       \* those they only use while no other call is in progress
  ServerHas    \* the sets of Atoms that the server may start with

Atom == Node \cup Link
WithOutgoing(a) == {a} \cup (IF a \in Link THEN Node ELSE {})

ASSUME SpaceAssumption ==
  /\ Main \in Space
  /\ \A s \in Space : s \in Below[s] /\ Below[s] \subseteq Space
  /\ \A s \in Space : \A t \in Below[s] : Below[t] \subseteq Below[s]
  /\ \A a \in Atom : Home[a] \in Space
  /\ None \notin User \cup Space \cup Atom
ASSUME ContentAssumption ==
  \A S \in ServerHas : S \subseteq Atom /\ (S \cap Link # {} => Node \subseteq S)
ASSUME BoundAssumption == MaxCalls \in Nat /\ MaxFew \in Nat /\ MaxLost \in Nat

VARIABLES
  sockfd,   \* _sockfd: -1, 0, or 1 for a descriptor
  mtx,      \* the thread that holds _mtx
  multi,    \* _multi_space
  frames,   \* the keys of _frame_map and of _fid_map
  op,       \* the operation each thread is in
  todo,     \* what is left of it
  wire,     \* sent, and not yet run by the server
  back,     \* replies not yet received
  eof,      \* the server has closed the connection
  known,    \* the Atoms of the server
  valued,   \*   those that have a Value
  val,      \*   the stamps of the last change of it
  ver,      \*   the changes so far
  defined,  \*   the frames it knows
  have,     \* the Atoms of the local AtomSpace
  lval,     \*   the stamps of their Values
  dead,     \* the process has ended
  calls,    \* operations called                             (history)
  few,      \* all of them are of Few                        (history)
  lost,     \* connections dropped                           (history)
  raced     \* a store ran at the same time as kill_data, or as another
            \* store before _multi_space was set              (history)

userVars == <<op, calls, few, raced, dead>>
sockVars == <<wire, back, eof, lost>>
srvVars  == <<known, valued, val, ver, defined>>
locVars  == <<have, lval>>
cacheVars == <<multi, frames>>
vars == <<sockfd, mtx, todo, userVars, sockVars, srvVars, locVars, cacheVars>>

\* A node that was just made, or one that was opened since.
Init ==
  /\ sockfd \in {-1, 1} /\ mtx = None /\ multi = FALSE /\ frames = {}
  /\ op = [u \in User |-> "none"]
  /\ todo = [u \in User |-> <<>>]
  /\ wire = <<>> /\ back = <<>> /\ eof = FALSE
  /\ known \in ServerHas /\ valued = known
  /\ val = [a \in Atom |-> 0] /\ ver = 0
  /\ defined = {}
  /\ have = Node /\ lval = [a \in Atom |-> 0]
  /\ calls = 0 /\ few = TRUE /\ lost = 0 /\ raced = FALSE
  /\ dead = FALSE

connected == 0 < sockfd

-----------------------------------------------------------------------------
(***************************************************************************)
(* The steps that operations are made of.                                  *)
(***************************************************************************)
Send(cmd, arg)  == <<[do |-> "send", cmd |-> cmd, arg |-> arg, frame |-> None]>>
Step(do)        == <<[do |-> do]>>
Locked(steps)   == Step("lock") \o steps \o Step("unlock")

\* A request, and what is done with its reply.
Ask(cmd, arg, then) ==
  Send(cmd, arg) \o <<[do |-> "recv", cmd |-> cmd, arg |-> arg, then |-> then]>>

\* writeFrame(s), if _multi_space or if forced.
WriteFrame(s, force) == <<[do |-> "find", space |-> s, force |-> force]>>

\* Encode a message about Atom a that names a frame if _multi_space, send it.
Encode(cmd, a, s) == <<[do |-> "encode", cmd |-> cmd, arg |-> a, space |-> s]>>

Stores == {"storeAtom", "storeValue", "updateValue", "set_proxy",
           "storeAtomSpace", "storeFrameDAG"}

\* The operations that use the socket or the maps without the lock that guards them.
Unlocked == {"open", "close", "loadFrameDAG", "proxy_open", "proxy_close"}

\* A call of operation f.  Callers may agree to use some operations only while
\* no other call is in progress.
Call(u, f, steps) ==
  /\ f \in Menu
  /\ few' = (few /\ f \in Few)
  /\ calls < (IF few' THEN MaxFew ELSE MaxCalls)
  /\ op[u] = "none"
  /\ \A v \in User : op[v] \notin Alone /\ (f \in Alone => op[v] = "none")
  /\ calls' = calls + 1
  /\ op' = [op EXCEPT ![u] = f]
  /\ todo' = [todo EXCEPT ![u] = steps]
  /\ raced' = \/ raced
              \/ f = "kill_data" /\ \E v \in User : op[v] \in Stores
              \/ f \in Stores /\ \E v \in User :
                   op[v] = "kill_data" \/ (op[v] \in Stores /\ ~multi)
  /\ UNCHANGED <<sockfd, mtx, sockVars, srvVars, locVars, frames, dead>>

Plain == UNCHANGED multi

\* "Are there multiple AtomSpaces involved?"
SetMulti(s) == multi' = (multi \/ s # Main)

StoreSteps(a) == WriteFrame(Home[a], FALSE) \o Encode("cog-set-values!", a, Home[a])

StoreAtom(u, a) == Call(u, "storeAtom", StoreSteps(a)) /\ SetMulti(Home[a])

\* writeFrame gets the frame of the Atom.  The Atom is encoded without a frame, and
\* the key with that of the key: s, any frame.
StoreValue(u, a, s) ==
  /\ Call(u, "storeValue", WriteFrame(Home[a], FALSE) \o Encode("cog-set-value!", a, s))
  /\ SetMulti(Home[a])

UpdateValue(u, a, s) ==
  /\ Call(u, "updateValue", WriteFrame(Home[a], FALSE) \o Encode("cog-update-value!", a, s))
  /\ SetMulti(Home[a])

SetProxy(u, a) ==
  /\ Call(u, "set_proxy",
          StoreSteps(a) \o Locked(Ask("cog-set-proxy!", a, "drop")))
  /\ SetMulti(Home[a])

\* A loadValue that sets the Value once the lock is released.
LoadValueLate(u, a) ==
  Call(u, "loadValue", Locked(Ask("cog-value", a, "keep"))) /\ Plain

LoadValue(u, a) ==
  Call(u, "loadValue", Locked(Ask("cog-value", a, "set"))) /\ Plain

\* The Value is set after the lock is released.
RunQuery(u, a) ==
  Call(u, "runQuery", Locked(Ask("cog-execute-cache!", a, "keep"))) /\ Plain

\* A removeAtom that does not wait for the response.
RemoveAtomNoFlush(u, a, recursive) ==
  Call(u, "removeAtom", Locked(Send("cog-extract!", a))) /\ Plain

RemoveAtom(u, a, recursive) ==
  /\ Call(u, "removeAtom",
          Locked(Ask(IF recursive THEN "cog-extract-recursive!" ELSE "cog-extract!", a, "drop")))
  /\ Plain

FetchKeys(a) == Ask("cog-keys->alist", a, "keys")

GetAtom(u, a) ==
  /\ Call(u, "getAtom", Locked(Ask("cog-node", a, "probe") \o FetchKeys(a)))
  /\ Plain

\* The request, then decode_atom_list.
List(cmd, arg) == Ask(cmd, arg, "list")

FetchIncoming(u, a, cmd) ==
  Call(u, "fetchIncoming", Locked(List(cmd, a))) /\ Plain

LoadType(u, type) == Call(u, "loadType", Locked(List("cog-get-atoms", type))) /\ Plain

\* A loadAtomSpace that lets others in between the Nodes and the Links.
LoadAtomSpaceTwice(u) ==
  /\ Call(u, "loadAtomSpace",
          Locked(List("cog-get-atoms", "Node")) \o Locked(List("cog-get-atoms", "Link")))
  /\ Plain

LoadAtomSpace(u) ==
  /\ Call(u, "loadAtomSpace",
          Locked(List("cog-get-atoms", "Node") \o List("cog-get-atoms", "Link")))
  /\ Plain

\* One storeAtom for each Atom that the table holds at the start.
StoreAtomSpace(u) ==
  Call(u, "storeAtomSpace", <<[do |-> "each", rest |-> have]>>) /\ Plain

KillData(u) ==
  /\ Call(u, "kill_data",
          Locked(Ask("cog-atomspace-clear", None, "drop")
                   \o Step("single") \o Step("forget")))
  /\ Plain

StoreFrameDAG(u, s) ==
  Call(u, "storeFrameDAG", WriteFrame(s, TRUE) \o Step("several")) /\ Plain

LoadFrameDAG(u) ==
  /\ Call(u, "loadFrameDAG", Locked(Ask("cog-atomspace", None, "frames")))
  /\ multi' = TRUE

BarrierSteps == Locked(Send("cog-barrier", None))

Barrier(u) == Call(u, "barrier", BarrierSteps) /\ Plain

\* These do not take the lock around the request and its reply.
ProxyOpenSteps  == Ask("cog-proxy-open", None, "drop")
ProxyCloseSteps == BarrierSteps \o Ask("cog-proxy-close", None, "drop")

ProxyOpen(u)  == Call(u, "proxy_open", ProxyOpenSteps) /\ Plain
ProxyClose(u) == Call(u, "proxy_close", ProxyCloseSteps) /\ Plain

Close(u) ==
  /\ Call(u, "close", (IF connected THEN ProxyCloseSteps ELSE <<>>) \o Step("shut"))
  /\ Plain

Open(u) == ~connected /\ Call(u, "open", Locked(Step("connect"))) /\ Plain

-----------------------------------------------------------------------------
(***************************************************************************)
(* Running the steps of an operation.                                      *)
(***************************************************************************)
At(u, do) == todo[u] # <<>> /\ Head(todo[u]).do = do

\* What is left after a step; the operation returns at the end.
Advance(u, steps) ==
  /\ todo' = [todo EXCEPT ![u] = steps]
  /\ op' = [op EXCEPT ![u] = IF steps = <<>> THEN "none" ELSE @]
  /\ UNCHANGED <<calls, few, raced, dead>>

StepDone(u) == Advance(u, Tail(todo[u]))

\* An exception that leaves _mtx locked.
ThrowLocked(u) == Advance(u, <<>>) /\ UNCHANGED mtx

\* An IOException unwinds the operation; the lock_guard lets go of _mtx.
Throw(u) ==
  /\ Advance(u, <<>>)
  /\ mtx' = IF mtx = u THEN None ELSE mtx

LockMtx(u) ==
  /\ At(u, "lock")
  /\ mtx = None
  /\ mtx' = u
  /\ StepDone(u)
  /\ UNCHANGED <<sockfd, sockVars, srvVars, locVars, cacheVars>>

UnlockMtx(u) ==
  /\ At(u, "unlock")
  /\ mtx' = None
  /\ StepDone(u)
  /\ UNCHANGED <<sockfd, sockVars, srvVars, locVars, cacheVars>>

Message(u, s) == [by |-> u, cmd |-> s.cmd, arg |-> s.arg, frame |-> s.frame]

\* do_send: what is sent to a peer that is gone is lost, or send() fails.
DoSend(u) ==
  /\ At(u, "send")
  /\ \/ /\ connected
        /\ wire' = IF eof THEN wire ELSE Append(wire, Message(u, Head(todo[u])))
        /\ StepDone(u)
        /\ UNCHANGED mtx
     \/ /\ eof \/ ~connected
        /\ Throw(u)
        /\ UNCHANGED wire
  /\ UNCHANGED <<sockfd, back, eof, lost, srvVars, locVars, cacheVars>>

\* send() is called without MSG_NOSIGNAL: once the peer has answered something that
\* came too late with a reset, SIGPIPE ends the process.
SendSignals(u) ==
  /\ At(u, "send")
  /\ connected /\ eof
  /\ dead' = TRUE
  /\ UNCHANGED <<sockfd, mtx, todo, op, calls, few, raced, sockVars, srvVars, locVars, cacheVars>>

\* do_recv: recv() takes what has arrived, and that ends with a newline; the
\* caller decodes the first expression of it.  A reply that comes in pieces is
\* taken as a whole: when do_recv manages to is the subject of CogRecv.
DoRecv(u, then) ==
  /\ At(u, "recv")
  /\ Head(todo[u]).then = then
  /\ connected
  /\ \E k \in 1..Len(back) : back' = SubSeq(back, k + 1, Len(back))
  /\ UNCHANGED <<sockfd, mtx, wire, eof, lost, srvVars, multi>>

\* do_recv throws when another thread has closed the socket, when the server
\* has closed the connection, and when the connection was reset.
DoRecvFails(u) ==
  /\ At(u, "recv")
  /\ \/ ~connected /\ UNCHANGED sockfd
     \/ connected /\ eof /\ back = <<>> /\ sockfd' \in {0, sockfd}
  /\ Throw(u)
  /\ UNCHANGED <<sockVars, srvVars, locVars, cacheVars>>

RecvDrop(u) ==
  /\ DoRecv(u, "drop")
  /\ StepDone(u)
  /\ UNCHANGED <<locVars, frames>>

\* The Value in the reply is set by a step after the last one.
RecvKeep(u) ==
  /\ DoRecv(u, "keep")
  /\ Advance(u, Tail(todo[u])
                  \o <<[do |-> "set", arg |-> Head(todo[u]).arg, stamp |-> back[1].stamp]>>)
  /\ UNCHANGED <<locVars, frames>>

\* loadValue sets what came, a Value or none; ro_decode_alist the keys that came.
RecvSet(u, then) ==
  /\ DoRecv(u, then)
  /\ lval' = IF then = "keys" /\ back[1].set = {} THEN lval
             ELSE [lval EXCEPT ![Head(todo[u]).arg] = back[1].stamp]
  /\ StepDone(u)
  /\ UNCHANGED <<have, frames>>

SetValue(u) ==
  /\ At(u, "set")
  /\ lval' = [lval EXCEPT ![Head(todo[u]).arg] = Head(todo[u]).stamp]
  /\ StepDone(u)
  /\ UNCHANGED <<sockfd, mtx, sockVars, srvVars, have, cacheVars>>

\* getAtom returns if the server does not know the Atom.
RecvProbe(u) ==
  /\ DoRecv(u, "probe")
  /\ Advance(u, IF back[1].set = {} THEN Step("unlock") ELSE Tail(todo[u]))
  /\ UNCHANGED <<locVars, frames>>

RecvList(u) ==
  /\ DoRecv(u, "list")
  /\ Advance(u, <<[do |-> "next", rest |-> back[1].set]>> \o Tail(todo[u]))
  /\ UNCHANGED <<locVars, frames>>

\* decode_atom_list: add the next Atom of the list, and get its keys.  (An Atom that
\* decodes into a frame of _fid_map is there already; have is all the frames.)
DecodeAtom(u) ==
  /\ At(u, "next")
  /\ LET rest == Head(todo[u]).rest
     IN IF rest = {}
        THEN StepDone(u) /\ UNCHANGED have
        ELSE \E a \in rest :
               /\ have' = have \cup WithOutgoing(a)
               /\ Advance(u, FetchKeys(a) \o <<[do |-> "next", rest |-> rest \ {a}]>>
                               \o Tail(todo[u]))
  /\ UNCHANGED <<sockfd, mtx, sockVars, srvVars, lval, cacheVars>>

\* loadFrameDAG adds the frames of the server to both maps.
RecvFrames(u) ==
  /\ DoRecv(u, "frames")
  /\ frames' = frames \cup back[1].set
  /\ StepDone(u)
  /\ UNCHANGED locVars

\* The loop of storeAtomSpace.
StoreNext(u) ==
  /\ At(u, "each")
  /\ LET rest == Head(todo[u]).rest
     IN IF rest = {}
        THEN StepDone(u) /\ UNCHANGED multi
        ELSE \E a \in rest :
               /\ SetMulti(Home[a])
               /\ Advance(u, StoreSteps(a) \o <<[do |-> "each", rest |-> rest \ {a}]>>)
  /\ UNCHANGED <<sockfd, mtx, sockVars, srvVars, locVars, frames>>

(***************************************************************************)
(* Frames.                                                                 *)
(***************************************************************************)
\* The frame goes into the cache before the server is told of it.
DefineCachesFirst(s) == <<[do |-> "cache", rest |-> Below[s]]>> \o Locked(Send("define", s))

\* Tell the server of the frame, and only then cache it.
Define(s) == Locked(Send("define", s)) \o <<[do |-> "cache", rest |-> Below[s]]>>

\* writeFrame: a frame that is not in the cache is sent.
FindFrame(u) ==
  /\ At(u, "find")
  /\ LET s == Head(todo[u]).space
     IN IF (multi \/ Head(todo[u]).force) /\ s \notin frames
        THEN multi' = TRUE /\ Advance(u, Define(s) \o Tail(todo[u]))
        ELSE StepDone(u) /\ UNCHANGED multi
  /\ UNCHANGED <<sockfd, mtx, sockVars, srvVars, locVars, frames>>

\* cacheFrame: a frame goes in after those that it is built on.
CacheFrame(u) ==
  /\ At(u, "cache")
  /\ LET rest == Head(todo[u]).rest
     IN IF rest = {}
        THEN StepDone(u) /\ UNCHANGED frames
        ELSE \E s \in rest :
               /\ Below[s] \cap rest = {s}
               /\ frames' = frames \cup {s}
               /\ Advance(u, <<[do |-> "cache", rest |-> rest \ {s}]>> \o Tail(todo[u]))
  /\ UNCHANGED <<sockfd, mtx, sockVars, srvVars, locVars, multi>>

EncodeAtom(u) ==
  /\ At(u, "encode")
  /\ LET s == Head(todo[u])
     IN Advance(u, Locked(<<[do |-> "send", cmd |-> s.cmd, arg |-> s.arg,
                             frame |-> IF multi THEN s.space ELSE None]>>)
                     \o Tail(todo[u]))
  /\ UNCHANGED <<sockfd, mtx, sockVars, srvVars, locVars, cacheVars>>

\* kill_data: _multi_space = false, then the maps are cleared.  storeFrameDAG:
\* _multi_space = true.
SetFlags(u) ==
  /\ \/ At(u, "single") /\ multi' = FALSE /\ UNCHANGED frames
     \/ At(u, "several") /\ multi' = TRUE /\ UNCHANGED frames
     \/ At(u, "forget") /\ frames' = {} /\ UNCHANGED multi
  /\ StepDone(u)
  /\ UNCHANGED <<sockfd, mtx, sockVars, srvVars, locVars>>

(***************************************************************************)
(* The connection.                                                         *)
(***************************************************************************)
CloseSock(u) ==
  /\ At(u, "shut")
  /\ sockfd' = -1
  /\ StepDone(u)
  /\ UNCHANGED <<mtx, sockVars, srvVars, locVars, cacheVars>>

\* open: connect and read the prompt, or throw, _sockfd untouched if there is no such
\* host; an exception that comes once the connection is there, and lost again, leaves
\* _sockfd as send() or do_recv left it.
Connect(u) ==
  /\ At(u, "connect")
  /\ \/ sockfd' = 1 /\ wire' = <<>> /\ back' = <<>> /\ eof' = FALSE
        /\ StepDone(u) /\ UNCHANGED <<mtx, lost>>
     \/ sockfd' \in {-1, sockfd} /\ Throw(u) /\ UNCHANGED <<wire, back, eof, lost>>
     \/ /\ lost < MaxLost /\ lost' = lost + 1
        /\ sockfd' \in {0, 1} /\ wire' = <<>> /\ back' = <<>> /\ eof' = TRUE
        /\ Throw(u)
  /\ UNCHANGED <<srvVars, locVars, cacheVars>>

(***************************************************************************)
(* The CogServer.                                                          *)
(***************************************************************************)
OfType(c) == IF c = "Node" THEN Node ELSE Link
Incoming(a) == IF a \in Node THEN Link ELSE {}

Silent == {"cog-set-values!", "cog-set-value!", "cog-update-value!", "define", "cog-barrier"}

Answer(m) ==
  [by |-> m.by, cmd |-> m.cmd, arg |-> m.arg,
   set |-> CASE m.cmd = "cog-node" -> known \cap {m.arg}
             [] m.cmd = "cog-keys->alist" -> valued \cap {m.arg}
             [] m.cmd = "cog-get-atoms" -> known \cap OfType(m.arg)
             [] m.cmd \in {"cog-incoming-set", "cog-incoming-by-type"}
                  -> known \cap Incoming(m.arg)
             [] m.cmd = "cog-atomspace" -> defined
             [] OTHER -> {},
   stamp |-> IF m.cmd \in {"cog-value", "cog-keys->alist", "cog-execute-cache!"}
             THEN val'[m.arg] ELSE 0]

Put(a) ==
  /\ known' = known \cup WithOutgoing(a)
  /\ valued' = valued \cup {a}
  /\ val' = [val EXCEPT ![a] = ver + 1]
  /\ ver' = ver + 1

Remove(S) ==
  /\ known' = known \ S
  /\ valued' = valued \ S
  /\ val' = [a \in Atom |-> IF a \in S THEN ver + 1 ELSE val[a]]
  /\ ver' = ver + 1

Apply(m) ==
  /\ CASE m.cmd \in {"cog-set-values!", "cog-set-value!", "cog-update-value!",
                     "cog-execute-cache!"} -> Put(m.arg)
       [] m.cmd = "cog-extract!" /\ Incoming(m.arg) \cap known = {} -> Remove({m.arg})
       [] m.cmd = "cog-extract-recursive!" -> Remove({m.arg} \cup Incoming(m.arg))
       [] m.cmd = "cog-atomspace-clear" -> Remove(Atom)
       [] OTHER -> UNCHANGED <<known, valued, val, ver>>
  /\ defined' = CASE m.cmd = "define" -> defined \cup Below[m.arg]
                  [] m.cmd = "cog-atomspace-clear" -> {}
                  [] OTHER -> defined

ServerExec ==
  /\ wire # <<>>
  /\ Apply(Head(wire))
  /\ wire' = Tail(wire)
  /\ back' = IF Head(wire).cmd \in Silent THEN back ELSE Append(back, Answer(Head(wire)))
  /\ UNCHANGED <<sockfd, mtx, todo, eof, lost, userVars, locVars, cacheVars>>

\* The server closes the connection; what it had not run is lost.
ServerDrops ==
  /\ ~eof
  /\ lost < MaxLost
  /\ lost' = lost + 1
  /\ eof' = TRUE
  /\ wire' = <<>>
  /\ UNCHANGED <<sockfd, mtx, todo, back, userVars, srvVars, locVars, cacheVars>>

-----------------------------------------------------------------------------
Operation(u) ==
  /\ ~dead
  /\ \/ \E a \in Atom :
          \/ StoreAtom(u, a)
          \/ \E s \in Space : StoreValue(u, a, s) \/ UpdateValue(u, a, s)
          \/ SetProxy(u, a)
          \/ LoadValue(u, a)
          \/ RunQuery(u, a)
          \/ \E r \in BOOLEAN : RemoveAtom(u, a, r)
          \/ GetAtom(u, a)
          \/ \E c \in {"cog-incoming-set", "cog-incoming-by-type"} : FetchIncoming(u, a, c)
     \/ \E type \in {"Node", "Link"} : LoadType(u, type)
     \/ LoadAtomSpace(u)
     \/ StoreAtomSpace(u)
     \/ KillData(u)
     \/ \E s \in Space : StoreFrameDAG(u, s)
     \/ LoadFrameDAG(u)
     \/ Barrier(u)
     \/ ProxyOpen(u)
     \/ ProxyClose(u)
     \/ Close(u)
     \/ Open(u)

UserStep(u) ==
  /\ ~dead
  /\ \/ LockMtx(u)
     \/ UnlockMtx(u)
     \/ DoSend(u)
     \/ SendSignals(u)
     \/ DoRecvFails(u)
     \/ RecvDrop(u)
     \/ RecvKeep(u)
     \/ \E then \in {"set", "keys"} : RecvSet(u, then)
     \/ RecvProbe(u)
     \/ RecvList(u)
     \/ RecvFrames(u)
     \/ SetValue(u)
     \/ DecodeAtom(u)
     \/ StoreNext(u)
     \/ FindFrame(u)
     \/ CacheFrame(u)
     \/ EncodeAtom(u)
     \/ SetFlags(u)
     \/ CloseSock(u)
     \/ Connect(u)

Next ==
  \/ \E u \in User : Operation(u) \/ UserStep(u)
  \/ ServerExec
  \/ ServerDrops

Spec == Init /\ [][Next]_vars

\* The calling threads run, and the server answers.
Fairness == (\A u \in User : WF_vars(UserStep(u))) /\ WF_vars(ServerExec)

FairSpec == Spec /\ Fairness

-----------------------------------------------------------------------------
(***************************************************************************)
(* Properties.                                                             *)
(***************************************************************************)
(***************************************************************************)
(* Types; _mtx is held by a thread exactly while it has to unlock it, so   *)
(* that every path out of an operation, the exceptions too, lets go of it. *)
(***************************************************************************)
TypeOK ==
  /\ sockfd \in {-1, 0, 1} /\ multi \in BOOLEAN /\ eof \in BOOLEAN /\ raced \in BOOLEAN
  /\ mtx \in User \cup {None}
  /\ frames \subseteq Space /\ defined \subseteq Space
  /\ valued \subseteq known /\ known \subseteq Atom /\ have \subseteq Atom
  /\ ver \in Nat /\ val \in [Atom -> 0..ver] /\ lval \in [Atom -> 0..ver]
  /\ calls \in Nat /\ few \in BOOLEAN /\ lost \in 0..MaxLost
  /\ dead \in BOOLEAN
  /\ \A u \in User :
       /\ op[u] = "none" <=> todo[u] = <<>>
       /\ mtx = u <=> \E i \in DOMAIN todo[u] :
                        /\ todo[u][i].do = "unlock"
                        /\ \A j \in 1..(i - 1) : todo[u][j].do # "lock"

(***************************************************************************)
(* Threads that share the socket do not get confused about whose data is   *)
(* whose: what a thread that waits in do_recv finds on the socket is the   *)
(* reply to the request that it sent, and nothing else.                    *)
(***************************************************************************)
OwnReply ==
  \A u \in User :
    LET s == Head(todo[u])
    IN At(u, "recv") /\ back # <<>> =>
         /\ Len(back) = 1
         /\ back[1].by = u /\ back[1].cmd = s.cmd /\ back[1].arg = s.arg

(***************************************************************************)
(* loadAtomSpace is a snapshot: however many threads store Atoms at the    *)
(* time, the table holds all the Atoms that the server has when it ends.   *)
(* This is about whole replies: decode_atom_list says of itself that it    *)
(* fails on a large list, which do_recv may cut (WholeReply of CogRecv).   *)
(***************************************************************************)
LoadIsSnapshot ==
  \A u \in User :
    op[u] = "loadAtomSpace" /\ At(u, "unlock") => known \subseteq have

(***************************************************************************)
(* Once _multi_space is set, a message never names the frame of its Atom,  *)
(* or one that this is built on, unless the server was told of it,         *)
(* although the threads that store look in the cache, send the definition  *)
(* and fill the cache under three separate locks, and kill_data empties    *)
(* the cache.  Only a connection that the server drops may take a          *)
(* definition with it that the cache, and a later connection, count on.    *)
(* The frame of a key that lives elsewhere is named without being sent.    *)
(***************************************************************************)
FramesKnown ==
  wire # <<>> /\ ~raced /\ lost = 0 =>
    LET m == Head(wire)
    IN m.frame # None /\ m.frame \in Below[Home[m.arg]] => m.frame \in defined

(***************************************************************************)
(* A Value that was fetched is never replaced by an older one, although    *)
(* several threads fetch it at the same time.  Only runQuery, which sets   *)
(* its result after it has let go of the lock, may do that.                *)
(***************************************************************************)
NeverStale ==
  [][\A a \in Atom : lval'[a] < lval[a] =>
       \E u \in User : op[u] = "runQuery" /\ At(u, "set") /\ SetValue(u)]_vars

(***************************************************************************)
(* Every operation returns to its caller, with an exception if need be,    *)
(* when the server closes the connection at any moment: unless it sends    *)
(* once more on that connection, and SIGPIPE ends the process.             *)
(***************************************************************************)
CallsReturn == \A u \in User : op[u] # "none" ~> op[u] = "none" \/ dead

=============================================================================
