----------------------------- MODULE CogStorage -----------------------------
(***************************************************************************)
(* CogStorage (the CogStorageNode): the operations of a storage node as    *)
(* sequences of calls on a CogChannel, the callbacks that decode replies   *)
(* into local AtomSpaces, and the remote AtomSpace that the CogServer      *)
(* keeps.                                                                  *)
(*                                                                         *)
(* An Atom has one key; the Value there is a number, 0 for none.  Every    *)
(* Link holds all Nodes.  The effect of a command on the remote AtomSpace  *)
(* is that of the CogServer's command interpreter, which is external.      *)
(***************************************************************************)
EXTENDS Naturals, Sequences, FiniteSets

CONSTANTS
  Worker, User, NoMsg, SockBuf, MaxBarriers,     \* see CogChannel
  Node, Link,   \* the Atoms
  Table,        \* the local AtomSpaces
  MaxVal,       \* bound: Values are 0..MaxVal
  MaxCalls,     \* bound: calls of storage operations
  Menu,         \* the operations that the callers use
  ServerHas,    \* the sets of Atoms that the server may start with
  TableHas      \* the sets of Atoms that a table may start with

Atom == Node \cup Link
WithOutgoing(a) == {a} \cup (IF a \in Link THEN Node ELSE {})
Val == 0..MaxVal

ASSUME ThreadAssumption ==
  IsFiniteSet(Worker) /\ Worker # {} /\ Worker \cap User = {}
ASSUME BoundAssumption ==
  SockBuf \in Nat \ {0} /\ MaxBarriers \in Nat /\ MaxCalls \in Nat
ASSUME AtomAssumption ==
  Node \cap Link = {} /\ Table # {} /\ MaxVal \in Nat \ {0}
ASSUME ContentAssumption ==
  \A S \in ServerHas \cup TableHas :
    S \subseteq Atom /\ (S \cap Link # {} => Node \subseteq S)

(***************************************************************************)
(* The commands of the protocol.                                           *)
(***************************************************************************)
Single == {"cog-set-tv!", "cog-extract!", "cog-extract-recursive!",
           "cog-update-value!", "cog-value", "cog-keys->alist", "cog-node",
           "cog-incoming-set", "cog-incoming-by-type", "cog-execute-cache!",
           "cog-set-proxy!"}
Plain == {"cog-atomspace-clear", "cog-proxy-open", "cog-proxy-close"}

Command ==
  (Single \X Atom) \cup ({"cog-set-value!", "cog-set-values!"} \X Atom \X Val)
    \cup ({"cog-get-atoms", "cog-get-type"} \X {"Node", "Link"}) \cup {<<p>> : p \in Plain}

\* The commands that are sent with enqueue_noreply.
Silent == {c \in Command : c[1] \in {"cog-set-tv!", "cog-set-value!",
                                     "cog-set-values!", "cog-update-value!"}}

\* The commands whose reply is a list of Atoms, for decode_atom_list.
Lists == {c \in Command : c[1] \in {"cog-incoming-set", "cog-incoming-by-type",
                                    "cog-get-atoms", "cog-get-type"}}

Keys(a) == <<"cog-keys->alist", a>>

\* struct Pkt: nothing, a table, or an Atom of a table.
Pkt == {<<>>} \cup {<<t>> : t \in Table} \cup (Table \X Atom)

ReplyValue == ({"value"} \X Val) \cup ({"atoms"} \X SUBSET Atom)
                \cup ({"known"} \X BOOLEAN) \cup {<<"done">>}

VARIABLES
  msgq, seqctr, wpc, hand, upc, wire, back, got, phase, left,
  bstart, bret, sdone, exq, exu,                 \* see CogChannel
  up,       \* _servinfo is set: connected()
  op,       \* the operation each user thread is in
  todo,     \* what is left of it: calls on the channel
  rest,     \* the Atoms that a worker in decode_atom_list has yet to decode
  known,    \* the remote AtomSpace: its Atoms
  val,      \*   and their Values
  have,     \* the local AtomSpaces: their Atoms
  lval,     \*   and their Values
  calls,    \* operations called                                  (history)
  clean,    \* tables that a load or kill in progress will vouch for (history)
  fresh,    \* tables loaded since the last write                 (history)
  killed,   \* kill_data returned, and nothing written since      (history)
  asked,    \* updateValue calls                                  (history)
  applied   \* updates that the server applied                    (history)

Chan == INSTANCE CogChannel WITH
          Str <- Command, Asking <- Command \ Silent, Listing <- Lists,
          FollowUp <- {Keys(a) : a \in Atom},
          Update <- {c \in Command : c[1] = "cog-update-value!"},
          Data <- Pkt, NoData <- <<>>, Answer <- ReplyValue

chanVars == <<msgq, seqctr, wpc, hand, upc, wire, back, got, phase, left,
              bstart, bret, sdone, exq, exu>>
userVars == <<up, op, todo, calls, asked>>
pastVars == <<clean, fresh, killed>>
srvVars  == <<known, val, applied>>
locVars  == <<rest, have, lval>>
vars == <<chanVars, userVars, pastVars, srvVars, locVars>>

-----------------------------------------------------------------------------
Init ==
  /\ Chan!Init
  /\ up = TRUE /\ calls = 0 /\ asked = 0 /\ applied = 0
  /\ op = [u \in User |-> "none"]
  /\ todo = [u \in User |-> <<>>]
  /\ rest = [w \in Worker |-> {}]
  /\ known \in ServerHas
  /\ val = [a \in Atom |-> IF a \in known THEN 1 ELSE 0]
  /\ have \in [Table -> TableHas]
  /\ lval = [t \in Table |-> [a \in Atom |-> IF a \in have[t] THEN MaxVal ELSE 0]]
  /\ clean = [u \in User |-> {}] /\ fresh = {} /\ killed = FALSE

(***************************************************************************)
(* The steps that operations are made of.                                  *)
(***************************************************************************)
Silently(c)   == <<[do |-> "noreply", cmd |-> c]>>
Ask(c, pkt)   == <<[do |-> "enqueue", cmd |-> c, pkt |-> pkt]>>
Store(t, S)   == IF S = {} THEN <<>> ELSE <<[do |-> "store", table |-> t, atoms |-> S]>>
Probe(a)      == <<[do |-> "synchro", cmd |-> <<"cog-node", a>>]>>
Flush         == <<[do |-> "flush"]>>
Barrier       == <<[do |-> "barrier"]>>
Connect       == <<[do |-> "connect"]>>
Shut          == <<[do |-> "shut"]>>

\* Everything called so far was followed by a barrier() that returned.
FencedOff ==
  Chan!Buffered = {} /\ \A m \in Chan!Pending : m.hi < bret

Writes == {"storeAtom", "removeAtom", "storeValue", "updateValue", "runQuery",
           "storeAtomSpace", "kill_data", "set_proxy"}

\* No other thread is in an operation that writes.
Alone(u) == \A v \in User \ {u} : op[v] \notin Writes

\* A call of operation f.  close is not called while another thread is in a
\* call, and no call is made during a close.  A kill, and a load when all that
\* was called before it is fenced off, will vouch for their result unless a
\* write of another thread runs at the same time.
Call(u, f, t, steps) ==
  /\ f \in Menu
  /\ calls < MaxCalls
  /\ op[u] = "none"
  /\ \A v \in User : op[v] # "close" /\ (f = "close" => op[v] = "none")
  /\ calls' = calls + 1
  /\ op' = [op EXCEPT ![u] = f]
  /\ todo' = [todo EXCEPT ![u] = steps]
  /\ asked' = asked + (IF f = "updateValue" THEN 1 ELSE 0)
  /\ clean' = [v \in User |->
                 CASE v = u -> IF /\ Alone(u)
                                  /\ f = "kill_data" \/ (f = "loadAtomSpace" /\ FencedOff)
                               THEN {t} ELSE {}
                   [] v # u -> IF f \in Writes THEN {} ELSE clean[v]]
  /\ fresh' = IF f \in Writes THEN {} ELSE fresh
  /\ killed' = (killed /\ f \notin Writes)
  /\ UNCHANGED <<chanVars, up, srvVars, locVars>>

\* For the operations that have no table.
AnyTable == CHOOSE t \in Table : TRUE

CheckOpen == up

StoreAtom(u, t, a) ==
  CheckOpen /\ a \in have[t] /\ Call(u, "storeAtom", t, Store(t, {a}))

RemoveAtom(u, a, recursive) ==
  CheckOpen /\ Call(u, "removeAtom", AnyTable,
    Ask(<<IF recursive THEN "cog-extract-recursive!" ELSE "cog-extract!", a>>, <<>>))

\* A Value that is not there is stored too: 0, which takes that of the server away.
StoreValue(u, t, a) ==
  /\ CheckOpen
  /\ a \in have[t]
  /\ Call(u, "storeValue", t, Silently(<<"cog-set-value!", a, lval[t][a]>>))

UpdateValue(u, a) ==
  CheckOpen /\ Call(u, "updateValue", AnyTable, Silently(<<"cog-update-value!", a>>))

LoadValue(u, t, a) ==
  CheckOpen /\ a \in have[t] /\ Call(u, "loadValue", t, Ask(<<"cog-value", a>>, <<t, a>>))

RunQuery(u, t, a) ==
  /\ CheckOpen
  /\ a \in have[t]
  /\ Call(u, "runQuery", t, Ask(<<"cog-execute-cache!", a>>, <<t, a>>))

GetAtom(u, t, a) ==
  /\ CheckOpen
  /\ a \in have[t]
  /\ Call(u, "getAtom", t, Probe(a) \o Ask(Keys(a), <<t, a>>))

FetchIncomingSet(u, t, a) ==
  CheckOpen /\ Call(u, "fetchIncomingSet", t, Ask(<<"cog-incoming-set", a>>, <<t>>))

FetchIncomingByType(u, t, a) ==
  CheckOpen /\ Call(u, "fetchIncomingByType", t, Ask(<<"cog-incoming-by-type", a>>, <<t>>))

LoadType(u, t, type) ==
  CheckOpen /\ Call(u, "loadType", t, Ask(<<"cog-get-type", type>>, <<t>>))

\* A loadAtomSpace that does not wait for the keys of the Links.
LoadAtomSpaceNoBarrier(u, t) ==
  /\ CheckOpen
  /\ Call(u, "loadAtomSpace", t,
       Ask(<<"cog-get-atoms", "Node">>, <<t>>) \o Flush
         \o Ask(<<"cog-get-atoms", "Link">>, <<t>>))

LoadAtomSpace(u, t) ==
  /\ CheckOpen
  /\ Call(u, "loadAtomSpace", t,
       Ask(<<"cog-get-atoms", "Node">>, <<t>>) \o Flush
         \o Ask(<<"cog-get-atoms", "Link">>, <<t>>) \o Barrier)

\* One storeAtom per Atom that the table holds at the start, in any order.
StoreAtomSpace(u, t) ==
  CheckOpen /\ Call(u, "storeAtomSpace", t, Store(t, have[t]) \o Barrier)

\* A kill_data that does not first wait for what was called before.
KillDataNoFence(u) ==
  CheckOpen /\ Call(u, "kill_data", AnyTable, Ask(<<"cog-atomspace-clear">>, <<>>) \o Barrier)

KillData(u) ==
  CheckOpen /\ Call(u, "kill_data", AnyTable, Barrier \o Ask(<<"cog-atomspace-clear">>, <<>>) \o Barrier)

\* proxy_open, proxy_close and barrier do not check that the connection is
\* open; what the buffer does with a message while it has no threads is not
\* modelled.
ProxySteps(c) == Barrier \o Ask(<<c>>, <<>>) \o Barrier

ProxyOpen(u) == up /\ Call(u, "proxy_open", AnyTable, ProxySteps("cog-proxy-open"))

ProxyClose(u) == up /\ Call(u, "proxy_close", AnyTable, ProxySteps("cog-proxy-close"))

SetProxy(u, t, a) ==
  /\ CheckOpen
  /\ a \in have[t]
  /\ Call(u, "set_proxy", t,
       Store(t, {a}) \o Barrier \o Ask(<<"cog-set-proxy!", a>>, <<>>) \o Barrier)

BarrierCall(u) == up /\ Call(u, "barrier", AnyTable, Barrier)

\* A close that takes the last barrier as proof that everything is done.
CloseNoProxy(u) == up /\ Call(u, "close", AnyTable, Barrier \o Shut)

Close(u) ==
  up /\ Call(u, "close", AnyTable, ProxySteps("cog-proxy-close") \o Barrier \o Shut)

Open(u) == ~up /\ Call(u, "open", AnyTable, Connect)

-----------------------------------------------------------------------------
(***************************************************************************)
(* Running the steps of an operation.                                      *)
(***************************************************************************)
At(u, do) == todo[u] # <<>> /\ Head(todo[u]).do = do

\* What is left after the step is taken; the operation returns at the end.
Advance(u, left_over) ==
  /\ todo' = [todo EXCEPT ![u] = left_over]
  /\ IF left_over = <<>>
     THEN /\ op' = [op EXCEPT ![u] = "none"]
          /\ fresh' = IF op[u] = "loadAtomSpace" THEN fresh \cup clean[u] ELSE fresh
          /\ killed' = (killed \/ (op[u] = "kill_data" /\ clean[u] # {}))
          /\ clean' = [clean EXCEPT ![u] = {}]
     ELSE UNCHANGED <<op, pastVars>>
  /\ UNCHANGED <<calls, asked>>

StepDone(u) == Advance(u, Tail(todo[u]))

Wait == UNCHANGED <<userVars, pastVars>>

DoNoreply(u) ==
  /\ At(u, "noreply")
  /\ Chan!EnqueueNoreply(u, Head(todo[u]).cmd)
  /\ StepDone(u)
  /\ UNCHANGED <<up, srvVars, locVars>>

\* A storeAtom that expects a reply to its message.
DoStoreAsks(u, a) ==
  /\ At(u, "store")
  /\ LET s == Head(todo[u])
     IN /\ a \in s.atoms
        /\ Chan!Enqueue(u, <<"cog-set-tv!", a>>, <<>>)
        /\ Advance(u, Store(s.table, s.atoms \ {a}) \o Tail(todo[u]))
  /\ UNCHANGED <<up, srvVars, locVars>>

\* storeAtom for one Atom: its Values as they are now.
DoStore(u, a) ==
  /\ At(u, "store")
  /\ LET s == Head(todo[u])
         v == lval[s.table][a]
     IN /\ a \in s.atoms
        /\ Chan!EnqueueNoreply(u, IF v # 0 THEN <<"cog-set-values!", a, v>>
                                           ELSE <<"cog-set-tv!", a>>)
        /\ Advance(u, Store(s.table, s.atoms \ {a}) \o Tail(todo[u]))
  /\ UNCHANGED <<up, srvVars, locVars>>

DoEnqueue(u) ==
  /\ At(u, "enqueue")
  /\ Chan!Enqueue(u, Head(todo[u]).cmd, Head(todo[u]).pkt)
  /\ StepDone(u)
  /\ UNCHANGED <<up, srvVars, locVars>>

DoProbe(u) ==
  /\ At(u, "synchro")
  /\ Chan!SynchroSend(u, Head(todo[u]).cmd)
  /\ Wait
  /\ UNCHANGED <<srvVars, locVars>>

\* is_ok leaves pkt.table alone when the reply is "()", and pkt.table was not
\* initialized: getAtom may return then, or go on.
ProbeReply(u) ==
  /\ At(u, "synchro")
  /\ Chan!SynchroRecv(u)
  /\ \/ StepDone(u)
     \/ got'[u].val = <<"known", FALSE>> /\ Advance(u, <<>>)
  /\ UNCHANGED <<up, srvVars, locVars>>

DoFlush(u) ==
  /\ At(u, "flush")
  /\ \/ Chan!FlushBegin(u) /\ Wait
     \/ Chan!FlushEnd(u) /\ StepDone(u) /\ UNCHANGED up
  /\ UNCHANGED <<srvVars, locVars>>

DoBarrier(u) ==
  /\ At(u, "barrier")
  /\ \/ Chan!BarrierBegin(u) /\ Wait
     \/ Chan!BarrierEnd(u) /\ StepDone(u) /\ UNCHANGED up
  /\ UNCHANGED <<srvVars, locVars>>

\* close_connection: drain the buffer, stop its threads, forget the server.
CloseConnection(u) ==
  /\ At(u, "shut")
  /\ Chan!Drained
  /\ up' = FALSE
  /\ StepDone(u)
  /\ UNCHANGED <<chanVars, srvVars, locVars>>

\* open_connection tries the server out, and throws if it is not there.
OpenConnection(u) ==
  /\ At(u, "connect")
  /\ up' \in BOOLEAN
  /\ StepDone(u)
  /\ UNCHANGED <<chanVars, srvVars, locVars>>

(***************************************************************************)
(* The workers, and the callbacks that decode replies.                     *)
(***************************************************************************)
WorkerTake(w, m) == Chan!WorkerTake(w, m) /\ UNCHANGED <<userVars, pastVars, srvVars, locVars>>
WorkerSend(w) == Chan!WorkerSend(w) /\ UNCHANGED <<userVars, pastVars, srvVars, locVars>>
WorkerSendBlock(w) ==
  Chan!WorkerSendBlock(w) /\ UNCHANGED <<userVars, pastVars, srvVars, locVars>>
BarrierDrained == Chan!BarrierDrained /\ UNCHANGED <<userVars, pastVars, srvVars, locVars>>

WorkerRecv(w) ==
  /\ Chan!WorkerRecv(w)
  /\ rest' = [rest EXCEPT ![w] = IF hand[w].str \in Lists THEN got'[w].val[2] ELSE {}]
  /\ UNCHANGED <<userVars, pastVars, srvVars, have, lval>>

SetLocal(t, a, v) == lval' = [lval EXCEPT ![t][a] = v]

\* decode_value stores the reply, also when it is no Value.
DecodeValue(w) ==
  /\ Chan!CallbackDone(w)
  /\ hand[w].str[1] \in {"cog-value", "cog-execute-cache!"}
  /\ SetLocal(hand[w].data[1], hand[w].data[2], got[w].val[2])
  /\ UNCHANGED <<userVars, pastVars, srvVars, have, rest>>

\* ro_decode_alist sets the keys that are in the reply.
DecodeKvpList(w) ==
  /\ Chan!CallbackDone(w)
  /\ hand[w].str[1] = "cog-keys->alist"
  /\ IF got[w].val[2] = 0 THEN UNCHANGED lval
     ELSE SetLocal(hand[w].data[1], hand[w].data[2], got[w].val[2])
  /\ UNCHANGED <<userVars, pastVars, srvVars, have, rest>>

\* A decode_atom_list that does not add the Atom to the table.
DecodeAtomNoAdd(w, a) ==
  /\ a \in rest[w]
  /\ Chan!CallbackEnqueue(w, Keys(a), <<hand[w].data[1], a>>)
  /\ rest' = [rest EXCEPT ![w] = @ \ {a}]
  /\ UNCHANGED <<userVars, pastVars, srvVars, have, lval>>

\* decode_atom_list: add the next Atom of the list and ask for its keys.
DecodeAtom(w, a) ==
  /\ a \in rest[w]
  /\ LET t == hand[w].data[1]
     IN /\ Chan!CallbackEnqueue(w, Keys(a), <<t, a>>)
        /\ have' = [have EXCEPT ![t] = @ \cup WithOutgoing(a)]
  /\ rest' = [rest EXCEPT ![w] = @ \ {a}]
  /\ UNCHANGED <<userVars, pastVars, srvVars, lval>>

\* The end of decode_atom_list, and noop_const.
CallbackEnds(w) ==
  /\ Chan!CallbackDone(w)
  /\ hand[w].str[1] \notin {"cog-value", "cog-execute-cache!", "cog-keys->alist"}
  /\ rest[w] = {}
  /\ UNCHANGED <<userVars, pastVars, srvVars, locVars>>

(***************************************************************************)
(* The CogServer and its AtomSpace.                                        *)
(***************************************************************************)
OfType(c) == IF c = "Node" THEN Node ELSE Link
Incoming(a) == IF a \in Node THEN Link ELSE {}

AnswerTo(c) ==
  CASE c[1] \in {"cog-value", "cog-keys->alist"} -> <<"value", val[c[2]]>>
    [] c[1] = "cog-execute-cache!" -> <<"value", val'[c[2]]>>
    [] c[1] \in {"cog-get-atoms", "cog-get-type"} -> <<"atoms", known \cap OfType(c[2])>>
    [] c[1] \in {"cog-incoming-set", "cog-incoming-by-type"}
         -> <<"atoms", known \cap Incoming(c[2])>>
    [] c[1] = "cog-node" -> <<"known", c[2] \in known>>
    [] OTHER -> <<"done">>

Put(a, v) ==
  /\ known' = known \cup WithOutgoing(a)
  /\ val' = [val EXCEPT ![a] = v]

Remove(S) ==
  /\ known' = known \ S
  /\ val' = [a \in Atom |-> IF a \in S THEN 0 ELSE val[a]]

Least(a, b) == IF a < b THEN a ELSE b

Apply(c) ==
  /\ CASE c[1] \in {"cog-set-value!", "cog-set-values!"} -> Put(c[2], c[3])
       [] c[1] \in {"cog-set-tv!", "cog-set-proxy!"} -> Put(c[2], val[c[2]])
       [] c[1] = "cog-update-value!" -> Put(c[2], Least(val[c[2]] + 1, MaxVal))
       [] c[1] = "cog-execute-cache!" -> Put(c[2], MaxVal)
       [] c[1] = "cog-extract!" /\ Incoming(c[2]) \cap known = {} -> Remove({c[2]})
       [] c[1] = "cog-extract-recursive!" -> Remove({c[2]} \cup Incoming(c[2]))
       [] c[1] = "cog-atomspace-clear" -> Remove(Atom)
       [] OTHER -> UNCHANGED <<known, val>>
  /\ applied' = applied + (IF c[1] = "cog-update-value!" THEN 1 ELSE 0)

ServerExec(t) ==
  /\ wire[t] # <<>>
  /\ Head(wire[t]).bar = 0
  /\ Apply(Head(wire[t]).str)
  /\ Chan!ServerExec(t, AnswerTo(Head(wire[t]).str))
  /\ UNCHANGED <<userVars, pastVars, locVars>>

ServerBarrier(k) == Chan!ServerBarrier(k) /\ UNCHANGED <<userVars, pastVars, srvVars, locVars>>

-----------------------------------------------------------------------------
Operation(u) ==
  \/ \E t \in Table, a \in Atom :
       \/ StoreAtom(u, t, a)
       \/ StoreValue(u, t, a)
       \/ LoadValue(u, t, a)
       \/ RunQuery(u, t, a)
       \/ GetAtom(u, t, a)
       \/ FetchIncomingSet(u, t, a)
       \/ FetchIncomingByType(u, t, a)
       \/ SetProxy(u, t, a)
  \/ \E a \in Atom : UpdateValue(u, a) \/ (\E r \in BOOLEAN : RemoveAtom(u, a, r))
  \/ \E t \in Table :
       \/ \E c \in {"Node", "Link"} : LoadType(u, t, c)
       \/ LoadAtomSpace(u, t)
       \/ StoreAtomSpace(u, t)
  \/ KillData(u)
  \/ ProxyOpen(u)
  \/ ProxyClose(u)
  \/ BarrierCall(u)
  \/ Close(u)
  \/ Open(u)

UserStep(u) ==
  \/ DoNoreply(u)
  \/ \E a \in Atom : DoStore(u, a)
  \/ DoEnqueue(u)
  \/ DoProbe(u)
  \/ ProbeReply(u)
  \/ DoFlush(u)
  \/ DoBarrier(u)
  \/ CloseConnection(u)
  \/ OpenConnection(u)

WorkerStep(w) ==
  \/ WorkerSend(w)
  \/ WorkerRecv(w)
  \/ DecodeValue(w)
  \/ DecodeKvpList(w)
  \/ \E a \in Atom : DecodeAtom(w, a)
  \/ CallbackEnds(w)

ServerStep == (\E t \in Chan!Thread : ServerExec(t)) \/ (\E k \in 1..bstart : ServerBarrier(k))

Next ==
  \/ \E u \in User : Operation(u) \/ UserStep(u)
  \/ \E w \in Worker :
       WorkerStep(w) \/ WorkerSendBlock(w) \/ (\E m \in msgq : WorkerTake(w, m))
  \/ BarrierDrained
  \/ ServerStep

Spec == Init /\ [][Next]_vars

\* The calling threads, the workers and the server all keep running.
Fairness ==
  /\ \A u \in User : WF_vars(UserStep(u))
  /\ \A w \in Worker :
       /\ WF_vars(WorkerStep(w))
       /\ WF_vars(WorkerSendBlock(w))
       /\ WF_vars(\E m \in msgq : WorkerTake(w, m))
  /\ WF_vars(BarrierDrained)
  /\ \A t \in Chan!Thread : WF_vars(ServerExec(t))
  /\ WF_vars(\E k \in 1..bstart : ServerBarrier(k))

FairSpec == Spec /\ Fairness

-----------------------------------------------------------------------------
(***************************************************************************)
(* Properties.                                                             *)
(***************************************************************************)
(***************************************************************************)
(* Types; and an Atom that a table does not hold has no Value there: the   *)
(* callbacks only write to Atoms that are in a table.                      *)
(***************************************************************************)
TypeOK ==
  /\ up \in BOOLEAN /\ killed \in BOOLEAN
  /\ known \subseteq Atom /\ val \in [Atom -> Val]
  /\ have \in [Table -> SUBSET Atom]
  /\ lval \in [Table -> [Atom -> Val]]
  /\ \A t \in Table, a \in Atom : lval[t][a] # 0 => a \in have[t]
  /\ rest \in [Worker -> SUBSET Atom]
  /\ calls \in 0..MaxCalls /\ asked \in 0..MaxCalls /\ applied \in Nat
  /\ \A u \in User : op[u] = "none" <=> todo[u] = <<>>
  /\ clean \in [User -> SUBSET Table] /\ fresh \subseteq Table

(***************************************************************************)
(* No update is made up: the server applies no cog-update-value! more      *)
(* often than updateValue was called, whatever thread takes the message    *)
(* from the buffer and whatever socket it goes by.                         *)
(***************************************************************************)
NoUpdateTwice == applied <= asked

(***************************************************************************)
(* loadAtomSpace brings the entire contents: when it returns, and all that *)
(* was called before was followed by a barrier, the table has every Atom   *)
(* of the server and every Value on them, although four threads fetched    *)
(* them through a buffer that drops duplicates.                            *)
(***************************************************************************)
LoadComplete ==
  \A t \in fresh :
    /\ known \subseteq have[t]
    /\ \A a \in known : val[a] # 0 => lval[t][a] = val[a]

(***************************************************************************)
(* kill_data is final: when it returns no write that was called before is  *)
(* still on its way, to put Atoms back in the AtomSpace that it cleared.   *)
(***************************************************************************)
KillIsFinal == killed => known = {}

(***************************************************************************)
(* close loses nothing: when it returns, the server has run every command  *)
(* that was called before, also those that have no reply to wait for.      *)
(***************************************************************************)
CloseIsSync == ~up => Chan!Pending = {}

(***************************************************************************)
(* Every operation returns to its caller.                                  *)
(***************************************************************************)
CallsReturn == \A u \in User : op[u] # "none" ~> op[u] = "none"

(***************************************************************************)
(* Every update counts: by the time the connection is closed, the server   *)
(* has applied each cog-update-value! that was asked for.                  *)
(***************************************************************************)
EveryUpdateCounts == ~up => applied = asked

=============================================================================
