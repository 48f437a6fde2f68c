-------------------------- MODULE CogStorageProofs --------------------------
(***************************************************************************)
(* Proofs about CogStorage, for any number of worker and user threads, any *)
(* Atoms and tables and any socket capacity.                               *)
(***************************************************************************)
EXTENDS CogStorage, FiniteSetTheorems, TLAPS

\* The channel, with what is proved about it.
C == INSTANCE CogReplyProofs WITH
       Str <- Command, Asking <- Command \ Silent, Listing <- Lists,
       FollowUp <- {Keys(a) : a \in Atom},
       Update <- {c \in Command : c[1] = "cog-update-value!"},
       Data <- Pkt, NoData <- <<>>, Answer <- ReplyValue

Asks == Command \ Silent

-----------------------------------------------------------------------------
(***************************************************************************)
(* The commands.                                                           *)
(***************************************************************************)
\* The names of the commands that are not of the form <<name, Atom>>.
SetNames == {"cog-set-value!", "cog-set-values!"}
GetNames == {"cog-get-atoms", "cog-get-type"}
SilentNames == {"cog-set-tv!", "cog-set-value!", "cog-set-values!", "cog-update-value!"}
ListNames == {"cog-incoming-set", "cog-incoming-by-type", "cog-get-atoms", "cog-get-type"}
ValueNames == {"cog-value", "cog-keys->alist", "cog-execute-cache!"}

\* What a command is made of.
LEMMA CommandParts ==
  ASSUME NEW c \in Command
  PROVE  /\ c[1] \in Single \cup SetNames \cup GetNames \cup Plain
         /\ c[1] \in Single => c[2] \in Atom
         /\ c[1] \in SetNames => c[2] \in Atom /\ c[3] \in Val
         /\ c[1] \in GetNames => c[2] \in {"Node", "Link"}
<1>1. CASE c \in Single \X Atom
  BY <1>1 DEF Single, SetNames, GetNames
<1>2. CASE c \in SetNames \X Atom \X Val
  BY <1>2 DEF Single, SetNames, GetNames
<1>3. CASE c \in GetNames \X {"Node", "Link"}
  BY <1>3 DEF Single, SetNames, GetNames
<1>4. CASE c \in {<<p>> : p \in Plain}
  BY <1>4 DEF Single, SetNames, GetNames, Plain
<1> QED
  BY <1>1, <1>2, <1>3, <1>4 DEF Command, SetNames, GetNames

\* The commands that the operations send.
LEMMA CommandForms ==
  /\ \A p \in Single, a \in Atom : <<p, a>> \in Command
  /\ \A p \in SetNames, a \in Atom, v \in Val : <<p, a, v>> \in Command
  /\ \A p \in GetNames, y \in {"Node", "Link"} : <<p, y>> \in Command
  /\ \A p \in Plain : <<p>> \in Command
BY DEF Command, SetNames, GetNames

\* The assumptions that the channel makes hold of the storage node's use.
LEMMA ChannelAssumptions ==
  C!ThreadAssumption /\ C!MessageAssumption /\ C!BoundAssumption
<1>1. Lists \subseteq Command \ Silent
  BY DEF Lists, Silent
<1>2. {Keys(a) : a \in Atom} \subseteq (Command \ Silent) \ Lists
  BY CommandForms DEF Keys, Silent, Lists, Single
<1>3. <<>> \in Pkt
  BY DEF Pkt
<1> QED
  BY <1>1, <1>2, <1>3, ThreadAssumption, BoundAssumption
     DEF C!ThreadAssumption, C!MessageAssumption, C!BoundAssumption,
         IsFiniteSet, C!IsFiniteSet

-----------------------------------------------------------------------------
(***************************************************************************)
(* The inductive invariant.                                                *)
(***************************************************************************)
\* The packet that the callback of command c needs; decode_value and
\* decode_kvp_list write to the Atom of the command, which its table holds.
Fits(c, d) ==
  /\ c[1] \in ListNames => \E t \in Table : d = <<t>>
  /\ c[1] \in ValueNames => d \in Table \X Atom /\ d[2] \in have[d[1]] /\ d[2] = c[2]

\* Commands that leave the remote AtomSpace alone.
Reading == {c \in Asks : c[1] \notin {"cog-extract!", "cog-extract-recursive!",
              "cog-execute-cache!", "cog-set-proxy!", "cog-atomspace-clear"}}

Step ==
  [do: {"noreply"}, cmd: Silent] \cup [do: {"enqueue"}, cmd: Asks, pkt: Pkt]
    \cup [do: {"synchro"}, cmd: {"cog-node"} \X Atom]
    \cup [do: {"store"}, table: Table, atoms: SUBSET Atom]
    \cup [do: {"flush", "barrier", "connect", "shut"}]

\* The command of updateValue, which no other operation sends.
IsUpdate(c) == c[1] = "cog-update-value!"

\* The steps that operation f may consist of.
StepOf(f) ==
  {s \in Step :
     /\ s.do = "enqueue" => Fits(s.cmd, s.pkt)
     /\ f \notin Writes => /\ s.do \notin {"noreply", "store"}
                           /\ s.do = "enqueue" => s.cmd \in Reading
     /\ s.do = "noreply" => (IsUpdate(s.cmd) <=> f = "updateValue")
     /\ s.do = "connect" => f = "open"
     /\ s.do = "shut" => f = "close"}

Names == {"none", "storeAtom", "removeAtom", "storeValue", "updateValue", "loadValue",
          "runQuery", "getAtom", "fetchIncomingSet", "fetchIncomingByType", "set_proxy",
          "loadType", "loadAtomSpace", "storeAtomSpace", "kill_data", "proxy_open",
          "proxy_close", "barrier", "close", "open"}

Plans ==
  /\ op \in [User -> Names]
  /\ todo \in [User -> Seq(Step)]
  /\ \A u \in User : todo[u] \in Seq(StepOf(op[u]))
  /\ asked <= calls
  /\ \A u \in User : /\ upc[u] = "barrier" => At(u, "barrier")
                     /\ upc[u] = "flush" => At(u, "flush")
                     /\ upc[u] = "ask" => At(u, "synchro")

\* Every message carries what its callback needs.
Packets ==
  /\ \A m \in msgq : Fits(m.str, m.data)
  /\ \A w \in Worker : wpc[w] # "idle" => Fits(hand[w].str, hand[w].data)

\* Every reply is of the kind that was asked for.
Kind(r) ==
  /\ r.to[1] \in ListNames => r.val[2] \subseteq Atom
  /\ r.to[1] \in ValueNames => r.val[2] \in Val

Replies ==
  \A w \in Worker : /\ \A i \in DOMAIN back[w] : Kind(back[w][i])
                    /\ wpc[w] = "callback" => Kind(got[w])

\* A user thread's own socket takes probes only.
Probes == \A u \in User : \A i \in DOMAIN wire[u] : wire[u][i].str[1] = "cog-node"

Kept == TypeOK /\ Plans /\ Packets /\ Replies /\ Probes

Inv == C!CallInv /\ Kept

(***************************************************************************)
(* Kills.                                                                  *)
(***************************************************************************)
Clear == <<"cog-atomspace-clear">>

\* What is left of kill_data.
K3 == Barrier \o Ask(Clear, <<>>) \o Barrier
K2 == Ask(Clear, <<>>) \o Barrier
K1 == Barrier

\* A kill that no write runs beside: after its first barrier only reads are
\* made, and these are all that the fences let run after the clear.
Killing(u) ==
  /\ \A v \in User \ {u} : op[v] \notin Writes
  /\ todo[u] = K3 /\ upc[u] = "barrier" => C!Behind(bstart, Reading)
  /\ todo[u] = K2 => C!Behind(bret, Reading)
  /\ todo[u] = K1 => C!Coming(u, Clear, Reading) \/ (known = {} /\ C!OnlyLeft(Reading))

Killed == known = {} /\ C!OnlyLeft(Reading) /\ \A v \in User : op[v] \notin Writes

KillInv ==
  /\ \A u \in User : op[u] = "kill_data" => todo[u] \in {K3, K2, K1}
  /\ \A u \in User : op[u] = "kill_data" /\ clean[u] # {} => Killing(u)
  /\ killed => Killed

(***************************************************************************)
(* Closes.                                                                 *)
(***************************************************************************)
Bye == <<"cog-proxy-close">>
KeysOnly == {Keys(a) : a \in Atom}

\* What is left of close.
C5 == ProxySteps("cog-proxy-close") \o Barrier \o Shut
C4 == Ask(Bye, <<>>) \o Barrier \o Barrier \o Shut
C3 == Barrier \o Barrier \o Shut
C2 == Barrier \o Shut
C1 == Shut

\* During a close only the callbacks of loads make messages, and they ask.
Closing(u) ==
  /\ todo[u] \in {C5, C4, C3, C2, C1}
  /\ \A v \in User \ {u} : op[v] = "none"
  /\ todo[u] = C5 /\ upc[u] = "barrier" => C!Behind(bstart, KeysOnly)
  /\ todo[u] = C4 => C!Behind(bret, KeysOnly)
  /\ todo[u] = C3 => C!Coming(u, Bye, KeysOnly) \/ C!OnlyLeft(KeysOnly)
  /\ todo[u] \in {C2, C1} => C!OnlyLeft(KeysOnly)

Down == C!Live = {} /\ \A v \in User : op[v] \in {"none", "open"}

CloseInv ==
  /\ \A u \in User : op[u] = "close" => Closing(u)
  /\ \A u \in User : op[u] = "open" => ~up /\ todo[u] = Connect
  /\ ~up => Down

(***************************************************************************)
(* Loads.                                                                  *)
(***************************************************************************)
Get(y) == <<"cog-get-atoms", y>>

LoadSteps(t) == Ask(Get("Node"), <<t>>) \o Flush \o Ask(Get("Link"), <<t>>) \o Barrier

\* No two threads are in open at the same time.
OneOpens == \A u, v \in User : op[u] = "open" /\ op[v] = "open" => u = v

-----------------------------------------------------------------------------
(***************************************************************************)
(* The steps of operations.                                                *)
(***************************************************************************)
\* The operations that take an Atom and a table are given steps of their kind.
LEMMA StepForms ==
  ASSUME NEW f
  PROVE  /\ \A c \in Silent :
              f \in Writes /\ (IsUpdate(c) <=> f = "updateValue") => Silently(c) \in Seq(StepOf(f))
         /\ \A c \in Asks, d \in Pkt :
              Fits(c, d) /\ (f \in Writes \/ c \in Reading) => Ask(c, d) \in Seq(StepOf(f))
         /\ \A t \in Table, S \in SUBSET Atom :
              f \in Writes => Store(t, S) \in Seq(StepOf(f))
         /\ \A a \in Atom : Probe(a) \in Seq(StepOf(f))
         /\ Flush \in Seq(StepOf(f)) /\ Barrier \in Seq(StepOf(f))
         /\ f = "open" => Connect \in Seq(StepOf(f))
         /\ f = "close" => Shut \in Seq(StepOf(f))
<1>1. ASSUME NEW s \in StepOf(f) PROVE <<s>> \in Seq(StepOf(f))
  OBVIOUS
<1>2. ASSUME NEW c \in Silent, f \in Writes, IsUpdate(c) <=> f = "updateValue"
      PROVE  Silently(c) \in Seq(StepOf(f))
  <2>1. [do |-> "noreply", cmd |-> c] \in StepOf(f)
    BY <1>2 DEF StepOf, Step
  <2> QED
    BY <1>1, <2>1 DEF Silently
<1>3. ASSUME NEW c \in Asks, NEW d \in Pkt, Fits(c, d), f \in Writes \/ c \in Reading
      PROVE  Ask(c, d) \in Seq(StepOf(f))
  <2>1. [do |-> "enqueue", cmd |-> c, pkt |-> d] \in StepOf(f)
    BY <1>3 DEF StepOf, Step
  <2> QED
    BY <1>1, <2>1 DEF Ask
<1>4. ASSUME NEW t \in Table, NEW S \in SUBSET Atom, f \in Writes
      PROVE  Store(t, S) \in Seq(StepOf(f))
  <2>1. [do |-> "store", table |-> t, atoms |-> S] \in StepOf(f)
    BY <1>4 DEF StepOf, Step
  <2> QED
    BY <1>1, <2>1 DEF Store
<1>5. ASSUME NEW a \in Atom PROVE Probe(a) \in Seq(StepOf(f))
  <2>1. [do |-> "synchro", cmd |-> <<"cog-node", a>>] \in StepOf(f)
    BY DEF StepOf, Step
  <2> QED
    BY <1>1, <2>1 DEF Probe
<1>6. ASSUME NEW x \in {"flush", "barrier", "connect", "shut"},
             x = "connect" => f = "open", x = "shut" => f = "close"
      PROVE  <<[do |-> x]>> \in Seq(StepOf(f))
  <2>1. [do |-> x] \in StepOf(f)
    BY <1>6 DEF StepOf, Step
  <2> QED
    BY <1>1, <2>1
<1> QED
  BY <1>2, <1>3, <1>4, <1>5, <1>6 DEF Flush, Barrier, Connect, Shut

\* A table that grows has room for the packets that it had room for.
LEMMA FitsGrows ==
  ASSUME NEW c, NEW d, Fits(c, d), \A t \in Table : have[t] \subseteq have'[t]
  PROVE  Fits(c, d)'
BY DEF Fits

\* Plans stay good when tables grow.
LEMMA StepOfGrows ==
  ASSUME NEW f, \A t \in Table : have[t] \subseteq have'[t]
  PROVE  Seq(StepOf(f)) \subseteq Seq(StepOf(f)')
<1>1. StepOf(f) \subseteq StepOf(f)'
  BY FitsGrows DEF StepOf
<1> QED
  BY <1>1

\* What a call leaves behind.
LEMMA CallKeeps ==
  ASSUME Inv, NEW u \in User, NEW f \in Names, f # "none", NEW t \in Table,
         NEW steps \in Seq(StepOf(f)), steps # <<>>, Call(u, f, t, steps)
  PROVE  Kept'
<1>1. UNCHANGED <<msgq, wpc, hand, upc, wire, back, got, up, known, val, applied,
                  rest, have, lval>>
  BY DEF Call, chanVars, srvVars, locVars
<1>2. /\ op' = [op EXCEPT ![u] = f] /\ todo' = [todo EXCEPT ![u] = steps]
      /\ op[u] = "none" /\ todo[u] = <<>>
      /\ calls' = calls + 1 /\ calls < MaxCalls
      /\ asked' = asked \/ asked' = asked + 1
  BY DEF Call, Inv, Kept, TypeOK, Plans
<1>3. Packets' /\ Replies' /\ Probes'
  BY <1>1 DEF Inv, Kept, Packets, Replies, Probes, Fits, Kind
<1>4. /\ clean' \in [User -> SUBSET Table] /\ fresh' \subseteq Table /\ killed' \in BOOLEAN
  BY DEF Call, Inv, Kept, TypeOK
<1>5. calls' \in 0..MaxCalls /\ asked' \in 0..MaxCalls /\ asked' <= calls'
  BY <1>2, BoundAssumption DEF Inv, Kept, TypeOK, Plans
<1>6. \A v \in User : op'[v] = "none" <=> todo'[v] = <<>>
  BY <1>2 DEF Inv, Kept, TypeOK, Plans
<1>7. TypeOK'
  BY <1>1, <1>4, <1>5, <1>6 DEF Inv, Kept, TypeOK
<1>8. \A v \in User : todo'[v] \in Seq(StepOf(op'[v]))
  BY <1>2 DEF Inv, Kept, Plans
<1>9. \A g \in Names : StepOf(g)' = StepOf(g)
  BY <1>1 DEF StepOf, Fits
<1>10. todo' \in [User -> Seq(Step)] /\ op' \in [User -> Names]
  <2>1. steps \in Seq(Step)
    BY DEF StepOf
  <2> QED
    BY <1>2, <2>1 DEF Inv, Kept, Plans
<1>11. ASSUME NEW v \in User
       PROVE  /\ upc'[v] = "barrier" => At(v, "barrier")'
              /\ upc'[v] = "flush" => At(v, "flush")'
              /\ upc'[v] = "ask" => At(v, "synchro")'
  BY <1>1, <1>2 DEF Inv, Kept, Plans, At
<1>12. Plans'
  BY <1>5, <1>8, <1>9, <1>10, <1>11 DEF Plans
<1> QED
  BY <1>3, <1>7, <1>12 DEF Kept

-----------------------------------------------------------------------------
(***************************************************************************)
(* The channel that the storage node uses is the one of CogChannelProofs.  *)
(***************************************************************************)
\* Messages that are put in the buffer.
LEMMA SameInserts ==
  ASSUME NEW x, NEW c, NEW d
  PROVE  /\ Chan!Enqueue(x, c, d) => C!Enqueue(x, c, d)
         /\ Chan!EnqueueNoreply(x, c) => C!EnqueueNoreply(x, c)
         /\ Chan!CallbackEnqueue(x, c, d) => C!CallbackEnqueue(x, c, d)
BY DEF Chan!Enqueue, C!Enqueue, Chan!EnqueueNoreply, C!EnqueueNoreply,
  Chan!CallbackEnqueue, C!CallbackEnqueue, Chan!Insert, C!Insert, Chan!NewMsg, C!NewMsg,
  Chan!Request, C!Request, Chan!GetsSequence, C!GetsSequence, Chan!CompareLen,
  C!CompareLen, Chan!LiteralLen, C!LiteralLen, Chan!SameMsg, C!SameMsg,
  Chan!workVars, C!workVars, Chan!sockVars, C!sockVars, Chan!barVars, C!barVars,
  Chan!srvVars, C!srvVars

\* Calls that wait.
LEMMA SameWaits ==
  ASSUME NEW u, NEW c
  PROVE  /\ Chan!SynchroSend(u, c) => C!SynchroSend(u, c)
         /\ Chan!SynchroRecv(u) => C!SynchroRecv(u)
         /\ Chan!FlushBegin(u) => C!FlushBegin(u)
         /\ Chan!FlushEnd(u) => C!FlushEnd(u)
         /\ Chan!BarrierBegin(u) => C!BarrierBegin(u)
         /\ Chan!BarrierEnd(u) => C!BarrierEnd(u)
         /\ Chan!BarrierDrained => C!BarrierDrained
BY DEF Chan!SynchroSend, C!SynchroSend, Chan!SynchroRecv, C!SynchroRecv, Chan!FlushBegin,
  C!FlushBegin, Chan!FlushEnd, C!FlushEnd, Chan!BarrierBegin, C!BarrierBegin,
  Chan!BarrierEnd, C!BarrierEnd, Chan!BarrierDrained, C!BarrierDrained, Chan!Drained,
  C!Drained, Chan!DoSend, C!DoSend, Chan!DoRecv, C!DoRecv, Chan!Sock, C!Sock,
  Chan!Request, C!Request, Chan!bufVars, C!bufVars,
  Chan!workVars, C!workVars, Chan!sockVars, C!sockVars, Chan!barVars, C!barVars,
  Chan!srvVars, C!srvVars

\* The workers.
LEMMA SameWorker ==
  ASSUME NEW w, NEW m
  PROVE  /\ Chan!WorkerTake(w, m) => C!WorkerTake(w, m)
         /\ Chan!WorkerSend(w) => C!WorkerSend(w)
         /\ Chan!WorkerRecv(w) => C!WorkerRecv(w)
         /\ Chan!CallbackDone(w) => C!CallbackDone(w)
         /\ Chan!WorkerSendBlock(w) => C!WorkerSendBlock(w)
BY DEF Chan!WorkerTake, C!WorkerTake, Chan!WorkerSend, C!WorkerSend, Chan!WorkerRecv,
  C!WorkerRecv, Chan!CallbackDone, C!CallbackDone, Chan!WorkerSendBlock,
  C!WorkerSendBlock, Chan!WorkerIdle, C!WorkerIdle, Chan!Block, C!Block,
  Chan!DoSend, C!DoSend, Chan!DoRecv, C!DoRecv, Chan!Sock, C!Sock, Chan!bufVars, C!bufVars,
  Chan!workVars, C!workVars, Chan!sockVars, C!sockVars, Chan!barVars, C!barVars,
  Chan!srvVars, C!srvVars

\* The server, and what is pending.
LEMMA SameServer ==
  /\ \A t, r : Chan!ServerExec(t, r) => C!ServerExec(t, r)
  /\ \A k : Chan!ServerBarrier(k) => C!ServerBarrier(k)
  /\ Chan!Thread = C!Thread /\ Chan!Pending = C!Pending /\ (Chan!Drained <=> C!Drained)
  /\ Chan!Init => C!Init
BY DEF Chan!ServerExec, C!ServerExec, Chan!ServerBarrier, C!ServerBarrier,
  Chan!AtBarrier, C!AtBarrier, Chan!Later, C!Later, Chan!NTHREADS, C!NTHREADS,
  Chan!Thread, C!Thread, Chan!Pending, C!Pending, Chan!Sent, C!Sent, Chan!Drained,
  C!Drained, Chan!Init, C!Init, Cardinality, C!Cardinality, Chan!Cardinality,
  Chan!bufVars, C!bufVars, Chan!workVars, C!workVars,
  Chan!sockVars, C!sockVars, Chan!barVars, C!barVars, Chan!srvVars, C!srvVars

-----------------------------------------------------------------------------
(***************************************************************************)
(* Every step keeps Inv.                                                   *)
(***************************************************************************)
\* The part of TypeOK that is about the calling threads.
CallerTypes ==
  /\ killed \in BOOLEAN
  /\ calls \in 0..MaxCalls /\ asked \in 0..MaxCalls
  /\ \A u \in User : op[u] = "none" <=> todo[u] = <<>>
  /\ clean \in [User -> SUBSET Table] /\ fresh \subseteq Table

\* The plans of the threads, when one of them took a step.
LEMMA PlansRest ==
  ASSUME Inv, NEW u \in User, NEW lo, todo' = [todo EXCEPT ![u] = lo],
         UNCHANGED <<have, calls, asked>>,
         (upc[u] = "ready" /\ upc' = upc) \/ upc' = [upc EXCEPT ![u] = "ready"],
         op' \in [User -> Names], todo' \in [User -> Seq(Step)],
         \A v \in User : todo'[v] \in Seq(StepOf(op'[v]))
  PROVE  Plans'
<1>1. \A g \in Names : StepOf(g)' = StepOf(g)
  BY DEF StepOf, Fits
<1>2. upc \in [User -> {"ready", "ask", "flush", "barrier"}]
  BY DEF Inv, C!CallInv, C!IInv, C!TypeOK
<1>3. ASSUME NEW v \in User
      PROVE  /\ upc'[v] = "barrier" => At(v, "barrier")'
             /\ upc'[v] = "flush" => At(v, "flush")'
             /\ upc'[v] = "ask" => At(v, "synchro")'
  <2>1. CASE v = u
    BY <1>2, <2>1
  <2>2. CASE v # u
    BY <1>2, <2>2 DEF Inv, Kept, Plans, At
  <2> QED
    BY <2>1, <2>2
<1>4. asked' <= calls'
  BY DEF Inv, Kept, Plans
<1> QED
  BY <1>1, <1>3, <1>4 DEF Plans

\* Thread u takes a step of its plan, and is not in a call on the channel then.
LEMMA AdvanceKeeps ==
  ASSUME Inv, NEW u \in User, todo[u] # <<>>, NEW lo \in Seq(StepOf(op[u])),
         Advance(u, lo), UNCHANGED have,
         (upc[u] = "ready" /\ upc' = upc) \/ upc' = [upc EXCEPT ![u] = "ready"]
  PROVE  CallerTypes' /\ Plans'
<1>1. todo' = [todo EXCEPT ![u] = lo] /\ calls' = calls /\ asked' = asked
  BY DEF Advance
<1>2. CASE lo = <<>>
  <2>1. /\ op' = [op EXCEPT ![u] = "none"] /\ clean' = [clean EXCEPT ![u] = {}]
        /\ fresh' \in {fresh, fresh \cup clean[u]} /\ killed' \in BOOLEAN
    BY <1>2 DEF Advance
  <2>2. CallerTypes'
    BY <1>1, <1>2, <2>1 DEF Inv, Kept, TypeOK, Plans, CallerTypes
  <2>3. /\ op' \in [User -> Names] /\ todo' \in [User -> Seq(Step)]
        /\ \A v \in User : todo'[v] \in Seq(StepOf(op'[v]))
    <3>1. <<>> \in Seq(StepOf("none")) /\ <<>> \in Seq(Step)
      OBVIOUS
    <3>2. op'[u] = "none" /\ todo'[u] = <<>>
      BY <1>1, <1>2, <2>1 DEF Inv, Kept, Plans
    <3>3. \A v \in User \ {u} : op'[v] = op[v] /\ todo'[v] = todo[v]
      BY <1>1, <2>1 DEF Inv, Kept, Plans
    <3>0. op \in [User -> Names] /\ "none" \in Names
      BY DEF Inv, Kept, Plans, Names
    <3>4. op' \in [User -> Names]
      BY <2>1, <3>0
    <3>5. todo \in [User -> Seq(Step)]
      BY DEF Inv, Kept, Plans
    <3>6. todo' \in [User -> Seq(Step)]
      BY <1>1, <1>2, <3>1, <3>5
    <3> QED
      BY <3>1, <3>2, <3>3, <3>4, <3>6 DEF Inv, Kept, Plans
  <2> QED
    BY <1>1, <2>2, <2>3, PlansRest
<1>3. CASE lo # <<>>
  <2>1. UNCHANGED <<op, clean, fresh, killed>>
    BY <1>3 DEF Advance, pastVars
  <2>2. CallerTypes'
    BY <1>1, <1>3, <2>1 DEF Inv, Kept, TypeOK, Plans, CallerTypes
  <2>3. lo \in Seq(Step)
    BY DEF StepOf
  <2>4. /\ op' \in [User -> Names] /\ todo' \in [User -> Seq(Step)]
        /\ \A v \in User : todo'[v] \in Seq(StepOf(op'[v]))
    BY <1>1, <2>1, <2>3 DEF Inv, Kept, Plans
  <2> QED
    BY <1>1, <2>2, <2>4, PlansRest
<1> QED
  BY <1>2, <1>3

\* An insertion of a message with the packet that its callback needs.
LEMMA InsertKeeps ==
  ASSUME Inv, NEW c, NEW d, NEW nr, Fits(c, d) \/ Fits(c, d)',
         C!Insert(C!NewMsg(c, d, nr)),
         UNCHANGED <<wpc, hand, wire, back, got>>,
         \A t \in Table : have[t] \subseteq have'[t]
  PROVE  Packets' /\ Replies' /\ Probes'
<1> DEFINE n == C!NewMsg(c, d, nr)
<1>1. n.str = c /\ n.data = d
  BY DEF C!NewMsg, C!Request
<1>2. msgq' = msgq \/ msgq' = msgq \cup {n}
  BY DEF C!Insert
<1> HIDE DEF n
<1>3. Packets'
  BY <1>1, <1>2, FitsGrows DEF Inv, Kept, Packets
<1> QED
  BY <1>3 DEF Inv, Kept, Replies, Probes, Kind

\* enqueue_noreply
LEMMA NoreplyKeeps ==
  ASSUME Inv, NEW u \in User, DoNoreply(u)
  PROVE  [C!Next]_C!vars /\ Kept'
<1> DEFINE c == Head(todo[u]).cmd
<1>1. Head(todo[u]) \in StepOf(op[u]) /\ Head(todo[u]).do = "noreply"
      /\ todo[u] # <<>> /\ Tail(todo[u]) \in Seq(StepOf(op[u]))
  BY DEF Inv, Kept, Plans, DoNoreply, At
<1>2. c \in Silent
  BY <1>1 DEF StepOf, Step
<1> HIDE DEF c
<1>3. C!EnqueueNoreply(u, c) /\ StepDone(u) /\ UNCHANGED <<up, srvVars, locVars>>
  BY SameInserts DEF DoNoreply, c
<1>4. [C!Next]_C!vars
  <2>1. c \in Command \ (Command \ Silent)
    BY <1>2 DEF Silent
  <2> QED
    BY <1>3, <2>1 DEF C!Next, C!UserNext
<1>5. /\ upc[u] = "ready" /\ C!Insert(C!NewMsg(c, <<>>, TRUE))
      /\ UNCHANGED <<wpc, hand, upc, wire, back, got>>
  BY <1>3 DEF C!EnqueueNoreply, C!workVars, C!sockVars
<1>6. Fits(c, <<>>)
  BY <1>2 DEF Fits, Silent, ListNames, ValueNames
<1>7. UNCHANGED <<have, lval, rest, up, known, val, applied>>
  BY <1>3 DEF srvVars, locVars
<1>8. Packets' /\ Replies' /\ Probes'
  BY <1>5, <1>6, <1>7, InsertKeeps
<1>9. CallerTypes' /\ Plans'
  BY <1>1, <1>3, <1>5, <1>7, AdvanceKeeps DEF StepDone
<1> QED
  BY <1>4, <1>7, <1>8, <1>9 DEF Inv, Kept, TypeOK, CallerTypes

\* storeAtom, for one Atom of the plan.
LEMMA StoreKeeps ==
  ASSUME Inv, NEW u \in User, NEW a \in Atom, DoStore(u, a)
  PROVE  [C!Next]_C!vars /\ Kept'
<1> DEFINE s == Head(todo[u])
           v == lval[s.table][a]
           c == IF v # 0 THEN <<"cog-set-values!", a, v>> ELSE <<"cog-set-tv!", a>>
           lo == Store(s.table, s.atoms \ {a}) \o Tail(todo[u])
<1>1. /\ s \in StepOf(op[u]) /\ s.do = "store"
      /\ todo[u] # <<>> /\ Tail(todo[u]) \in Seq(StepOf(op[u]))
  BY DEF Inv, Kept, Plans, DoStore, At
<1>2. s.table \in Table /\ s.atoms \in SUBSET Atom /\ op[u] \in Writes
  BY <1>1 DEF StepOf, Step
<1>3. c \in Silent
  <2>1. v \in Val
    BY <1>2 DEF Inv, Kept, TypeOK
  <2> QED
    BY <2>1, CommandForms DEF Silent, SetNames, Single
<1>4. Store(s.table, s.atoms \ {a}) \in Seq(StepOf(op[u]))
  BY <1>2, StepForms
<1>5. lo \in Seq(StepOf(op[u]))
  BY <1>1, <1>4
<1>6. C!EnqueueNoreply(u, c) /\ Advance(u, lo) /\ UNCHANGED <<up, srvVars, locVars>>
  <2>1. Chan!EnqueueNoreply(u, c) /\ Advance(u, lo) /\ UNCHANGED <<up, srvVars, locVars>>
    BY DEF DoStore
  <2> QED
    BY <2>1, SameInserts
<1> HIDE DEF s, v, c, lo
<1>7. [C!Next]_C!vars
  <2>1. c \in Command \ (Command \ Silent)
    BY <1>3 DEF Silent
  <2> QED
    BY <1>6, <2>1 DEF C!Next, C!UserNext
<1>8. /\ upc[u] = "ready" /\ C!Insert(C!NewMsg(c, <<>>, TRUE))
      /\ UNCHANGED <<wpc, hand, upc, wire, back, got>>
  BY <1>6 DEF C!EnqueueNoreply, C!workVars, C!sockVars
<1>9. Fits(c, <<>>)
  BY <1>3 DEF Fits, Silent, ListNames, ValueNames
<1>10. UNCHANGED <<have, lval, rest, up, known, val, applied>>
  BY <1>6 DEF srvVars, locVars
<1>11. Packets' /\ Replies' /\ Probes'
  BY <1>8, <1>9, <1>10, InsertKeeps
<1>12. CallerTypes' /\ Plans'
  BY <1>1, <1>5, <1>6, <1>8, <1>10, AdvanceKeeps
<1> QED
  BY <1>7, <1>10, <1>11, <1>12 DEF Inv, Kept, TypeOK, CallerTypes

\* enqueue
LEMMA EnqueueKeeps ==
  ASSUME Inv, NEW u \in User, DoEnqueue(u)
  PROVE  [C!Next]_C!vars /\ Kept'
<1> DEFINE c == Head(todo[u]).cmd
           d == Head(todo[u]).pkt
<1>1. Head(todo[u]) \in StepOf(op[u]) /\ Head(todo[u]).do = "enqueue"
      /\ todo[u] # <<>> /\ Tail(todo[u]) \in Seq(StepOf(op[u]))
  BY DEF Inv, Kept, Plans, DoEnqueue, At
<1>2. c \in Command \ Silent /\ d \in Pkt /\ Fits(c, d)
  BY <1>1 DEF StepOf, Step, Asks
<1>3. C!Enqueue(u, c, d) /\ StepDone(u) /\ UNCHANGED <<up, srvVars, locVars>>
  BY SameInserts DEF DoEnqueue
<1> HIDE DEF c, d
<1>4. [C!Next]_C!vars
  BY <1>2, <1>3 DEF C!Next, C!UserNext
<1>5. /\ upc[u] = "ready" /\ C!Insert(C!NewMsg(c, d, FALSE))
      /\ UNCHANGED <<wpc, hand, upc, wire, back, got>>
  BY <1>3 DEF C!Enqueue, C!workVars, C!sockVars
<1>6. UNCHANGED <<have, lval, rest, up, known, val, applied>>
  BY <1>3 DEF srvVars, locVars
<1>7. Packets' /\ Replies' /\ Probes'
  BY <1>2, <1>5, <1>6, InsertKeeps
<1>8. CallerTypes' /\ Plans'
  BY <1>1, <1>3, <1>5, <1>6, AdvanceKeeps DEF StepDone
<1> QED
  BY <1>4, <1>6, <1>7, <1>8 DEF Inv, Kept, TypeOK, CallerTypes

\* A thread begins to wait in a call of its plan.
LEMMA WaitKeeps ==
  ASSUME Inv, NEW u \in User, NEW pc \in {"barrier", "flush", "ask"},
         upc' = [upc EXCEPT ![u] = pc],
         At(u, CASE pc = "barrier" -> "barrier" [] pc = "flush" -> "flush"
                 [] pc = "ask" -> "synchro"),
         Wait, UNCHANGED have
  PROVE  CallerTypes' /\ Plans'
<1>1. UNCHANGED <<up, op, todo, calls, asked, clean, fresh, killed>>
  BY DEF Wait, userVars, pastVars
<1>2. CallerTypes'
  BY <1>1 DEF CallerTypes, Inv, Kept, TypeOK
<1>3. \A g \in Names : StepOf(g)' = StepOf(g)
  BY DEF StepOf, Fits
<1>4. upc \in [User -> {"ready", "ask", "flush", "barrier"}]
  BY DEF Inv, C!CallInv, C!IInv, C!TypeOK
<1>5. ASSUME NEW v \in User
      PROVE  /\ upc'[v] = "barrier" => At(v, "barrier")'
             /\ upc'[v] = "flush" => At(v, "flush")'
             /\ upc'[v] = "ask" => At(v, "synchro")'
  BY <1>1, <1>4 DEF Inv, Kept, Plans, At
<1>6. /\ op \in [User -> Names] /\ todo \in [User -> Seq(Step)]
      /\ \A v \in User : todo[v] \in Seq(StepOf(op[v]))
      /\ asked <= calls
  BY DEF Inv, Kept, Plans
<1>7. Plans'
  BY <1>1, <1>3, <1>5, <1>6 DEF Plans
<1> QED
  BY <1>2, <1>7

\* Nothing is inserted, and no reply moves.
LEMMA StillKeeps ==
  ASSUME Inv, UNCHANGED <<msgq, wpc, hand, wire, back, got, have>>
  PROVE  Packets' /\ Replies' /\ Probes'
BY DEF Inv, Kept, Packets, Replies, Probes, Fits, Kind

\* flush() and barrier()
LEMMA FenceKeeps ==
  ASSUME Inv, NEW u \in User, DoFlush(u) \/ DoBarrier(u)
  PROVE  [C!Next]_C!vars /\ Kept'
<1>1. UNCHANGED <<up, have, lval, rest, known, val, applied>>
  BY DEF DoFlush, DoBarrier, Wait, userVars, srvVars, locVars
<1>2. \/ C!FlushBegin(u) /\ Wait /\ At(u, "flush")
      \/ C!FlushEnd(u) /\ StepDone(u)
      \/ C!BarrierBegin(u) /\ Wait /\ At(u, "barrier")
      \/ C!BarrierEnd(u) /\ StepDone(u)
  BY SameWaits DEF DoFlush, DoBarrier
<1>3. [C!Next]_C!vars
  BY <1>2 DEF C!Next, C!UserNext
<1>4. UNCHANGED <<msgq, wpc, hand, wire, back, got>>
  BY <1>2 DEF C!FlushBegin, C!FlushEnd, C!BarrierBegin, C!BarrierEnd, C!bufVars,
    C!workVars, C!sockVars
<1>5. Packets' /\ Replies' /\ Probes'
  BY <1>1, <1>4, StillKeeps
<1>6. CallerTypes' /\ Plans'
  <2>1. CASE C!FlushBegin(u) /\ Wait /\ At(u, "flush")
    BY <1>1, <2>1, WaitKeeps DEF C!FlushBegin
  <2>2. CASE C!BarrierBegin(u) /\ Wait /\ At(u, "barrier")
    BY <1>1, <2>2, WaitKeeps DEF C!BarrierBegin
  <2>3. CASE (C!FlushEnd(u) \/ C!BarrierEnd(u)) /\ StepDone(u)
    <3>1. todo[u] # <<>> /\ Tail(todo[u]) \in Seq(StepOf(op[u]))
      BY DEF Inv, Kept, Plans, DoFlush, DoBarrier, At
    <3>2. upc' = [upc EXCEPT ![u] = "ready"]
      BY <2>3 DEF C!FlushEnd, C!BarrierEnd
    <3> QED
      BY <1>1, <2>3, <3>1, <3>2, AdvanceKeeps DEF StepDone
  <2> QED
    BY <1>2, <2>1, <2>2, <2>3
<1> QED
  BY <1>1, <1>3, <1>5, <1>6 DEF Inv, Kept, TypeOK, CallerTypes

\* open_connection and close_connection
LEMMA ConnectionKeeps ==
  ASSUME Inv, NEW u \in User, CloseConnection(u) \/ OpenConnection(u)
  PROVE  [C!Next]_C!vars /\ Kept'
<1>1. /\ UNCHANGED <<chanVars, srvVars, locVars>> /\ StepDone(u) /\ up' \in BOOLEAN
      /\ todo[u] # <<>> /\ upc[u] = "ready"
  <2>1. upc[u] \in {"ready", "ask", "flush", "barrier"}
    BY DEF Inv, C!CallInv, C!IInv, C!TypeOK
  <2> QED
    BY <2>1 DEF CloseConnection, OpenConnection, At, Inv, Kept, Plans
<1>2. [C!Next]_C!vars
  BY <1>1 DEF chanVars, C!vars, C!bufVars, C!workVars, C!sockVars, C!barVars, C!srvVars
<1>3. UNCHANGED <<msgq, wpc, hand, upc, wire, back, got, have, lval, rest, known, val, applied>>
  BY <1>1 DEF chanVars, srvVars, locVars
<1>4. Packets' /\ Replies' /\ Probes'
  BY <1>3, StillKeeps
<1>5. Tail(todo[u]) \in Seq(StepOf(op[u]))
  BY <1>1 DEF Inv, Kept, Plans
<1>6. CallerTypes' /\ Plans'
  BY <1>1, <1>3, <1>5, AdvanceKeeps DEF StepDone
<1> QED
  BY <1>1, <1>2, <1>3, <1>4, <1>6 DEF Inv, Kept, TypeOK, CallerTypes

\* What is in a socket after x was sent.
LEMMA SentItems ==
  ASSUME NEW S, NEW q \in Seq(S), NEW x, NEW p, p = Append(q, x), NEW i \in DOMAIN p
  PROVE  p[i] = x \/ (i \in DOMAIN q /\ p[i] = q[i])
<1>1. /\ Len(q) \in Nat /\ DOMAIN q = 1..Len(q) /\ DOMAIN p = 1..(Len(q) + 1)
      /\ p[Len(q) + 1] = x /\ \A k \in 1..Len(q) : p[k] = q[k]
  OBVIOUS
<1>2. CASE i = Len(q) + 1
  BY <1>1, <1>2
<1>3. CASE i # Len(q) + 1
  <2>1. i \in 1..Len(q)
    BY <1>1, <1>3
  <2> QED
    BY <1>1, <2>1
<1> QED
  BY <1>2, <1>3

\* synchro: the question
LEMMA ProbeKeeps ==
  ASSUME Inv, NEW u \in User, DoProbe(u)
  PROVE  [C!Next]_C!vars /\ Kept'
<1> DEFINE c == Head(todo[u]).cmd
           n == C!Request(c, 0, FALSE, <<>>)
<1>1. Head(todo[u]) \in StepOf(op[u]) /\ Head(todo[u]).do = "synchro" /\ At(u, "synchro")
  BY DEF Inv, Kept, Plans, DoProbe, At
<1>2. c[1] = "cog-node" /\ c \in Command \ Silent
  <2>1. c \in {"cog-node"} \X Atom
    BY <1>1 DEF StepOf, Step
  <2> QED
    BY <2>1, CommandForms DEF Silent, Single
<1>3. C!SynchroSend(u, c) /\ Wait /\ UNCHANGED <<srvVars, locVars>>
  BY SameWaits DEF DoProbe
<1>4. n.str = c
  BY DEF C!Request
<1>5. /\ wire' = [wire EXCEPT ![u] = Append(@, n)] /\ UNCHANGED <<back, got, msgq, wpc, hand>>
      /\ upc' = [upc EXCEPT ![u] = "ask"]
  BY <1>3 DEF C!SynchroSend, C!DoSend, C!Sock, C!bufVars, C!workVars
<1> HIDE DEF c, n
<1>6. [C!Next]_C!vars
  BY <1>2, <1>3 DEF C!Next, C!UserNext
<1>7. UNCHANGED <<up, have, lval, rest, known, val, applied>>
  BY <1>3 DEF Wait, userVars, srvVars, locVars
<1>8. CallerTypes' /\ Plans'
  BY <1>1, <1>3, <1>5, <1>7, WaitKeeps
<1>9. Probes'
  <2>1. /\ \A v \in User \ {u} : wire'[v] = wire[v]
        /\ wire[u] \in Seq(C!Item) /\ wire'[u] = Append(wire[u], n)
    BY <1>5 DEF Inv, C!CallInv, C!IInv, C!TypeOK, C!Thread
  <2>2. \A i \in DOMAIN wire'[u] :
          wire'[u][i] = n \/ (i \in DOMAIN wire[u] /\ wire'[u][i] = wire[u][i])
    BY <2>1, SentItems
  <2> QED
    BY <1>2, <1>4, <2>1, <2>2 DEF Inv, Kept, Probes
<1>10. Packets' /\ Replies'
  BY <1>5, <1>7 DEF Inv, Kept, Packets, Replies, Fits, Kind
<1> QED
  BY <1>6, <1>7, <1>8, <1>9, <1>10 DEF Inv, Kept, TypeOK, CallerTypes

\* synchro: the reply
LEMMA ProbeReplyKeeps ==
  ASSUME Inv, NEW u \in User, ProbeReply(u)
  PROVE  [C!Next]_C!vars /\ Kept'
<1>1. C!SynchroRecv(u) /\ UNCHANGED <<up, srvVars, locVars>>
  BY SameWaits DEF ProbeReply
<1>2. [C!Next]_C!vars
  BY <1>1 DEF C!Next, C!UserNext
<1>3. UNCHANGED <<up, have, lval, rest, known, val, applied>>
  BY <1>1 DEF srvVars, locVars
<1>4. /\ upc' = [upc EXCEPT ![u] = "ready"] /\ UNCHANGED <<wire, msgq, wpc, hand>>
      /\ back' = [back EXCEPT ![u] = Tail(@)]
      /\ got' = [got EXCEPT ![u] = Head(back[u])]
  BY <1>1 DEF C!SynchroRecv, C!DoRecv, C!Sock, C!bufVars, C!workVars
<1>5. \A w \in Worker : back'[w] = back[w] /\ got'[w] = got[w]
  BY <1>4, ThreadAssumption DEF Inv, C!CallInv, C!IInv, C!TypeOK, C!Thread
<1>6. Packets' /\ Replies' /\ Probes'
  BY <1>3, <1>4, <1>5 DEF Inv, Kept, Packets, Replies, Probes, Fits, Kind
<1>7. todo[u] # <<>> /\ Tail(todo[u]) \in Seq(StepOf(op[u])) /\ <<>> \in Seq(StepOf(op[u]))
  BY DEF Inv, Kept, Plans, ProbeReply, At
<1>8. Advance(u, Tail(todo[u])) \/ Advance(u, <<>>)
  BY DEF ProbeReply, StepDone
<1>9. CallerTypes' /\ Plans'
  BY <1>3, <1>4, <1>7, <1>8, AdvanceKeeps
<1> QED
  BY <1>2, <1>3, <1>6, <1>9 DEF Inv, Kept, TypeOK, CallerTypes

\* The plans, when no calling thread takes a step and no table shrinks.
LEMMA PlansStill ==
  ASSUME Inv, UNCHANGED <<userVars, upc>>, \A t \in Table : have[t] \subseteq have'[t]
  PROVE  Plans'
<1>1. UNCHANGED <<op, todo, calls, asked>>
  BY DEF userVars
<1>2. \A g \in Names : Seq(StepOf(g)) \subseteq Seq(StepOf(g)')
  BY StepOfGrows
<1>3. /\ op \in [User -> Names] /\ todo \in [User -> Seq(Step)]
      /\ \A v \in User : todo[v] \in Seq(StepOf(op[v]))
      /\ asked <= calls
  BY DEF Inv, Kept, Plans
<1>4. \A u \in User : /\ upc'[u] = "barrier" => At(u, "barrier")'
                      /\ upc'[u] = "flush" => At(u, "flush")'
                      /\ upc'[u] = "ask" => At(u, "synchro")'
  BY <1>1 DEF Inv, Kept, Plans, At
<1> QED
  BY <1>1, <1>2, <1>3, <1>4 DEF Plans

\* A step of the channel alone.
LEMMA UserStill ==
  ASSUME Inv, UNCHANGED <<userVars, pastVars, srvVars, locVars, upc>>
  PROVE  TypeOK' /\ Plans'
<1>1. TypeOK'
  BY DEF Inv, Kept, TypeOK, userVars, pastVars, srvVars, locVars
<1>2. Plans'
  BY PlansStill DEF locVars
<1> QED
  BY <1>1, <1>2

\* The server takes probes from the sockets of users.
LEMMA TailProbes ==
  ASSUME Inv, \A u \in User : \/ wire'[u] = wire[u]
                              \/ wire[u] # <<>> /\ wire'[u] = Tail(wire[u])
  PROVE  Probes'
<1> SUFFICES ASSUME NEW u \in User, NEW i \in DOMAIN wire'[u]
             PROVE  wire'[u][i].str[1] = "cog-node"
  BY DEF Probes
<1>1. CASE wire'[u] = wire[u]
  BY <1>1 DEF Inv, Kept, Probes
<1>2. CASE wire[u] # <<>> /\ wire'[u] = Tail(wire[u])
  <2>1. wire[u] \in Seq(C!Item)
    BY DEF Inv, C!CallInv, C!IInv, C!TypeOK, C!Thread
  <2>2. i + 1 \in DOMAIN wire[u] /\ wire'[u][i] = wire[u][i + 1]
    BY <1>2, <2>1
  <2> QED
    BY <2>2 DEF Inv, Kept, Probes
<1> QED
  BY <1>1, <1>2

\* The threads of the buffer, and the server at a barrier.
LEMMA MovesKeep ==
  ASSUME Inv,
         \/ \E w \in Worker : WorkerSend(w) \/ WorkerSendBlock(w) \/ CallbackEnds(w)
                                \/ \E m \in msgq : WorkerTake(w, m)
         \/ BarrierDrained
         \/ \E k \in 1..bstart : ServerBarrier(k)
  PROVE  [C!Next]_C!vars /\ Kept'
<1>0. /\ msgq \subseteq C!Msg
      /\ wpc \in [Worker -> {"idle", "send", "recv", "callback"}]
      /\ hand \in [Worker -> C!Msg \cup {NoMsg}]
      /\ wire \in [C!Thread -> Seq(C!Item)] /\ back \in [C!Thread -> Seq(C!Reply)]
      /\ got \in [C!Thread -> C!Reply \cup {NoMsg}]
      /\ Worker \subseteq C!Thread /\ User \subseteq C!Thread
  BY DEF Inv, C!CallInv, C!IInv, C!TypeOK, C!Thread
<1>1. UNCHANGED <<userVars, pastVars, srvVars, locVars>>
  BY DEF WorkerSend, WorkerSendBlock, CallbackEnds, WorkerTake, BarrierDrained, ServerBarrier
<1>2. \/ \E w \in Worker : C!WorkerSend(w) \/ C!WorkerSendBlock(w) \/ C!CallbackDone(w)
                             \/ \E m \in msgq : C!WorkerTake(w, m)
      \/ C!BarrierDrained
      \/ \E k \in 1..bstart : C!ServerBarrier(k)
  BY SameWorker, SameWaits, SameServer
     DEF WorkerSend, WorkerSendBlock, CallbackEnds, WorkerTake, BarrierDrained, ServerBarrier
<1>3. [C!Next]_C!vars
  BY <1>2 DEF C!Next, C!WorkerNext, C!ServerNext
<1>4. UNCHANGED <<upc, back>>
  BY <1>2 DEF C!WorkerSend, C!DoSend, C!WorkerSendBlock, C!CallbackDone, C!WorkerTake,
    C!BarrierDrained, C!ServerBarrier, C!sockVars
<1>5. Packets' /\ \A w \in Worker : wpc'[w] = "callback" => wpc[w] = "callback" /\ got'[w] = got[w]
  <2>1. UNCHANGED have
    BY <1>1 DEF locVars
  <2>2. CASE UNCHANGED <<msgq, wpc, hand, got>>
    BY <2>1, <2>2 DEF Inv, Kept, Packets, Fits
  <2>3. ASSUME NEW w \in Worker, NEW m \in msgq, C!WorkerTake(w, m)
        PROVE  /\ Packets'
               /\ \A v \in Worker : wpc'[v] = "callback" => wpc[v] = "callback" /\ got'[v] = got[v]
    <3>1. /\ msgq' \subseteq msgq /\ wpc'[w] = "send" /\ hand'[w] = m /\ got' = got
          /\ \A v \in Worker \ {w} : wpc'[v] = wpc[v] /\ hand'[v] = hand[v]
      BY <1>0, <2>3 DEF C!WorkerTake, C!sockVars
    <3> QED
      BY <2>1, <3>1 DEF Inv, Kept, Packets, Fits
  <2>4. ASSUME NEW w \in Worker, C!WorkerSend(w) \/ C!CallbackDone(w)
        PROVE  /\ Packets'
               /\ \A v \in Worker : wpc'[v] = "callback" => wpc[v] = "callback" /\ got'[v] = got[v]
    <3>1. /\ msgq' = msgq /\ wpc'[w] # "callback"
          /\ wpc'[w] = "idle" \/ (hand'[w] = hand[w] /\ wpc[w] # "idle")
          /\ \A v \in Worker \ {w} : wpc'[v] = wpc[v] /\ hand'[v] = hand[v] /\ got'[v] = got[v]
      BY <1>0, <2>4 DEF C!WorkerSend, C!DoSend, C!CallbackDone, C!WorkerIdle, C!bufVars
    <3> QED
      BY <2>1, <3>1 DEF Inv, Kept, Packets, Fits
  <2>5. CASE \/ \E w \in Worker : C!WorkerSendBlock(w)
             \/ C!BarrierDrained
             \/ \E k \in 1..bstart : C!ServerBarrier(k)
    BY <2>2, <2>5 DEF C!WorkerSendBlock, C!DoSend, C!BarrierDrained, C!ServerBarrier,
      C!bufVars, C!workVars, C!sockVars
  <2> QED
    BY <1>2, <2>3, <2>4, <2>5
<1>6. Replies'
  BY <1>4, <1>5 DEF Inv, Kept, Replies, Kind
<1>7. Probes'
  <2>1. ASSUME NEW u \in User
        PROVE  \/ wire'[u] = wire[u]
               \/ wire[u] # <<>> /\ wire'[u] = Tail(wire[u])
    <3>1. CASE \E k \in 1..bstart : C!ServerBarrier(k)
      BY <1>0, <3>1 DEF C!ServerBarrier, C!AtBarrier
    <3>2. CASE \E w \in Worker : C!WorkerSend(w) \/ C!WorkerSendBlock(w)
      BY <1>0, <3>2, ThreadAssumption DEF C!WorkerSend, C!WorkerSendBlock, C!DoSend, C!Sock
    <3>3. CASE C!BarrierDrained \/ \E w \in Worker :
                 C!CallbackDone(w) \/ \E m \in msgq : C!WorkerTake(w, m)
      BY <3>3 DEF C!BarrierDrained, C!CallbackDone, C!WorkerTake, C!sockVars
    <3> QED
      BY <1>2, <3>1, <3>2, <3>3
  <2> QED
    BY <1>0, <2>1, TailProbes
<1>8. TypeOK' /\ Plans'
  BY <1>1, <1>4, UserStill
<1> QED
  BY <1>3, <1>5, <1>6, <1>7, <1>8 DEF Kept

\* do_recv in a worker; decode_atom_list then has a list to go through.
LEMMA RecvKeeps ==
  ASSUME Inv, NEW w \in Worker, WorkerRecv(w)
  PROVE  [C!Next]_C!vars /\ Kept'
<1>1. C!WorkerRecv(w) /\ UNCHANGED <<userVars, pastVars, srvVars, have, lval>>
  BY SameWorker DEF WorkerRecv
<1>2. [C!Next]_C!vars
  BY <1>1 DEF C!Next, C!WorkerNext
<1>3. /\ wpc' = [wpc EXCEPT ![w] = "callback"] /\ wpc[w] = "recv" /\ back[w] # <<>>
      /\ got' = [got EXCEPT ![w] = Head(back[w])]
      /\ back' = [back EXCEPT ![w] = Tail(@)]
      /\ UNCHANGED <<msgq, hand, upc, wire>>
  BY <1>1 DEF C!WorkerRecv, C!DoRecv, C!Sock, C!bufVars
<1>4. /\ wpc \in [Worker -> {"idle", "send", "recv", "callback"}]
      /\ back \in [C!Thread -> Seq(C!Reply)] /\ got \in [C!Thread -> C!Reply \cup {NoMsg}]
      /\ Worker \subseteq C!Thread /\ hand[w] \in C!Msg
  BY <1>3 DEF Inv, C!CallInv, C!IInv, C!TypeOK, C!Thread
<1>5. /\ got'[w] = back[w][1] /\ 1 \in DOMAIN back[w] /\ back[w] \in Seq(C!Reply)
      /\ got'[w].to = hand[w].str
  <2>1. back[w] \in Seq(C!Reply) /\ got'[w] = back[w][1] /\ 1 \in DOMAIN back[w]
    BY <1>3, <1>4
  <2>2. C!Waiting(w)
    BY <1>3 DEF Inv, C!CallInv, C!ReplyInv, C!Conversation
  <2>3. back[w] = <<[to |-> hand[w].str, val |-> back[w][1].val]>>
    BY <1>3, <2>2 DEF C!Waiting
  <2> QED
    BY <2>1, <2>3
<1>6. Kind(got'[w])
  BY <1>5 DEF Inv, Kept, Replies
<1>7. Replies'
  <2>1. ASSUME NEW v \in Worker \ {w}
        PROVE  wpc'[v] = wpc[v] /\ back'[v] = back[v] /\ got'[v] = got[v]
    BY <1>3, <1>4
  <2>2. \A i \in DOMAIN back'[w] : i + 1 \in DOMAIN back[w] /\ back'[w][i] = back[w][i + 1]
    BY <1>3, <1>4, <1>5
  <2>3. \A i \in DOMAIN back'[w] : Kind(back'[w][i])
    BY <2>2 DEF Inv, Kept, Replies
  <2> QED
    BY <1>6, <2>1, <2>3 DEF Inv, Kept, Replies, Kind
<1>8. Packets' /\ Probes'
  BY <1>1, <1>3, <1>4 DEF Inv, Kept, Packets, Probes, Fits
<1>9. rest' \in [Worker -> SUBSET Atom]
  <2>1. hand[w].str \in Lists => hand[w].str[1] \in ListNames
    BY DEF Lists, ListNames
  <2>2. hand[w].str \in Lists => got'[w].val[2] \in SUBSET Atom
    BY <1>5, <1>6, <2>1 DEF Kind
  <2> QED
    BY <2>2 DEF WorkerRecv, Inv, Kept, TypeOK
<1>10. UNCHANGED <<up, known, val, have, lval, calls, asked, applied, op, todo, clean, fresh, killed>>
  BY <1>1 DEF userVars, pastVars, srvVars
<1>11. TypeOK'
  BY <1>9, <1>10 DEF Inv, Kept, TypeOK
<1>12. Plans'
  BY <1>1, <1>3, PlansStill
<1> QED
  BY <1>2, <1>7, <1>8, <1>11, <1>12 DEF Kept

\* decode_value and decode_kvp_list write a Value to an Atom of a table.
LEMMA DecodeKeeps ==
  ASSUME Inv, NEW w \in Worker, DecodeValue(w) \/ DecodeKvpList(w)
  PROVE  [C!Next]_C!vars /\ Kept'
<1> DEFINE d == hand[w].data
           x == got[w].val[2]
<1>1. C!CallbackDone(w) /\ UNCHANGED <<userVars, pastVars, srvVars, have, rest>>
  BY SameWorker DEF DecodeValue, DecodeKvpList
<1>2. [C!Next]_C!vars
  BY <1>1 DEF C!Next, C!WorkerNext
<1>3. /\ wpc[w] = "callback" /\ wpc' = [wpc EXCEPT ![w] = "idle"]
      /\ hand' = [hand EXCEPT ![w] = NoMsg] /\ got' = [got EXCEPT ![w] = NoMsg]
      /\ UNCHANGED <<msgq, upc, wire, back>>
  BY <1>1 DEF C!CallbackDone, C!WorkerIdle, C!bufVars
<1>4. /\ wpc \in [Worker -> {"idle", "send", "recv", "callback"}]
      /\ hand \in [Worker -> C!Msg \cup {NoMsg}] /\ Worker \subseteq C!Thread
      /\ got \in [C!Thread -> C!Reply \cup {NoMsg}]
  BY DEF Inv, C!CallInv, C!IInv, C!TypeOK, C!Thread
<1>5. \A v \in Worker \ {w} : wpc'[v] = wpc[v] /\ hand'[v] = hand[v] /\ got'[v] = got[v]
  BY <1>3, <1>4
<1>6. wpc'[w] = "idle"
  BY <1>3, <1>4
<1>7. Packets' /\ Replies' /\ Probes'
  BY <1>1, <1>3, <1>5, <1>6 DEF Inv, Kept, Packets, Replies, Probes, Fits, Kind
<1>8. hand[w].str[1] \in ValueNames
  BY DEF DecodeValue, DecodeKvpList, ValueNames
<1>9. d \in Table \X Atom /\ d[2] \in have[d[1]] /\ x \in Val
  <2>1. d \in Table \X Atom /\ d[2] \in have[d[1]]
    BY <1>3, <1>8 DEF Inv, Kept, Packets, Fits
  <2>2. got[w].to = hand[w].str
    BY <1>3 DEF Inv, C!CallInv, C!ReplyInv, C!ReplyMatches
  <2>3. x \in Val
    BY <1>3, <1>8, <2>2 DEF Inv, Kept, Replies, Kind
  <2> QED
    BY <2>1, <2>3
<1>10. d[1] \in Table /\ d[2] \in Atom
  BY <1>9
<1>11. lval' = lval \/ lval' = [lval EXCEPT ![d[1]] = [lval[d[1]] EXCEPT ![d[2]] = x]]
  BY <1>10 DEF DecodeValue, DecodeKvpList, SetLocal
<1> HIDE DEF d, x
<1>12. /\ lval' \in [Table -> [Atom -> Val]]
       /\ \A t \in Table, a \in Atom : lval'[t][a] # 0 => a \in have[t]
  <2>1. /\ lval \in [Table -> [Atom -> Val]]
        /\ \A t \in Table, a \in Atom : lval[t][a] # 0 => a \in have[t]
    BY DEF Inv, Kept, TypeOK
  <2>2. CASE lval' = lval
    BY <2>1, <2>2
  <2>3. CASE lval' = [lval EXCEPT ![d[1]] = [lval[d[1]] EXCEPT ![d[2]] = x]]
    <3>1. /\ \A t \in Table \ {d[1]} : lval'[t] = lval[t]
          /\ lval'[d[1]] = [lval[d[1]] EXCEPT ![d[2]] = x]
      BY <1>10, <2>1, <2>3
    <3>2. \A a \in Atom \ {d[2]} : lval'[d[1]][a] = lval[d[1]][a]
      BY <1>10, <2>1, <3>1
    <3>3. lval' \in [Table -> [Atom -> Val]]
      <4>1. [lval[d[1]] EXCEPT ![d[2]] = x] \in [Atom -> Val]
        BY <1>9, <1>10, <2>1
      <4> QED
        BY <1>10, <2>1, <2>3, <4>1
    <3>4. ASSUME NEW t \in Table, NEW a \in Atom, lval'[t][a] # 0 PROVE a \in have[t]
      BY <1>9, <2>1, <3>1, <3>2, <3>4
    <3> QED
      BY <3>3, <3>4
  <2> QED
    BY <1>11, <2>2, <2>3
<1>13. UNCHANGED <<up, known, val, have, rest, calls, asked, applied, op, todo, clean, fresh, killed>>
  BY <1>1 DEF userVars, pastVars, srvVars
<1>14. TypeOK'
  BY <1>12, <1>13 DEF Inv, Kept, TypeOK
<1>15. Plans'
  BY <1>1, <1>3, PlansStill
<1> QED
  BY <1>2, <1>7, <1>14, <1>15 DEF Kept

\* decode_atom_list adds an Atom and asks for its keys.
LEMMA DecodeAtomKeeps ==
  ASSUME Inv, NEW w \in Worker, NEW a \in Atom, DecodeAtom(w, a)
  PROVE  [C!Next]_C!vars /\ Kept'
<1>1. /\ wpc[w] = "callback" /\ hand[w].str \in Lists
      /\ rest' = [rest EXCEPT ![w] = @ \ {a}]
      /\ UNCHANGED <<userVars, pastVars, srvVars, lval>>
  BY DEF DecodeAtom, Chan!CallbackEnqueue
<1>2. PICK t \in Table : hand[w].data[1] = t
  <2>1. hand[w].str[1] \in ListNames
    BY <1>1 DEF Lists, ListNames
  <2> QED
    BY <1>1, <2>1 DEF Inv, Kept, Packets, Fits
<1>3. /\ C!CallbackEnqueue(w, Keys(a), <<t, a>>)
      /\ C!Insert(C!NewMsg(Keys(a), <<t, a>>, FALSE))
      /\ have' = [have EXCEPT ![t] = @ \cup WithOutgoing(a)]
      /\ UNCHANGED <<wpc, hand, upc, wire, back, got>>
  <2>1. /\ C!CallbackEnqueue(w, Keys(a), <<t, a>>)
        /\ have' = [have EXCEPT ![t] = @ \cup WithOutgoing(a)]
    BY <1>2, SameInserts DEF DecodeAtom
  <2> QED
    BY <2>1 DEF C!CallbackEnqueue, C!workVars, C!sockVars
<1>4. [C!Next]_C!vars
  <2>1. Keys(a) \in {Keys(b) : b \in Atom} /\ <<t, a>> \in Pkt
    BY DEF Pkt
  <2> QED
    BY <1>3, <2>1 DEF C!Next, C!WorkerNext
<1>5. /\ have \in [Table -> SUBSET Atom] /\ have' \in [Table -> SUBSET Atom]
      /\ a \in have'[t] /\ \A s \in Table : have[s] \subseteq have'[s]
  BY <1>3 DEF Inv, Kept, TypeOK, WithOutgoing, Atom
<1>6. Fits(Keys(a), <<t, a>>)'
  <2>1. /\ Keys(a)[1] = "cog-keys->alist" /\ "cog-keys->alist" \notin ListNames
        /\ Keys(a)[2] = a
    BY DEF Keys, ListNames
  <2>2. <<t, a>> \in Table \X Atom /\ <<t, a>>[1] = t /\ <<t, a>>[2] = a
    OBVIOUS
  <2> QED
    BY <1>5, <2>1, <2>2 DEF Fits, Keys
<1>7. Packets' /\ Replies' /\ Probes'
  BY <1>3, <1>5, <1>6, InsertKeeps
<1>8. UNCHANGED <<up, known, val, lval, calls, asked, applied, op, todo, clean, fresh, killed>>
  BY <1>1 DEF userVars, pastVars, srvVars
<1>9. rest' \in [Worker -> SUBSET Atom]
  BY <1>1 DEF Inv, Kept, TypeOK
<1>10. TypeOK'
  BY <1>5, <1>8, <1>9 DEF Inv, Kept, TypeOK
<1>11. Plans'
  BY <1>1, <1>3, <1>5, PlansStill
<1> QED
  BY <1>4, <1>7, <1>10, <1>11 DEF Kept

\* What a command does to the remote AtomSpace.
LEMMA ApplyKeeps ==
  ASSUME Inv, NEW c \in Command, Apply(c)
  PROVE  /\ known' \subseteq Atom /\ val' \in [Atom -> Val] /\ applied' \in Nat
         /\ c \in Reading => UNCHANGED <<known, val>>
         /\ c = <<"cog-atomspace-clear">> => known' = {}
<1>0. known \subseteq Atom /\ val \in [Atom -> Val] /\ applied \in Nat /\ MaxVal \in Nat
  BY AtomAssumption DEF Inv, Kept, TypeOK
<1>1. /\ c[1] \in Single \cup SetNames \cup GetNames \cup Plain
      /\ c[1] \in Single => c[2] \in Atom
      /\ c[1] \in SetNames => c[2] \in Atom /\ c[3] \in Val
  BY CommandParts
<1>2. ASSUME NEW a \in Atom, NEW v \in Val, Put(a, v)
      PROVE  known' \subseteq Atom /\ val' \in [Atom -> Val]
  BY <1>0, <1>2 DEF Put, WithOutgoing, Atom
<1>3. ASSUME NEW S, Remove(S)
      PROVE  known' \subseteq Atom /\ val' \in [Atom -> Val]
  BY <1>0, <1>3 DEF Remove, Val
<1>4. applied' \in Nat
  BY <1>0 DEF Apply
<1>5. CASE c[1] \in SetNames
  <2>1. Put(c[2], c[3])
    BY <1>5 DEF Apply, SetNames
  <2> QED
    BY <1>1, <1>2, <1>4, <1>5, <2>1 DEF Reading, Asks, Silent, SetNames
<1>6. CASE c[1] \in {"cog-set-tv!", "cog-set-proxy!"}
  <2>1. Put(c[2], val[c[2]]) /\ c[2] \in Atom
    BY <1>1, <1>6 DEF Apply, Single
  <2> QED
    BY <1>0, <1>2, <1>4, <1>6, <2>1 DEF Reading, Asks, Silent
<1>7. CASE c[1] = "cog-update-value!"
  <2>1. Put(c[2], Least(val[c[2]] + 1, MaxVal)) /\ c[2] \in Atom
    BY <1>1, <1>7 DEF Apply, Single
  <2>2. val[c[2]] \in Val
    BY <1>0, <2>1
  <2>3. Least(val[c[2]] + 1, MaxVal) \in Val
    BY <1>0, <2>2 DEF Least, Val
  <2> QED
    BY <1>2, <1>4, <1>7, <2>1, <2>3 DEF Reading, Asks, Silent
<1>8. CASE c[1] = "cog-execute-cache!"
  <2>1. Put(c[2], MaxVal) /\ c[2] \in Atom /\ MaxVal \in Val
    BY <1>0, <1>1, <1>8 DEF Apply, Single, Val
  <2> QED
    BY <1>2, <1>4, <1>8, <2>1 DEF Reading
<1>9. CASE c[1] \in {"cog-extract!", "cog-extract-recursive!"}
  <2>1. (\E S : Remove(S)) \/ UNCHANGED <<known, val>>
    BY <1>9 DEF Apply
  <2> QED
    BY <1>0, <1>3, <1>4, <1>9, <2>1 DEF Reading
<1>10. CASE c[1] = "cog-atomspace-clear"
  <2>1. Remove(Atom)
    BY <1>10 DEF Apply
  <2>2. known' = {}
    BY <1>0, <2>1 DEF Remove
  <2> QED
    BY <1>3, <1>4, <1>10, <2>1, <2>2 DEF Reading
<1>11. CASE c[1] \notin {"cog-set-value!", "cog-set-values!", "cog-set-tv!",
                        "cog-set-proxy!", "cog-update-value!", "cog-execute-cache!",
                        "cog-extract!", "cog-extract-recursive!", "cog-atomspace-clear"}
  <2>1. UNCHANGED <<known, val>>
    BY <1>11 DEF Apply
  <2> QED
    BY <1>0, <1>4, <1>11, <2>1
<1> QED
  BY <1>5, <1>6, <1>7, <1>8, <1>9, <1>10, <1>11 DEF SetNames

\* The answers that the server gives are of the kind that was asked for.
LEMMA AnswerKind ==
  ASSUME Inv, NEW c \in Command, Apply(c)
  PROVE  /\ AnswerTo(c) \in ReplyValue
         /\ c[1] \in ListNames => AnswerTo(c)[2] \subseteq Atom
         /\ c[1] \in ValueNames => AnswerTo(c)[2] \in Val
<1>1. /\ known \subseteq Atom /\ val \in [Atom -> Val] /\ val' \in [Atom -> Val]
  BY ApplyKeeps DEF Inv, Kept, TypeOK
<1>2. c[1] \in Single => c[2] \in Atom
  BY CommandParts
<1>3. CASE c[1] \in {"cog-value", "cog-keys->alist"}
  <2>1. AnswerTo(c) = <<"value", val[c[2]]>> /\ val[c[2]] \in Val
    BY <1>1, <1>2, <1>3 DEF AnswerTo, Single
  <2> QED
    BY <1>3, <2>1 DEF ReplyValue, ListNames, ValueNames
<1>4. CASE c[1] = "cog-execute-cache!"
  <2>1. AnswerTo(c) = <<"value", val'[c[2]]>> /\ val'[c[2]] \in Val
    BY <1>1, <1>2, <1>4 DEF AnswerTo, Single
  <2> QED
    BY <1>4, <2>1 DEF ReplyValue, ListNames, ValueNames
<1>5. CASE c[1] \in ListNames
  <2>1. PICK S \in SUBSET Atom : AnswerTo(c) = <<"atoms", S>>
    BY <1>1, <1>5 DEF AnswerTo, ListNames
  <2> QED
    BY <1>5, <2>1 DEF ReplyValue, ListNames, ValueNames
<1>6. CASE c[1] = "cog-node"
  <2>1. AnswerTo(c) = <<"known", c[2] \in known>>
    BY <1>6 DEF AnswerTo
  <2>2. (c[2] \in known) \in BOOLEAN
    OBVIOUS
  <2>3. \A b \in BOOLEAN : <<"known", b>> \in {"known"} \X BOOLEAN
    OBVIOUS
  <2>4. AnswerTo(c) \in {"known"} \X BOOLEAN
    BY <2>1, <2>2, <2>3, Zenon
  <2> QED
    BY <1>6, <2>4 DEF ReplyValue, ListNames, ValueNames
<1>7. CASE c[1] \notin {"cog-value", "cog-keys->alist", "cog-execute-cache!", "cog-node"} \cup ListNames
  <2>1. AnswerTo(c) = <<"done">>
    BY <1>7 DEF AnswerTo, ListNames
  <2> QED
    BY <1>7, <2>1 DEF ReplyValue, ListNames, ValueNames
<1> QED
  BY <1>3, <1>4, <1>5, <1>6, <1>7

\* The server runs a command and answers it.
LEMMA ExecKeeps ==
  ASSUME Inv, NEW t \in C!Thread, ServerExec(t)
  PROVE  [C!Next]_C!vars /\ Kept'
<1>1. /\ wire \in [C!Thread -> Seq(C!Item)] /\ back \in [C!Thread -> Seq(C!Reply)]
      /\ wire[t] # <<>> /\ Head(wire[t]) \in C!Item
      /\ Worker \subseteq C!Thread /\ User \subseteq C!Thread
  BY DEF ServerExec, Inv, C!CallInv, C!IInv, C!TypeOK, C!Thread
<1>2. PICK c \in Command : Head(wire[t]).str = c
  BY <1>1 DEF ServerExec, C!Item, C!Msg
<1>3. Apply(c) /\ UNCHANGED <<userVars, pastVars, locVars>>
  BY <1>2 DEF ServerExec
<1>4. /\ AnswerTo(c) \in ReplyValue
      /\ c[1] \in ListNames => AnswerTo(c)[2] \subseteq Atom
      /\ c[1] \in ValueNames => AnswerTo(c)[2] \in Val
  BY <1>3, AnswerKind
<1>5. PICK r \in ReplyValue : r = AnswerTo(c)
  BY <1>4
<1>6. C!ServerExec(t, r)
  BY <1>2, <1>5, SameServer DEF ServerExec
<1>7. [C!Next]_C!vars
  BY <1>6 DEF C!Next, C!ServerNext
<1>8. /\ UNCHANGED <<msgq, wpc, hand, upc, got>>
      /\ wire' = [wire EXCEPT ![t] = Tail(@)]
      /\ back' = back \/ back' = [back EXCEPT ![t] = Append(@, [to |-> c, val |-> r])]
  BY <1>2, <1>6 DEF C!ServerExec, C!bufVars, C!workVars
<1>9. Probes'
  <2>1. \A u \in User : \/ wire'[u] = wire[u]
                        \/ wire[u] # <<>> /\ wire'[u] = Tail(wire[u])
    BY <1>1, <1>8
  <2> QED
    BY <2>1, TailProbes
<1>10. Packets'
  BY <1>3, <1>8 DEF Inv, Kept, Packets, Fits, locVars
<1>11. Replies'
  <2> SUFFICES ASSUME NEW w \in Worker
               PROVE  \A i \in DOMAIN back'[w] : Kind(back'[w][i])
    BY <1>8 DEF Replies, Kind, Inv, Kept
  <2> DEFINE x == [to |-> c, val |-> r]
  <2>1. Kind(x)
    BY <1>4, <1>5 DEF Kind
  <2>2. back'[w] = back[w] \/ back'[w] = Append(back[w], x)
    BY <1>1, <1>8
  <2> HIDE DEF x
  <2>3. back[w] \in Seq(C!Reply)
    BY <1>1
  <2>4. \A i \in DOMAIN back[w] : Kind(back[w][i])
    BY DEF Inv, Kept, Replies
  <2>5. CASE back'[w] = back[w]
    BY <2>4, <2>5
  <2>6. CASE back'[w] = Append(back[w], x)
    <3>1. \A i \in DOMAIN back'[w] :
            back'[w][i] = x \/ (i \in DOMAIN back[w] /\ back'[w][i] = back[w][i])
      BY <2>3, <2>6, SentItems
    <3> QED
      BY <2>1, <2>4, <3>1
  <2> QED
    BY <2>2, <2>5, <2>6
<1>12. known' \subseteq Atom /\ val' \in [Atom -> Val] /\ applied' \in Nat
  BY <1>3, ApplyKeeps
<1>13. UNCHANGED <<up, have, lval, rest, calls, asked, op, todo, clean, fresh, killed>>
  BY <1>3 DEF userVars, pastVars, locVars
<1>14. TypeOK'
  BY <1>12, <1>13 DEF Inv, Kept, TypeOK
<1>15. Plans'
  BY <1>3, <1>8, <1>13, PlansStill
<1> QED
  BY <1>7, <1>9, <1>10, <1>11, <1>14, <1>15 DEF Kept

\* Plans put one after another.
LEMMA Joined ==
  ASSUME NEW S, NEW p \in Seq(S), NEW q \in Seq(S)
  PROVE  p \o q \in Seq(S) /\ (p # <<>> \/ q # <<>> => p \o q # <<>>)
<1>1. p \o q \in Seq(S) /\ Len(p \o q) = Len(p) + Len(q)
  OBVIOUS
<1>2. /\ Len(p) \in Nat /\ Len(q) \in Nat
      /\ p # <<>> => Len(p) > 0
      /\ q # <<>> => Len(q) > 0
  OBVIOUS
<1>3. p # <<>> \/ q # <<>> => Len(p \o q) > 0
  BY <1>1, <1>2
<1> QED
  BY <1>1, <1>3

\* The plan of f, for a call of thread u.
Planned(u, f) ==
  \E t \in Table, steps \in Seq(StepOf(f)) :
    /\ steps # <<>> /\ Call(u, f, t, steps)
    /\ f = "kill_data" => steps = K3
    /\ f = "close" => steps = C5
    /\ f = "loadAtomSpace" => steps = LoadSteps(t)
    /\ f = "updateValue" => Tail(steps) = <<>> /\ Head(steps).do = "noreply"
    /\ f = "open" => steps = Connect
    /\ f = "open" <=> ~up

\* Every call has a plan.
LEMMA OperationPlan ==
  ASSUME Inv, NEW u \in User, Operation(u)
  PROVE  \E f \in Names \ {"none"} : Planned(u, f)
<1>1. AnyTable \in Table
  BY AtomAssumption DEF AnyTable
<1>2. /\ <<>> \in Pkt /\ \A t \in Table : <<t>> \in Pkt /\ (\A a \in Atom : <<t, a>> \in Pkt)
  BY DEF Pkt
<1>3. ASSUME NEW f \in Names \ {"none", "kill_data", "close", "open", "updateValue",
                                "loadAtomSpace"},
             NEW t \in Table, NEW steps \in Seq(StepOf(f)), steps # <<>>, Call(u, f, t, steps), up
      PROVE  \E g \in Names \ {"none"} : Planned(u, g)
  BY <1>3 DEF Planned
<1>4. /\ \A f : Barrier \in Seq(StepOf(f)) /\ Flush \in Seq(StepOf(f))
      /\ Shut \in Seq(StepOf("close")) /\ Connect \in Seq(StepOf("open"))
  BY StepForms
<1>5. Barrier # <<>> /\ Flush # <<>> /\ Shut # <<>> /\ Connect # <<>>
  BY DEF Barrier, Flush, Shut, Connect
<1>6. \A c, d : Ask(c, d) # <<>> /\ Silently(c) # <<>>
  BY DEF Ask, Silently
<1>7. ASSUME NEW f, NEW c \in Asks, c[1] \notin ListNames \cup ValueNames,
             f \in Writes \/ c \in Reading
      PROVE  Ask(c, <<>>) \in Seq(StepOf(f))
  <2>1. Fits(c, <<>>)
    BY <1>7 DEF Fits
  <2> QED
    BY <1>2, <1>7, <2>1, StepForms
<1>8. ASSUME NEW f, NEW c \in Reading, c[1] \in ListNames, NEW t \in Table
      PROVE  Ask(c, <<t>>) \in Seq(StepOf(f))
  <2>1. Fits(c, <<t>>) /\ c \in Asks
    BY <1>8 DEF Fits, Reading, ListNames, ValueNames
  <2> QED
    BY <1>2, <2>1, StepForms
<1>9. ASSUME NEW f, NEW c \in Asks, c[1] \in ValueNames, NEW t \in Table, NEW a \in Atom,
             a \in have[t], c[2] = a, f \in Writes \/ c \in Reading
      PROVE  Ask(c, <<t, a>>) \in Seq(StepOf(f))
  <2>1. <<t, a>> \in Table \X Atom /\ <<t, a>>[1] = t /\ <<t, a>>[2] = a
    OBVIOUS
  <2>2. c[1] \notin ListNames
    BY <1>9 DEF ListNames, ValueNames
  <2>3. Fits(c, <<t, a>>)
    BY <1>9, <2>1, <2>2 DEF Fits
  <2> QED
    BY <1>2, <1>9, <2>3, StepForms
<1>10. ASSUME NEW a \in Atom, NEW p \in Single \ {"cog-set-tv!", "cog-update-value!"}
       PROVE  /\ <<p, a>> \in Asks /\ <<p, a>>[1] = p /\ <<p, a>>[2] = a
              /\ p \notin {"cog-extract!", "cog-extract-recursive!", "cog-execute-cache!",
                           "cog-set-proxy!"} => <<p, a>> \in Reading
  <2>1. <<p, a>> \in Command /\ <<p, a>>[1] = p /\ <<p, a>>[2] = a
    BY <1>10, CommandForms
  <2> QED
    BY <1>10, <2>1 DEF Asks, Silent, Reading, Single
<1>11. ASSUME NEW p \in GetNames, NEW y \in {"Node", "Link"}
       PROVE  <<p, y>> \in Reading /\ <<p, y>>[1] \in ListNames
  BY CommandForms DEF GetNames, Reading, Asks, Silent, ListNames
<1>12. ASSUME NEW p \in Plain
       PROVE  /\ <<p>> \in Asks /\ <<p>>[1] = p /\ p \notin ListNames \cup ValueNames
              /\ p # "cog-atomspace-clear" => <<p>> \in Reading
  BY CommandForms DEF Plain, Reading, Asks, Silent, ListNames, ValueNames
<1>13. ASSUME NEW t \in Table, NEW a \in Atom, StoreAtom(u, t, a)
       PROVE  \E f \in Names \ {"none"} : Planned(u, f)
  <2>1. Store(t, {a}) \in Seq(StepOf("storeAtom")) /\ Store(t, {a}) # <<>>
    BY StepForms DEF Writes, Store
  <2> QED
    BY <1>3, <1>13, <2>1 DEF StoreAtom, CheckOpen, Names
<1>14. ASSUME NEW t \in Table, NEW a \in Atom, StoreValue(u, t, a)
       PROVE  \E f \in Names \ {"none"} : Planned(u, f)
  <2> DEFINE c == <<"cog-set-value!", a, lval[t][a]>>
  <2>1. c \in Silent
    <3>1. lval[t][a] \in Val
      BY DEF Inv, Kept, TypeOK
    <3> QED
      BY <3>1, CommandForms DEF SetNames, Silent
  <2>2. Silently(c) \in Seq(StepOf("storeValue")) /\ Silently(c) # <<>>
    BY <1>6, <2>1, StepForms DEF Writes, IsUpdate
  <2> QED
    BY <1>3, <1>14, <2>2 DEF StoreValue, CheckOpen, Names
<1>15. ASSUME NEW t \in Table, NEW a \in Atom, LoadValue(u, t, a)
       PROVE  \E f \in Names \ {"none"} : Planned(u, f)
  <2>1. Ask(<<"cog-value", a>>, <<t, a>>) \in Seq(StepOf("loadValue"))
    BY <1>9, <1>10, <1>15 DEF LoadValue, Single, ValueNames
  <2> QED
    BY <1>3, <1>6, <1>15, <2>1 DEF LoadValue, CheckOpen, Names
<1>16. ASSUME NEW t \in Table, NEW a \in Atom, RunQuery(u, t, a)
       PROVE  \E f \in Names \ {"none"} : Planned(u, f)
  <2>1. Ask(<<"cog-execute-cache!", a>>, <<t, a>>) \in Seq(StepOf("runQuery"))
    BY <1>9, <1>10, <1>16 DEF RunQuery, Single, ValueNames, Writes
  <2> QED
    BY <1>3, <1>6, <1>16, <2>1 DEF RunQuery, CheckOpen, Names
<1>17. ASSUME NEW t \in Table, NEW a \in Atom, GetAtom(u, t, a)
       PROVE  \E f \in Names \ {"none"} : Planned(u, f)
  <2>1. Ask(Keys(a), <<t, a>>) \in Seq(StepOf("getAtom"))
    BY <1>9, <1>10, <1>17 DEF GetAtom, Single, ValueNames, Keys
  <2>2. Probe(a) \in Seq(StepOf("getAtom"))
    BY StepForms
  <2>3. /\ Probe(a) \o Ask(Keys(a), <<t, a>>) \in Seq(StepOf("getAtom"))
        /\ Probe(a) \o Ask(Keys(a), <<t, a>>) # <<>>
    BY <1>6, <2>1, <2>2, Joined
  <2> QED
    BY <1>3, <1>17, <2>3 DEF GetAtom, CheckOpen, Names
<1>18. ASSUME NEW t \in Table, NEW a \in Atom,
              FetchIncomingSet(u, t, a) \/ FetchIncomingByType(u, t, a)
       PROVE  \E f \in Names \ {"none"} : Planned(u, f)
  <2>1. \A f, p : p \in {"cog-incoming-set", "cog-incoming-by-type"} =>
          Ask(<<p, a>>, <<t>>) \in Seq(StepOf(f))
    BY <1>8, <1>10 DEF Single, ListNames
  <2> QED
    BY <1>3, <1>6, <1>18, <2>1 DEF FetchIncomingSet, FetchIncomingByType, CheckOpen, Names
<1>19. ASSUME NEW t \in Table, NEW a \in Atom, SetProxy(u, t, a)
       PROVE  \E f \in Names \ {"none"} : Planned(u, f)
  <2> DEFINE p1 == Store(t, {a}) \o Barrier
             q  == Ask(<<"cog-set-proxy!", a>>, <<>>)
             p2 == p1 \o q
  <2>1. Store(t, {a}) \in Seq(StepOf("set_proxy"))
    BY StepForms DEF Writes
  <2>2. q \in Seq(StepOf("set_proxy"))
    BY <1>7, <1>10 DEF Writes, Single, ListNames, ValueNames
  <2>3. p1 \in Seq(StepOf("set_proxy")) /\ p1 # <<>>
    BY <1>4, <1>5, <2>1, Joined
  <2>4. p2 \in Seq(StepOf("set_proxy")) /\ p2 # <<>>
    BY <2>2, <2>3, Joined
  <2>5. p2 \o Barrier \in Seq(StepOf("set_proxy")) /\ p2 \o Barrier # <<>>
    BY <1>4, <2>4, Joined
  <2>6. Call(u, "set_proxy", t, p2 \o Barrier) /\ up
    BY <1>19 DEF SetProxy, CheckOpen
  <2> QED
    BY <1>3, <2>5, <2>6 DEF Names
<1>20. ASSUME NEW a \in Atom, UpdateValue(u, a)
       PROVE  \E f \in Names \ {"none"} : Planned(u, f)
  <2> DEFINE s == Silently(<<"cog-update-value!", a>>)
  <2>1. <<"cog-update-value!", a>> \in Silent
    BY CommandForms DEF Silent, Single
  <2>2. s \in Seq(StepOf("updateValue")) /\ s # <<>>
    BY <1>6, <2>1, StepForms DEF Writes, IsUpdate
  <2>3. Tail(s) = <<>> /\ Head(s).do = "noreply"
    BY DEF Silently
  <2>4. Call(u, "updateValue", AnyTable, s) /\ up
    BY <1>20 DEF UpdateValue, CheckOpen
  <2> HIDE DEF s
  <2>5. Planned(u, "updateValue")
    BY <1>1, <2>2, <2>3, <2>4 DEF Planned
  <2> QED
    BY <2>5 DEF Names
<1>21. ASSUME NEW a \in Atom, NEW r \in BOOLEAN, RemoveAtom(u, a, r)
       PROVE  \E f \in Names \ {"none"} : Planned(u, f)
  <2>1. \A p \in {"cog-extract!", "cog-extract-recursive!"} :
          Ask(<<p, a>>, <<>>) \in Seq(StepOf("removeAtom"))
    BY <1>7, <1>10 DEF Writes, Single, ListNames, ValueNames
  <2> QED
    BY <1>1, <1>3, <1>6, <1>21, <2>1 DEF RemoveAtom, CheckOpen, Names
<1>22. ASSUME NEW t \in Table, NEW y \in {"Node", "Link"}, LoadType(u, t, y)
       PROVE  \E f \in Names \ {"none"} : Planned(u, f)
  <2>1. Ask(<<"cog-get-type", y>>, <<t>>) \in Seq(StepOf("loadType"))
    BY <1>8, <1>11 DEF GetNames
  <2> QED
    BY <1>3, <1>6, <1>22, <2>1 DEF LoadType, CheckOpen, Names
<1>23. ASSUME NEW t \in Table, LoadAtomSpace(u, t)
       PROVE  \E f \in Names \ {"none"} : Planned(u, f)
  <2> DEFINE q1 == Ask(<<"cog-get-atoms", "Node">>, <<t>>)
             q2 == Ask(<<"cog-get-atoms", "Link">>, <<t>>)
             p1 == q1 \o Flush
             p2 == p1 \o q2
  <2>1. q1 \in Seq(StepOf("loadAtomSpace")) /\ q2 \in Seq(StepOf("loadAtomSpace"))
    BY <1>8, <1>11 DEF GetNames
  <2>2. p1 \in Seq(StepOf("loadAtomSpace")) /\ p1 # <<>>
    BY <1>4, <1>5, <2>1, Joined
  <2>3. p2 \in Seq(StepOf("loadAtomSpace")) /\ p2 # <<>>
    BY <2>1, <2>2, Joined
  <2>4. p2 \o Barrier \in Seq(StepOf("loadAtomSpace")) /\ p2 \o Barrier # <<>>
    BY <1>4, <2>3, Joined
  <2>5. Call(u, "loadAtomSpace", t, p2 \o Barrier) /\ up
    BY <1>23 DEF LoadAtomSpace, CheckOpen
  <2>6. p2 \o Barrier = LoadSteps(t)
    BY DEF LoadSteps, Get
  <2> HIDE DEF p2
  <2> QED
    BY <2>4, <2>5, <2>6 DEF Planned, Names
<1>24. ASSUME NEW t \in Table, StoreAtomSpace(u, t)
       PROVE  \E f \in Names \ {"none"} : Planned(u, f)
  <2>1. Store(t, have[t]) \in Seq(StepOf("storeAtomSpace"))
    BY StepForms DEF Writes, Inv, Kept, TypeOK
  <2>2. /\ Store(t, have[t]) \o Barrier \in Seq(StepOf("storeAtomSpace"))
        /\ Store(t, have[t]) \o Barrier # <<>>
    BY <1>4, <1>5, <2>1, Joined
  <2> QED
    BY <1>3, <1>24, <2>2 DEF StoreAtomSpace, CheckOpen, Names
<1>25. ASSUME NEW f, NEW p \in Plain, f \in Writes \/ p # "cog-atomspace-clear"
       PROVE  /\ ProxySteps(p) \in Seq(StepOf(f)) /\ ProxySteps(p) # <<>>
  <2> DEFINE q == Ask(<<p>>, <<>>)
             p1 == Barrier \o q
  <2>1. q \in Seq(StepOf(f))
    BY <1>7, <1>12, <1>25
  <2>2. p1 \in Seq(StepOf(f)) /\ p1 # <<>>
    BY <1>4, <1>5, <2>1, Joined
  <2>3. p1 \o Barrier \in Seq(StepOf(f)) /\ p1 \o Barrier # <<>>
    BY <1>4, <2>2, Joined
  <2> QED
    BY <2>3 DEF ProxySteps
<1>26. CASE KillData(u)
  <2>1. K3 \in Seq(StepOf("kill_data")) /\ K3 # <<>>
    BY <1>25 DEF Plain, Writes, ProxySteps, K3, Clear
  <2>2. Call(u, "kill_data", AnyTable, K3) /\ up
    BY <1>26 DEF KillData, CheckOpen, K3, Clear
  <2> QED
    BY <1>1, <2>1, <2>2 DEF Planned, Names
<1>27. CASE ProxyOpen(u) \/ ProxyClose(u)
  BY <1>1, <1>3, <1>25, <1>27 DEF ProxyOpen, ProxyClose, Plain, Names
<1>28. CASE BarrierCall(u)
  BY <1>1, <1>3, <1>4, <1>5, <1>28 DEF BarrierCall, Names
<1>29. CASE Close(u)
  <2> DEFINE p1 == ProxySteps("cog-proxy-close")
             p2 == p1 \o Barrier
  <2>1. p1 \in Seq(StepOf("close")) /\ p1 # <<>>
    BY <1>25 DEF Plain
  <2>2. p2 \in Seq(StepOf("close")) /\ p2 # <<>>
    BY <1>4, <2>1, Joined
  <2>3. C5 \in Seq(StepOf("close")) /\ C5 # <<>>
    BY <1>4, <2>2, Joined DEF C5
  <2>4. Call(u, "close", AnyTable, C5) /\ up
    BY <1>29 DEF Close, C5
  <2> QED
    BY <1>1, <2>3, <2>4 DEF Planned, Names
<1>30. CASE Open(u)
  BY <1>1, <1>4, <1>5, <1>30 DEF Open, Planned, Names
<1> QED
  BY <1>13, <1>14, <1>15, <1>16, <1>17, <1>18, <1>19, <1>20, <1>21, <1>22, <1>23, <1>24,
     <1>26, <1>27, <1>28, <1>29, <1>30 DEF Operation

\* A call makes a plan, and does nothing else.
LEMMA OperationKeeps ==
  ASSUME Inv, NEW u \in User, Operation(u)
  PROVE  [C!Next]_C!vars /\ Kept'
<1>1. PICK f \in Names \ {"none"} : Planned(u, f)
  BY OperationPlan
<1>2. PICK t \in Table, steps \in Seq(StepOf(f)) : steps # <<>> /\ Call(u, f, t, steps)
  BY <1>1 DEF Planned
<1>3. Kept'
  BY <1>2, CallKeeps
<1>4. UNCHANGED C!vars
  BY <1>2 DEF Call, chanVars, C!vars, C!bufVars, C!workVars, C!sockVars, C!barVars, C!srvVars
<1> QED
  BY <1>3, <1>4

-----------------------------------------------------------------------------
(***************************************************************************)
(* The storage node uses the channel as the channel is meant to be used.   *)
(***************************************************************************)
\* The invariant holds in the beginning.
LEMMA InitInv == Init => Inv
<1> SUFFICES ASSUME Init PROVE Inv
  OBVIOUS
<1>1. C!Init /\ C!CallInv
  BY SameServer, ChannelAssumptions, C!CallInvInit DEF Init
<1>2. /\ have \in [Table -> SUBSET Atom] /\ known \subseteq Atom
  BY ContentAssumption DEF Init
<1>3. MaxVal \in Val /\ 0 \in Val /\ 1 \in Val
  BY AtomAssumption DEF Val
<1>4. val \in [Atom -> Val]
  BY <1>3 DEF Init
<1>5. /\ lval \in [Table -> [Atom -> Val]]
      /\ \A t \in Table, a \in Atom : lval[t][a] # 0 => a \in have[t]
  BY <1>3 DEF Init
<1>6. TypeOK
  <2>1. rest \in [Worker -> SUBSET Atom] /\ clean \in [User -> SUBSET Table]
    BY DEF Init
  <2>2. calls \in 0..MaxCalls /\ asked \in 0..MaxCalls /\ applied \in Nat
    BY BoundAssumption DEF Init
  <2>3. \A u \in User : op[u] = "none" <=> todo[u] = <<>>
    BY DEF Init
  <2> QED
    BY <1>2, <1>4, <1>5, <2>1, <2>2, <2>3 DEF Init, TypeOK
<1>7. Plans
  BY <1>1 DEF Init, C!Init, Plans, Names
<1>8. Packets /\ Replies /\ Probes
  BY <1>1 DEF C!Init, Packets, Replies, Probes, C!Thread
<1> QED
  BY <1>1, <1>6, <1>7, <1>8 DEF Inv, Kept

\* Every step is one of the channel, or leaves it alone, and keeps Inv.
LEMMA InvStep == Inv /\ [Next]_vars => [C!Next]_C!vars /\ Inv'
<1> SUFFICES ASSUME Inv, [Next]_vars PROVE [C!Next]_C!vars /\ Inv'
  OBVIOUS
<1>1. [C!Next]_C!vars /\ Kept'
  <2>1. ASSUME NEW u \in User, UserStep(u) PROVE [C!Next]_C!vars /\ Kept'
    BY <2>1, NoreplyKeeps, StoreKeeps, EnqueueKeeps, ProbeKeeps, ProbeReplyKeeps,
       FenceKeeps, ConnectionKeeps DEF UserStep
  <2>2. ASSUME NEW w \in Worker, WorkerStep(w) PROVE [C!Next]_C!vars /\ Kept'
    BY <2>2, MovesKeep, RecvKeeps, DecodeKeeps, DecodeAtomKeeps DEF WorkerStep
  <2>3. ASSUME NEW w \in Worker,
               WorkerSendBlock(w) \/ \E m \in msgq : WorkerTake(w, m)
        PROVE  [C!Next]_C!vars /\ Kept'
    BY <2>3, MovesKeep
  <2>4. CASE BarrierDrained
    BY <2>4, MovesKeep
  <2>5. CASE ServerStep
    BY <2>5, MovesKeep, ExecKeeps, SameServer DEF ServerStep
  <2>6. CASE UNCHANGED vars
    <3>1. UNCHANGED <<chanVars, userVars, pastVars, srvVars, locVars>>
      BY <2>6 DEF vars
    <3>2. UNCHANGED C!vars
      BY <3>1 DEF chanVars, C!vars, C!bufVars, C!workVars, C!sockVars, C!barVars, C!srvVars
    <3>3. UNCHANGED <<msgq, wpc, hand, wire, back, got, have, upc>>
      BY <3>1 DEF chanVars, locVars
    <3> QED
      BY <3>1, <3>2, <3>3, StillKeeps, UserStill DEF Kept
  <2> QED
    BY <2>1, <2>2, <2>3, <2>4, <2>5, <2>6, OperationKeeps DEF Next
<1>2. C!CallInv'
  BY <1>1, ChannelAssumptions, C!CallInvStep DEF Inv
<1> QED
  BY <1>1, <1>2 DEF Inv

\* The invariant of the storage node.
LEMMA InvHolds == Spec => []Inv
BY InitInv, InvStep, PTL DEF Spec

\* Every operation of the storage node only makes calls that the channel
\* provides, in an order that it allows, and every callback and every answer
\* of the server is one that the channel has: a behaviour of CogStorage is a
\* behaviour of CogChannel, so that what is proved of CogChannel holds here.
THEOREM StorageIsChannel == Spec => C!Spec
<1>1. Init => C!Init
  BY SameServer DEF Init
<1> QED
  BY <1>1, InitInv, InvStep, PTL DEF Spec, C!Spec

\* The types, and that no callback gives a Value to an Atom that its table
\* does not hold: whatever the server answers, and however the replies of the
\* worker threads interleave with the calls (CogIO.cc, decode_value and
\* ro_decode_alist).
THEOREM TypeOKHolds == Spec => []TypeOK
<1>1. Inv => TypeOK
  BY DEF Inv, Kept
<1> QED
  BY <1>1, InvHolds, PTL

-----------------------------------------------------------------------------
(***************************************************************************)
(* What a step makes and runs.                                             *)
(***************************************************************************)
\* A step that makes no messages but those in S.
Makes(S) == /\ \A m \in C!Live' : m \in C!Live \/ m.str \in S
            /\ \A m \in C!Pending' : m \in C!Pending \/ m.str \in S

RunsNone == C!Pending \subseteq C!Pending' /\ known' = known

Runs(t) == \E r \in ReplyValue : C!ServerExec(t, r) /\ Apply(Head(wire[t]).str)

\* The keys that callbacks ask for are read, and no more.
LEMMA KeysRead == KeysOnly \subseteq Reading
BY CommandForms DEF KeysOnly, Keys, Reading, Asks, Silent, Single

\* Steps that change nothing in what the channel has to do.
LEMMA MovesMake ==
  ASSUME Inv, C!Moves \/ UNCHANGED C!vars, known' = known
  PROVE  Makes({}) /\ RunsNone
<1>1. CASE C!Moves
  BY <1>1, ChannelAssumptions, C!MoveLive DEF Inv, C!CallInv, Makes, RunsNone
<1>2. CASE UNCHANGED C!vars
  BY <1>2 DEF Makes, RunsNone, C!vars, C!Live, C!Pending, C!Sent, C!Buffered, C!bufVars,
    C!workVars, C!sockVars
<1> QED
  BY <1>1, <1>2

\* Messages that are put in the buffer.
LEMMA InsertMakes ==
  ASSUME Inv, NEW c, NEW d, NEW nr, C!Insert(C!NewMsg(c, d, nr)),
         UNCHANGED <<wpc, hand, wire, known>>
  PROVE  Makes({c}) /\ RunsNone
<1>1. C!NewMsg(c, d, nr).str = c
  BY DEF C!NewMsg, C!Request
<1>2. /\ \A m \in C!Live' : m \in C!Live \/ m = C!NewMsg(c, d, nr)
      /\ \A m \in C!Pending' : m \in C!Pending \/ m = C!NewMsg(c, d, nr)
      /\ C!Pending \subseteq C!Pending'
  BY ChannelAssumptions, C!InsertLive DEF C!workVars
<1> QED
  BY <1>1, <1>2 DEF Makes, RunsNone

\* The workers and the server ask for keys, and make no other messages.
LEMMA ThreadMakes ==
  ASSUME Inv,
         \/ \E w \in Worker : WorkerStep(w) \/ WorkerSendBlock(w)
                                \/ \E m \in msgq : WorkerTake(w, m)
         \/ BarrierDrained
         \/ ServerStep
  PROVE  /\ Makes(KeysOnly) /\ (C!Live = {} => Makes({}))
         /\ RunsNone \/ \E t \in C!Thread : Runs(t)
         /\ UNCHANGED <<userVars, pastVars, upc>>
<1>1. ASSUME C!Moves, UNCHANGED <<userVars, pastVars, upc, known>>
      PROVE  /\ Makes(KeysOnly) /\ (C!Live = {} => Makes({})) /\ RunsNone
             /\ UNCHANGED <<userVars, pastVars, upc>>
  BY <1>1, MovesMake DEF Makes
<1>2. ASSUME NEW w \in Worker,
             \/ WorkerSend(w) \/ WorkerRecv(w) \/ DecodeValue(w) \/ DecodeKvpList(w)
             \/ CallbackEnds(w) \/ WorkerSendBlock(w)
             \/ \E m \in msgq : WorkerTake(w, m)
      PROVE  /\ Makes(KeysOnly) /\ (C!Live = {} => Makes({})) /\ RunsNone
             /\ UNCHANGED <<userVars, pastVars, upc>>
  <2>1. \/ C!WorkerSend(w) \/ C!WorkerRecv(w) \/ C!CallbackDone(w)
        \/ C!WorkerSendBlock(w)
        \/ \E m \in msgq : C!WorkerTake(w, m)
    BY <1>2, SameWorker DEF WorkerSend, WorkerRecv, DecodeValue, DecodeKvpList,
      CallbackEnds, WorkerSendBlock, WorkerTake
  <2>2. UNCHANGED <<userVars, pastVars, known>>
    BY <1>2 DEF WorkerSend, WorkerRecv, DecodeValue, DecodeKvpList,
      CallbackEnds, WorkerSendBlock, WorkerTake, srvVars
  <2>3. UNCHANGED upc
    BY <2>1 DEF C!WorkerSend, C!WorkerRecv, C!CallbackDone, C!WorkerSendBlock, C!WorkerTake
  <2>4. C!Moves
    BY <2>1 DEF C!Moves
  <2> QED
    BY <1>1, <2>2, <2>3, <2>4
<1>3. ASSUME NEW w \in Worker, NEW a \in Atom, DecodeAtom(w, a)
      PROVE  /\ Makes(KeysOnly) /\ (C!Live = {} => Makes({})) /\ RunsNone
             /\ UNCHANGED <<userVars, pastVars, upc>>
  <2>1. C!CallbackEnqueue(w, Keys(a), <<hand[w].data[1], a>>)
    BY <1>3, SameInserts DEF DecodeAtom
  <2>2. /\ C!Insert(C!NewMsg(Keys(a), <<hand[w].data[1], a>>, FALSE))
        /\ UNCHANGED <<wpc, hand, wire, upc>> /\ wpc[w] = "callback"
    BY <2>1 DEF C!CallbackEnqueue, C!workVars, C!sockVars
  <2>3. UNCHANGED <<userVars, pastVars, known>>
    BY <1>3 DEF DecodeAtom, srvVars
  <2>4. Makes({Keys(a)}) /\ RunsNone
    BY <2>2, <2>3, InsertMakes
  <2>5. C!Live # {}
    BY <2>2 DEF C!Live, C!Buffered
  <2> QED
    BY <2>2, <2>3, <2>4, <2>5 DEF Makes, KeysOnly
<1>4. CASE BarrierDrained \/ \E k \in 1..bstart : ServerBarrier(k)
  <2>1. C!BarrierDrained \/ \E k \in 1..bstart : C!ServerBarrier(k)
    BY <1>4, SameWaits, SameServer DEF BarrierDrained, ServerBarrier
  <2>2. UNCHANGED <<userVars, pastVars, known>>
    BY <1>4 DEF BarrierDrained, ServerBarrier, srvVars
  <2>3. UNCHANGED upc /\ C!Moves
    BY <2>1 DEF C!BarrierDrained, C!ServerBarrier, C!Moves
  <2> QED
    BY <1>1, <2>2, <2>3
<1>5. ASSUME NEW t \in C!Thread, ServerExec(t)
      PROVE  /\ Makes(KeysOnly) /\ Makes({}) /\ Runs(t)
             /\ UNCHANGED <<userVars, pastVars, upc>>
  <2>1. Head(wire[t]).str \in Command /\ Apply(Head(wire[t]).str)
    <3>1. Head(wire[t]) \in C!Item
      BY <1>5 DEF ServerExec, Inv, C!CallInv, C!IInv, C!TypeOK
    <3> QED
      BY <1>5, <3>1 DEF ServerExec, C!Item, C!Msg
  <2>2. AnswerTo(Head(wire[t]).str) \in ReplyValue
    BY <2>1, AnswerKind
  <2>3. PICK r \in ReplyValue : C!ServerExec(t, r)
    BY <1>5, <2>2, SameServer DEF ServerExec
  <2>4. Makes(KeysOnly) /\ Makes({})
    BY <2>3, ChannelAssumptions, C!ExecLive DEF Makes, Inv, C!CallInv
  <2>5. UNCHANGED <<userVars, pastVars, upc>>
    BY <1>5, <2>3 DEF ServerExec, C!ServerExec
  <2> QED
    BY <2>1, <2>3, <2>4, <2>5 DEF Runs
<1> QED
  BY <1>2, <1>3, <1>4, <1>5, SameServer DEF WorkerStep, ServerStep

\* A thread in an operation that does not write makes reads only.
LEMMA UserMakes ==
  ASSUME Inv, NEW u \in User, UserStep(u), op[u] \notin Writes
  PROVE  Makes(Reading) /\ RunsNone
<1>1. Head(todo[u]) \in StepOf(op[u]) /\ todo[u] # <<>>
  <2>1. todo[u] # <<>>
    BY DEF UserStep, DoNoreply, DoStore, DoEnqueue, DoProbe, ProbeReply, DoFlush,
      DoBarrier, CloseConnection, OpenConnection, At
  <2>2. todo[u] \in Seq(StepOf(op[u]))
    BY DEF Inv, Kept, Plans
  <2> QED
    BY <2>1, <2>2
<1>2. CASE DoEnqueue(u)
  <2>1. Head(todo[u]).do = "enqueue" /\ Head(todo[u]).cmd \in Reading
    BY <1>1, <1>2 DEF DoEnqueue, At, StepOf
  <2>2. C!Enqueue(u, Head(todo[u]).cmd, Head(todo[u]).pkt) /\ UNCHANGED known
    BY <1>2, SameInserts DEF DoEnqueue, srvVars
  <2>3. /\ C!Insert(C!NewMsg(Head(todo[u]).cmd, Head(todo[u]).pkt, FALSE))
        /\ UNCHANGED <<wpc, hand, wire, known>>
    BY <2>2 DEF C!Enqueue, C!workVars, C!sockVars
  <2>4. Makes({Head(todo[u]).cmd}) /\ RunsNone
    BY <2>3, InsertMakes
  <2> QED
    BY <2>1, <2>4 DEF Makes
<1>3. CASE DoNoreply(u) \/ \E a \in Atom : DoStore(u, a)
  BY <1>1, <1>3 DEF DoNoreply, DoStore, At, StepOf
<1>4. CASE CloseConnection(u) \/ OpenConnection(u)
  <2>1. UNCHANGED C!vars /\ UNCHANGED known
    BY <1>4 DEF CloseConnection, OpenConnection, chanVars, srvVars, C!vars, C!bufVars,
      C!workVars, C!sockVars, C!barVars, C!srvVars
  <2> QED
    BY <2>1, MovesMake DEF Makes
<1>5. CASE DoProbe(u)
  <2>1. Head(todo[u]).cmd \in Command \ Silent
    <3>1. Head(todo[u]).cmd \in {"cog-node"} \X Atom
      BY <1>1, <1>5 DEF DoProbe, At, StepOf, Step
    <3> QED
      BY <3>1, CommandForms DEF Silent, Single
  <2>2. C!SynchroSend(u, Head(todo[u]).cmd) /\ UNCHANGED known
    BY <1>5, SameWaits DEF DoProbe, srvVars
  <2>3. C!Moves
    BY <2>1, <2>2 DEF C!Moves
  <2> QED
    BY <2>2, <2>3, MovesMake DEF Makes
<1>6. CASE ProbeReply(u) \/ DoFlush(u) \/ DoBarrier(u)
  <2>1. \/ C!SynchroRecv(u) \/ C!FlushBegin(u) \/ C!FlushEnd(u)
        \/ C!BarrierBegin(u) \/ C!BarrierEnd(u)
    BY <1>6, SameWaits DEF ProbeReply, DoFlush, DoBarrier
  <2>2. C!Moves /\ UNCHANGED known
    BY <1>6, <2>1 DEF C!Moves, ProbeReply, DoFlush, DoBarrier, srvVars
  <2> QED
    BY <2>2, MovesMake DEF Makes
<1> QED
  BY <1>2, <1>3, <1>4, <1>5, <1>6 DEF UserStep

-----------------------------------------------------------------------------
(***************************************************************************)
(* kill_data.                                                              *)
(***************************************************************************)
\* The counts of barriers.
LEMMA BarrierCounts ==
  ASSUME Inv, [C!Next]_C!vars
  PROVE  /\ bstart \in Nat /\ bret \in Nat /\ bret <= bstart
         /\ bstart' = bstart \/ (bstart' = bstart + 1 /\ phase = "none")
         /\ bret' = bret \/ bret' = bstart
<1>1. bstart \in Nat /\ bret \in Nat /\ bret <= bstart
  BY DEF Inv, C!CallInv, C!IInv, C!TypeOK, C!Counters
<1>2. UNCHANGED <<bstart, bret>> \/ \E u \in User : C!BarrierBegin(u) \/ C!BarrierEnd(u)
  BY DEF C!Next, C!UserNext, C!WorkerNext, C!ServerNext, C!Enqueue, C!EnqueueNoreply,
    C!SynchroSend, C!SynchroRecv, C!FlushBegin, C!FlushEnd, C!WorkerTake,
    C!WorkerSend, C!WorkerRecv, C!CallbackEnqueue, C!CallbackDone, C!WorkerSendBlock,
    C!BarrierDrained, C!ServerExec, C!ServerBarrier, C!barVars, C!vars
<1> QED
  BY <1>1, <1>2 DEF C!BarrierBegin, C!BarrierEnd

\* What is made since barrier k is still in S, and so is what is made since j.
LEMMA BehindStays ==
  ASSUME Inv, NEW S, NEW k \in Nat, NEW j \in Nat, k <= j,
         C!Behind(k, S), Makes(S)
  PROVE  \A m \in C!Live' : m.hi >= j => m.str \in S
<1> SUFFICES ASSUME NEW m \in C!Live, m.hi >= j PROVE m.str \in S
  BY DEF Makes
<1>1. m \in C!Msg
  BY ChannelAssumptions, C!LiveType DEF Inv, C!CallInv
<1>2. m.hi >= k
  BY <1>1 DEF C!Msg
<1> QED
  BY <1>2 DEF C!Behind

\* A command that only reads leaves the remote AtomSpace alone, and so do
\* the probes that come from the sockets of users.
LEMMA RunsReading ==
  ASSUME Inv, NEW t \in C!Thread, Runs(t),
         t \in Worker => Head(wire[t]).str \in Reading
  PROVE  known' = known
<1>1. wire[t] \in Seq(C!Item) /\ wire[t] # <<>> /\ Head(wire[t]).bar = 0
  BY DEF Runs, C!ServerExec, Inv, C!CallInv, C!IInv, C!TypeOK
<1>2. Head(wire[t]) = wire[t][1] /\ 1 \in DOMAIN wire[t] /\ Head(wire[t]) \in C!Item
  BY <1>1
<1>3. Head(wire[t]).str \in Command
  BY <1>1, <1>2 DEF C!Item, C!Msg
<1>4. CASE t \in User
  <2>1. Head(wire[t]).str[1] = "cog-node"
    BY <1>2, <1>4 DEF Inv, Kept, Probes
  <2>2. Head(wire[t]).str \in Reading
    BY <1>3, <2>1 DEF Reading, Asks, Silent
  <2> QED
    BY <1>3, <2>2, ApplyKeeps DEF Runs
<1>5. CASE t \in Worker
  BY <1>3, <1>5, ApplyKeeps DEF Runs
<1> QED
  BY <1>4, <1>5 DEF C!Thread

\* An empty AtomSpace stays empty when only reads are left and made.
LEMMA EmptyStays ==
  ASSUME Inv, known = {}, C!OnlyLeft(Reading), Makes(Reading),
         RunsNone \/ \E t \in C!Thread : Runs(t)
  PROVE  known' = {} /\ C!OnlyLeft(Reading)'
<1>1. C!OnlyLeft(Reading)'
  BY DEF C!OnlyLeft, Makes
<1>2. ASSUME NEW t \in C!Thread, Runs(t) PROVE known' = {}
  <2>1. t \in Worker => Head(wire[t]).str \in Reading
    BY <1>2, ChannelAssumptions, C!ExecMessages DEF Runs, C!OnlyLeft, Inv, C!CallInv
  <2> QED
    BY <1>2, <2>1, RunsReading
<1> QED
  BY <1>1, <1>2 DEF RunsNone

\* A clear that is to come, or that emptied the AtomSpace.
Cleared(u) == C!Coming(u, Clear, Reading) \/ (known = {} /\ C!OnlyLeft(Reading))

\* It stays so, in steps that make reads only.
LEMMA ClearedStays ==
  ASSUME Inv, Inv', [C!Next]_C!vars, NEW u \in User, Cleared(u), Makes(Reading),
         RunsNone \/ \E t \in C!Thread : Runs(t),
         bstart' = bstart + 1 \/ (upc'[u] = "barrier" => upc[u] = "barrier")
  PROVE  Cleared(u)'
<1>1. CASE known = {} /\ C!OnlyLeft(Reading)
  BY <1>1, EmptyStays DEF Cleared
<1>2. CASE C!Coming(u, Clear, Reading) /\ RunsNone
  <2>1. C!CallInv /\ (bstart' = bstart \/ bstart' = bstart + 1)
    BY BarrierCounts DEF Inv
  <2>2. C!Coming(u, Clear, Reading)'
    BY <1>2, <2>1, ChannelAssumptions, C!ComingStays DEF RunsNone, Makes
  <2> QED
    BY <2>2 DEF Cleared
<1>3. ASSUME C!Coming(u, Clear, Reading), NEW t \in C!Thread, Runs(t)
      PROVE  Cleared(u)'
  <2>1. C!CallInv /\ C!CallInv'
    BY DEF Inv
  <2>2. \/ C!Coming(u, Clear, Reading)'
        \/ t \in Worker /\ Head(wire[t]).str = Clear /\ C!OnlyLeft(Reading)'
    BY <1>3, <2>1, ChannelAssumptions, C!ComingRuns DEF Runs
  <2>3. Head(wire[t]).str = Clear => known' = {}
    <3>1. Clear \in Command
      BY CommandForms DEF Clear, Plain
    <3> QED
      BY <1>3, <3>1, ApplyKeeps DEF Runs, Clear
  <2> QED
    BY <2>2, <2>3 DEF Cleared
<1> QED
  BY <1>1, <1>2, <1>3 DEF Cleared

\* A kill that no write runs beside, when another thread takes a step.
LEMMA KillingStays ==
  ASSUME Inv, Inv', [C!Next]_C!vars, NEW u \in User, Killing(u),
         \A v \in User \ {u} : op'[v] \notin Writes,
         todo'[u] = todo[u], upc'[u] = upc[u], Makes(Reading),
         RunsNone \/ \E t \in C!Thread : Runs(t)
  PROVE  Killing(u)'
<1>1. /\ bstart \in Nat /\ bret \in Nat /\ bret' \in Nat /\ bret <= bret'
      /\ upc[u] = "barrier" => bstart' = bstart
  BY BarrierCounts DEF Inv, C!CallInv, C!OneBarrier
<1>2. todo'[u] = K3 /\ upc'[u] = "barrier" => C!Behind(bstart, Reading)'
  BY <1>1, BehindStays DEF Killing, C!Behind
<1>3. todo'[u] = K2 => C!Behind(bret, Reading)'
  BY <1>1, BehindStays DEF Killing, C!Behind
<1>4. todo'[u] = K1 => Cleared(u)'
  BY ClearedStays DEF Killing, Cleared
<1> QED
  BY <1>2, <1>3, <1>4 DEF Killing, Cleared

\* The first step of plans put one after another.
LEMMA JoinedTail ==
  ASSUME NEW S, NEW p \in Seq(S), NEW q \in Seq(S), p # <<>>
  PROVE  /\ p \o q \in Seq(S) /\ p \o q # <<>> /\ Len(p \o q) = Len(p) + Len(q)
         /\ Head(p \o q) = Head(p) /\ Tail(p \o q) = Tail(p) \o q
<1>1. p \o q \in Seq(S) /\ p \o q # <<>>
  BY Joined
<1> QED
  BY <1>1

\* A plan of one step.
LEMMA OneStep ==
  ASSUME NEW S, NEW x \in S
  PROVE  /\ <<x>> \in Seq(S) /\ <<x>> # <<>> /\ Len(<<x>>) = 1 /\ Head(<<x>>) = x
         /\ Tail(<<x>>) = <<>> /\ \A q \in Seq(S) : Tail(<<x>>) \o q = q
OBVIOUS

\* What is left of kill_data after each step.
LEMMA KillForms ==
  /\ K3 # <<>> /\ Head(K3).do = "barrier" /\ Tail(K3) = K2
  /\ K2 # <<>> /\ Head(K2) = [do |-> "enqueue", cmd |-> Clear, pkt |-> <<>>] /\ Tail(K2) = K1
  /\ K1 # <<>> /\ Head(K1).do = "barrier" /\ Tail(K1) = <<>>
  /\ K3 # K2 /\ K3 # K1 /\ K2 # K1
<1> DEFINE b == [do |-> "barrier"]
           q == [do |-> "enqueue", cmd |-> Clear, pkt |-> <<>>]
           S == {b, q}
           A == Ask(Clear, <<>>)
           p == Barrier \o A
<1>1. b.do = "barrier" /\ q = [do |-> "enqueue", cmd |-> Clear, pkt |-> <<>>]
  OBVIOUS
<1>2. Barrier = <<b>> /\ A = <<q>> /\ b \in S /\ q \in S
  BY DEF Barrier, Ask
<1>3. K1 = Barrier /\ K2 = A \o Barrier /\ K3 = p \o Barrier
  BY DEF K1, K2, K3
<1> HIDE DEF b, q, S, A
<1>4. /\ Barrier \in Seq(S) /\ Barrier # <<>> /\ Len(Barrier) = 1 /\ Head(Barrier) = b
      /\ Tail(Barrier) = <<>> /\ \A r \in Seq(S) : Tail(Barrier) \o r = r
  BY <1>2, OneStep
<1>5. /\ A \in Seq(S) /\ A # <<>> /\ Len(A) = 1 /\ Head(A) = q
      /\ \A r \in Seq(S) : Tail(A) \o r = r
  BY <1>2, OneStep
<1>6. K2 # <<>> /\ Head(K2) = q /\ Tail(K2) = K1 /\ Len(K2) = 2
  BY <1>3, <1>4, <1>5, JoinedTail
<1>7. p \in Seq(S) /\ p # <<>> /\ Len(p) = 2 /\ Head(p) = b /\ Tail(p) = A
  BY <1>4, <1>5, JoinedTail
<1> HIDE DEF p
<1>8. K3 # <<>> /\ Head(K3) = b /\ Tail(K3) = K2 /\ Len(K3) = 3
  <2>1. /\ K3 # <<>> /\ Head(K3) = Head(p) /\ Tail(K3) = Tail(p) \o Barrier
        /\ Len(K3) = Len(p) + Len(Barrier)
    BY <1>3, <1>4, <1>7, JoinedTail
  <2>2. Tail(K3) = K2
    BY <1>3, <1>7, <2>1, Zenon
  <2>3. Len(K3) = 3
    BY <1>4, <1>7, <2>1
  <2> QED
    BY <1>7, <2>1, <2>2, <2>3
<1> QED
  BY <1>1, <1>3, <1>4, <1>6, <1>8

\* A kill that runs by itself, in its own steps: nobody else is in a kill
\* that counts, and no earlier one counts any more.
LEMMA KillerRest ==
  ASSUME KillInv, NEW u \in User, op[u] = "kill_data",
         \A v \in User \ {u} : op'[v] = op[v] /\ todo'[v] = todo[v] /\ clean'[v] = clean[v],
         op'[u] = "kill_data" => todo'[u] \in {K3, K2, K1},
         op'[u] = "kill_data" /\ clean'[u] # {} => Killing(u)',
         killed' => killed \/ Killed'
  PROVE  KillInv'
<1>1. "kill_data" \in Writes
  BY DEF Writes
<1>2. ~killed
  BY <1>1 DEF KillInv, Killed
<1>3. \A v \in User \ {u} : ~(op[v] = "kill_data" /\ clean[v] # {})
  BY <1>1 DEF KillInv, Killing
<1> QED
  BY <1>2, <1>3 DEF KillInv

\* kill_data: a barrier, the clear, a barrier.
LEMMA KillerSteps ==
  ASSUME Inv, Inv', KillInv, [C!Next]_C!vars, NEW u \in User, op[u] = "kill_data",
         UserStep(u)
  PROVE  KillInv'
<1>1. todo[u] \in {K3, K2, K1}
  BY DEF KillInv
<1>2. At(u, "barrier") \/ At(u, "enqueue")
  BY <1>1, KillForms DEF At
<1>3. DoBarrier(u) \/ DoEnqueue(u)
  BY <1>2 DEF UserStep, At, DoNoreply, DoStore, DoEnqueue, DoProbe, ProbeReply, DoFlush,
    DoBarrier, CloseConnection, OpenConnection
<1>4. /\ op \in [User -> Names] /\ todo \in [User -> Seq(Step)]
      /\ clean \in [User -> SUBSET Table]
      /\ upc \in [User -> {"ready", "ask", "flush", "barrier"}]
  BY DEF Inv, Kept, Plans, TypeOK, C!CallInv, C!IInv, C!TypeOK
<1>5. /\ bstart \in Nat /\ bret \in Nat
  BY BarrierCounts
<1>6. CASE DoBarrier(u) /\ C!BarrierBegin(u) /\ Wait
  <2>1. UNCHANGED <<op, todo, clean, killed, known>> /\ bstart' = bstart + 1
    BY <1>6 DEF DoBarrier, C!BarrierBegin, Wait, userVars, pastVars, srvVars
  <2>2. C!Moves
    BY <1>6 DEF C!Moves
  <2>3. Makes({}) /\ RunsNone /\ Makes(Reading)
    BY <2>1, <2>2, MovesMake DEF Makes
  <2>4. ASSUME clean[u] # {} PROVE Killing(u)'
    <3>1. Killing(u)
      BY <2>4 DEF KillInv
    <3>2. C!Behind(bstart, Reading)'
      <4> SUFFICES ASSUME NEW m \in C!Live', m.hi >= bstart' PROVE FALSE
        BY DEF C!Behind
      <4>1. m \in C!Live
        BY <2>3 DEF Makes
      <4>2. m \in C!Msg /\ m.hi <= bstart
        BY <4>1, ChannelAssumptions, C!LiveType DEF Inv, C!CallInv, C!Stamped
      <4> QED
        BY <1>5, <2>1, <4>2 DEF C!Msg
    <3>3. todo[u] # K2
      BY <1>6, KillForms DEF DoBarrier, At
    <3>4. todo[u] = K1 => Cleared(u)'
      BY <2>1, <2>3, <3>1, ClearedStays DEF Killing, Cleared
    <3> QED
      BY <2>1, <3>1, <3>2, <3>3, <3>4 DEF Killing, Cleared
  <2> QED
    BY <1>1, <2>1, <2>4, KillerRest
<1>7. CASE DoBarrier(u) /\ C!BarrierEnd(u) /\ StepDone(u)
  <2>1. /\ upc[u] = "barrier" /\ phase = "fence" /\ bret' = bstart /\ UNCHANGED known
        /\ todo' = [todo EXCEPT ![u] = Tail(todo[u])]
    BY <1>7 DEF DoBarrier, C!BarrierEnd, StepDone, Advance, srvVars
  <2>2. C!Moves
    BY <1>7 DEF C!Moves
  <2>3. Makes(Reading) /\ RunsNone
    BY <2>1, <2>2, MovesMake DEF Makes
  <2>4. todo[u] \in {K3, K1}
    BY <1>1, <1>7, KillForms DEF DoBarrier, At
  <2>5. CASE todo[u] = K3
    <3>1. todo' = [todo EXCEPT ![u] = K2] /\ UNCHANGED <<op, clean, fresh, killed>>
      BY <1>7, <2>1, <2>5, KillForms DEF StepDone, Advance, pastVars
    <3>2. todo'[u] = K2 /\ \A v \in User \ {u} : todo'[v] = todo[v]
      BY <1>4, <3>1
    <3>3. ASSUME clean[u] # {} PROVE Killing(u)'
      <4>1. Killing(u)
        BY <3>3 DEF KillInv
      <4>2. C!Behind(bret, Reading)'
        BY <1>5, <2>1, <2>3, <2>5, <4>1, BehindStays DEF Killing, C!Behind
      <4> QED
        BY <3>1, <3>2, <4>1, <4>2, KillForms DEF Killing
    <3> QED
      BY <3>1, <3>2, <3>3, KillerRest
  <2>6. CASE todo[u] = K1
    <3>1. /\ op' = [op EXCEPT ![u] = "none"] /\ clean' = [clean EXCEPT ![u] = {}]
          /\ killed' = (killed \/ clean[u] # {})
      BY <1>7, <2>6, KillForms DEF StepDone, Advance
    <3>2. /\ op'[u] = "none"
          /\ \A v \in User \ {u} : op'[v] = op[v] /\ clean'[v] = clean[v] /\ todo'[v] = todo[v]
      BY <1>4, <2>1, <3>1
    <3>3. ASSUME clean[u] # {} PROVE Killed'
      <4>1. Killing(u)
        BY <3>3 DEF KillInv
      <4>2. Clear \in Command \ Silent /\ C!CallInv
        BY CommandForms DEF Clear, Plain, Silent, Inv
      <4>3. ~C!Coming(u, Clear, Reading)
        BY <2>1, <4>2, ChannelAssumptions, C!ComingEnds
      <4>4. known = {} /\ C!OnlyLeft(Reading)
        BY <2>6, <4>1, <4>3 DEF Killing
      <4>5. known' = {} /\ C!OnlyLeft(Reading)'
        BY <2>3, <4>4, EmptyStays
      <4>6. "none" \notin Writes
        BY DEF Writes
      <4> QED
        BY <3>2, <4>1, <4>5, <4>6 DEF Killed, Killing
    <3> QED
      BY <3>1, <3>2, <3>3, KillerRest
  <2> QED
    BY <2>4, <2>5, <2>6
<1>8. CASE DoEnqueue(u)
  <2>1. todo[u] = K2
    BY <1>1, <1>8, KillForms DEF DoEnqueue, At
  <2>2. Head(todo[u]).cmd = Clear /\ Head(todo[u]).pkt = <<>>
    BY <2>1, KillForms
  <2>3. C!Enqueue(u, Clear, <<>>) /\ StepDone(u)
    BY <1>8, <2>2, SameInserts DEF DoEnqueue
  <2>4. /\ upc[u] = "ready" /\ C!Insert(C!NewMsg(Clear, <<>>, FALSE))
        /\ UNCHANGED <<C!workVars, upc, wire, C!barVars>>
    BY <2>3 DEF C!Enqueue, C!sockVars
  <2>5. todo' = [todo EXCEPT ![u] = K1] /\ UNCHANGED <<op, clean, fresh, killed>>
    BY <2>1, <2>3, KillForms DEF StepDone, Advance, pastVars
  <2>6. todo'[u] = K1 /\ \A v \in User \ {u} : todo'[v] = todo[v]
    BY <1>4, <2>5
  <2>7. ASSUME clean[u] # {} PROVE Killing(u)'
    <3>1. Killing(u)
      BY <2>7 DEF KillInv
    <3>2. Clear \notin Reading
      BY DEF Clear, Reading
    <3>3. C!Behind(bret, Reading) /\ C!CallInv
      BY <2>1, <3>1 DEF Killing, Inv
    <3>4. C!Coming(u, Clear, Reading)'
      BY <2>4, <3>2, <3>3, ChannelAssumptions, C!ComingBegins
    <3> QED
      BY <2>5, <2>6, <3>1, <3>4, KillForms DEF Killing
  <2> QED
    BY <2>5, <2>6, <2>7, KillerRest
<1> QED
  BY <1>3, <1>6, <1>7, <1>8, SameWaits DEF DoBarrier

\* A step of thread u is no step of other threads.
LEMMA OthersStay ==
  ASSUME Inv, NEW u \in User, UserStep(u)
  PROVE  /\ \A v \in User \ {u} : /\ op'[v] = op[v] /\ todo'[v] = todo[v]
                                  /\ clean'[v] = clean[v] /\ upc'[v] = upc[v]
         /\ op'[u] \in {op[u], "none"}
         /\ op[u] # "kill_data" => killed' = killed
         /\ todo[u] # <<>> /\ op[u] # "none"
<1>1. /\ op \in [User -> Names] /\ todo \in [User -> Seq(Step)]
      /\ clean \in [User -> SUBSET Table] /\ killed \in BOOLEAN
      /\ upc \in [User -> {"ready", "ask", "flush", "barrier"}]
  BY DEF Inv, Kept, Plans, TypeOK, C!CallInv, C!IInv, C!TypeOK
<1>2. Wait \/ \E lo : Advance(u, lo)
  BY DEF UserStep, DoNoreply, DoStore, DoEnqueue, DoProbe, ProbeReply, DoFlush,
    DoBarrier, CloseConnection, OpenConnection, StepDone
<1>3. /\ \A v \in User \ {u} : op'[v] = op[v] /\ todo'[v] = todo[v] /\ clean'[v] = clean[v]
      /\ op'[u] \in {op[u], "none"} /\ (op[u] # "kill_data" => killed' = killed)
  <2>1. CASE Wait
    BY <2>1 DEF Wait, userVars, pastVars
  <2>2. ASSUME NEW lo, Advance(u, lo)
        PROVE  /\ \A v \in User \ {u} : op'[v] = op[v] /\ todo'[v] = todo[v] /\ clean'[v] = clean[v]
               /\ op'[u] \in {op[u], "none"} /\ (op[u] # "kill_data" => killed' = killed)
    BY <1>1, <2>2 DEF Advance, pastVars
  <2> QED
    BY <1>2, <2>1, <2>2
<1>4. \A v \in User \ {u} : upc'[v] = upc[v]
  <2>1. upc' = upc \/ \E x : upc' = [upc EXCEPT ![u] = x]
    BY DEF UserStep, DoNoreply, DoStore, DoEnqueue, DoProbe, ProbeReply, DoFlush,
      DoBarrier, CloseConnection, OpenConnection, Chan!Enqueue, Chan!EnqueueNoreply,
      Chan!SynchroSend, Chan!SynchroRecv, Chan!FlushBegin, Chan!FlushEnd,
      Chan!BarrierBegin, Chan!BarrierEnd, chanVars
  <2> QED
    BY <1>1, <2>1
<1>5. todo[u] # <<>> /\ op[u] # "none"
  BY DEF UserStep, DoNoreply, DoStore, DoEnqueue, DoProbe, ProbeReply, DoFlush,
    DoBarrier, CloseConnection, OpenConnection, At, Inv, Kept, TypeOK
<1> QED
  BY <1>3, <1>4, <1>5

\* Where nobody writes, kills and their results stay good.
LEMMA KillsStay ==
  ASSUME Inv, Inv', KillInv, [C!Next]_C!vars, Makes(Reading),
         RunsNone \/ \E t \in C!Thread : Runs(t),
         \A v \in User : op'[v] \in Writes => op[v] \in Writes,
         \A v \in User : op'[v] = "kill_data" =>
           /\ op[v] = "kill_data" /\ todo'[v] = todo[v] /\ upc'[v] = upc[v]
           /\ clean'[v] = clean[v],
         killed' => killed
  PROVE  KillInv'
<1>1. ASSUME NEW v \in User, op'[v] = "kill_data", clean'[v] # {} PROVE Killing(v)'
  <2>1. Killing(v)
    BY <1>1 DEF KillInv
  <2>2. \A x \in User \ {v} : op'[x] \notin Writes
    BY <2>1 DEF Killing
  <2> QED
    BY <1>1, <2>1, <2>2, KillingStays
<1>2. ASSUME killed PROVE Killed'
  BY <1>2, EmptyStays DEF KillInv, Killed
<1> QED
  BY <1>1, <1>2 DEF KillInv

\* A call: a write takes back what kills vouch for.
LEMMA KillCalls ==
  ASSUME Inv, Inv', KillInv, NEW u \in User, Operation(u)
  PROVE  KillInv'
<1>1. PICK f \in Names \ {"none"} : Planned(u, f)
  BY OperationPlan
<1>2. PICK t \in Table, steps \in Seq(StepOf(f)) :
        /\ steps # <<>> /\ Call(u, f, t, steps)
        /\ f = "kill_data" => steps = K3
  BY <1>1 DEF Planned
<1>3. UNCHANGED C!vars /\ UNCHANGED <<known, upc>>
  BY <1>2 DEF Call, chanVars, srvVars, C!vars, C!bufVars, C!workVars, C!sockVars,
    C!barVars, C!srvVars
<1>4. Makes(Reading) /\ RunsNone
  BY <1>3, MovesMake DEF Makes
<1>5. /\ op \in [User -> Names] /\ todo \in [User -> Seq(Step)]
      /\ clean \in [User -> SUBSET Table] /\ killed \in BOOLEAN
  BY DEF Inv, Kept, Plans, TypeOK
<1>6. /\ op[u] = "none" /\ op'[u] = f /\ todo'[u] = steps
      /\ \A v \in User \ {u} : op'[v] = op[v] /\ todo'[v] = todo[v]
      /\ killed' = (killed /\ f \notin Writes)
  BY <1>2, <1>5 DEF Call
<1>7. CASE f \notin Writes
  <2>1. f # "kill_data" /\ \A v \in User \ {u} : clean'[v] = clean[v]
    BY <1>2, <1>7 DEF Call, Writes
  <2> QED
    BY <1>3, <1>4, <1>6, <1>7, <2>1, KillsStay
<1>8. CASE f \in Writes
  <2>1. /\ \A v \in User \ {u} : clean'[v] = {}
        /\ clean'[u] # {} => Alone(u)
    BY <1>2, <1>8 DEF Call
  <2>2. upc'[u] # "barrier"
    BY <1>3, <1>6 DEF Inv, Kept, Plans, TypeOK, At
  <2>3. ASSUME f = "kill_data", clean'[u] # {} PROVE Killing(u)'
    <3>1. \A v \in User \ {u} : op'[v] \notin Writes
      BY <1>6, <2>1, <2>3 DEF Alone
    <3> QED
      BY <1>2, <1>6, <2>2, <2>3, <3>1, KillForms DEF Killing
  <2>4. \A v \in User : op'[v] = "kill_data" => todo'[v] \in {K3, K2, K1}
    BY <1>2, <1>6 DEF KillInv
  <2> QED
    BY <1>6, <1>8, <2>1, <2>3, <2>4 DEF KillInv
<1> QED
  BY <1>7, <1>8

\* Every step keeps KillInv.
LEMMA KillStep == Inv /\ Inv' /\ KillInv /\ [Next]_vars => KillInv'
<1> SUFFICES ASSUME Inv, Inv', KillInv, [Next]_vars PROVE KillInv'
  OBVIOUS
<1>1. [C!Next]_C!vars
  BY InvStep
<1>2. ASSUME NEW u \in User, UserStep(u), op[u] # "kill_data" PROVE KillInv'
  <2>1. /\ \A v \in User \ {u} : /\ op'[v] = op[v] /\ todo'[v] = todo[v]
                                 /\ clean'[v] = clean[v] /\ upc'[v] = upc[v]
        /\ op'[u] \in {op[u], "none"} /\ killed' = killed
    BY <1>2, OthersStay
  <2>2. CASE op[u] \notin Writes
    <3>1. Makes(Reading) /\ RunsNone
      BY <1>2, <2>2, UserMakes
    <3>2. "none" \notin Writes
      BY DEF Writes
    <3> QED
      BY <1>1, <1>2, <2>1, <2>2, <3>1, <3>2, KillsStay
  <2>3. CASE op[u] \in Writes
    <3>1. ~killed /\ \A v \in User \ {u} : ~(op[v] = "kill_data" /\ clean[v] # {})
      BY <2>3 DEF KillInv, Killed, Killing
    <3> QED
      BY <1>2, <2>1, <3>1 DEF KillInv
  <2> QED
    BY <2>2, <2>3
<1>3. CASE \/ \E w \in Worker : WorkerStep(w) \/ WorkerSendBlock(w)
                                  \/ \E m \in msgq : WorkerTake(w, m)
           \/ BarrierDrained
           \/ ServerStep
  <2>1. /\ Makes(KeysOnly) /\ (RunsNone \/ \E t \in C!Thread : Runs(t))
        /\ UNCHANGED <<userVars, pastVars, upc>>
    BY <1>3, ThreadMakes
  <2>2. Makes(Reading)
    BY <2>1, KeysRead DEF Makes
  <2>3. UNCHANGED <<op, todo, clean, killed, upc>>
    BY <2>1 DEF userVars, pastVars
  <2> QED
    BY <1>1, <2>1, <2>2, <2>3, KillsStay
<1>4. CASE UNCHANGED vars
  <2>1. UNCHANGED <<op, todo, clean, killed, upc, known>> /\ UNCHANGED C!vars
    BY <1>4 DEF vars, userVars, pastVars, srvVars, chanVars, C!vars, C!bufVars,
      C!workVars, C!sockVars, C!barVars, C!srvVars
  <2>2. Makes(Reading) /\ RunsNone
    BY <2>1, MovesMake DEF Makes
  <2> QED
    BY <1>1, <2>1, <2>2, KillsStay
<1> QED
  BY <1>1, <1>2, <1>3, <1>4, KillCalls, KillerSteps DEF Next

\* kill_data is final (CogIO.cc, kill_data): when it has returned, no
\* write called before it, by whatever thread and on whatever socket, puts
\* Atoms back in the AtomSpace that it cleared, unless a write was called
\* during the kill or since.
THEOREM KillIsFinalHolds == Spec => []KillIsFinal
<1>1. Init => KillInv
  BY DEF Init, KillInv
<1>2. KillInv => KillIsFinal
  BY DEF KillInv, Killed, KillIsFinal
<1> QED
  BY <1>1, <1>2, InitInv, InvStep, KillStep, PTL DEF Spec

-----------------------------------------------------------------------------
(***************************************************************************)
(* close.                                                                  *)
(***************************************************************************)
\* What is left of close after each step.
LEMMA CloseForms ==
  /\ C5 # <<>> /\ Head(C5).do = "barrier" /\ Tail(C5) = C4
  /\ C4 # <<>> /\ Head(C4) = [do |-> "enqueue", cmd |-> Bye, pkt |-> <<>>] /\ Tail(C4) = C3
  /\ C3 # <<>> /\ Head(C3).do = "barrier" /\ Tail(C3) = C2
  /\ C2 # <<>> /\ Head(C2).do = "barrier" /\ Tail(C2) = C1
  /\ C1 # <<>> /\ Head(C1).do = "shut" /\ Tail(C1) = <<>>
  /\ Len(C5) = 5 /\ Len(C4) = 4 /\ Len(C3) = 3 /\ Len(C2) = 2 /\ Len(C1) = 1
<1> DEFINE b == [do |-> "barrier"]
           s == [do |-> "shut"]
           q == [do |-> "enqueue", cmd |-> Bye, pkt |-> <<>>]
           S == {b, q, s}
           A == Ask(Bye, <<>>)
<1>1. b.do = "barrier" /\ s.do = "shut" /\ q = [do |-> "enqueue", cmd |-> Bye, pkt |-> <<>>]
  OBVIOUS
<1>2. Barrier = <<b>> /\ A = <<q>> /\ Shut = <<s>> /\ b \in S /\ q \in S /\ s \in S
  BY DEF Barrier, Ask, Shut
<1>3. /\ C5 = Barrier \o A \o Barrier \o Barrier \o Shut
      /\ C4 = A \o Barrier \o Barrier \o Shut
      /\ C3 = Barrier \o Barrier \o Shut /\ C2 = Barrier \o Shut /\ C1 = Shut
  BY DEF C5, C4, C3, C2, C1, ProxySteps, Bye
<1> HIDE DEF b, q, s, S, A
<1>4. /\ Barrier \in Seq(S) /\ Barrier # <<>> /\ Len(Barrier) = 1 /\ Head(Barrier) = b
      /\ \A r \in Seq(S) : Tail(Barrier) \o r = r
  BY <1>2, OneStep
<1>5. /\ A \in Seq(S) /\ A # <<>> /\ Len(A) = 1 /\ Head(A) = q
      /\ \A r \in Seq(S) : Tail(A) \o r = r
  BY <1>2, OneStep
<1>6. Shut \in Seq(S) /\ Shut # <<>> /\ Len(Shut) = 1 /\ Head(Shut) = s /\ Tail(Shut) = <<>>
  BY <1>2, OneStep
<1>7. ASSUME NEW x \in Seq(S), x # <<>>, NEW y \in Seq(S), NEW z, z = x \o y
      PROVE  /\ z \in Seq(S) /\ z # <<>> /\ Len(z) = Len(x) + Len(y)
             /\ Head(z) = Head(x) /\ Tail(z) = Tail(x) \o y
  BY <1>7, JoinedTail
<1>8. C2 # <<>> /\ Head(C2) = b /\ Tail(C2) = C1 /\ Len(C2) = 2
  BY <1>3, <1>4, <1>6, <1>7
<1> DEFINE bb == Barrier \o Barrier
           ab == A \o Barrier
           abb == ab \o Barrier
           ba == Barrier \o A
           bab == ba \o Barrier
           babb == bab \o Barrier
<1>9. bb \in Seq(S) /\ bb # <<>> /\ Head(bb) = b /\ Tail(bb) = Barrier /\ Len(bb) = 2
  BY <1>4, <1>7
<1>10. ab \in Seq(S) /\ ab # <<>> /\ Head(ab) = q /\ Tail(ab) = Barrier /\ Len(ab) = 2
  BY <1>4, <1>5, <1>7
<1>11. ba \in Seq(S) /\ ba # <<>> /\ Head(ba) = b /\ Tail(ba) = A /\ Len(ba) = 2
  BY <1>4, <1>5, <1>7
<1>12. C3 = bb \o Shut /\ C4 = abb \o Shut /\ C5 = babb \o Shut
  BY <1>3
<1> HIDE DEF bb, ab, ba
<1>13. abb \in Seq(S) /\ abb # <<>> /\ Head(abb) = q /\ Tail(abb) = bb /\ Len(abb) = 3
  <2>1. /\ abb \in Seq(S) /\ abb # <<>> /\ Head(abb) = Head(ab)
        /\ Tail(abb) = Tail(ab) \o Barrier /\ Len(abb) = Len(ab) + Len(Barrier)
    BY <1>4, <1>10, <1>7
  <2> QED
    BY <1>4, <1>10, <2>1 DEF bb
<1>14. bab \in Seq(S) /\ bab # <<>> /\ Head(bab) = b /\ Tail(bab) = ab /\ Len(bab) = 3
  <2>1. /\ bab \in Seq(S) /\ bab # <<>> /\ Head(bab) = Head(ba)
        /\ Tail(bab) = Tail(ba) \o Barrier /\ Len(bab) = Len(ba) + Len(Barrier)
    BY <1>4, <1>11, <1>7
  <2> QED
    BY <1>4, <1>11, <2>1 DEF ab
<1> HIDE DEF bab, abb
<1>15. babb \in Seq(S) /\ babb # <<>> /\ Head(babb) = b /\ Tail(babb) = abb /\ Len(babb) = 4
  <2>1. /\ babb \in Seq(S) /\ babb # <<>> /\ Head(babb) = Head(bab)
        /\ Tail(babb) = Tail(bab) \o Barrier /\ Len(babb) = Len(bab) + Len(Barrier)
    BY <1>4, <1>14, <1>7
  <2> QED
    BY <1>4, <1>14, <2>1 DEF abb
<1> HIDE DEF babb
<1>16. C3 # <<>> /\ Head(C3) = b /\ Tail(C3) = C2 /\ Len(C3) = 3
  <2>1. /\ C3 # <<>> /\ Head(C3) = Head(bb) /\ Tail(C3) = Tail(bb) \o Shut
        /\ Len(C3) = Len(bb) + Len(Shut)
    BY <1>6, <1>7, <1>9, <1>12
  <2>2. Tail(C3) = C2
    BY <1>3, <1>9, <2>1, Zenon
  <2> QED
    BY <1>6, <1>9, <2>1, <2>2
<1>17. C4 # <<>> /\ Head(C4) = q /\ Tail(C4) = C3 /\ Len(C4) = 4
  <2>1. /\ C4 # <<>> /\ Head(C4) = Head(abb) /\ Tail(C4) = Tail(abb) \o Shut
        /\ Len(C4) = Len(abb) + Len(Shut)
    BY <1>6, <1>7, <1>13, <1>12
  <2>2. Tail(C4) = C3
    BY <1>12, <1>13, <2>1, Zenon
  <2> QED
    BY <1>6, <1>13, <2>1, <2>2
<1>18. C5 # <<>> /\ Head(C5) = b /\ Tail(C5) = C4 /\ Len(C5) = 5
  <2>1. /\ C5 # <<>> /\ Head(C5) = Head(babb) /\ Tail(C5) = Tail(babb) \o Shut
        /\ Len(C5) = Len(babb) + Len(Shut)
    BY <1>6, <1>7, <1>15, <1>12
  <2>2. Tail(C5) = C4
    BY <1>12, <1>15, <2>1, Zenon
  <2> QED
    BY <1>6, <1>15, <2>1, <2>2
<1> QED
  BY <1>1, <1>3, <1>6, <1>8, <1>16, <1>17, <1>18

\* The proxy-close that is to come, or that was run: only keys are left then.
Ended(u) == C!Coming(u, Bye, KeysOnly) \/ C!OnlyLeft(KeysOnly)

\* It stays so, while only keys are asked for.
LEMMA EndedStays ==
  ASSUME Inv, Inv', [C!Next]_C!vars, NEW u \in User, Ended(u), Makes(KeysOnly),
         RunsNone \/ \E t \in C!Thread : Runs(t),
         bstart' = bstart + 1 \/ (upc'[u] = "barrier" => upc[u] = "barrier")
  PROVE  Ended(u)'
<1>1. CASE C!OnlyLeft(KeysOnly)
  BY <1>1 DEF Ended, C!OnlyLeft, Makes
<1>2. CASE C!Coming(u, Bye, KeysOnly) /\ RunsNone
  <2>1. C!CallInv /\ (bstart' = bstart \/ bstart' = bstart + 1)
    BY BarrierCounts DEF Inv
  <2>2. C!Coming(u, Bye, KeysOnly)'
    BY <1>2, <2>1, ChannelAssumptions, C!ComingStays DEF RunsNone, Makes
  <2> QED
    BY <2>2 DEF Ended
<1>3. ASSUME C!Coming(u, Bye, KeysOnly), NEW t \in C!Thread, Runs(t)
      PROVE  Ended(u)'
  <2>1. C!CallInv /\ C!CallInv'
    BY DEF Inv
  <2>2. C!Coming(u, Bye, KeysOnly)' \/ C!OnlyLeft(KeysOnly)'
    BY <1>3, <2>1, ChannelAssumptions, C!ComingRuns DEF Runs
  <2> QED
    BY <2>2 DEF Ended
<1> QED
  BY <1>1, <1>2, <1>3 DEF Ended

\* A close, when the workers and the server take a step.
LEMMA ClosingStays ==
  ASSUME Inv, Inv', [C!Next]_C!vars, NEW u \in User, Closing(u),
         UNCHANGED <<op, todo, upc>>, Makes(KeysOnly),
         RunsNone \/ \E t \in C!Thread : Runs(t)
  PROVE  Closing(u)'
<1>1. /\ bstart \in Nat /\ bret \in Nat /\ bret' \in Nat /\ bret <= bret'
      /\ upc[u] = "barrier" => bstart' = bstart
  BY BarrierCounts DEF Inv, C!CallInv, C!OneBarrier
<1>2. todo[u] = C5 /\ upc[u] = "barrier" => C!Behind(bstart, KeysOnly)'
  BY <1>1, BehindStays DEF Closing, C!Behind
<1>3. todo[u] = C4 => C!Behind(bret, KeysOnly)'
  BY <1>1, BehindStays DEF Closing, C!Behind
<1>4. todo[u] = C3 => Ended(u)'
  BY EndedStays DEF Closing, Ended
<1>5. todo[u] \in {C2, C1} => C!OnlyLeft(KeysOnly)'
  BY DEF Closing, C!OnlyLeft, Makes
<1> QED
  BY <1>2, <1>3, <1>4, <1>5 DEF Closing, Ended

\* A close by itself, in its own steps.
LEMMA CloserRest ==
  ASSUME CloseInv, NEW u \in User, op[u] = "close",
         \A v \in User \ {u} : op'[v] = op[v],
         op'[u] \in {"close", "none"},
         op'[u] = "close" => Closing(u)',
         up' = up \/ (up' = FALSE /\ C!Live' = {} /\ op'[u] = "none")
  PROVE  CloseInv'
<1>1. up /\ \A v \in User \ {u} : op[v] = "none"
  BY DEF CloseInv, Down, Closing
<1> QED
  BY <1>1 DEF CloseInv, Down

\* close: barrier, cog-proxy-close, barrier, barrier, and the drained buffer.
LEMMA CloserSteps ==
  ASSUME Inv, Inv', CloseInv, [C!Next]_C!vars, NEW u \in User, op[u] = "close",
         UserStep(u)
  PROVE  CloseInv'
<1>1. Closing(u) /\ todo[u] \in {C5, C4, C3, C2, C1} /\ \A v \in User \ {u} : op[v] = "none"
  BY DEF CloseInv, Closing
<1>2. At(u, "barrier") \/ At(u, "enqueue") \/ At(u, "shut")
  BY <1>1, CloseForms DEF At
<1>3. DoBarrier(u) \/ DoEnqueue(u) \/ CloseConnection(u)
  BY <1>2 DEF UserStep, At, DoNoreply, DoStore, DoEnqueue, DoProbe, ProbeReply, DoFlush,
    DoBarrier, CloseConnection, OpenConnection
<1>4. /\ op \in [User -> Names] /\ todo \in [User -> Seq(Step)]
      /\ upc \in [User -> {"ready", "ask", "flush", "barrier"}]
      /\ bstart \in Nat /\ bret \in Nat
  BY BarrierCounts DEF Inv, Kept, Plans, C!CallInv, C!IInv, C!TypeOK
<1>5. \A v \in User \ {u} : op'[v] = "none"
  BY <1>1, OthersStay
<1>6. CASE DoBarrier(u) /\ C!BarrierBegin(u) /\ Wait
  <2>1. UNCHANGED <<op, todo, up, known>> /\ bstart' = bstart + 1
    BY <1>6 DEF DoBarrier, C!BarrierBegin, Wait, userVars, srvVars
  <2>2. C!Moves
    BY <1>6 DEF C!Moves
  <2>3. Makes({}) /\ RunsNone /\ Makes(KeysOnly)
    BY <2>1, <2>2, MovesMake DEF Makes
  <2>4. C!Behind(bstart, KeysOnly)'
    <3> SUFFICES ASSUME NEW m \in C!Live', m.hi >= bstart' PROVE FALSE
      BY DEF C!Behind
    <3>1. m \in C!Live
      BY <2>3 DEF Makes
    <3>2. m \in C!Msg /\ m.hi <= bstart
      BY <3>1, ChannelAssumptions, C!LiveType DEF Inv, C!CallInv, C!Stamped
    <3> QED
      BY <1>4, <2>1, <3>2 DEF C!Msg
  <2>5. todo[u] # C4
    BY <1>6, CloseForms DEF DoBarrier, At
  <2>6. todo[u] = C3 => Ended(u)'
    BY <1>1, <2>1, <2>3, EndedStays DEF Closing, Ended
  <2>7. todo[u] \in {C2, C1} => C!OnlyLeft(KeysOnly)'
    BY <1>1, <2>3 DEF Closing, C!OnlyLeft, Makes
  <2>8. Closing(u)'
    BY <1>1, <2>1, <2>4, <2>5, <2>6, <2>7 DEF Closing, Ended
  <2> QED
    BY <2>1, <2>8, CloserRest
<1>7. CASE DoBarrier(u) /\ C!BarrierEnd(u) /\ StepDone(u)
  <2>1. /\ upc[u] = "barrier" /\ phase = "fence" /\ bret' = bstart /\ UNCHANGED <<known, up>>
        /\ todo' = [todo EXCEPT ![u] = Tail(todo[u])]
    BY <1>7 DEF DoBarrier, C!BarrierEnd, StepDone, Advance, Wait, userVars, srvVars
  <2>2. C!Moves
    BY <1>7 DEF C!Moves
  <2>3. Makes(KeysOnly) /\ RunsNone
    BY <2>1, <2>2, MovesMake DEF Makes
  <2>4. todo[u] \in {C5, C3, C2}
    BY <1>1, <1>7, CloseForms DEF DoBarrier, At
  <2>5. Tail(todo[u]) \in {C4, C2, C1} /\ Tail(todo[u]) # <<>>
    BY <2>4, CloseForms
  <2>6. todo'[u] = Tail(todo[u]) /\ op' = op
    BY <1>4, <1>7, <2>1, <2>5 DEF StepDone, Advance
  <2>7. todo'[u] = C4 => C!Behind(bret, KeysOnly)'
    <3>1. todo'[u] = C4 => todo[u] = C5
      BY <2>4, <2>6, CloseForms
    <3> QED
      BY <1>1, <1>4, <2>1, <2>3, <3>1, BehindStays DEF Closing, C!Behind
  <2>8. todo'[u] \in {C2, C1} => C!OnlyLeft(KeysOnly)'
    <3>1. todo'[u] \in {C2, C1} => todo[u] \in {C3, C2}
      BY <2>4, <2>6, CloseForms
    <3>2. ~C!Coming(u, Bye, KeysOnly)
      <4>1. Bye \in Command \ Silent /\ C!CallInv
        BY CommandForms DEF Bye, Plain, Silent, Inv
      <4> QED
        BY <2>1, <4>1, ChannelAssumptions, C!ComingEnds
    <3>3. todo[u] \in {C3, C2} => C!OnlyLeft(KeysOnly)
      BY <1>1, <3>2 DEF Closing
    <3> QED
      BY <2>3, <3>1, <3>3 DEF C!OnlyLeft, Makes
  <2>9. todo'[u] # C5 /\ todo'[u] # C3
    BY <2>4, <2>6, CloseForms
  <2>10. Closing(u)'
    BY <1>5, <2>5, <2>6, <2>7, <2>8, <2>9 DEF Closing
  <2> QED
    BY <2>1, <2>6, <2>10, CloserRest
<1>8. CASE DoEnqueue(u)
  <2>1. todo[u] = C4
    BY <1>1, <1>8, CloseForms DEF DoEnqueue, At
  <2>2. Head(todo[u]).cmd = Bye /\ Head(todo[u]).pkt = <<>>
    BY <2>1, CloseForms
  <2>3. C!Enqueue(u, Bye, <<>>) /\ StepDone(u) /\ UNCHANGED up
    BY <1>8, <2>2, SameInserts DEF DoEnqueue
  <2>4. /\ upc[u] = "ready" /\ C!Insert(C!NewMsg(Bye, <<>>, FALSE))
        /\ UNCHANGED <<C!workVars, upc, wire, C!barVars>>
    BY <2>3 DEF C!Enqueue, C!sockVars
  <2>5. todo' = [todo EXCEPT ![u] = C3] /\ UNCHANGED op
    BY <2>1, <2>3, CloseForms DEF StepDone, Advance
  <2>6. todo'[u] = C3
    BY <1>4, <2>5
  <2>7. Bye \notin KeysOnly
    BY DEF Bye, KeysOnly, Keys
  <2>8. C!Behind(bret, KeysOnly) /\ C!CallInv
    BY <1>1, <2>1 DEF Closing, Inv
  <2>9. C!Coming(u, Bye, KeysOnly)'
    BY <2>4, <2>7, <2>8, ChannelAssumptions, C!ComingBegins
  <2>10. Closing(u)'
    BY <1>5, <2>6, <2>9, CloseForms DEF Closing
  <2> QED
    BY <2>3, <2>5, <2>10, CloserRest
<1>9. CASE CloseConnection(u)
  <2>1. todo[u] = C1 /\ C!Drained /\ up' = FALSE /\ StepDone(u) /\ UNCHANGED chanVars
    BY <1>1, <1>9, CloseForms, SameServer DEF CloseConnection, At
  <2>2. op'[u] = "none"
    BY <1>4, <2>1, CloseForms DEF StepDone, Advance
  <2>3. C!Buffered = {}
    BY <2>1 DEF C!Drained, C!Buffered
  <2>4. C!OnlyLeft(KeysOnly) /\ C!CallInv
    BY <1>1, <2>1 DEF Closing, Inv
  <2>5. KeysOnly \subseteq Command \ Silent
    BY CommandForms DEF KeysOnly, Keys, Silent, Single
  <2>6. C!Pending = {}
    BY <2>3, <2>4, <2>5, ChannelAssumptions, C!AsksAreHeld DEF C!OnlyLeft
  <2>7. C!Live' = {}
    BY <2>1, <2>3, <2>6 DEF C!Live, C!Pending, C!Buffered, C!Sent, chanVars
  <2> QED
    BY <1>1, <1>5, <2>1, <2>2, <2>7, CloserRest
<1> QED
  BY <1>3, <1>6, <1>7, <1>8, <1>9, SameWaits DEF DoBarrier

\* Every step keeps CloseInv.
LEMMA CloseStep == Inv /\ Inv' /\ OneOpens /\ CloseInv /\ [Next]_vars => CloseInv'
<1> SUFFICES ASSUME Inv, Inv', OneOpens, CloseInv, [Next]_vars PROVE CloseInv'
  OBVIOUS
<1>1. [C!Next]_C!vars
  BY InvStep
<1>2. /\ op \in [User -> Names] /\ todo \in [User -> Seq(Step)]
  BY DEF Inv, Kept, Plans
<1>3. ASSUME NEW u \in User, Operation(u) PROVE CloseInv'
  <2>1. PICK f \in Names \ {"none"} : Planned(u, f)
    BY <1>3, OperationPlan
  <2>2. PICK t \in Table, steps \in Seq(StepOf(f)) :
          /\ Call(u, f, t, steps)
          /\ f = "close" => steps = C5
          /\ f = "open" => steps = Connect
          /\ f = "open" <=> ~up
    BY <2>1 DEF Planned
  <2>3. /\ op[u] = "none" /\ op'[u] = f /\ todo'[u] = steps
        /\ \A v \in User \ {u} : op'[v] = op[v] /\ todo'[v] = todo[v]
        /\ \A v \in User : op[v] # "close" /\ (f = "close" => op[v] = "none")
        /\ UNCHANGED up
    BY <1>2, <2>2 DEF Call
  <2>4. UNCHANGED chanVars
    BY <2>2 DEF Call
  <2>5. C!Live' = C!Live /\ upc' = upc
    BY <2>4 DEF C!Live, C!Pending, C!Buffered, C!Sent, chanVars
  <2>6. ASSUME f = "close" PROVE Closing(u)'
    <3>1. upc'[u] # "barrier"
      BY <2>3, <2>5 DEF Inv, Kept, Plans, TypeOK, At
    <3>2. todo'[u] = C5 /\ \A v \in User \ {u} : op'[v] = "none"
      BY <2>2, <2>3, <2>6
    <3> QED
      BY <3>1, <3>2, CloseForms DEF Closing
  <2> QED
    BY <2>2, <2>3, <2>5, <2>6 DEF CloseInv, Down
<1>4. ASSUME NEW u \in User, UserStep(u) PROVE CloseInv'
  <2>1. /\ \A v \in User \ {u} : op'[v] = op[v] /\ todo'[v] = todo[v]
        /\ op'[u] \in {op[u], "none"} /\ op[u] # "none"
    BY <1>4, OthersStay
  <2>2. \A v \in User : op[v] = "close" => v = u
    BY <2>1 DEF CloseInv, Closing
  <2>3. CASE op[u] = "close"
    BY <1>1, <1>4, <2>3, CloserSteps
  <2>4. CASE op[u] = "open"
    <3>1. ~up /\ todo[u] = Connect /\ Down
      BY <2>4 DEF CloseInv
    <3>2. At(u, "connect") /\ Tail(todo[u]) = <<>>
      BY <3>1 DEF Connect, At
    <3>3. OpenConnection(u)
      BY <1>4, <3>2 DEF UserStep, At, DoNoreply, DoStore, DoEnqueue, DoProbe, ProbeReply,
        DoFlush, DoBarrier, CloseConnection
    <3>4. op'[u] = "none"
      BY <1>2, <3>2, <3>3 DEF OpenConnection, StepDone, Advance
    <3>5. C!Live' = C!Live
      BY <3>3 DEF OpenConnection, C!Live, C!Pending, C!Buffered, C!Sent, chanVars
    <3>6. \A v \in User \ {u} : op[v] # "open"
      BY <2>4 DEF OneOpens
    <3> QED
      BY <2>1, <2>2, <2>4, <3>1, <3>4, <3>5, <3>6 DEF CloseInv, Down
  <2>5. CASE op[u] \notin {"close", "open"}
    <3>1. up /\ \A v \in User : op[v] # "open"
      BY <2>1, <2>5 DEF CloseInv, Down
    <3>2. up'
      <4>1. todo[u] \in Seq(StepOf(op[u])) /\ todo[u] # <<>>
        BY <1>4, OthersStay DEF Inv, Kept, Plans
      <4>2. Head(todo[u]) \in StepOf(op[u])
        BY <4>1
      <4>3. ~At(u, "connect") /\ ~At(u, "shut")
        BY <2>5, <4>2 DEF At, StepOf
      <4> QED
        BY <1>4, <3>1, <4>3 DEF UserStep, DoNoreply, DoStore, DoEnqueue, DoProbe, ProbeReply,
          DoFlush, DoBarrier, CloseConnection, OpenConnection, Wait, userVars
    <3> QED
      BY <2>1, <2>2, <2>5, <3>1, <3>2 DEF CloseInv
  <2> QED
    BY <2>3, <2>4, <2>5
<1>5. CASE \/ \E w \in Worker : WorkerStep(w) \/ WorkerSendBlock(w)
                                  \/ \E m \in msgq : WorkerTake(w, m)
           \/ BarrierDrained
           \/ ServerStep
  <2>1. /\ Makes(KeysOnly) /\ (C!Live = {} => Makes({}))
        /\ RunsNone \/ \E t \in C!Thread : Runs(t)
        /\ UNCHANGED <<userVars, pastVars, upc>>
    BY <1>5, ThreadMakes
  <2>2. UNCHANGED <<op, todo, up, upc>>
    BY <2>1 DEF userVars
  <2>3. \A u \in User : op'[u] = "close" => Closing(u)'
    BY <1>1, <2>1, <2>2, ClosingStays DEF CloseInv
  <2>4. C!Live = {} => C!Live' = {}
    BY <2>1 DEF Makes
  <2> QED
    BY <2>2, <2>3, <2>4 DEF CloseInv, Down
<1>6. CASE UNCHANGED vars
  <2>1. UNCHANGED <<op, todo, up, upc, known>> /\ UNCHANGED C!vars
    BY <1>6 DEF vars, userVars, srvVars, chanVars, C!vars, C!bufVars,
      C!workVars, C!sockVars, C!barVars, C!srvVars
  <2>2. Makes({}) /\ Makes(KeysOnly) /\ RunsNone
    BY <2>1, MovesMake DEF Makes
  <2>3. \A u \in User : op'[u] = "close" => Closing(u)'
    BY <1>1, <2>1, <2>2, ClosingStays DEF CloseInv
  <2>4. C!Live = {} => C!Live' = {}
    BY <2>2 DEF Makes
  <2> QED
    BY <2>1, <2>3, <2>4 DEF CloseInv, Down
<1> QED
  BY <1>3, <1>4, <1>5, <1>6 DEF Next

\* close loses nothing (CogStorage.cc, close): once the connection is closed,
\* the server has run every command that was called before, also those without
\* a reply to wait for, if no two threads are in open at the same time.
THEOREM CloseIsSyncHolds == Spec /\ []OneOpens => []CloseIsSync
<1>1. Init => CloseInv
  BY DEF Init, CloseInv
<1>2. CloseInv => CloseIsSync
  BY SameServer DEF CloseInv, Down, CloseIsSync, C!Live
<1> QED
  BY <1>1, <1>2, InitInv, InvStep, CloseStep, PTL DEF Spec

-----------------------------------------------------------------------------
(***************************************************************************)
(* updateValue.                                                            *)
(*                                                                         *)
(* An update that was asked for and not yet applied is in one place: with  *)
(* the thread that called, in the buffer, with the worker that took it, or *)
(* on that worker's socket.  Every step moves it on or drops it.           *)
(***************************************************************************)
Owed ==
  {<<"call", u, 0>> : u \in {v \in User : op[v] = "updateValue"}}
    \cup {<<"buffer", m, 0>> : m \in {n \in msgq : IsUpdate(n.str)}}
    \cup {<<"hand", w, 0>> : w \in {v \in Worker : wpc[v] = "send" /\ IsUpdate(hand[v].str)}}
    \cup {x \in {"wire"} \X Worker \X Nat :
            /\ x[3] \in DOMAIN wire[x[2]]
            /\ wire[x[2]][x[3]].bar = 0 /\ IsUpdate(wire[x[2]][x[3]].str)}

\* updateValue is one step.
UpdatePlans ==
  \A u \in User : op[u] = "updateValue" => Tail(todo[u]) = <<>> /\ Head(todo[u]).do = "noreply"

\* No more updates are owed than were asked for and not applied.
UpdateInv ==
  /\ UpdatePlans
  /\ IsFiniteSet(Owed) /\ applied + Cardinality(Owed) <= asked

\* No more are owed when each of them was owed before.
LEMMA OwedStay ==
  ASSUME IsFiniteSet(Owed), Owed' \subseteq Owed
  PROVE  IsFiniteSet(Owed') /\ Cardinality(Owed') <= Cardinality(Owed)
BY FS_Subset

\* Nor when one takes the place of another.
LEMMA OwedMoves ==
  ASSUME IsFiniteSet(Owed), NEW x \in Owed, NEW y, Owed' \subseteq (Owed \ {x}) \cup {y}
  PROVE  IsFiniteSet(Owed') /\ Cardinality(Owed') <= Cardinality(Owed)
<1> DEFINE S == Owed \ {x}
           T == S \cup {y}
<1>1. IsFiniteSet(S) /\ Cardinality(S) = Cardinality(Owed) - 1
  BY FS_RemoveElement
<1>2. Cardinality(Owed) \in Nat /\ Cardinality(S) \in Nat
  BY <1>1, FS_CardinalityType
<1> HIDE DEF S
<1>3. IsFiniteSet(T) /\ Cardinality(T) \in {Cardinality(S), Cardinality(S) + 1}
  BY <1>1, FS_AddElement
<1>4. Owed' \in SUBSET T
  BY DEF S
<1> HIDE DEF T
<1>5. IsFiniteSet(Owed') /\ Cardinality(Owed') <= Cardinality(T)
  BY <1>3, <1>4, FS_Subset
<1>6. Cardinality(Owed') \in Nat
  BY <1>5, FS_CardinalityType
<1> QED
  BY <1>1, <1>2, <1>3, <1>5, <1>6

\* Where the updates are after a step that moves none.
LEMMA OwedSame ==
  ASSUME \A u \in User : op'[u] = "updateValue" => op[u] = "updateValue",
         \A m \in msgq' : m \in msgq \/ ~IsUpdate(m.str),
         \A w \in Worker : wpc'[w] = "send" => wpc[w] = "send" /\ hand'[w] = hand[w],
         \A w \in Worker : \A i \in DOMAIN wire'[w] :
           (i \in DOMAIN wire[w] /\ wire'[w][i] = wire[w][i]) \/ wire'[w][i].bar # 0
  PROVE  Owed' \subseteq Owed
<1> SUFFICES ASSUME NEW x \in Owed' PROVE x \in Owed
  OBVIOUS
<1>1. ASSUME NEW u \in User, op'[u] = "updateValue", x = <<"call", u, 0>> PROVE x \in Owed
  BY <1>1 DEF Owed
<1>2. ASSUME NEW m \in msgq', IsUpdate(m.str), x = <<"buffer", m, 0>> PROVE x \in Owed
  BY <1>2 DEF Owed
<1>3. ASSUME NEW w \in Worker, wpc'[w] = "send", IsUpdate(hand'[w].str), x = <<"hand", w, 0>>
      PROVE  x \in Owed
  BY <1>3 DEF Owed
<1>4. ASSUME x \in {"wire"} \X Worker \X Nat, x[3] \in DOMAIN wire'[x[2]],
             wire'[x[2]][x[3]].bar = 0, IsUpdate(wire'[x[2]][x[3]].str)
      PROVE  x \in Owed
  <2>1. x[2] \in Worker
    BY <1>4
  <2>2. x[3] \in DOMAIN wire[x[2]] /\ wire'[x[2]][x[3]] = wire[x[2]][x[3]]
    BY <1>4, <2>1
  <2> QED
    BY <1>4, <2>2 DEF Owed
<1> QED
  BY <1>1, <1>2, <1>3, <1>4 DEF Owed, IsUpdate

\* The sockets in P lose their first message: the updates that were first on
\* them are no longer owed, and the others move up.
LEMMA OwedShift ==
  ASSUME Inv, IsFiniteSet(Owed), UNCHANGED <<op, msgq, wpc, hand>>, NEW P,
         \A w \in Worker : IF w \in P THEN wire[w] # <<>> /\ wire'[w] = Tail(wire[w])
                                      ELSE wire'[w] = wire[w],
         NEW X, X \subseteq {<<"wire", w, 1>> : w \in P \cap Worker}
  PROVE  /\ IsFiniteSet(Owed')
         /\ Cardinality(Owed') <= Cardinality(Owed \ X)
<1> DEFINE g == [x \in Owed' |-> IF x[1] = "wire" /\ x[2] \in P THEN <<"wire", x[2], x[3] + 1>> ELSE x]
           T == Owed \ X
<1>1. \A w \in Worker : wire[w] \in Seq(C!Item)
  BY DEF Inv, C!CallInv, C!IInv, C!TypeOK, C!Thread
<1>2. ASSUME NEW x \in Owed' PROVE g[x] \in T
  <2>1. ASSUME NEW u \in User, op[u] = "updateValue", x = <<"call", u, 0>> PROVE g[x] \in T
    BY <2>1 DEF Owed
  <2>2. ASSUME NEW m \in msgq, IsUpdate(m.str), x = <<"buffer", m, 0>> PROVE g[x] \in T
    BY <2>2 DEF Owed
  <2>3. ASSUME NEW w \in Worker, wpc[w] = "send", IsUpdate(hand[w].str), x = <<"hand", w, 0>>
        PROVE  g[x] \in T
    BY <2>3 DEF Owed
  <2>4. ASSUME x \in {"wire"} \X Worker \X Nat, x[3] \in DOMAIN wire'[x[2]],
               wire'[x[2]][x[3]].bar = 0, IsUpdate(wire'[x[2]][x[3]].str)
        PROVE  g[x] \in T
    <3>1. PICK w \in Worker, i \in Nat : x = <<"wire", w, i>>
      BY <2>4
    <3>2. i \in DOMAIN wire'[w] /\ wire'[w][i].bar = 0 /\ IsUpdate(wire'[w][i].str)
      BY <2>4, <3>1
    <3>3. CASE w \in P
      <4>1. g[x] = <<"wire", w, i + 1>>
        BY <3>1, <3>3
      <4>2. wire[w] \in Seq(C!Item) /\ wire[w] # <<>> /\ wire'[w] = Tail(wire[w])
        BY <1>1, <3>3
      <4>3. i \in 1..(Len(wire[w]) - 1) /\ i + 1 \in DOMAIN wire[w] /\ wire[w][i + 1] = wire'[w][i]
        BY <3>2, <4>2
      <4>4. <<"wire", w, i + 1>> \in Owed
        BY <3>2, <4>3 DEF Owed
      <4>5. <<"wire", w, i + 1>> \notin X
        BY <4>3
      <4> QED
        BY <4>1, <4>4, <4>5
    <3>4. CASE w \notin P
      <4>1. g[x] = x /\ wire'[w] = wire[w]
        BY <3>1, <3>4
      <4>2. x \in Owed
        BY <3>1, <3>2, <4>1 DEF Owed
      <4>3. x \notin X
        BY <3>1, <3>4
      <4> QED
        BY <4>1, <4>2, <4>3
    <3> QED
      BY <3>3, <3>4
  <2> QED
    BY <2>1, <2>2, <2>3, <2>4 DEF Owed, IsUpdate
<1>3. ASSUME NEW x \in Owed', NEW y \in Owed', g[x] = g[y] PROVE x = y
  <2> DEFINE Moved(z) == z[1] = "wire" /\ z[2] \in P
  <2>1. ASSUME NEW z \in Owed', z[1] = "wire" PROVE z = <<"wire", z[2], z[3]>> /\ z[3] \in Nat
    BY <2>1 DEF Owed
  <2>2. CASE Moved(x) /\ Moved(y)
    BY <1>3, <2>1, <2>2
  <2>3. CASE ~Moved(x) /\ ~Moved(y)
    BY <1>3, <2>3
  <2>4. ASSUME NEW a \in Owed', NEW b \in Owed', Moved(a), ~Moved(b) PROVE g[a] # g[b]
    <3>1. g[a] = <<"wire", a[2], a[3] + 1>> /\ g[b] = b
      BY <2>4
    <3> QED
      BY <2>4, <3>1
  <2> QED
    BY <1>3, <2>2, <2>3, <2>4
<1>4. IsFiniteSet(T)
  BY FS_Subset
<1>5. g \in Injection(Owed', T)
  <2>1. g \in [Owed' -> T]
    BY <1>2
  <2> HIDE DEF g, T
  <2> QED
    BY <1>3, <2>1 DEF Injection, IsInjective
<1> HIDE DEF g, T
<1>6. IsFiniteSet(Owed') /\ Cardinality(Owed') <= Cardinality(T)
  BY <1>4, <1>5, FS_Injection
<1> QED
  BY <1>6 DEF T

\* The counts of updates are numbers.
LEMMA UpdateCounts ==
  ASSUME Inv, IsFiniteSet(Owed)
  PROVE  applied \in Nat /\ asked \in Nat /\ Cardinality(Owed) \in Nat
<1>1. applied \in Nat /\ asked \in Nat
  BY BoundAssumption DEF Inv, Kept, TypeOK
<1> QED
  BY <1>1, FS_CardinalityType

\* A step after which no more is owed.
LEMMA UpdatesStay ==
  ASSUME Inv, UpdateInv, UNCHANGED <<applied, asked>>, UpdatePlans',
         IsFiniteSet(Owed'), Cardinality(Owed') <= Cardinality(Owed)
  PROVE  UpdateInv'
<1>1. applied \in Nat /\ asked \in Nat /\ Cardinality(Owed) \in Nat
  BY UpdateCounts DEF UpdateInv
<1>2. Cardinality(Owed') \in Nat
  BY FS_CardinalityType
<1> QED
  BY <1>1, <1>2 DEF UpdateInv

\* A thread takes a step of its plan: the one of updateValue is its last.
LEMMA UpdateSteps ==
  ASSUME Inv, UpdateInv, NEW u \in User, UserStep(u)
  PROVE  /\ UpdatePlans' /\ UNCHANGED asked
         /\ op[u] = "updateValue" => DoNoreply(u) /\ op'[u] = "none"
         /\ \A v \in User : op'[v] = "updateValue" => op[v] = "updateValue"
<1>1. /\ op \in [User -> Names] /\ todo \in [User -> Seq(Step)]
  BY DEF Inv, Kept, Plans
<1>2. /\ \A v \in User \ {u} : op'[v] = op[v] /\ todo'[v] = todo[v]
      /\ op'[u] \in {op[u], "none"} /\ todo[u] # <<>>
  BY OthersStay
<1>3. ASSUME op[u] = "updateValue" PROVE DoNoreply(u) /\ op'[u] = "none"
  <2>1. Tail(todo[u]) = <<>> /\ Head(todo[u]).do = "noreply"
    BY <1>3 DEF UpdateInv, UpdatePlans
  <2>2. DoNoreply(u)
    BY <2>1 DEF UserStep, DoStore, DoEnqueue, DoProbe, ProbeReply, DoFlush,
      DoBarrier, CloseConnection, OpenConnection, At
  <2> QED
    BY <1>1, <2>1, <2>2 DEF DoNoreply, StepDone, Advance
<1>4. UNCHANGED asked
  BY DEF UserStep, DoNoreply, DoStore, DoEnqueue, DoProbe, ProbeReply, DoFlush,
    DoBarrier, CloseConnection, OpenConnection, StepDone, Advance, Wait, userVars
<1>5. UpdatePlans'
  BY <1>2, <1>3 DEF UpdateInv, UpdatePlans
<1> QED
  BY <1>2, <1>3, <1>4, <1>5

\* A message that is put in the buffer.
LEMMA OwedInserts ==
  ASSUME NEW c, NEW d, NEW nr, C!Insert(C!NewMsg(c, d, nr)),
         UNCHANGED <<wpc, hand, wire>>,
         \A v \in User : op'[v] = "updateValue" => op[v] = "updateValue"
  PROVE  /\ ~IsUpdate(c) => Owed' \subseteq Owed
         /\ \A u \in User : op[u] = "updateValue" /\ op'[u] # "updateValue" =>
              /\ <<"call", u, 0>> \in Owed
              /\ Owed' \subseteq (Owed \ {<<"call", u, 0>>})
                                   \cup {<<"buffer", C!NewMsg(c, d, nr), 0>>}
<1> DEFINE n == C!NewMsg(c, d, nr)
<1>1. n.str = c
  BY DEF C!NewMsg, C!Request
<1>2. msgq' = msgq \/ msgq' = msgq \cup {n}
  BY DEF C!Insert
<1> HIDE DEF n
<1>3. ~IsUpdate(c) => Owed' \subseteq Owed
  BY <1>1, <1>2, OwedSame
<1>4. ASSUME NEW u \in User, op[u] = "updateValue", op'[u] # "updateValue"
      PROVE  /\ <<"call", u, 0>> \in Owed
             /\ Owed' \subseteq (Owed \ {<<"call", u, 0>>}) \cup {<<"buffer", n, 0>>}
  <2>1. <<"call", u, 0>> \in Owed
    BY <1>4 DEF Owed
  <2>2. <<"call", u, 0>> \notin Owed'
    BY <1>4 DEF Owed
  <2>3. Owed' \subseteq Owed \cup {<<"buffer", n, 0>>}
    BY <1>2 DEF Owed
  <2> QED
    BY <2>1, <2>2, <2>3
<1> QED
  BY <1>3, <1>4 DEF n

\* Threads that take a step of their plan.
LEMMA UpdateUsers ==
  ASSUME Inv, UpdateInv, NEW u \in User, UserStep(u)
  PROVE  UpdateInv'
<1>1. /\ UpdatePlans' /\ UNCHANGED asked
      /\ op[u] = "updateValue" => DoNoreply(u) /\ op'[u] = "none"
      /\ \A v \in User : op'[v] = "updateValue" => op[v] = "updateValue"
  BY UpdateSteps
<1>2. UNCHANGED applied
  BY DEF UserStep, DoNoreply, DoStore, DoEnqueue, DoProbe, ProbeReply, DoFlush,
    DoBarrier, CloseConnection, OpenConnection, srvVars
<1>3. ASSUME Owed' \subseteq Owed PROVE UpdateInv'
  BY <1>1, <1>2, <1>3, OwedStay, UpdatesStay DEF UpdateInv
<1>4. Head(todo[u]) \in StepOf(op[u]) /\ todo[u] # <<>>
  <2>1. todo[u] # <<>>
    BY OthersStay
  <2>2. todo[u] \in Seq(StepOf(op[u]))
    BY DEF Inv, Kept, Plans
  <2> QED
    BY <2>1, <2>2
<1>5. CASE DoNoreply(u)
  <2> DEFINE c == Head(todo[u]).cmd
  <2>1. Head(todo[u]).do = "noreply" /\ (IsUpdate(c) <=> op[u] = "updateValue")
    BY <1>4, <1>5 DEF DoNoreply, At, StepOf
  <2>2. C!Insert(C!NewMsg(c, <<>>, TRUE)) /\ UNCHANGED <<wpc, hand, wire>>
    BY <1>5, SameInserts DEF DoNoreply, C!EnqueueNoreply, C!workVars, C!sockVars
  <2>3. CASE ~IsUpdate(c)
    BY <1>1, <1>3, <2>2, <2>3, OwedInserts
  <2>4. CASE IsUpdate(c)
    <3>1. op[u] = "updateValue" /\ op'[u] # "updateValue"
      BY <1>1, <2>1, <2>4
    <3> DEFINE x == <<"call", u, 0>>
               y == <<"buffer", C!NewMsg(c, <<>>, TRUE), 0>>
    <3>2. x \in Owed /\ Owed' \subseteq (Owed \ {x}) \cup {y}
      BY <1>1, <2>2, <3>1, OwedInserts
    <3> HIDE DEF x, y
    <3>3. IsFiniteSet(Owed') /\ Cardinality(Owed') <= Cardinality(Owed)
      BY <3>2, OwedMoves DEF UpdateInv
    <3> QED
      BY <1>1, <1>2, <3>3, UpdatesStay
  <2> QED
    BY <2>3, <2>4
<1>6. ASSUME NEW a \in Atom, DoStore(u, a) PROVE UpdateInv'
  <2>1. PICK c : ~IsUpdate(c) /\ Chan!EnqueueNoreply(u, c)
    <3>1. \A v : ~IsUpdate(<<"cog-set-values!", a, v>>) /\ ~IsUpdate(<<"cog-set-tv!", a>>)
      BY DEF IsUpdate
    <3> QED
      BY <1>6, <3>1 DEF DoStore
  <2>2. C!Insert(C!NewMsg(c, <<>>, TRUE)) /\ UNCHANGED <<wpc, hand, wire>>
    BY <2>1, SameInserts DEF C!EnqueueNoreply, C!workVars, C!sockVars
  <2> QED
    BY <1>1, <1>3, <2>1, <2>2, OwedInserts
<1>7. CASE DoEnqueue(u)
  <2> DEFINE c == Head(todo[u]).cmd
             d == Head(todo[u]).pkt
  <2>1. c \in Asks
    BY <1>4, <1>7 DEF DoEnqueue, At, StepOf, Step
  <2>2. ~IsUpdate(c)
    BY <2>1 DEF Asks, Silent, IsUpdate
  <2>3. C!Insert(C!NewMsg(c, d, FALSE)) /\ UNCHANGED <<wpc, hand, wire>>
    BY <1>7, SameInserts DEF DoEnqueue, C!Enqueue, C!workVars, C!sockVars
  <2> HIDE DEF c, d
  <2> QED
    BY <1>1, <1>3, <2>2, <2>3, OwedInserts
<1>8. ASSUME UNCHANGED <<msgq, wpc, hand>>, \A w \in Worker : wire'[w] = wire[w]
      PROVE  UpdateInv'
  <2>1. Owed' \subseteq Owed
    BY <1>1, <1>8, OwedSame
  <2> QED
    BY <1>3, <2>1
<1>9. CASE DoProbe(u)
  <2>1. C!SynchroSend(u, Head(todo[u]).cmd)
    BY <1>9, SameWaits DEF DoProbe
  <2>2. UNCHANGED <<msgq, wpc, hand>> /\ \E x : wire' = [wire EXCEPT ![u] = x]
    BY <2>1 DEF C!SynchroSend, C!DoSend, C!Sock, C!bufVars, C!workVars
  <2>3. \A w \in Worker : w # u /\ w \in C!Thread
    BY ThreadAssumption DEF C!Thread
  <2>4. wire \in [C!Thread -> Seq(C!Item)]
    BY DEF Inv, C!CallInv, C!IInv, C!TypeOK
  <2> QED
    BY <1>8, <2>2, <2>3, <2>4
<1>10. CASE ProbeReply(u) \/ DoFlush(u) \/ DoBarrier(u)
  <2>1. \/ C!SynchroRecv(u) \/ C!FlushBegin(u) \/ C!FlushEnd(u)
        \/ C!BarrierBegin(u) \/ C!BarrierEnd(u)
    BY <1>10, SameWaits DEF ProbeReply, DoFlush, DoBarrier
  <2>2. UNCHANGED <<msgq, wpc, hand, wire>>
    BY <2>1 DEF C!SynchroRecv, C!FlushBegin, C!FlushEnd, C!BarrierBegin, C!BarrierEnd,
      C!DoRecv, C!bufVars, C!workVars, C!sockVars
  <2> QED
    BY <1>8, <2>2
<1>11. CASE CloseConnection(u) \/ OpenConnection(u)
  BY <1>8, <1>11 DEF CloseConnection, OpenConnection, chanVars
<1> QED
  BY <1>5, <1>6, <1>7, <1>9, <1>10, <1>11 DEF UserStep

\* The updates on the sockets.
LEMMA OwedOn ==
  ASSUME NEW w \in Worker, NEW i \in Nat, i \in DOMAIN wire[w],
         wire[w][i].bar = 0, IsUpdate(wire[w][i].str)
  PROVE  <<"wire", w, i>> \in Owed
BY DEF Owed

\* The workers: one takes an update from the buffer, or sends the one it took.
LEMMA UpdateWorkers ==
  ASSUME Inv, UpdateInv, NEW w \in Worker,
         WorkerStep(w) \/ WorkerSendBlock(w) \/ \E m \in msgq : WorkerTake(w, m)
  PROVE  UpdateInv'
<1>1. UNCHANGED <<op, todo, asked, applied>>
  BY DEF WorkerStep, WorkerSend, WorkerRecv, DecodeValue, DecodeKvpList, DecodeAtom,
    CallbackEnds, WorkerSendBlock, WorkerTake, userVars, srvVars
<1>2. UpdatePlans'
  BY <1>1 DEF UpdateInv, UpdatePlans
<1>3. ASSUME Owed' \subseteq Owed PROVE UpdateInv'
  BY <1>1, <1>2, <1>3, OwedStay, UpdatesStay DEF UpdateInv
<1>4. ASSUME NEW x \in Owed, NEW y, Owed' \subseteq (Owed \ {x}) \cup {y} PROVE UpdateInv'
  BY <1>1, <1>2, <1>4, OwedMoves, UpdatesStay DEF UpdateInv
<1>5. /\ wpc \in [Worker -> {"idle", "send", "recv", "callback"}]
      /\ hand \in [Worker -> C!Msg \cup {NoMsg}]
      /\ wire \in [C!Thread -> Seq(C!Item)] /\ Worker \subseteq C!Thread
  BY DEF Inv, C!CallInv, C!IInv, C!TypeOK, C!Thread
<1>6. ASSUME NEW m \in msgq, WorkerTake(w, m) PROVE UpdateInv'
  <2>1. /\ msgq' = msgq \ {m} /\ wpc' = [wpc EXCEPT ![w] = "send"]
        /\ hand' = [hand EXCEPT ![w] = m] /\ wire' = wire
    BY <1>6, SameWorker DEF WorkerTake, C!WorkerTake, C!sockVars
  <2>2. CASE IsUpdate(m.str)
    <3> DEFINE x == <<"buffer", m, 0>>
               y == <<"hand", w, 0>>
    <3>1. x \in Owed
      BY <2>2 DEF Owed
    <3>2. ASSUME NEW z \in Owed' PROVE z \in (Owed \ {x}) \cup {y}
      <4>1. z # x
        BY <2>1 DEF Owed
      <4>2. \A v \in Worker \ {w} : wpc'[v] = wpc[v] /\ hand'[v] = hand[v]
        BY <1>5, <2>1
      <4>3. z \in Owed \cup {y}
        BY <1>1, <2>1, <4>2 DEF Owed
      <4> QED
        BY <4>1, <4>3
    <3> HIDE DEF x, y
    <3> QED
      BY <1>4, <3>1, <3>2
  <2>3. CASE ~IsUpdate(m.str)
    <3>1. \A v \in Worker : v = w \/ (wpc'[v] = wpc[v] /\ hand'[v] = hand[v])
      BY <1>5, <2>1
    <3>2. hand'[w] = m
      BY <1>5, <2>1
    <3>3. Owed' \subseteq Owed
      BY <1>1, <2>1, <2>3, <3>1, <3>2 DEF Owed
    <3> QED
      BY <1>3, <3>3
  <2> QED
    BY <2>2, <2>3
<1>7. CASE WorkerSend(w)
  <2>1. /\ msgq' = msgq /\ wire' = [wire EXCEPT ![w] = Append(@, hand[w])]
        /\ wpc[w] = "send" /\ \E x : x # "send" /\ wpc' = [wpc EXCEPT ![w] = x]
        /\ hand' = hand \/ hand' = [hand EXCEPT ![w] = NoMsg]
    BY <1>7, SameWorker DEF WorkerSend, C!WorkerSend, C!WorkerIdle, C!DoSend, C!Sock, C!bufVars
  <2>2. /\ wpc'[w] # "send" /\ \A v \in Worker \ {w} : /\ wpc'[v] = wpc[v] /\ hand'[v] = hand[v]
                                                      /\ wire'[v] = wire[v]
        /\ wire'[w] = Append(wire[w], hand[w]) /\ wire[w] \in Seq(C!Item)
    BY <1>5, <2>1
  <2>3. /\ DOMAIN wire'[w] = 1..(Len(wire[w]) + 1) /\ Len(wire[w]) \in Nat
        /\ \A i \in DOMAIN wire'[w] : i \in Nat /\
             \/ i = Len(wire[w]) + 1 /\ wire'[w][i] = hand[w]
             \/ i \in DOMAIN wire[w] /\ wire'[w][i] = wire[w][i]
    BY <2>2
  <2> DEFINE x == <<"hand", w, 0>>
             y == <<"wire", w, Len(wire[w]) + 1>>
  <2>4. ASSUME NEW z \in Owed' PROVE z \in Owed \/ (z = y /\ IsUpdate(hand[w].str))
    <3>1. CASE z[1] # "wire"
      <4>1. ASSUME NEW v \in Worker, wpc'[v] = "send", IsUpdate(hand'[v].str), z = <<"hand", v, 0>>
            PROVE  z \in Owed
        <5>1. v # w
          BY <2>2, <4>1
        <5> QED
          BY <2>2, <4>1, <5>1 DEF Owed
      <4>2. ASSUME NEW v \in User, op[v] = "updateValue", z = <<"call", v, 0>> PROVE z \in Owed
        BY <4>2 DEF Owed
      <4>3. ASSUME NEW m \in msgq, IsUpdate(m.str), z = <<"buffer", m, 0>> PROVE z \in Owed
        BY <4>3 DEF Owed
      <4> QED
        BY <1>1, <2>1, <3>1, <4>1, <4>2, <4>3 DEF Owed
    <3>2. CASE z[1] = "wire"
      <4>1. PICK v \in Worker, i \in Nat : z = <<"wire", v, i>>
        BY <3>2 DEF Owed
      <4>2. i \in DOMAIN wire'[v] /\ wire'[v][i].bar = 0 /\ IsUpdate(wire'[v][i].str)
        BY <4>1 DEF Owed
      <4>3. CASE v = w
        <5>1. CASE wire'[w][i] = hand[w] /\ i = Len(wire[w]) + 1
          BY <4>1, <4>2, <4>3, <5>1
        <5>2. CASE i \in DOMAIN wire[w] /\ wire'[w][i] = wire[w][i]
          BY <4>1, <4>2, <4>3, <5>2, OwedOn
        <5> QED
          BY <2>3, <4>2, <4>3, <5>1, <5>2
      <4>4. CASE v # w
        <5>1. wire'[v] = wire[v]
          BY <2>2, <4>4
        <5> QED
          BY <4>1, <4>2, <5>1, OwedOn
      <4> QED
        BY <4>3, <4>4
    <3> QED
      BY <3>1, <3>2
  <2>5. x \notin Owed'
    BY <2>2 DEF Owed
  <2>6. IsUpdate(hand[w].str) => x \in Owed
    BY <2>1 DEF Owed
  <2> HIDE DEF x, y
  <2>7. CASE IsUpdate(hand[w].str)
    BY <1>4, <2>4, <2>5, <2>6, <2>7
  <2>8. CASE ~IsUpdate(hand[w].str)
    BY <1>3, <2>4, <2>8
  <2> QED
    BY <2>7, <2>8
<1>8. CASE WorkerSendBlock(w)
  <2>1. /\ UNCHANGED <<msgq, wpc, hand>> /\ phase = "fence"
        /\ wire' = [wire EXCEPT ![w] = Append(@, C!Block(bstart))]
    BY <1>8, SameWorker DEF WorkerSendBlock, C!WorkerSendBlock, C!DoSend, C!Sock, C!bufVars,
      C!workVars
  <2>2. C!Block(bstart).bar # 0
    <3>1. bret \in Nat /\ bstart \in Nat /\ bret <= bstart /\ bstart # bret
      BY <2>1 DEF Inv, C!CallInv, C!IInv, C!TypeOK, C!Counters
    <3> QED
      BY <3>1 DEF C!Block
  <2>3. ASSUME NEW v \in Worker, NEW i \in DOMAIN wire'[v]
        PROVE  (i \in DOMAIN wire[v] /\ wire'[v][i] = wire[v][i]) \/ wire'[v][i].bar # 0
    <3>1. CASE v = w
      <4>1. wire'[w] = Append(wire[w], C!Block(bstart)) /\ wire[w] \in Seq(C!Item)
        BY <1>5, <2>1
      <4> QED
        BY <2>2, <2>3, <3>1, <4>1, SentItems
    <3>2. CASE v # w
      BY <1>5, <2>1, <2>3, <3>2
    <3> QED
      BY <3>1, <3>2
  <2>4. Owed' \subseteq Owed
    BY <1>1, <2>1, <2>3, OwedSame
  <2> QED
    BY <1>3, <2>4
<1>9. CASE WorkerRecv(w) \/ DecodeValue(w) \/ DecodeKvpList(w) \/ CallbackEnds(w)
  <2>1. C!WorkerRecv(w) \/ C!CallbackDone(w)
    BY <1>9, SameWorker DEF WorkerRecv, DecodeValue, DecodeKvpList, CallbackEnds
  <2>2. /\ UNCHANGED <<msgq, wire>>
        /\ hand' = hand \/ hand' = [hand EXCEPT ![w] = NoMsg]
        /\ \E x : x # "send" /\ wpc' = [wpc EXCEPT ![w] = x]
    BY <2>1 DEF C!WorkerRecv, C!CallbackDone, C!WorkerIdle, C!DoRecv, C!bufVars
  <2>3. \A v \in Worker : wpc'[v] = "send" => wpc[v] = "send" /\ hand'[v] = hand[v]
    BY <1>5, <2>2
  <2>4. Owed' \subseteq Owed
    BY <1>1, <2>2, <2>3, OwedSame
  <2> QED
    BY <1>3, <2>4
<1>10. ASSUME NEW a \in Atom, DecodeAtom(w, a) PROVE UpdateInv'
  <2> DEFINE d == <<hand[w].data[1], a>>
  <2>1. C!Insert(C!NewMsg(Keys(a), d, FALSE)) /\ UNCHANGED <<wpc, hand, wire>>
    BY <1>10, SameInserts DEF DecodeAtom, C!CallbackEnqueue, C!workVars, C!sockVars
  <2>2. ~IsUpdate(Keys(a))
    BY DEF IsUpdate, Keys
  <2> HIDE DEF d
  <2>3. Owed' \subseteq Owed
    BY <1>1, <2>1, <2>2, OwedInserts
  <2> QED
    BY <1>3, <2>3
<1> QED
  BY <1>6, <1>7, <1>8, <1>9, <1>10 DEF WorkerStep

\* The server: what it applies was first on a socket, and leaves it.
LEMMA UpdateServer ==
  ASSUME Inv, UpdateInv, ServerStep
  PROVE  UpdateInv'
<1>1. UNCHANGED <<op, todo, asked>>
  BY DEF ServerStep, ServerExec, ServerBarrier, userVars
<1>2. UpdatePlans'
  BY <1>1 DEF UpdateInv, UpdatePlans
<1>3. /\ wire \in [C!Thread -> Seq(C!Item)] /\ Worker \subseteq C!Thread
      /\ C!Thread = Worker \cup User
  BY DEF Inv, C!CallInv, C!IInv, C!TypeOK, C!Thread
<1>4. IsFiniteSet(Owed)
  BY DEF UpdateInv
<1>5. applied \in Nat /\ asked \in Nat /\ Cardinality(Owed) \in Nat
  BY <1>4, UpdateCounts
<1>6. ASSUME NEW k \in 1..bstart, ServerBarrier(k) PROVE UpdateInv'
  <2> DEFINE P == C!AtBarrier(k)
  <2>1. /\ UNCHANGED <<msgq, wpc, hand, applied>>
        /\ wire' = [t \in C!Thread |-> IF t \in P THEN Tail(wire[t]) ELSE wire[t]]
    BY <1>6, SameServer DEF ServerBarrier, C!ServerBarrier, C!bufVars, C!workVars, srvVars
  <2>2. \A w \in Worker : IF w \in P THEN wire[w] # <<>> /\ wire'[w] = Tail(wire[w])
                                     ELSE wire'[w] = wire[w]
    BY <1>3, <2>1 DEF C!AtBarrier
  <2> HIDE DEF P
  <2>3. IsFiniteSet(Owed') /\ Cardinality(Owed') <= Cardinality(Owed \ {})
    BY <1>1, <1>4, <2>1, <2>2, OwedShift
  <2>4. Owed \ {} = Owed
    OBVIOUS
  <2> QED
    BY <1>1, <1>2, <2>1, <2>3, <2>4, UpdatesStay
<1>7. ASSUME NEW t \in C!Thread, ServerExec(t) PROVE UpdateInv'
  <2> DEFINE c == Head(wire[t]).str
  <2>1. PICK r : C!ServerExec(t, r)
    BY <1>7, SameServer DEF ServerExec
  <2>2. /\ UNCHANGED <<msgq, wpc, hand>> /\ wire[t] # <<>> /\ Head(wire[t]).bar = 0
        /\ wire' = [wire EXCEPT ![t] = Tail(@)]
    BY <2>1 DEF C!ServerExec, C!bufVars, C!workVars
  <2>3. applied' = applied + (IF IsUpdate(c) THEN 1 ELSE 0)
    BY <1>7 DEF ServerExec, Apply, IsUpdate
  <2>4. \A w \in Worker : IF w \in {t} THEN wire[w] # <<>> /\ wire'[w] = Tail(wire[w])
                                       ELSE wire'[w] = wire[w]
    BY <1>3, <2>2
  <2>5. wire[t] \in Seq(C!Item) /\ Head(wire[t]) = wire[t][1] /\ 1 \in DOMAIN wire[t]
    BY <1>3, <2>2
  <2>6. CASE ~IsUpdate(c)
    <3>1. IsFiniteSet(Owed') /\ Cardinality(Owed') <= Cardinality(Owed \ {})
      BY <1>1, <1>4, <2>2, <2>4, OwedShift
    <3>2. Owed \ {} = Owed /\ applied' = applied
      BY <1>5, <2>3, <2>6
    <3> QED
      BY <1>1, <1>2, <3>1, <3>2, UpdatesStay
  <2>7. CASE IsUpdate(c)
    <3>1. t \in Worker
      BY <1>3, <2>5, <2>7 DEF Inv, Kept, Probes, IsUpdate
    <3> DEFINE x == <<"wire", t, 1>>
    <3>2. x \in Owed
      BY <2>2, <2>5, <2>7, <3>1 DEF Owed
    <3>3. {x} \subseteq {<<"wire", w, 1>> : w \in {t} \cap Worker}
      BY <3>1
    <3> HIDE DEF x
    <3>4. IsFiniteSet(Owed') /\ Cardinality(Owed') <= Cardinality(Owed \ {x})
      BY <1>1, <1>4, <2>2, <2>4, <3>3, OwedShift
    <3>5. Cardinality(Owed \ {x}) = Cardinality(Owed) - 1
      BY <1>4, <3>2, FS_RemoveElement
    <3>6. Cardinality(Owed') \in Nat
      BY <3>4, FS_CardinalityType
    <3>7. applied + Cardinality(Owed) <= asked
      BY DEF UpdateInv
    <3>8. applied' + Cardinality(Owed') <= asked'
      BY <1>1, <1>5, <2>3, <2>7, <3>4, <3>5, <3>6, <3>7
    <3> QED
      BY <1>2, <3>4, <3>8 DEF UpdateInv
  <2> QED
    BY <2>6, <2>7
<1> QED
  BY <1>6, <1>7, SameServer DEF ServerStep

\* A call: updateValue owes one update more.
LEMMA UpdateCalls ==
  ASSUME Inv, UpdateInv, NEW u \in User, Operation(u)
  PROVE  UpdateInv'
<1>1. PICK f \in Names \ {"none"} : Planned(u, f)
  BY OperationPlan
<1>2. PICK t \in Table, steps \in Seq(StepOf(f)) :
        /\ steps # <<>> /\ Call(u, f, t, steps)
        /\ f = "updateValue" => Tail(steps) = <<>> /\ Head(steps).do = "noreply"
  BY <1>1 DEF Planned
<1>3. op \in [User -> Names] /\ todo \in [User -> Seq(Step)]
  BY DEF Inv, Kept, Plans
<1>4. /\ op'[u] = f /\ todo'[u] = steps
      /\ \A v \in User \ {u} : op'[v] = op[v] /\ todo'[v] = todo[v]
      /\ asked' = asked + (IF f = "updateValue" THEN 1 ELSE 0)
      /\ UNCHANGED <<msgq, wpc, hand, wire, applied>>
  BY <1>2, <1>3 DEF Call, chanVars, srvVars
<1>5. UpdatePlans'
  BY <1>2, <1>4 DEF UpdateInv, UpdatePlans
<1>6. IsFiniteSet(Owed)
  BY DEF UpdateInv
<1>7. applied \in Nat /\ asked \in Nat /\ Cardinality(Owed) \in Nat
  BY <1>6, UpdateCounts
<1>8. CASE f # "updateValue"
  <2>1. Owed' \subseteq Owed
    BY <1>4, <1>8, OwedSame
  <2>2. IsFiniteSet(Owed') /\ Cardinality(Owed') <= Cardinality(Owed)
    BY <1>6, <2>1, OwedStay
  <2>3. asked' = asked
    BY <1>4, <1>7, <1>8
  <2> QED
    BY <1>4, <1>5, <2>2, <2>3, UpdatesStay
<1>9. CASE f = "updateValue"
  <2> DEFINE x == <<"call", u, 0>>
             T == Owed \cup {x}
  <2>1. Owed' \in SUBSET T
    <3>1. \A v \in User : op'[v] = "updateValue" => op[v] = "updateValue" \/ v = u
      BY <1>4
    <3> QED
      BY <1>4, <3>1 DEF Owed
  <2> HIDE DEF x
  <2>2. IsFiniteSet(T) /\ Cardinality(T) \in {Cardinality(Owed), Cardinality(Owed) + 1}
    BY <1>6, FS_AddElement
  <2> HIDE DEF T
  <2>3. IsFiniteSet(Owed') /\ Cardinality(Owed') <= Cardinality(T)
    BY <2>1, <2>2, FS_Subset
  <2>4. Cardinality(Owed') \in Nat
    BY <2>3, FS_CardinalityType
  <2>5. applied + Cardinality(Owed) <= asked
    BY DEF UpdateInv
  <2>6. applied' + Cardinality(Owed') <= asked'
    BY <1>4, <1>7, <1>9, <2>2, <2>3, <2>4, <2>5
  <2> QED
    BY <1>5, <2>3, <2>6 DEF UpdateInv
<1> QED
  BY <1>8, <1>9

\* Every step keeps UpdateInv.
LEMMA UpdateStep == Inv /\ UpdateInv /\ [Next]_vars => UpdateInv'
<1> SUFFICES ASSUME Inv, UpdateInv, [Next]_vars PROVE UpdateInv'
  OBVIOUS
<1>1. CASE BarrierDrained \/ UNCHANGED vars
  <2>1. UNCHANGED <<op, todo, asked, applied, msgq, wpc, hand, wire>>
    BY <1>1, SameWaits DEF BarrierDrained, C!BarrierDrained, C!bufVars, C!workVars, C!sockVars,
      vars, chanVars, userVars, srvVars
  <2>2. Owed' = Owed /\ UpdatePlans'
    BY <2>1 DEF Owed, UpdateInv, UpdatePlans
  <2> QED
    BY <2>1, <2>2 DEF UpdateInv
<1> QED
  BY <1>1, UpdateCalls, UpdateUsers, UpdateWorkers, UpdateServer DEF Next

\* No update is made up (CogIO.cc, updateValue; CogChannel.cc, reply_handler):
\* for any threads, Atoms and calls, the server applies no more updates than
\* were asked for.  Each is with one thread, once in the buffer, with one worker or
\* once on a socket, and the server that applies it takes it off that socket.
THEOREM NoUpdateTwiceHolds == Spec => []NoUpdateTwice
<1>1. ASSUME Init PROVE UpdateInv
  <2>1. UpdatePlans /\ applied = 0 /\ asked = 0
    BY <1>1 DEF Init, UpdatePlans
  <2>2. C!Init
    BY <1>1, SameServer DEF Init
  <2>3. Owed = {}
    BY <1>1, <2>2 DEF Init, C!Init, C!Thread, Owed
  <2> QED
    BY <2>1, <2>3, FS_EmptySet DEF UpdateInv
<1>2. ASSUME Inv, UpdateInv PROVE NoUpdateTwice
  <2>1. applied \in Nat /\ asked \in Nat /\ Cardinality(Owed) \in Nat
    BY <1>2, UpdateCounts DEF UpdateInv
  <2> QED
    BY <1>2, <2>1 DEF UpdateInv, NoUpdateTwice
<1> QED
  BY <1>1, <1>2, InitInv, InvStep, UpdateStep, PTL DEF Spec

-----------------------------------------------------------------------------
(***************************************************************************)
(* loadAtomSpace.                                                          *)
(*                                                                         *)
(* When a load that counts begins, nothing is in the buffer, and what is   *)
(* still on the sockets was made before a barrier that has returned.  The  *)
(* messages made since are reads (Cut), and when the server runs the first *)
(* of them, the others have all been run (Still): from then on what the    *)
(* server holds does not change, and every reply says what it holds        *)
(* (Currents).  An Atom that it holds is brought by the list that was      *)
(* asked for, then by the callback that decodes that list, then by the     *)
(* request for its keys, until it and its Value are in the table.          *)
(*                                                                         *)
(* All this takes one table: with two, the buffer may drop the request for *)
(* one of them as a duplicate of the request for the other.                *)
(***************************************************************************)
OneTable == \A s, t \in Table : s = t

\* What is left of loadAtomSpace.
L4 == LoadSteps(AnyTable)
L3 == Flush \o Ask(Get("Link"), <<AnyTable>>) \o Barrier
L2 == Ask(Get("Link"), <<AnyTable>>) \o Barrier
L1 == Barrier

\* A load that counts, and a result that counts.
Counts(u) == op[u] = "loadAtomSpace" /\ clean[u] # {}
Vouched == fresh # {} \/ \E u \in User : Counts(u)

\* Only reads are yet to be run.
Still == C!OnlyLeft(Reading)

\* What is in the buffer, and what is on the sockets but was made before
\* barrier k ended.
Cut(k) ==
  /\ \A m \in C!Buffered : m.str \in Reading /\ m.lo >= k
  /\ \A m \in C!Pending : m.hi < k \/ (m.str \in Reading /\ m.lo >= k)

\* A reply that says what the server holds.
Current(r) ==
  /\ r.to[1] \in {"cog-value", "cog-keys->alist"} => r.val[2] = val[r.to[2]]
  /\ \A y \in {"Node", "Link"} : r.to = Get(y) => r.val[2] = known \cap OfType(y)

Currents ==
  \A w \in Worker : /\ back[w] # <<>> => Still /\ Current(Head(back[w]))
                    /\ wpc[w] = "callback" => Still /\ Current(got[w])

\* The table has Atom a as the server has it.
Done(a) ==
  a \in known => /\ a \in have[AnyTable]
                 /\ val[a] # 0 => lval[AnyTable][a] = val[a]

\* Command c was not run.
Unrun(c) ==
  \/ \E m \in msgq : m.str = c
  \/ \E w \in Worker : /\ hand[w].str = c
                       /\ wpc[w] = "send" \/ (wpc[w] = "recv" /\ back[w] = <<>>)

\* Atom a, of type y, is on its way to the table, or there.
Brought(y, a) ==
  \/ \E w \in Worker : wpc[w] = "recv" /\ hand[w].str = Get(y)
  \/ \E w \in Worker : wpc[w] = "callback" /\ hand[w].str \in Lists /\ a \in rest[w]
  \/ a \in have[AnyTable] /\ \E m \in C!Buffered : m.str = Keys(a)
  \/ Done(a)

Listing(y) == Unrun(Get(y)) \/ (Still /\ \A a \in OfType(y) : Brought(y, a))

AllDone == Still /\ \A a \in Atom : Done(a)

\* How far the load of thread u is.
Loading(u) ==
  /\ todo[u] \in {L4, L3, L2, L1}
  /\ todo[u] # L4 => Listing("Node")
  /\ todo[u] = L1 => Listing("Link")
  /\ upc[u] = "barrier" /\ phase = "fence" => AllDone

LoadInv ==
  Vouched =>
    /\ \A u \in User : op[u] \notin Writes
    /\ \E k \in 0..bret : Cut(k)
    /\ Currents
    /\ \A u \in User : Counts(u) => Loading(u)
    /\ fresh # {} => AllDone

\* A load goes on: what is made is read, and what is on its way arrives.
Onward(k) ==
  /\ Cut(k)' /\ Currents'
  /\ \A y \in {"Node", "Link"} : Listing(y) => Listing(y)'
  /\ AllDone => AllDone'

\* What a worker holds, and the reply that it is given.
LEMMA WorkerHolds ==
  ASSUME Inv, NEW w \in Worker
  PROVE  /\ wpc[w] \in {"idle", "send", "recv", "callback"}
         /\ wpc[w] # "idle" => /\ hand[w] \in C!Buffered /\ hand[w] \in C!Msg
                               /\ hand[w].str \in Command
                               /\ Fits(hand[w].str, hand[w].data)
                               /\ hand[w].noreply <=> hand[w].str \notin Asks
         /\ wpc[w] # "recv" => back[w] = <<>>
         /\ wpc[w] = "recv" /\ back[w] # <<>> =>
              Head(back[w]).to = hand[w].str /\ Tail(back[w]) = <<>>
         /\ wpc[w] = "callback" => got[w].to = hand[w].str
<1>1. /\ wpc[w] \in {"idle", "send", "recv", "callback"}
      /\ wpc[w] # "idle" => /\ hand[w] \in C!Buffered /\ hand[w] \in C!Msg
                            /\ hand[w].str \in Command
  BY DEF Inv, C!CallInv, C!IInv, C!TypeOK, C!Buffered, C!Msg
<1>2. wpc[w] # "idle" => /\ Fits(hand[w].str, hand[w].data)
                         /\ hand[w].noreply <=> hand[w].str \notin Asks
  BY DEF Inv, Kept, Packets, C!CallInv, C!ReplyInv, C!Labels, C!WaitsRightly, Asks
<1>3. wpc[w] # "recv" => back[w] = <<>>
  BY DEF Inv, C!CallInv, C!ReplyInv, C!Conversation
<1>4. wpc[w] = "callback" => got[w].to = hand[w].str
  BY DEF Inv, C!CallInv, C!ReplyInv, C!ReplyMatches
<1>5. ASSUME wpc[w] = "recv", back[w] # <<>>
      PROVE  Head(back[w]).to = hand[w].str /\ Tail(back[w]) = <<>>
  <2> DEFINE x == [to |-> hand[w].str, val |-> back[w][1].val]
  <2>1. C!Waiting(w)
    BY <1>5 DEF Inv, C!CallInv, C!ReplyInv, C!Conversation
  <2>2. back[w] = <<x>> /\ x.to = hand[w].str
    BY <1>5, <2>1 DEF C!Waiting
  <2> HIDE DEF x
  <2>3. Head(<<x>>) = x /\ Tail(<<x>>) = <<>>
    OBVIOUS
  <2> QED
    BY <2>2, <2>3
<1> QED
  BY <1>1, <1>2, <1>3, <1>4, <1>5

\* What is to be shown of a step.
LEMMA OnwardIf ==
  ASSUME NEW k, Cut(k)', Currents', Still => Still',
         \A y \in {"Node", "Link"} : Unrun(Get(y)) =>
           Unrun(Get(y))' \/ (Still' /\ \A a \in OfType(y) : Brought(y, a)'),
         Still => \A y \in {"Node", "Link"} : \A a \in OfType(y) : Brought(y, a) => Brought(y, a)',
         Still => \A a \in Atom : Done(a) => Done(a)'
  PROVE  Onward(k)
<1>1. AllDone => AllDone'
  BY DEF AllDone
<1>2. ASSUME NEW y \in {"Node", "Link"}, Listing(y) PROVE Listing(y)'
  <2>1. CASE Unrun(Get(y))
    BY <2>1 DEF Listing, OfType
  <2>2. CASE Still /\ \A a \in OfType(y) : Brought(y, a)
    <3>1. \A a \in OfType(y) : Brought(y, a)'
      BY <2>2
    <3> QED
      BY <2>2, <3>1 DEF Listing, OfType
  <2> QED
    BY <1>2, <2>1, <2>2 DEF Listing
<1> QED
  BY <1>1, <1>2 DEF Onward

\* Steps that make no message and run none.
LEMMA MoveCut ==
  ASSUME Inv, C!Moves, NEW k, Cut(k)
  PROVE  Cut(k)' /\ (Still' <=> Still)
<1>1. C!Pending' = C!Pending /\ C!Buffered' \subseteq C!Buffered
  BY ChannelAssumptions, C!MoveLive DEF Inv, C!CallInv
<1>2. Cut(k)'
  BY <1>1 DEF Cut, Reading
<1>3. Still' <=> Still
  BY <1>1 DEF Still, C!OnlyLeft, Reading
<1> QED
  BY <1>2, <1>3

\* Steps that leave the messages, the replies and the Atoms alone.
LEMMA OtherOnward ==
  ASSUME NEW k, Cut(k), Currents,
         UNCHANGED <<msgq, wpc, hand, known, val, have, lval, rest>>,
         \A w \in Worker : back'[w] = back[w] /\ got'[w] = got[w],
         C!Pending' = C!Pending
  PROVE  Onward(k)
<1>1. C!Buffered' = C!Buffered
  BY DEF C!Buffered
<1>2. Cut(k)' /\ (Still' <=> Still)
  BY <1>1 DEF Cut, Still, C!OnlyLeft, Reading
<1>3. Currents'
  BY <1>2 DEF Currents, Current, Get, OfType
<1>4. \A c : Unrun(c) => Unrun(c)'
  BY DEF Unrun
<1>5. \A a : Done(a) => Done(a)'
  BY DEF Done, AnyTable
<1>6. \A y, a : Brought(y, a) => Brought(y, a)'
  BY <1>1, <1>5 DEF Brought, AnyTable, Get, Keys
<1> QED
  BY <1>2, <1>3, <1>4, <1>5, <1>6, OnwardIf

\* A read is put in the buffer.
LEMMA InsertOnward ==
  ASSUME Inv, NEW k \in 0..bret, Cut(k), Currents,
         NEW c \in Reading, NEW d, C!Insert(C!NewMsg(c, d, FALSE)),
         UNCHANGED <<wpc, hand, wire, back, got, known, val, have, lval, rest>>
  PROVE  Onward(k) /\ Unrun(c)'
<1> DEFINE n == C!NewMsg(c, d, FALSE)
<1>1. n.str = c /\ n.lo = bret
  BY DEF C!NewMsg, C!Request
<1>2. bret \in Nat /\ k \in Nat /\ k <= bret
  BY DEF Inv, C!CallInv, C!IInv, C!TypeOK
<1>3. /\ \A m \in C!Pending' : m \in C!Pending \/ m = n
      /\ \A m \in C!Buffered' : m \in C!Buffered \/ m = n
      /\ msgq \subseteq msgq' /\ C!Buffered \subseteq C!Buffered'
      /\ \E m \in msgq' : m.str = c
  BY ChannelAssumptions, C!InsertLive DEF C!workVars
<1> HIDE DEF n
<1>4. Cut(k)'
  BY <1>1, <1>2, <1>3 DEF Cut, Reading
<1>5. Still => Still'
  BY <1>1, <1>3 DEF Still, C!OnlyLeft, Reading
<1>6. Currents'
  BY <1>5 DEF Currents, Current, Get, OfType
<1>7. \A x : Unrun(x) => Unrun(x)'
  BY <1>3 DEF Unrun
<1>8. \A a : Done(a) => Done(a)'
  BY DEF Done, AnyTable
<1>9. \A y, a : Brought(y, a) => Brought(y, a)'
  BY <1>3, <1>8 DEF Brought, AnyTable, Get, Keys
<1>10. Unrun(c)'
  BY <1>3 DEF Unrun
<1> QED
  BY <1>4, <1>5, <1>6, <1>7, <1>8, <1>9, <1>10, OnwardIf

\* A worker takes a message from the buffer.
LEMMA TakeOnward ==
  ASSUME Inv, NEW k, Cut(k), Currents, NEW w \in Worker, NEW m \in msgq, WorkerTake(w, m)
  PROVE  Onward(k)
<1>1. C!WorkerTake(w, m) /\ UNCHANGED <<known, val, have, lval, rest>>
  BY SameWorker DEF WorkerTake, srvVars, locVars
<1>2. Cut(k)' /\ (Still' <=> Still)
  BY <1>1, MoveCut DEF C!Moves
<1>3. /\ wpc[w] = "idle" /\ wpc'[w] = "send" /\ hand'[w] = m /\ msgq' = msgq \ {m}
      /\ \A v \in Worker \ {w} : wpc'[v] = wpc[v] /\ hand'[v] = hand[v]
      /\ UNCHANGED <<back, got>>
  BY <1>1 DEF C!WorkerTake, C!sockVars, Inv, C!CallInv, C!IInv, C!TypeOK
<1>4. C!Buffered \subseteq C!Buffered'
  BY <1>3 DEF C!Buffered
<1>5. Currents'
  BY <1>1, <1>2, <1>3 DEF Currents, Current, Get, OfType
<1>6. \A c : Unrun(c) => Unrun(c)'
  BY <1>3 DEF Unrun
<1>7. \A a : Done(a) => Done(a)'
  BY <1>1 DEF Done, AnyTable
<1>8. \A y, a : Brought(y, a) => Brought(y, a)'
  BY <1>1, <1>3, <1>4, <1>7 DEF Brought, AnyTable, Get, Keys
<1> QED
  BY <1>2, <1>5, <1>6, <1>7, <1>8, OnwardIf

\* A worker sends its message, which is a question.
LEMMA SendOnward ==
  ASSUME Inv, NEW k, Cut(k), Currents, NEW w \in Worker, WorkerSend(w)
  PROVE  Onward(k)
<1>1. C!WorkerSend(w) /\ UNCHANGED <<known, val, have, lval, rest>>
  BY SameWorker DEF WorkerSend, srvVars, locVars
<1>2. Cut(k)' /\ (Still' <=> Still)
  BY <1>1, MoveCut DEF C!Moves
<1>3. wpc[w] = "send" /\ ~hand[w].noreply /\ back[w] = <<>>
  <2>1. wpc[w] = "send"
    BY <1>1 DEF C!WorkerSend
  <2>2. hand[w] \in C!Buffered /\ (hand[w].noreply <=> hand[w].str \notin Asks) /\ back[w] = <<>>
    BY <2>1, WorkerHolds
  <2> QED
    BY <2>1, <2>2 DEF Cut, Reading
<1>4. /\ wpc'[w] = "recv" /\ UNCHANGED <<hand, msgq, back, got>>
      /\ \A v \in Worker \ {w} : wpc'[v] = wpc[v]
  BY <1>1, <1>3 DEF C!WorkerSend, C!DoSend, C!bufVars, Inv, C!CallInv, C!IInv, C!TypeOK
<1>5. C!Buffered \subseteq C!Buffered'
  BY <1>3, <1>4 DEF C!Buffered
<1>6. Currents'
  BY <1>1, <1>2, <1>4 DEF Currents, Current, Get, OfType
<1>7. \A c : Unrun(c) => Unrun(c)'
  BY <1>3, <1>4 DEF Unrun
<1>8. \A a : Done(a) => Done(a)'
  BY <1>1 DEF Done, AnyTable
<1>9. \A y, a : Brought(y, a) => Brought(y, a)'
  BY <1>1, <1>3, <1>4, <1>5, <1>8 DEF Brought, AnyTable, Get, Keys
<1> QED
  BY <1>2, <1>6, <1>7, <1>8, <1>9, OnwardIf

\* A worker is given a reply; that to a list is for decode_atom_list.
LEMMA RecvOnward ==
  ASSUME Inv, NEW k, Cut(k), Currents, NEW w \in Worker, WorkerRecv(w)
  PROVE  Onward(k)
<1> DEFINE r == Head(back[w])
<1>1. C!WorkerRecv(w) /\ UNCHANGED <<known, val, have, lval>>
  BY SameWorker DEF WorkerRecv, srvVars
<1>2. Cut(k)' /\ (Still' <=> Still)
  BY <1>1, MoveCut DEF C!Moves
<1>3. /\ wpc[w] = "recv" /\ back[w] # <<>> /\ wpc'[w] = "callback"
      /\ got'[w] = r /\ back'[w] = Tail(back[w]) /\ UNCHANGED <<hand, msgq>>
      /\ \A v \in Worker \ {w} : wpc'[v] = wpc[v] /\ back'[v] = back[v] /\ got'[v] = got[v]
  BY <1>1 DEF C!WorkerRecv, C!DoRecv, C!Sock, C!bufVars, C!Thread, Inv, C!CallInv, C!IInv, C!TypeOK
<1>4. r.to = hand[w].str /\ back'[w] = <<>>
  BY <1>3, WorkerHolds
<1>5. Still /\ Current(r)
  BY <1>3 DEF Currents
<1> HIDE DEF r
<1>6. C!Buffered \subseteq C!Buffered'
  BY <1>3 DEF C!Buffered
<1>7. Currents'
  BY <1>1, <1>2, <1>3, <1>4, <1>5 DEF Currents, Current, Get, OfType
<1>8. \A c : Unrun(c) => Unrun(c)'
  BY <1>3 DEF Unrun
<1>9. \A a : Done(a) => Done(a)'
  BY <1>1 DEF Done, AnyTable
<1>10. /\ \A v \in Worker \ {w} : rest'[v] = rest[v]
       /\ hand[w].str \in Lists => rest'[w] = r.val[2]
  BY <1>3 DEF WorkerRecv, Inv, Kept, TypeOK
<1>11. ASSUME NEW y \in {"Node", "Link"}, NEW a \in OfType(y), Brought(y, a) PROVE Brought(y, a)'
  <2>1. CASE hand[w].str = Get(y)
    <3>1. Get(y) \in Lists
      BY CommandForms DEF Get, GetNames, Lists
    <3>2. rest'[w] = known \cap OfType(y)
      BY <1>4, <1>5, <1>10, <2>1, <3>1 DEF Current
    <3>3. a \in known => Brought(y, a)'
      BY <1>3, <2>1, <3>1, <3>2 DEF Brought
    <3>4. a \notin known => Brought(y, a)'
      BY <1>1 DEF Brought, Done
    <3> QED
      BY <3>3, <3>4
  <2>2. CASE hand[w].str # Get(y)
    <3>1. CASE \E v \in Worker : wpc[v] = "recv" /\ hand[v].str = Get(y)
      BY <1>3, <2>2, <3>1 DEF Brought, Get
    <3>2. CASE \E v \in Worker : wpc[v] = "callback" /\ hand[v].str \in Lists /\ a \in rest[v]
      BY <1>3, <1>10, <3>2 DEF Brought
    <3>3. CASE a \in have[AnyTable] /\ \E m \in C!Buffered : m.str = Keys(a)
      BY <1>1, <1>6, <3>3 DEF Brought, AnyTable, Keys
    <3>4. CASE Done(a)
      BY <1>9, <3>4 DEF Brought
    <3> QED
      BY <1>11, <3>1, <3>2, <3>3, <3>4 DEF Brought
  <2> QED
    BY <2>1, <2>2
<1> QED
  BY <1>2, <1>7, <1>8, <1>9, <1>11, OnwardIf

\* A callback ends; those of cog-value and of cog-keys->alist leave the Atom
\* as the server has it.
LEMMA CallbackOnward ==
  ASSUME Inv, OneTable, NEW k, Cut(k), Currents, NEW w \in Worker,
         DecodeValue(w) \/ DecodeKvpList(w) \/ CallbackEnds(w)
  PROVE  Onward(k)
<1> DEFINE c == hand[w].str
           d == hand[w].data
           x == got[w].val[2]
<1>1. C!CallbackDone(w) /\ UNCHANGED <<known, val, have, rest>>
  BY SameWorker DEF DecodeValue, DecodeKvpList, CallbackEnds, srvVars, locVars
<1>2. Cut(k)' /\ (Still' <=> Still)
  BY <1>1, MoveCut DEF C!Moves
<1>3. /\ wpc[w] = "callback" /\ wpc'[w] = "idle" /\ UNCHANGED <<msgq, back>>
      /\ \A v \in Worker \ {w} : wpc'[v] = wpc[v] /\ hand'[v] = hand[v] /\ got'[v] = got[v]
  BY <1>1 DEF C!CallbackDone, C!WorkerIdle, C!bufVars, C!Thread, Inv, C!CallInv, C!IInv, C!TypeOK
<1>4. hand[w] \in C!Buffered /\ c \in Reading /\ got[w].to = c /\ Fits(c, d)
  BY <1>3, WorkerHolds DEF Cut
<1>5. Still /\ Current(got[w])
  BY <1>3 DEF Currents
<1>6. c[1] # "cog-execute-cache!"
  BY <1>4 DEF Reading
<1>7. lval \in [Table -> [Atom -> Val]] /\ AnyTable \in Table
  BY AtomAssumption DEF AnyTable, Inv, Kept, TypeOK
<1>8. CASE c[1] \in {"cog-value", "cog-keys->alist"}
  <2>0. d \in Table \X Atom /\ d[2] = c[2] /\ d[2] \in have[d[1]] /\ d[1] = AnyTable
    BY <1>4, <1>7, <1>8 DEF Fits, ValueNames, OneTable
  <2>1. PICK b \in Atom : b = c[2] /\ b = d[2] /\ b \in have[AnyTable] /\ d[1] = AnyTable
    BY <2>0
  <2>2. x = val[b]
    BY <1>4, <1>5, <1>8, <2>1 DEF Current
  <2>3. \/ lval' = lval /\ val[b] = 0
        \/ lval' = [lval EXCEPT ![AnyTable][b] = val[b]]
    BY <1>8, <2>1, <2>2 DEF DecodeValue, DecodeKvpList, CallbackEnds, SetLocal
  <2>4. /\ \A a \in Atom \ {b} : lval'[AnyTable][a] = lval[AnyTable][a]
        /\ val[b] # 0 => lval'[AnyTable][b] = val[b]
    BY <1>7, <2>1, <2>3
  <2> HIDE DEF c, d, x
  <2>5. Done(b)'
    BY <1>1, <2>1, <2>4 DEF Done, AnyTable
  <2>6. \A a \in Atom : Done(a) => Done(a)'
    <3>1. ASSUME NEW a \in Atom \ {b}, Done(a) PROVE Done(a)'
      BY <1>1, <2>4, <3>1 DEF Done, AnyTable
    <3> QED
      BY <2>5, <3>1
  <2>7. c \notin Lists
    BY <1>8 DEF Lists
  <2>8. ASSUME NEW y \in {"Node", "Link"}, NEW a \in OfType(y), Brought(y, a) PROVE Brought(y, a)'
    <3>1. CASE \E v \in Worker : wpc[v] = "recv" /\ hand[v].str = Get(y)
      BY <1>3, <3>1 DEF Brought, Get
    <3>2. CASE \E v \in Worker : wpc[v] = "callback" /\ hand[v].str \in Lists /\ a \in rest[v]
      BY <1>1, <1>3, <2>7, <3>2 DEF Brought, c
    <3>3. ASSUME a \in have[AnyTable], NEW m \in C!Buffered, m.str = Keys(a)
          PROVE  Brought(y, a)'
      <4>1. CASE m \in C!Buffered'
        BY <1>1, <3>3, <4>1 DEF Brought, AnyTable, Keys
      <4>2. CASE m \notin C!Buffered'
        <5>1. m = hand[w]
          BY <1>3, <4>2 DEF C!Buffered
        <5>2. c = Keys(a) /\ Keys(a)[2] = a
          BY <3>3, <5>1 DEF c, Keys
        <5>3. a = b
          BY <2>1, <5>2
        <5> QED
          BY <2>5, <5>3 DEF Brought
      <4> QED
        BY <4>1, <4>2
    <3>4. CASE Done(a)
      BY <2>6, <3>4 DEF Brought, OfType, Atom
    <3> QED
      BY <2>8, <3>1, <3>2, <3>3, <3>4 DEF Brought
  <2>9. Currents'
    BY <1>1, <1>2, <1>3 DEF Currents, Current, Get, OfType
  <2>10. \A z : Unrun(z) => Unrun(z)'
    BY <1>3 DEF Unrun
  <2> QED
    BY <1>2, <2>6, <2>8, <2>9, <2>10, OnwardIf
<1>9. CASE c[1] \notin {"cog-value", "cog-keys->alist"}
  <2>1. lval' = lval /\ rest[w] = {}
    BY <1>6, <1>9 DEF DecodeValue, DecodeKvpList, CallbackEnds, locVars
  <2>2. \A a \in Atom : Done(a) => Done(a)'
    BY <1>1, <2>1 DEF Done, AnyTable
  <2>3. ASSUME NEW y \in {"Node", "Link"}, NEW a \in OfType(y), Brought(y, a) PROVE Brought(y, a)'
    <3>1. CASE \E v \in Worker : wpc[v] = "recv" /\ hand[v].str = Get(y)
      BY <1>3, <3>1 DEF Brought, Get
    <3>2. CASE \E v \in Worker : wpc[v] = "callback" /\ hand[v].str \in Lists /\ a \in rest[v]
      BY <1>1, <1>3, <2>1, <3>2 DEF Brought
    <3>3. ASSUME a \in have[AnyTable], NEW m \in C!Buffered, m.str = Keys(a)
          PROVE  Brought(y, a)'
      <4>1. m # hand[w]
        BY <1>9, <3>3 DEF Keys
      <4>2. m \in C!Buffered'
        BY <1>3, <4>1 DEF C!Buffered
      <4> QED
        BY <1>1, <3>3, <4>2 DEF Brought, AnyTable, Keys
    <3>4. CASE Done(a)
      BY <2>2, <3>4 DEF Brought, OfType, Atom
    <3> QED
      BY <2>3, <3>1, <3>2, <3>3, <3>4 DEF Brought
  <2>4. Currents'
    BY <1>1, <1>2, <1>3 DEF Currents, Current, Get, OfType
  <2>5. \A z : Unrun(z) => Unrun(z)'
    BY <1>3 DEF Unrun
  <2> QED
    BY <1>2, <2>2, <2>3, <2>4, <2>5, OnwardIf
<1> QED
  BY <1>8, <1>9

\* decode_atom_list adds the next Atom to the table and asks for its keys.
LEMMA DecodeAtomOnward ==
  ASSUME Inv, OneTable, NEW k \in 0..bret, Cut(k), Currents, NEW w \in Worker,
         NEW b \in Atom, DecodeAtom(w, b)
  PROVE  Onward(k)
<1>1. /\ wpc[w] = "callback" /\ hand[w].str \in Lists
      /\ rest' = [rest EXCEPT ![w] = @ \ {b}] /\ UNCHANGED <<known, val, lval>>
  BY DEF DecodeAtom, Chan!CallbackEnqueue, srvVars
<1>2. hand[w].data[1] = AnyTable /\ AnyTable \in Table
  <2>1. AnyTable \in Table
    BY AtomAssumption DEF AnyTable
  <2>2. hand[w].str[1] \in ListNames /\ Fits(hand[w].str, hand[w].data)
    BY <1>1, WorkerHolds DEF Lists, ListNames
  <2>3. PICK t \in Table : hand[w].data = <<t>>
    BY <2>2 DEF Fits
  <2>4. hand[w].data[1] = t
    BY <2>3
  <2> QED
    BY <2>1, <2>4 DEF OneTable
<1> DEFINE d == <<AnyTable, b>>
           n == C!NewMsg(Keys(b), d, FALSE)
<1>3. /\ C!Insert(n) /\ UNCHANGED <<wpc, hand, wire, back, got>>
      /\ have' = [have EXCEPT ![AnyTable] = @ \cup WithOutgoing(b)]
  <2>1. /\ C!CallbackEnqueue(w, Keys(b), d)
        /\ have' = [have EXCEPT ![AnyTable] = @ \cup WithOutgoing(b)]
    BY <1>2, SameInserts DEF DecodeAtom
  <2> QED
    BY <2>1 DEF C!CallbackEnqueue, C!workVars, C!sockVars
<1>4. n.str = Keys(b) /\ n.lo = bret /\ Keys(b) \in Reading
  <2>1. Keys(b) \in Reading
    BY KeysRead DEF KeysOnly
  <2> QED
    BY <2>1 DEF C!NewMsg, C!Request
<1>5. bret \in Nat /\ k \in Nat /\ k <= bret
  BY DEF Inv, C!CallInv, C!IInv, C!TypeOK
<1>6. /\ \A m \in C!Pending' : m \in C!Pending \/ m = n
      /\ \A m \in C!Buffered' : m \in C!Buffered \/ m = n
      /\ msgq \subseteq msgq' /\ C!Buffered \subseteq C!Buffered'
      /\ \E m \in msgq' : m.str = Keys(b)
  BY <1>3, ChannelAssumptions, C!InsertLive DEF C!workVars
<1> HIDE DEF n, d
<1>7. Cut(k)'
  BY <1>4, <1>5, <1>6 DEF Cut, Reading
<1>8. Still => Still'
  BY <1>4, <1>6 DEF Still, C!OnlyLeft, Reading
<1>9. Currents'
  BY <1>1, <1>3, <1>8 DEF Currents, Current, Get, OfType
<1>10. \A x : Unrun(x) => Unrun(x)'
  BY <1>3, <1>6 DEF Unrun
<1>11. have[AnyTable] \subseteq have'[AnyTable] /\ b \in have'[AnyTable]
  BY <1>2, <1>3 DEF WithOutgoing, Inv, Kept, TypeOK
<1>12. \A a \in Atom : Done(a) => Done(a)'
  BY <1>1, <1>11 DEF Done, AnyTable
<1>13. /\ rest'[w] = rest[w] \ {b}
       /\ \A v \in Worker \ {w} : rest'[v] = rest[v]
  BY <1>1 DEF Inv, Kept, TypeOK
<1>14. ASSUME NEW y \in {"Node", "Link"}, NEW a \in OfType(y), Brought(y, a) PROVE Brought(y, a)'
  <2>1. CASE \E v \in Worker : wpc[v] = "recv" /\ hand[v].str = Get(y)
    BY <1>3, <2>1 DEF Brought, Get
  <2>2. CASE a = b
    <3>1. \E m \in C!Buffered' : m.str = Keys(b)
      BY <1>6 DEF C!Buffered
    <3> QED
      BY <1>11, <2>2, <3>1 DEF Brought, AnyTable, Keys
  <2>3. CASE a # b /\ \E v \in Worker : /\ wpc[v] = "callback" /\ hand[v].str \in Lists
                                        /\ a \in rest[v]
    BY <1>3, <1>13, <2>3 DEF Brought
  <2>4. CASE a \in have[AnyTable] /\ \E m \in C!Buffered : m.str = Keys(a)
    BY <1>6, <1>11, <2>4 DEF Brought, AnyTable, Keys
  <2>5. CASE Done(a)
    BY <1>12, <2>5 DEF Brought, OfType, Atom
  <2> QED
    BY <1>14, <2>1, <2>2, <2>3, <2>4, <2>5 DEF Brought
<1> QED
  BY <1>7, <1>8, <1>9, <1>10, <1>12, <1>14, OnwardIf

\* The server runs a message of a worker's socket: a write that was made
\* before, or a read.
LEMMA ExecOnward ==
  ASSUME Inv, Inv', NEW k \in 0..bret, Cut(k), Currents, NEW w \in Worker, ServerExec(w)
  PROVE  Onward(k)
<1> DEFINE m == Head(wire[w])
<1>1. /\ m \in C!Msg /\ m.str \in Command /\ m.lo <= sdone /\ m \in C!Pending
      /\ C!Pending' \subseteq C!Pending /\ C!Buffered' = C!Buffered
      /\ \E r \in ReplyValue : C!ServerExec(w, r)
  <2>1. wire[w] # <<>> /\ m \in C!Item /\ m.bar = 0 /\ w \in C!Thread
    BY DEF ServerExec, Inv, C!CallInv, C!IInv, C!TypeOK, C!Thread
  <2>2. m.str \in Command
    BY <2>1 DEF C!Item, C!Msg
  <2>3. AnswerTo(m.str) \in ReplyValue
    BY <2>2, AnswerKind DEF ServerExec
  <2>4. PICK r \in ReplyValue : C!ServerExec(w, r)
    BY <2>3, SameServer DEF ServerExec
  <2>5. C!IInv
    BY DEF Inv, C!CallInv
  <2>6. /\ m \in C!Msg /\ m.lo <= sdone /\ m \in C!Pending /\ C!Pending' \subseteq C!Pending
    BY <2>4, <2>5, ChannelAssumptions, C!ExecMessages
  <2>7. C!Buffered' = C!Buffered
    BY <2>1, <2>4, <2>5, ChannelAssumptions, C!ExecLive
  <2> QED
    BY <2>2, <2>4, <2>6, <2>7
<1>2. /\ UNCHANGED <<msgq, wpc, hand, got, have, lval, rest, sdone>>
      /\ Apply(m.str)
      /\ \A v \in Worker \ {w} : back'[v] = back[v]
      /\ m.str \notin Asks => back' = back
      /\ m.str \in Asks => back'[w] = Append(back[w], [to |-> m.str, val |-> AnswerTo(m.str)])
  BY DEF ServerExec, Chan!ServerExec, Chan!bufVars, Chan!workVars, locVars, Asks,
    Inv, C!CallInv, C!IInv, C!TypeOK, C!Thread
<1> HIDE DEF m
<1>3. Cut(k)'
  BY <1>1, <1>2 DEF Cut, Reading
<1>4. CASE m.str \notin Reading
  <2>1. ~Still
    BY <1>1, <1>4 DEF Still, C!OnlyLeft
  <2>2. m.str \notin Asks
    <3>1. ASSUME m.str \in Asks PROVE FALSE
      <4>1. m \in C!Buffered
        BY <1>1, <3>1, ChannelAssumptions, C!AsksAreHeld DEF Inv, Asks
      <4> QED
        BY <1>4, <4>1 DEF Cut
    <3> QED
      BY <3>1
  <2>3. UNCHANGED <<back, got>>
    BY <1>2, <2>2
  <2>4. Currents'
    BY <1>2, <2>1, <2>3 DEF Currents
  <2>5. \A c : Unrun(c) => Unrun(c)'
    BY <1>2, <2>3 DEF Unrun
  <2> QED
    BY <1>3, <2>1, <2>4, <2>5, OnwardIf
<1>5. CASE m.str \in Reading
  <2>1. UNCHANGED <<known, val>> /\ m.str \in Asks
    BY <1>1, <1>2, <1>5, ApplyKeeps DEF Reading
  <2>2. m \in C!Buffered /\ m.lo >= k
    <3>1. m \in C!Buffered
      BY <1>1, <2>1, ChannelAssumptions, C!AsksAreHeld DEF Inv, Asks
    <3> QED
      BY <3>1 DEF Cut
  <2>3. Still'
    <3> SUFFICES ASSUME NEW x \in C!Pending' PROVE x.str \in Reading
      BY DEF Still, C!OnlyLeft, Reading
    <3>1. x \in C!Msg /\ sdone' <= x.hi
      BY ChannelAssumptions, C!WindowNext DEF Inv, C!CallInv
    <3>2. ~(x.hi < k)
      <4>1. sdone \in Nat /\ bret \in Nat /\ k \in Nat
        BY DEF Inv, C!CallInv, C!IInv, C!TypeOK
      <4> QED
        BY <1>1, <1>2, <2>2, <3>1, <4>1 DEF C!Msg
    <3> QED
      BY <1>1, <3>2 DEF Cut
  <2>4. wpc[w] = "recv" /\ hand[w].str = m.str /\ back[w] = <<>>
    <3>1. wire[w] \in Seq(C!Item) /\ wire[w] # <<>> /\ m.bar = 0
      BY DEF ServerExec, Inv, C!CallInv, C!IInv, C!TypeOK, C!Thread, m
    <3>2. 1 \in DOMAIN wire[w] /\ wire[w][1] = m
      BY <3>1 DEF m
    <3>3. C!Question(wire[w][1])
      BY <2>1, <3>1, <3>2 DEF C!Question, Asks
    <3>4. wpc[w] = "recv" /\ hand[w] = m
      BY <3>2, <3>3 DEF Inv, C!CallInv, C!ReplyInv, C!Conversation, C!Quiet, C!Held
    <3>5. C!Waiting(w) /\ ~C!Quiet(wire[w])
      BY <3>2, <3>3, <3>4 DEF Inv, C!CallInv, C!ReplyInv, C!Conversation, C!Quiet
    <3> QED
      BY <3>4, <3>5 DEF C!Waiting
  <2> DEFINE x == [to |-> m.str, val |-> AnswerTo(m.str)]
  <2>5. back'[w] = <<x>>
    BY <1>2, <2>1, <2>4
  <2>6. x.to = m.str /\ x.val = AnswerTo(m.str)
    OBVIOUS
  <2> HIDE DEF x
  <2>7. back'[w] # <<>> /\ Head(back'[w]) = x
    BY <2>5
  <2>8. Current(x)
    <3>1. ASSUME m.str[1] \in {"cog-value", "cog-keys->alist"} PROVE AnswerTo(m.str)[2] = val[m.str[2]]
      BY <3>1 DEF AnswerTo
    <3>2. ASSUME NEW y \in {"Node", "Link"}, m.str = Get(y)
          PROVE  AnswerTo(m.str)[2] = known \cap OfType(y)
      <4>1. m.str[1] = "cog-get-atoms" /\ m.str[2] = y
        BY <3>2 DEF Get
      <4> QED
        BY <4>1 DEF AnswerTo
    <3> QED
      BY <2>6, <3>1, <3>2 DEF Current
  <2>9. Currents'
    BY <1>2, <2>1, <2>3, <2>4, <2>7, <2>8 DEF Currents, Current, Get, OfType
  <2>10. \A a : Done(a) => Done(a)'
    BY <1>2, <2>1 DEF Done, AnyTable
  <2>11. \A y, a : Brought(y, a) => Brought(y, a)'
    BY <1>1, <1>2, <2>10 DEF Brought, AnyTable, Get, Keys
  <2>12. ASSUME NEW y \in {"Node", "Link"}, Unrun(Get(y))
         PROVE  Unrun(Get(y))' \/ \A a \in OfType(y) : Brought(y, a)'
    <3>1. CASE m.str = Get(y)
      BY <1>2, <2>4, <3>1 DEF Brought, Get
    <3>2. CASE m.str # Get(y)
      BY <1>2, <2>4, <2>12, <3>2 DEF Unrun, Get
    <3> QED
      BY <3>1, <3>2
  <2> QED
    BY <1>3, <2>3, <2>9, <2>10, <2>11, <2>12, OnwardIf
<1> QED
  BY <1>4, <1>5

\* What is left of loadAtomSpace after each step.
LEMMA LoadForms ==
  /\ L4 # <<>> /\ Head(L4).do = "enqueue" /\ Head(L4).cmd = Get("Node") /\ Tail(L4) = L3
  /\ L3 # <<>> /\ Head(L3).do = "flush" /\ Tail(L3) = L2
  /\ L2 # <<>> /\ Head(L2).do = "enqueue" /\ Head(L2).cmd = Get("Link") /\ Tail(L2) = L1
  /\ L1 # <<>> /\ Head(L1).do = "barrier" /\ Tail(L1) = <<>>
  /\ Len(L4) = 4 /\ Len(L3) = 3 /\ Len(L2) = 2 /\ Len(L1) = 1
<1> DEFINE b == [do |-> "barrier"]
           f == [do |-> "flush"]
           n == [do |-> "enqueue", cmd |-> Get("Node"), pkt |-> <<AnyTable>>]
           q == [do |-> "enqueue", cmd |-> Get("Link"), pkt |-> <<AnyTable>>]
           S == {b, f, n, q}
           N == Ask(Get("Node"), <<AnyTable>>)
           A == Ask(Get("Link"), <<AnyTable>>)
<1>1. /\ b.do = "barrier" /\ f.do = "flush" /\ n.do = "enqueue" /\ n.cmd = Get("Node")
      /\ q.do = "enqueue" /\ q.cmd = Get("Link")
  OBVIOUS
<1>2. /\ Barrier = <<b>> /\ Flush = <<f>> /\ N = <<n>> /\ A = <<q>>
      /\ b \in S /\ f \in S /\ n \in S /\ q \in S
  BY DEF Barrier, Ask, Flush
<1>3. /\ L4 = N \o Flush \o A \o Barrier /\ L3 = Flush \o A \o Barrier
      /\ L2 = A \o Barrier /\ L1 = Barrier
  BY DEF L4, L3, L2, L1, LoadSteps
<1> HIDE DEF b, f, n, q, S, A, N
<1>4. /\ Barrier \in Seq(S) /\ Barrier # <<>> /\ Len(Barrier) = 1 /\ Head(Barrier) = b
      /\ Tail(Barrier) = <<>>
  BY <1>2, OneStep
<1>5. /\ A \in Seq(S) /\ A # <<>> /\ Len(A) = 1 /\ Head(A) = q
      /\ \A r \in Seq(S) : Tail(A) \o r = r
  BY <1>2, OneStep
<1>6. /\ Flush \in Seq(S) /\ Flush # <<>> /\ Len(Flush) = 1 /\ Head(Flush) = f
      /\ \A r \in Seq(S) : Tail(Flush) \o r = r
  BY <1>2, OneStep
<1>7. /\ N \in Seq(S) /\ N # <<>> /\ Len(N) = 1 /\ Head(N) = n
      /\ \A r \in Seq(S) : Tail(N) \o r = r
  BY <1>2, OneStep
<1>8. ASSUME NEW x \in Seq(S), x # <<>>, NEW y \in Seq(S), NEW z, z = x \o y
      PROVE  /\ z \in Seq(S) /\ z # <<>> /\ Len(z) = Len(x) + Len(y)
             /\ Head(z) = Head(x) /\ Tail(z) = Tail(x) \o y
  BY <1>8, JoinedTail
<1>9. L2 # <<>> /\ Head(L2) = q /\ Tail(L2) = L1 /\ Len(L2) = 2
  BY <1>3, <1>4, <1>5, <1>8
<1> DEFINE fa == Flush \o A
           nf == N \o Flush
           nfa == nf \o A
<1>10. fa \in Seq(S) /\ fa # <<>> /\ Head(fa) = f /\ Tail(fa) = A /\ Len(fa) = 2
  BY <1>5, <1>6, <1>8
<1>11. nf \in Seq(S) /\ nf # <<>> /\ Head(nf) = n /\ Tail(nf) = Flush /\ Len(nf) = 2
  BY <1>6, <1>7, <1>8
<1>12. L3 = fa \o Barrier /\ L4 = nfa \o Barrier
  BY <1>3
<1> HIDE DEF nf
<1>13. nfa \in Seq(S) /\ nfa # <<>> /\ Head(nfa) = n /\ Tail(nfa) = fa /\ Len(nfa) = 3
  <2>1. /\ nfa \in Seq(S) /\ nfa # <<>> /\ Head(nfa) = Head(nf) /\ Tail(nfa) = Tail(nf) \o A
        /\ Len(nfa) = Len(nf) + Len(A)
    BY <1>5, <1>8, <1>11
  <2> QED
    BY <1>5, <1>11, <2>1
<1> HIDE DEF fa, nfa
<1>14. L3 # <<>> /\ Head(L3) = f /\ Tail(L3) = L2 /\ Len(L3) = 3
  <2>1. /\ L3 # <<>> /\ Head(L3) = Head(fa) /\ Tail(L3) = Tail(fa) \o Barrier
        /\ Len(L3) = Len(fa) + Len(Barrier)
    BY <1>4, <1>8, <1>10, <1>12
  <2>2. Tail(L3) = L2
    BY <1>3, <1>10, <2>1, Zenon
  <2> QED
    BY <1>4, <1>10, <2>1, <2>2
<1>15. L4 # <<>> /\ Head(L4) = n /\ Tail(L4) = L3 /\ Len(L4) = 4
  <2>1. /\ L4 # <<>> /\ Head(L4) = Head(nfa) /\ Tail(L4) = Tail(nfa) \o Barrier
        /\ Len(L4) = Len(nfa) + Len(Barrier)
    BY <1>4, <1>8, <1>12, <1>13
  <2>2. Tail(L4) = L3
    BY <1>12, <1>13, <2>1, Zenon
  <2> QED
    BY <1>4, <1>13, <2>1, <2>2
<1>16. L1 # <<>> /\ Head(L1) = b /\ Tail(L1) = <<>> /\ Len(L1) = 1
  BY <1>3, <1>4
<1> QED
  BY <1>1, <1>9, <1>14, <1>15, <1>16

\* The workers and the server.
LEMMA ThreadOnward ==
  ASSUME Inv, Inv', OneTable, NEW k \in 0..bret, Cut(k), Currents,
         \/ \E w \in Worker : WorkerStep(w) \/ WorkerSendBlock(w)
                                \/ \E m \in msgq : WorkerTake(w, m)
         \/ BarrierDrained
         \/ ServerStep
  PROVE  Onward(k)
<1>1. ASSUME C!Moves, UNCHANGED <<msgq, wpc, hand, known, val, have, lval, rest>>,
             \A w \in Worker : back'[w] = back[w] /\ got'[w] = got[w]
      PROVE  Onward(k)
  <2>1. C!Pending' = C!Pending
    BY <1>1, ChannelAssumptions, C!MoveLive DEF Inv, C!CallInv
  <2> QED
    BY <1>1, <2>1, OtherOnward
<1>2. ASSUME NEW w \in Worker, WorkerSendBlock(w) PROVE Onward(k)
  <2>1. C!WorkerSendBlock(w) /\ UNCHANGED <<known, val, have, lval, rest>>
    BY <1>2, SameWorker DEF WorkerSendBlock, srvVars, locVars
  <2>2. UNCHANGED <<msgq, wpc, hand, back, got>>
    BY <2>1 DEF C!WorkerSendBlock, C!DoSend, C!bufVars, C!workVars
  <2> QED
    BY <1>1, <2>1, <2>2 DEF C!Moves
<1>3. CASE BarrierDrained
  <2>1. C!BarrierDrained /\ UNCHANGED <<known, val, have, lval, rest>>
    BY <1>3, SameWaits DEF BarrierDrained, srvVars, locVars
  <2>2. UNCHANGED <<msgq, wpc, hand, back, got>>
    BY <2>1 DEF C!BarrierDrained, C!bufVars, C!workVars, C!sockVars
  <2> QED
    BY <1>1, <2>1, <2>2 DEF C!Moves
<1>4. ASSUME NEW j \in 1..bstart, ServerBarrier(j) PROVE Onward(k)
  <2>1. C!ServerBarrier(j) /\ UNCHANGED <<known, val, have, lval, rest>>
    BY <1>4, SameServer DEF ServerBarrier, srvVars, locVars
  <2>2. UNCHANGED <<msgq, wpc, hand, back, got>>
    BY <2>1 DEF C!ServerBarrier, C!bufVars, C!workVars
  <2> QED
    BY <1>1, <2>1, <2>2 DEF C!Moves
<1>5. ASSUME NEW t \in C!Thread, t \notin Worker, ServerExec(t) PROVE Onward(k)
  <2>1. t \in User /\ wire[t] \in Seq(C!Item) /\ wire[t] # <<>> /\ Head(wire[t]).bar = 0
    BY <1>5 DEF C!Thread, ServerExec, Inv, C!CallInv, C!IInv, C!TypeOK
  <2>2. Head(wire[t]) = wire[t][1] /\ 1 \in DOMAIN wire[t] /\ Head(wire[t]) \in C!Item
    BY <2>1
  <2>3. Head(wire[t]).str \in Command /\ Head(wire[t]).str[1] = "cog-node"
    BY <2>1, <2>2 DEF C!Item, C!Msg, Inv, Kept, Probes
  <2>4. Head(wire[t]).str \in Reading
    BY <2>3 DEF Reading, Asks, Silent
  <2>5. UNCHANGED <<known, val>>
    BY <1>5, <2>3, <2>4, ApplyKeeps DEF ServerExec
  <2>6. PICK r : C!ServerExec(t, r)
    BY <1>5, SameServer DEF ServerExec
  <2>7. /\ UNCHANGED <<msgq, wpc, hand, got, have, lval, rest>>
        /\ \A w \in Worker : back'[w] = back[w]
    BY <1>5, <2>6 DEF ServerExec, C!ServerExec, C!bufVars, C!workVars, locVars, C!Thread,
      Inv, C!CallInv, C!IInv, C!TypeOK
  <2>8. C!Pending' = C!Pending
    BY <1>5, <2>6, ChannelAssumptions, C!ExecUser DEF Inv, C!CallInv
  <2> QED
    BY <2>5, <2>7, <2>8, OtherOnward
<1>6. CASE ServerStep
  BY <1>4, <1>5, <1>6, ExecOnward, SameServer DEF ServerStep
<1>7. ASSUME NEW w \in Worker, WorkerStep(w) PROVE Onward(k)
  BY <1>7, SendOnward, RecvOnward, CallbackOnward, DecodeAtomOnward DEF WorkerStep
<1>8. ASSUME NEW w \in Worker, NEW m \in msgq, WorkerTake(w, m) PROVE Onward(k)
  BY <1>8, TakeOnward
<1> QED
  BY <1>2, <1>3, <1>6, <1>7, <1>8

\* A thread in an operation that does not write.
LEMMA UserOnward ==
  ASSUME Inv, NEW k \in 0..bret, Cut(k), Currents, NEW u \in User, UserStep(u),
         op[u] \notin Writes
  PROVE  /\ Onward(k)
         /\ \A c : DoEnqueue(u) /\ c = Head(todo[u]).cmd => Unrun(c)'
<1>1. todo[u] # <<>> /\ Head(todo[u]) \in StepOf(op[u])
  <2>1. todo[u] # <<>> /\ todo[u] \in Seq(StepOf(op[u]))
    BY OthersStay DEF Inv, Kept, Plans
  <2> QED
    BY <2>1
<1>2. ASSUME DoEnqueue(u), NEW c, c = Head(todo[u]).cmd PROVE Onward(k) /\ Unrun(c)'
  <2>1. c \in Reading
    BY <1>1, <1>2 DEF DoEnqueue, At, StepOf
  <2>2. PICK d : d = Head(todo[u]).pkt
    OBVIOUS
  <2>3. C!Enqueue(u, c, d) /\ UNCHANGED <<known, val, have, lval, rest>>
    BY <1>2, <2>2, SameInserts DEF DoEnqueue, srvVars, locVars
  <2>4. C!Insert(C!NewMsg(c, d, FALSE)) /\ UNCHANGED <<wpc, hand, wire, back, got>>
    BY <2>3 DEF C!Enqueue, C!workVars, C!sockVars
  <2> QED
    BY <2>1, <2>3, <2>4, InsertOnward
<1>3. CASE DoNoreply(u) \/ \E a \in Atom : DoStore(u, a)
  BY <1>1, <1>3 DEF DoNoreply, DoStore, At, StepOf
<1>4. CASE CloseConnection(u) \/ OpenConnection(u)
  <2>1. UNCHANGED <<msgq, wpc, hand, wire, back, got, known, val, have, lval, rest>>
    BY <1>4 DEF CloseConnection, OpenConnection, chanVars, srvVars, locVars
  <2>2. C!Pending' = C!Pending
    BY <2>1 DEF C!Pending, C!Sent
  <2> QED
    BY <1>1, <1>4, <2>1, <2>2, OtherOnward DEF DoEnqueue, CloseConnection, OpenConnection, At
<1>5. CASE DoProbe(u) \/ ProbeReply(u) \/ DoFlush(u) \/ DoBarrier(u)
  <2>1. UNCHANGED <<known, val, have, lval, rest>> /\ ~DoEnqueue(u)
    BY <1>5 DEF DoProbe, ProbeReply, DoFlush, DoBarrier, DoEnqueue, At, srvVars, locVars
  <2>2. \/ C!SynchroRecv(u) \/ C!FlushBegin(u) \/ C!FlushEnd(u)
        \/ C!BarrierBegin(u) \/ C!BarrierEnd(u)
        \/ \E c \in Command \ Silent : C!SynchroSend(u, c)
    <3>1. CASE DoProbe(u)
      <4>1. Head(todo[u]).cmd \in {"cog-node"} \X Atom
        BY <1>1, <3>1 DEF DoProbe, At, StepOf, Step
      <4>2. Head(todo[u]).cmd \in Command \ Silent
        BY <4>1, CommandForms DEF Silent, Single
      <4> QED
        BY <3>1, <4>2, SameWaits DEF DoProbe
    <3>2. CASE ProbeReply(u) \/ DoFlush(u) \/ DoBarrier(u)
      BY <3>2, SameWaits DEF ProbeReply, DoFlush, DoBarrier
    <3> QED
      BY <1>5, <3>1, <3>2
  <2>3. C!Moves
    BY <2>2 DEF C!Moves
  <2>4. C!Pending' = C!Pending
    BY <2>3, ChannelAssumptions, C!MoveLive DEF Inv, C!CallInv
  <2>5. UNCHANGED <<msgq, wpc, hand>>
    BY <2>2 DEF C!SynchroSend, C!SynchroRecv, C!FlushBegin, C!FlushEnd, C!BarrierBegin,
      C!BarrierEnd, C!bufVars, C!workVars
  <2>6. \A w \in Worker : back'[w] = back[w] /\ got'[w] = got[w]
    <3>1. UNCHANGED <<back, got>> \/ C!SynchroRecv(u)
      BY <2>2 DEF C!SynchroSend, C!DoSend, C!FlushBegin, C!FlushEnd, C!BarrierBegin,
        C!BarrierEnd, C!sockVars
    <3>2. CASE C!SynchroRecv(u)
      BY <3>2, ThreadAssumption DEF C!SynchroRecv, C!DoRecv, C!Sock, C!Thread, Inv,
        C!CallInv, C!IInv, C!TypeOK
    <3> QED
      BY <3>1, <3>2
  <2> QED
    BY <2>1, <2>4, <2>5, <2>6, OtherOnward
<1> QED
  BY <1>2, <1>3, <1>4, <1>5 DEF UserStep

\* What is on its way when the buffer is empty and the workers are idle has
\* arrived.
LEMMA DrainedDone ==
  ASSUME C!Drained, Listing("Node"), Listing("Link")
  PROVE  AllDone
<1>1. C!Buffered = {} /\ \A w \in Worker : wpc[w] = "idle"
  BY DEF C!Drained, C!Buffered
<1>2. \A c : ~Unrun(c)
  BY DEF C!Drained, Unrun
<1>3. Still /\ \A y \in {"Node", "Link"} : \A a \in OfType(y) : Brought(y, a)
  BY <1>2 DEF Listing
<1>4. \A y \in {"Node", "Link"} : \A a \in OfType(y) : Done(a)
  BY <1>1, <1>3 DEF Brought
<1>5. \A a \in Atom : a \in OfType("Node") \/ a \in OfType("Link")
  BY DEF Atom, OfType
<1> QED
  BY <1>3, <1>4, <1>5 DEF AllDone

\* A load that goes on, while its own thread takes no step.
LEMMA LoadingStays ==
  ASSUME NEW k, Onward(k), NEW u \in User, Loading(u), todo'[u] = todo[u],
         upc'[u] = "barrier" /\ phase' = "fence" =>
           (upc[u] = "barrier" /\ phase = "fence") \/ AllDone'
  PROVE  Loading(u)'
<1>1. UNCHANGED <<L4, L3, L2, L1>>
  BY DEF L4, L3, L2, L1, LoadSteps, Ask, Get, Flush, Barrier, AnyTable
<1> QED
  BY <1>1 DEF Loading, Onward

\* The workers and the server take a step.
LEMMA LoadThreads ==
  ASSUME Inv, Inv', OneTable, LoadInv,
         \/ \E w \in Worker : WorkerStep(w) \/ WorkerSendBlock(w)
                                \/ \E m \in msgq : WorkerTake(w, m)
         \/ BarrierDrained
         \/ ServerStep
  PROVE  LoadInv'
<1>1. UNCHANGED <<op, todo, clean, fresh, upc>>
  BY ThreadMakes DEF userVars, pastVars
<1>2. bret' = bret
  BY DEF WorkerStep, WorkerSend, WorkerRecv, DecodeValue, DecodeKvpList, DecodeAtom,
    CallbackEnds, WorkerSendBlock, WorkerTake, BarrierDrained, ServerStep, ServerExec,
    ServerBarrier, Chan!WorkerSend, Chan!WorkerRecv, Chan!CallbackDone,
    Chan!CallbackEnqueue, Chan!WorkerSendBlock, Chan!WorkerTake, Chan!BarrierDrained,
    Chan!ServerExec, Chan!ServerBarrier, Chan!barVars
<1>3. phase' = phase \/ C!BarrierDrained
  BY SameWaits
     DEF WorkerStep, WorkerSend, WorkerRecv, DecodeValue, DecodeKvpList, DecodeAtom,
    CallbackEnds, WorkerSendBlock, WorkerTake, BarrierDrained, ServerStep, ServerExec,
    ServerBarrier, Chan!WorkerSend, Chan!WorkerRecv, Chan!CallbackDone,
    Chan!CallbackEnqueue, Chan!WorkerSendBlock, Chan!WorkerTake,
    Chan!ServerExec, Chan!ServerBarrier, Chan!barVars
<1> SUFFICES ASSUME Vouched
             PROVE  /\ \A u \in User : op'[u] \notin Writes
                    /\ \E k \in 0..bret' : Cut(k)'
                    /\ Currents'
                    /\ \A u \in User : Counts(u) => Loading(u)'
                    /\ fresh # {} => AllDone'
  BY <1>1 DEF LoadInv, Vouched, Counts
<1>4. PICK k \in 0..bret : Cut(k)
  BY DEF LoadInv
<1>5. Currents
  BY DEF LoadInv
<1>6. Onward(k)
  BY <1>4, <1>5, ThreadOnward
<1>7. ASSUME NEW u \in User, Counts(u) PROVE Loading(u)'
  <2>1. Loading(u)
    BY <1>7 DEF LoadInv
  <2>2. ASSUME upc'[u] = "barrier", phase' = "fence", phase # "fence" PROVE AllDone'
    <3>1. C!BarrierDrained /\ upc[u] = "barrier"
      BY <1>1, <1>3, <2>2
    <3>2. todo[u] = L1
      BY <2>1, <3>1, LoadForms DEF Loading, Inv, Kept, Plans, At
    <3>3. L4 # L1
      BY LoadForms
    <3>4. Listing("Node") /\ Listing("Link")
      BY <2>1, <3>2, <3>3 DEF Loading
    <3>5. AllDone
      BY <3>1, <3>4, DrainedDone DEF C!BarrierDrained
    <3> QED
      BY <1>6, <3>5 DEF Onward
  <2> QED
    BY <1>1, <1>6, <2>1, <2>2, LoadingStays
<1> QED
  BY <1>1, <1>2, <1>4, <1>6, <1>7 DEF LoadInv, Onward

\* A calling thread takes a step.
LEMMA LoadUsers ==
  ASSUME Inv, Inv', OneTable, LoadInv, [C!Next]_C!vars, NEW u \in User, UserStep(u)
  PROVE  LoadInv'
<1>1. /\ \A v \in User \ {u} : /\ op'[v] = op[v] /\ todo'[v] = todo[v]
                               /\ clean'[v] = clean[v] /\ upc'[v] = upc[v]
      /\ op'[u] \in {op[u], "none"} /\ todo[u] # <<>>
  BY OthersStay
<1>2. /\ op \in [User -> Names] /\ todo \in [User -> Seq(Step)]
      /\ clean \in [User -> SUBSET Table] /\ bret \in Nat /\ bret' \in Nat /\ bret <= bret'
  BY BarrierCounts DEF Inv, Kept, Plans, TypeOK
<1>3. Wait \/ \E lo : Advance(u, lo)
  BY DEF UserStep, DoNoreply, DoStore, DoEnqueue, DoProbe, ProbeReply, DoFlush,
    DoBarrier, CloseConnection, OpenConnection, StepDone
<1>4. /\ op'[u] = op[u] => clean'[u] = clean[u] /\ fresh' = fresh
      /\ op'[u] # op[u] => \/ fresh' = fresh
                           \/ Counts(u) /\ fresh' = fresh \cup clean[u]
  BY <1>1, <1>2, <1>3 DEF Wait, Advance, userVars, pastVars, Counts, Inv, Kept, TypeOK
<1>5. \A v \in User : Counts(v)' => Counts(v)
  BY <1>1, <1>4 DEF Counts
<1>6. Vouched' => Vouched
  BY <1>4, <1>5 DEF Vouched
<1>7. phase' = "fence" => phase = "fence"
  BY DEF UserStep, DoNoreply, DoStore, DoEnqueue, DoProbe, ProbeReply, DoFlush,
      DoBarrier, CloseConnection, OpenConnection, Chan!Enqueue, Chan!EnqueueNoreply,
      Chan!SynchroSend, Chan!SynchroRecv, Chan!FlushBegin, Chan!FlushEnd,
      Chan!BarrierBegin, Chan!BarrierEnd, Chan!barVars, chanVars
<1> SUFFICES ASSUME Vouched
             PROVE  /\ \A v \in User : op'[v] \notin Writes
                    /\ \E k \in 0..bret' : Cut(k)'
                    /\ Currents'
                    /\ \A v \in User : Counts(v)' => Loading(v)'
                    /\ fresh' # {} => AllDone'
  BY <1>6 DEF LoadInv
<1>8. \A v \in User : op[v] \notin Writes /\ op'[v] \notin Writes
  BY <1>1 DEF LoadInv, Writes
<1>9. PICK k \in 0..bret : Cut(k)
  BY DEF LoadInv
<1>10. /\ Onward(k)
       /\ \A c : DoEnqueue(u) /\ c = Head(todo[u]).cmd => Unrun(c)'
  BY <1>8, <1>9, UserOnward DEF LoadInv
<1>11. ASSUME NEW v \in User \ {u}, Counts(v)' PROVE Loading(v)'
  <2>1. Loading(v)
    BY <1>5, <1>11 DEF LoadInv
  <2> QED
    BY <1>1, <1>7, <1>10, <2>1, LoadingStays
<1>12. ASSUME Counts(u)
       PROVE  /\ Counts(u)' => Loading(u)'
              /\ op'[u] # op[u] => AllDone'
  <2>1. Loading(u)
    BY <1>12 DEF LoadInv
  <2>2. UNCHANGED <<L4, L3, L2, L1>>
    BY DEF L4, L3, L2, L1, LoadSteps, Ask, Get, Flush, Barrier, AnyTable
  <2>3. upc \in [User -> {"ready", "ask", "flush", "barrier"}]
    BY DEF Inv, C!CallInv, C!IInv, C!TypeOK
  <2>4. "loadAtomSpace" # "none" /\ op[u] = "loadAtomSpace"
    BY <1>12 DEF Counts
  <2>5. ASSUME NEW p, StepDone(u), Tail(todo[u]) = p, p # <<>>
        PROVE  todo'[u] = p /\ op'[u] = op[u]
    BY <1>2, <2>5 DEF StepDone, Advance
  <2>6. CASE DoEnqueue(u)
    <3>1. upc'[u] = "ready" /\ StepDone(u)
      BY <2>6 DEF DoEnqueue, Chan!Enqueue
    <3>2. CASE todo[u] = L4
      <4>1. todo'[u] = L3 /\ op'[u] = op[u]
        BY <2>5, <3>1, <3>2, LoadForms
      <4>2. Unrun(Get("Node"))'
        <5>1. PICK c : c = Get("Node")
          OBVIOUS
        <5>2. Unrun(c)'
          BY <1>10, <2>6, <3>2, <5>1, LoadForms
        <5> QED
          BY <5>1, <5>2 DEF Get
      <4>3. Listing("Node")'
        BY <4>2 DEF Listing
      <4> QED
        BY <2>2, <3>1, <4>1, <4>3, LoadForms DEF Loading
    <3>3. CASE todo[u] = L2
      <4>1. todo'[u] = L1 /\ op'[u] = op[u]
        BY <2>5, <3>1, <3>3, LoadForms
      <4>2. Unrun(Get("Link"))'
        <5>1. PICK c : c = Get("Link")
          OBVIOUS
        <5>2. Unrun(c)'
          BY <1>10, <2>6, <3>3, <5>1, LoadForms
        <5> QED
          BY <5>1, <5>2 DEF Get
      <4>3. Listing("Link")'
        BY <4>2 DEF Listing
      <4>4. L2 # L4
        BY LoadForms
      <4>5. Listing("Node")'
        BY <1>10, <2>1, <3>3, <4>4 DEF Loading, Onward
      <4> QED
        BY <2>2, <3>1, <4>1, <4>3, <4>5, LoadForms DEF Loading
    <3> QED
      BY <2>1, <2>6, <3>2, <3>3, LoadForms DEF Loading, DoEnqueue, At
  <2>7. CASE DoFlush(u)
    <3>1. todo[u] = L3
      BY <2>1, <2>7, LoadForms DEF Loading, DoFlush, At
    <3>2. L3 # L4 /\ L3 # L1 /\ L2 # L4 /\ L2 # L1
      BY LoadForms
    <3>3. Listing("Node")'
      BY <1>10, <2>1, <3>1, <3>2 DEF Loading, Onward
    <3>4. CASE Chan!FlushBegin(u) /\ Wait
      <4>1. upc'[u] = "flush" /\ todo'[u] = L3 /\ op'[u] = op[u]
        BY <2>3, <3>1, <3>4 DEF Chan!FlushBegin, Wait, userVars
      <4> QED
        BY <2>2, <3>2, <3>3, <4>1 DEF Loading
    <3>5. CASE Chan!FlushEnd(u) /\ StepDone(u)
      <4>1. upc'[u] = "ready" /\ todo'[u] = L2 /\ op'[u] = op[u]
        BY <2>3, <2>5, <3>1, <3>5, LoadForms DEF Chan!FlushEnd
      <4> QED
        BY <2>2, <3>2, <3>3, <4>1 DEF Loading
    <3> QED
      BY <2>7, <3>4, <3>5 DEF DoFlush
  <2>8. CASE DoBarrier(u)
    <3>1. todo[u] = L1
      BY <2>1, <2>8, LoadForms DEF Loading, DoBarrier, At
    <3>2. L1 # L4
      BY LoadForms
    <3>3. CASE Chan!BarrierBegin(u) /\ Wait
      <4>1. phase' = "drain" /\ todo'[u] = todo[u] /\ op'[u] = op[u]
        BY <3>3 DEF Chan!BarrierBegin, Wait, userVars
      <4> QED
        BY <1>10, <2>1, <4>1, LoadingStays
    <3>4. CASE Chan!BarrierEnd(u) /\ StepDone(u)
      <4>1. upc[u] = "barrier" /\ phase = "fence"
        BY <3>4 DEF Chan!BarrierEnd
      <4>2. AllDone'
        BY <1>10, <2>1, <4>1 DEF Loading, Onward
      <4>3. op'[u] = "none"
        BY <1>2, <3>1, <3>4, LoadForms DEF StepDone, Advance
      <4> QED
        BY <4>2, <4>3 DEF Counts
    <3> QED
      BY <2>8, <3>3, <3>4 DEF DoBarrier
  <2>9. At(u, "enqueue") \/ At(u, "flush") \/ At(u, "barrier")
    BY <2>1, LoadForms DEF Loading, At
  <2> QED
    BY <2>6, <2>7, <2>8, <2>9 DEF UserStep, DoNoreply, DoStore, DoEnqueue, DoProbe,
      ProbeReply, DoFlush, DoBarrier, CloseConnection, OpenConnection, At
<1>13. fresh' # {} => AllDone'
  <2>1. CASE fresh # {}
    BY <1>10, <2>1 DEF LoadInv, Onward
  <2>2. CASE fresh = {}
    BY <1>4, <1>12, <2>2
  <2> QED
    BY <2>1, <2>2
<1>14. k \in 0..bret'
  BY <1>2
<1> QED
  BY <1>5, <1>8, <1>10, <1>11, <1>12, <1>13, <1>14 DEF Onward

\* A call: a write takes back what loads vouch for, and a load that counts
\* begins with nothing in the buffer and no worker at work.
LEMMA LoadCalls ==
  ASSUME Inv, Inv', OneTable, LoadInv, NEW u \in User, Operation(u)
  PROVE  LoadInv'
<1>1. PICK f \in Names \ {"none"} : Planned(u, f)
  BY OperationPlan
<1>2. PICK t \in Table, steps \in Seq(StepOf(f)) :
        /\ Call(u, f, t, steps)
        /\ f = "loadAtomSpace" => steps = LoadSteps(t)
  BY <1>1 DEF Planned
<1>3. t = AnyTable
  BY AtomAssumption DEF OneTable, AnyTable
<1>4. UNCHANGED <<msgq, wpc, hand, wire, back, got, upc, phase, bret, known, val, have, lval, rest>>
  BY <1>2 DEF Call, chanVars, srvVars, locVars
<1>5. C!Pending' = C!Pending
  BY <1>4 DEF C!Pending, C!Sent
<1>6. /\ op[u] = "none" /\ op'[u] = f /\ todo'[u] = steps
      /\ \A v \in User \ {u} : op'[v] = op[v] /\ todo'[v] = todo[v]
  BY <1>2 DEF Call, Inv, Kept, Plans
<1>7. upc[u] = "ready"
  <2>1. todo[u] = <<>>
    BY <1>6 DEF Inv, Kept, TypeOK
  <2> QED
    BY <2>1 DEF Inv, Kept, Plans, At, C!CallInv, C!IInv, C!TypeOK
<1>8. CASE f \in Writes
  <2>1. fresh' = {} /\ \A v \in User \ {u} : clean'[v] = {}
    BY <1>2, <1>8 DEF Call
  <2>2. op'[u] # "loadAtomSpace"
    BY <1>6, <1>8 DEF Writes
  <2> QED
    BY <2>1, <2>2 DEF LoadInv, Vouched, Counts
<1>9. CASE f \notin Writes
  <2>1. /\ fresh' = fresh /\ \A v \in User \ {u} : clean'[v] = clean[v]
        /\ Counts(u)' => f = "loadAtomSpace" /\ Alone(u) /\ FencedOff
    <3>1. fresh' = fresh /\ \A v \in User \ {u} : clean'[v] = clean[v]
      BY <1>2, <1>9 DEF Call
    <3>2. ASSUME Counts(u)' PROVE f = "loadAtomSpace" /\ Alone(u) /\ FencedOff
      <4>1. op'[u] = "loadAtomSpace" /\ clean'[u] # {}
        BY <3>2 DEF Counts
      <4> QED
        BY <1>2, <1>6, <4>1 DEF Call
    <3> QED
      BY <3>1, <3>2
  <2>2. ASSUME Counts(u)' PROVE Loading(u)'
    <3>1. todo'[u] = L4
      BY <1>2, <1>3, <1>6, <2>1, <2>2 DEF L4
    <3>2. L4' = L4 /\ L1' = L1 /\ L4 # L1
      BY LoadForms DEF L4, L1, LoadSteps, Ask, Get, Flush, Barrier, AnyTable
    <3> QED
      BY <1>4, <1>7, <3>1, <3>2 DEF Loading
  <2>3. ASSUME Vouched PROVE LoadInv'
    <3>1. PICK k \in 0..bret : Cut(k)
      BY <2>3 DEF LoadInv
    <3>2. Onward(k)
      BY <1>4, <1>5, <2>3, <3>1, OtherOnward DEF LoadInv
    <3>3. \A v \in User : op'[v] \notin Writes
      BY <1>6, <1>9, <2>3 DEF LoadInv
    <3>4. ASSUME NEW v \in User \ {u}, Counts(v)' PROVE Loading(v)'
      <4>1. Loading(v)
        BY <1>6, <2>1, <2>3, <3>4 DEF LoadInv, Counts
      <4> QED
        BY <1>4, <1>6, <3>2, <4>1, LoadingStays
    <3>5. fresh' # {} => AllDone'
      BY <2>1, <2>3, <3>2 DEF LoadInv, Onward
    <3> QED
      BY <1>4, <2>2, <3>1, <3>2, <3>3, <3>4, <3>5 DEF LoadInv, Onward
  <2>4. ASSUME ~Vouched, Vouched' PROVE LoadInv'
    <3>1. fresh' = {} /\ \A v \in User \ {u} : ~Counts(v)'
      BY <1>6, <2>1, <2>4 DEF Vouched, Counts
    <3>2. Counts(u)'
      BY <2>4, <3>1 DEF Vouched
    <3>3. \A v \in User : op'[v] \notin Writes
      BY <1>6, <1>9, <2>1, <3>2 DEF Alone
    <3>4. C!Buffered = {} /\ \A m \in C!Pending : m.hi < bret
      BY <2>1, <3>2, SameServer DEF FencedOff, C!Buffered, Chan!Buffered
    <3>5. C!Buffered' = {}
      BY <1>4, <3>4 DEF C!Buffered
    <3>6. Cut(bret)'
      BY <1>4, <1>5, <3>4, <3>5 DEF Cut
    <3>7. Currents'
      <4>1. \A w \in Worker : wpc[w] = "idle"
        BY <3>4 DEF C!Buffered
      <4>2. \A w \in Worker : back[w] = <<>>
        BY <4>1, WorkerHolds
      <4> QED
        BY <1>4, <4>1, <4>2 DEF Currents
    <3>8. bret' \in 0..bret'
      BY <1>4 DEF Inv, C!CallInv, C!IInv, C!TypeOK
    <3> QED
      BY <2>2, <3>1, <3>3, <3>6, <3>7, <3>8 DEF LoadInv
  <2> QED
    BY <2>3, <2>4 DEF LoadInv
<1> QED
  BY <1>8, <1>9

\* Every step keeps LoadInv.
LEMMA LoadStep ==
  ASSUME OneTable
  PROVE  Inv /\ Inv' /\ LoadInv /\ [Next]_vars => LoadInv'
<1> SUFFICES ASSUME Inv, Inv', LoadInv, [Next]_vars PROVE LoadInv'
  OBVIOUS
<1>1. CASE UNCHANGED vars
  <2>1. UNCHANGED <<chanVars, userVars, pastVars, srvVars, locVars>>
    BY <1>1 DEF vars
  <2>2. UNCHANGED <<msgq, wpc, hand, wire, back, got, upc, phase, bret, known, val, have,
                    lval, rest, op, todo, clean, fresh>>
    BY <2>1 DEF chanVars, userVars, pastVars, srvVars, locVars
  <2>3. C!Pending' = C!Pending
    BY <2>2 DEF C!Pending, C!Sent
  <2> SUFFICES ASSUME Vouched PROVE LoadInv'
    BY <2>2 DEF LoadInv, Vouched, Counts
  <2>4. PICK k \in 0..bret : Cut(k)
    BY DEF LoadInv
  <2>5. Onward(k)
    BY <2>2, <2>3, <2>4, OtherOnward DEF LoadInv
  <2>6. \A u \in User : Counts(u)' => Loading(u)'
    BY <2>2, <2>5, LoadingStays DEF LoadInv, Counts
  <2> QED
    BY <2>2, <2>4, <2>5, <2>6 DEF LoadInv, Onward
<1>2. [C!Next]_C!vars
  BY InvStep
<1> QED
  BY <1>1, <1>2, LoadThreads, LoadUsers, LoadCalls DEF Next

(***************************************************************************)
(* Where there is one table, loadAtomSpace brings the entire contents      *)
(* (CogIO.cc, loadAtomSpace and decode_atom_list): when it returns, and    *)
(* all that was called before was followed by a barrier, the table has     *)
(* every Atom of the server and every Value on them, whatever workers      *)
(* fetched them and whatever duplicates the buffer dropped.                *)
(***************************************************************************)
THEOREM LoadCompleteHolds ==
  ASSUME OneTable
  PROVE  Spec => []LoadComplete
<1>1. Init => LoadInv
  BY DEF Init, LoadInv, Vouched, Counts
<1>2. Inv /\ LoadInv => LoadComplete
  <2> SUFFICES ASSUME Inv, LoadInv, NEW t \in fresh
               PROVE  /\ known \subseteq have[t]
                      /\ \A a \in known : val[a] # 0 => lval[t][a] = val[a]
    BY DEF LoadComplete
  <2>1. t = AnyTable /\ known \subseteq Atom
    BY AtomAssumption DEF OneTable, AnyTable, Inv, Kept, TypeOK
  <2>2. AllDone
    BY DEF LoadInv, Vouched
  <2> QED
    BY <2>1, <2>2 DEF AllDone, Done
<1> QED
  BY <1>1, <1>2, InvHolds, LoadStep, PTL DEF Spec

=============================================================================
