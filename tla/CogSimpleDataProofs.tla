------------------------ MODULE CogSimpleDataProofs ------------------------
(***************************************************************************)
(* Proofs about the data that CogSimpleStorage and the server share, for   *)
(* any threads, Atoms and AtomSpaces, as long as the operations that use   *)
(* the socket without the mutex are called Alone: loadAtomSpace is a       *)
(* snapshot, and a message names the frame of its Atom, or one that this   *)
(* is built on, only if the server was told of it.                         *)
(*                                                                         *)
(* Commands of other threads may still be on the socket when loadAtomSpace *)
(* gets the mutex: until its first reply has come, all it knows is that it *)
(* will ask for Atoms of every type.  Once that reply is there, the server *)
(* has run everything that was sent before, and as the mutex is held until *)
(* the end, nobody can send a command that changes what the server holds.  *)
(*                                                                         *)
(* The frames are the second half of the module.                           *)
(***************************************************************************)
EXTENDS CogSimpleStorageProofs

-----------------------------------------------------------------------------
(***************************************************************************)
(* loadAtomSpace: the invariant.                                           *)
(***************************************************************************)
\* The steps that are left.
Left(q) == {q[i] : i \in 1..Len(q)}

\* The Atoms that a step brings.
Gets(s) ==
  IF s.do = "next" THEN s.rest
  ELSE IF s.do = "recv" /\ s.cmd = "cog-get-atoms" THEN OfType(s.arg) ELSE {}

\* The Atoms that the steps of S bring.
Brings(S) == UNION {Gets(s) : s \in S}

\* No reply has come yet.
Unread(S) == Atom \subseteq Brings(S) /\ \A s \in S : s.do # "next"

\* Thread u is in loadAtomSpace, and will have all Atoms at the end.
Loading(u) ==
  \/ Unread(Left(todo[u]))
  \/ /\ known \subseteq have \cup Brings(Left(todo[u]))
     /\ Held(todo[u][1])
     /\ \A i \in 1..Len(wire) : wire[i].cmd \in Loads

LoadInv == \A u \in User : op[u] = "loadAtomSpace" => Loading(u)

-----------------------------------------------------------------------------
(***************************************************************************)
(* The steps of a sequence.                                                *)
(***************************************************************************)
LEMMA LeftOne ==
  ASSUME NEW s
  PROVE  Left(<<s>>) = {s}
<1>1. Len(<<s>>) = 1 /\ <<s>>[1] = s
  OBVIOUS
<1> QED
  BY <1>1 DEF Left

LEMMA LeftJoin ==
  ASSUME NEW S, NEW p \in Seq(S), NEW q \in Seq(S)
  PROVE  p \o q \in Seq(S) /\ Left(p \o q) = Left(p) \cup Left(q)
<1> DEFINE r == p \o q
<1>1. /\ r \in Seq(S) /\ Len(p) \in Nat /\ Len(q) \in Nat /\ Len(r) = Len(p) + Len(q)
      /\ \A i \in 1..Len(p) : r[i] = p[i]
      /\ \A i \in 1..Len(q) : r[Len(p) + i] = q[i]
  BY ConcatProperties
<1> HIDE DEF r
<1>2. \A i \in 1..Len(p) : i \in 1..Len(r)
  BY <1>1
<1>3. \A i \in 1..Len(q) : Len(p) + i \in 1..Len(r)
  BY <1>1
<1>4. \A i \in 1..Len(r) : i \in 1..Len(p) \/ (i - Len(p) \in 1..Len(q) /\ Len(p) + (i - Len(p)) = i)
  BY <1>1
<1>5. Left(p) \subseteq Left(r)
  BY <1>1, <1>2 DEF Left
<1>6. Left(q) \subseteq Left(r)
  BY <1>1, <1>3 DEF Left
<1>7. ASSUME NEW i \in 1..Len(r)
      PROVE  r[i] \in Left(p) \cup Left(q)
  <2>1. CASE i \in 1..Len(p)
    BY <1>1, <2>1 DEF Left
  <2>2. CASE i \notin 1..Len(p)
    <3>1. i - Len(p) \in 1..Len(q) /\ r[i] = q[i - Len(p)]
      BY <1>1, <1>4, <2>2
    <3> QED
      BY <3>1 DEF Left
  <2> QED
    BY <2>1, <2>2
<1>8. Left(r) \subseteq Left(p) \cup Left(q)
  BY <1>7 DEF Left
<1> QED
  BY <1>1, <1>5, <1>6, <1>8 DEF r

LEMMA LeftTail ==
  ASSUME NEW S, NEW q \in Seq(S), q # <<>>
  PROVE  Tail(q) \in Seq(S) /\ Left(q) = {q[1]} \cup Left(Tail(q))
<1> DEFINE t == Tail(q)
<1>1. /\ t \in Seq(S) /\ Len(q) \in Nat /\ Len(q) > 0 /\ Len(t) = Len(q) - 1
      /\ \A i \in 1..Len(t) : t[i] = q[i + 1]
  BY HeadTailProperties, EmptySeq
<1> HIDE DEF t
<1>2. 1 \in 1..Len(q) /\ \A i \in 1..Len(t) : i + 1 \in 1..Len(q)
  BY <1>1
<1>3. {q[1]} \cup Left(t) \subseteq Left(q)
  BY <1>1, <1>2 DEF Left
<1>4. ASSUME NEW i \in 1..Len(q)
      PROVE  q[i] \in {q[1]} \cup Left(t)
  <2>1. CASE i = 1
    BY <2>1
  <2>2. CASE i # 1
    <3>1. i - 1 \in 1..Len(t) /\ (i - 1) + 1 = i
      BY <1>1, <2>2
    <3>2. t[i - 1] = q[i]
      BY <1>1, <3>1
    <3> QED
      BY <3>1, <3>2 DEF Left
  <2> QED
    BY <2>1, <2>2
<1>5. Left(q) \subseteq {q[1]} \cup Left(t)
  BY <1>4 DEF Left
<1> QED
  BY <1>1, <1>3, <1>5 DEF t

-----------------------------------------------------------------------------
(***************************************************************************)
(* The steps of other threads and of the server.                           *)
(***************************************************************************)
\* A call of loadAtomSpace is one of LoadAtomSpace, and asks for both types.
LEMMA LoadStarts ==
  ASSUME Inv, NEW u \in User, Operation(u), op'[u] = "loadAtomSpace"
  PROVE  Loading(u)'
<1>1. op \in [User -> Ops] /\ todo \in [User -> Seq(StepRec)]
  BY DEF Inv, Types
<1>2. \A f, q : Call(u, f, q) => f = "loadAtomSpace" /\ todo'[u] = q
  BY <1>1 DEF Call
<1>3. LoadAtomSpace(u)
  <2>1. ASSUME NEW a \in Atom
        PROVE  /\ ~StoreAtom(u, a) /\ ~SetProxy(u, a) /\ ~LoadValue(u, a) /\ ~RunQuery(u, a)
               /\ ~GetAtom(u, a)
    <3>1. ~StoreAtom(u, a) /\ ~SetProxy(u, a)
      BY <1>2 DEF StoreAtom, SetProxy
    <3>2. ~LoadValue(u, a) /\ ~RunQuery(u, a) /\ ~GetAtom(u, a)
      BY <1>2 DEF LoadValue, RunQuery, GetAtom
    <3> QED
      BY <3>1, <3>2
  <2>2. ASSUME NEW a \in Atom, NEW s \in Space
        PROVE  ~StoreValue(u, a, s) /\ ~UpdateValue(u, a, s)
    <3>1. /\ StoreValue(u, a, s) => \E q : Call(u, "storeValue", q)
          /\ UpdateValue(u, a, s) => \E q : Call(u, "updateValue", q)
      BY Zenon DEF StoreValue, UpdateValue
    <3> QED
      BY <1>2, <3>1
  <2>3. ASSUME NEW a \in Atom, NEW r \in BOOLEAN
        PROVE  ~RemoveAtom(u, a, r)
    BY <1>2 DEF RemoveAtom
  <2>4. ASSUME NEW a \in Atom, NEW c
        PROVE  ~FetchIncoming(u, a, c)
    BY <1>2 DEF FetchIncoming
  <2>5. ASSUME NEW type
        PROVE  ~LoadType(u, type)
    BY <1>2 DEF LoadType
  <2>6. ASSUME NEW s \in Space
        PROVE  ~StoreFrameDAG(u, s)
    <3>1. StoreFrameDAG(u, s) => \E q : Call(u, "storeFrameDAG", q)
      BY Zenon DEF StoreFrameDAG
    <3> QED
      BY <1>2, <3>1
  <2>7. ~StoreAtomSpace(u) /\ ~KillData(u) /\ ~LoadFrameDAG(u) /\ ~Barrier(u)
    BY <1>2 DEF StoreAtomSpace, KillData, LoadFrameDAG, Barrier
  <2>8. ~ProxyOpen(u) /\ ~ProxyClose(u) /\ ~Close(u) /\ ~Open(u)
    BY <1>2 DEF ProxyOpen, ProxyClose, Close, Open
  <2> QED
    BY <2>1, <2>2, <2>3, <2>4, <2>5, <2>6, <2>7, <2>8 DEF Operation
<1> DEFINE l == [do |-> "lock"]
           s1 == [do |-> "send", cmd |-> "cog-get-atoms", arg |-> "Node", frame |-> None]
           r1 == [do |-> "recv", cmd |-> "cog-get-atoms", arg |-> "Node", then |-> "list"]
           s2 == [do |-> "send", cmd |-> "cog-get-atoms", arg |-> "Link", frame |-> None]
           r2 == [do |-> "recv", cmd |-> "cog-get-atoms", arg |-> "Link", then |-> "list"]
           e == [do |-> "unlock"]
           S == {l, s1, r1, s2, r2, e}
<1>4. todo'[u] = <<l>> \o ((<<s1>> \o <<r1>>) \o (<<s2>> \o <<r2>>)) \o <<e>>
  BY <1>2, <1>3 DEF LoadAtomSpace, Locked, List, Ask, Send, Step
<1>5. Gets(r1) = Node /\ Gets(r2) = Link /\ \A s \in S : s.do # "next"
  BY DEF Gets, OfType
<1> HIDE DEF l, s1, r1, s2, r2, e
<1> DEFINE ls == <<l>>  es == <<e>>
           a1 == <<s1>>  b1 == <<r1>>  a2 == <<s2>>  b2 == <<r2>>
<1>6. /\ ls \in Seq(S) /\ es \in Seq(S) /\ Left(ls) = {l} /\ Left(es) = {e}
      /\ a1 \in Seq(S) /\ b1 \in Seq(S) /\ Left(a1) = {s1} /\ Left(b1) = {r1}
      /\ a2 \in Seq(S) /\ b2 \in Seq(S) /\ Left(a2) = {s2} /\ Left(b2) = {r2}
  <2>1. Left(ls) = {l} /\ Left(es) = {e}
    BY LeftOne
  <2>2. Left(a1) = {s1} /\ Left(b1) = {r1} /\ Left(a2) = {s2} /\ Left(b2) = {r2}
    BY LeftOne
  <2>3. \A x \in S : <<x>> \in Seq(S)
    OBVIOUS
  <2>4. l \in S /\ e \in S /\ s1 \in S /\ r1 \in S /\ s2 \in S /\ r2 \in S
    OBVIOUS
  <2> HIDE DEF S
  <2> QED
    BY <2>1, <2>2, <2>3, <2>4
<1>7. todo'[u] = ls \o ((a1 \o b1) \o (a2 \o b2)) \o es
  BY <1>4
<1> HIDE DEF S, ls, es, a1, b1, a2, b2
<1> DEFINE p1 == a1 \o b1  p2 == a2 \o b2  q == p1 \o p2  r == ls \o q
<1>8. p1 \in Seq(S) /\ p2 \in Seq(S) /\ Left(p1) = {s1, r1} /\ Left(p2) = {s2, r2}
  <2>a. a1 \in Seq(S) /\ b1 \in Seq(S)
    BY <1>6
  <2>b. a2 \in Seq(S) /\ b2 \in Seq(S)
    BY <1>6
  <2>1. p1 \in Seq(S) /\ Left(p1) = Left(a1) \cup Left(b1)
    BY <2>a, LeftJoin
  <2>2. p2 \in Seq(S) /\ Left(p2) = Left(a2) \cup Left(b2)
    BY <2>b, LeftJoin
  <2> HIDE DEF p1, p2
  <2> QED
    BY <1>6, <2>1, <2>2
<1> HIDE DEF p1, p2
<1>9. q \in Seq(S) /\ Left(q) = {s1, r1, s2, r2}
  BY <1>8, LeftJoin
<1> HIDE DEF q
<1>10. r \in Seq(S) /\ Left(r) = {l, s1, r1, s2, r2}
  <2>a. ls \in Seq(S) /\ q \in Seq(S)
    BY <1>6, <1>9
  <2>1. r \in Seq(S) /\ Left(r) = Left(ls) \cup Left(q)
    BY <2>a, LeftJoin
  <2> HIDE DEF r
  <2> QED
    BY <1>6, <1>9, <2>1
<1> HIDE DEF r
<1>11. Left(r \o es) = S
  <2>a. r \in Seq(S) /\ es \in Seq(S)
    BY <1>6, <1>10
  <2>1. Left(r \o es) = Left(r) \cup Left(es)
    BY <2>a, LeftJoin
  <2> QED
    BY <1>6, <1>10, <2>1 DEF S
<1>12. Left(todo'[u]) = S
  BY <1>7, <1>11 DEF r, q, p1, p2
<1>13. Unread(S)
  BY <1>5 DEF Unread, Brings, Atom, S
<1> QED
  BY <1>12, <1>13 DEF Loading

\* A thread that is not in a step of its own.
LEMMA LoadStays ==
  ASSUME NEW u \in User, Loading(u), todo'[u] = todo[u], known' \subseteq known,
         have \subseteq have', wire' = wire \/ wire' = <<>>
  PROVE  Loading(u)'
<1>1. Unread(Left(todo[u])) => Unread(Left(todo'[u]))
  OBVIOUS
<1>2. ASSUME \A i \in 1..Len(wire) : wire[i].cmd \in Loads
      PROVE  \A i \in 1..Len(wire') : wire'[i].cmd \in Loads
  <2>1. CASE wire' = wire
    BY <1>2, <2>1
  <2>2. CASE wire' = <<>>
    BY <2>2
  <2> QED
    BY <2>1, <2>2
<1> QED
  BY <1>1, <1>2 DEF Loading

\* What a thread's step may do to others and to the server.
LEMMA Effects ==
  ASSUME Inv, Unlocked \subseteq Alone, NEW v \in User, UserStep(v) \/ Operation(v)
  PROVE  /\ \A u \in User \ {v} : todo'[u] = todo[u] /\ op'[u] = op[u]
         /\ known' = known /\ have \subseteq have'
         /\ wire' = wire \/ wire' = <<>> \/ DoSend(v)
<1>1. op \in [User -> Ops] /\ todo \in [User -> Seq(StepRec)]
  BY DEF Inv, Types
<1>2. ASSUME NEW q, Advance(v, q)
      PROVE  \A u \in User \ {v} : todo'[u] = todo[u] /\ op'[u] = op[u]
  BY <1>1, <1>2 DEF Advance
<1>3. CASE Operation(v)
  <2>1. PICK f \in Ops : \E q : Call(v, f, q)
    BY <1>3, OperationStarts DEF Inv
  <2>2. PICK q : Call(v, f, q)
    BY <2>1
  <2> QED
    BY <1>1, <2>2 DEF Call, srvVars, locVars, sockVars
<1>4. CASE LockMtx(v) \/ UnlockMtx(v)
  BY <1>2, <1>4 DEF LockMtx, UnlockMtx, StepDone, srvVars, locVars, sockVars
<1>5. CASE DoSend(v)
  BY <1>2, <1>5 DEF DoSend, StepDone, Throw, srvVars, locVars
<1>6. CASE DoRecvFails(v)
  BY <1>2, <1>6 DEF DoRecvFails, Throw, srvVars, locVars, sockVars
<1>14. CASE SendSignals(v)
  BY <1>14 DEF SendSignals, srvVars, locVars, sockVars
<1>7. CASE RecvDrop(v) \/ RecvKeep(v) \/ RecvProbe(v) \/ RecvList(v) \/ RecvFrames(v)
  BY <1>2, <1>7 DEF RecvDrop, RecvKeep, RecvProbe, RecvList, RecvFrames, DoRecv, StepDone,
                    srvVars, locVars
<1>8. CASE \E then \in {"set", "keys"} : RecvSet(v, then)
  BY <1>2, <1>8 DEF RecvSet, DoRecv, StepDone, srvVars
<1>9. CASE SetValue(v)
  BY <1>2, <1>9 DEF SetValue, StepDone, srvVars, sockVars
<1>10. CASE DecodeAtom(v)
  BY <1>2, <1>10 DEF DecodeAtom, StepDone, srvVars, sockVars
<1>11. CASE StoreNext(v) \/ FindFrame(v) \/ CacheFrame(v) \/ EncodeAtom(v)
  <2>1. \E q : Advance(v, q)
    BY <1>11 DEF StoreNext, FindFrame, CacheFrame, EncodeAtom, StepDone
  <2>2. UNCHANGED <<sockVars, srvVars, locVars>>
    BY <1>11 DEF StoreNext, FindFrame, CacheFrame, EncodeAtom
  <2> QED
    BY <1>2, <2>1, <2>2 DEF srvVars, locVars, sockVars
<1>12. CASE SetFlags(v) \/ CloseSock(v)
  BY <1>2, <1>12 DEF SetFlags, CloseSock, StepDone, srvVars, locVars, sockVars
<1>13. CASE Connect(v)
  BY <1>2, <1>13 DEF Connect, StepDone, Throw, srvVars, locVars
<1> QED
  BY <1>3, <1>4, <1>5, <1>6, <1>7, <1>8, <1>9, <1>10, <1>11, <1>12, <1>13, <1>14 DEF UserStep

\* While thread u loads, the others do not disturb it.
LEMMA OthersStep ==
  ASSUME Inv, Unlocked \subseteq Alone, NEW u \in User, op[u] = "loadAtomSpace", Loading(u),
         NEW v \in User, v # u, UserStep(v) \/ Operation(v)
  PROVE  Loading(u)'
<1>1. /\ todo'[u] = todo[u] /\ known' = known /\ have \subseteq have'
      /\ wire' = wire \/ wire' = <<>> \/ DoSend(v)
  BY Effects
<1>2. CASE wire' = wire \/ wire' = <<>>
  BY <1>1, <1>2, LoadStays
<1>3. CASE DoSend(v)
  <2>1. Uses(v)
    BY <1>3, AtStep DEF Uses, DoSend, At, Inv
  <2>2. todo[u] # <<>>
    BY DEF Inv, Programs
  <2>3. ~Held(todo[u][1])
    BY <2>1, <2>2, OnlyOne DEF Inv
  <2> QED
    BY <1>1, <2>3 DEF Loading
<1> QED
  BY <1>1, <1>2, <1>3

LEMMA ServerStep ==
  ASSUME Inv, ServerExec \/ ServerDrops \/ UNCHANGED vars, LoadInv
  PROVE  LoadInv'
<1> SUFFICES ASSUME NEW u \in User, op'[u] = "loadAtomSpace" PROVE Loading(u)'
  BY DEF LoadInv
<1>1. UNCHANGED <<todo, op, have>>
  BY DEF ServerExec, ServerDrops, vars, userVars, locVars
<1>2. Loading(u)
  BY <1>1 DEF LoadInv
<1>3. CASE ServerDrops \/ UNCHANGED vars
  <2>1. known' = known /\ (wire' = wire \/ wire' = <<>>)
    BY <1>3 DEF ServerDrops, vars, srvVars, sockVars
  <2> QED
    BY <1>1, <1>2, <2>1, LoadStays
<1>4. CASE ServerExec
  <2> DEFINE m == Head(wire)
  <2>1. /\ wire # <<>> /\ Apply(m) /\ wire' = Tail(wire) /\ wire \in Seq(Msg) /\ m = Head(wire)
    BY <1>4 DEF ServerExec, Inv, Types
  <2> HIDE DEF m
  <2>2. /\ Len(wire) \in Nat /\ Len(wire) > 0 /\ m = wire[1]
        /\ Len(wire') = Len(wire) - 1 /\ \A i \in 1..Len(wire') : wire'[i] = wire[i + 1]
    BY <2>1, HeadTailProperties, EmptySeq
  <2>3. ASSUME \A i \in 1..Len(wire) : wire[i].cmd \in Loads
        PROVE  known' = known /\ \A i \in 1..Len(wire') : wire'[i].cmd \in Loads
    <3>1. 1 \in 1..Len(wire) /\ \A i \in 1..Len(wire') : i + 1 \in 1..Len(wire)
      BY <2>2
    <3>2. m.cmd \in Loads
      BY <2>2, <2>3, <3>1
    <3>3. known' = known
      BY <2>1, <3>2 DEF Apply, Loads
    <3> QED
      BY <2>2, <2>3, <3>1, <3>3
  <2> QED
    BY <1>1, <1>2, <2>3 DEF Loading
<1> QED
  BY <1>3, <1>4

-----------------------------------------------------------------------------
(***************************************************************************)
(* The steps of loadAtomSpace itself.                                      *)
(***************************************************************************)
\* A step that brings no Atoms is done.
LEMMA LoadGoesOn ==
  ASSUME Inv, NEW u \in User, op[u] = "loadAtomSpace", Loading(u), StepDone(u),
         Gets(todo[u][1]) = {}, todo[u][1].do # "unlock", UNCHANGED <<known, have>>,
         (\A i \in 1..Len(wire) : wire[i].cmd \in Loads)
           => \A i \in 1..Len(wire') : wire'[i].cmd \in Loads
  PROVE  Loading(u)'
<1> DEFINE x == todo[u][1]
           t == Tail(todo[u])
<1>1. todo[u] # <<>> /\ todo \in [User -> Seq(StepRec)]
  BY DEF Inv, Types, Programs
<1>2. todo'[u] = t
  BY <1>1 DEF StepDone, Advance
<1>3. (t # <<>> /\ Held(t[1])) <=> (x.do = "lock" \/ (Held(x) /\ x.do # "unlock"))
  BY <1>1, NextStep DEF Inv
<1>4. todo[u] \in Seq(StepRec)
  BY <1>1
<1>5. Left(todo[u]) = {x} \cup Left(t)
  BY <1>1, <1>4, LeftTail
<1>6. Gets(x) = {} /\ x.do # "unlock" /\ x = todo[u][1]
  OBVIOUS
<1> HIDE DEF x, t
<1>7. Brings(Left(todo[u])) = Brings(Left(t))
  BY <1>5, <1>6 DEF Brings
<1>8. CASE Unread(Left(todo[u]))
  BY <1>2, <1>5, <1>7, <1>8 DEF Loading, Unread
<1>9. CASE ~Unread(Left(todo[u]))
  BY <1>2, <1>3, <1>6, <1>7, <1>9 DEF Loading
<1> QED
  BY <1>8, <1>9

\* The first step, and what it is replaced by.
LEMMA LoadReplaced ==
  ASSUME Inv, NEW u \in User, op[u] = "loadAtomSpace", NEW p \in Seq(StepRec),
         Advance(u, p \o Tail(todo[u]))
  PROVE  /\ todo'[u] = p \o Tail(todo[u])
         /\ Left(todo[u]) = {todo[u][1]} \cup Left(Tail(todo[u]))
         /\ Left(todo'[u]) = Left(p) \cup Left(Tail(todo[u]))
<1>1. todo[u] # <<>> /\ todo \in [User -> Seq(StepRec)]
  BY DEF Inv, Types, Programs
<1>2. todo'[u] = p \o Tail(todo[u])
  BY <1>1 DEF Advance
<1>3. todo[u] \in Seq(StepRec)
  BY <1>1
<1> DEFINE q == todo[u]
<1>4. q \in Seq(StepRec) /\ q # <<>> /\ todo'[u] = p \o Tail(q)
  BY <1>1, <1>2, <1>3
<1> HIDE DEF q
<1>5. Tail(q) \in Seq(StepRec) /\ Left(q) = {q[1]} \cup Left(Tail(q))
  BY <1>4, LeftTail
<1> DEFINE t == Tail(q)
<1>6. t \in Seq(StepRec) /\ todo'[u] = p \o t
  BY <1>4, <1>5
<1> HIDE DEF t
<1>7. Left(p \o t) = Left(p) \cup Left(t)
  BY <1>6, LeftJoin
<1> QED
  BY <1>4, <1>5, <1>6, <1>7 DEF q, t

\* The reply to a request for all Atoms of a type.
LEMMA LoadReceives ==
  ASSUME Inv, Unlocked \subseteq Alone, NEW u \in User, op[u] = "loadAtomSpace", Loading(u),
         RecvList(u)
  PROVE  Loading(u)'
<1> DEFINE x == todo[u][1]
           b == [do |-> "next", rest |-> back[1].set]
           t == Tail(todo[u])
<1>1. DoRecv(u, "list") /\ UNCHANGED locVars /\ Advance(u, <<b>> \o t)
  BY DEF RecvList
<1>2. /\ todo[u] # <<>> /\ x.do = "recv" /\ x.then = "list" /\ StepOK(op[u], x, val)
      /\ x = todo[u][1] /\ ReplyOK(back[1]) /\ back[1].cmd = x.cmd /\ back[1].arg = x.arg
      /\ wire' = <<>> /\ back[1] \in Reply
  BY <1>1, RecvFacts
<1>3. UNCHANGED <<known, have>>
  BY <1>1 DEF DoRecv, srvVars, locVars
<1>4. known \subseteq Atom
  BY DEF Inv, Types
<1>5. x.cmd = "cog-get-atoms"
  BY <1>2 DEF StepOK, LoadOK
<1>6. back[1].set = known \cap OfType(x.arg)
  BY <1>2, <1>5 DEF ReplyOK
<1>7. b \in StepRec /\ b.do = "next" /\ Gets(b) = known \cap OfType(x.arg) /\ Held(b)
  BY <1>4, <1>6 DEF StepRec, Gets, Held
<1>8. Gets(x) = OfType(x.arg)
  BY <1>2, <1>5 DEF Gets
<1>9. <<b>> \in Seq(StepRec) /\ Left(<<b>>) = {b}
  BY <1>7, LeftOne
<1> DEFINE p == <<b>>
<1>10. p \in Seq(StepRec) /\ Left(p) = {b} /\ Advance(u, p \o Tail(todo[u]))
  BY <1>1, <1>9
<1> HIDE DEF p
<1>11. /\ todo'[u] = p \o t
       /\ Left(todo[u]) = {x} \cup Left(t)
       /\ Left(todo'[u]) = {b} \cup Left(t)
  BY <1>10, LoadReplaced
<1>12. todo'[u][1] = b
  <2>1. t \in Seq(StepRec)
    BY <1>2 DEF Inv, Types
  <2> HIDE DEF t, b
  <2>2. 1 \in 1..Len(p) /\ p[1] = b
    BY <1>10 DEF p
  <2> QED
    BY <1>10, <1>11, <2>1, <2>2, ConcatProperties
<1> HIDE DEF b, t, x
<1>13. Brings(Left(todo[u])) = OfType(x.arg) \cup Brings(Left(t))
  BY <1>8, <1>11 DEF Brings
<1>14. Brings(Left(todo'[u])) = (known \cap OfType(x.arg)) \cup Brings(Left(t))
  BY <1>7, <1>11 DEF Brings
<1>15. known \subseteq have \cup Brings(Left(todo[u]))
  BY <1>4 DEF Loading, Unread
<1>16. known \subseteq have \cup Brings(Left(todo'[u]))
  BY <1>13, <1>14, <1>15
<1>17. Len(wire') = 0
  BY <1>2
<1>18. \A i \in 1..Len(wire') : wire'[i].cmd \in Loads
  BY <1>17
<1> QED
  BY <1>3, <1>7, <1>12, <1>16, <1>18 DEF Loading

\* An Atom of the list goes into the table.
LEMMA LoadDecodes ==
  ASSUME Inv, NEW u \in User, op[u] = "loadAtomSpace", Loading(u), DecodeAtom(u)
  PROVE  Loading(u)'
<1> DEFINE x == todo[u][1]
           t == Tail(todo[u])
<1>1. /\ todo[u] # <<>> /\ Head(todo[u]) = x /\ x.do = "next" /\ StepOK(op[u], x, val)
      /\ x = todo[u][1]
  BY AtStep DEF Inv, DecodeAtom, At
<1>2. UNCHANGED <<known, wire>>
  BY DEF DecodeAtom, srvVars, sockVars
<1>3. Gets(x) = x.rest /\ x.rest \subseteq Atom
  BY <1>1 DEF StepOK, StepRec, Gets
<1>4. todo \in [User -> Seq(StepRec)] /\ Seq(StepRec) # {}
  BY EmptySeq DEF Inv, Types
<1>5. CASE x.rest = {}
  <2>1. StepDone(u) /\ UNCHANGED have
    BY <1>1, <1>5 DEF DecodeAtom
  <2>2. Gets(todo[u][1]) = {} /\ todo[u][1].do # "unlock"
    BY <1>1, <1>3, <1>5
  <2> HIDE DEF x, t
  <2> QED
    BY <1>2, <2>1, <2>2, LoadGoesOn
<1>6. CASE x.rest # {}
  <2>1. PICK a \in x.rest :
          /\ have' = have \cup WithOutgoing(a)
          /\ Advance(u, FetchKeys(a) \o <<[do |-> "next", rest |-> x.rest \ {a}]>> \o t)
    BY <1>1, <1>6 DEF DecodeAtom
  <2> DEFINE b == [do |-> "next", rest |-> x.rest \ {a}]
             k1 == [do |-> "send", cmd |-> "cog-keys->alist", arg |-> a, frame |-> None]
             k2 == [do |-> "recv", cmd |-> "cog-keys->alist", arg |-> a, then |-> "keys"]
             c1 == <<k1>>  c2 == <<k2>>  c3 == <<b>>  d == c1 \o c2  p == d \o c3
  <2>2. a \in Atom
    BY <1>3
  <2>3. /\ b \in StepRec /\ k1 \in StepRec /\ k2 \in StepRec
        /\ Gets(b) = x.rest \ {a} /\ Gets(k1) = {} /\ Gets(k2) = {} /\ Held(k1)
    BY <1>3, <2>2 DEF StepRec, Gets, Held, Cmd, Arg, Use, Stamped, Proxies
  <2>4. Advance(u, p \o Tail(todo[u]))
    BY <2>1 DEF FetchKeys, Ask, Send
  <2>5. a \in have'
    BY <2>1 DEF WithOutgoing
  <2>6. /\ c1 \in Seq(StepRec) /\ Left(c1) = {k1} /\ 1 \in 1..Len(c1) /\ c1[1] = k1
        /\ c2 \in Seq(StepRec) /\ Left(c2) = {k2}
        /\ c3 \in Seq(StepRec) /\ Left(c3) = {b}
    <3> HIDE DEF k1, k2, b
    <3>1. Left(c1) = {k1} /\ Left(c2) = {k2} /\ Left(c3) = {b}
      BY LeftOne
    <3>2. c1 \in Seq(StepRec) /\ c2 \in Seq(StepRec) /\ c3 \in Seq(StepRec)
      BY <2>3
    <3>3. 1 \in 1..Len(c1) /\ c1[1] = k1
      OBVIOUS
    <3> QED
      BY <3>1, <3>2, <3>3
  <2> HIDE DEF k1, k2, b, t, x, c1, c2, c3
  <2>7. d \in Seq(StepRec) /\ Left(d) = {k1, k2} /\ 1 \in 1..Len(d) /\ d[1] = k1
    <3>1. c1 \in Seq(StepRec) /\ c2 \in Seq(StepRec)
      BY <2>6
    <3>2. d \in Seq(StepRec) /\ Left(d) = Left(c1) \cup Left(c2)
      BY <3>1, LeftJoin
    <3>3. Len(d) = Len(c1) + Len(c2) /\ \A i \in 1..Len(c1) : d[i] = c1[i]
      BY <3>1, ConcatProperties
    <3>4. Len(c1) \in Nat /\ Len(c2) \in Nat /\ 1 \in 1..Len(c1) /\ c1[1] = k1
      BY <2>6
    <3> HIDE DEF d
    <3>5. 1 \in 1..Len(d) /\ d[1] = k1
      BY <3>3, <3>4
    <3> QED
      BY <2>6, <3>2, <3>5
  <2> HIDE DEF d
  <2>8. p \in Seq(StepRec) /\ Left(p) = {k1, k2, b} /\ 1 \in 1..Len(p) /\ p[1] = k1
    <3>1. d \in Seq(StepRec) /\ c3 \in Seq(StepRec)
      BY <2>6, <2>7
    <3>2. p \in Seq(StepRec) /\ Left(p) = Left(d) \cup Left(c3)
      BY <3>1, LeftJoin
    <3>3. Len(p) = Len(d) + Len(c3) /\ \A i \in 1..Len(d) : p[i] = d[i]
      BY <3>1, ConcatProperties
    <3>4. Len(d) \in Nat /\ Len(c3) \in Nat /\ 1 \in 1..Len(d) /\ d[1] = k1
      BY <2>7, <3>1
    <3> HIDE DEF p
    <3>5. 1 \in 1..Len(p) /\ p[1] = k1
      BY <3>3, <3>4
    <3> QED
      BY <2>6, <2>7, <3>2, <3>5
  <2> HIDE DEF p
  <2>10. /\ todo'[u] = p \o t
         /\ Left(todo[u]) = {x} \cup Left(t)
         /\ Left(todo'[u]) = {k1, k2, b} \cup Left(t)
    BY <2>4, <2>8, LoadReplaced DEF t, x
  <2>11. todo'[u][1] = k1
    <3>1. t \in Seq(StepRec)
      BY <1>1, <1>4 DEF t
    <3>2. p \in Seq(StepRec) /\ 1 \in 1..Len(p)
      BY <2>8
    <3>3. (p \o t)[1] = p[1]
      BY <3>1, <3>2, ConcatProperties
    <3> QED
      BY <2>8, <2>10, <3>3
  <2>12. Brings(Left(todo[u])) = x.rest \cup Brings(Left(t))
    BY <1>3, <2>10 DEF Brings
  <2>13. Brings(Left(todo'[u])) = (x.rest \ {a}) \cup Brings(Left(t))
    BY <2>3, <2>10 DEF Brings
  <2>14. ~Unread(Left(todo[u]))
    BY <1>1, <2>10 DEF Unread
  <2>15. known \subseteq have \cup Brings(Left(todo[u]))
         /\ \A i \in 1..Len(wire) : wire[i].cmd \in Loads
    BY <2>14 DEF Loading
  <2>16. known' \subseteq have' \cup Brings(Left(todo'[u]))
    BY <1>2, <2>1, <2>5, <2>12, <2>13, <2>15
  <2> QED
    BY <1>2, <2>3, <2>11, <2>15, <2>16 DEF Loading
<1> QED
  BY <1>5, <1>6

\* A step of the thread that loads.
LEMMA OwnStep ==
  ASSUME Inv, Unlocked \subseteq Alone, NEW u \in User, op[u] = "loadAtomSpace", Loading(u),
         UserStep(u), op'[u] = "loadAtomSpace"
  PROVE  Loading(u)'
<1> DEFINE x == todo[u][1]
<1>1. /\ todo[u] # <<>> /\ Head(todo[u]) = x /\ StepOK(op[u], x, val) /\ x = todo[u][1]
      /\ Tail(todo[u]) # <<>> => x.do # "unlock"
  BY AtStep DEF Inv, Programs, Follows
<1>2. /\ x.do \in {"lock", "send", "recv", "next", "unlock"}
      /\ x.do \in {"send", "recv"} => x.cmd \in Loads
      /\ x.do = "recv" => x.then \in {"list", "keys"}
      /\ x.do = "recv" /\ x.then = "keys" => x.cmd = "cog-keys->alist"
  BY <1>1 DEF StepOK, LoadOK, Loads, UseOK
<1>3. op \in [User -> Ops]
  BY DEF Inv, Types
<1>4. ~Advance(u, <<>>)
  BY <1>3 DEF Advance
<1> HIDE DEF x
<1>5. CASE LockMtx(u)
  <2>1. Head(todo[u]).do = "lock" /\ StepDone(u) /\ UNCHANGED <<known, have, wire>>
    BY <1>5 DEF LockMtx, At, srvVars, locVars, sockVars
  <2>2. Gets(todo[u][1]) = {} /\ todo[u][1].do # "unlock"
    BY <1>1, <2>1 DEF Gets
  <2> QED
    BY <2>1, <2>2, LoadGoesOn
<1>6. CASE UnlockMtx(u)
  <2>1. Head(todo[u]).do = "unlock" /\ Advance(u, Tail(todo[u]))
    BY <1>6 DEF UnlockMtx, At, StepDone
  <2> QED
    BY <1>1, <1>4, <2>1
<1>7. CASE DoSend(u)
  <2>1. /\ Head(todo[u]).do = "send" /\ StepDone(u) /\ UNCHANGED <<known, have>>
        /\ wire' = IF eof THEN wire ELSE Append(wire, Message(u, Head(todo[u])))
    BY <1>4, <1>7 DEF DoSend, At, srvVars, locVars, Throw
  <2>2. Gets(todo[u][1]) = {} /\ todo[u][1].do # "unlock" /\ x.do = "send" /\ x.cmd \in Loads
    BY <1>1, <1>2, <2>1 DEF Gets
  <2> DEFINE m == Message(u, x)
  <2>3. m.cmd \in Loads /\ m \in Msg
    <3>1. x.cmd \in Cmd /\ x.arg \in Arg /\ x.frame \in Space \cup {None}
      BY <1>1, <2>2 DEF StepOK, StepRec
    <3> QED
      BY <2>2, <3>1 DEF Message, Msg
  <2> HIDE DEF m
  <2>4. wire' = wire \/ wire' = Append(wire, m)
    BY <1>1, <2>1 DEF m
  <2>5. wire \in Seq(Msg)
    BY DEF Inv, Types
  <2>6. ASSUME \A i \in 1..Len(wire) : wire[i].cmd \in Loads
        PROVE  \A i \in 1..Len(wire') : wire'[i].cmd \in Loads
    <3>1. CASE wire' = wire
      BY <2>6, <3>1
    <3>2. CASE wire' = Append(wire, m)
      <4>1. /\ Len(wire) \in Nat /\ Len(wire') = Len(wire) + 1 /\ wire'[Len(wire) + 1] = m
            /\ \A i \in 1..Len(wire) : wire'[i] = wire[i]
        BY <2>3, <2>5, <3>2, AppendProperties
      <4>2. \A i \in 1..Len(wire') : i = Len(wire) + 1 \/ i \in 1..Len(wire)
        BY <4>1
      <4> QED
        BY <2>3, <2>6, <4>1, <4>2
    <3> QED
      BY <2>4, <3>1, <3>2
  <2> QED
    BY <2>1, <2>2, <2>6, LoadGoesOn
<1>8. CASE \E then \in {"set", "keys"} : RecvSet(u, then)
  <2>1. PICK then \in {"set", "keys"} : RecvSet(u, then)
    BY <1>8
  <2>2. /\ Head(todo[u]).do = "recv" /\ Head(todo[u]).then = then /\ StepDone(u)
        /\ UNCHANGED <<known, have, wire>>
    BY <2>1 DEF RecvSet, DoRecv, At, srvVars
  <2>3. Gets(todo[u][1]) = {} /\ todo[u][1].do # "unlock"
    BY <1>1, <1>2, <2>2 DEF Gets
  <2> QED
    BY <2>2, <2>3, LoadGoesOn
<1>9. CASE RecvList(u)
  BY <1>9, LoadReceives
<1>10. CASE DecodeAtom(u)
  BY <1>10, LoadDecodes
<1>11. ~DoRecvFails(u)
  BY <1>4 DEF DoRecvFails, Throw
<1>12. ~RecvDrop(u) /\ ~RecvKeep(u) /\ ~RecvProbe(u) /\ ~RecvFrames(u)
  BY <1>1, <1>2 DEF RecvDrop, RecvKeep, RecvProbe, RecvFrames, DoRecv, At
<1>13. ~SetValue(u) /\ ~StoreNext(u) /\ ~FindFrame(u) /\ ~CacheFrame(u) /\ ~EncodeAtom(u)
  BY <1>1, <1>2 DEF SetValue, StoreNext, FindFrame, CacheFrame, EncodeAtom, At
<1>14. ~SetFlags(u) /\ ~CloseSock(u) /\ ~Connect(u)
  BY <1>1, <1>2 DEF SetFlags, CloseSock, Connect, At
<1>15. CASE SendSignals(u)
  <2>1. UNCHANGED <<todo, known, have, wire>>
    BY <1>15 DEF SendSignals, srvVars, locVars, sockVars
  <2> QED
    BY <2>1, LoadStays
<1> QED
  BY <1>5, <1>6, <1>7, <1>8, <1>9, <1>10, <1>11, <1>12, <1>13, <1>14, <1>15 DEF UserStep

-----------------------------------------------------------------------------
LEMMA LoadInit == Init => LoadInv
BY DEF Init, LoadInv

LEMMA LoadStep ==
  ASSUME Inv, LoadInv, Unlocked \subseteq Alone, [Next]_vars
  PROVE  LoadInv'
<1>1. ASSUME NEW v \in User, UserStep(v) \/ Operation(v),
             NEW u \in User, op'[u] = "loadAtomSpace"
      PROVE  Loading(u)'
  <2>1. CASE u # v
    <3>1. op[u] = "loadAtomSpace"
      BY <1>1, <2>1, Effects
    <3>2. Loading(u)
      BY <3>1 DEF LoadInv
    <3> QED
      BY <1>1, <2>1, <3>1, <3>2, OthersStep
  <2>2. CASE u = v /\ Operation(u)
    BY <1>1, <2>2, LoadStarts
  <2>3. CASE u = v /\ UserStep(u)
    <3>1. todo[u] # <<>> /\ (op' = op \/ \E q : Advance(u, q))
      <4>1. todo[u] # <<>>
        BY <2>3 DEF UserStep, LockMtx, UnlockMtx, DoSend, SendSignals, DoRecvFails, RecvDrop,
                    RecvKeep, RecvSet, RecvProbe, RecvList, RecvFrames, DoRecv, SetValue,
                    DecodeAtom, StoreNext, FindFrame, CacheFrame, EncodeAtom, SetFlags, CloseSock,
                    Connect, At
      <4>2. CASE LockMtx(u) \/ UnlockMtx(u) \/ DoSend(u) \/ DoRecvFails(u) \/ Connect(u)
        BY <4>1, <4>2 DEF LockMtx, UnlockMtx, DoSend, DoRecvFails, Connect, StepDone, Throw
      <4>3. CASE \/ RecvDrop(u) \/ RecvKeep(u) \/ RecvProbe(u) \/ RecvList(u) \/ RecvFrames(u)
                 \/ \E then \in {"set", "keys"} : RecvSet(u, then)
        BY <4>1, <4>3 DEF RecvDrop, RecvKeep, RecvProbe, RecvList, RecvFrames, RecvSet, StepDone
      <4>4. CASE SetValue(u) \/ DecodeAtom(u) \/ StoreNext(u) \/ FindFrame(u) \/ CacheFrame(u)
        BY <4>1, <4>4 DEF SetValue, DecodeAtom, StoreNext, FindFrame, CacheFrame, StepDone
      <4>5. CASE EncodeAtom(u) \/ SetFlags(u) \/ CloseSock(u)
        BY <4>1, <4>5 DEF EncodeAtom, SetFlags, CloseSock, StepDone
      <4>6. CASE SendSignals(u)
        BY <4>1, <4>6 DEF SendSignals
      <4> QED
        BY <2>3, <4>2, <4>3, <4>4, <4>5, <4>6 DEF UserStep
    <3>2. op[u] = "loadAtomSpace"
      <4>1. op \in [User -> Ops]
        BY DEF Inv, Types
      <4> QED
        BY <1>1, <3>1, <4>1 DEF Advance
    <3>3. Loading(u)
      BY <3>2 DEF LoadInv
    <3> QED
      BY <1>1, <2>3, <3>2, <3>3, OwnStep
  <2> QED
    BY <1>1, <2>1, <2>2, <2>3
<1>2. CASE ServerExec \/ ServerDrops \/ UNCHANGED vars
  BY <1>2, ServerStep
<1> QED
  BY <1>1, <1>2 DEF Next, LoadInv

LEMMA LoadSnapshot ==
  ASSUME Inv, LoadInv
  PROVE  LoadIsSnapshot
<1> SUFFICES ASSUME NEW u \in User, op[u] = "loadAtomSpace", At(u, "unlock")
             PROVE  known \subseteq have
  BY DEF LoadIsSnapshot
<1>1. /\ todo[u] # <<>> /\ todo[u][1].do = "unlock" /\ Tail(todo[u]) = <<>>
  BY AtStep DEF Inv, At, Follows
<1>2. todo[u] \in Seq(StepRec) /\ known \subseteq Atom
  BY DEF Inv, Types
<1>3. Left(todo[u]) = {todo[u][1]} \cup Left(Tail(todo[u]))
  BY <1>1, <1>2, LeftTail
<1>4. Left(<<>>) = {}
  <2>1. Len(<<>>) = 0
    OBVIOUS
  <2> QED
    BY <2>1 DEF Left
<1>5. Brings(Left(todo[u])) = {}
  BY <1>1, <1>3, <1>4 DEF Brings, Gets
<1>6. Loading(u)
  BY DEF LoadInv
<1> QED
  BY <1>2, <1>5, <1>6 DEF Loading, Unread

(***************************************************************************)
(* loadAtomSpace is a snapshot: when it comes to let go of the mutex, the  *)
(* table holds all the Atoms that the server has, however many threads     *)
(* store and remove Atoms.                                                 *)
(***************************************************************************)
THEOREM LoadIsSnapshotHolds ==
  ASSUME Unlocked \subseteq Alone
  PROVE  Spec => []LoadIsSnapshot
<1>1. Spec => []LoadInv
  BY InvHolds, LoadInit, LoadStep, PTL DEF Spec
<1> QED
  BY <1>1, InvHolds, LoadSnapshot, PTL

-----------------------------------------------------------------------------
(***************************************************************************)
(* The frames that the server knows: the invariant.                        *)
(*                                                                         *)
(* A step may count on a frame (Owes): to name it in a message about an    *)
(* Atom that lives there or above, or to put it into the cache.  A step    *)
(* may see to it that the server is told of frames (Covers).  What is left *)
(* of an operation is Safe if every step finds what it counts on among the *)
(* frames that the server knows or was sent (Told), or that the steps      *)
(* before it see to.  The cache holds no other frames either, but for the  *)
(* moments between the server running the command of kill_data and         *)
(* kill_data emptying the cache (Clearing), when nobody else stores.       *)
(***************************************************************************)
\* The frame that a message about Atom a names, if it is that of a or one below.
Own(a, frame) == ({frame} \ {None}) \cap Below[Home[a]]

\* The frames that a step counts on, _multi_space being m.
Owes(s, m) ==
  IF s.do = "encode" /\ m THEN Own(s.arg, s.space)
  ELSE IF s.do = "cache" THEN s.rest
  ELSE IF s.do = "send" THEN Own(s.arg, s.frame) ELSE {}

\* The frames that a message tells the server of, and those that a step sees to:
\* writeFrame sends the frame if it is not in the cache.
Tells(s) == IF s.cmd = "define" THEN Below[s.arg] ELSE {}
Covers(s, m) ==
  IF s.do = "find" /\ m THEN Below[s.space]
  ELSE IF s.do = "send" THEN Tells(s) ELSE {}

Safe(q, T, m) ==
  \A i \in 1..Len(q) :
    Owes(q[i], m) \subseteq T \cup UNION {Covers(q[j], m) : j \in 1..(i - 1)}

\* The frames that the server will know once it has run n messages of the socket,
\* and all of them.
ToldBy(n) == defined \cup UNION {Tells(wire[i]) : i \in 1..n}
Told == ToldBy(Len(wire))

\* The steps that operation f may have.
Fits(f, s) ==
  /\ f \notin Stores => /\ s.do \notin {"find", "encode", "cache", "each", "several"}
                        /\ s.do = "send" => s.frame = None
  /\ f = "storeFrameDAG" => s.do \notin {"encode", "each"}
  /\ s.do = "find" /\ s.force => f = "storeFrameDAG"
  /\ s.do = "several" => f = "storeFrameDAG"
  /\ s.do = "recv" /\ s.cmd = "cog-atomspace-clear" => f = "kill_data"
  /\ s.do \in {"single", "forget"} => f = "kill_data"
  /\ s.do = "shut" => f = "close"
  /\ s.do = "connect" => f = "open"
  /\ f = "open" => s.do \in {"lock", "connect", "unlock"}

\* What may be left of kill_data, and of close.
K1 == <<[do |-> "unlock"]>>
K2 == Step("forget") \o K1
K3 == Step("single") \o K2
K4 == <<[do |-> "recv", cmd |-> "cog-atomspace-clear", arg |-> None, then |-> "drop"]>> \o K3
K5 == Send("cog-atomspace-clear", None) \o K4
K6 == Step("lock") \o K5
C1 == Step("shut")
C2 == <<[do |-> "recv", cmd |-> "cog-proxy-close", arg |-> None, then |-> "drop"]>> \o C1
C3 == Send("cog-proxy-close", None) \o C2
C4 == Step("unlock") \o C3
C5 == Send("cog-barrier", None) \o C4
C6 == Step("lock") \o C5

\* kill_data has sent its command, and has not emptied the cache yet.
Clearing(u) == op[u] = "kill_data" /\ todo[u] \in {K4, K3, K2}

\* No connection was lost, and no store overlapped with kill_data, or with another store
\* before _multi_space was set.
Calm ==
  /\ ~eof
  /\ ~connected => wire = <<>>
  /\ \A u \in User : op[u] = "close" /\ todo[u] = C1 => wire = <<>>
  /\ \A u \in User : op[u] = "open" /\ [do |-> "connect"] \in Left(todo[u]) => wire = <<>>
  /\ \A u, v \in User : op[u] \in Stores => op[v] # "kill_data"
  /\ ~multi => \A u, v \in User : op[u] \in Stores /\ op[v] \in Stores => u = v
  /\ \A i \in 1..Len(wire) : Own(wire[i].arg, wire[i].frame) \subseteq ToldBy(i - 1)
  /\ \A u \in User : Safe(todo[u], Told, multi)
  /\ frames \subseteq Told \/ \E u \in User : Clearing(u)

FrameInv ==
  /\ \A u \in User : \A s \in Left(todo[u]) : Fits(op[u], s)
  /\ \A u \in User : op[u] = "kill_data" => todo[u] \in {K6, K5, K4, K3, K2, K1}
  /\ \A u \in User : op[u] = "close" => todo[u] \in {C6, C5, C4, C3, C2, C1}
  /\ \A s \in defined : Below[s] \subseteq defined
  /\ ~raced /\ lost = 0 => Calm

-----------------------------------------------------------------------------
(***************************************************************************)
(* Steps put in front of others.                                           *)
(***************************************************************************)
LEMMA Cons ==
  ASSUME NEW S, NEW a \in S, NEW q \in Seq(S)
  PROVE  LET r == <<a>> \o q
         IN  /\ r \in Seq(S) /\ r # <<>> /\ r[1] = a /\ Tail(r) = q
             /\ Len(r) = Len(q) + 1 /\ \A i \in 1..Len(q) : r[i + 1] = q[i]
             /\ Left(r) = {a} \cup Left(q)
<1> DEFINE p == <<a>>
           r == p \o q
<1>1. p \in Seq(S) /\ Len(p) = 1 /\ p[1] = a
  OBVIOUS
<1>2. Tail(r) = q /\ r # <<>>
  OBVIOUS
<1> HIDE DEF p
<1>3. /\ r \in Seq(S) /\ Len(r) = Len(q) + 1 /\ r[1] = a
      /\ \A i \in 1..Len(q) : r[i + 1] = q[i]
  <2>1. /\ r \in Seq(S) /\ Len(r) = Len(p) + Len(q)
        /\ \A i \in 1..Len(p) : r[i] = p[i]
        /\ \A i \in 1..Len(q) : r[Len(p) + i] = q[i]
    <3>1. p \in Seq(S)
      BY <1>1
    <3> QED
      BY <3>1, ConcatProperties
  <2>2. Len(q) \in Nat
    OBVIOUS
  <2> HIDE DEF r
  <2> QED
    BY <1>1, <2>1, <2>2
<1> HIDE DEF r
<1>4. Left(r) = {r[1]} \cup Left(Tail(r))
  BY <1>2, <1>3, LeftTail
<1> QED
  BY <1>2, <1>3, <1>4 DEF r, p

LEMMA Uncons ==
  ASSUME NEW S, NEW q \in Seq(S), q # <<>>
  PROVE  /\ q[1] \in S /\ Tail(q) \in Seq(S) /\ q = <<q[1]>> \o Tail(q)
         /\ Left(q) = {q[1]} \cup Left(Tail(q))
<1> DEFINE t == Tail(q)
<1>1. /\ t \in Seq(S) /\ Len(q) \in Nat /\ Len(q) > 0 /\ Len(t) = Len(q) - 1
      /\ \A i \in 1..Len(t) : t[i] = q[i + 1]
  BY HeadTailProperties, EmptySeq
<1>2. q[1] \in S
  BY <1>1, ElementOfSeq
<1>3. Left(q) = {q[1]} \cup Left(t)
  BY LeftTail
<1> HIDE DEF t
<1> DEFINE r == <<q[1]>> \o t
<1>4. /\ r \in Seq(S) /\ r[1] = q[1] /\ Len(r) = Len(t) + 1
      /\ \A i \in 1..Len(t) : r[i + 1] = t[i]
  BY <1>1, <1>2, Cons
<1> HIDE DEF r
<1>5. ASSUME NEW i \in 1..Len(q)
      PROVE  q[i] = r[i]
  <2>1. CASE i = 1
    BY <1>4, <2>1
  <2>2. CASE i # 1
    <3>1. i - 1 \in 1..Len(t) /\ (i - 1) + 1 = i
      BY <1>1, <2>2
    <3> QED
      BY <1>1, <1>4, <3>1
  <2> QED
    BY <2>1, <2>2
<1>6. Len(q) = Len(r)
  BY <1>1, <1>4
<1>7. q = r
  BY <1>4, <1>5, <1>6, SeqEqual
<1> QED
  BY <1>1, <1>2, <1>3, <1>7 DEF r, t

\* A step in front of safe steps may count on what is told, and they on it.
LEMMA SafeCons ==
  ASSUME NEW S, NEW a \in S, NEW q \in Seq(S), NEW T, NEW m
  PROVE  Safe(<<a>> \o q, T, m) <=>
           Owes(a, m) \subseteq T /\ Safe(q, T \cup Covers(a, m), m)
<1> DEFINE r == <<a>> \o q
<1>1. /\ r \in Seq(S) /\ r[1] = a /\ Len(r) = Len(q) + 1 /\ Len(q) \in Nat
      /\ \A i \in 1..Len(q) : r[i + 1] = q[i]
  BY Cons
<1> DEFINE U(s, i) == UNION {Covers(s[j], m) : j \in 1..(i - 1)}
<1> HIDE DEF r
<1>2. U(r, 1) = {}
  OBVIOUS
<1>3. ASSUME NEW i \in 1..Len(q)
      PROVE  U(r, i + 1) = Covers(a, m) \cup U(q, i)
  <2>1. \A k \in 1..((i + 1) - 1) :
          r[k] = a \/ (k - 1 \in 1..(i - 1) /\ r[k] = q[k - 1])
    <3>1. \A k \in 1..((i + 1) - 1) :
            k = 1 \/ (k - 1 \in 1..(i - 1) /\ k - 1 \in 1..Len(q) /\ k = (k - 1) + 1)
      BY <1>1
    <3> QED
      BY <1>1, <3>1
  <2>2. \A j \in 1..(i - 1) : j + 1 \in 1..((i + 1) - 1) /\ r[j + 1] = q[j]
    BY <1>1
  <2>3. 1 \in 1..((i + 1) - 1) /\ r[1] = a
    BY <1>1
  <2>4. U(r, i + 1) \subseteq Covers(a, m) \cup U(q, i)
    BY <2>1
  <2>5. Covers(a, m) \subseteq U(r, i + 1)
    BY <2>3
  <2>6. U(q, i) \subseteq U(r, i + 1)
    BY <2>2
  <2> QED
    BY <2>4, <2>5, <2>6
<1> HIDE DEF U
<1>4. Safe(r, T, m) <=> \A i \in 1..Len(r) : Owes(r[i], m) \subseteq T \cup U(r, i)
  BY DEF Safe, U
<1>5. Safe(q, T \cup Covers(a, m), m) <=>
        \A i \in 1..Len(q) : Owes(q[i], m) \subseteq (T \cup Covers(a, m)) \cup U(q, i)
  BY DEF Safe, U
<1>6. (\A i \in 1..Len(r) : Owes(r[i], m) \subseteq T \cup U(r, i)) <=>
        /\ Owes(r[1], m) \subseteq T \cup U(r, 1)
        /\ \A i \in 1..Len(q) : Owes(r[i + 1], m) \subseteq T \cup U(r, i + 1)
  <2>1. 1 \in 1..Len(r) /\ \A i \in 1..Len(q) : i + 1 \in 1..Len(r)
    BY <1>1
  <2>2. \A k \in 1..Len(r) : k = 1 \/ (k - 1 \in 1..Len(q) /\ k = (k - 1) + 1)
    BY <1>1
  <2> QED
    BY <2>1, <2>2
<1>7. \A i \in 1..Len(q) :
        Owes(r[i + 1], m) \subseteq T \cup U(r, i + 1)
          <=> Owes(q[i], m) \subseteq (T \cup Covers(a, m)) \cup U(q, i)
  BY <1>1, <1>3
<1> QED
  BY <1>1, <1>2, <1>4, <1>5, <1>6, <1>7 DEF r

LEMMA SafeEmpty ==
  ASSUME NEW T, NEW m
  PROVE  Safe(<<>>, T, m)
<1>1. Len(<<>>) = 0
  OBVIOUS
<1> QED
  BY <1>1 DEF Safe

\* More is told.
LEMMA SafeMore ==
  ASSUME NEW q, NEW T, NEW U, NEW m, Safe(q, T, m), T \subseteq U
  PROVE  Safe(q, U, m)
<1> SUFFICES ASSUME NEW i \in 1..Len(q)
             PROVE  Owes(q[i], m) \subseteq U \cup UNION {Covers(q[j], m) : j \in 1..(i - 1)}
  BY DEF Safe
<1>1. Owes(q[i], m) \subseteq T \cup UNION {Covers(q[j], m) : j \in 1..(i - 1)}
  BY DEF Safe
<1> QED
  BY <1>1

\* Operations that do not store count on no frames.
LEMMA SafeIdle ==
  ASSUME NEW f, f \notin Stores, NEW q, \A s \in Left(q) : Fits(f, s), NEW T, NEW m
  PROVE  Safe(q, T, m)
<1>1. ASSUME NEW i \in 1..Len(q)
      PROVE  Owes(q[i], m) = {}
  <2>1. Fits(f, q[i])
    BY DEF Left
  <2> QED
    BY <2>1 DEF Fits, Owes, Own
<1> QED
  BY <1>1 DEF Safe

\* Steps that encode nothing stay safe when _multi_space is set.
LEMMA SafeFlag ==
  ASSUME NEW q, \A s \in Left(q) : s.do # "encode", NEW T, NEW m \in BOOLEAN, Safe(q, T, m)
  PROVE  Safe(q, T, TRUE)
<1> SUFFICES ASSUME NEW i \in 1..Len(q)
             PROVE  Owes(q[i], TRUE) \subseteq T \cup UNION {Covers(q[j], TRUE) : j \in 1..(i - 1)}
  BY DEF Safe
<1>1. Owes(q[i], m) \subseteq T \cup UNION {Covers(q[j], m) : j \in 1..(i - 1)}
  BY DEF Safe
<1>2. Owes(q[i], TRUE) = Owes(q[i], m)
  <2>1. q[i].do # "encode"
    BY DEF Left
  <2> QED
    BY <2>1 DEF Owes
<1>3. \A j \in 1..(i - 1) : Covers(q[j], m) \subseteq Covers(q[j], TRUE)
  BY DEF Covers
<1> QED
  BY <1>1, <1>2, <1>3

-----------------------------------------------------------------------------
(***************************************************************************)
(* What is left of kill_data and of close.                                 *)
(***************************************************************************)
LEMMA FormSteps ==
  /\ \A d \in {"lock", "unlock", "single", "several", "forget", "shut", "connect"} :
       [do |-> d] \in StepRec
  /\ \A c \in Cmd, a \in Arg : [do |-> "send", cmd |-> c, arg |-> a, frame |-> None] \in StepRec
  /\ \A c \in Cmd, a \in Arg, h \in Use :
       [do |-> "recv", cmd |-> c, arg |-> a, then |-> h] \in StepRec
  /\ None \in Arg /\ "drop" \in Use
  /\ {"cog-atomspace-clear", "cog-proxy-close", "cog-barrier", "define"} \subseteq Cmd
BY DEF StepRec, Arg, Use, Cmd, Proxies, Silent

LEMMA KillForms ==
  LET S == Seq(StepRec)
      g == "cog-atomspace-clear"
  IN  /\ K6 \in S /\ K6 # <<>> /\ K6[1] = [do |-> "lock"] /\ Tail(K6) = K5
      /\ K5 \in S /\ K5 # <<>> /\ Tail(K5) = K4
      /\ K5[1] = [do |-> "send", cmd |-> g, arg |-> None, frame |-> None]
      /\ K4 \in S /\ K4 # <<>> /\ Tail(K4) = K3
      /\ K4[1] = [do |-> "recv", cmd |-> g, arg |-> None, then |-> "drop"]
      /\ K3 \in S /\ K3 # <<>> /\ K3[1] = [do |-> "single"] /\ Tail(K3) = K2
      /\ K2 \in S /\ K2 # <<>> /\ K2[1] = [do |-> "forget"] /\ Tail(K2) = K1
      /\ K1 \in S /\ K1 # <<>> /\ K1[1] = [do |-> "unlock"] /\ Tail(K1) = <<>>
<1> DEFINE g == "cog-atomspace-clear"
           un == [do |-> "unlock"]  fo == [do |-> "forget"]  si == [do |-> "single"]
           re == [do |-> "recv", cmd |-> g, arg |-> None, then |-> "drop"]
           se == [do |-> "send", cmd |-> g, arg |-> None, frame |-> None]
           lo == [do |-> "lock"]
<1>1. /\ un \in StepRec /\ fo \in StepRec /\ si \in StepRec /\ re \in StepRec
      /\ se \in StepRec /\ lo \in StepRec
  BY FormSteps
<1>2. /\ K1 = <<un>> /\ K2 = <<fo>> \o K1 /\ K3 = <<si>> \o K2 /\ K4 = <<re>> \o K3
      /\ K5 = <<se>> \o K4 /\ K6 = <<lo>> \o K5
  BY DEF K1, K2, K3, K4, K5, K6, Step, Send
<1>c. ASSUME NEW a \in StepRec, NEW q \in Seq(StepRec), NEW r, r = <<a>> \o q
      PROVE  r \in Seq(StepRec) /\ r # <<>> /\ r[1] = a /\ Tail(r) = q
  BY <1>c, Cons
<1> HIDE DEF un, fo, si, re, se, lo
<1>3. K1 \in Seq(StepRec) /\ K1 # <<>> /\ K1[1] = un /\ Tail(K1) = <<>>
  BY <1>1, <1>2
<1>4. K2 \in Seq(StepRec) /\ K2 # <<>> /\ K2[1] = fo /\ Tail(K2) = K1
  BY <1>1, <1>2, <1>3, <1>c
<1>5. K3 \in Seq(StepRec) /\ K3 # <<>> /\ K3[1] = si /\ Tail(K3) = K2
  BY <1>1, <1>2, <1>4, <1>c
<1>6. K4 \in Seq(StepRec) /\ K4 # <<>> /\ K4[1] = re /\ Tail(K4) = K3
  BY <1>1, <1>2, <1>5, <1>c
<1>7. K5 \in Seq(StepRec) /\ K5 # <<>> /\ K5[1] = se /\ Tail(K5) = K4
  BY <1>1, <1>2, <1>6, <1>c
<1>8. K6 \in Seq(StepRec) /\ K6 # <<>> /\ K6[1] = lo /\ Tail(K6) = K5
  BY <1>1, <1>2, <1>7, <1>c
<1> QED
  BY <1>3, <1>4, <1>5, <1>6, <1>7, <1>8 DEF un, fo, si, re, se, lo

LEMMA CloseForms ==
  LET S == Seq(StepRec)
      g == "cog-proxy-close"
  IN  /\ C6 \in S /\ C6 # <<>> /\ C6[1] = [do |-> "lock"] /\ Tail(C6) = C5
      /\ C5 \in S /\ C5 # <<>> /\ Tail(C5) = C4
      /\ C5[1] = [do |-> "send", cmd |-> "cog-barrier", arg |-> None, frame |-> None]
      /\ C4 \in S /\ C4 # <<>> /\ C4[1] = [do |-> "unlock"] /\ Tail(C4) = C3
      /\ C3 \in S /\ C3 # <<>> /\ Tail(C3) = C2
      /\ C3[1] = [do |-> "send", cmd |-> g, arg |-> None, frame |-> None]
      /\ C2 \in S /\ C2 # <<>> /\ Tail(C2) = C1
      /\ C2[1] = [do |-> "recv", cmd |-> g, arg |-> None, then |-> "drop"]
      /\ C1 \in S /\ C1 # <<>> /\ C1[1] = [do |-> "shut"] /\ Tail(C1) = <<>>
<1> DEFINE g == "cog-proxy-close"
           sh == [do |-> "shut"]  un == [do |-> "unlock"]  lo == [do |-> "lock"]
           re == [do |-> "recv", cmd |-> g, arg |-> None, then |-> "drop"]
           se == [do |-> "send", cmd |-> g, arg |-> None, frame |-> None]
           ba == [do |-> "send", cmd |-> "cog-barrier", arg |-> None, frame |-> None]
<1>1. /\ un \in StepRec /\ sh \in StepRec /\ re \in StepRec
      /\ se \in StepRec /\ lo \in StepRec /\ ba \in StepRec
  BY FormSteps
<1>2. /\ C1 = <<sh>> /\ C2 = <<re>> \o C1 /\ C3 = <<se>> \o C2 /\ C4 = <<un>> \o C3
      /\ C5 = <<ba>> \o C4 /\ C6 = <<lo>> \o C5
  BY DEF C1, C2, C3, C4, C5, C6, Step, Send
<1>c. ASSUME NEW a \in StepRec, NEW q \in Seq(StepRec), NEW r, r = <<a>> \o q
      PROVE  r \in Seq(StepRec) /\ r # <<>> /\ r[1] = a /\ Tail(r) = q
  BY <1>c, Cons
<1> HIDE DEF un, sh, ba, re, se, lo
<1>3. C1 \in Seq(StepRec) /\ C1 # <<>> /\ C1[1] = sh /\ Tail(C1) = <<>>
  BY <1>1, <1>2
<1>4. C2 \in Seq(StepRec) /\ C2 # <<>> /\ C2[1] = re /\ Tail(C2) = C1
  BY <1>1, <1>2, <1>3, <1>c
<1>5. C3 \in Seq(StepRec) /\ C3 # <<>> /\ C3[1] = se /\ Tail(C3) = C2
  BY <1>1, <1>2, <1>4, <1>c
<1>6. C4 \in Seq(StepRec) /\ C4 # <<>> /\ C4[1] = un /\ Tail(C4) = C3
  BY <1>1, <1>2, <1>5, <1>c
<1>7. C5 \in Seq(StepRec) /\ C5 # <<>> /\ C5[1] = ba /\ Tail(C5) = C4
  BY <1>1, <1>2, <1>6, <1>c
<1>8. C6 \in Seq(StepRec) /\ C6 # <<>> /\ C6[1] = lo /\ Tail(C6) = C5
  BY <1>1, <1>2, <1>7, <1>c
<1> QED
  BY <1>3, <1>4, <1>5, <1>6, <1>7, <1>8 DEF un, sh, ba, re, se, lo

\* Steps put together one way or the other.
LEMMA Assoc ==
  ASSUME NEW a \in Seq(StepRec), NEW b \in Seq(StepRec), NEW c \in Seq(StepRec),
         NEW p, NEW q, p = a \o b, q = b \o c
  PROVE  p \in Seq(StepRec) /\ q \in Seq(StepRec) /\ p \o c = a \o q
<1>1. (a \o b) \o c = a \o (b \o c)
  BY ConcatAssociative, SMTT(30)
<1>2. a \o b \in Seq(StepRec) /\ b \o c \in Seq(StepRec)
  BY ConcatProperties
<1> QED
  BY <1>1, <1>2

\* The steps that a call of kill_data and one of close start with.
LEMMA FormsStart ==
  /\ Locked(Ask("cog-atomspace-clear", None, "drop") \o Step("single") \o Step("forget")) = K6
  /\ ProxyCloseSteps \o Step("shut") = C6
<1> DEFINE lo == Step("lock")  un == Step("unlock")  si == Step("single")
           fo == Step("forget")  sh == Step("shut")
           g == "cog-atomspace-clear"
           h == "cog-proxy-close"
           s1 == Send(g, None)  s2 == Send(h, None)  s3 == Send("cog-barrier", None)
           r1 == <<[do |-> "recv", cmd |-> g, arg |-> None, then |-> "drop"]>>
           r2 == <<[do |-> "recv", cmd |-> h, arg |-> None, then |-> "drop"]>>
<1>1. /\ lo \in Seq(StepRec) /\ un \in Seq(StepRec) /\ si \in Seq(StepRec)
      /\ fo \in Seq(StepRec) /\ sh \in Seq(StepRec)
      /\ s1 \in Seq(StepRec) /\ s2 \in Seq(StepRec) /\ s3 \in Seq(StepRec)
      /\ r1 \in Seq(StepRec) /\ r2 \in Seq(StepRec)
  <2>1. \A x \in StepRec : <<x>> \in Seq(StepRec)
    OBVIOUS
  <2> QED
    BY <2>1, FormSteps DEF Step, Send
<1> DEFINE k == (lo \o (((s1 \o r1) \o si) \o fo)) \o un
           c == (((lo \o s3) \o un) \o (s2 \o r2)) \o sh
<1>2. /\ Locked(Ask(g, None, "drop") \o Step("single") \o Step("forget")) = k
      /\ K6 = lo \o (s1 \o (r1 \o (si \o (fo \o un))))
      /\ ProxyCloseSteps \o Step("shut") = c
      /\ C6 = lo \o (s3 \o (un \o (s2 \o (r2 \o sh))))
  BY Zenon DEF Locked, Ask, K6, K5, K4, K3, K2, K1, ProxyCloseSteps, BarrierSteps,
         C6, C5, C4, C3, C2, C1, Step, Send
<1> HIDE DEF lo, un, si, fo, sh, s1, s2, s3, r1, r2
<1>3. k = lo \o (s1 \o (r1 \o (si \o (fo \o un))))
  <2> DEFINE p1 == s1 \o r1    p2 == p1 \o si   p3 == p2 \o fo   p4 == lo \o p3
             q1 == fo \o un    q2 == si \o q1   q3 == r1 \o q2   q4 == p3 \o un
  <2>e. /\ p1 = s1 \o r1 /\ p2 = p1 \o si /\ p3 = p2 \o fo /\ p4 = lo \o p3
        /\ q1 = fo \o un /\ q2 = si \o q1 /\ q3 = r1 \o q2 /\ q4 = p3 \o un
    OBVIOUS
  <2>1. p1 \in Seq(StepRec) /\ q1 \in Seq(StepRec)
    BY <1>1, ConcatProperties
  <2> HIDE DEF p1, q1
  <2>2. p2 \in Seq(StepRec) /\ q2 \in Seq(StepRec)
    BY <1>1, <2>1, ConcatProperties
  <2> HIDE DEF p2, q2
  <2>3. p3 \in Seq(StepRec)
    BY <1>1, <2>2, ConcatProperties
  <2> HIDE DEF p3, q3, q4, p4
  <2>4. p4 \o un = lo \o q4
    <3>1. lo \in Seq(StepRec) /\ p3 \in Seq(StepRec) /\ un \in Seq(StepRec)
      BY <1>1, <2>3
    <3>2. p4 = lo \o p3 /\ q4 = p3 \o un
      BY <2>e
    <3>3. p4 \o un = lo \o q4
      BY <3>1, <3>2, Assoc, SMTT(30)
    <3> QED
      BY <2>e, <3>3
  <2>5. q4 = p2 \o q1
    <3>1. p2 \in Seq(StepRec) /\ fo \in Seq(StepRec) /\ un \in Seq(StepRec)
      BY <1>1, <2>2
    <3>2. p3 = p2 \o fo /\ q1 = fo \o un
      BY <2>e
    <3>3. p3 \o un = p2 \o q1
      BY <3>1, <3>2, Assoc, SMTT(30)
    <3> QED
      BY <2>e, <3>3
  <2>6. p2 \o q1 = p1 \o q2
    <3>1. p1 \in Seq(StepRec) /\ si \in Seq(StepRec) /\ q1 \in Seq(StepRec)
      BY <1>1, <2>1
    <3>2. p2 = p1 \o si /\ q2 = si \o q1
      BY <2>e
    <3>3. p2 \o q1 = p1 \o q2
      BY <3>1, <3>2, Assoc, SMTT(30)
    <3> QED
      BY <2>e, <3>3
  <2>7. p1 \o q2 = s1 \o q3
    <3>1. s1 \in Seq(StepRec) /\ r1 \in Seq(StepRec) /\ q2 \in Seq(StepRec)
      BY <1>1, <2>2
    <3>2. p1 = s1 \o r1 /\ q3 = r1 \o q2
      BY <2>e
    <3>3. p1 \o q2 = s1 \o q3
      BY <3>1, <3>2, Assoc, SMTT(30)
    <3> QED
      BY <2>e, <3>3
  <2>8. p4 \o un = lo \o (s1 \o q3)
    BY <2>4, <2>5, <2>6, <2>7
  <2> QED
    BY <2>8, Zenon DEF p1, p2, p3, p4, q1, q2, q3, q4
<1>4. c = lo \o (s3 \o (un \o (s2 \o (r2 \o sh))))
  <2> DEFINE p1 == lo \o s3    p2 == p1 \o un   p3 == s2 \o r2    p4 == p2 \o p3
             q1 == r2 \o sh    q2 == s2 \o q1   q3 == un \o q2    q4 == s3 \o q3
             q5 == p3 \o sh
  <2>e. /\ p1 = lo \o s3 /\ p2 = p1 \o un /\ p3 = s2 \o r2 /\ p4 = p2 \o p3
        /\ q1 = r2 \o sh /\ q2 = s2 \o q1 /\ q3 = un \o q2 /\ q4 = s3 \o q3
        /\ q5 = p3 \o sh
    OBVIOUS
  <2>1. p1 \in Seq(StepRec) /\ q1 \in Seq(StepRec) /\ p3 \in Seq(StepRec)
    BY <1>1, ConcatProperties
  <2> HIDE DEF p1, q1, p3
  <2>2. p2 \in Seq(StepRec) /\ q2 \in Seq(StepRec)
    BY <1>1, <2>1, ConcatProperties
  <2> HIDE DEF p2, q2
  <2>3. q3 \in Seq(StepRec)
    BY <1>1, <2>2, ConcatProperties
  <2> HIDE DEF q3, q4, p4, q5
  <2>4. p4 \o sh = p2 \o q5
    <3>1. p2 \in Seq(StepRec) /\ p3 \in Seq(StepRec) /\ sh \in Seq(StepRec)
      BY <1>1, <2>1, <2>2
    <3>2. p4 = p2 \o p3 /\ q5 = p3 \o sh
      BY <2>e
    <3>3. p4 \o sh = p2 \o q5
      BY <3>1, <3>2, Assoc, SMTT(30)
    <3> QED
      BY <2>e, <3>3
  <2>5. q5 = q2
    <3>1. s2 \in Seq(StepRec) /\ r2 \in Seq(StepRec) /\ sh \in Seq(StepRec)
      BY <1>1
    <3>2. p3 = s2 \o r2 /\ q1 = r2 \o sh
      BY <2>e
    <3>3. p3 \o sh = s2 \o q1
      BY <3>1, <3>2, Assoc, SMTT(30)
    <3> QED
      BY <2>e, <3>3
  <2>6. p2 \o q2 = p1 \o q3
    <3>1. p1 \in Seq(StepRec) /\ un \in Seq(StepRec) /\ q2 \in Seq(StepRec)
      BY <1>1, <2>1, <2>2
    <3>2. p2 = p1 \o un /\ q3 = un \o q2
      BY <2>e
    <3>3. p2 \o q2 = p1 \o q3
      BY <3>1, <3>2, Assoc, SMTT(30)
    <3> QED
      BY <2>e, <3>3
  <2>7. p1 \o q3 = lo \o q4
    <3>1. lo \in Seq(StepRec) /\ s3 \in Seq(StepRec) /\ q3 \in Seq(StepRec)
      BY <1>1, <2>3
    <3>2. p1 = lo \o s3 /\ q4 = s3 \o q3
      BY <2>e
    <3>3. p1 \o q3 = lo \o q4
      BY <3>1, <3>2, Assoc, SMTT(30)
    <3> QED
      BY <2>e, <3>3
  <2>8. p4 \o sh = lo \o q4
    BY <2>4, <2>5, <2>6, <2>7
  <2> QED
    BY <2>8, Zenon DEF p1, p2, p3, p4, q1, q2, q3, q4
<1> HIDE DEF k, c
<1> QED
  BY <1>2, <1>3, <1>4, Zenon

-----------------------------------------------------------------------------
(***************************************************************************)
(* What the server is told, or was told already.                           *)
(***************************************************************************)
\* A frame is told together with those that it is built on.
LEMMA ToldClosed ==
  ASSUME Inv, FrameInv, NEW s \in Told
  PROVE  Below[s] \subseteq Told
<1>1. CASE s \in defined
  BY <1>1 DEF FrameInv, Told, ToldBy
<1>2. CASE s \notin defined
  <2>1. PICK i \in 1..Len(wire) : s \in Tells(wire[i])
    BY <1>2 DEF Told, ToldBy
  <2>2. wire[i].cmd = "define" /\ s \in Below[wire[i].arg] /\ Tells(wire[i]) = Below[wire[i].arg]
    BY <2>1 DEF Tells
  <2>3. wire[i].arg \in Space
    BY <2>2 DEF Inv, Exchange, ArgOK
  <2>4. Below[s] \subseteq Tells(wire[i])
    BY <2>2, <2>3, SpaceAssumption
  <2> QED
    BY <2>4 DEF Told, ToldBy
<1> QED
  BY <1>1, <1>2

\* A message is sent.
LEMMA ToldSends ==
  ASSUME Inv, NEW m \in Msg, wire' = Append(wire, m), defined' = defined
  PROVE  /\ Told' = Told \cup Tells(m)
         /\ \A i \in 0..Len(wire) : ToldBy(i)' = ToldBy(i)
         /\ Len(wire') = Len(wire) + 1 /\ wire'[Len(wire) + 1] = m /\ Len(wire) \in Nat
         /\ \A i \in 1..Len(wire) : wire'[i] = wire[i]
<1>1. wire \in Seq(Msg)
  BY DEF Inv, Types
<1>2. /\ Len(wire) \in Nat /\ Len(wire') = Len(wire) + 1 /\ wire'[Len(wire) + 1] = m
      /\ \A i \in 1..Len(wire) : wire'[i] = wire[i]
  BY <1>1, AppendProperties
<1>3. ASSUME NEW i \in 0..Len(wire)
      PROVE  ToldBy(i)' = ToldBy(i)
  <2>1. \A j \in 1..i : wire'[j] = wire[j]
    BY <1>2
  <2>2. {Tells(wire'[j]) : j \in 1..i} = {Tells(wire[j]) : j \in 1..i}
    BY <2>1
  <2> QED
    BY <2>2 DEF ToldBy, Tells
<1>4. Told' = Told \cup Tells(m)
  <2> DEFINE n == Len(wire)
  <2>1. Told' = defined \cup UNION {Tells(wire'[j]) : j \in 1..(n + 1)}
    BY <1>2 DEF Told, ToldBy, Tells
  <2>2. Told = defined \cup UNION {Tells(wire[j]) : j \in 1..n}
    BY DEF Told, ToldBy
  <2>3. \A j \in 1..(n + 1) : wire'[j] = m \/ (j \in 1..n /\ wire'[j] = wire[j])
    BY <1>2
  <2>4. \A j \in 1..n : j \in 1..(n + 1) /\ wire'[j] = wire[j]
    BY <1>2
  <2>5. n + 1 \in 1..(n + 1) /\ wire'[n + 1] = m
    BY <1>2
  <2> HIDE DEF n
  <2>6. Told' \subseteq Told \cup Tells(m)
    BY <2>1, <2>2, <2>3
  <2>7. Told \subseteq Told'
    BY <2>1, <2>2, <2>4
  <2>8. Tells(m) \subseteq Told'
    BY <2>1, <2>5
  <2> QED
    BY <2>6, <2>7, <2>8
<1> QED
  BY <1>2, <1>3, <1>4

\* The server runs a command that takes no frames away.
LEMMA ToldRuns ==
  ASSUME Inv, wire # <<>>, wire' = Tail(wire), defined' = defined \cup Tells(wire[1])
  PROVE  /\ Told' = Told
         /\ Len(wire') = Len(wire) - 1 /\ Len(wire) \in Nat /\ Len(wire) > 0
         /\ \A i \in 1..Len(wire') : wire'[i] = wire[i + 1]
         /\ \A i \in 0..Len(wire') : ToldBy(i)' = ToldBy(i + 1)
<1>1. wire \in Seq(Msg)
  BY DEF Inv, Types
<1>2. /\ Len(wire') = Len(wire) - 1 /\ Len(wire) \in Nat /\ Len(wire) > 0
      /\ \A i \in 1..Len(wire') : wire'[i] = wire[i + 1]
  BY <1>1, HeadTailProperties, EmptySeq
<1>3. ASSUME NEW i \in 0..Len(wire')
      PROVE  ToldBy(i)' = ToldBy(i + 1)
  <2>1. ToldBy(i)' = defined' \cup UNION {Tells(wire'[j]) : j \in 1..i}
    BY DEF ToldBy, Tells
  <2>2. ToldBy(i + 1) = defined \cup UNION {Tells(wire[j]) : j \in 1..(i + 1)}
    BY DEF ToldBy
  <2>3. \A j \in 1..i : j + 1 \in 1..(i + 1) /\ wire'[j] = wire[j + 1]
    BY <1>2
  <2>4. \A k \in 1..(i + 1) : k = 1 \/ (k - 1 \in 1..i /\ wire'[k - 1] = wire[k])
    <3>1. \A k \in 1..(i + 1) :
            k = 1 \/ (k - 1 \in 1..i /\ k - 1 \in 1..Len(wire') /\ (k - 1) + 1 = k)
      BY <1>2
    <3> QED
      BY <1>2, <3>1
  <2>5. 1 \in 1..(i + 1)
    OBVIOUS
  <2>6. UNION {Tells(wire'[j]) : j \in 1..i} \subseteq ToldBy(i + 1)
    BY <2>2, <2>3
  <2>7. Tells(wire[1]) \subseteq ToldBy(i + 1) /\ defined \subseteq ToldBy(i + 1)
    BY <2>2, <2>5
  <2>8. UNION {Tells(wire[j]) : j \in 1..(i + 1)}
          \subseteq Tells(wire[1]) \cup UNION {Tells(wire'[j]) : j \in 1..i}
    BY <2>4
  <2> QED
    BY <2>1, <2>2, <2>6, <2>7, <2>8
<1>4. Told' = Told
  <2>1. ASSUME NEW k \in Nat, k = Len(wire')
        PROVE  Told' = ToldBy(k + 1)
    <3>1. Told' = ToldBy(k)'
      BY <2>1 DEF Told, ToldBy, Tells
    <3>2. k \in 0..Len(wire')
      BY <2>1
    <3>3. ToldBy(k)' = ToldBy(k + 1)
      BY <1>3, <3>2
    <3> QED
      BY <3>1, <3>3
  <2>2. Len(wire') \in Nat /\ Len(wire') + 1 = Len(wire)
    BY <1>2
  <2>3. Told' = ToldBy(Len(wire') + 1)
    BY <2>1, <2>2
  <2> QED
    BY <2>2, <2>3 DEF Told
<1> QED
  BY <1>2, <1>3, <1>4

-----------------------------------------------------------------------------
(***************************************************************************)
(* A thread goes on with its operation.                                    *)
(***************************************************************************)
\* The next step and those behind it.
LEMMA NextAndRest ==
  ASSUME Inv, FrameInv, NEW u \in User, todo[u] # <<>>
  PROVE  LET x == todo[u][1]
             t == Tail(todo[u])
         IN  /\ x \in StepRec /\ t \in Seq(StepRec) /\ Head(todo[u]) = x
             /\ Fits(op[u], x) /\ \A s \in Left(t) : Fits(op[u], s)
             /\ x \in Left(todo[u]) /\ Left(t) \subseteq Left(todo[u])
             /\ op[u] = "kill_data" =>
                  /\ t \in {K5, K4, K3, K2, K1, <<>>}
                  /\ x.do \in {"lock", "send", "recv", "single", "forget", "unlock"}
                  /\ x.do = "recv" => x.then = "drop"
                  /\ x.do \in {"send", "recv", "single"} => t \in {K4, K3, K2}
                  /\ Clearing(u) <=> x.do \in {"recv", "single", "forget"}
             /\ op[u] = "close" =>
                  /\ t \in {C5, C4, C3, C2, C1, <<>>}
                  /\ x.do \in {"lock", "send", "recv", "unlock", "shut"}
                  /\ x.do = "recv" => x.then = "drop"
                  /\ t = C1 => x.do = "recv"
                  /\ x.do = "shut" => todo[u] = C1
             /\ Calm => Owes(x, multi) \subseteq Told /\ Safe(t, Told \cup Covers(x, multi), multi)
<1> DEFINE x == todo[u][1]
           t == Tail(todo[u])
           q == todo[u]
<1>1. q \in Seq(StepRec) /\ q # <<>> /\ Head(q) = x
  BY AtStep DEF Inv, Types
<1>2. x \in StepRec /\ t \in Seq(StepRec) /\ q = <<x>> \o t /\ Left(q) = {x} \cup Left(t)
  BY <1>1, Uncons
<1>3. \A s \in Left(q) : Fits(op[u], s)
  BY DEF FrameInv
<1>4. ASSUME op[u] = "kill_data"
      PROVE  /\ t \in {K5, K4, K3, K2, K1, <<>>}
             /\ x.do \in {"lock", "send", "recv", "single", "forget", "unlock"}
             /\ x.do = "recv" => x.then = "drop"
             /\ x.do \in {"send", "recv", "single"} => t \in {K4, K3, K2}
             /\ Clearing(u) <=> x.do \in {"recv", "single", "forget"}
  <2>1. q \in {K6, K5, K4, K3, K2, K1}
    BY <1>4 DEF FrameInv
  <2>2. CASE q = K6
    BY <1>4, <2>2, KillForms DEF Clearing
  <2>3. CASE q = K5
    BY <1>4, <2>3, KillForms DEF Clearing
  <2>4. CASE q = K4
    BY <1>4, <2>4, KillForms DEF Clearing
  <2>5. CASE q = K3
    BY <1>4, <2>5, KillForms DEF Clearing
  <2>6. CASE q = K2
    BY <1>4, <2>6, KillForms DEF Clearing
  <2>7. CASE q = K1
    BY <1>4, <2>7, KillForms DEF Clearing
  <2> QED
    BY <2>1, <2>2, <2>3, <2>4, <2>5, <2>6, <2>7
<1>5. ASSUME op[u] = "close"
      PROVE  /\ t \in {C5, C4, C3, C2, C1, <<>>}
             /\ x.do \in {"lock", "send", "recv", "unlock", "shut"}
             /\ x.do = "recv" => x.then = "drop"
             /\ t = C1 => x.do = "recv"
             /\ x.do = "shut" => q = C1
  <2>1. q \in {C6, C5, C4, C3, C2, C1}
    BY <1>5 DEF FrameInv
  <2>2. CASE q = C6
    BY <2>2, CloseForms
  <2>3. CASE q = C5
    BY <2>3, CloseForms
  <2>4. CASE q = C4
    BY <2>4, CloseForms
  <2>5. CASE q = C3
    BY <2>5, CloseForms
  <2>6. CASE q = C2
    BY <2>6, CloseForms
  <2>7. CASE q = C1
    BY <2>7, CloseForms
  <2> QED
    BY <2>1, <2>2, <2>3, <2>4, <2>5, <2>6, <2>7
<1>6. Calm => Owes(x, multi) \subseteq Told /\ Safe(t, Told \cup Covers(x, multi), multi)
  <2>1. Calm => Safe(q, Told, multi)
    BY DEF Calm
  <2>2. Safe(<<x>> \o t, Told, multi) <=>
          Owes(x, multi) \subseteq Told /\ Safe(t, Told \cup Covers(x, multi), multi)
    BY <1>2, SafeCons
  <2> HIDE DEF x, t, q
  <2> QED
    BY <1>2, <2>1, <2>2
<1> QED
  BY <1>1, <1>2, <1>3, <1>4, <1>5, <1>6

\* A thread goes on with the steps q, and the other threads are where they were.
LEMMA GoesOn ==
  ASSUME Inv, FrameInv, NEW u \in User, NEW q \in Seq(StepRec), Advance(u, q),
         todo[u] # <<>>, defined' = defined, \A s \in Left(q) : Fits(op[u], s),
         op[u] = "kill_data" => q \in {K5, K4, K3, K2, K1, <<>>},
         op[u] = "close" => q \in {C5, C4, C3, C2, C1, <<>>},
         ~raced' /\ lost' = 0 => Calm'
  PROVE  FrameInv'
<1>1. op \in [User -> Ops] /\ todo \in [User -> Seq(StepRec)]
  BY DEF Inv, Types
<1>2. /\ todo'[u] = q /\ op'[u] = (IF q = <<>> THEN "none" ELSE op[u])
      /\ \A v \in User \ {u} : todo'[v] = todo[v] /\ op'[v] = op[v]
  BY <1>1 DEF Advance
<1>3. Left(<<>>) = {}
  <2>1. Len(<<>>) = 0
    OBVIOUS
  <2> QED
    BY <2>1 DEF Left
<1>4. \A v \in User : \A s \in Left(todo'[v]) : Fits(op'[v], s)
  BY <1>2, <1>3 DEF FrameInv
<1>5. \A v \in User : op'[v] = "kill_data" => todo'[v] \in {K6, K5, K4, K3, K2, K1}
  BY <1>2 DEF FrameInv
<1>6. \A v \in User : op'[v] = "close" => todo'[v] \in {C6, C5, C4, C3, C2, C1}
  BY <1>2 DEF FrameInv
<1>7. \A s \in defined' : Below[s] \subseteq defined'
  BY DEF FrameInv
<1> QED
  BY <1>4, <1>5, <1>6, <1>7 DEF FrameInv

\* ... while the socket stays as it is.
LEMMA CalmStays ==
  ASSUME Inv, FrameInv, Calm, NEW u \in User, NEW q \in Seq(StepRec), Advance(u, q),
         todo[u] # <<>>, UNCHANGED <<wire, eof, defined>>, sockfd' = sockfd \/ wire = <<>>,
         \/ multi' = multi
         \/ multi' = TRUE /\ op[u] \in Stores
         \/ multi' = FALSE /\ op[u] = "kill_data",
         op[u] = "close" /\ q = C1 => wire = <<>>,
         op[u] = "open" => Left(q) \subseteq Left(todo[u]),
         Safe(q, Told, multi'),
         frames \subseteq Told => frames' \subseteq Told,
         Clearing(u) => q \in {K4, K3, K2} \/ frames' \subseteq Told
  PROVE  Calm'
<1>1. op \in [User -> Ops] /\ todo \in [User -> Seq(StepRec)] /\ multi \in BOOLEAN
  BY DEF Inv, Types
<1>2. /\ todo'[u] = q /\ op'[u] = (IF q = <<>> THEN "none" ELSE op[u])
      /\ \A v \in User \ {u} : todo'[v] = todo[v] /\ op'[v] = op[v]
  BY <1>1 DEF Advance
<1>3. \A v \in User : op'[v] # "none" => op'[v] = op[v]
  BY <1>2
<1>4. "none" \notin Stores
  BY DEF Stores
<1>5. Told' = Told /\ \A i : ToldBy(i)' = ToldBy(i)
  BY DEF Told, ToldBy, Tells
<1>6. ~eof' /\ (~connected' => wire' = <<>>)
  BY DEF Calm, connected
<1>7. \A v \in User : op'[v] = "close" /\ todo'[v] = C1 => wire' = <<>>
  BY <1>2 DEF Calm
<1>8. \A v \in User : op'[v] = "open" /\ [do |-> "connect"] \in Left(todo'[v]) => wire' = <<>>
  BY <1>2 DEF Calm
<1>9. \A v, z \in User : op'[v] \in Stores => op'[z] # "kill_data"
  BY <1>3, <1>4 DEF Calm
<1>10. ~multi' => \A v, z \in User : op'[v] \in Stores /\ op'[z] \in Stores => v = z
  <2>1. CASE ~multi
    BY <1>3, <1>4, <2>1 DEF Calm
  <2>2. CASE multi /\ ~multi'
    <3>1. op[u] = "kill_data"
      BY <1>1, <2>2
    <3> QED
      BY <1>3, <1>4, <3>1 DEF Calm
  <2> QED
    BY <2>1, <2>2
<1>11. \A i \in 1..Len(wire') : Own(wire'[i].arg, wire'[i].frame) \subseteq ToldBy(i - 1)'
  BY <1>5 DEF Calm
<1>12. ASSUME NEW v \in User
       PROVE  Safe(todo'[v], Told, multi')
  <2>1. CASE v = u
    BY <1>2, <2>1
  <2>2. CASE v # u /\ multi' = multi
    BY <1>2, <2>2 DEF Calm
  <2>3. CASE v # u /\ multi' # multi
    <3>1. op[v] \notin Stores
      <4>1. CASE multi' = TRUE /\ op[u] \in Stores
        BY <1>1, <2>3, <4>1 DEF Calm
      <4>2. CASE multi' = FALSE /\ op[u] = "kill_data"
        BY <4>2 DEF Calm
      <4> QED
        BY <2>3, <4>1, <4>2
    <3>2. \A s \in Left(todo[v]) : Fits(op[v], s)
      BY DEF FrameInv
    <3> QED
      BY <1>2, <2>3, <3>1, <3>2, SafeIdle
  <2> QED
    BY <2>1, <2>2, <2>3
<1>13. frames' \subseteq Told' \/ \E v \in User : Clearing(v)'
  <2>1. CASE frames \subseteq Told
    BY <1>5, <2>1
  <2>2. CASE frames' \subseteq Told
    BY <1>5, <2>2
  <2>3. CASE ~(frames \subseteq Told) /\ ~(frames' \subseteq Told)
    <3>1. PICK v \in User : Clearing(v)
      BY <2>3 DEF Calm
    <3>2. CASE v = u
      <4>1. q \in {K4, K3, K2} /\ op[u] = "kill_data"
        BY <2>3, <3>1, <3>2 DEF Clearing
      <4>2. q # <<>>
        BY <4>1, KillForms
      <4>3. Clearing(u)'
        BY <1>2, <4>1, <4>2 DEF Clearing
      <4> QED
        BY <4>3
    <3>3. CASE v # u
      BY <1>2, <3>1, <3>3 DEF Clearing
    <3> QED
      BY <3>2, <3>3
  <2> QED
    BY <2>1, <2>2, <2>3
<1>14. \A v \in User : Safe(todo'[v], Told', multi')
  BY <1>5, <1>12
<1>15. (\A v \in User : Safe(todo[v], Told, multi))'
  BY <1>14 DEF Safe, Owes, Own, Covers, Tells
<1> QED
  BY <1>6, <1>7, <1>8, <1>9, <1>10, <1>11, <1>13, <1>15 DEF Calm

\* Steps put in front of others, one by one.
LEMMA Front ==
  ASSUME NEW a \in StepRec, NEW b \in StepRec, NEW c \in StepRec, NEW d \in StepRec,
         NEW t \in Seq(StepRec)
  PROVE  /\ (<<a>> \o <<b>>) \o t = <<a>> \o (<<b>> \o t)
         /\ ((<<a>> \o <<b>>) \o <<c>>) \o t = <<a>> \o (<<b>> \o (<<c>> \o t))
         /\ (((<<a>> \o <<b>>) \o <<c>>) \o <<d>>) \o t = <<a>> \o (<<b>> \o (<<c>> \o (<<d>> \o t)))
<1>1. ASSUME NEW x \in StepRec, NEW y \in StepRec, NEW r \in Seq(StepRec)
      PROVE  <<x>> \o r \in Seq(StepRec) /\ (<<x>> \o <<y>>) \o r = <<x>> \o (<<y>> \o r)
  <2> DEFINE sx == <<x>>  sy == <<y>>
  <2>1. sx \in Seq(StepRec) /\ sy \in Seq(StepRec)
    OBVIOUS
  <2> HIDE DEF sx, sy
  <2>2. sx \o r \in Seq(StepRec) /\ (sx \o sy) \o r = sx \o (sy \o r)
    <3>1. sx \o r \in Seq(StepRec)
      BY <2>1, ConcatProperties
    <3>2. (sx \o sy) \o r = sx \o (sy \o r)
      BY <2>1, ConcatAssociative, SMTT(30)
    <3> QED
      BY <3>1, <3>2
  <2> QED
    BY <2>2 DEF sx, sy
<1>2. ASSUME NEW p \in Seq(StepRec), NEW y \in StepRec, NEW r \in Seq(StepRec)
      PROVE  p \o <<y>> \in Seq(StepRec) /\ (p \o <<y>>) \o r = p \o (<<y>> \o r)
  <2> DEFINE sy == <<y>>
  <2>1. sy \in Seq(StepRec)
    OBVIOUS
  <2> HIDE DEF sy
  <2>2. p \o sy \in Seq(StepRec) /\ (p \o sy) \o r = p \o (sy \o r)
    <3>1. p \o sy \in Seq(StepRec)
      BY <2>1, ConcatProperties
    <3>2. (p \o sy) \o r = p \o (sy \o r)
      BY <2>1, ConcatAssociative, SMTT(30)
    <3> QED
      BY <3>1, <3>2
  <2> QED
    BY <2>2 DEF sy
<1> DEFINE sa == <<a>>  sb == <<b>>  sc == <<c>>  sd == <<d>>
           ab == sa \o sb
           abc == ab \o sc
           dt == sd \o t
           ct == sc \o t
           cdt == sc \o dt
<1>3. sa \in Seq(StepRec)
  OBVIOUS
<1>4. ab \in Seq(StepRec)
  BY <1>2, <1>3
<1>5. dt \in Seq(StepRec) /\ ct \in Seq(StepRec)
  BY <1>1
<1>6. ab \o t = sa \o (sb \o t) /\ ab \o ct = sa \o (sb \o ct)
  BY <1>1, <1>5
<1> HIDE DEF ab, dt, ct
<1>7. abc \in Seq(StepRec) /\ abc \o t = ab \o (sc \o t) /\ abc \o dt = ab \o (sc \o dt)
  BY <1>2, <1>4, <1>5
<1>8. cdt \in Seq(StepRec)
  BY <1>1, <1>5
<1> HIDE DEF cdt
<1>9. ab \o cdt = sa \o (sb \o cdt)
  BY <1>1, <1>8 DEF ab
<1> HIDE DEF abc
<1>10. (abc \o sd) \o t = abc \o (sd \o t)
  BY <1>2, <1>7
<1>11. abc \o t = sa \o (sb \o ct)
  BY <1>6, <1>7 DEF ct
<1>12. (abc \o sd) \o t = sa \o (sb \o cdt)
  BY <1>7, <1>9, <1>10 DEF dt, cdt
<1> QED
  BY <1>6, <1>11, <1>12, Zenon DEF ab, abc, ct, cdt, dt

\* A step is done that leaves the socket alone.
LEMMA DoneKeeps ==
  ASSUME Inv, FrameInv, NEW u \in User, todo[u] # <<>>, StepDone(u),
         UNCHANGED <<sockfd, wire, eof, defined, lost, multi>>,
         todo[u][1].do # "forget",
         Calm => Covers(todo[u][1], multi) \subseteq Told,
         todo[u][1].do = "recv" => wire = <<>>,
         frames \subseteq Told => frames' \subseteq Told
  PROVE  FrameInv'
<1> DEFINE x == todo[u][1]
           t == Tail(todo[u])
<1>1. Advance(u, t) /\ raced' = raced
  BY DEF StepDone, Advance
<1>2. /\ t \in Seq(StepRec) /\ \A s \in Left(t) : Fits(op[u], s)
      /\ Left(t) \subseteq Left(todo[u])
      /\ op[u] = "kill_data" =>
           /\ t \in {K5, K4, K3, K2, K1, <<>>}
           /\ x.do \in {"send", "recv", "single"} => t \in {K4, K3, K2}
           /\ Clearing(u) <=> x.do \in {"recv", "single", "forget"}
      /\ op[u] = "close" => t \in {C5, C4, C3, C2, C1, <<>>} /\ (t = C1 => x.do = "recv")
      /\ Calm => Safe(t, Told \cup Covers(x, multi), multi)
  BY NextAndRest
<1>3. x.do # "forget" /\ (x.do = "recv" => wire = <<>>) /\ (Calm => Covers(x, multi) \subseteq Told)
  OBVIOUS
<1> HIDE DEF x, t
<1>4. Calm => Safe(t, Told, multi)
  <2>1. Calm => Told \cup Covers(x, multi) \subseteq Told
    BY <1>3
  <2> QED
    BY <1>2, <2>1, SafeMore
<1>5. Clearing(u) => t \in {K4, K3, K2}
  BY <1>2, <1>3 DEF Clearing
<1>6. ASSUME ~raced' /\ lost' = 0
      PROVE  Calm'
  <2>1. Calm
    BY <1>1, <1>6 DEF FrameInv
  <2>2. op[u] = "close" /\ t = C1 => wire = <<>>
    BY <1>2, <1>3
  <2>3. multi' = multi /\ Safe(t, Told, multi')
    BY <1>4, <2>1
  <2> QED
    BY <1>1, <1>2, <1>5, <2>1, <2>2, <2>3, CalmStays
<1> QED
  BY <1>1, <1>2, <1>6, GoesOn

\* A step is replaced by others, while the socket and the flags stay as they are.
LEMMA ReplaceKeeps ==
  ASSUME Inv, FrameInv, NEW u \in User, todo[u] # <<>>, NEW q \in Seq(StepRec),
         Advance(u, q), UNCHANGED <<sockfd, wire, eof, defined, lost>>,
         multi' = multi \/ (multi' = TRUE /\ op[u] \in Stores),
         op[u] \notin {"kill_data", "close", "open"},
         \A s \in Left(q) : Fits(op[u], s),
         Calm => Safe(q, Told, multi'),
         Calm /\ frames \subseteq Told => frames' \subseteq Told
  PROVE  FrameInv'
<1>1. raced' = raced
  BY DEF Advance
<1>2. ASSUME ~raced' /\ lost' = 0
      PROVE  Calm'
  <2>1. Calm
    BY <1>1, <1>2 DEF FrameInv
  <2>2. ~Clearing(u)
    BY DEF Clearing
  <2> QED
    BY <2>1, <2>2, CalmStays
<1> QED
  BY <1>2, GoesOn

\* The thread waits for a reply, and it has come.
LEMMA ReceivedKeeps ==
  ASSUME Inv, FrameInv, Unlocked \subseteq Alone, NEW u \in User, NEW then, DoRecv(u, then)
  PROVE  /\ todo[u] # <<>> /\ todo[u][1].do = "recv" /\ todo[u][1].then = then
         /\ wire = <<>> /\ UNCHANGED <<sockfd, wire, eof, defined, lost, multi>>
         /\ Covers(todo[u][1], multi) = {}
<1>1. /\ todo[u] # <<>> /\ todo[u][1].do = "recv" /\ todo[u][1].then = then /\ wire' = <<>>
  BY RecvFacts
<1>2. UNCHANGED <<sockfd, wire, eof, defined, lost, multi>>
  BY DEF DoRecv, srvVars
<1>3. Covers(todo[u][1], multi) = {}
  BY <1>1 DEF Covers
<1> QED
  BY <1>1, <1>2, <1>3

-----------------------------------------------------------------------------
(***************************************************************************)
(* The steps of threads that leave the socket alone, or receive.           *)
(***************************************************************************)
LEMMA LockKeeps ==
  ASSUME Inv, FrameInv, NEW u \in User, LockMtx(u) \/ UnlockMtx(u) \/ SetValue(u)
  PROVE  FrameInv'
<1>1. /\ todo[u] # <<>> /\ Head(todo[u]).do \in {"lock", "unlock", "set"} /\ StepDone(u)
      /\ UNCHANGED <<sockfd, wire, eof, defined, lost, multi, frames>>
  BY DEF LockMtx, UnlockMtx, SetValue, At, sockVars, srvVars, cacheVars
<1>2. todo[u][1].do \in {"lock", "unlock", "set"}
  BY <1>1, AtStep DEF Inv
<1>3. Covers(todo[u][1], multi) = {}
  BY <1>2 DEF Covers
<1> QED
  BY <1>1, <1>2, <1>3, DoneKeeps

LEMMA DropKeeps ==
  ASSUME Inv, FrameInv, Unlocked \subseteq Alone, NEW u \in User,
         RecvDrop(u) \/ (\E then \in {"set", "keys"} : RecvSet(u, then)) \/ RecvFrames(u)
  PROVE  FrameInv'
<1>1. PICK then : DoRecv(u, then) /\ StepDone(u) /\ (frames' = frames \/ RecvFrames(u))
  BY DEF RecvDrop, RecvSet, RecvFrames
<1>2. /\ todo[u] # <<>> /\ todo[u][1].do = "recv" /\ wire = <<>>
      /\ UNCHANGED <<sockfd, wire, eof, defined, lost, multi>>
      /\ Covers(todo[u][1], multi) = {}
  BY <1>1, ReceivedKeeps
<1>3. frames \subseteq Told => frames' \subseteq Told
  <2>1. CASE frames' = frames
    BY <2>1
  <2>2. CASE RecvFrames(u)
    <3>1. DoRecv(u, "frames") /\ frames' = frames \cup back[1].set
      BY <2>2 DEF RecvFrames
    <3>2. /\ todo[u][1].do = "recv" /\ todo[u][1].then = "frames"
          /\ StepOK(op[u], todo[u][1], val) /\ ReplyOK(back[1])
          /\ back[1].cmd = todo[u][1].cmd
      BY <3>1, RecvFacts
    <3>3. back[1].cmd = "cog-atomspace"
      BY <3>2 DEF StepOK, UseOK
    <3>4. back[1].set = defined
      BY <3>2, <3>3 DEF ReplyOK
    <3> QED
      BY <3>1, <3>4 DEF Told, ToldBy
  <2> QED
    BY <1>1, <2>1, <2>2
<1> QED
  BY <1>1, <1>2, <1>3, DoneKeeps

\* A thread that reads, or is in another step than those of kill_data, close and open.
LEMMA OtherOps ==
  ASSUME Inv, FrameInv, NEW u \in User, todo[u] # <<>>,
         \/ todo[u][1].do \notin {"lock", "send", "recv", "single", "forget", "unlock", "shut",
                                  "connect"}
         \/ todo[u][1].do = "recv" /\ todo[u][1].then # "drop"
  PROVE  op[u] \notin {"kill_data", "close", "open"}
BY NextAndRest DEF Fits

LEMMA KeepKeeps ==
  ASSUME Inv, FrameInv, Unlocked \subseteq Alone, NEW u \in User, RecvKeep(u)
  PROVE  FrameInv'
<1> DEFINE b == [do |-> "set", arg |-> Head(todo[u]).arg, stamp |-> back[1].stamp]
           t == Tail(todo[u])
           sb == <<b>>
           q == t \o sb
<1>1. DoRecv(u, "keep") /\ Advance(u, q) /\ frames' = frames
  BY DEF RecvKeep
<1>2. /\ todo[u] # <<>> /\ todo[u][1].do = "recv" /\ todo[u][1].then = "keep"
      /\ UNCHANGED <<sockfd, wire, eof, defined, lost, multi>>
  BY <1>1, ReceivedKeeps
<1>3. StepOK(op[u], todo[u][1], val) /\ Head(todo[u]) = todo[u][1] /\ back[1] \in Reply
  BY <1>1, RecvFacts
<1>4. op[u] = "runQuery" /\ b \in StepRec
  BY <1>2, <1>3 DEF StepOK, StepRec, Reply
<1>5. t \in Seq(StepRec) /\ \A s \in Left(t) : Fits(op[u], s)
  BY <1>2, NextAndRest
<1>6. Fits(op[u], b)
  BY <1>4 DEF Fits
<1> HIDE DEF b, t
<1>7. sb \in Seq(StepRec) /\ Left(sb) = {b}
  BY <1>4, LeftOne
<1> HIDE DEF sb
<1>8. q \in Seq(StepRec) /\ Left(q) = Left(t) \cup {b}
  BY <1>5, <1>7, LeftJoin
<1> HIDE DEF q
<1>9. \A s \in Left(q) : Fits(op[u], s)
  BY <1>5, <1>6, <1>8
<1>10. op[u] \notin Stores
  BY <1>4 DEF Stores
<1>11. Safe(q, Told, multi')
  BY <1>9, <1>10, SafeIdle
<1>12. op[u] \notin {"kill_data", "close", "open"}
  BY <1>4
<1> QED
  BY <1>1, <1>2, <1>8, <1>9, <1>11, <1>12, ReplaceKeeps

\* A step with which no frame is told or counted on, in front of others.
LEMMA PlainFront ==
  ASSUME NEW f, NEW a \in StepRec, NEW q \in Seq(StepRec), NEW T, NEW m,
         Fits(f, a), \A s \in Left(q) : Fits(f, s), Owes(a, m) = {}, Covers(a, m) = {}
  PROVE  /\ <<a>> \o q \in Seq(StepRec) /\ \A s \in Left(<<a>> \o q) : Fits(f, s)
         /\ Safe(<<a>> \o q, T, m) <=> Safe(q, T, m)
<1> DEFINE r == <<a>> \o q
<1>1. r \in Seq(StepRec) /\ Left(r) = {a} \cup Left(q)
  BY Cons
<1>2. Safe(r, T, m) <=> Owes(a, m) \subseteq T /\ Safe(q, T \cup Covers(a, m), m)
  BY SafeCons
<1>3. T \cup Covers(a, m) = T
  OBVIOUS
<1> HIDE DEF r
<1>4. Safe(r, T, m) <=> Safe(q, T, m)
  BY <1>2, <1>3
<1> QED
  BY <1>1, <1>4 DEF r

LEMMA ProbeKeeps ==
  ASSUME Inv, FrameInv, Unlocked \subseteq Alone, NEW u \in User, RecvProbe(u)
  PROVE  FrameInv'
<1>1. DoRecv(u, "probe") /\ frames' = frames /\ (Advance(u, Step("unlock")) \/ StepDone(u))
  BY DEF RecvProbe, StepDone
<1>2. /\ todo[u] # <<>> /\ todo[u][1].do = "recv" /\ todo[u][1].then = "probe" /\ wire = <<>>
      /\ UNCHANGED <<sockfd, wire, eof, defined, lost, multi>>
      /\ Covers(todo[u][1], multi) = {}
  BY <1>1, ReceivedKeeps
<1>3. CASE StepDone(u)
  BY <1>1, <1>2, <1>3, DoneKeeps
<1>4. CASE Advance(u, Step("unlock"))
  <2> DEFINE e == [do |-> "unlock"]
             q == <<e>>
  <2>1. e \in StepRec /\ Fits(op[u], e) /\ \A m : Owes(e, m) = {} /\ Covers(e, m) = {}
    <3>1. op[u] \notin {"kill_data", "close", "open"}
      BY <1>2, OtherOps
    <3> QED
      BY <3>1, FormSteps DEF Fits, Owes, Covers
  <2>2. q = Step("unlock")
    BY DEF Step
  <2> HIDE DEF e
  <2>3. q \in Seq(StepRec) /\ Left(q) = {e} /\ Len(q) = 1 /\ q[1] = e
    BY <2>1, LeftOne
  <2> HIDE DEF q
  <2>4. Safe(q, Told, multi')
    BY <2>1, <2>3 DEF Safe
  <2>5. op[u] \notin {"kill_data", "close", "open"}
    BY <1>2, OtherOps
  <2>6. \A s \in Left(q) : Fits(op[u], s)
    BY <2>1, <2>3
  <2> QED
    BY <1>1, <1>2, <1>4, <2>2, <2>3, <2>4, <2>5, <2>6, ReplaceKeeps
<1> QED
  BY <1>1, <1>3, <1>4

LEMMA ListKeeps ==
  ASSUME Inv, FrameInv, Unlocked \subseteq Alone, NEW u \in User, RecvList(u)
  PROVE  FrameInv'
<1> DEFINE b == [do |-> "next", rest |-> back[1].set]
           t == Tail(todo[u])
           x == todo[u][1]
           q == <<b>> \o t
<1>1. DoRecv(u, "list") /\ Advance(u, q) /\ frames' = frames
  BY DEF RecvList
<1>2. /\ todo[u] # <<>> /\ x.do = "recv" /\ x.then = "list"
      /\ UNCHANGED <<sockfd, wire, eof, defined, lost, multi>> /\ Covers(x, multi) = {}
  BY <1>1, ReceivedKeeps
<1>3. StepOK(op[u], x, val) /\ back[1] \in Reply /\ ReplyOK(back[1]) /\ back[1].cmd = x.cmd
  BY <1>1, RecvFacts
<1>4. b \in StepRec
  <2>1. back[1].set \subseteq Atom
    BY <1>2, <1>3 DEF StepOK, UseOK, ReplyOK, Inv, Types
  <2> QED
    BY <2>1 DEF StepRec
<1>5. op[u] \notin {"kill_data", "close", "open"}
  BY <1>2, OtherOps
<1>6. Fits(op[u], b) /\ \A m : Owes(b, m) = {} /\ Covers(b, m) = {}
  BY <1>5 DEF Fits, Owes, Covers
<1>7. /\ t \in Seq(StepRec) /\ \A s \in Left(t) : Fits(op[u], s)
      /\ Calm => Safe(t, Told \cup Covers(x, multi), multi)
  BY <1>2, NextAndRest
<1>8. Calm => Safe(t, Told, multi')
  <2>1. Told \cup Covers(x, multi) \subseteq Told
    BY <1>2
  <2> QED
    BY <1>2, <1>7, <2>1, SafeMore
<1> HIDE DEF b, t, x
<1>9. /\ q \in Seq(StepRec) /\ \A s \in Left(q) : Fits(op[u], s)
      /\ Safe(q, Told, multi') <=> Safe(t, Told, multi')
  BY <1>4, <1>6, <1>7, PlainFront
<1> HIDE DEF q
<1> QED
  BY <1>1, <1>2, <1>5, <1>8, <1>9, ReplaceKeeps

LEMMA DecodeKeeps ==
  ASSUME Inv, FrameInv, NEW u \in User, DecodeAtom(u)
  PROVE  FrameInv'
<1> DEFINE t == Tail(todo[u])
           x == todo[u][1]
<1>1. /\ todo[u] # <<>> /\ Head(todo[u]) = x /\ x.do = "next" /\ StepOK(op[u], x, val)
      /\ UNCHANGED <<sockfd, wire, eof, defined, lost, multi, frames>>
  BY AtStep DEF Inv, DecodeAtom, At, sockVars, srvVars, cacheVars
<1>2. x.rest \subseteq Atom /\ \A m : Covers(x, m) = {}
  BY <1>1 DEF StepOK, StepRec, Covers
<1>3. op[u] \notin {"kill_data", "close", "open"}
  BY <1>1, OtherOps
<1>4. /\ t \in Seq(StepRec) /\ \A s \in Left(t) : Fits(op[u], s)
      /\ Calm => Safe(t, Told \cup Covers(x, multi), multi)
  BY <1>1, NextAndRest
<1>5. Calm => Safe(t, Told, multi')
  <2>1. Told \cup Covers(x, multi) \subseteq Told
    BY <1>2
  <2> QED
    BY <1>1, <1>4, <2>1, SafeMore
<1>6. CASE StepDone(u)
  BY <1>1, <1>2, <1>6, DoneKeeps
<1>7. CASE ~StepDone(u)
  <2>1. PICK a \in x.rest :
          Advance(u, FetchKeys(a) \o <<[do |-> "next", rest |-> x.rest \ {a}]>> \o t)
    BY <1>1, <1>7 DEF DecodeAtom
  <2> DEFINE b == [do |-> "next", rest |-> x.rest \ {a}]
             k1 == [do |-> "send", cmd |-> "cog-keys->alist", arg |-> a, frame |-> None]
             k2 == [do |-> "recv", cmd |-> "cog-keys->alist", arg |-> a, then |-> "keys"]
  <2>2. b \in StepRec /\ k1 \in StepRec /\ k2 \in StepRec
    BY <1>2, <2>1 DEF StepRec, Cmd, Arg, Use, Stamped
  <2>3. /\ Fits(op[u], b) /\ Fits(op[u], k1) /\ Fits(op[u], k2)
        /\ \A m : Owes(b, m) = {} /\ Covers(b, m) = {}
        /\ \A m : Owes(k1, m) = {} /\ Covers(k1, m) = {}
        /\ \A m : Owes(k2, m) = {} /\ Covers(k2, m) = {}
    BY <1>3 DEF Fits, Owes, Own, Covers, Tells
  <2>4. Advance(u, ((<<k1>> \o <<k2>>) \o <<b>>) \o t)
    BY <2>1 DEF FetchKeys, Ask, Send
  <2> HIDE DEF b, k1, k2, t, x
  <2> DEFINE q1 == <<b>> \o t
             q2 == <<k2>> \o q1
             q3 == <<k1>> \o q2
  <2>5. ((<<k1>> \o <<k2>>) \o <<b>>) \o t = q3
    BY <1>4, <2>2, Front
  <2>6. /\ q1 \in Seq(StepRec) /\ \A s \in Left(q1) : Fits(op[u], s)
        /\ Safe(q1, Told, multi') <=> Safe(t, Told, multi')
    BY <1>4, <2>2, <2>3, PlainFront
  <2> HIDE DEF q1
  <2>7. /\ q2 \in Seq(StepRec) /\ \A s \in Left(q2) : Fits(op[u], s)
        /\ Safe(q2, Told, multi') <=> Safe(q1, Told, multi')
    BY <2>2, <2>3, <2>6, PlainFront
  <2> HIDE DEF q2
  <2>8. /\ q3 \in Seq(StepRec) /\ \A s \in Left(q3) : Fits(op[u], s)
        /\ Safe(q3, Told, multi') <=> Safe(q2, Told, multi')
    BY <2>2, <2>3, <2>7, PlainFront
  <2>9. Advance(u, q3)
    BY <2>4, <2>5
  <2> HIDE DEF q3
  <2>10. Calm => Safe(q3, Told, multi')
    BY <1>5, <2>6, <2>7, <2>8
  <2> QED
    BY <1>1, <1>3, <2>8, <2>9, <2>10, ReplaceKeeps
<1> QED
  BY <1>6, <1>7

-----------------------------------------------------------------------------
(***************************************************************************)
(* The steps that store, and the cache of frames.                          *)
(***************************************************************************)
\* Steps that operation f may consist of.
Fine(f, q) == q \in Seq(StepRec) /\ \A s \in Left(q) : Fits(f, s)

\* ... and that count on no more than T, with _multi_space being m.
Ready(f, q, T, m) == Fine(f, q) /\ Safe(q, T, m)

\* writeFrame, and a message that may count on the frame or on one that it is built on.
LEMMA StoreFront ==
  ASSUME NEW f \in Stores, f # "storeFrameDAG", NEW h \in Space, NEW s \in Space,
         NEW c \in Cmd, NEW a \in Atom, h = Home[a], NEW t, NEW T, NEW m \in BOOLEAN, Ready(f, t, T, m)
  PROVE  Ready(f, (WriteFrame(h, FALSE) \o Encode(c, a, s)) \o t, T, m)
<1>0. t \in Seq(StepRec) /\ (\A e \in Left(t) : Fits(f, e)) /\ Safe(t, T, m)
  BY DEF Ready, Fine
<1> DEFINE x == [do |-> "find", space |-> h, force |-> FALSE]
           y == [do |-> "encode", cmd |-> c, arg |-> a, space |-> s]
<1>2. x \in StepRec /\ y \in StepRec
  BY DEF StepRec
<1>3. Fits(f, x) /\ Fits(f, y)
  BY DEF Fits, Stores
<1>4. /\ Owes(x, m) = {} /\ Covers(x, m) = (IF m THEN Below[h] ELSE {})
      /\ Owes(y, m) \subseteq (IF m THEN Below[h] ELSE {}) /\ Covers(y, m) = {}
  BY DEF Owes, Own, Covers
<1>5. (WriteFrame(h, FALSE) \o Encode(c, a, s)) \o t = (<<x>> \o <<y>>) \o t
  BY DEF WriteFrame, Encode
<1> HIDE DEF x, y
<1> DEFINE q1 == <<y>> \o t
           q2 == <<x>> \o q1
<1>6. (<<x>> \o <<y>>) \o t = q2
  BY <1>0, <1>2, Front
<1>7. q1 \in Seq(StepRec) /\ Left(q1) = {y} \cup Left(t)
  BY <1>0, <1>2, Cons
<1>8. \A U : Safe(q1, U, m) <=> Owes(y, m) \subseteq U /\ Safe(t, U \cup Covers(y, m), m)
  BY <1>0, <1>2, SafeCons
<1> HIDE DEF q1
<1>9. q2 \in Seq(StepRec) /\ Left(q2) = {x} \cup Left(q1)
  BY <1>2, <1>7, Cons
<1>10. Safe(q2, T, m) <=> Owes(x, m) \subseteq T /\ Safe(q1, T \cup Covers(x, m), m)
  BY <1>2, <1>7, SafeCons
<1> HIDE DEF q2
<1> DEFINE U == T \cup Covers(x, m)
<1>11. T \subseteq U \cup Covers(y, m) /\ Owes(y, m) \subseteq U
  BY <1>4
<1> HIDE DEF U
<1>12. Safe(t, U \cup Covers(y, m), m)
  BY <1>0, <1>11, SafeMore
<1>13. Safe(q1, U, m)
  BY <1>8, <1>11, <1>12
<1>14. Safe(q2, T, m)
  BY <1>4, <1>10, <1>13 DEF U
<1> QED
  BY <1>0, <1>3, <1>5, <1>6, <1>7, <1>9, <1>14 DEF Ready, Fine

LEMMA StoreNextKeeps ==
  ASSUME Inv, FrameInv, NEW u \in User, StoreNext(u)
  PROVE  FrameInv'
<1> DEFINE x == todo[u][1]
<1>1. /\ todo[u] # <<>> /\ Head(todo[u]) = x /\ x.do = "each" /\ StepOK(op[u], x, val)
      /\ UNCHANGED <<sockfd, wire, eof, defined, lost, frames>>
  BY AtStep DEF Inv, StoreNext, At, sockVars, srvVars
<1>2. x.rest \subseteq Atom /\ \A m : Covers(x, m) = {}
  BY <1>1 DEF StepOK, StepRec, Covers
<1>3. op[u] \notin {"kill_data", "close", "open"}
  BY <1>1, OtherOps
<1>4. op[u] \in Stores /\ op[u] # "storeFrameDAG"
  <2>1. Fits(op[u], x)
    BY <1>1, NextAndRest
  <2> QED
    BY <1>1, <2>1 DEF Fits
<1>5. CASE x.rest = {}
  <2>1. StepDone(u) /\ multi' = multi
    BY <1>1, <1>5 DEF StoreNext
  <2> QED
    BY <1>1, <1>2, <2>1, DoneKeeps
<1>6. CASE x.rest # {}
  <2>1. PICK a \in x.rest :
          /\ SetMulti(Home[a])
          /\ Advance(u, StoreSteps(a) \o <<[do |-> "each", rest |-> x.rest \ {a}]>>)
    BY <1>1, <1>6 DEF StoreNext
  <2>2. multi \in BOOLEAN /\ multi' \in BOOLEAN /\ (multi' = multi \/ multi' = TRUE)
    BY <2>1 DEF Inv, Types, SetMulti
  <2>3. a \in Atom /\ Home[a] \in Space /\ Home[a] \in Below[Home[a]] /\ "cog-set-values!" \in Cmd
    BY <1>2, SpaceAssumption DEF Cmd, Silent
  <2>h. PICK h \in Space : h = Home[a] /\ h \in Below[h]
    BY <2>3
  <2> DEFINE b == [do |-> "each", rest |-> x.rest \ {a}]
             t == <<b>>
             q == (WriteFrame(h, FALSE) \o Encode("cog-set-values!", a, h)) \o t
  <2>4. b \in StepRec /\ Fits(op[u], b) /\ \A m : Owes(b, m) = {}
    <3>1. b \in StepRec
      BY <1>2 DEF StepRec
    <3>2. Fits(op[u], b)
      BY <1>3, <1>4 DEF Fits
    <3>3. \A m : Owes(b, m) = {}
      BY DEF Owes
    <3> QED
      BY <3>1, <3>2, <3>3
  <2>5. Advance(u, q)
    BY <2>1, <2>h DEF StoreSteps
  <2> HIDE DEF b, x
  <2>6. t \in Seq(StepRec) /\ Left(t) = {b} /\ Len(t) = 1 /\ t[1] = b
    BY <2>4, LeftOne
  <2> HIDE DEF t
  <2>7. Safe(t, Told, multi')
    BY <2>4, <2>6 DEF Safe
  <2>8. \A e \in Left(t) : Fits(op[u], e)
    BY <2>4, <2>6
  <2>9. q \in Seq(StepRec) /\ (\A e \in Left(q) : Fits(op[u], e)) /\ Safe(q, Told, multi')
    <3>1. a \in Atom /\ "cog-set-values!" \in Cmd /\ h = Home[a]
      BY <2>3, <2>h
    <3>2. op[u] \in Stores /\ op[u] # "storeFrameDAG" /\ multi' \in BOOLEAN
      BY <1>4, <2>2
    <3>3. Ready(op[u], t, Told, multi')
      BY <2>6, <2>7, <2>8 DEF Ready, Fine
    <3>4. Ready(op[u], q, Told, multi')
      BY <3>1, <3>2, <3>3, StoreFront
    <3> HIDE DEF q
    <3> QED
      BY <3>4 DEF Ready, Fine
  <2> HIDE DEF q
  <2> QED
    BY <1>1, <1>3, <1>4, <2>2, <2>5, <2>9, ReplaceKeeps
<1> QED
  BY <1>5, <1>6

\* The frame is to be sent, and cached after that.
LEMMA DefineFront ==
  ASSUME NEW f \in Stores, NEW h \in Space, NEW t \in Seq(StepRec), NEW T, NEW m \in BOOLEAN,
         \A e \in Left(t) : Fits(f, e), Safe(t, T \cup Below[h], m)
  PROVE  LET q == Define(h) \o t
         IN  q \in Seq(StepRec) /\ (\A e \in Left(q) : Fits(f, e)) /\ Safe(q, T, m)
<1> DEFINE l == [do |-> "lock"]
           x == [do |-> "send", cmd |-> "define", arg |-> h, frame |-> None]
           e == [do |-> "unlock"]
           y == [do |-> "cache", rest |-> Below[h]]
<1>1. l \in StepRec /\ x \in StepRec /\ e \in StepRec /\ y \in StepRec
  <2>1. h \in Arg /\ Below[h] \subseteq Space
    BY SpaceAssumption DEF Arg
  <2>2. y \in StepRec
    BY <2>1 DEF StepRec
  <2> QED
    BY <2>1, <2>2, FormSteps
<1>2. Fits(f, l) /\ Fits(f, x) /\ Fits(f, e) /\ Fits(f, y)
  BY DEF Fits, Stores
<1>3. /\ Owes(l, m) = {} /\ Covers(l, m) = {} /\ Owes(e, m) = {} /\ Covers(e, m) = {}
      /\ Owes(x, m) = {} /\ Covers(x, m) = Below[h]
      /\ Owes(y, m) = Below[h] /\ Covers(y, m) = {}
  BY DEF Owes, Own, Covers, Tells
<1>4. Define(h) \o t = (((<<l>> \o <<x>>) \o <<e>>) \o <<y>>) \o t
  BY DEF Define, Locked, Send, Step
<1> HIDE DEF l, x, e, y
<1> DEFINE q1 == <<y>> \o t
           q2 == <<e>> \o q1
           q3 == <<x>> \o q2
           q4 == <<l>> \o q3
           U == T \cup Below[h]
<1>5. Define(h) \o t = q4
  BY <1>1, <1>4, Front
<1>6. q1 \in Seq(StepRec) /\ Left(q1) = {y} \cup Left(t)
  BY <1>1, Cons
<1>7. Safe(q1, U, m)
  <2>1. Safe(q1, U, m) <=> Owes(y, m) \subseteq U /\ Safe(t, U \cup Covers(y, m), m)
    BY <1>1, SafeCons
  <2>2. U \cup Covers(y, m) = U /\ Owes(y, m) \subseteq U
    BY <1>3
  <2>3. Safe(t, U, m)
    OBVIOUS
  <2> HIDE DEF U, q1
  <2> QED
    BY <2>1, <2>2, <2>3
<1>8. \A s \in Left(q1) : Fits(f, s)
  BY <1>2, <1>6
<1> HIDE DEF q1, U
<1>9. /\ q2 \in Seq(StepRec) /\ (\A s \in Left(q2) : Fits(f, s))
      /\ Safe(q2, U, m) <=> Safe(q1, U, m)
  BY <1>1, <1>2, <1>3, <1>6, <1>8, PlainFront
<1> HIDE DEF q2
<1>10. q3 \in Seq(StepRec) /\ Left(q3) = {x} \cup Left(q2)
  BY <1>1, <1>9, Cons
<1>11. Safe(q3, T, m)
  <2>1. Safe(q3, T, m) <=> Owes(x, m) \subseteq T /\ Safe(q2, T \cup Covers(x, m), m)
    BY <1>1, <1>9, SafeCons
  <2> HIDE DEF q3
  <2> QED
    BY <1>3, <1>7, <1>9, <2>1 DEF U
<1>12. \A s \in Left(q3) : Fits(f, s)
  BY <1>2, <1>9, <1>10
<1> HIDE DEF q3
<1>13. /\ q4 \in Seq(StepRec) /\ (\A s \in Left(q4) : Fits(f, s))
       /\ Safe(q4, T, m) <=> Safe(q3, T, m)
  BY <1>1, <1>2, <1>3, <1>10, <1>12, PlainFront
<1> HIDE DEF q4
<1> QED
  BY <1>5, <1>11, <1>13

LEMMA FindKeeps ==
  ASSUME Inv, FrameInv, NEW u \in User, FindFrame(u)
  PROVE  FrameInv'
<1> DEFINE x == todo[u][1]
           t == Tail(todo[u])
           h == x.space
<1>1. /\ todo[u] # <<>> /\ Head(todo[u]) = x /\ x.do = "find" /\ StepOK(op[u], x, val)
      /\ UNCHANGED <<sockfd, wire, eof, defined, lost, frames>>
  BY AtStep DEF Inv, FindFrame, At, sockVars, srvVars
<1>2. /\ h \in Space /\ x.force \in BOOLEAN
      /\ \A m : Covers(x, m) = (IF m THEN Below[h] ELSE {})
  BY <1>1 DEF StepOK, StepRec, Covers
<1>3. op[u] \notin {"kill_data", "close", "open"}
  BY <1>1, OtherOps
<1>4. /\ t \in Seq(StepRec) /\ \A s \in Left(t) : Fits(op[u], s)
      /\ Calm => Safe(t, Told \cup Covers(x, multi), multi)
      /\ Fits(op[u], x)
  BY <1>1, NextAndRest
<1>5. op[u] \in Stores /\ (x.force => op[u] = "storeFrameDAG")
  BY <1>1, <1>4 DEF Fits
<1>6. multi \in BOOLEAN
  BY DEF Inv, Types
<1>7. CASE (multi \/ x.force) /\ h \notin frames
  <2>1. multi' = TRUE /\ Advance(u, Define(h) \o t)
    BY <1>1, <1>7 DEF FindFrame
  <2>2. Calm => Safe(t, Told \cup Below[h], TRUE)
    <3>1. CASE multi
      BY <1>2, <1>4, <1>6, <3>1
    <3>2. CASE ~multi
      <4>1. op[u] = "storeFrameDAG"
        BY <1>5, <1>7, <3>2
      <4>2. \A s \in Left(t) : s.do # "encode"
        BY <1>4, <4>1 DEF Fits
      <4> HIDE DEF t, x, h
      <4>3. Calm => Safe(t, Told \cup Covers(x, multi), TRUE)
        BY <1>4, <1>6, <4>2, SafeFlag
      <4>4. Told \cup Covers(x, multi) \subseteq Told \cup Below[h]
        BY <1>2, <3>2
      <4> QED
        BY <4>3, <4>4, SafeMore
    <3> QED
      BY <3>1, <3>2
  <2> DEFINE q == Define(h) \o t
  <2> HIDE DEF t, x, h
  <2>3. ASSUME Calm
        PROVE  q \in Seq(StepRec) /\ (\A e \in Left(q) : Fits(op[u], e)) /\ Safe(q, Told, TRUE)
    BY <1>2, <1>4, <1>5, <2>2, <2>3, DefineFront
  <2>4. q \in Seq(StepRec) /\ (\A e \in Left(q) : Fits(op[u], e))
    <3>1. \E U : Safe(t, U \cup Below[h], TRUE)
      <4> DEFINE U == UNION {Owes(e, TRUE) : e \in Left(t)}
      <4>1. \A i \in 1..Len(t) : t[i] \in Left(t)
        BY DEF Left
      <4>2. Safe(t, U \cup Below[h], TRUE)
        BY <4>1 DEF Safe
      <4> HIDE DEF U
      <4> QED
        BY <4>2
    <3>2. PICK U : Safe(t, U \cup Below[h], TRUE)
      BY <3>1
    <3> QED
      BY <1>2, <1>4, <1>5, <3>2, DefineFront
  <2> HIDE DEF q
  <2>5. multi' = multi \/ (multi' = TRUE /\ op[u] \in Stores)
    BY <1>5, <2>1
  <2>6. Advance(u, q) /\ (Calm => Safe(q, Told, multi'))
    BY <2>1, <2>3 DEF q
  <2> QED
    BY <1>1, <1>3, <2>4, <2>5, <2>6, ReplaceKeeps
<1>8. CASE ~((multi \/ x.force) /\ h \notin frames)
  <2>1. StepDone(u) /\ multi' = multi
    BY <1>1, <1>8 DEF FindFrame
  <2>2. Calm => Covers(x, multi) \subseteq Told
    <3>1. CASE ~multi
      BY <1>2, <3>1
    <3>2. CASE multi
      <4> SUFFICES ASSUME Calm PROVE Covers(x, multi) \subseteq Told
        OBVIOUS
      <4>1. h \in frames
        BY <1>8, <3>2
      <4>2. \A v \in User : ~Clearing(v)
        BY <1>5 DEF Calm, Clearing
      <4>3. h \in Told
        BY <4>1, <4>2 DEF Calm
      <4>4. Below[h] \subseteq Told
        BY <4>3, ToldClosed
      <4> QED
        BY <1>2, <4>4
    <3> QED
      BY <1>6, <3>1, <3>2
  <2> QED
    BY <1>1, <2>1, <2>2, DoneKeeps
<1> QED
  BY <1>7, <1>8

LEMMA CacheKeeps ==
  ASSUME Inv, FrameInv, NEW u \in User, CacheFrame(u)
  PROVE  FrameInv'
<1> DEFINE x == todo[u][1]
           t == Tail(todo[u])
<1>1. /\ todo[u] # <<>> /\ Head(todo[u]) = x /\ x.do = "cache" /\ StepOK(op[u], x, val)
      /\ UNCHANGED <<sockfd, wire, eof, defined, lost, multi>>
  BY AtStep DEF Inv, CacheFrame, At, sockVars, srvVars
<1>2. x.rest \subseteq Space /\ (\A m : Covers(x, m) = {}) /\ Owes(x, multi) = x.rest
  BY <1>1 DEF StepOK, StepRec, Covers, Owes
<1>3. op[u] \notin {"kill_data", "close", "open"}
  BY <1>1, OtherOps
<1>4. /\ t \in Seq(StepRec) /\ \A s \in Left(t) : Fits(op[u], s)
      /\ Calm => x.rest \subseteq Told /\ Safe(t, Told \cup Covers(x, multi), multi)
      /\ Fits(op[u], x)
  BY <1>1, <1>2, NextAndRest
<1>5. CASE x.rest = {}
  <2>1. StepDone(u) /\ frames' = frames
    BY <1>1, <1>5 DEF CacheFrame
  <2> QED
    BY <1>1, <1>2, <2>1, DoneKeeps
<1>6. CASE x.rest # {}
  <2>1. PICK s \in x.rest :
          /\ frames' = frames \cup {s}
          /\ Advance(u, <<[do |-> "cache", rest |-> x.rest \ {s}]>> \o t)
    BY <1>1, <1>6 DEF CacheFrame
  <2> DEFINE b == [do |-> "cache", rest |-> x.rest \ {s}]
             q == <<b>> \o t
  <2>2. /\ b \in StepRec /\ Fits(op[u], b)
        /\ Owes(b, multi) \subseteq x.rest /\ Covers(b, multi) = {}
    BY <1>1, <1>2, <1>3, <1>4 DEF StepRec, Fits, Owes, Covers
  <2>3. Advance(u, q)
    BY <2>1
  <2> HIDE DEF b, x, t
  <2>4. q \in Seq(StepRec) /\ Left(q) = {b} \cup Left(t)
    BY <1>4, <2>2, Cons
  <2>5. Safe(q, Told, multi) <=>
          Owes(b, multi) \subseteq Told /\ Safe(t, Told \cup Covers(b, multi), multi)
    BY <1>4, <2>2, SafeCons
  <2> HIDE DEF q
  <2>6. Calm => Safe(q, Told, multi)
    BY <1>2, <1>4, <2>2, <2>5
  <2>7. Calm => Safe(q, Told, multi')
    BY <1>1, <2>6
  <2>8. \A e \in Left(q) : Fits(op[u], e)
    BY <1>4, <2>2, <2>4
  <2>9. Calm /\ frames \subseteq Told => frames' \subseteq Told
    BY <1>4, <2>1
  <2> QED
    BY <1>1, <1>3, <2>3, <2>4, <2>7, <2>8, <2>9, ReplaceKeeps
<1> QED
  BY <1>5, <1>6

LEMMA EncodeKeeps ==
  ASSUME Inv, FrameInv, NEW u \in User, EncodeAtom(u)
  PROVE  FrameInv'
<1> DEFINE x == todo[u][1]
           t == Tail(todo[u])
           fr == IF multi THEN x.space ELSE None
           l == [do |-> "lock"]
           y == [do |-> "send", cmd |-> x.cmd, arg |-> x.arg, frame |-> fr]
           e == [do |-> "unlock"]
<1>1. /\ todo[u] # <<>> /\ Head(todo[u]) = x /\ x.do = "encode" /\ StepOK(op[u], x, val)
      /\ UNCHANGED <<sockfd, wire, eof, defined, lost, multi, frames>>
  BY AtStep DEF Inv, EncodeAtom, At, sockVars, srvVars, cacheVars
<1>2. Advance(u, ((<<l>> \o <<y>>) \o <<e>>) \o t)
  BY <1>1 DEF EncodeAtom, Locked, Step
<1>3. /\ x.cmd \in Cmd /\ x.cmd \in Sets /\ x.arg \in Atom /\ x.space \in Space
      /\ (\A m : Covers(x, m) = {}) /\ Owes(x, multi) = (IF multi THEN Own(x.arg, x.space) ELSE {})
  BY <1>1 DEF StepOK, StepRec, Covers, Owes
<1>4. op[u] \notin {"kill_data", "close", "open"}
  BY <1>1, OtherOps
<1>5. /\ t \in Seq(StepRec) /\ \A s \in Left(t) : Fits(op[u], s)
      /\ Calm => Owes(x, multi) \subseteq Told /\ Safe(t, Told \cup Covers(x, multi), multi)
      /\ Fits(op[u], x)
  BY <1>1, NextAndRest
<1>6. op[u] \in Stores
  BY <1>1, <1>5 DEF Fits
<1>7. /\ l \in StepRec /\ y \in StepRec /\ e \in StepRec
      /\ Fits(op[u], l) /\ Fits(op[u], y) /\ Fits(op[u], e)
  <2>1. y \in StepRec
    BY <1>3 DEF StepRec, Arg
  <2> QED
    BY <1>4, <1>6, <2>1, FormSteps DEF Fits
<1>8. /\ Owes(l, multi) = {} /\ Covers(l, multi) = {} /\ Owes(e, multi) = {} /\ Covers(e, multi) = {}
      /\ Covers(y, multi) = {} /\ Owes(y, multi) \subseteq Owes(x, multi)
  BY <1>3 DEF Owes, Own, Covers, Tells, Sets
<1> HIDE DEF l, y, e, x, t, fr
<1> DEFINE q1 == <<e>> \o t
           q2 == <<y>> \o q1
           q3 == <<l>> \o q2
<1>9. ((<<l>> \o <<y>>) \o <<e>>) \o t = q3
  BY <1>5, <1>7, Front
<1>10. /\ q1 \in Seq(StepRec) /\ (\A s \in Left(q1) : Fits(op[u], s))
       /\ Safe(q1, Told, multi) <=> Safe(t, Told, multi)
  BY <1>5, <1>7, <1>8, PlainFront
<1> HIDE DEF q1
<1>11. q2 \in Seq(StepRec) /\ Left(q2) = {y} \cup Left(q1)
  BY <1>7, <1>10, Cons
<1>12. Safe(q2, Told, multi) <=>
         Owes(y, multi) \subseteq Told /\ Safe(q1, Told \cup Covers(y, multi), multi)
  BY <1>7, <1>10, SafeCons
<1> HIDE DEF q2
<1>13. Calm => Safe(q2, Told, multi)
  <2>1. Told \cup Covers(y, multi) = Told /\ Told \cup Covers(x, multi) = Told
    BY <1>3, <1>8
  <2> QED
    BY <1>5, <1>8, <1>10, <1>12, <2>1
<1>14. \A s \in Left(q2) : Fits(op[u], s)
  BY <1>7, <1>10, <1>11
<1>15. /\ q3 \in Seq(StepRec) /\ (\A s \in Left(q3) : Fits(op[u], s))
       /\ Safe(q3, Told, multi) <=> Safe(q2, Told, multi)
  BY <1>7, <1>8, <1>11, <1>14, PlainFront
<1>16. Advance(u, q3)
  BY <1>2, <1>9
<1> HIDE DEF q3
<1>17. Calm => Safe(q3, Told, multi')
  BY <1>1, <1>13, <1>15
<1> QED
  BY <1>1, <1>4, <1>15, <1>16, <1>17, ReplaceKeeps

LEMMA FlagsKeep ==
  ASSUME Inv, FrameInv, NEW u \in User, SetFlags(u)
  PROVE  FrameInv'
<1> DEFINE x == todo[u][1]
           t == Tail(todo[u])
<1>1. /\ todo[u] # <<>> /\ Head(todo[u]) = x /\ StepDone(u)
      /\ UNCHANGED <<sockfd, wire, eof, defined, lost>>
      /\ \/ x.do = "single" /\ multi' = FALSE /\ UNCHANGED frames
         \/ x.do = "several" /\ multi' = TRUE /\ UNCHANGED frames
         \/ x.do = "forget" /\ frames' = {} /\ UNCHANGED multi
  BY AtStep DEF Inv, SetFlags, At, sockVars, srvVars
<1>2. Advance(u, t) /\ raced' = raced
  BY <1>1 DEF StepDone, Advance
<1>3. /\ t \in Seq(StepRec) /\ Fits(op[u], x) /\ \A s \in Left(t) : Fits(op[u], s)
      /\ op[u] = "kill_data" =>
           /\ t \in {K5, K4, K3, K2, K1, <<>>}
           /\ x.do \in {"send", "recv", "single"} => t \in {K4, K3, K2}
      /\ Calm => Safe(t, Told \cup Covers(x, multi), multi)
  BY <1>1, NextAndRest
<1>4. \A m : Covers(x, m) = {}
  BY <1>1 DEF Covers
<1>5. \/ x.do = "single" /\ op[u] = "kill_data"
      \/ x.do = "several" /\ op[u] = "storeFrameDAG"
      \/ x.do = "forget" /\ op[u] = "kill_data"
  BY <1>1, <1>3 DEF Fits
<1>6. multi \in BOOLEAN
  BY DEF Inv, Types
<1> HIDE DEF x, t
<1>7. Calm => Safe(t, Told, multi)
  <2>1. Told \cup Covers(x, multi) = Told
    BY <1>4
  <2> QED
    BY <1>3, <2>1
<1>8. ASSUME ~raced' /\ lost' = 0
      PROVE  Calm'
  <2>1. Calm
    BY <1>1, <1>2, <1>8 DEF FrameInv
  <2>2. op[u] # "close" /\ op[u] # "open"
    BY <1>5
  <2>3. CASE x.do = "several"
    <3>1. op[u] = "storeFrameDAG" /\ multi' = TRUE /\ frames' = frames /\ op[u] \in Stores
      BY <1>1, <1>5, <2>3 DEF Stores
    <3>2. \A s \in Left(t) : s.do # "encode"
      BY <1>3, <3>1 DEF Fits
    <3>3. Safe(t, Told, multi')
      BY <1>6, <1>7, <2>1, <3>1, <3>2, SafeFlag
    <3>4. ~Clearing(u)
      BY <3>1 DEF Clearing
    <3> QED
      BY <1>1, <1>2, <1>3, <2>1, <2>2, <3>1, <3>3, <3>4, CalmStays
  <2>4. CASE x.do = "single"
    <3>1. op[u] = "kill_data" /\ multi' = FALSE /\ frames' = frames /\ t \in {K4, K3, K2}
      BY <1>1, <1>3, <1>5, <2>4
    <3>2. op[u] \notin Stores
      BY <3>1 DEF Stores
    <3>3. Safe(t, Told, multi')
      BY <1>3, <3>2, SafeIdle
    <3> QED
      BY <1>1, <1>2, <1>3, <2>1, <2>2, <3>1, <3>3, CalmStays
  <2>5. CASE x.do = "forget"
    <3>1. multi' = multi /\ frames' \subseteq Told
      BY <1>1, <2>5
    <3>2. Safe(t, Told, multi')
      BY <1>7, <2>1, <3>1
    <3> QED
      BY <1>1, <1>2, <1>3, <2>1, <2>2, <3>1, <3>2, CalmStays
  <2> QED
    BY <1>5, <2>3, <2>4, <2>5
<1>9. op[u] # "close"
  BY <1>5
<1> QED
  BY <1>1, <1>2, <1>3, <1>8, <1>9, GoesOn

-----------------------------------------------------------------------------
(***************************************************************************)
(* The connection.                                                         *)
(***************************************************************************)
LEMMA NoStepsLeft ==
  /\ <<>> \in Seq(StepRec) /\ Left(<<>>) = {} /\ <<>> # C1
<1>1. Len(<<>>) = 0 /\ <<>> \in Seq(StepRec)
  OBVIOUS
<1> QED
  BY <1>1, CloseForms DEF Left

\* An exception; the socket is as it was, or empty.
LEMMA ThrowKeeps ==
  ASSUME Inv, FrameInv, NEW u \in User, todo[u] # <<>>, Advance(u, <<>>),
         UNCHANGED <<defined, multi, frames>>, ~Clearing(u),
         Calm /\ lost' = 0 => UNCHANGED <<wire, eof>> /\ (sockfd' = sockfd \/ wire = <<>>),
         lost' = 0 => lost = 0
  PROVE  FrameInv'
<1>1. <<>> \in Seq(StepRec) /\ Left(<<>>) = {} /\ <<>> # C1
  BY NoStepsLeft
<1>2. \A s \in Left(<<>>) : Fits(op[u], s)
  BY <1>1
<1>3. raced' = raced
  BY DEF Advance
<1>4. ASSUME ~raced' /\ lost' = 0
      PROVE  Calm'
  <2>1. Calm /\ multi' = multi
    BY <1>3, <1>4 DEF FrameInv
  <2>2. UNCHANGED <<wire, eof>> /\ (sockfd' = sockfd \/ wire = <<>>)
    BY <1>4, <2>1
  <2>3. Safe(<<>>, Told, multi')
    BY SafeEmpty
  <2>4. Left(<<>>) \subseteq Left(todo[u])
    BY <1>1
  <2> DEFINE e == <<>>
  <2>5. e \in Seq(StepRec) /\ e # C1 /\ Left(e) \subseteq Left(todo[u]) /\ Advance(u, e)
        /\ Safe(e, Told, multi')
    BY <1>1, <2>3, <2>4
  <2> HIDE DEF e
  <2> QED
    BY <2>1, <2>2, <2>5, CalmStays
<1> DEFINE e == <<>>
<1>5. /\ e \in Seq(StepRec) /\ Advance(u, e) /\ (\A s \in Left(e) : Fits(op[u], s))
      /\ e \in {K5, K4, K3, K2, K1, <<>>} /\ e \in {C5, C4, C3, C2, C1, <<>>}
  BY <1>1, <1>2
<1> HIDE DEF e
<1> QED
  BY <1>4, <1>5, GoesOn

LEMMA NotClearing ==
  ASSUME Inv, FrameInv, NEW u \in User, todo[u] # <<>>,
         todo[u][1].do \notin {"recv", "single", "forget"}
  PROVE  ~Clearing(u)
BY NextAndRest DEF Clearing

\* A thread that waits for a reply does so on a socket that is open.
LEMMA RecvFailsKeeps ==
  ASSUME Inv, FrameInv, NEW u \in User, DoRecvFails(u)
  PROVE  FrameInv'
<1>1. /\ todo[u] # <<>> /\ Head(todo[u]).do = "recv" /\ Advance(u, <<>>) /\ (~connected \/ eof)
      /\ UNCHANGED <<wire, eof, defined, lost, multi, frames>>
  BY DEF DoRecvFails, At, Throw, sockVars, srvVars, cacheVars
<1>2. todo[u][1].do = "recv"
  BY <1>1, AtStep DEF Inv
<1>3. ~Calm
  <2>1. connected
    BY <1>1, <1>2 DEF Inv, Exchange, connected, Types
  <2> QED
    BY <1>1, <2>1 DEF Calm
<1>4. raced' = raced
  BY <1>1 DEF Advance
<1>5. ~(~raced' /\ lost' = 0)
  BY <1>1, <1>3, <1>4 DEF FrameInv
<1> DEFINE e == <<>>
<1>6. /\ e \in Seq(StepRec) /\ Advance(u, e) /\ (\A s \in Left(e) : Fits(op[u], s))
      /\ e \in {K5, K4, K3, K2, K1, <<>>} /\ e \in {C5, C4, C3, C2, C1, <<>>}
  BY <1>1, NoStepsLeft
<1> HIDE DEF e
<1> QED
  BY <1>1, <1>5, <1>6, GoesOn

LEMMA CloseKeeps ==
  ASSUME Inv, FrameInv, NEW u \in User, CloseSock(u)
  PROVE  FrameInv'
<1> DEFINE x == todo[u][1]
           t == Tail(todo[u])
<1>1. /\ todo[u] # <<>> /\ x.do = "shut" /\ Advance(u, t)
      /\ UNCHANGED <<wire, eof, defined, lost, multi, frames>>
  BY AtStep DEF Inv, CloseSock, At, StepDone, sockVars, srvVars, cacheVars
<1>2. /\ t \in Seq(StepRec) /\ Fits(op[u], x) /\ \A s \in Left(t) : Fits(op[u], s)
      /\ op[u] = "close" =>
           /\ t \in {C5, C4, C3, C2, C1, <<>>} /\ (t = C1 => x.do = "recv")
           /\ x.do = "shut" => todo[u] = C1
      /\ Calm => Safe(t, Told \cup Covers(x, multi), multi)
  BY <1>1, NextAndRest
<1>3. op[u] = "close" /\ todo[u] = C1
  BY <1>1, <1>2 DEF Fits
<1>4. raced' = raced
  BY <1>1 DEF Advance
<1>5. Told \cup Covers(x, multi) = Told
  BY <1>1 DEF Covers
<1>6. ~Clearing(u) /\ op[u] # "kill_data" /\ op[u] # "open"
  BY <1>3 DEF Clearing
<1> HIDE DEF x, t
<1>7. ASSUME ~raced' /\ lost' = 0
      PROVE  Calm'
  <2>1. Calm
    BY <1>1, <1>4, <1>7 DEF FrameInv
  <2>2. wire = <<>>
    BY <1>3, <2>1 DEF Calm
  <2>3. multi' = multi /\ Safe(t, Told, multi')
    BY <1>1, <1>2, <1>5, <2>1
  <2> QED
    BY <1>1, <1>2, <1>6, <2>1, <2>2, <2>3, CalmStays
<1> QED
  BY <1>1, <1>2, <1>3, <1>6, <1>7, GoesOn

LEMMA ConnectKeeps ==
  ASSUME Inv, FrameInv, NEW u \in User, Connect(u)
  PROVE  FrameInv'
<1> DEFINE x == todo[u][1]
           t == Tail(todo[u])
<1>1. /\ todo[u] # <<>> /\ x.do = "connect" /\ UNCHANGED <<defined, multi, frames>>
      /\ \/ sockfd' = 1 /\ wire' = <<>> /\ eof' = FALSE /\ Advance(u, t) /\ lost' = lost
         \/ Advance(u, <<>>) /\ UNCHANGED <<wire, eof, lost>>
         \/ Advance(u, <<>>) /\ lost' = lost + 1
  BY AtStep DEF Inv, Connect, At, StepDone, Throw, srvVars, cacheVars
<1>2. /\ x \in StepRec /\ t \in Seq(StepRec) /\ Fits(op[u], x) /\ \A s \in Left(t) : Fits(op[u], s)
      /\ x \in Left(todo[u]) /\ Left(t) \subseteq Left(todo[u])
      /\ Calm => Safe(t, Told \cup Covers(x, multi), multi)
  BY <1>1, NextAndRest
<1>3. op[u] = "open"
  BY <1>1, <1>2 DEF Fits
<1>4. x = [do |-> "connect"]
  BY <1>1, <1>2 DEF StepRec
<1>5. Calm => wire = <<>>
  BY <1>2, <1>3, <1>4 DEF Calm
<1>6. Told \cup Covers(x, multi) = Told
  BY <1>1 DEF Covers
<1>7. ~Clearing(u) /\ op[u] # "kill_data" /\ op[u] # "close"
  BY <1>3 DEF Clearing
<1>8. lost \in Nat
  BY BoundAssumption DEF Inv, Types
<1> HIDE DEF x, t
<1>9. CASE Advance(u, <<>>) /\ (UNCHANGED <<wire, eof, lost>> \/ lost' = lost + 1)
  <2>1. lost' = 0 => UNCHANGED <<wire, eof, lost>>
    BY <1>8, <1>9
  <2> QED
    BY <1>1, <1>5, <1>7, <1>9, <2>1, ThrowKeeps
<1>10. CASE wire' = <<>> /\ eof' = FALSE /\ Advance(u, t) /\ lost' = lost
  <2>1. raced' = raced
    BY <1>10 DEF Advance
  <2>2. ASSUME ~raced' /\ lost' = 0
        PROVE  Calm'
    <3>1. Calm
      BY <1>10, <2>1, <2>2 DEF FrameInv
    <3>2. UNCHANGED <<wire, eof>> /\ wire = <<>>
      BY <1>5, <1>10, <3>1 DEF Calm, Inv, Types
    <3>3. multi' = multi /\ Safe(t, Told, multi')
      BY <1>1, <1>2, <1>6, <3>1
    <3> QED
      BY <1>1, <1>2, <1>7, <1>10, <3>1, <3>2, <3>3, CalmStays
  <2> QED
    BY <1>1, <1>2, <1>7, <1>10, <2>2, GoesOn
<1> QED
  BY <1>1, <1>9, <1>10

-----------------------------------------------------------------------------
(***************************************************************************)
(* Messages are sent, and run by the server.                               *)
(***************************************************************************)
\* A thread that sends is neither in open nor about to close the socket, and
\* nor is another one.
LEMMA SenderAlone ==
  ASSUME Inv, FrameInv, Unlocked \subseteq Alone, NEW u \in User, todo[u] # <<>>,
         todo[u][1].do = "send", NEW v \in User, op[v] \in {"open", "close"}
  PROVE  v = u /\ op[u] = "close" /\ Tail(todo[u]) # C1
<1>1. op[u] # "none"
  BY AtStep DEF Inv
<1>2. op[v] \in Alone \ {"none"}
  BY DEF Unlocked
<1>3. v = u
  BY <1>1, <1>2 DEF Inv, Exclusive
<1>4. op[u] # "open"
  <2>1. Fits(op[u], todo[u][1])
    BY NextAndRest
  <2> QED
    BY <2>1 DEF Fits
<1>5. Tail(todo[u]) # C1
  BY <1>3, <1>4, NextAndRest
<1> QED
  BY <1>3, <1>4, <1>5

LEMMA SendCalm ==
  ASSUME Inv, FrameInv, Unlocked \subseteq Alone, Calm, NEW u \in User, todo[u] # <<>>,
         todo[u][1].do = "send", StepDone(u), connected,
         wire' = Append(wire, Message(u, todo[u][1])),
         UNCHANGED <<sockfd, eof, defined, multi, frames>>
  PROVE  Calm'
<1> DEFINE x == todo[u][1]
           t == Tail(todo[u])
           m == Message(u, x)
<1>1. op \in [User -> Ops] /\ todo \in [User -> Seq(StepRec)] /\ multi \in BOOLEAN
  BY DEF Inv, Types
<1>2. /\ todo'[u] = t /\ op'[u] = (IF t = <<>> THEN "none" ELSE op[u])
      /\ \A v \in User \ {u} : todo'[v] = todo[v] /\ op'[v] = op[v]
  BY <1>1 DEF StepDone, Advance
<1>3. \A v \in User : op'[v] # "none" => op'[v] = op[v]
  BY <1>2
<1>4. "none" \notin Stores
  BY DEF Stores
<1>5. /\ x \in StepRec /\ x.do = "send"
      /\ Owes(x, multi) \subseteq Told /\ Safe(t, Told \cup Covers(x, multi), multi)
  BY NextAndRest
<1>6. x.cmd \in Cmd /\ x.arg \in Arg /\ x.frame \in Space \cup {None}
  BY <1>5 DEF StepRec
<1>7. /\ m \in Msg /\ m.frame = x.frame /\ Tells(m) = Covers(x, multi)
      /\ Own(m.arg, m.frame) = Owes(x, multi)
  <2>1. m \in Msg /\ m.cmd = x.cmd /\ m.arg = x.arg /\ m.frame = x.frame
    BY <1>6 DEF Message, Msg
  <2> HIDE DEF m
  <2> QED
    BY <1>5, <2>1 DEF Tells, Covers, Owes
<1>8. wire' = Append(wire, m)
  OBVIOUS
<1>9. ~Clearing(u)
  BY NotClearing
<1>a. \A v \in User : op[v] \in {"open", "close"} => v = u /\ op[u] = "close" /\ t # C1
  BY SenderAlone
<1> HIDE DEF x, t, m
<1>10. /\ Told' = Told \cup Tells(m)
       /\ \A i \in 0..Len(wire) : ToldBy(i)' = ToldBy(i)
       /\ Len(wire') = Len(wire) + 1 /\ wire'[Len(wire) + 1] = m /\ Len(wire) \in Nat
       /\ \A i \in 1..Len(wire) : wire'[i] = wire[i]
  BY <1>7, <1>8, ToldSends
<1>11. ~eof' /\ (~connected' => wire' = <<>>)
  BY DEF Calm, connected
<1>12. \A v \in User : op'[v] = "close" /\ todo'[v] = C1 => wire' = <<>>
  BY <1>2, <1>3, <1>a
<1>13. \A v \in User : op'[v] = "open" /\ [do |-> "connect"] \in Left(todo'[v]) => wire' = <<>>
  BY <1>3, <1>a
<1>14. \A v, z \in User : op'[v] \in Stores => op'[z] # "kill_data"
  BY <1>3, <1>4 DEF Calm
<1>15. ~multi' => \A v, z \in User : op'[v] \in Stores /\ op'[z] \in Stores => v = z
  BY <1>3, <1>4 DEF Calm
<1>16. ASSUME NEW i \in 1..Len(wire')
       PROVE  Own(wire'[i].arg, wire'[i].frame) \subseteq ToldBy(i - 1)'
  <2>1. i - 1 \in 0..Len(wire)
    BY <1>10
  <2>2. ToldBy(i - 1)' = ToldBy(i - 1)
    BY <1>10, <2>1
  <2>3. CASE i \in 1..Len(wire)
    BY <1>10, <2>2, <2>3 DEF Calm
  <2>4. CASE i \notin 1..Len(wire)
    <3>1. i = Len(wire) + 1 /\ i - 1 = Len(wire)
      BY <1>10, <2>4
    <3>2. Own(m.arg, m.frame) \subseteq Told
      BY <1>5, <1>7
    <3>3. ToldBy(i - 1) = Told
      BY <3>1 DEF Told
    <3> QED
      BY <1>10, <2>2, <3>1, <3>2, <3>3
  <2> QED
    BY <2>3, <2>4
<1>17. ASSUME NEW v \in User
       PROVE  Safe(todo'[v], Told', multi')
  <2>1. CASE v = u
    BY <1>2, <1>5, <1>7, <1>10, <2>1
  <2>2. CASE v # u
    <3>1. Safe(todo[v], Told, multi) /\ Told \subseteq Told'
      BY <1>10 DEF Calm
    <3>2. Safe(todo[v], Told', multi)
      BY <3>1, SafeMore
    <3> QED
      BY <1>2, <2>2, <3>2
  <2> QED
    BY <2>1, <2>2
<1>18. frames' \subseteq Told' \/ \E v \in User : Clearing(v)'
  <2>1. CASE frames \subseteq Told
    BY <1>10, <2>1
  <2>2. CASE ~(frames \subseteq Told)
    <3>1. PICK v \in User : Clearing(v)
      BY <2>2 DEF Calm
    <3>2. v # u
      BY <1>9, <3>1
    <3> QED
      BY <1>2, <3>1, <3>2 DEF Clearing
  <2> QED
    BY <2>1, <2>2
<1>19. (\A v \in User : Safe(todo[v], Told, multi))'
  BY <1>17
<1>20. (\A i \in 1..Len(wire) : Own(wire[i].arg, wire[i].frame) \subseteq ToldBy(i - 1))'
  BY <1>16 DEF Own
<1> QED
  BY <1>11, <1>12, <1>13, <1>14, <1>15, <1>18, <1>19, <1>20 DEF Calm

LEMMA SendKeeps ==
  ASSUME Inv, FrameInv, Unlocked \subseteq Alone, NEW u \in User, DoSend(u)
  PROVE  FrameInv'
<1> DEFINE x == todo[u][1]
           t == Tail(todo[u])
<1>1. /\ todo[u] # <<>> /\ x.do = "send" /\ Head(todo[u]) = x
      /\ UNCHANGED <<sockfd, eof, defined, lost, multi, frames>>
      /\ \/ /\ connected /\ StepDone(u)
            /\ wire' = IF eof THEN wire ELSE Append(wire, Message(u, x))
         \/ Advance(u, <<>>) /\ wire' = wire
  BY AtStep DEF Inv, DoSend, At, Throw, srvVars, cacheVars
<1>2. ~Clearing(u)
  BY <1>1, NotClearing
<1>3. CASE Advance(u, <<>>) /\ wire' = wire
  BY <1>1, <1>2, <1>3, ThrowKeeps
<1>4. CASE /\ connected /\ StepDone(u)
           /\ wire' = IF eof THEN wire ELSE Append(wire, Message(u, x))
  <2>1. Advance(u, t) /\ raced' = raced
    BY <1>4 DEF StepDone, Advance
  <2>2. /\ t \in Seq(StepRec) /\ \A s \in Left(t) : Fits(op[u], s)
        /\ op[u] = "kill_data" => t \in {K5, K4, K3, K2, K1, <<>>}
        /\ op[u] = "close" => t \in {C5, C4, C3, C2, C1, <<>>}
    BY <1>1, NextAndRest
  <2>3. ASSUME ~raced' /\ lost' = 0
        PROVE  Calm'
    <3>1. Calm
      BY <1>1, <2>1, <2>3 DEF FrameInv
    <3>2. wire' = Append(wire, Message(u, todo[u][1]))
      BY <1>4, <3>1 DEF Calm
    <3> QED
      BY <1>1, <1>4, <3>1, <3>2, SendCalm
  <2> HIDE DEF t
  <2> QED
    BY <1>1, <2>1, <2>2, <2>3, GoesOn
<1> QED
  BY <1>1, <1>3, <1>4

\* The server runs a command that takes no frames away.
LEMMA RunCalm ==
  ASSUME Inv, Calm, wire # <<>>, wire' = Tail(wire), defined' = defined \cup Tells(wire[1]),
         UNCHANGED <<sockfd, eof, multi, frames, todo, op>>
  PROVE  Calm'
<1>1. /\ Told' = Told
      /\ Len(wire') = Len(wire) - 1 /\ Len(wire) \in Nat /\ Len(wire) > 0
      /\ \A i \in 1..Len(wire') : wire'[i] = wire[i + 1]
      /\ \A i \in 0..Len(wire') : ToldBy(i)' = ToldBy(i + 1)
  BY ToldRuns
<1>2. ~eof' /\ (~connected' => wire' = <<>>)
  BY DEF Calm, connected
<1>3. \A v \in User : op'[v] = "close" /\ todo'[v] = C1 => wire' = <<>>
  BY DEF Calm
<1>4. \A v \in User : op'[v] = "open" /\ [do |-> "connect"] \in Left(todo'[v]) => wire' = <<>>
  BY DEF Calm
<1>5. \A v, z \in User : op'[v] \in Stores => op'[z] # "kill_data"
  BY DEF Calm
<1>6. ~multi' => \A v, z \in User : op'[v] \in Stores /\ op'[z] \in Stores => v = z
  BY DEF Calm
<1>7. ASSUME NEW i \in 1..Len(wire')
      PROVE  Own(wire'[i].arg, wire'[i].frame) \subseteq ToldBy(i - 1)'
  <2>1. i - 1 \in 0..Len(wire') /\ i + 1 \in 1..Len(wire) /\ (i - 1) + 1 = (i + 1) - 1
    BY <1>1
  <2>2. ToldBy(i - 1)' = ToldBy((i - 1) + 1)
    BY <1>1, <2>1
  <2>3. Own(wire[i + 1].arg, wire[i + 1].frame) \subseteq ToldBy((i + 1) - 1)
    BY <1>1, <2>1 DEF Calm
  <2> QED
    BY <1>1, <2>1, <2>2, <2>3
<1>8. (\A i \in 1..Len(wire) : Own(wire[i].arg, wire[i].frame) \subseteq ToldBy(i - 1))'
  BY <1>7 DEF Own
<1>9. (\A v \in User : Safe(todo[v], Told, multi))'
  BY <1>1 DEF Calm
<1>10. frames' \subseteq Told' \/ \E v \in User : Clearing(v)'
  BY <1>1 DEF Calm, Clearing
<1> QED
  BY <1>2, <1>3, <1>4, <1>5, <1>6, <1>8, <1>9, <1>10 DEF Calm

\* The server runs the command of kill_data: nobody stores, and the cache is
\* about to be emptied.
LEMMA ClearCalm ==
  ASSUME Inv, FrameInv, Calm, wire # <<>>, wire' = Tail(wire), wire[1].cmd = "cog-atomspace-clear",
         UNCHANGED <<sockfd, eof, multi, frames, todo, op>>
  PROVE  Calm'
<1>1. wire \in Seq(Msg)
  BY DEF Inv, Types
<1>2. Len(wire) \in Nat /\ Len(wire) > 0 /\ Len(wire') = Len(wire) - 1
  BY <1>1, HeadTailProperties, EmptySeq
<1>3. Len(wire) = 1 /\ \E w \in User : Waits(w, wire[1])
  <2>1. 1 \in 1..Len(wire) /\ wire[1].cmd \notin Silent
    BY <1>2 DEF Silent
  <2> QED
    BY <2>1 DEF Inv, Exchange
<1>4. PICK w \in User : Waits(w, wire[1])
  BY <1>3
<1>5. /\ todo[w] # <<>> /\ todo[w][1].do = "recv" /\ todo[w][1].cmd = "cog-atomspace-clear"
  BY <1>4 DEF Waits
<1>6. Fits(op[w], todo[w][1])
  BY <1>5, NextAndRest
<1>7. op[w] = "kill_data"
  BY <1>5, <1>6 DEF Fits
<1>8. Clearing(w)
  BY <1>5, <1>7, NextAndRest
<1>9. \A v \in User : op[v] \notin Stores
  BY <1>7 DEF Calm
<1>10. Len(wire') = 0
  BY <1>2, <1>3
<1>11. wire' \in Seq(Msg)
  BY <1>1, HeadTailProperties
<1>12. wire' = <<>>
  BY <1>10, <1>11, EmptySeq
<1>13. ~eof'
  BY DEF Calm
<1>14. \A v, z \in User : op'[v] \in Stores => op'[z] # "kill_data"
  BY DEF Calm
<1>15. ~multi' => \A v, z \in User : op'[v] \in Stores /\ op'[z] \in Stores => v = z
  BY DEF Calm
<1>16. (\A i \in 1..Len(wire) : Own(wire[i].arg, wire[i].frame) \subseteq ToldBy(i - 1))'
  <2>1. \A i \in 1..0 : FALSE
    OBVIOUS
  <2> QED
    BY <1>10, <2>1, Zenon
<1>17. ASSUME NEW v \in User
       PROVE  Safe(todo'[v], Told', multi')
  <2>1. \A s \in Left(todo[v]) : Fits(op[v], s)
    BY DEF FrameInv
  <2>2. Safe(todo[v], Told', multi')
    BY <1>9, <2>1, SafeIdle
  <2> QED
    BY <2>2
<1>18. (\A v \in User : Safe(todo[v], Told, multi))'
  BY <1>17
<1>19. \E v \in User : Clearing(v)'
  BY <1>8 DEF Clearing
<1> QED
  BY <1>12, <1>13, <1>14, <1>15, <1>16, <1>18, <1>19 DEF Calm

LEMMA ExecKeeps ==
  ASSUME Inv, FrameInv, ServerExec
  PROVE  FrameInv'
<1> DEFINE m == wire[1]
<1>1. /\ wire # <<>> /\ wire' = Tail(wire) /\ Apply(Head(wire))
      /\ UNCHANGED <<sockfd, eof, lost, multi, frames, todo, op, raced>>
  BY DEF ServerExec, userVars, cacheVars
<1>2. wire \in Seq(Msg)
  BY DEF Inv, Types
<1>3. Head(wire) = m /\ m \in Msg /\ 1 \in 1..Len(wire)
  BY <1>1, <1>2, HeadTailProperties, EmptySeq
<1>4. ArgOK(m.cmd, m.arg)
  BY <1>3 DEF Inv, Exchange
<1> HIDE DEF m
<1>5. defined' = IF m.cmd = "cog-atomspace-clear" THEN {} ELSE defined \cup Tells(m)
  BY <1>1, <1>3 DEF Apply, Tells
<1>6. \A s \in Tells(m) : Below[s] \subseteq Tells(m)
  BY <1>4, SpaceAssumption DEF Tells, ArgOK
<1>7. \A s \in defined' : Below[s] \subseteq defined'
  <2>1. \A s \in defined : Below[s] \subseteq defined
    BY DEF FrameInv
  <2> QED
    BY <1>5, <1>6, <2>1
<1>8. ASSUME ~raced' /\ lost' = 0
      PROVE  Calm'
  <2>1. Calm
    BY <1>1, <1>8 DEF FrameInv
  <2>2. CASE m.cmd = "cog-atomspace-clear"
    BY <1>1, <2>1, <2>2, ClearCalm DEF m
  <2>3. CASE m.cmd # "cog-atomspace-clear"
    <3>1. defined' = defined \cup Tells(wire[1])
      BY <1>5, <2>3 DEF m
    <3> QED
      BY <1>1, <2>1, <3>1, RunCalm
  <2> QED
    BY <2>2, <2>3
<1>9. \A u \in User : \A s \in Left(todo'[u]) : Fits(op'[u], s)
  BY <1>1 DEF FrameInv
<1>10. \A u \in User : op'[u] = "kill_data" => todo'[u] \in {K6, K5, K4, K3, K2, K1}
  BY <1>1 DEF FrameInv
<1>11. \A u \in User : op'[u] = "close" => todo'[u] \in {C6, C5, C4, C3, C2, C1}
  BY <1>1 DEF FrameInv
<1> QED
  BY <1>7, <1>8, <1>9, <1>10, <1>11 DEF FrameInv

\* The connection is lost, the process ends, or nothing happens.
LEMMA DropsKeep ==
  ASSUME Inv, FrameInv, ServerDrops \/ (\E u \in User : SendSignals(u)) \/ UNCHANGED vars
  PROVE  FrameInv'
<1>1. CASE ServerDrops
  <2>1. lost' = lost + 1 /\ UNCHANGED <<todo, op, defined>>
    BY <1>1 DEF ServerDrops, userVars, srvVars
  <2>2. lost \in Nat
    BY BoundAssumption DEF Inv, Types
  <2>3. lost' # 0
    BY <2>1, <2>2
  <2> QED
    BY <2>1, <2>3 DEF FrameInv
<1>2. CASE (\E u \in User : SendSignals(u)) \/ UNCHANGED vars
  <2>1. UNCHANGED <<sockfd, wire, eof, defined, lost, raced, multi, frames, todo, op>>
    BY <1>2 DEF SendSignals, vars, userVars, sockVars, srvVars, cacheVars
  <2>2. Told' = Told /\ \A i \in 1..Len(wire) : ToldBy(i - 1)' = ToldBy(i - 1)
    BY <2>1 DEF Told, ToldBy
  <2>3. Calm => Calm'
    BY <2>1, <2>2 DEF Calm, Clearing, connected
  <2> QED
    BY <2>1, <2>3 DEF FrameInv
<1> QED
  BY <1>1, <1>2

-----------------------------------------------------------------------------
(***************************************************************************)
(* The calls of operations.                                                *)
(***************************************************************************)
LEMMA FineOne ==
  ASSUME NEW f, NEW s \in StepRec, Fits(f, s)
  PROVE  Fine(f, <<s>>)
<1>1. <<s>> \in Seq(StepRec) /\ Left(<<s>>) = {s}
  BY LeftOne
<1> QED
  BY <1>1 DEF Fine

LEMMA FineJoin ==
  ASSUME NEW f, NEW p, NEW q, Fine(f, p), Fine(f, q)
  PROVE  Fine(f, p \o q)
<1>1. p \in Seq(StepRec) /\ q \in Seq(StepRec)
  BY DEF Fine
<1>2. p \o q \in Seq(StepRec) /\ Left(p \o q) = Left(p) \cup Left(q)
  BY <1>1, LeftJoin
<1> DEFINE r == p \o q
<1>3. r \in Seq(StepRec) /\ Left(r) = Left(p) \cup Left(q)
  BY <1>2
<1> HIDE DEF r
<1>4. Fine(f, r)
  BY <1>3 DEF Fine
<1> QED
  BY <1>4 DEF r

LEMMA FineLocked ==
  ASSUME NEW f, NEW p, Fine(f, p)
  PROVE  Fine(f, Locked(p))
<1>1. Fits(f, [do |-> "lock"]) /\ Fits(f, [do |-> "unlock"])
  BY DEF Fits
<1>2. [do |-> "lock"] \in StepRec /\ [do |-> "unlock"] \in StepRec
  BY FormSteps
<1>3. Fine(f, Step("lock")) /\ Fine(f, Step("unlock"))
  BY <1>1, <1>2, FineOne DEF Step
<1> QED
  BY <1>3, FineJoin DEF Locked

LEMMA FineAsk ==
  ASSUME NEW f, f # "open", NEW c \in Cmd, NEW a \in Arg, NEW h \in Use,
         c = "cog-atomspace-clear" => f = "kill_data"
  PROVE  Fine(f, Send(c, a)) /\ Fine(f, Ask(c, a, h))
<1> DEFINE x == [do |-> "send", cmd |-> c, arg |-> a, frame |-> None]
           y == [do |-> "recv", cmd |-> c, arg |-> a, then |-> h]
<1>1. x \in StepRec /\ y \in StepRec
  BY FormSteps
<1>2. Fits(f, x)
  BY DEF Fits
<1>3. Fits(f, y)
  BY DEF Fits
<1> HIDE DEF x, y
<1>4. Fine(f, <<x>>) /\ Fine(f, <<y>>)
  BY <1>1, <1>2, <1>3, FineOne
<1>5. Fine(f, <<x>> \o <<y>>)
  BY <1>4, FineJoin
<1> QED
  BY <1>4, <1>5 DEF Ask, Send, x, y

\* A step that only sets a flag, shuts the socket or connects.
LEMMA FineStep ==
  ASSUME NEW f, NEW d \in {"single", "several", "forget", "shut", "connect"},
         d \in {"single", "forget"} => f = "kill_data", d = "several" => f = "storeFrameDAG",
         d = "shut" => f = "close", d = "connect" <=> f = "open"
  PROVE  Fine(f, Step(d))
<1>1. [do |-> d] \in StepRec
  BY FormSteps
<1>2. Fits(f, [do |-> d])
  BY DEF Fits, Stores
<1> QED
  BY <1>1, <1>2, FineOne DEF Step

\* What a call of operation f with the steps q sees to.
Begins(f, q) ==
  /\ Fine(f, q) /\ f # "none"
  /\ f = "kill_data" => q = K6
  /\ f = "close" => q = C6 \/ (q = C1 /\ ~connected)
  /\ f = "open" => ~connected
  /\ f \in Stores => \A T : Safe(q, T, multi')
  /\ multi' = multi \/ (multi' = TRUE /\ f \in Stores \cup {"loadFrameDAG"})

LEMMA StoresBegin ==
  ASSUME Inv, NEW u \in User, NEW a \in Atom, NEW s \in Space,
         StoreAtom(u, a) \/ StoreValue(u, a, s) \/ UpdateValue(u, a, s) \/ SetProxy(u, a)
  PROVE  \E f, q : Call(u, f, q) /\ Begins(f, q)
<1>1. PICK h \in Space : h = Home[a] /\ h \in Below[h]
  BY SpaceAssumption
<1>2. multi \in BOOLEAN
  BY DEF Inv, Types
<1>3. multi' \in BOOLEAN /\ (multi' = multi \/ multi' = TRUE)
  BY <1>2 DEF StoreAtom, StoreValue, UpdateValue, SetProxy, SetMulti
<1>4. ASSUME NEW f \in Stores, f # "storeFrameDAG", NEW k \in Space, NEW c \in Cmd, NEW t,
             \A T : Ready(f, t, T, multi')
      PROVE  Begins(f, (WriteFrame(h, FALSE) \o Encode(c, a, k)) \o t)
  <2> DEFINE q == (WriteFrame(h, FALSE) \o Encode(c, a, k)) \o t
  <2>1. ASSUME NEW T
        PROVE  Ready(f, q, T, multi')
    <3>1. Ready(f, t, T, multi')
      BY <1>4
    <3> QED
      BY <1>1, <1>3, <1>4, <3>1, StoreFront
  <2> HIDE DEF q
  <2>2. f \notin {"none", "kill_data", "close", "open"}
    BY DEF Stores
  <2>3. Fine(f, q) /\ \A T : Safe(q, T, multi')
    BY <2>1 DEF Ready, Fine
  <2>4. Begins(f, q)
    BY <1>3, <2>2, <2>3 DEF Begins
  <2> QED
    BY <2>4 DEF q
<1>5. ASSUME NEW f
      PROVE  \A T : Ready(f, <<>>, T, multi')
  BY NoStepsLeft, SafeEmpty DEF Ready, Fine
<1>6. ASSUME NEW c \in Cmd, NEW k \in Space
      PROVE  (WriteFrame(h, FALSE) \o Encode(c, a, k)) \o <<>> = WriteFrame(h, FALSE) \o Encode(c, a, k)
  <2> DEFINE x == [do |-> "find", space |-> h, force |-> FALSE]
             y == [do |-> "encode", cmd |-> c, arg |-> a, space |-> k]
  <2>1. x \in StepRec /\ y \in StepRec
    BY DEF StepRec
  <2> HIDE DEF x, y
  <2>2. <<x>> \o <<y>> \in Seq(StepRec)
    BY <2>1
  <2> DEFINE p == <<x>> \o <<y>>
  <2>3. p \in Seq(StepRec)
    BY <2>2
  <2> HIDE DEF p
  <2>4. p \o <<>> = p
    BY <2>3, ConcatEmptySeq
  <2> QED
    BY <2>4 DEF p, x, y, WriteFrame, Encode
<1>7. /\ "cog-set-values!" \in Cmd /\ "cog-set-value!" \in Cmd /\ "cog-update-value!" \in Cmd
      /\ "cog-set-proxy!" \in Cmd /\ "drop" \in Use /\ a \in Arg
  BY DEF Cmd, Silent, Use, Arg
<1>8. /\ "storeAtom" \in Stores /\ "storeValue" \in Stores /\ "updateValue" \in Stores
      /\ "set_proxy" \in Stores
  BY DEF Stores
<1>9. CASE StoreAtom(u, a)
  <2> DEFINE q == WriteFrame(h, FALSE) \o Encode("cog-set-values!", a, h)
  <2>1. Call(u, "storeAtom", q)
    BY <1>1, <1>9 DEF StoreAtom, StoreSteps
  <2>2. Begins("storeAtom", q \o <<>>)
    BY <1>1, <1>4, <1>5, <1>7, <1>8
  <2>3. q \o <<>> = q
    BY <1>6, <1>7
  <2> HIDE DEF q
  <2> QED
    BY <2>1, <2>2, <2>3
<1>10. CASE StoreValue(u, a, s)
  <2> DEFINE q == WriteFrame(h, FALSE) \o Encode("cog-set-value!", a, s)
  <2>1. Call(u, "storeValue", q)
    BY <1>1, <1>10 DEF StoreValue
  <2>2. Begins("storeValue", q \o <<>>)
    BY <1>4, <1>5, <1>7, <1>8, <2>1
  <2>3. q \o <<>> = q
    BY <1>6, <1>7
  <2> HIDE DEF q
  <2> QED
    BY <2>1, <2>2, <2>3
<1>11. CASE UpdateValue(u, a, s)
  <2> DEFINE q == WriteFrame(h, FALSE) \o Encode("cog-update-value!", a, s)
  <2>1. Call(u, "updateValue", q)
    BY <1>1, <1>11 DEF UpdateValue
  <2>2. Begins("updateValue", q \o <<>>)
    BY <1>4, <1>5, <1>7, <1>8, <2>1
  <2>3. q \o <<>> = q
    BY <1>6, <1>7
  <2> HIDE DEF q
  <2> QED
    BY <2>1, <2>2, <2>3
<1>12. CASE SetProxy(u, a)
  <2> DEFINE t == Locked(Ask("cog-set-proxy!", a, "drop"))
             q == (WriteFrame(h, FALSE) \o Encode("cog-set-values!", a, h)) \o t
  <2>1. Call(u, "set_proxy", q)
    BY <1>1, <1>12 DEF SetProxy, StoreSteps
  <2>2. Fine("set_proxy", t)
    BY <1>7, FineAsk, FineLocked
  <2>3. Fine("loadValue", t)
    BY <1>7, FineAsk, FineLocked
  <2>4. \A T : Safe(t, T, multi')
    BY <2>3, SafeIdle DEF Fine, Stores
  <2> HIDE DEF t
  <2>5. \A T : Ready("set_proxy", t, T, multi')
    BY <2>2, <2>4 DEF Ready, Fine
  <2>6. Begins("set_proxy", q)
    BY <1>1, <1>4, <1>7, <1>8, <2>5
  <2> HIDE DEF q
  <2> QED
    BY <2>1, <2>6
<1> QED
  BY <1>9, <1>10, <1>11, <1>12

\* Operations that do not store, and are none of kill_data, close and open.
LEMMA PlainBegins ==
  ASSUME NEW f, NEW q, Fine(f, q), f \notin Stores \cup {"none", "kill_data", "close", "open"},
         multi' = multi \/ (multi' = TRUE /\ f = "loadFrameDAG")
  PROVE  Begins(f, q)
BY DEF Begins

LEMMA AsksBegin ==
  ASSUME NEW u \in User, NEW a \in Atom, NEW r \in BOOLEAN,
         NEW c \in {"cog-incoming-set", "cog-incoming-by-type"},
         \/ LoadValue(u, a) \/ RunQuery(u, a) \/ RemoveAtom(u, a, r) \/ GetAtom(u, a)
         \/ FetchIncoming(u, a, c)
  PROVE  \E f, q : Call(u, f, q) /\ Begins(f, q)
<1>1. a \in Arg
  BY DEF Arg
<1>2. /\ {"cog-value", "cog-execute-cache!", "cog-extract!", "cog-extract-recursive!"} \subseteq Cmd
      /\ {"cog-incoming-set", "cog-incoming-by-type", "cog-node"} \subseteq Cmd
      /\ "cog-keys->alist" \in Cmd
      /\ {"set", "keep", "drop", "list", "probe", "keys"} \subseteq Use
  BY DEF Cmd, Use, Lists, Stamped
<1>3. ASSUME NEW f, f \notin Stores \cup {"none", "kill_data", "close", "open"},
             NEW d \in Cmd, d # "cog-atomspace-clear", NEW b \in Arg, NEW h \in Use,
             multi' = multi
      PROVE  Begins(f, Locked(Ask(d, b, h)))
  BY <1>3, FineAsk, FineLocked, PlainBegins
<1>4. {"loadValue", "runQuery", "removeAtom", "getAtom", "fetchIncoming"}
        \cap (Stores \cup {"none", "kill_data", "close", "open"}) = {}
  BY DEF Stores
<1>5. CASE LoadValue(u, a)
  <2>1. Begins("loadValue", Locked(Ask("cog-value", a, "set")))
    BY <1>1, <1>2, <1>3, <1>4, <1>5 DEF LoadValue, Plain
  <2> QED
    BY <1>5, <2>1 DEF LoadValue
<1>6. CASE RunQuery(u, a)
  <2>1. Begins("runQuery", Locked(Ask("cog-execute-cache!", a, "keep")))
    BY <1>1, <1>2, <1>3, <1>4, <1>6 DEF RunQuery, Plain
  <2> QED
    BY <1>6, <2>1 DEF RunQuery
<1>7. CASE RemoveAtom(u, a, r)
  <2>1. PICK d \in {"cog-extract!", "cog-extract-recursive!"} :
          Call(u, "removeAtom", Locked(Ask(d, a, "drop"))) /\ multi' = multi
    BY <1>7 DEF RemoveAtom, Plain
  <2>2. Begins("removeAtom", Locked(Ask(d, a, "drop")))
    BY <1>1, <1>2, <1>3, <1>4, <2>1
  <2> QED
    BY <2>1, <2>2
<1>8. CASE GetAtom(u, a)
  <2> DEFINE p == Ask("cog-node", a, "probe")
             k == Ask("cog-keys->alist", a, "keys")
  <2>1. Fine("getAtom", p) /\ Fine("getAtom", k)
    BY <1>1, <1>2, FineAsk
  <2>2. Fine("getAtom", Locked(p \o k))
    BY <2>1, FineJoin, FineLocked
  <2>3. Call(u, "getAtom", Locked(p \o k)) /\ multi' = multi
    BY <1>8 DEF GetAtom, FetchKeys, Plain
  <2> DEFINE q == Locked(p \o k)
  <2> HIDE DEF q
  <2>4. Begins("getAtom", q)
    BY <1>4, <2>2, <2>3, PlainBegins DEF q
  <2> QED
    BY <2>3, <2>4 DEF q
<1>9. CASE FetchIncoming(u, a, c)
  <2>1. Begins("fetchIncoming", Locked(Ask(c, a, "list")))
    BY <1>1, <1>2, <1>3, <1>4, <1>9 DEF FetchIncoming, Plain
  <2> QED
    BY <1>9, <2>1 DEF FetchIncoming, List
<1> QED
  BY <1>5, <1>6, <1>7, <1>8, <1>9

LEMMA TypeBegins ==
  ASSUME NEW u \in User, NEW type \in {"Node", "Link"}, LoadType(u, type)
  PROVE  \E f, q : Call(u, f, q) /\ Begins(f, q)
<1> DEFINE q == Locked(Ask("cog-get-atoms", type, "list"))
<1>1. type \in Arg /\ "cog-get-atoms" \in Cmd /\ "list" \in Use
  BY DEF Arg, Cmd, Lists, Use
<1>2. Fine("loadType", q)
  BY <1>1, FineAsk, FineLocked
<1>3. Call(u, "loadType", q) /\ multi' = multi
  BY DEF LoadType, List, Plain
<1>4. "loadType" \notin Stores \cup {"none", "kill_data", "close", "open"}
  BY DEF Stores
<1> HIDE DEF q
<1>5. Begins("loadType", q)
  BY <1>2, <1>3, <1>4, PlainBegins
<1> QED
  BY <1>3, <1>5

LEMMA SpacesBegin ==
  ASSUME Inv, NEW u \in User, NEW s \in Space,
         \/ LoadAtomSpace(u) \/ StoreAtomSpace(u) \/ KillData(u) \/ StoreFrameDAG(u, s)
         \/ LoadFrameDAG(u) \/ Barrier(u)
  PROVE  \E f, q : Call(u, f, q) /\ Begins(f, q)
<1>1. None \in Arg /\ "Node" \in Arg /\ "Link" \in Arg
  BY DEF Arg
<1>2. /\ {"cog-get-atoms", "cog-atomspace-clear", "cog-atomspace", "cog-barrier"} \subseteq Cmd
      /\ {"drop", "list", "frames"} \subseteq Use
  BY DEF Cmd, Use, Lists, Silent
<1>3. {"loadAtomSpace", "loadFrameDAG", "barrier"}
        \cap (Stores \cup {"none", "kill_data", "close", "open"}) = {}
  BY DEF Stores
<1>4. "storeAtomSpace" \in Stores /\ "storeFrameDAG" \in Stores /\ "kill_data" \notin Stores
  BY DEF Stores
<1>5. multi \in BOOLEAN
  BY DEF Inv, Types
<1>6. ASSUME NEW f \in Stores, NEW q, Fine(f, q), multi' = multi,
             \A e \in Left(q) : Owes(e, multi') = {}
      PROVE  Begins(f, q)
  <2>1. \A i \in 1..Len(q) : q[i] \in Left(q)
    BY DEF Left
  <2>2. \A T : Safe(q, T, multi')
    BY <1>6, <2>1 DEF Safe
  <2>3. f \notin {"none", "kill_data", "close", "open"}
    BY DEF Stores
  <2> QED
    BY <1>6, <2>2, <2>3 DEF Begins
<1>7. CASE LoadAtomSpace(u)
  <2> DEFINE p == Ask("cog-get-atoms", "Node", "list")
             k == Ask("cog-get-atoms", "Link", "list")
             q == Locked(p \o k)
  <2>1. Fine("loadAtomSpace", p) /\ Fine("loadAtomSpace", k)
    BY <1>1, <1>2, FineAsk
  <2>2. Fine("loadAtomSpace", q)
    BY <2>1, FineJoin, FineLocked
  <2>3. Call(u, "loadAtomSpace", q) /\ multi' = multi
    BY <1>7 DEF LoadAtomSpace, List, Plain
  <2> HIDE DEF q
  <2>4. Begins("loadAtomSpace", q)
    BY <1>3, <2>2, <2>3, PlainBegins
  <2> QED
    BY <2>3, <2>4
<1>8. CASE StoreAtomSpace(u)
  <2> DEFINE b == [do |-> "each", rest |-> have]
             q == <<b>>
  <2>1. Call(u, "storeAtomSpace", q) /\ multi' = multi
    BY <1>8 DEF StoreAtomSpace, Plain
  <2>2. b \in StepRec
    BY DEF StepRec, Inv, Types
  <2>3. Fits("storeAtomSpace", b)
    BY <1>4 DEF Fits
  <2>4. Owes(b, multi') = {}
    BY DEF Owes
  <2> HIDE DEF b
  <2>5. Fine("storeAtomSpace", q) /\ Left(q) = {b}
    BY <2>2, <2>3, FineOne, LeftOne
  <2> HIDE DEF q
  <2>6. Begins("storeAtomSpace", q)
    BY <1>4, <1>6, <2>1, <2>4, <2>5
  <2> QED
    BY <2>1, <2>6
<1>9. CASE KillData(u)
  <2> DEFINE g == "cog-atomspace-clear"
             p == Ask(g, None, "drop")
             q == Locked((p \o Step("single")) \o Step("forget"))
  <2>1. Call(u, "kill_data", q) /\ multi' = multi /\ q = K6
    BY <1>9, FormsStart DEF KillData, Plain
  <2>2. Fine("kill_data", p) /\ Fine("kill_data", Step("single")) /\ Fine("kill_data", Step("forget"))
    BY <1>1, <1>2, FineAsk, FineStep
  <2>3. Fine("kill_data", q)
    BY <2>2, FineJoin, FineLocked
  <2> HIDE DEF q
  <2>4. Begins("kill_data", q)
    BY <1>4, <2>1, <2>3 DEF Begins
  <2> QED
    BY <2>1, <2>4
<1>10. CASE StoreFrameDAG(u, s)
  <2> DEFINE x == [do |-> "find", space |-> s, force |-> TRUE]
             y == [do |-> "several"]
             q == <<x>> \o <<y>>
  <2>1. Call(u, "storeFrameDAG", q) /\ multi' = multi
    BY <1>10 DEF StoreFrameDAG, WriteFrame, Step, Plain
  <2>2. x \in StepRec /\ y \in StepRec
    BY DEF StepRec
  <2>3. Fits("storeFrameDAG", x)
    BY <1>4 DEF Fits
  <2>4. Fits("storeFrameDAG", y)
    BY <1>4 DEF Fits
  <2>5. Owes(x, multi') = {} /\ Owes(y, multi') = {}
    BY DEF Owes
  <2> HIDE DEF x, y
  <2>6. Fine("storeFrameDAG", <<x>>) /\ Fine("storeFrameDAG", <<y>>)
    BY <2>2, <2>3, <2>4, FineOne
  <2>7. Fine("storeFrameDAG", q)
    BY <2>6, FineJoin
  <2>8. Left(q) = {x} \cup {y}
    <3>1. <<x>> \in Seq(StepRec) /\ <<y>> \in Seq(StepRec)
      BY <2>2
    <3>2. Left(q) = Left(<<x>>) \cup Left(<<y>>)
      BY <3>1, LeftJoin
    <3> QED
      BY <3>2, LeftOne
  <2> HIDE DEF q
  <2>9. Begins("storeFrameDAG", q)
    BY <1>4, <1>6, <2>1, <2>5, <2>7, <2>8
  <2> QED
    BY <2>1, <2>9
<1>11. CASE LoadFrameDAG(u)
  <2> DEFINE q == Locked(Ask("cog-atomspace", None, "frames"))
  <2>1. Call(u, "loadFrameDAG", q) /\ multi' = TRUE
    BY <1>11 DEF LoadFrameDAG
  <2>2. Fine("loadFrameDAG", q)
    BY <1>1, <1>2, FineAsk, FineLocked
  <2> HIDE DEF q
  <2>3. Begins("loadFrameDAG", q)
    BY <1>3, <2>1, <2>2, PlainBegins
  <2> QED
    BY <2>1, <2>3
<1>12. CASE Barrier(u)
  <2> DEFINE q == Locked(Send("cog-barrier", None))
  <2>1. Call(u, "barrier", q) /\ multi' = multi
    BY <1>12 DEF Barrier, BarrierSteps, Plain
  <2>2. Fine("barrier", q)
    BY <1>1, <1>2, FineAsk, FineLocked
  <2> HIDE DEF q
  <2>3. Begins("barrier", q)
    BY <1>3, <2>1, <2>2, PlainBegins
  <2> QED
    BY <2>1, <2>3
<1> QED
  BY <1>7, <1>8, <1>9, <1>10, <1>11, <1>12

LEMMA ConnectionsBegin ==
  ASSUME NEW u \in User, ProxyOpen(u) \/ ProxyClose(u) \/ Close(u) \/ Open(u)
  PROVE  \E f, q : Call(u, f, q) /\ Begins(f, q)
<1>1. None \in Arg /\ {"cog-proxy-open", "cog-proxy-close", "cog-barrier"} \subseteq Cmd
      /\ "drop" \in Use
  BY DEF Arg, Cmd, Use, Silent, Proxies
<1>2. {"proxy_open", "proxy_close", "close", "open"} \cap (Stores \cup {"none", "kill_data"}) = {}
  BY DEF Stores
<1>3. ASSUME NEW f, f \notin {"open", "kill_data"}
      PROVE  Fine(f, ProxyOpenSteps) /\ Fine(f, ProxyCloseSteps)
  <2>1. Fine(f, Ask("cog-proxy-open", None, "drop")) /\ Fine(f, Ask("cog-proxy-close", None, "drop"))
    BY <1>1, <1>3, FineAsk
  <2>2. Fine(f, Send("cog-barrier", None))
    BY <1>1, <1>3, FineAsk
  <2>3. Fine(f, BarrierSteps)
    BY <2>2, FineLocked DEF BarrierSteps
  <2> QED
    BY <2>1, <2>3, FineJoin DEF ProxyOpenSteps, ProxyCloseSteps
<1>4. multi' = multi
  BY DEF ProxyOpen, ProxyClose, Close, Open, Plain
<1>5. CASE ProxyOpen(u)
  <2>1. Begins("proxy_open", ProxyOpenSteps)
    BY <1>2, <1>3, <1>4, PlainBegins
  <2> QED
    BY <1>5, <2>1 DEF ProxyOpen
<1>6. CASE ProxyClose(u)
  <2>1. Begins("proxy_close", ProxyCloseSteps)
    BY <1>2, <1>3, <1>4, PlainBegins
  <2> QED
    BY <1>6, <2>1 DEF ProxyClose
<1>7. CASE Close(u) /\ connected
  <2>1. Call(u, "close", C6)
    BY <1>7, FormsStart DEF Close
  <2>2. Fine("close", ProxyCloseSteps) /\ Fine("close", Step("shut"))
    BY <1>3, FineStep
  <2>3. Fine("close", C6)
    BY <2>2, FineJoin, FormsStart
  <2>4. Begins("close", C6)
    BY <1>2, <1>4, <2>3 DEF Begins
  <2> QED
    BY <2>1, <2>4
<1>8. CASE Close(u) /\ ~connected
  <2>1. Fine("close", Step("shut"))
    BY FineStep
  <2>2. <<>> \o Step("shut") = C1
    BY <2>1, ConcatEmptySeq DEF Fine, C1
  <2>3. Call(u, "close", C1)
    BY <1>8, <2>2 DEF Close
  <2>4. Fine("close", C1)
    BY <2>1 DEF C1
  <2>5. Begins("close", C1)
    BY <1>2, <1>4, <1>8, <2>4 DEF Begins
  <2> QED
    BY <2>3, <2>5
<1>9. CASE Open(u)
  <2> DEFINE q == Locked(Step("connect"))
  <2>1. Call(u, "open", q) /\ ~connected
    BY <1>9 DEF Open
  <2>2. Fine("open", q)
    BY FineStep, FineLocked
  <2> HIDE DEF q
  <2>3. Begins("open", q)
    BY <1>2, <1>4, <2>1, <2>2 DEF Begins
  <2> QED
    BY <2>1, <2>3
<1> QED
  BY <1>5, <1>6, <1>7, <1>8, <1>9

LEMMA OperationBegins ==
  ASSUME Inv, NEW u \in User, Operation(u)
  PROVE  \E f, q : Call(u, f, q) /\ Begins(f, q)
<1>1. Main \in Space /\ TRUE \in BOOLEAN /\ "Node" \in {"Node", "Link"}
      /\ "cog-incoming-set" \in {"cog-incoming-set", "cog-incoming-by-type"}
  BY SpaceAssumption
<1>2. CASE \E a \in Atom : \/ StoreAtom(u, a) \/ SetProxy(u, a)
                           \/ \E s \in Space : StoreValue(u, a, s) \/ UpdateValue(u, a, s)
  BY <1>1, <1>2, StoresBegin
<1>3. CASE \E a \in Atom :
             \/ LoadValue(u, a) \/ RunQuery(u, a) \/ GetAtom(u, a)
             \/ \E r \in BOOLEAN : RemoveAtom(u, a, r)
             \/ \E c \in {"cog-incoming-set", "cog-incoming-by-type"} : FetchIncoming(u, a, c)
  BY <1>1, <1>3, AsksBegin
<1>4. CASE \E type \in {"Node", "Link"} : LoadType(u, type)
  BY <1>4, TypeBegins
<1>5. CASE \/ LoadAtomSpace(u) \/ StoreAtomSpace(u) \/ KillData(u) \/ LoadFrameDAG(u)
           \/ Barrier(u) \/ \E s \in Space : StoreFrameDAG(u, s)
  BY <1>1, <1>5, SpacesBegin
<1>6. CASE ProxyOpen(u) \/ ProxyClose(u) \/ Close(u) \/ Open(u)
  BY <1>6, ConnectionsBegin
<1> QED
  BY <1>2, <1>3, <1>4, <1>5, <1>6 DEF Operation

\* A store that is called while others store, or kill_data is in progress, counts as a race
\* unless _multi_space was set.
LEMMA CallCalm ==
  ASSUME Inv, FrameInv, Calm, Unlocked \subseteq Alone, NEW u \in User, NEW f, NEW q,
         Call(u, f, q), Begins(f, q), ~raced'
  PROVE  Calm'
<1>1. op \in [User -> Ops] /\ todo \in [User -> Seq(StepRec)] /\ multi \in BOOLEAN
  BY DEF Inv, Types
<1>2. /\ op[u] = "none" /\ op'[u] = f /\ todo'[u] = q
      /\ \A v \in User \ {u} : op'[v] = op[v] /\ todo'[v] = todo[v]
      /\ UNCHANGED <<sockfd, wire, eof, defined, frames>>
      /\ f \in Alone => \A v \in User : op[v] = "none"
  BY <1>1 DEF Call, sockVars, srvVars
<1>3. /\ f = "kill_data" => \A v \in User : op[v] \notin Stores
      /\ f \in Stores => \A v \in User : op[v] # "kill_data" /\ (op[v] \in Stores => multi)
  BY DEF Call
<1>4. /\ Fine(f, q) /\ f # "none"
      /\ f = "close" => q = C6 \/ (q = C1 /\ ~connected)
      /\ f = "open" => ~connected
      /\ f \in Stores => \A T : Safe(q, T, multi')
      /\ multi' = multi \/ (multi' = TRUE /\ f \in Stores \cup {"loadFrameDAG"})
  BY DEF Begins
<1>5. "none" \notin Stores /\ "kill_data" \notin Stores
  BY DEF Stores
<1>6. Told' = Told /\ \A i : ToldBy(i)' = ToldBy(i)
  BY <1>2 DEF Told, ToldBy
<1>7. ~eof' /\ (~connected' => wire' = <<>>)
  BY <1>2 DEF Calm, connected
<1>8. \A v \in User : op'[v] = "close" /\ todo'[v] = C1 => wire' = <<>>
  <2>1. C6 # C1
    BY CloseForms
  <2> QED
    BY <1>2, <1>4, <2>1 DEF Calm
<1>9. \A v \in User : op'[v] = "open" /\ [do |-> "connect"] \in Left(todo'[v]) => wire' = <<>>
  BY <1>2, <1>4 DEF Calm
<1>10. \A v, z \in User : op'[v] \in Stores => op'[z] # "kill_data"
  BY <1>2, <1>3, <1>5 DEF Calm
<1>11. ~multi' => \A v, z \in User : op'[v] \in Stores /\ op'[z] \in Stores => v = z
  BY <1>1, <1>2, <1>3, <1>4 DEF Calm
<1>12. \A i \in 1..Len(wire') : Own(wire'[i].arg, wire'[i].frame) \subseteq ToldBy(i - 1)'
  BY <1>2, <1>6 DEF Calm
<1>13. ASSUME NEW v \in User
       PROVE  Safe(todo'[v], Told, multi')
  <2>1. CASE v = u
    <3>1. CASE f \in Stores
      BY <1>2, <1>4, <2>1, <3>1
    <3>2. CASE f \notin Stores
      <4>1. \A s \in Left(q) : Fits(f, s)
        BY <1>4 DEF Fine
      <4>2. Safe(q, Told, multi')
        BY <3>2, <4>1, SafeIdle
      <4> QED
        BY <1>2, <2>1, <4>2
    <3> QED
      BY <3>1, <3>2
  <2>2. CASE v # u /\ multi' = multi
    BY <1>2, <2>2 DEF Calm
  <2>3. CASE v # u /\ multi' # multi
    <3>1. op[v] \notin Stores
      <4>1. CASE f \in Stores
        BY <1>1, <1>3, <1>4, <2>3, <4>1
      <4>2. CASE f \notin Stores
        <5>1. f \in Alone
          BY <1>4, <2>3, <4>2 DEF Unlocked
        <5> QED
          BY <1>2, <1>5, <5>1
      <4> QED
        BY <4>1, <4>2
    <3>2. \A s \in Left(todo[v]) : Fits(op[v], s)
      BY DEF FrameInv
    <3>3. Safe(todo[v], Told, multi')
      BY <3>1, <3>2, SafeIdle
    <3> QED
      BY <1>2, <2>3, <3>3
  <2> QED
    BY <2>1, <2>2, <2>3
<1>14. frames' \subseteq Told' \/ \E v \in User : Clearing(v)'
  <2>1. CASE frames \subseteq Told
    BY <1>2, <1>6, <2>1
  <2>2. CASE ~(frames \subseteq Told)
    <3>1. PICK v \in User : Clearing(v)
      BY <2>2 DEF Calm
    <3>2. v # u
      BY <1>2, <3>1 DEF Clearing
    <3> QED
      BY <1>2, <3>1, <3>2 DEF Clearing
  <2> QED
    BY <2>1, <2>2
<1>15. \A v \in User : Safe(todo'[v], Told', multi')
  BY <1>6, <1>13
<1>16. (\A v \in User : Safe(todo[v], Told, multi))'
  BY <1>15
<1> QED
  BY <1>7, <1>8, <1>9, <1>10, <1>11, <1>12, <1>14, <1>16 DEF Calm

LEMMA CallKeeps ==
  ASSUME Inv, FrameInv, Unlocked \subseteq Alone, NEW u \in User, Operation(u)
  PROVE  FrameInv'
<1>1. PICK f, q : Call(u, f, q) /\ Begins(f, q)
  BY OperationBegins
<1>2. op \in [User -> Ops] /\ todo \in [User -> Seq(StepRec)]
  BY DEF Inv, Types
<1>3. /\ op'[u] = f /\ todo'[u] = q /\ UNCHANGED <<defined, lost>> /\ (~raced' => ~raced)
      /\ \A v \in User \ {u} : op'[v] = op[v] /\ todo'[v] = todo[v]
  BY <1>1, <1>2 DEF Call, sockVars, srvVars
<1>4. /\ \A s \in Left(q) : Fits(f, s)
      /\ f = "kill_data" => q = K6
      /\ f = "close" => q = C6 \/ q = C1
  BY <1>1 DEF Begins, Fine
<1>5. \A v \in User : \A s \in Left(todo'[v]) : Fits(op'[v], s)
  BY <1>3, <1>4 DEF FrameInv
<1>6. \A v \in User : op'[v] = "kill_data" => todo'[v] \in {K6, K5, K4, K3, K2, K1}
  BY <1>3, <1>4 DEF FrameInv
<1>7. \A v \in User : op'[v] = "close" => todo'[v] \in {C6, C5, C4, C3, C2, C1}
  BY <1>3, <1>4 DEF FrameInv
<1>8. \A s \in defined' : Below[s] \subseteq defined'
  BY <1>3 DEF FrameInv
<1>9. ~raced' /\ lost' = 0 => Calm'
  BY <1>1, <1>3, CallCalm DEF FrameInv
<1> QED
  BY <1>5, <1>6, <1>7, <1>8, <1>9 DEF FrameInv

-----------------------------------------------------------------------------
LEMMA FrameInit == Init => FrameInv
<1> SUFFICES ASSUME Init PROVE FrameInv
  OBVIOUS
<1>1. /\ wire = <<>> /\ eof = FALSE /\ defined = {} /\ frames = {}
      /\ \A u \in User : op[u] = "none" /\ todo[u] = <<>>
  BY DEF Init
<1>2. Left(<<>>) = {}
  BY NoStepsLeft
<1>3. \A u \in User : Safe(todo[u], Told, multi)
  BY <1>1, SafeEmpty
<1>5. "none" \notin Stores
  BY DEF Stores
<1>6. \A i \in 1..Len(wire) : Own(wire[i].arg, wire[i].frame) \subseteq ToldBy(i - 1)
  <2>1. Len(wire) = 0
    BY <1>1
  <2> QED
    BY <2>1
<1>7. Calm
  BY <1>1, <1>3, <1>5, <1>6 DEF Calm, connected
<1> QED
  BY <1>1, <1>2, <1>7 DEF FrameInv

LEMMA FrameStep ==
  ASSUME Inv, FrameInv, Unlocked \subseteq Alone, [Next]_vars
  PROVE  FrameInv'
<1>1. ASSUME NEW u \in User, Operation(u)
      PROVE  FrameInv'
  BY <1>1, CallKeeps
<1>2. ASSUME NEW u \in User, UserStep(u)
      PROVE  FrameInv'
  <2>1. CASE \/ LockMtx(u) \/ UnlockMtx(u) \/ SetValue(u) \/ DoSend(u) \/ DoRecvFails(u)
             \/ CloseSock(u) \/ Connect(u)
    BY <2>1, LockKeeps, SendKeeps, RecvFailsKeeps, CloseKeeps, ConnectKeeps
  <2>2. CASE \/ RecvDrop(u) \/ RecvKeep(u) \/ RecvProbe(u) \/ RecvList(u) \/ RecvFrames(u)
             \/ \E then \in {"set", "keys"} : RecvSet(u, then)
    BY <2>2, DropKeeps, KeepKeeps, ProbeKeeps, ListKeeps
  <2>3. CASE \/ DecodeAtom(u) \/ StoreNext(u) \/ FindFrame(u) \/ CacheFrame(u)
             \/ EncodeAtom(u) \/ SetFlags(u)
    BY <2>3, DecodeKeeps, StoreNextKeeps, FindKeeps, CacheKeeps, EncodeKeeps, FlagsKeep
  <2>4. CASE SendSignals(u)
    BY <2>4, DropsKeep
  <2> QED
    BY <1>2, <2>1, <2>2, <2>3, <2>4 DEF UserStep
<1> QED
  BY <1>1, <1>2, ExecKeeps, DropsKeep DEF Next

LEMMA FrameInvKnown ==
  ASSUME Inv, FrameInv
  PROVE  FramesKnown
<1> SUFFICES ASSUME wire # <<>>, ~raced, lost = 0, Head(wire).frame # None,
                    Head(wire).frame \in Below[Home[Head(wire).arg]]
             PROVE  Head(wire).frame \in defined
  BY DEF FramesKnown
<1>1. Calm
  BY DEF FrameInv
<1>2. wire \in Seq(Msg)
  BY DEF Inv, Types
<1>3. Head(wire) = wire[1] /\ 1 \in 1..Len(wire)
  BY <1>2, HeadTailProperties, EmptySeq
<1>4. wire[1].frame \in ToldBy(1 - 1)
  BY <1>1, <1>3 DEF Calm, Own
<1>5. ToldBy(1 - 1) = defined
  <2>1. 1..(1 - 1) = {}
    OBVIOUS
  <2> QED
    BY <2>1 DEF ToldBy
<1> QED
  BY <1>3, <1>4, <1>5

(***************************************************************************)
(* A message never names the frame of its Atom, or one that this is built  *)
(* on, unless the server was told of it, for any threads, Atoms and        *)
(* AtomSpaces, as long as the operations that use the socket or the maps   *)
(* without their locks are called Alone: the threads that store look into  *)
(* the cache, send the definition and fill the cache in separate steps,    *)
(* and kill_data empties the cache after the server has forgotten the      *)
(* frames.  Keys of storeValue and updateValue may live in any frame; one  *)
(* that the Atom's is not built on is named without being sent.  Stores    *)
(* that overlap a kill_data, or that overlap another one before            *)
(* _multi_space is set, are left out by FramesKnown.                       *)
(***************************************************************************)
THEOREM FramesKnownHolds ==
  ASSUME Unlocked \subseteq Alone
  PROVE  Spec => []FramesKnown
<1>1. Spec => []FrameInv
  BY InvHolds, FrameInit, FrameStep, PTL DEF Spec
<1> QED
  BY <1>1, InvHolds, FrameInvKnown, PTL

=============================================================================
