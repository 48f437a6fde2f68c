----------------------- MODULE CogSimpleStorageProofs -----------------------
(***************************************************************************)
(* Proofs about CogSimpleStorage, for any threads, Atoms, AtomSpaces and   *)
(* numbers of calls and of lost connections, as long as the operations     *)
(* that use the socket without the mutex are called Alone: the mutex is    *)
(* let go on every path, a thread that waits for a reply finds its own,    *)
(* and a Value that was fetched is never replaced by an older one.         *)
(*                                                                         *)
(* What is left of an operation is a sequence of steps.  The invariant     *)
(* says which steps may follow each other, and from the first step one can *)
(* tell whether the thread holds _mtx.                                     *)
(***************************************************************************)
EXTENDS CogSimpleStorage, SequenceTheorems, WellFoundedInduction, TLAPS

-----------------------------------------------------------------------------
(***************************************************************************)
(* The steps of operations.                                                *)
(***************************************************************************)
Arg == Atom \cup Space \cup {None, "Node", "Link"}

Proxies == {"cog-proxy-open", "cog-proxy-close"}
Sets    == {"cog-set-values!", "cog-set-value!", "cog-update-value!"}
Lists   == {"cog-get-atoms", "cog-incoming-set", "cog-incoming-by-type"}
Stamped == {"cog-value", "cog-keys->alist", "cog-execute-cache!"}
Cmd == Silent \cup Proxies \cup Lists \cup Stamped
         \cup {"cog-node", "cog-extract!", "cog-extract-recursive!",
               "cog-atomspace-clear", "cog-atomspace", "cog-set-proxy!"}
Use == {"drop", "keep", "set", "keys", "probe", "list", "frames"}
Ops == {"none"} \cup Unlocked \cup Stores
         \cup {"loadValue", "runQuery", "removeAtom", "getAtom", "fetchIncoming",
               "loadType", "loadAtomSpace", "kill_data", "barrier"}

StepRec ==
  [do : {"lock", "unlock", "single", "several", "forget", "shut", "connect"}]
    \cup [do : {"send"}, cmd : Cmd, arg : Arg, frame : Space \cup {None}]
    \cup [do : {"recv"}, cmd : Cmd, arg : Arg, then : Use]
    \cup [do : {"find"}, space : Space, force : BOOLEAN]
    \cup [do : {"encode"}, cmd : Cmd, arg : Atom, space : Space]
    \cup [do : {"set"}, arg : Arg, stamp : Nat]
    \cup [do : {"next", "each"}, rest : SUBSET Atom]
    \cup [do : {"cache"}, rest : SUBSET Space]


\* The arguments that the server counts on.
ArgOK(cmd, arg) ==
  /\ cmd \in Sets \cup Stamped => arg \in Atom
  /\ cmd = "define" => arg \in Space

\* What a reply is used for fits the request.
UseOK(cmd, then) ==
  /\ cmd \notin Silent
  /\ cmd \in Proxies => then = "drop"
  /\ then = "list" => cmd \in Lists
  /\ then = "frames" => cmd = "cog-atomspace"
  /\ then = "set" => cmd = "cog-value"
  /\ then = "keep" => cmd = "cog-execute-cache!"
  /\ then = "keys" => cmd = "cog-keys->alist"

\* The steps of loadAtomSpace.
LoadOK(s) ==
  /\ s.do \in {"lock", "send", "recv", "next", "unlock"}
  /\ s.do \in {"send", "recv"} => s.cmd \in {"cog-get-atoms", "cog-keys->alist"}
  /\ s.do = "recv" /\ s.cmd = "cog-get-atoms" => s.then = "list"
  /\ s.do = "recv" /\ s.cmd = "cog-keys->alist" => s.then = "keys"

\* A step s of operation f, where the server's Values have the stamps w.
StepOK(f, s, w) ==
  /\ s \in StepRec
  /\ s.do \in {"send", "recv"} =>
       ArgOK(s.cmd, s.arg) /\ (s.cmd \in Proxies => f \in Unlocked)
  /\ s.do = "recv" => UseOK(s.cmd, s.then) /\ (s.then = "keep" => f = "runQuery")
  /\ s.do = "encode" => s.cmd \in Sets
  /\ s.do \in {"shut", "connect"} => f \in Unlocked
  /\ s.do = "set" => f = "runQuery" /\ s.arg \in Atom /\ s.stamp <= w[s.arg]
  /\ f = "loadAtomSpace" => LoadOK(s)

\* The step is done with _mtx held.
Held(s) ==
  \/ s.do \in {"unlock", "next", "single", "forget", "connect"}
  \/ s.do \in {"send", "recv"} /\ s.cmd \notin Proxies

Awaits(s) == s.do = "send" /\ s.cmd \notin Silent

\* Step y comes right after step x of operation f.
Follows(f, x, y) ==
  /\ Held(y) <=> x.do = "lock" \/ (Held(x) /\ x.do # "unlock")
  /\ Awaits(x) => y.do = "recv"
  /\ y.do = "recv" => Awaits(x) /\ x.cmd = y.cmd /\ x.arg = y.arg
  /\ f = "loadAtomSpace" => x.do # "unlock"

MayEnd(s) == s.do # "lock" /\ (Held(s) => s.do = "unlock") /\ ~Awaits(s)

\* q is a sequence of such steps, from x to y.
Runs(f, q, x, y, w) ==
  /\ q \in Seq(StepRec) /\ Len(q) > 0 /\ q[1] = x /\ q[Len(q)] = y
  /\ \A i \in 1..Len(q) : StepOK(f, q[i], w)
  /\ \A i \in 1..(Len(q) - 1) : Follows(f, q[i], q[i + 1])

\* What may be left of operation f.
Program(f, q, w) ==
  q = <<>> \/ (Runs(f, q, q[1], q[Len(q)], w) /\ MayEnd(q[Len(q)]))

-----------------------------------------------------------------------------
(***************************************************************************)
(* The invariant.                                                          *)
(***************************************************************************)
Msg   == [by : User, cmd : Cmd, arg : Arg, frame : Space \cup {None}]
Reply == [by : User, cmd : Cmd, arg : Arg, set : SUBSET (Atom \cup Space), stamp : Nat]

Types ==
  /\ sockfd \in {-1, 0, 1} /\ multi \in BOOLEAN /\ eof \in BOOLEAN /\ raced \in BOOLEAN
  /\ mtx \in User \cup {None}
  /\ frames \subseteq Space /\ defined \subseteq Space
  /\ valued \subseteq known /\ known \subseteq Atom /\ have \subseteq Atom
  /\ ver \in Nat /\ val \in [Atom -> 0..ver] /\ lval \in [Atom -> 0..ver]
  /\ calls \in Nat /\ few \in BOOLEAN /\ lost \in 0..MaxLost /\ dead \in BOOLEAN
  /\ op \in [User -> Ops] /\ todo \in [User -> Seq(StepRec)]
  /\ wire \in Seq(Msg) /\ back \in Seq(Reply)

Programs ==
  \A u \in User : (op[u] = "none" <=> todo[u] = <<>>) /\ Program(op[u], todo[u], val)

\* The steps at the head say who holds the mutex.
Mutex == \A u \in User : mtx = u <=> todo[u] # <<>> /\ Held(todo[u][1])

Exclusive ==
  \A u \in User : op[u] \in Alone \ {"none"} => \A v \in User \ {u} : op[v] = "none"

\* Thread u waits for the reply to m.
Waits(u, m) ==
  /\ todo[u] # <<>> /\ todo[u][1].do = "recv"
  /\ m.by = u /\ m.cmd = todo[u][1].cmd /\ m.arg = todo[u][1].arg

\* A reply that was not received yet is not out of date.
ReplyOK(r) ==
  /\ r.cmd \in Lists => r.set \subseteq known
  /\ r.cmd = "cog-get-atoms" => r.set = known \cap OfType(r.arg)
  /\ r.cmd = "cog-atomspace" => r.set = defined
  /\ r.cmd \in Stamped => r.arg \in Atom /\ r.stamp = val[r.arg]

\* There is at most one request on the socket, or its reply; a thread waits for
\* it, and nothing comes behind it.
Exchange ==
  /\ \A i \in 1..Len(wire) : ArgOK(wire[i].cmd, wire[i].arg)
  /\ \A i \in 1..Len(wire) : wire[i].cmd \notin Silent =>
       i = Len(wire) /\ back = <<>> /\ \E u \in User : Waits(u, wire[i])
  /\ back # <<>> =>
       /\ Len(back) = 1 /\ wire = <<>> /\ ReplyOK(back[1])
       /\ \E u \in User : Waits(u, back[1])
  /\ eof => wire = <<>>
  /\ \A u \in User : todo[u] # <<>> /\ todo[u][1].do = "recv" => sockfd > 0

Fresh == \A a \in Atom : lval[a] <= val[a]

Inv == Types /\ Programs /\ Mutex /\ Exclusive /\ Exchange /\ Fresh

-----------------------------------------------------------------------------
(***************************************************************************)
(* Sequences of steps.                                                     *)
(***************************************************************************)
\* A single step.
LEMMA OneStep ==
  ASSUME NEW f, NEW w, NEW s, StepOK(f, s, w)
  PROVE  Runs(f, <<s>>, s, s, w)
<1>1. s \in StepRec
  BY DEF StepOK
<1>2. <<s>> \in Seq(StepRec) /\ Len(<<s>>) = 1 /\ <<s>>[1] = s
  BY <1>1
<1> QED
  BY <1>2 DEF Runs

\* Two sequences, one after the other.
LEMMA Join ==
  ASSUME NEW f, NEW w, NEW p, NEW q, NEW x, NEW y, NEW v, NEW z,
         Runs(f, p, x, y, w), Runs(f, q, v, z, w), Follows(f, y, v)
  PROVE  Runs(f, p \o q, x, z, w)
<1>1. /\ p \in Seq(StepRec) /\ q \in Seq(StepRec)
      /\ Len(p) \in Nat /\ Len(q) \in Nat /\ Len(p) > 0 /\ Len(q) > 0
      /\ p[1] = x /\ p[Len(p)] = y /\ q[1] = v /\ q[Len(q)] = z
  BY DEF Runs
<1> DEFINE r == p \o q
<1>2. /\ r \in Seq(StepRec) /\ Len(r) = Len(p) + Len(q)
      /\ \A i \in 1..Len(p) : r[i] = p[i]
      /\ \A i \in 1..Len(q) : r[Len(p) + i] = q[i]
  BY <1>1, ConcatProperties
<1> HIDE DEF r
<1>3. r[1] = x /\ r[Len(r)] = z
  BY <1>1, <1>2
<1>4. ASSUME NEW i \in 1..Len(r)
      PROVE  StepOK(f, r[i], w)
  <2>1. CASE i \in 1..Len(p)
    BY <1>2, <2>1 DEF Runs
  <2>2. CASE i \notin 1..Len(p)
    <3>1. i - Len(p) \in 1..Len(q) /\ Len(p) + (i - Len(p)) = i
      BY <1>1, <1>2, <2>2
    <3>2. r[i] = q[i - Len(p)]
      BY <1>2, <3>1
    <3> QED
      BY <3>1, <3>2 DEF Runs
  <2> QED
    BY <2>1, <2>2
<1>5. ASSUME NEW i \in 1..(Len(r) - 1)
      PROVE  Follows(f, r[i], r[i + 1])
  <2>1. CASE i < Len(p)
    <3>1. i \in 1..(Len(p) - 1) /\ i \in 1..Len(p) /\ i + 1 \in 1..Len(p)
      BY <1>1, <2>1
    <3> QED
      BY <1>2, <3>1 DEF Runs
  <2>2. CASE i = Len(p)
    <3>1. r[i] = y /\ r[i + 1] = v
      BY <1>1, <1>2, <2>2
    <3> QED
      BY <3>1
  <2>3. CASE i > Len(p)
    <3> DEFINE j == i - Len(p)
    <3>1. /\ j \in 1..(Len(q) - 1) /\ j \in 1..Len(q) /\ j + 1 \in 1..Len(q)
          /\ Len(p) + j = i /\ Len(p) + (j + 1) = i + 1
      <4>1. Len(p) \in Nat /\ Len(q) \in Nat /\ i \in 1..(Len(p) + Len(q) - 1)
        BY <1>1, <1>2
      <4> QED
        BY <2>3, <4>1
    <3> HIDE DEF j
    <3>2. r[i] = q[j] /\ r[i + 1] = q[j + 1]
      BY <1>2, <3>1
    <3> QED
      BY <3>1, <3>2 DEF Runs
  <2> QED
    BY <1>1, <2>1, <2>2, <2>3
<1> QED
  BY <1>1, <1>2, <1>3, <1>4, <1>5 DEF Runs, r

\* What is left after the first step.
LEMMA AfterFirst ==
  ASSUME NEW f, NEW w, NEW q, NEW x, NEW y, Runs(f, q, x, y, w)
  PROVE  /\ Head(q) = x /\ StepOK(f, x, w) /\ q # <<>>
         /\ \/ Tail(q) = <<>> /\ x = y
            \/ /\ Tail(q) # <<>> /\ Runs(f, Tail(q), Tail(q)[1], y, w)
               /\ Follows(f, x, Tail(q)[1])
<1>1. /\ q \in Seq(StepRec) /\ Len(q) \in Nat /\ Len(q) > 0 /\ q[1] = x /\ q[Len(q)] = y
      /\ q # <<>> /\ Head(q) = x /\ StepOK(f, x, w)
  BY DEF Runs
<1> DEFINE t == Tail(q)
<1>2. /\ t \in Seq(StepRec) /\ Len(t) = Len(q) - 1
      /\ \A i \in 1..Len(t) : t[i] = q[i + 1]
  BY <1>1, HeadTailProperties
<1>3. CASE Len(q) = 1
  <2> HIDE DEF t
  <2>1. Len(t) = 0
    BY <1>2, <1>3
  <2>2. t = <<>>
    BY <1>2, <2>1, EmptySeq
  <2> QED
    BY <1>1, <1>3, <2>2 DEF t
<1>4. CASE Len(q) > 1
  <2> HIDE DEF t
  <2>1. t # <<>> /\ Len(t) > 0 /\ t[Len(t)] = y
    BY <1>1, <1>2, <1>4
  <2>2. Follows(f, x, t[1])
    <3>1. 1 \in 1..(Len(q) - 1) /\ t[1] = q[2]
      BY <1>1, <1>2, <1>4
    <3> QED
      BY <1>1, <3>1 DEF Runs
  <2>3. ASSUME NEW i \in 1..Len(t)
        PROVE  StepOK(f, t[i], w)
    BY <1>1, <1>2 DEF Runs
  <2>4. ASSUME NEW i \in 1..(Len(t) - 1)
        PROVE  Follows(f, t[i], t[i + 1])
    <3>1. /\ i \in 1..Len(t) /\ i + 1 \in 1..Len(t) /\ i + 1 \in 1..(Len(q) - 1)
      BY <1>1, <1>2
    <3>2. t[i] = q[i + 1] /\ t[i + 1] = q[(i + 1) + 1]
      BY <1>2, <3>1
    <3> QED
      BY <3>1, <3>2 DEF Runs
  <2>5. Runs(f, t, t[1], y, w)
    BY <1>2, <2>1, <2>3, <2>4 DEF Runs
  <2> QED
    BY <1>1, <2>1, <2>2, <2>5 DEF t
<1> QED
  BY <1>1, <1>3, <1>4

\* The server's stamps only grow.
LEMMA LaterStamps ==
  ASSUME NEW f, NEW w, NEW w1, NEW q, NEW n \in Nat, NEW n1 \in Nat,
         w \in [Atom -> 0..n], w1 \in [Atom -> 0..n1],
         \A a \in Atom : w[a] <= w1[a], Program(f, q, w)
  PROVE  Program(f, q, w1)
<1>1. ASSUME NEW s, StepOK(f, s, w)
      PROVE  StepOK(f, s, w1)
  <2>1. s.do = "set" => s.stamp <= w1[s.arg]
    <3> SUFFICES ASSUME s.do = "set" PROVE s.stamp <= w1[s.arg]
      OBVIOUS
    <3>1. s \in StepRec /\ s.arg \in Atom /\ s.stamp <= w[s.arg]
      BY <1>1 DEF StepOK
    <3>2. s.stamp \in Nat
      BY <3>1 DEF StepRec
    <3>3. w[s.arg] \in Nat /\ w1[s.arg] \in Nat /\ w[s.arg] <= w1[s.arg]
      BY <3>1
    <3> QED
      BY <3>1, <3>2, <3>3
  <2> QED
    BY <1>1, <2>1 DEF StepOK
<1> QED
  BY <1>1 DEF Program, Runs

(***************************************************************************)
(* The steps that the operations are put together from.                    *)
(***************************************************************************)
Loads == {"cog-get-atoms", "cog-keys->alist"}

LEMMA PlainStep ==
  ASSUME NEW f, NEW w,
         NEW d \in {"lock", "unlock", "single", "several", "forget", "shut", "connect"},
         d \in {"shut", "connect"} => f \in Unlocked,
         f = "loadAtomSpace" => d \in {"lock", "unlock"}
  PROVE  Runs(f, Step(d), [do |-> d], [do |-> d], w)
<1>1. [do |-> d] \in StepRec /\ [do |-> d].do = d
  BY DEF StepRec
<1>2. StepOK(f, [do |-> d], w)
  BY <1>1 DEF StepOK, LoadOK
<1> QED
  BY <1>2, OneStep DEF Step

LEMMA SendStep ==
  ASSUME NEW f, NEW w, NEW c \in Cmd, NEW a \in Arg, NEW fr \in Space \cup {None},
         ArgOK(c, a), c \in Proxies => f \in Unlocked, f = "loadAtomSpace" => c \in Loads
  PROVE  LET s == [do |-> "send", cmd |-> c, arg |-> a, frame |-> fr]
         IN  Runs(f, <<s>>, s, s, w)
<1> DEFINE s == [do |-> "send", cmd |-> c, arg |-> a, frame |-> fr]
<1>1. s \in StepRec /\ s.do = "send" /\ s.cmd = c /\ s.arg = a
  BY DEF StepRec
<1> HIDE DEF s
<1>2. StepOK(f, s, w)
  BY <1>1 DEF StepOK, LoadOK, Loads
<1> QED
  BY <1>2, OneStep DEF s

LEMMA RecvStep ==
  ASSUME NEW f, NEW w, NEW c \in Cmd, NEW a \in Arg, NEW then \in Use,
         ArgOK(c, a), UseOK(c, then), c \in Proxies => f \in Unlocked,
         then = "keep" => f = "runQuery",
         f = "loadAtomSpace" =>
           \/ c = "cog-get-atoms" /\ then = "list"
           \/ c = "cog-keys->alist" /\ then = "keys"
  PROVE  LET s == [do |-> "recv", cmd |-> c, arg |-> a, then |-> then]
         IN  Runs(f, <<s>>, s, s, w)
<1> DEFINE s == [do |-> "recv", cmd |-> c, arg |-> a, then |-> then]
<1>1. s \in StepRec /\ s.do = "recv" /\ s.cmd = c /\ s.arg = a /\ s.then = then
  BY DEF StepRec
<1> HIDE DEF s
<1>2. StepOK(f, s, w)
  BY <1>1 DEF StepOK, LoadOK
<1> QED
  BY <1>2, OneStep DEF s

LEMMA AskSteps ==
  ASSUME NEW f, NEW w, NEW c \in Cmd, NEW a \in Arg, NEW then \in Use,
         ArgOK(c, a), UseOK(c, then), c \in Proxies => f \in Unlocked,
         then = "keep" => f = "runQuery",
         f = "loadAtomSpace" =>
           \/ c = "cog-get-atoms" /\ then = "list"
           \/ c = "cog-keys->alist" /\ then = "keys"
  PROVE  Runs(f, Ask(c, a, then),
              [do |-> "send", cmd |-> c, arg |-> a, frame |-> None],
              [do |-> "recv", cmd |-> c, arg |-> a, then |-> then], w)
<1> DEFINE s == [do |-> "send", cmd |-> c, arg |-> a, frame |-> None]
           r == [do |-> "recv", cmd |-> c, arg |-> a, then |-> then]
<1>1. Runs(f, <<s>>, s, s, w)
  BY SendStep DEF Loads
<1>2. Runs(f, <<r>>, r, r, w)
  BY RecvStep
<1>3. Follows(f, s, r)
  BY DEF Follows, Held, Awaits, UseOK
<1> HIDE DEF s, r
<1>4. Runs(f, <<s>> \o <<r>>, s, r, w)
  BY <1>1, <1>2, <1>3, Join
<1> QED
  BY <1>4 DEF Ask, Send, s, r

\* Steps between lock and unlock.
LEMMA LockedSteps ==
  ASSUME NEW f, NEW w, NEW p, NEW x, NEW y, Runs(f, p, x, y, w),
         Held(x), x.do # "recv", Held(y), y.do # "unlock", ~Awaits(y)
  PROVE  Runs(f, Locked(p), [do |-> "lock"], [do |-> "unlock"], w)
<1>1. /\ Runs(f, Step("lock"), [do |-> "lock"], [do |-> "lock"], w)
      /\ Runs(f, Step("unlock"), [do |-> "unlock"], [do |-> "unlock"], w)
  BY PlainStep
<1>2. Follows(f, [do |-> "lock"], x)
  BY DEF Follows, Awaits, Held
<1>3. Follows(f, y, [do |-> "unlock"])
  BY DEF Follows, Held
<1>4. Runs(f, Step("lock") \o p, [do |-> "lock"], y, w)
  BY <1>1, <1>2, Join
<1> QED
  BY <1>1, <1>3, <1>4, Join DEF Locked

LEMMA LockedAsk ==
  ASSUME NEW f, NEW w, NEW c \in Cmd \ Proxies, NEW a \in Arg, NEW then \in Use,
         ArgOK(c, a), UseOK(c, then), then = "keep" => f = "runQuery",
         f # "loadAtomSpace"
  PROVE  Runs(f, Locked(Ask(c, a, then)), [do |-> "lock"], [do |-> "unlock"], w)
<1> DEFINE s == [do |-> "send", cmd |-> c, arg |-> a, frame |-> None]
           r == [do |-> "recv", cmd |-> c, arg |-> a, then |-> then]
<1>1. Runs(f, Ask(c, a, then), s, r, w)
  BY AskSteps
<1>2. Held(s) /\ s.do # "recv" /\ Held(r) /\ r.do # "unlock" /\ ~Awaits(r)
  BY DEF Held, Awaits
<1> HIDE DEF s, r
<1> QED
  BY <1>1, <1>2, LockedSteps

LEMMA LockedSend ==
  ASSUME NEW f, NEW w, NEW c \in Silent, NEW a \in Arg, NEW fr \in Space \cup {None},
         ArgOK(c, a), f # "loadAtomSpace"
  PROVE  Runs(f, Locked(<<[do |-> "send", cmd |-> c, arg |-> a, frame |-> fr]>>),
              [do |-> "lock"], [do |-> "unlock"], w)
<1> DEFINE s == [do |-> "send", cmd |-> c, arg |-> a, frame |-> fr]
<1>1. c \in Cmd /\ c \notin Proxies
  BY DEF Silent, Proxies, Cmd
<1>2. Runs(f, <<s>>, s, s, w)
  BY <1>1, SendStep
<1>3. Held(s) /\ s.do # "recv" /\ s.do # "unlock" /\ ~Awaits(s)
  BY <1>1 DEF Held, Awaits
<1> HIDE DEF s
<1> QED
  BY <1>2, <1>3, LockedSteps DEF s

LEMMA StoreStepsRun ==
  ASSUME NEW f, NEW w, NEW s \in Space, NEW force \in BOOLEAN, NEW a \in Atom,
         NEW c \in Sets, NEW t \in Space, f # "loadAtomSpace"
  PROVE  LET x == [do |-> "find", space |-> s, force |-> force]
             y == [do |-> "encode", cmd |-> c, arg |-> a, space |-> t]
         IN  /\ Runs(f, WriteFrame(s, force), x, x, w)
             /\ Runs(f, WriteFrame(s, force) \o Encode(c, a, t), x, y, w)
<1> DEFINE x == [do |-> "find", space |-> s, force |-> force]
           y == [do |-> "encode", cmd |-> c, arg |-> a, space |-> t]
<1>1. x \in StepRec /\ x.do = "find"
  BY DEF StepRec
<1>2. y \in StepRec /\ y.do = "encode" /\ y.cmd \in Sets
  BY DEF StepRec, Sets, Cmd, Silent
<1> HIDE DEF x, y
<1>3. StepOK(f, x, w) /\ StepOK(f, y, w)
  BY <1>1, <1>2 DEF StepOK
<1>4. Runs(f, <<x>>, x, x, w) /\ Runs(f, <<y>>, y, y, w)
  BY <1>3, OneStep
<1>5. Follows(f, x, y)
  BY <1>1, <1>2 DEF Follows, Held, Awaits
<1>6. Runs(f, <<x>> \o <<y>>, x, y, w)
  BY <1>4, <1>5, Join
<1> QED
  BY <1>4, <1>6 DEF WriteFrame, Encode, x, y

(***************************************************************************)
(* The operations.                                                         *)
(***************************************************************************)
\* Steps that a thread without the mutex may start with.
Starts(f, q, w) ==
  Program(f, q, w) /\ q \in Seq(StepRec) /\ q # <<>> /\ ~Held(q[1]) /\ q[1].do # "recv"

LEMMA RunsStart ==
  ASSUME NEW f, NEW w, NEW q, NEW x, NEW y, Runs(f, q, x, y, w),
         MayEnd(y), ~Held(x), x.do # "recv"
  PROVE  Starts(f, q, w)
BY AfterFirst DEF Runs, Program, Starts

LEMMA LockedStart ==
  ASSUME NEW f, NEW w, NEW q, Runs(f, q, [do |-> "lock"], [do |-> "unlock"], w)
  PROVE  Starts(f, q, w)
<1>1. MayEnd([do |-> "unlock"]) /\ ~Held([do |-> "lock"]) /\ [do |-> "lock"].do # "recv"
  BY DEF MayEnd, Held, Awaits
<1> QED
  BY <1>1, RunsStart

\* storeAtom, storeValue, updateValue and set_proxy.
LEMMA StoresStart ==
  ASSUME NEW w, NEW a \in Atom, NEW s \in Space
  PROVE  /\ Starts("storeAtom", StoreSteps(a), w)
         /\ Starts("storeValue",
                   WriteFrame(Home[a], FALSE) \o Encode("cog-set-value!", a, s), w)
         /\ Starts("updateValue",
                   WriteFrame(Home[a], FALSE) \o Encode("cog-update-value!", a, s), w)
         /\ Starts("set_proxy",
                   StoreSteps(a) \o Locked(Ask("cog-set-proxy!", a, "drop")), w)
<1>1. Home[a] \in Space /\ a \in Arg
  BY SpaceAssumption DEF Arg
<1>2. ASSUME NEW f \in Stores, NEW c \in Sets, NEW t \in Space
      PROVE  LET x == [do |-> "find", space |-> Home[a], force |-> FALSE]
                 y == [do |-> "encode", cmd |-> c, arg |-> a, space |-> t]
             IN  /\ Runs(f, WriteFrame(Home[a], FALSE) \o Encode(c, a, t), x, y, w)
                 /\ MayEnd(y) /\ ~Held(x) /\ x.do # "recv" /\ y.do = "encode"
  <2>1. f # "loadAtomSpace"
    BY DEF Stores
  <2> QED
    BY <1>1, <2>1, StoreStepsRun DEF MayEnd, Held, Awaits
<1>3. ASSUME NEW f \in Stores, NEW c \in Sets, NEW t \in Space
      PROVE  Starts(f, WriteFrame(Home[a], FALSE) \o Encode(c, a, t), w)
  BY <1>2, RunsStart
<1>4. Starts("set_proxy", StoreSteps(a) \o Locked(Ask("cog-set-proxy!", a, "drop")), w)
  <2> DEFINE x == [do |-> "find", space |-> Home[a], force |-> FALSE]
             y == [do |-> "encode", cmd |-> "cog-set-values!", arg |-> a, space |-> Home[a]]
  <2>1. Runs("set_proxy", StoreSteps(a), x, y, w)
    BY <1>1, <1>2 DEF StoreSteps, Stores, Sets
  <2>2. Runs("set_proxy", Locked(Ask("cog-set-proxy!", a, "drop")),
             [do |-> "lock"], [do |-> "unlock"], w)
    <3>1. /\ "cog-set-proxy!" \in Cmd \ Proxies /\ "drop" \in Use
          /\ ArgOK("cog-set-proxy!", a) /\ UseOK("cog-set-proxy!", "drop")
      BY DEF Cmd, Proxies, Use, ArgOK, UseOK, Sets, Stamped, Silent, Lists
    <3> QED
      BY <1>1, <3>1, LockedAsk
  <2>3. Follows("set_proxy", y, [do |-> "lock"])
    BY DEF Follows, Held, Awaits
  <2>4. ~Held(x) /\ x.do # "recv" /\ MayEnd([do |-> "unlock"])
    BY DEF Held, MayEnd, Awaits
  <2> HIDE DEF x, y
  <2> QED
    BY <2>1, <2>2, <2>3, <2>4, Join, RunsStart
<1> QED
  BY <1>1, <1>3, <1>4 DEF StoreSteps, Stores, Sets

\* The operations that ask one question under the lock.
LEMMA LockedAskStarts ==
  ASSUME NEW w, NEW f \in Ops \ {"loadAtomSpace"}, NEW c \in Cmd \ Proxies, NEW b \in Arg,
         NEW then \in Use, ArgOK(c, b), UseOK(c, then), then = "keep" => f = "runQuery"
  PROVE  Starts(f, Locked(Ask(c, b, then)), w)
BY LockedAsk, LockedStart

LEMMA AsksStart ==
  ASSUME NEW w, NEW a \in Atom
  PROVE  /\ Starts("loadValue", Locked(Ask("cog-value", a, "set")), w)
         /\ Starts("runQuery", Locked(Ask("cog-execute-cache!", a, "keep")), w)
         /\ \A c \in {"cog-extract!", "cog-extract-recursive!"} :
              Starts("removeAtom", Locked(Ask(c, a, "drop")), w)
         /\ \A c \in {"cog-incoming-set", "cog-incoming-by-type"} :
              Starts("fetchIncoming", Locked(List(c, a)), w)
<1>1. a \in Arg
  BY DEF Arg
<1>2. /\ {"loadValue", "runQuery", "removeAtom", "fetchIncoming"}
           \subseteq Ops \ {"loadAtomSpace"}
      /\ {"drop", "keep", "set", "list"} \subseteq Use
      /\ {"cog-value", "cog-execute-cache!", "cog-extract!", "cog-extract-recursive!",
          "cog-incoming-set", "cog-incoming-by-type"} \subseteq Cmd \ Proxies
  BY DEF Ops, Unlocked, Stores, Use, Cmd, Silent, Proxies, Lists, Stamped
<1>3. /\ UseOK("cog-value", "set") /\ UseOK("cog-execute-cache!", "keep")
      /\ UseOK("cog-extract!", "drop") /\ UseOK("cog-extract-recursive!", "drop")
      /\ UseOK("cog-incoming-set", "list") /\ UseOK("cog-incoming-by-type", "list")
  BY DEF UseOK, Silent, Proxies, Lists
<1>4. /\ ArgOK("cog-value", a) /\ ArgOK("cog-execute-cache!", a)
      /\ ArgOK("cog-extract!", a) /\ ArgOK("cog-extract-recursive!", a)
      /\ ArgOK("cog-incoming-set", a) /\ ArgOK("cog-incoming-by-type", a)
  BY DEF ArgOK, Sets, Stamped
<1>5. /\ Starts("loadValue", Locked(Ask("cog-value", a, "set")), w)
      /\ Starts("runQuery", Locked(Ask("cog-execute-cache!", a, "keep")), w)
  BY <1>1, <1>2, <1>3, <1>4, LockedAskStarts
<1>6. \A c \in {"cog-extract!", "cog-extract-recursive!"} :
         Starts("removeAtom", Locked(Ask(c, a, "drop")), w)
  BY <1>1, <1>2, <1>3, <1>4, LockedAskStarts
<1>7. \A c \in {"cog-incoming-set", "cog-incoming-by-type"} :
            Starts("fetchIncoming", Locked(Ask(c, a, "list")), w)
  BY <1>1, <1>2, <1>3, <1>4, LockedAskStarts
<1> QED
  BY <1>5, <1>6, <1>7 DEF List

LEMMA TypeStarts ==
  ASSUME NEW w
  PROVE  /\ \A type \in {"Node", "Link"} :
              Starts("loadType", Locked(List("cog-get-atoms", type)), w)
         /\ Starts("loadFrameDAG", Locked(Ask("cog-atomspace", None, "frames")), w)
         /\ Starts("barrier", BarrierSteps, w)
<1>1. /\ None \in Arg /\ "Node" \in Arg /\ "Link" \in Arg
      /\ {"loadType", "loadFrameDAG"} \subseteq Ops \ {"loadAtomSpace"}
      /\ {"list", "frames"} \subseteq Use
      /\ {"cog-get-atoms", "cog-atomspace"} \subseteq Cmd \ Proxies
  BY DEF Arg, Ops, Unlocked, Stores, Use, Cmd, Proxies, Lists
<1>2. UseOK("cog-get-atoms", "list") /\ UseOK("cog-atomspace", "frames")
  BY DEF UseOK, Silent, Proxies, Lists
<1>3. /\ ArgOK("cog-get-atoms", "Node") /\ ArgOK("cog-get-atoms", "Link")
      /\ ArgOK("cog-atomspace", None) /\ ArgOK("cog-barrier", None)
  BY DEF ArgOK, Sets, Stamped
<1>4. Starts("barrier", BarrierSteps, w)
  <2>1. "cog-barrier" \in Silent
    BY DEF Silent
  <2>2. Runs("barrier", BarrierSteps, [do |-> "lock"], [do |-> "unlock"], w)
    BY <1>1, <1>3, <2>1, LockedSend DEF BarrierSteps, Send
  <2> QED
    BY <2>2, LockedStart
<1>5. Starts("loadFrameDAG", Locked(Ask("cog-atomspace", None, "frames")), w)
  BY <1>1, <1>2, <1>3, LockedAskStarts
<1>6. \A type \in {"Node", "Link"} :
         Starts("loadType", Locked(Ask("cog-get-atoms", type, "list")), w)
  BY <1>1, <1>2, <1>3, LockedAskStarts
<1> QED
  BY <1>4, <1>5, <1>6 DEF List

\* A question whose reply is not the last thing done under the lock.
LEMMA AskHeld ==
  ASSUME NEW f, NEW w, NEW c \in Cmd \ Proxies, NEW a \in Arg, NEW then \in Use,
         ArgOK(c, a), UseOK(c, then), then = "keep" => f = "runQuery",
         f = "loadAtomSpace" =>
           \/ c = "cog-get-atoms" /\ then = "list"
           \/ c = "cog-keys->alist" /\ then = "keys"
  PROVE  \E x, y : /\ Runs(f, Ask(c, a, then), x, y, w)
                   /\ Held(x) /\ x.do = "send" /\ Held(y) /\ y.do = "recv"
<1> DEFINE s == [do |-> "send", cmd |-> c, arg |-> a, frame |-> None]
           r == [do |-> "recv", cmd |-> c, arg |-> a, then |-> then]
<1>1. Runs(f, Ask(c, a, then), s, r, w)
  BY AskSteps
<1>2. Held(s) /\ s.do = "send" /\ Held(r) /\ r.do = "recv"
  BY DEF Held
<1> HIDE DEF s, r
<1> QED
  BY <1>1, <1>2

\* Two such questions.
LEMMA TwoAsks ==
  ASSUME NEW f, NEW w, NEW p, NEW q, NEW x, NEW y, NEW v, NEW z,
         Runs(f, p, x, y, w), Held(x), x.do = "send", Held(y), y.do = "recv",
         Runs(f, q, v, z, w), Held(v), v.do = "send", Held(z), z.do = "recv"
  PROVE  Starts(f, Locked(p \o q), w)
<1>1. Follows(f, y, v)
  BY DEF Follows, Awaits
<1>2. Runs(f, p \o q, x, z, w)
  BY <1>1, Join
<1>3. x.do # "recv" /\ z.do # "unlock" /\ ~Awaits(z)
  BY DEF Awaits
<1> QED
  BY <1>2, <1>3, LockedSteps, LockedStart

LEMMA GetAtomStarts ==
  ASSUME NEW w, NEW a \in Atom
  PROVE  Starts("getAtom", Locked(Ask("cog-node", a, "probe") \o FetchKeys(a)), w)
<1>1. /\ a \in Arg /\ "cog-node" \in Cmd \ Proxies /\ "cog-keys->alist" \in Cmd \ Proxies
      /\ "probe" \in Use /\ "keys" \in Use
  BY DEF Arg, Cmd, Proxies, Stamped, Use
<1>2. ArgOK("cog-node", a) /\ ArgOK("cog-keys->alist", a)
  BY DEF ArgOK, Sets, Stamped
<1>3. UseOK("cog-node", "probe") /\ UseOK("cog-keys->alist", "keys")
  BY DEF UseOK, Silent, Proxies
<1>4. PICK x, y : /\ Runs("getAtom", Ask("cog-node", a, "probe"), x, y, w)
                  /\ Held(x) /\ x.do = "send" /\ Held(y) /\ y.do = "recv"
  BY <1>1, <1>2, <1>3, AskHeld
<1>5. PICK v, z : /\ Runs("getAtom", FetchKeys(a), v, z, w)
                  /\ Held(v) /\ v.do = "send" /\ Held(z) /\ z.do = "recv"
  BY <1>1, <1>2, <1>3, AskHeld DEF FetchKeys
<1> QED
  BY <1>4, <1>5, TwoAsks

LEMMA LoadAtomSpaceStarts ==
  ASSUME NEW w
  PROVE  Starts("loadAtomSpace",
                Locked(List("cog-get-atoms", "Node") \o List("cog-get-atoms", "Link")), w)
<1>1. /\ "Node" \in Arg /\ "Link" \in Arg /\ "cog-get-atoms" \in Cmd \ Proxies
      /\ "list" \in Use
  BY DEF Arg, Cmd, Proxies, Lists, Use
<1>2. ASSUME NEW type \in {"Node", "Link"}
      PROVE  \E x, y : /\ Runs("loadAtomSpace", List("cog-get-atoms", type), x, y, w)
                       /\ Held(x) /\ x.do = "send" /\ Held(y) /\ y.do = "recv"
  <2>1. ArgOK("cog-get-atoms", type) /\ UseOK("cog-get-atoms", "list")
    BY DEF ArgOK, UseOK, Sets, Stamped, Silent, Proxies, Lists
  <2> QED
    BY <1>1, <2>1, AskHeld DEF List
<1>3. PICK x, y : /\ Runs("loadAtomSpace", List("cog-get-atoms", "Node"), x, y, w)
                  /\ Held(x) /\ x.do = "send" /\ Held(y) /\ y.do = "recv"
  BY <1>2
<1>4. PICK v, z : /\ Runs("loadAtomSpace", List("cog-get-atoms", "Link"), v, z, w)
                  /\ Held(v) /\ v.do = "send" /\ Held(z) /\ z.do = "recv"
  BY <1>2
<1> QED
  BY <1>3, <1>4, TwoAsks

LEMMA KillDataStarts ==
  ASSUME NEW w
  PROVE  Starts("kill_data",
                Locked(Ask("cog-atomspace-clear", None, "drop")
                         \o Step("single") \o Step("forget")), w)
<1> DEFINE p == Ask("cog-atomspace-clear", None, "drop")
<1>1. /\ None \in Arg /\ "cog-atomspace-clear" \in Cmd \ Proxies /\ "drop" \in Use
      /\ ArgOK("cog-atomspace-clear", None) /\ UseOK("cog-atomspace-clear", "drop")
  BY DEF Arg, Cmd, Proxies, Use, ArgOK, UseOK, Sets, Stamped, Silent, Lists
<1>2. PICK x, y : /\ Runs("kill_data", p, x, y, w)
                  /\ Held(x) /\ x.do = "send" /\ Held(y) /\ y.do = "recv"
  BY <1>1, AskHeld
<1>3. /\ Runs("kill_data", Step("single"), [do |-> "single"], [do |-> "single"], w)
      /\ Runs("kill_data", Step("forget"), [do |-> "forget"], [do |-> "forget"], w)
  BY PlainStep
<1>4. /\ Follows("kill_data", y, [do |-> "single"])
      /\ Follows("kill_data", [do |-> "single"], [do |-> "forget"])
  BY <1>2 DEF Follows, Held, Awaits
<1>5. Runs("kill_data", p \o Step("single"), x, [do |-> "single"], w)
  BY <1>2, <1>3, <1>4, Join
<1>6. Runs("kill_data", p \o Step("single") \o Step("forget"), x, [do |-> "forget"], w)
  BY <1>3, <1>4, <1>5, Join
<1>7. /\ Held([do |-> "forget"]) /\ [do |-> "forget"].do # "unlock"
      /\ ~Awaits([do |-> "forget"]) /\ x.do # "recv"
  BY <1>2 DEF Held, Awaits
<1> HIDE DEF p
<1>8. Starts("kill_data", Locked(p \o Step("single") \o Step("forget")), w)
  BY <1>2, <1>6, <1>7, LockedSteps, LockedStart
<1> QED
  BY <1>8 DEF p

LEMMA FramesStart ==
  ASSUME NEW w, NEW s \in Space, NEW S \in SUBSET Atom
  PROVE  /\ Starts("storeFrameDAG", WriteFrame(s, TRUE) \o Step("several"), w)
         /\ Starts("storeAtomSpace", <<[do |-> "each", rest |-> S]>>, w)
<1> DEFINE x == [do |-> "find", space |-> s, force |-> TRUE]
           e == [do |-> "each", rest |-> S]
<1>1. Runs("storeFrameDAG", WriteFrame(s, TRUE), x, x, w)
  <2>1. x \in StepRec /\ x.do = "find"
    BY DEF StepRec
  <2>2. StepOK("storeFrameDAG", x, w)
    BY <2>1 DEF StepOK
  <2> QED
    BY <2>2, OneStep DEF WriteFrame
<1>2. Runs("storeFrameDAG", Step("several"), [do |-> "several"], [do |-> "several"], w)
  BY PlainStep
<1>3. /\ Follows("storeFrameDAG", x, [do |-> "several"]) /\ ~Held(x) /\ x.do # "recv"
      /\ MayEnd([do |-> "several"])
  BY DEF Follows, Held, Awaits, MayEnd
<1>4. Starts("storeFrameDAG", WriteFrame(s, TRUE) \o Step("several"), w)
  <2> HIDE DEF x
  <2> QED
    BY <1>1, <1>2, <1>3, Join, RunsStart
<1>5. e \in StepRec /\ e.do = "each"
  BY DEF StepRec
<1>6. StepOK("storeAtomSpace", e, w)
  BY <1>5 DEF StepOK
<1>7. ~Held(e) /\ e.do # "recv" /\ MayEnd(e)
  BY <1>5 DEF Held, MayEnd, Awaits
<1> HIDE DEF e
<1>8. Starts("storeAtomSpace", <<e>>, w)
  BY <1>6, <1>7, OneStep, RunsStart
<1> QED
  BY <1>4, <1>8 DEF e

LEMMA ConnectionStarts ==
  ASSUME NEW w
  PROVE  /\ Starts("proxy_open", ProxyOpenSteps, w)
         /\ Starts("proxy_close", ProxyCloseSteps, w)
         /\ Starts("close", ProxyCloseSteps \o Step("shut"), w)
         /\ Starts("close", <<>> \o Step("shut"), w)
         /\ Starts("open", Locked(Step("connect")), w)
<1>1. /\ None \in Arg /\ "drop" \in Use
      /\ \A c \in Proxies : c \in Cmd /\ ArgOK(c, None) /\ UseOK(c, "drop")
      /\ "cog-proxy-open" \in Proxies /\ "cog-proxy-close" \in Proxies
      /\ "cog-barrier" \in Silent /\ ArgOK("cog-barrier", None)
      /\ \A f \in {"open", "close", "proxy_open", "proxy_close"} :
           f \in Unlocked /\ f # "loadAtomSpace"
  BY DEF Arg, Cmd, Proxies, Use, ArgOK, UseOK, Sets, Stamped, Silent, Lists, Unlocked
<1>2. ASSUME NEW f \in {"close", "proxy_open", "proxy_close"}, NEW c \in Proxies
      PROVE  \E x, y : /\ Runs(f, Ask(c, None, "drop"), x, y, w)
                       /\ ~Held(x) /\ x.do = "send" /\ ~Held(y) /\ y.do = "recv"
  <2> DEFINE x == [do |-> "send", cmd |-> c, arg |-> None, frame |-> None]
             y == [do |-> "recv", cmd |-> c, arg |-> None, then |-> "drop"]
  <2>1. Runs(f, Ask(c, None, "drop"), x, y, w)
    BY <1>1, AskSteps
  <2>2. ~Held(x) /\ x.do = "send" /\ ~Held(y) /\ y.do = "recv"
    BY DEF Held
  <2> HIDE DEF x, y
  <2> QED
    BY <2>1, <2>2
<1>3. ASSUME NEW f \in {"close", "proxy_close"}
      PROVE  \E y : /\ Runs(f, ProxyCloseSteps, [do |-> "lock"], y, w)
                    /\ ~Held(y) /\ y.do = "recv"
  <2>1. Runs(f, BarrierSteps, [do |-> "lock"], [do |-> "unlock"], w)
    BY <1>1, LockedSend DEF BarrierSteps, Send
  <2>2. PICK x, y : /\ Runs(f, Ask("cog-proxy-close", None, "drop"), x, y, w)
                    /\ ~Held(x) /\ x.do = "send" /\ ~Held(y) /\ y.do = "recv"
    BY <1>1, <1>2
  <2>3. Follows(f, [do |-> "unlock"], x)
    BY <1>1, <2>2 DEF Follows, Awaits
  <2> QED
    BY <2>1, <2>2, <2>3, Join DEF ProxyCloseSteps
<1>4. /\ Runs("close", Step("shut"), [do |-> "shut"], [do |-> "shut"], w)
      /\ Runs("open", Step("connect"), [do |-> "connect"], [do |-> "connect"], w)
  BY <1>1, PlainStep
<1>5. /\ MayEnd([do |-> "shut"]) /\ ~Held([do |-> "shut"]) /\ [do |-> "shut"].do # "recv"
      /\ ~Held([do |-> "lock"]) /\ [do |-> "lock"].do # "recv"
      /\ Held([do |-> "connect"]) /\ [do |-> "connect"].do # "recv"
      /\ [do |-> "connect"].do # "unlock" /\ ~Awaits([do |-> "connect"])
  BY DEF MayEnd, Held, Awaits
<1>6. Starts("proxy_open", ProxyOpenSteps, w)
  <2>1. PICK x, y : /\ Runs("proxy_open", ProxyOpenSteps, x, y, w)
                    /\ ~Held(x) /\ x.do = "send" /\ ~Held(y) /\ y.do = "recv"
    BY <1>1, <1>2 DEF ProxyOpenSteps
  <2>2. MayEnd(y)
    BY <2>1 DEF MayEnd, Awaits
  <2> QED
    BY <2>1, <2>2, RunsStart
<1>7. Starts("proxy_close", ProxyCloseSteps, w)
  <2>1. PICK y : /\ Runs("proxy_close", ProxyCloseSteps, [do |-> "lock"], y, w)
                 /\ ~Held(y) /\ y.do = "recv"
    BY <1>3
  <2>2. MayEnd(y)
    BY <2>1 DEF MayEnd, Awaits
  <2> QED
    BY <1>5, <2>1, <2>2, RunsStart
<1>8. Starts("close", ProxyCloseSteps \o Step("shut"), w)
  <2>1. PICK y : /\ Runs("close", ProxyCloseSteps, [do |-> "lock"], y, w)
                 /\ ~Held(y) /\ y.do = "recv"
    BY <1>3
  <2>2. Follows("close", y, [do |-> "shut"])
    BY <2>1 DEF Follows, Held, Awaits
  <2> QED
    BY <1>4, <1>5, <2>1, <2>2, Join, RunsStart
<1>9. Starts("close", <<>> \o Step("shut"), w)
  <2>1. <<>> \o Step("shut") = Step("shut")
    BY <1>4, ConcatEmptySeq DEF Runs
  <2> QED
    BY <1>4, <1>5, <2>1, RunsStart
<1>10. Starts("open", Locked(Step("connect")), w)
  BY <1>4, <1>5, LockedSteps, LockedStart
<1> QED
  BY <1>6, <1>7, <1>8, <1>9, <1>10

\* Every call starts with the steps of an operation.
LEMMA OperationStarts ==
  ASSUME Types, NEW u \in User, Operation(u)
  PROVE  /\ \E f \in Ops \ {"none"} : \E q : Call(u, f, q) /\ Starts(f, q, val)
         /\ multi' \in BOOLEAN
<1>1. multi \in BOOLEAN /\ have \in SUBSET Atom
  BY DEF Types
<1>2. Ops \ {"none"} =
        {"open", "close", "loadFrameDAG", "proxy_open", "proxy_close", "storeAtom",
         "storeValue", "updateValue", "set_proxy", "storeAtomSpace", "storeFrameDAG",
         "loadValue", "runQuery", "removeAtom", "getAtom", "fetchIncoming",
         "loadType", "loadAtomSpace", "kill_data", "barrier"}
  BY DEF Ops, Unlocked, Stores
<1>3. ASSUME NEW a \in Atom, NEW s \in Space,
             StoreAtom(u, a) \/ StoreValue(u, a, s) \/ UpdateValue(u, a, s) \/ SetProxy(u, a)
      PROVE  /\ \E f \in Ops \ {"none"} : \E q : Call(u, f, q) /\ Starts(f, q, val)
             /\ multi' \in BOOLEAN
  BY <1>1, <1>2, <1>3, StoresStart DEF StoreAtom, StoreValue, UpdateValue, SetProxy, SetMulti
<1>4. ASSUME NEW a \in Atom, NEW r \in BOOLEAN,
             NEW c \in {"cog-incoming-set", "cog-incoming-by-type"},
             \/ LoadValue(u, a) \/ RunQuery(u, a) \/ RemoveAtom(u, a, r)
             \/ GetAtom(u, a) \/ FetchIncoming(u, a, c)
      PROVE  /\ \E f \in Ops \ {"none"} : \E q : Call(u, f, q) /\ Starts(f, q, val)
             /\ multi' \in BOOLEAN
  <2>1. CASE LoadValue(u, a) \/ RunQuery(u, a)
    BY <1>1, <1>2, <2>1, AsksStart DEF LoadValue, RunQuery, Plain
  <2>2. CASE RemoveAtom(u, a, r)
    BY <1>1, <1>2, <2>2, AsksStart DEF RemoveAtom, Plain
  <2>3. CASE GetAtom(u, a)
    BY <1>1, <1>2, <2>3, GetAtomStarts DEF GetAtom, Plain
  <2>4. CASE FetchIncoming(u, a, c)
    BY <1>1, <1>2, <2>4, AsksStart DEF FetchIncoming, Plain
  <2> QED
    BY <1>4, <2>1, <2>2, <2>3, <2>4
<1>5. ASSUME NEW type \in {"Node", "Link"}, LoadType(u, type)
      PROVE  /\ \E f \in Ops \ {"none"} : \E q : Call(u, f, q) /\ Starts(f, q, val)
             /\ multi' \in BOOLEAN
  BY <1>1, <1>2, <1>5, TypeStarts DEF LoadType, Plain
<1>6. ASSUME LoadFrameDAG(u) \/ Barrier(u)
      PROVE  /\ \E f \in Ops \ {"none"} : \E q : Call(u, f, q) /\ Starts(f, q, val)
             /\ multi' \in BOOLEAN
  BY <1>1, <1>2, <1>6, TypeStarts DEF LoadFrameDAG, Barrier, Plain
<1>7. ASSUME LoadAtomSpace(u) \/ KillData(u) \/ StoreAtomSpace(u)
      PROVE  /\ \E f \in Ops \ {"none"} : \E q : Call(u, f, q) /\ Starts(f, q, val)
             /\ multi' \in BOOLEAN
  <2>1. Main \in Space
    BY SpaceAssumption
  <2> QED
    BY <1>1, <1>2, <1>7, <2>1, LoadAtomSpaceStarts, KillDataStarts, FramesStart
       DEF LoadAtomSpace, KillData, StoreAtomSpace, Plain
<1>8. ASSUME NEW s \in Space, StoreFrameDAG(u, s)
      PROVE  /\ \E f \in Ops \ {"none"} : \E q : Call(u, f, q) /\ Starts(f, q, val)
             /\ multi' \in BOOLEAN
  BY <1>1, <1>2, <1>8, FramesStart DEF StoreFrameDAG, Plain
<1>9. ASSUME ProxyOpen(u) \/ ProxyClose(u) \/ Close(u) \/ Open(u)
      PROVE  /\ \E f \in Ops \ {"none"} : \E q : Call(u, f, q) /\ Starts(f, q, val)
             /\ multi' \in BOOLEAN
  BY <1>1, <1>2, <1>9, ConnectionStarts DEF ProxyOpen, ProxyClose, Close, Open, Plain
<1>10. Main \in Space /\ TRUE \in BOOLEAN
       /\ "cog-incoming-set" \in {"cog-incoming-set", "cog-incoming-by-type"}
  BY SpaceAssumption
<1> QED
  BY <1>3, <1>4, <1>5, <1>6, <1>7, <1>8, <1>9, <1>10 DEF Operation

-----------------------------------------------------------------------------
(***************************************************************************)
(* How a step changes what is left of an operation.                        *)
(***************************************************************************)
LEMMA InitInv == Init => Inv
<1> SUFFICES ASSUME Init PROVE Inv
  OBVIOUS
<1>1. known \subseteq Atom /\ Node \subseteq Atom /\ None \notin User
  BY ContentAssumption, SpaceAssumption DEF Init, Atom
<1>2. Types
  <2>1. \A S : <<>> \in Seq(S)
    BY EmptySeq
  <2>2. op \in [User -> Ops] /\ todo \in [User -> Seq(StepRec)]
    BY <2>1 DEF Init, Ops
  <2>3. 0 \in 0..MaxLost
    BY BoundAssumption
  <2>4. ver = 0 /\ val \in [Atom -> 0..ver] /\ lval \in [Atom -> 0..ver]
    BY DEF Init
  <2>5. /\ sockfd \in {-1, 0, 1} /\ calls \in Nat /\ lost \in 0..MaxLost
        /\ mtx \in User \cup {None} /\ ver \in Nat
    BY <2>3 DEF Init
  <2>6. /\ multi \in BOOLEAN /\ eof \in BOOLEAN /\ raced \in BOOLEAN /\ few \in BOOLEAN
        /\ dead \in BOOLEAN
    BY DEF Init
  <2>7. /\ frames \subseteq Space /\ defined \subseteq Space
        /\ valued \subseteq known /\ known \subseteq Atom /\ have \subseteq Atom
    BY <1>1 DEF Init
  <2>8. wire \in Seq(Msg) /\ back \in Seq(Reply)
    BY <2>1 DEF Init
  <2> QED
    BY <2>2, <2>4, <2>5, <2>6, <2>7, <2>8 DEF Types
<1>3. Programs /\ Mutex /\ Exclusive
  BY <1>1 DEF Init, Programs, Program, Mutex, Exclusive
<1>4. Exchange
  <2>1. wire = <<>> /\ back = <<>> /\ Len(wire) = 0 /\ \A u \in User : todo[u] = <<>>
    BY DEF Init
  <2> QED
    BY <2>1 DEF Exchange
<1>5. Fresh
  BY DEF Init, Fresh
<1> QED
  BY <1>2, <1>3, <1>4, <1>5 DEF Inv

\* A thread in an operation, its next step and what comes behind it.
LEMMA AtStep ==
  ASSUME Types, Programs, NEW u \in User, todo[u] # <<>>
  PROVE  /\ Head(todo[u]) = todo[u][1] /\ op[u] # "none"
         /\ StepOK(op[u], todo[u][1], val)
         /\ \/ Tail(todo[u]) = <<>> /\ MayEnd(todo[u][1])
            \/ /\ Tail(todo[u]) # <<>>
               /\ Follows(op[u], todo[u][1], Tail(todo[u])[1])
               /\ \E y : /\ Runs(op[u], Tail(todo[u]), Tail(todo[u])[1], y, val)
                         /\ MayEnd(y)
<1> DEFINE q == todo[u]
<1>1. Runs(op[u], q, q[1], q[Len(q)], val) /\ MayEnd(q[Len(q)]) /\ op[u] # "none"
  BY DEF Programs, Program
<1> HIDE DEF q
<1>2. /\ Head(q) = q[1] /\ StepOK(op[u], q[1], val)
      /\ \/ Tail(q) = <<>> /\ q[1] = q[Len(q)]
         \/ /\ Tail(q) # <<>> /\ Follows(op[u], q[1], Tail(q)[1])
            /\ Runs(op[u], Tail(q), Tail(q)[1], q[Len(q)], val)
  BY <1>1, AfterFirst
<1> QED
  BY <1>1, <1>2 DEF q

\* The step that comes next, if the thread just goes on.
LEMMA NextStep ==
  ASSUME Types, Programs, NEW u \in User, todo[u] # <<>>
  PROVE  LET x == todo[u][1]
             t == Tail(todo[u])
         IN  /\ Program(op[u], t, val)
             /\ (t # <<>> /\ Held(t[1])) <=> (x.do = "lock" \/ (Held(x) /\ x.do # "unlock"))
             /\ (t # <<>> /\ t[1].do = "recv") <=> Awaits(x)
             /\ Awaits(x) => t[1].cmd = x.cmd /\ t[1].arg = x.arg
<1> DEFINE x == todo[u][1]
           t == Tail(todo[u])
<1>1. \/ t = <<>> /\ MayEnd(x)
      \/ /\ t # <<>> /\ Follows(op[u], x, t[1])
         /\ \E y : Runs(op[u], t, t[1], y, val) /\ MayEnd(y)
  BY AtStep
<1> HIDE DEF x, t
<1>2. CASE t = <<>> /\ MayEnd(x)
  BY <1>2 DEF Program, MayEnd, x, t
<1>3. CASE /\ t # <<>> /\ Follows(op[u], x, t[1])
           /\ \E y : Runs(op[u], t, t[1], y, val) /\ MayEnd(y)
  <2>1. Program(op[u], t, val)
    BY <1>3 DEF Program, Runs
  <2> QED
    BY <1>3, <2>1 DEF Follows, x, t
<1> QED
  BY <1>1, <1>2, <1>3

\* The next step is replaced by other steps, the last of which is like it.
LEMMA Replaced ==
  ASSUME Types, Programs, NEW u \in User, todo[u] # <<>>, ~Awaits(todo[u][1]),
         NEW p, NEW a, NEW b, Runs(op[u], p, a, b, val), ~Awaits(b),
         (b.do = "lock" \/ (Held(b) /\ b.do # "unlock"))
           <=> (todo[u][1].do = "lock" \/ (Held(todo[u][1]) /\ todo[u][1].do # "unlock")),
         op[u] = "loadAtomSpace" => b.do # "unlock"
  PROVE  LET q == p \o Tail(todo[u])
         IN  Program(op[u], q, val) /\ q # <<>> /\ q[1] = a
<1> DEFINE x == todo[u][1]
           t == Tail(todo[u])
           q == p \o t
<1>1. \/ t = <<>> /\ MayEnd(x)
      \/ /\ t # <<>> /\ Follows(op[u], x, t[1])
         /\ \E y : Runs(op[u], t, t[1], y, val) /\ MayEnd(y)
  BY AtStep
<1>2. ~Awaits(x) /\ ((b.do = "lock" \/ (Held(b) /\ b.do # "unlock"))
                       <=> (x.do = "lock" \/ (Held(x) /\ x.do # "unlock")))
  OBVIOUS
<1> HIDE DEF x, t
<1>3. CASE t = <<>> /\ MayEnd(x)
  <2>1. q = p
    BY <1>3, ConcatEmptySeq DEF Runs
  <2>2. MayEnd(b)
    BY <1>2, <1>3 DEF MayEnd
  <2> QED
    BY <2>1, <2>2, AfterFirst DEF Program, Runs, t
<1>4. CASE /\ t # <<>> /\ Follows(op[u], x, t[1])
           /\ \E y : Runs(op[u], t, t[1], y, val) /\ MayEnd(y)
  <2>1. PICK y : Runs(op[u], t, t[1], y, val) /\ MayEnd(y)
    BY <1>4
  <2>2. Follows(op[u], b, t[1])
    BY <1>2, <1>4 DEF Follows
  <2>3. Runs(op[u], q, a, y, val)
    BY <2>1, <2>2, Join
  <2> HIDE DEF q
  <2>4. Program(op[u], q, val) /\ q # <<>> /\ q[1] = a
    BY <2>1, <2>3, AfterFirst DEF Program, Runs
  <2> QED
    BY <2>4 DEF q, t
<1> QED
  BY <1>1, <1>3, <1>4

\* A thread goes on with the steps q.
LEMMA AdvanceStep ==
  ASSUME Types, Programs, Exclusive, Mutex, NEW u \in User, todo[u] # <<>>, NEW q,
         Advance(u, q), Program(op[u], q, val), val' = val,
         mtx' = u <=> q # <<>> /\ Held(q[1]),
         \A v \in User \ {u} : mtx' = v <=> mtx = v
  PROVE  /\ Programs' /\ Exclusive' /\ Mutex'
         /\ op' \in [User -> Ops] /\ todo' \in [User -> Seq(StepRec)]
         /\ todo'[u] = q /\ \A v \in User \ {u} : todo'[v] = todo[v]
<1>1. /\ op \in [User -> Ops] /\ todo \in [User -> Seq(StepRec)] /\ op[u] # "none"
      /\ "none" \in Ops
  BY DEF Types, Programs, Ops
<1>2. q \in Seq(StepRec)
  BY EmptySeq DEF Program, Runs
<1>3. /\ op' \in [User -> Ops] /\ todo' \in [User -> Seq(StepRec)]
      /\ todo'[u] = q /\ \A v \in User \ {u} : todo'[v] = todo[v] /\ op'[v] = op[v]
      /\ op'[u] = IF q = <<>> THEN "none" ELSE op[u]
  BY <1>1, <1>2 DEF Advance
<1>4. Programs'
  <2>1. ASSUME NEW v \in User
        PROVE  (op'[v] = "none" <=> todo'[v] = <<>>) /\ Program(op'[v], todo'[v], val)
    BY <1>1, <1>3 DEF Programs, Program
  <2> QED
    BY <2>1 DEF Programs
<1>5. Exclusive'
  BY <1>3 DEF Exclusive
<1>6. Mutex'
  BY <1>3 DEF Mutex
<1> QED
  BY <1>3, <1>4, <1>5, <1>6

\* The steps that use the socket.
Uses(u) == todo[u] # <<>> /\ todo[u][1].do \in {"send", "recv", "shut", "connect"}

\* One thread at a time uses the socket; or holds the mutex while another uses it.
LEMMA OnlyOne ==
  ASSUME Types, Programs, Mutex, Exclusive, Unlocked \subseteq Alone,
         NEW u \in User, NEW v \in User, Uses(u),
         Uses(v) \/ (todo[v] # <<>> /\ Held(todo[v][1]))
  PROVE  u = v
<1>1. todo[u] # <<>> /\ todo[v] # <<>> /\ op[u] # "none" /\ op[v] # "none"
  BY DEF Uses, Programs
<1>2. ASSUME NEW z \in User, Uses(z), ~Held(todo[z][1])
      PROVE  op[z] \in Alone \ {"none"}
  <2>1. StepOK(op[z], todo[z][1], val) /\ todo[z][1].do \in {"send", "recv", "shut", "connect"}
    BY <1>2, AtStep DEF Uses
  <2>2. op[z] \in Unlocked
    BY <1>2, <2>1 DEF StepOK, Held
  <2> QED
    BY <2>2 DEF Unlocked
<1>3. CASE Held(todo[u][1]) /\ Held(todo[v][1])
  BY <1>1, <1>3 DEF Mutex
<1>4. CASE ~Held(todo[u][1])
  BY <1>1, <1>2, <1>4 DEF Exclusive
<1>5. CASE ~Held(todo[v][1])
  BY <1>1, <1>2, <1>5 DEF Exclusive
<1> QED
  BY <1>3, <1>4, <1>5

\* Steps that leave the socket and the server alone.
LEMMA QuietStep ==
  ASSUME Exchange, NEW u \in User, todo[u] = <<>> \/ todo[u][1].do # "recv",
         todo'[u] = <<>> \/ todo'[u][1].do # "recv",
         \A v \in User \ {u} : todo'[v] = todo[v],
         UNCHANGED <<sockfd, wire, back, eof, known, defined, val>>
  PROVE  Exchange'
<1>1. ASSUME NEW v \in User, NEW m
      PROVE  Waits(v, m)' <=> Waits(v, m)
  BY DEF Waits
<1>2. ASSUME NEW r
      PROVE  ReplyOK(r)' <=> ReplyOK(r)
  BY DEF ReplyOK
<1>3. \A v \in User : todo'[v] # <<>> /\ todo'[v][1].do = "recv" => sockfd' > 0
  BY DEF Exchange
<1>4. /\ \A i \in 1..Len(wire') : ArgOK(wire'[i].cmd, wire'[i].arg)
      /\ eof' => wire' = <<>>
  BY DEF Exchange
<1>5. \A i \in 1..Len(wire') : wire'[i].cmd \notin Silent =>
        i = Len(wire') /\ back' = <<>> /\ \E v \in User : Waits(v, wire[i])'
  BY <1>1 DEF Exchange
<1>6. back' # <<>> =>
        /\ Len(back') = 1 /\ wire' = <<>> /\ ReplyOK(back[1])'
        /\ \E v \in User : Waits(v, back[1])'
  BY <1>1, <1>2 DEF Exchange
<1> QED
  BY <1>3, <1>4, <1>5, <1>6 DEF Exchange

\* The steps of a thread that do not use the socket.
LEMMA LocalStep ==
  ASSUME Inv, NEW u \in User, NEW q, todo[u] # <<>>, todo[u][1].do # "recv",
         Advance(u, q), Program(op[u], q, val), q = <<>> \/ q[1].do # "recv",
         UNCHANGED <<sockfd, sockVars, srvVars>>,
         mtx' \in User \cup {None}, mtx' = u <=> q # <<>> /\ Held(q[1]),
         \A v \in User \ {u} : mtx' = v <=> mtx = v,
         multi' \in BOOLEAN, frames' \subseteq Space, have' \subseteq Atom,
         lval' \in [Atom -> 0..ver], Fresh'
  PROVE  Inv'
<1>1. /\ Types /\ Programs /\ Mutex /\ Exclusive /\ Exchange
      /\ UNCHANGED <<wire, back, eof, lost, known, valued, val, ver, defined>>
      /\ UNCHANGED <<calls, few, raced, dead>>
  BY DEF Inv, sockVars, srvVars, Advance
<1>2. /\ Programs' /\ Exclusive' /\ Mutex'
      /\ op' \in [User -> Ops] /\ todo' \in [User -> Seq(StepRec)]
      /\ todo'[u] = q /\ \A v \in User \ {u} : todo'[v] = todo[v]
  BY <1>1, AdvanceStep
<1>3. Exchange'
  BY <1>1, <1>2, QuietStep
<1>4. Types'
  BY <1>1, <1>2 DEF Types
<1> QED
  BY <1>2, <1>3, <1>4 DEF Inv

\* A thread that goes on with q, and keeps the mutex or stays without it.
LEMMA StaysStep ==
  ASSUME Inv, NEW u \in User, NEW q, todo[u] # <<>>, todo[u][1].do # "recv",
         Advance(u, q), Program(op[u], q, val), q = <<>> \/ q[1].do # "recv",
         (q # <<>> /\ Held(q[1])) <=> Held(todo[u][1]),
         UNCHANGED <<sockfd, mtx, sockVars, srvVars>>,
         multi' \in BOOLEAN, frames' \subseteq Space, have' \subseteq Atom,
         lval' \in [Atom -> 0..ver], Fresh'
  PROVE  Inv'
<1>1. mtx' = mtx /\ mtx \in User \cup {None}
  BY DEF Inv, Types
<1>2. mtx = u <=> Held(todo[u][1])
  BY DEF Inv, Mutex
<1> QED
  BY <1>1, <1>2, LocalStep

\* A step that is simply done, and neither takes nor lets go of the mutex.
LEMMA DoneStep ==
  ASSUME Inv, NEW u \in User, todo[u] # <<>>,
         todo[u][1].do \notin {"recv", "send", "lock", "unlock"},
         StepDone(u), UNCHANGED <<sockfd, mtx, sockVars, srvVars>>,
         multi' \in BOOLEAN, frames' \subseteq Space, have' \subseteq Atom,
         lval' \in [Atom -> 0..ver], Fresh'
  PROVE  Inv'
<1> DEFINE x == todo[u][1]
           t == Tail(todo[u])
<1>1. /\ Program(op[u], t, val)
      /\ (t # <<>> /\ Held(t[1])) <=> (x.do = "lock" \/ (Held(x) /\ x.do # "unlock"))
      /\ (t # <<>> /\ t[1].do = "recv") <=> Awaits(x)
  BY NextStep DEF Inv
<1>2. Advance(u, t) /\ x.do \notin {"recv", "send", "lock", "unlock"} /\ ~Awaits(x)
  BY DEF StepDone, Awaits
<1>3. x = todo[u][1]
  OBVIOUS
<1> HIDE DEF x, t
<1>4. /\ t = <<>> \/ t[1].do # "recv"
      /\ (t # <<>> /\ Held(t[1])) <=> Held(todo[u][1])
  BY <1>1, <1>2, <1>3
<1> QED
  BY <1>1, <1>2, <1>4, StaysStep

\* What does not change.
LEMMA SameTypes ==
  ASSUME Inv
  PROVE  /\ multi \in BOOLEAN /\ frames \subseteq Space /\ have \subseteq Atom
         /\ lval \in [Atom -> 0..ver] /\ Fresh
BY DEF Inv, Types

LEMMA SameFresh ==
  ASSUME Fresh, UNCHANGED <<lval, val>>
  PROVE  Fresh'
BY DEF Fresh

LEMMA LockStep ==
  ASSUME Inv, NEW u \in User, LockMtx(u) \/ UnlockMtx(u)
  PROVE  Inv'
<1> DEFINE x == todo[u][1]
           t == Tail(todo[u])
<1>1. /\ todo[u] # <<>> /\ Head(todo[u]).do \in {"lock", "unlock"}
      /\ Advance(u, t) /\ mtx' \in {u, None}
      /\ UNCHANGED <<sockfd, sockVars, srvVars, locVars, cacheVars>>
  BY DEF LockMtx, UnlockMtx, At, StepDone
<1>2. /\ Head(todo[u]) = x
      /\ Program(op[u], t, val)
      /\ (t # <<>> /\ Held(t[1])) <=> (x.do = "lock" \/ (Held(x) /\ x.do # "unlock"))
      /\ (t # <<>> /\ t[1].do = "recv") <=> Awaits(x)
  BY <1>1, NextStep, AtStep DEF Inv
<1>3. mtx = u <=> Held(x)
  BY <1>1 DEF Inv, Mutex
<1>4. x = todo[u][1]
  OBVIOUS
<1> HIDE DEF x, t
<1>5. t = <<>> \/ t[1].do # "recv"
  BY <1>1, <1>2 DEF Awaits
<1>6. None \notin User
  BY SpaceAssumption
<1>7. mtx' \in User \cup {None} /\ (mtx' = u <=> t # <<>> /\ Held(t[1]))
  BY <1>1, <1>2, <1>6 DEF LockMtx, UnlockMtx, At, Held
<1>8. \A v \in User \ {u} : mtx' = v <=> mtx = v
  <2>1. CASE LockMtx(u)
    BY <1>6, <2>1 DEF LockMtx
  <2>2. CASE UnlockMtx(u)
    <3>1. x.do = "unlock" /\ mtx' = None
      BY <1>2, <2>2 DEF UnlockMtx, At
    <3>2. mtx = u
      BY <1>3, <3>1 DEF Held
    <3> QED
      BY <1>6, <3>1, <3>2
  <2> QED
    BY <2>1, <2>2
<1>9. /\ multi' \in BOOLEAN /\ frames' \subseteq Space /\ have' \subseteq Atom
      /\ lval' \in [Atom -> 0..ver] /\ Fresh'
  BY <1>1, SameTypes, SameFresh DEF locVars, cacheVars, srvVars
<1>10. todo[u][1].do # "recv"
  BY <1>1, <1>2, <1>4
<1> QED
  BY <1>1, <1>2, <1>5, <1>7, <1>8, <1>9, <1>10, LocalStep

LEMMA SetValueStep ==
  ASSUME Inv, NEW u \in User, SetValue(u)
  PROVE  Inv'
<1> DEFINE x == todo[u][1]
<1>1. /\ todo[u] # <<>> /\ Head(todo[u]) = x /\ x.do = "set"
      /\ StepOK(op[u], x, val)
  BY AtStep DEF Inv, SetValue, At
<1>2. /\ lval' = [lval EXCEPT ![x.arg] = x.stamp] /\ StepDone(u)
      /\ UNCHANGED <<sockfd, mtx, sockVars, srvVars, have, cacheVars>>
  BY <1>1 DEF SetValue
<1>3. /\ x.arg \in Atom /\ x.stamp \in Nat /\ x.stamp <= val[x.arg]
  BY <1>1 DEF StepOK, StepRec
<1>4. todo[u][1].do \notin {"recv", "send", "lock", "unlock"}
  BY <1>1
<1> HIDE DEF x
<1>5. val[x.arg] \in 0..ver /\ ver \in Nat /\ lval \in [Atom -> 0..ver]
  BY <1>3 DEF Inv, Types
<1>6. x.stamp \in 0..ver
  BY <1>3, <1>5
<1>7. lval' \in [Atom -> 0..ver]
  BY <1>2, <1>5, <1>6
<1>8. Fresh'
  BY <1>2, <1>3, <1>5 DEF Inv, Fresh, srvVars
<1>9. multi' \in BOOLEAN /\ frames' \subseteq Space /\ have' \subseteq Atom
  BY <1>2, SameTypes DEF cacheVars
<1> QED
  BY <1>1, <1>2, <1>4, <1>7, <1>8, <1>9, DoneStep

LEMMA FlagsStep ==
  ASSUME Inv, NEW u \in User, SetFlags(u)
  PROVE  Inv'
<1>1. /\ todo[u] # <<>> /\ Head(todo[u]).do \in {"single", "several", "forget"}
      /\ StepDone(u) /\ UNCHANGED <<sockfd, mtx, sockVars, srvVars, locVars>>
      /\ multi' \in {TRUE, FALSE, multi} /\ frames' \in {{}, frames}
  BY DEF SetFlags, At
<1>2. Head(todo[u]) = todo[u][1]
  BY <1>1, AtStep DEF Inv
<1>3. todo[u][1].do \notin {"recv", "send", "lock", "unlock"}
  BY <1>1, <1>2
<1>4. /\ multi' \in BOOLEAN /\ frames' \subseteq Space /\ have' \subseteq Atom
      /\ lval' \in [Atom -> 0..ver] /\ Fresh'
  BY <1>1, SameTypes, SameFresh DEF locVars, srvVars
<1> QED
  BY <1>1, <1>3, <1>4, DoneStep

\* The question for the keys of an Atom, in any operation.
LEMMA KeysHeld ==
  ASSUME NEW f, NEW w, NEW a \in Atom
  PROVE  \E y, z : /\ Runs(f, FetchKeys(a), y, z, w)
                   /\ Held(y) /\ y.do = "send" /\ Held(z) /\ z.do = "recv"
<1>1. /\ "cog-keys->alist" \in Cmd \ Proxies /\ "keys" \in Use /\ a \in Arg
      /\ ArgOK("cog-keys->alist", a) /\ UseOK("cog-keys->alist", "keys")
  BY DEF Cmd, Proxies, Stamped, Use, Arg, ArgOK, Sets, UseOK, Silent
<1> QED
  BY <1>1, AskHeld DEF FetchKeys

LEMMA DecodeStep ==
  ASSUME Inv, NEW u \in User, DecodeAtom(u)
  PROVE  Inv'
<1> DEFINE x == todo[u][1]
<1>1. /\ todo[u] # <<>> /\ Head(todo[u]) = x /\ x.do = "next"
      /\ StepOK(op[u], x, val)
  BY AtStep DEF Inv, DecodeAtom, At
<1>2. UNCHANGED <<sockfd, mtx, sockVars, srvVars, lval, cacheVars>>
  BY DEF DecodeAtom
<1>3. x.rest \subseteq Atom /\ todo[u][1] = x
  BY <1>1 DEF StepOK, StepRec
<1>4. /\ multi' \in BOOLEAN /\ frames' \subseteq Space
      /\ lval' \in [Atom -> 0..ver] /\ Fresh'
  BY <1>2, SameTypes, SameFresh DEF cacheVars, srvVars
<1> HIDE DEF x
<1>5. CASE x.rest = {}
  <2>1. StepDone(u) /\ have' = have
    BY <1>1, <1>5 DEF DecodeAtom
  <2>2. have' \subseteq Atom
    BY <2>1, SameTypes
  <2>3. todo[u][1].do \notin {"recv", "send", "lock", "unlock"}
    BY <1>1, <1>3
  <2> QED
    BY <1>1, <1>2, <1>4, <2>1, <2>2, <2>3, DoneStep
<1>6. CASE x.rest # {}
  <2>1. PICK a \in x.rest :
          /\ have' = have \cup WithOutgoing(a)
          /\ Advance(u, FetchKeys(a) \o <<[do |-> "next", rest |-> x.rest \ {a}]>>
                           \o Tail(todo[u]))
    BY <1>1, <1>6 DEF DecodeAtom
  <2> DEFINE b == [do |-> "next", rest |-> x.rest \ {a}]
             p == FetchKeys(a) \o <<b>>
  <2>2. a \in Atom /\ WithOutgoing(a) \subseteq Atom /\ a \in Arg
    BY <1>3, <2>1 DEF WithOutgoing, Atom, Arg
  <2>3. have' \subseteq Atom
    BY <2>1, <2>2, SameTypes
  <2>4. PICK y, z : /\ Runs(op[u], FetchKeys(a), y, z, val)
                    /\ Held(y) /\ y.do = "send" /\ Held(z) /\ z.do = "recv"
    BY <2>2, KeysHeld
  <2>5. b \in StepRec /\ b.do = "next"
    BY <1>3 DEF StepRec
  <2> HIDE DEF b
  <2>6. StepOK(op[u], b, val) /\ Held(b) /\ ~Awaits(b) /\ b.do # "unlock"
    BY <2>5 DEF StepOK, LoadOK, Held, Awaits
  <2>7. Runs(op[u], p, y, b, val)
    <3>1. Follows(op[u], z, b)
      BY <2>4, <2>5, <2>6 DEF Follows, Awaits
    <3> QED
      BY <2>4, <2>6, <3>1, OneStep, Join
  <2> HIDE DEF p
  <2> DEFINE q == p \o Tail(todo[u])
  <2>8. ~Awaits(todo[u][1]) /\ Held(todo[u][1]) /\ todo[u][1].do = "next"
    BY <1>1, <1>3 DEF Awaits, Held
  <2>9. Program(op[u], q, val) /\ q # <<>> /\ q[1] = y
    BY <1>1, <2>6, <2>7, <2>8, Replaced DEF Inv
  <2>10. Advance(u, q)
    BY <2>1 DEF p, b
  <2> HIDE DEF q
  <2>11. todo[u][1].do # "recv" /\ q[1].do # "recv" /\ Held(q[1])
    BY <2>4, <2>8, <2>9
  <2> QED
    BY <1>1, <1>2, <1>4, <2>3, <2>8, <2>9, <2>10, <2>11, StaysStep
<1> QED
  BY <1>5, <1>6

LEMMA StoreNextStep ==
  ASSUME Inv, NEW u \in User, StoreNext(u)
  PROVE  Inv'
<1> DEFINE x == todo[u][1]
<1>1. /\ todo[u] # <<>> /\ Head(todo[u]) = x /\ x.do = "each"
      /\ StepOK(op[u], x, val)
  BY AtStep DEF Inv, StoreNext, At
<1>2. UNCHANGED <<sockfd, mtx, sockVars, srvVars, locVars, frames>>
  BY DEF StoreNext
<1>3. x.rest \subseteq Atom /\ todo[u][1] = x /\ op[u] # "loadAtomSpace"
  BY <1>1 DEF StepOK, StepRec, LoadOK
<1>4. /\ have' \subseteq Atom /\ frames' \subseteq Space
      /\ lval' \in [Atom -> 0..ver] /\ Fresh'
  BY <1>2, SameTypes, SameFresh DEF locVars, srvVars
<1> HIDE DEF x
<1>5. CASE x.rest = {}
  <2>1. StepDone(u) /\ multi' = multi
    BY <1>1, <1>5 DEF StoreNext
  <2>2. multi' \in BOOLEAN
    BY <2>1, SameTypes
  <2>3. todo[u][1].do \notin {"recv", "send", "lock", "unlock"}
    BY <1>1, <1>3
  <2> QED
    BY <1>1, <1>2, <1>4, <2>1, <2>2, <2>3, DoneStep
<1>6. CASE x.rest # {}
  <2>1. PICK a \in x.rest :
          /\ SetMulti(Home[a])
          /\ Advance(u, StoreSteps(a) \o <<[do |-> "each", rest |-> x.rest \ {a}]>>)
    BY <1>1, <1>6 DEF StoreNext
  <2> DEFINE b == [do |-> "each", rest |-> x.rest \ {a}]
             q == StoreSteps(a) \o <<b>>
             y == [do |-> "find", space |-> Home[a], force |-> FALSE]
             z == [do |-> "encode", cmd |-> "cog-set-values!", arg |-> a, space |-> Home[a]]
  <2>2. a \in Atom /\ Home[a] \in Space
    BY <1>3, <2>1, SpaceAssumption
  <2>3. multi' \in BOOLEAN
    BY <2>1, SameTypes DEF SetMulti
  <2>4. Runs(op[u], StoreSteps(a), y, z, val)
    BY <1>3, <2>2, StoreStepsRun DEF StoreSteps, Sets
  <2>5. b \in StepRec /\ b.do = "each" /\ z.do = "encode" /\ y.do = "find"
    BY <1>3 DEF StepRec
  <2> HIDE DEF b, y, z
  <2>6. StepOK(op[u], b, val) /\ Follows(op[u], z, b) /\ MayEnd(b) /\ ~Held(y)
    BY <1>3, <2>5 DEF StepOK, Follows, MayEnd, Held, Awaits
  <2>7. Runs(op[u], q, y, b, val)
    BY <2>4, <2>6, OneStep, Join
  <2>8. Advance(u, q)
    BY <2>1 DEF b
  <2> HIDE DEF q
  <2>9. Program(op[u], q, val) /\ q # <<>> /\ q[1] = y
    BY <2>6, <2>7, AfterFirst DEF Program, Runs
  <2>10. /\ todo[u][1].do # "recv" /\ ~Held(todo[u][1])
         /\ q[1].do # "recv" /\ ~Held(q[1])
    BY <1>1, <1>3, <2>5, <2>6, <2>9 DEF Held
  <2> QED
    BY <1>1, <1>2, <1>4, <2>3, <2>8, <2>9, <2>10, StaysStep
<1> QED
  BY <1>5, <1>6

\* A step outside of the lock becomes several.
LEMMA UnfoldStep ==
  ASSUME Inv, NEW u \in User, todo[u] # <<>>, todo[u][1].do \in {"find", "cache", "encode"},
         NEW p, NEW a, NEW b, Runs(op[u], p, a, b, val),
         ~Held(a), a.do # "recv", b.do \in {"cache", "unlock"},
         Advance(u, p \o Tail(todo[u])), UNCHANGED <<sockfd, mtx, sockVars, srvVars>>,
         multi' \in BOOLEAN, frames' \subseteq Space, have' \subseteq Atom,
         lval' \in [Atom -> 0..ver], Fresh'
  PROVE  Inv'
<1> DEFINE q == p \o Tail(todo[u])
<1>1. /\ ~Awaits(todo[u][1]) /\ ~Held(todo[u][1])
      /\ todo[u][1].do # "lock" /\ todo[u][1].do # "recv"
  BY DEF Awaits, Held
<1>2. op[u] # "loadAtomSpace"
  BY AtStep DEF Inv, StepOK, LoadOK
<1>3. b.do # "lock" /\ ~(Held(b) /\ b.do # "unlock") /\ ~Awaits(b)
  BY DEF Held, Awaits
<1>4. Program(op[u], q, val) /\ q # <<>> /\ q[1] = a
  BY <1>1, <1>2, <1>3, Replaced DEF Inv
<1> HIDE DEF q
<1>5. Advance(u, q)
  BY DEF q
<1> QED
  BY <1>1, <1>4, <1>5, StaysStep

LEMMA FindStep ==
  ASSUME Inv, NEW u \in User, FindFrame(u)
  PROVE  Inv'
<1> DEFINE x == todo[u][1]
           s == x.space
<1>1. /\ todo[u] # <<>> /\ Head(todo[u]) = x /\ x.do = "find"
      /\ StepOK(op[u], x, val)
  BY AtStep DEF Inv, FindFrame, At
<1>2. UNCHANGED <<sockfd, mtx, sockVars, srvVars, locVars, frames>>
  BY DEF FindFrame
<1>3. s \in Space /\ todo[u][1] = x /\ op[u] # "loadAtomSpace"
  BY <1>1 DEF StepOK, StepRec, LoadOK
<1>4. /\ have' \subseteq Atom /\ frames' \subseteq Space
      /\ lval' \in [Atom -> 0..ver] /\ Fresh'
  BY <1>2, SameTypes, SameFresh DEF locVars, srvVars
<1>5. \/ StepDone(u) /\ UNCHANGED multi
      \/ multi' = TRUE /\ Advance(u, Define(s) \o Tail(todo[u]))
  BY <1>1 DEF FindFrame
<1> HIDE DEF x, s
<1>6. multi' \in BOOLEAN
  BY <1>5, SameTypes
<1>7. CASE StepDone(u)
  <2>1. todo[u][1].do \notin {"recv", "send", "lock", "unlock"}
    BY <1>1, <1>3
  <2> QED
    BY <1>1, <1>2, <1>4, <1>6, <1>7, <2>1, DoneStep
<1>8. CASE Advance(u, Define(s) \o Tail(todo[u]))
  <2> DEFINE b == [do |-> "cache", rest |-> Below[s]]
  <2>1. Below[s] \subseteq Space /\ s \in Arg /\ ArgOK("define", s) /\ "define" \in Silent
    BY <1>3, SpaceAssumption DEF Arg, ArgOK, Sets, Stamped, Silent
  <2>2. Runs(op[u], Locked(Send("define", s)), [do |-> "lock"], [do |-> "unlock"], val)
    BY <1>3, <2>1, LockedSend DEF Send
  <2>3. b \in StepRec /\ b.do = "cache"
    BY <2>1 DEF StepRec
  <2> HIDE DEF b
  <2>4. StepOK(op[u], b, val) /\ Follows(op[u], [do |-> "unlock"], b)
    BY <1>3, <2>3 DEF StepOK, Follows, Held, Awaits
  <2>5. Runs(op[u], Define(s), [do |-> "lock"], b, val)
    BY <2>2, <2>4, OneStep, Join DEF Define, b
  <2>6. ~Held([do |-> "lock"]) /\ [do |-> "lock"].do # "recv" /\ todo[u][1].do = "find"
    BY <1>1, <1>3 DEF Held
  <2> QED
    BY <1>1, <1>2, <1>4, <1>6, <1>8, <2>3, <2>5, <2>6, UnfoldStep
<1> QED
  BY <1>5, <1>7, <1>8

LEMMA CacheStep ==
  ASSUME Inv, NEW u \in User, CacheFrame(u)
  PROVE  Inv'
<1> DEFINE x == todo[u][1]
<1>1. /\ todo[u] # <<>> /\ Head(todo[u]) = x /\ x.do = "cache"
      /\ StepOK(op[u], x, val)
  BY AtStep DEF Inv, CacheFrame, At
<1>2. UNCHANGED <<sockfd, mtx, sockVars, srvVars, locVars, multi>>
  BY DEF CacheFrame
<1>3. x.rest \subseteq Space /\ todo[u][1] = x /\ op[u] # "loadAtomSpace"
  BY <1>1 DEF StepOK, StepRec, LoadOK
<1>4. /\ have' \subseteq Atom /\ multi' \in BOOLEAN
      /\ lval' \in [Atom -> 0..ver] /\ Fresh'
  BY <1>2, SameTypes, SameFresh DEF locVars, srvVars
<1> HIDE DEF x
<1>5. CASE x.rest = {}
  <2>1. StepDone(u) /\ frames' = frames
    BY <1>1, <1>5 DEF CacheFrame
  <2>2. frames' \subseteq Space
    BY <2>1, SameTypes
  <2>3. todo[u][1].do \notin {"recv", "send", "lock", "unlock"}
    BY <1>1, <1>3
  <2> QED
    BY <1>1, <1>2, <1>4, <2>1, <2>2, <2>3, DoneStep
<1>6. CASE x.rest # {}
  <2>1. PICK s \in x.rest :
          /\ frames' = frames \cup {s}
          /\ Advance(u, <<[do |-> "cache", rest |-> x.rest \ {s}]>> \o Tail(todo[u]))
    BY <1>1, <1>6 DEF CacheFrame
  <2> DEFINE b == [do |-> "cache", rest |-> x.rest \ {s}]
  <2>2. frames' \subseteq Space
    BY <1>3, <2>1, SameTypes
  <2>3. b \in StepRec /\ b.do = "cache"
    BY <1>3 DEF StepRec
  <2> HIDE DEF b
  <2>4. StepOK(op[u], b, val) /\ ~Held(b)
    BY <1>3, <2>3 DEF StepOK, Held
  <2>5. Runs(op[u], <<b>>, b, b, val) /\ Advance(u, <<b>> \o Tail(todo[u]))
    BY <2>1, <2>4, OneStep DEF b
  <2> QED
    BY <1>1, <1>2, <1>3, <1>4, <2>2, <2>3, <2>4, <2>5, UnfoldStep
<1> QED
  BY <1>5, <1>6

LEMMA EncodeStep ==
  ASSUME Inv, NEW u \in User, EncodeAtom(u)
  PROVE  Inv'
<1> DEFINE x == todo[u][1]
           fr == IF multi THEN x.space ELSE None
           p == Locked(<<[do |-> "send", cmd |-> x.cmd, arg |-> x.arg, frame |-> fr]>>)
<1>1. /\ todo[u] # <<>> /\ Head(todo[u]) = x /\ x.do = "encode"
      /\ StepOK(op[u], x, val)
  BY AtStep DEF Inv, EncodeAtom, At
<1>2. UNCHANGED <<sockfd, mtx, sockVars, srvVars, locVars, cacheVars>>
  BY DEF EncodeAtom
<1>3. /\ x.cmd \in Sets /\ x.arg \in Atom /\ x.space \in Space
      /\ todo[u][1] = x /\ op[u] # "loadAtomSpace"
  BY <1>1 DEF StepOK, StepRec, LoadOK
<1>4. /\ have' \subseteq Atom /\ multi' \in BOOLEAN /\ frames' \subseteq Space
      /\ lval' \in [Atom -> 0..ver] /\ Fresh'
  BY <1>2, SameTypes, SameFresh DEF locVars, srvVars, cacheVars
<1>5. Advance(u, p \o Tail(todo[u]))
  BY <1>1 DEF EncodeAtom
<1>6. fr \in Space \cup {None}
  BY <1>3
<1> HIDE DEF x, fr
<1>7. x.cmd \in Silent /\ x.arg \in Arg /\ ArgOK(x.cmd, x.arg)
  BY <1>3 DEF Sets, Silent, Arg, ArgOK
<1>8. Runs(op[u], p, [do |-> "lock"], [do |-> "unlock"], val)
  BY <1>3, <1>6, <1>7, LockedSend
<1> HIDE DEF p
<1>9. /\ ~Held([do |-> "lock"]) /\ [do |-> "lock"].do # "recv"
      /\ [do |-> "unlock"].do = "unlock" /\ todo[u][1].do = "encode"
  BY <1>1, <1>3 DEF Held
<1> QED
  BY <1>1, <1>2, <1>4, <1>5, <1>8, <1>9, UnfoldStep

(***************************************************************************)
(* Calls, and the steps that use the socket.                               *)
(***************************************************************************)
LEMMA CallStep ==
  ASSUME Inv, NEW u \in User, NEW f \in Ops \ {"none"}, NEW q,
         Call(u, f, q), Starts(f, q, val), multi' \in BOOLEAN
  PROVE  Inv'
<1>1. /\ Types /\ Programs /\ Mutex /\ Exclusive /\ Exchange /\ Fresh
      /\ UNCHANGED <<sockfd, mtx, wire, back, eof, lost, known, valued, val, ver, defined>>
      /\ UNCHANGED <<have, lval, frames, dead>>
  BY DEF Inv, Call, sockVars, srvVars, locVars
<1>2. op[u] = "none" /\ todo[u] = <<>>
  BY <1>1 DEF Call, Programs
<1>3. /\ op' \in [User -> Ops] /\ todo' \in [User -> Seq(StepRec)]
      /\ op'[u] = f /\ todo'[u] = q
      /\ \A v \in User \ {u} : op'[v] = op[v] /\ todo'[v] = todo[v]
  BY <1>1 DEF Types, Call, Starts
<1>4. Types'
  <2>1. calls' \in Nat /\ few' \in BOOLEAN /\ raced' \in BOOLEAN
    BY <1>1 DEF Types, Call
  <2> QED
    BY <1>1, <1>3, <2>1 DEF Types
<1>5. Programs'
  <2>1. ASSUME NEW v \in User
        PROVE  (op'[v] = "none" <=> todo'[v] = <<>>) /\ Program(op'[v], todo'[v], val)
    BY <1>1, <1>3 DEF Programs, Starts
  <2> QED
    BY <1>1, <2>1 DEF Programs
<1>6. Mutex'
  BY <1>1, <1>2, <1>3 DEF Mutex, Starts
<1>7. Exclusive'
  BY <1>1, <1>3 DEF Exclusive, Call
<1>8. Exchange'
  BY <1>1, <1>2, <1>3, QuietStep DEF Starts
<1>9. Fresh'
  BY <1>1, SameFresh
<1> QED
  BY <1>4, <1>5, <1>6, <1>7, <1>8, <1>9 DEF Inv

\* While a thread uses the socket for something else, nobody waits for a reply.
LEMMA NobodyWaits ==
  ASSUME Inv, Unlocked \subseteq Alone, NEW u \in User, Uses(u), todo[u][1].do # "recv"
  PROVE  /\ \A v \in User : todo[v] = <<>> \/ todo[v][1].do # "recv"
         /\ back = <<>> /\ \A i \in 1..Len(wire) : wire[i].cmd \in Silent
<1>1. \A v \in User : todo[v] = <<>> \/ todo[v][1].do # "recv"
  <2> SUFFICES ASSUME NEW v \in User, todo[v] # <<>>, todo[v][1].do = "recv" PROVE FALSE
    OBVIOUS
  <2>1. Uses(v)
    BY DEF Uses
  <2> QED
    BY <2>1, OnlyOne DEF Inv
<1> QED
  BY <1>1 DEF Inv, Exchange, Waits

\* An exception unwinds the operation.
LEMMA ThrowFacts ==
  ASSUME Inv, NEW u \in User, todo[u] # <<>>, Throw(u), val' = val
  PROVE  /\ Programs' /\ Exclusive' /\ Mutex'
         /\ op' \in [User -> Ops] /\ todo' \in [User -> Seq(StepRec)]
         /\ todo'[u] = <<>> /\ \A v \in User \ {u} : todo'[v] = todo[v]
         /\ mtx' \in User \cup {None} /\ UNCHANGED <<calls, few, raced, dead>>
<1>1. /\ Advance(u, <<>>) /\ mtx' = IF mtx = u THEN None ELSE mtx
      /\ None \notin User /\ Program(op[u], <<>>, val)
  BY SpaceAssumption DEF Throw, Program
<1>2. mtx' # u /\ \A v \in User \ {u} : mtx' = v <=> mtx = v
  BY <1>1
<1>3. mtx' \in User \cup {None}
  BY <1>1 DEF Inv, Types
<1> QED
  BY <1>1, <1>2, <1>3, AdvanceStep DEF Inv, Advance

LEMMA SendStepInv ==
  ASSUME Inv, Unlocked \subseteq Alone, NEW u \in User, DoSend(u)
  PROVE  Inv'
<1> DEFINE x == todo[u][1]
           t == Tail(todo[u])
<1>1. /\ todo[u] # <<>> /\ Head(todo[u]) = x /\ x.do = "send" /\ x = todo[u][1]
      /\ StepOK(op[u], x, val)
  BY AtStep DEF Inv, DoSend, At
<1>2. /\ Types /\ Fresh
      /\ UNCHANGED <<sockfd, back, eof, lost, known, valued, val, ver, defined>>
      /\ UNCHANGED <<have, lval, multi, frames>>
  BY DEF Inv, DoSend, srvVars, locVars, cacheVars
<1>3. /\ Program(op[u], t, val)
      /\ (t # <<>> /\ Held(t[1])) <=> (x.do = "lock" \/ (Held(x) /\ x.do # "unlock"))
      /\ (t # <<>> /\ t[1].do = "recv") <=> Awaits(x)
      /\ Awaits(x) => t[1].cmd = x.cmd /\ t[1].arg = x.arg
  BY <1>1, NextStep DEF Inv
<1>4. Uses(u) /\ todo[u][1].do # "recv"
  BY <1>1 DEF Uses
<1>5. /\ \A v \in User : todo[v] = <<>> \/ todo[v][1].do # "recv"
      /\ back = <<>> /\ \A i \in 1..Len(wire) : wire[i].cmd \in Silent
  BY <1>4, NobodyWaits
<1>6. Fresh'
  BY <1>2, SameFresh
<1> HIDE DEF x, t
<1>7. CASE /\ connected /\ Advance(u, t) /\ UNCHANGED mtx
           /\ wire' = IF eof THEN wire ELSE Append(wire, Message(u, x))
  <2>1. mtx = u <=> Held(x)
    BY <1>1 DEF Inv, Mutex
  <2>2. /\ Programs' /\ Exclusive' /\ Mutex'
        /\ op' \in [User -> Ops] /\ todo' \in [User -> Seq(StepRec)]
        /\ todo'[u] = t /\ \A v \in User \ {u} : todo'[v] = todo[v]
        /\ UNCHANGED <<calls, few, raced, dead>>
    BY <1>1, <1>2, <1>3, <1>7, <2>1, AdvanceStep DEF Inv, Advance
  <2> DEFINE m == Message(u, x)
  <2>3. m \in Msg /\ m.by = u /\ m.cmd = x.cmd /\ m.arg = x.arg /\ ArgOK(m.cmd, m.arg)
    <3>1. /\ x.cmd \in Cmd /\ x.arg \in Arg /\ x.frame \in Space \cup {None}
          /\ ArgOK(x.cmd, x.arg)
      BY <1>1 DEF StepOK, StepRec
    <3> QED
      BY <3>1 DEF Message, Msg
  <2> HIDE DEF m
  <2>4. wire \in Seq(Msg) /\ Len(wire) \in Nat
    BY <1>2 DEF Types
  <2>5. CASE eof
    <3>1. wire' = <<>> /\ wire' = wire /\ Len(wire') = 0
      BY <1>7, <2>5 DEF Inv, Exchange
    <3>2. Exchange'
      BY <1>2, <1>5, <1>7, <2>2, <3>1 DEF Exchange, connected
    <3>3. Types'
      BY <1>2, <1>7, <2>2, <3>1 DEF Types
    <3> QED
      BY <1>6, <2>2, <3>2, <3>3 DEF Inv
  <2>6. CASE ~eof
    <3>1. /\ wire' \in Seq(Msg) /\ Len(wire') = Len(wire) + 1
          /\ wire'[Len(wire) + 1] = m /\ \A i \in 1..Len(wire) : wire'[i] = wire[i]
      BY <1>7, <2>3, <2>4, <2>6, AppendProperties DEF m
    <3>2. \A i \in 1..Len(wire') : i = Len(wire) + 1 \/ i \in 1..Len(wire)
      BY <2>4, <3>1
    <3>3. \A i \in 1..Len(wire') : ArgOK(wire'[i].cmd, wire'[i].arg)
      BY <2>3, <3>1, <3>2 DEF Inv, Exchange
    <3>4. ASSUME NEW i \in 1..Len(wire'), wire'[i].cmd \notin Silent
          PROVE  i = Len(wire') /\ back' = <<>> /\ \E v \in User : Waits(v, wire[i])'
      <4>1. i = Len(wire) + 1 /\ wire'[i] = m
        BY <1>5, <3>1, <3>2, <3>4
      <4>2. Awaits(x)
        BY <1>1, <2>3, <3>4, <4>1 DEF Awaits
      <4>3. Waits(u, wire[i])'
        BY <1>3, <2>2, <2>3, <4>1, <4>2 DEF Waits
      <4> QED
        BY <1>2, <1>5, <3>1, <4>1, <4>3
    <3>5. Exchange'
      BY <1>2, <1>5, <1>7, <2>2, <2>6, <3>3, <3>4 DEF Exchange, connected
    <3>6. Types'
      BY <1>2, <1>7, <2>2, <3>1 DEF Types
    <3> QED
      BY <1>6, <2>2, <3>5, <3>6 DEF Inv
  <2> QED
    BY <2>5, <2>6
<1>8. CASE Throw(u) /\ UNCHANGED wire
  <2>1. /\ Programs' /\ Exclusive' /\ Mutex'
        /\ op' \in [User -> Ops] /\ todo' \in [User -> Seq(StepRec)]
        /\ todo'[u] = <<>> /\ \A v \in User \ {u} : todo'[v] = todo[v]
        /\ mtx' \in User \cup {None} /\ UNCHANGED <<calls, few, raced, dead>>
    BY <1>1, <1>2, <1>8, ThrowFacts
  <2>2. Exchange'
    BY <1>2, <1>4, <1>8, <2>1, QuietStep DEF Inv
  <2>3. Types'
    BY <1>2, <1>8, <2>1 DEF Types
  <2> QED
    BY <1>6, <2>1, <2>2, <2>3 DEF Inv
<1>9. \/ /\ connected /\ Advance(u, t) /\ UNCHANGED mtx
         /\ wire' = IF eof THEN wire ELSE Append(wire, Message(u, x))
      \/ Throw(u) /\ UNCHANGED wire
  BY <1>1 DEF DoSend, StepDone, t
<1> QED
  BY <1>7, <1>8, <1>9

\* What a thread receives.
LEMMA RecvFacts ==
  ASSUME Inv, Unlocked \subseteq Alone, NEW u \in User, NEW then, DoRecv(u, then)
  PROVE  /\ todo[u] # <<>> /\ Head(todo[u]) = todo[u][1]
         /\ todo[u][1].do = "recv" /\ todo[u][1].then = then
         /\ StepOK(op[u], todo[u][1], val)
         /\ back # <<>> /\ back[1] \in Reply /\ ReplyOK(back[1])
         /\ back[1].cmd = todo[u][1].cmd /\ back[1].arg = todo[u][1].arg
         /\ wire = <<>> /\ wire' = <<>> /\ back' = <<>>
<1>1. /\ todo[u] # <<>> /\ Head(todo[u]) = todo[u][1]
      /\ todo[u][1].do = "recv" /\ todo[u][1].then = then
      /\ StepOK(op[u], todo[u][1], val)
  BY AtStep DEF Inv, DoRecv, At
<1>2. back \in Seq(Reply) /\ Len(back) \in Nat
  BY DEF Inv, Types
<1>3. PICK k \in 1..Len(back) : back' = SubSeq(back, k + 1, Len(back))
  BY DEF DoRecv
<1>4. back # <<>> /\ Len(back) = 1 /\ wire = <<>> /\ ReplyOK(back[1])
  BY <1>2, <1>3 DEF Inv, Exchange
<1>5. PICK v \in User : Waits(v, back[1])
  BY <1>4 DEF Inv, Exchange
<1>6. v = u
  BY <1>1, <1>5, OnlyOne DEF Inv, Uses, Waits
<1>7. back' = <<>>
  BY <1>3, <1>4, SubSeqEmpty
<1>8. back[1] \in Reply
  BY <1>2, <1>4
<1> QED
  BY <1>1, <1>4, <1>5, <1>6, <1>7, <1>8 DEF Waits, DoRecv

LEMMA ReceivedStep ==
  ASSUME Inv, Unlocked \subseteq Alone, NEW u \in User, NEW then, DoRecv(u, then), NEW q,
         Advance(u, q), Program(op[u], q, val), q = <<>> \/ q[1].do # "recv",
         (q # <<>> /\ Held(q[1])) <=> Held(todo[u][1]),
         frames' \subseteq Space, have' \subseteq Atom, lval' \in [Atom -> 0..ver], Fresh'
  PROVE  Inv'
<1>1. todo[u] # <<>> /\ todo[u][1].do = "recv" /\ wire' = <<>> /\ back' = <<>>
  BY RecvFacts
<1>2. /\ Types /\ UNCHANGED <<sockfd, mtx, eof, lost, known, valued, val, ver, defined, multi>>
  BY DEF Inv, DoRecv, srvVars
<1>3. mtx = u <=> Held(todo[u][1])
  BY <1>1 DEF Inv, Mutex
<1>4. /\ Programs' /\ Exclusive' /\ Mutex'
      /\ op' \in [User -> Ops] /\ todo' \in [User -> Seq(StepRec)]
      /\ todo'[u] = q /\ \A v \in User \ {u} : todo'[v] = todo[v]
      /\ UNCHANGED <<calls, few, raced, dead>>
  BY <1>1, <1>2, <1>3, AdvanceStep DEF Inv, Advance
<1>5. Exchange'
  <2>1. Len(wire') = 0
    BY <1>1
  <2>2. \A v \in User : todo'[v] # <<>> /\ todo'[v][1].do = "recv" => sockfd' > 0
    BY <1>2, <1>4 DEF Inv, Exchange
  <2> QED
    BY <1>1, <2>1, <2>2 DEF Exchange
<1>6. Types'
  <2>1. wire' \in Seq(Msg) /\ back' \in Seq(Reply)
    BY <1>1, EmptySeq
  <2> QED
    BY <1>2, <1>4, <2>1 DEF Types
<1> QED
  BY <1>4, <1>5, <1>6 DEF Inv

LEMMA ReceivedDone ==
  ASSUME Inv, Unlocked \subseteq Alone, NEW u \in User, NEW then, DoRecv(u, then),
         StepDone(u),
         frames' \subseteq Space, have' \subseteq Atom, lval' \in [Atom -> 0..ver], Fresh'
  PROVE  Inv'
<1> DEFINE x == todo[u][1]
           t == Tail(todo[u])
<1>1. todo[u] # <<>> /\ x.do = "recv" /\ x = todo[u][1] /\ Advance(u, t)
  BY RecvFacts DEF StepDone
<1>2. /\ Program(op[u], t, val)
      /\ (t # <<>> /\ Held(t[1])) <=> (x.do = "lock" \/ (Held(x) /\ x.do # "unlock"))
      /\ (t # <<>> /\ t[1].do = "recv") <=> Awaits(x)
  BY <1>1, NextStep DEF Inv
<1> HIDE DEF x, t
<1>3. /\ t = <<>> \/ t[1].do # "recv"
      /\ (t # <<>> /\ Held(t[1])) <=> Held(todo[u][1])
  BY <1>1, <1>2 DEF Awaits
<1> QED
  BY <1>1, <1>2, <1>3, ReceivedStep

\* What a receive leaves alone.
LEMMA ReceiveSame ==
  ASSUME Inv, NEW u \in User, NEW then, DoRecv(u, then), UNCHANGED <<locVars, frames>>
  PROVE  frames' \subseteq Space /\ have' \subseteq Atom /\ lval' \in [Atom -> 0..ver] /\ Fresh'
BY SameTypes, SameFresh DEF DoRecv, srvVars, locVars

LEMMA RecvDropStep ==
  ASSUME Inv, Unlocked \subseteq Alone, NEW u \in User, RecvDrop(u)
  PROVE  Inv'
BY ReceivedDone, ReceiveSame DEF RecvDrop

LEMMA RecvKeepStep ==
  ASSUME Inv, Unlocked \subseteq Alone, NEW u \in User, RecvKeep(u)
  PROVE  Inv'
<1> DEFINE x == todo[u][1]
           t == Tail(todo[u])
           b == [do |-> "set", arg |-> x.arg, stamp |-> back[1].stamp]
           q == t \o <<b>>
<1>1. DoRecv(u, "keep") /\ UNCHANGED <<locVars, frames>>
  BY DEF RecvKeep
<1>2. /\ todo[u] # <<>> /\ Head(todo[u]) = x /\ x = todo[u][1]
      /\ x.do = "recv" /\ x.then = "keep" /\ StepOK(op[u], x, val)
      /\ back[1] \in Reply /\ ReplyOK(back[1])
      /\ back[1].cmd = x.cmd /\ back[1].arg = x.arg
  BY <1>1, RecvFacts
<1>3. Advance(u, q)
  BY <1>2 DEF RecvKeep
<1>4. /\ frames' \subseteq Space /\ have' \subseteq Atom
      /\ lval' \in [Atom -> 0..ver] /\ Fresh'
  BY <1>1, ReceiveSame
<1>5. \/ t = <<>> /\ MayEnd(x)
      \/ /\ t # <<>> /\ Follows(op[u], x, t[1])
         /\ \E y : Runs(op[u], t, t[1], y, val) /\ MayEnd(y)
  BY <1>2, AtStep DEF Inv
<1> HIDE DEF x, t
<1>6. x.cmd = "cog-execute-cache!" /\ op[u] = "runQuery"
  BY <1>2 DEF StepOK, UseOK
<1>7. Held(x) /\ ~Awaits(x) /\ x.do # "unlock"
  BY <1>2, <1>6 DEF Held, Awaits, Proxies
<1>8. PICK y : Runs(op[u], t, t[1], y, val) /\ MayEnd(y) /\ Follows(op[u], x, t[1])
  BY <1>2, <1>5, <1>7 DEF MayEnd
<1>9. x.arg \in Atom /\ back[1].stamp \in Nat /\ back[1].stamp = val[x.arg]
  BY <1>2, <1>6 DEF ReplyOK, Reply, Stamped
<1>10. b \in StepRec /\ b.do = "set" /\ b.arg \in Atom /\ b.stamp <= val[b.arg]
  BY <1>9 DEF StepRec, Arg
<1> HIDE DEF b
<1>11. StepOK(op[u], b, val)
  BY <1>6, <1>10 DEF StepOK
<1>12. Follows(op[u], y, b) /\ MayEnd(b)
  BY <1>6, <1>8, <1>10 DEF Follows, MayEnd, Held, Awaits
<1>13. Runs(op[u], q, t[1], b, val)
  BY <1>8, <1>11, <1>12, OneStep, Join
<1> HIDE DEF q
<1>14. Program(op[u], q, val) /\ q # <<>> /\ q[1] = t[1]
  BY <1>12, <1>13, AfterFirst DEF Program, Runs
<1>15. q[1].do # "recv" /\ Held(q[1]) /\ Held(todo[u][1])
  BY <1>2, <1>7, <1>8, <1>14 DEF Follows
<1> QED
  BY <1>1, <1>3, <1>4, <1>14, <1>15, ReceivedStep

LEMMA RecvSetStep ==
  ASSUME Inv, Unlocked \subseteq Alone, NEW u \in User, NEW then \in {"set", "keys"},
         RecvSet(u, then)
  PROVE  Inv'
<1> DEFINE x == todo[u][1]
<1>1. DoRecv(u, then) /\ StepDone(u) /\ UNCHANGED <<have, frames>>
  BY DEF RecvSet
<1>2. /\ todo[u] # <<>> /\ Head(todo[u]) = x
      /\ x.do = "recv" /\ x.then = then /\ StepOK(op[u], x, val)
      /\ back[1] \in Reply /\ ReplyOK(back[1])
      /\ back[1].cmd = x.cmd /\ back[1].arg = x.arg
  BY <1>1, RecvFacts
<1>3. lval' = lval \/ lval' = [lval EXCEPT ![x.arg] = back[1].stamp]
  BY <1>2 DEF RecvSet
<1> HIDE DEF x
<1>4. x.cmd \in Stamped
  BY <1>2 DEF StepOK, UseOK, Stamped
<1>5. x.arg \in Atom /\ back[1].stamp = val[x.arg]
  BY <1>2, <1>4 DEF ReplyOK
<1>6. /\ val \in [Atom -> 0..ver] /\ lval \in [Atom -> 0..ver] /\ ver \in Nat /\ Fresh
      /\ frames \subseteq Space /\ have \subseteq Atom /\ val' = val
  BY <1>1 DEF Inv, Types, DoRecv, srvVars
<1>7. lval' \in [Atom -> 0..ver]
  BY <1>3, <1>5, <1>6
<1>8. Fresh'
  BY <1>3, <1>5, <1>6 DEF Fresh
<1> QED
  BY <1>1, <1>6, <1>7, <1>8, ReceivedDone

LEMMA RecvProbeStep ==
  ASSUME Inv, Unlocked \subseteq Alone, NEW u \in User, RecvProbe(u)
  PROVE  Inv'
<1> DEFINE x == todo[u][1]
           z == [do |-> "unlock"]
<1>1. DoRecv(u, "probe") /\ UNCHANGED <<locVars, frames>>
  BY DEF RecvProbe
<1>2. /\ todo[u] # <<>> /\ x.do = "recv" /\ x.then = "probe" /\ StepOK(op[u], x, val)
      /\ x = todo[u][1]
  BY <1>1, RecvFacts
<1>3. Advance(u, Step("unlock")) \/ StepDone(u)
  BY DEF RecvProbe, StepDone
<1>4. /\ frames' \subseteq Space /\ have' \subseteq Atom
      /\ lval' \in [Atom -> 0..ver] /\ Fresh'
  BY <1>1, ReceiveSame
<1> HIDE DEF x
<1>5. Held(todo[u][1])
  BY <1>2 DEF StepOK, UseOK, Held
<1>6. CASE StepDone(u)
  BY <1>1, <1>4, <1>6, ReceivedDone
<1>7. CASE Advance(u, Step("unlock"))
  <2>1. Runs(op[u], Step("unlock"), z, z, val)
    BY PlainStep
  <2>2. MayEnd(z) /\ Held(z) /\ z.do # "recv"
    BY DEF MayEnd, Held, Awaits
  <2> HIDE DEF z
  <2>3. /\ Program(op[u], Step("unlock"), val) /\ Step("unlock") # <<>>
        /\ Step("unlock")[1] = z
    BY <2>1, <2>2, AfterFirst DEF Program, Runs
  <2> QED
    BY <1>1, <1>4, <1>5, <1>7, <2>2, <2>3, ReceivedStep
<1> QED
  BY <1>3, <1>6, <1>7

LEMMA RecvListStep ==
  ASSUME Inv, Unlocked \subseteq Alone, NEW u \in User, RecvList(u)
  PROVE  Inv'
<1> DEFINE x == todo[u][1]
           b == [do |-> "next", rest |-> back[1].set]
           q == <<b>> \o Tail(todo[u])
<1>1. DoRecv(u, "list") /\ UNCHANGED <<locVars, frames>> /\ Advance(u, q)
  BY DEF RecvList
<1>2. /\ todo[u] # <<>> /\ x.do = "recv" /\ x.then = "list" /\ StepOK(op[u], x, val)
      /\ x = todo[u][1] /\ ReplyOK(back[1]) /\ back[1].cmd = x.cmd
  BY <1>1, RecvFacts
<1>3. /\ frames' \subseteq Space /\ have' \subseteq Atom
      /\ lval' \in [Atom -> 0..ver] /\ Fresh'
  BY <1>1, ReceiveSame
<1> HIDE DEF x
<1>4. x.cmd \in Lists
  BY <1>2 DEF StepOK, UseOK
<1>5. back[1].set \subseteq Atom
  BY <1>2, <1>4 DEF ReplyOK, Inv, Types
<1>6. b \in StepRec /\ b.do = "next"
  BY <1>5 DEF StepRec
<1> HIDE DEF b
<1>7. StepOK(op[u], b, val) /\ ~Awaits(b) /\ Held(b)
  BY <1>6 DEF StepOK, LoadOK, Awaits, Held
<1>8. Runs(op[u], <<b>>, b, b, val)
  BY <1>7, OneStep
<1>9. Held(todo[u][1]) /\ ~Awaits(todo[u][1]) /\ todo[u][1].do = "recv"
  BY <1>2, <1>4 DEF Held, Awaits, Lists, Proxies
<1>10. Program(op[u], q, val) /\ q # <<>> /\ q[1] = b
  BY <1>2, <1>6, <1>7, <1>8, <1>9, Replaced, ZenonT(30) DEF Inv
<1> HIDE DEF q
<1>11. q[1].do # "recv" /\ Held(q[1])
  BY <1>6, <1>7, <1>10
<1> QED
  BY <1>1, <1>3, <1>9, <1>10, <1>11, ReceivedStep

LEMMA RecvFramesStep ==
  ASSUME Inv, Unlocked \subseteq Alone, NEW u \in User, RecvFrames(u)
  PROVE  Inv'
<1> DEFINE x == todo[u][1]
<1>1. /\ DoRecv(u, "frames") /\ StepDone(u) /\ UNCHANGED locVars
      /\ frames' = frames \cup back[1].set
  BY DEF RecvFrames
<1>2. /\ x.do = "recv" /\ x.then = "frames" /\ StepOK(op[u], x, val)
      /\ ReplyOK(back[1]) /\ back[1].cmd = x.cmd
  BY <1>1, RecvFacts
<1>3. back[1].set = defined
  BY <1>2 DEF StepOK, UseOK, ReplyOK
<1>4. frames' \subseteq Space
  BY <1>1, <1>3 DEF Inv, Types
<1>5. have' \subseteq Atom /\ lval' \in [Atom -> 0..ver] /\ Fresh'
  BY <1>1, SameTypes, SameFresh DEF DoRecv, srvVars, locVars
<1> QED
  BY <1>1, <1>4, <1>5, ReceivedDone

(***************************************************************************)
(* The connection.                                                         *)
(***************************************************************************)
\* A socket on which nothing is under way that anybody waits for.
LEMMA IdleSocket ==
  ASSUME Exchange, UNCHANGED back \/ back' = <<>>, UNCHANGED wire \/ wire' = <<>>,
         back = <<>>, \A i \in 1..Len(wire) : wire[i].cmd \in Silent,
         \A v \in User : todo'[v] = <<>> \/ todo'[v][1].do # "recv",
         eof' => eof \/ wire' = <<>>
  PROVE  Exchange'
<1>1. CASE wire' = <<>>
  <2>1. Len(wire') = 0 /\ back' = <<>>
    BY <1>1
  <2> QED
    BY <1>1, <2>1 DEF Exchange
<1>2. CASE wire' = wire
  <2>1. back' = <<>> /\ \A i \in 1..Len(wire') : wire'[i].cmd \in Silent
    BY <1>2
  <2>2. eof' => wire' = <<>>
    BY <1>2 DEF Exchange
  <2>3. \A i \in 1..Len(wire') : ArgOK(wire'[i].cmd, wire'[i].arg)
    BY <1>2 DEF Exchange
  <2> QED
    BY <2>1, <2>2, <2>3 DEF Exchange
<1> QED
  BY <1>1, <1>2

\* What a step of the connection leaves alone.
LEMMA ConnectionTypes ==
  ASSUME Inv, UNCHANGED <<srvVars, locVars, cacheVars, calls, few, raced, dead>>,
         sockfd' \in {-1, 0, 1}, eof' \in BOOLEAN, mtx' \in User \cup {None},
         lost' \in 0..MaxLost, wire' = wire \/ wire' = <<>>, back' = back \/ back' = <<>>,
         op' \in [User -> Ops], todo' \in [User -> Seq(StepRec)]
  PROVE  Types' /\ Fresh'
<1>1. /\ Types /\ Fresh /\ UNCHANGED <<known, valued, val, ver, defined>>
      /\ UNCHANGED <<have, lval, multi, frames, calls, few, raced, dead>>
  BY DEF Inv, srvVars, locVars, cacheVars
<1>2. wire' \in Seq(Msg) /\ back' \in Seq(Reply)
  BY <1>1, EmptySeq DEF Types
<1> QED
  BY <1>1, <1>2, SameFresh DEF Types

LEMMA RecvFailsStep ==
  ASSUME Inv, Unlocked \subseteq Alone, NEW u \in User, DoRecvFails(u)
  PROVE  Inv'
<1>1. /\ todo[u] # <<>> /\ todo[u][1].do = "recv" /\ Throw(u)
      /\ UNCHANGED <<sockVars, srvVars, locVars, cacheVars>>
  BY AtStep DEF Inv, DoRecvFails, At
<1>2. /\ Types /\ Exchange /\ val' = val /\ UNCHANGED <<wire, back, eof, lost>>
  BY <1>1 DEF Inv, srvVars, sockVars
<1>3. sockfd > 0
  BY <1>1, <1>2 DEF Exchange
<1>4. eof /\ back = <<>> /\ wire = <<>> /\ sockfd' \in {0, sockfd}
  BY <1>2, <1>3 DEF DoRecvFails, Exchange, connected
<1>5. /\ Programs' /\ Exclusive' /\ Mutex'
      /\ op' \in [User -> Ops] /\ todo' \in [User -> Seq(StepRec)]
      /\ todo'[u] = <<>> /\ \A v \in User \ {u} : todo'[v] = todo[v]
      /\ mtx' \in User \cup {None} /\ UNCHANGED <<calls, few, raced, dead>>
  BY <1>1, <1>2, ThrowFacts
<1>6. ASSUME NEW v \in User
      PROVE  todo'[v] = <<>> \/ todo'[v][1].do # "recv"
  <2>1. CASE v = u
    BY <1>5, <2>1
  <2>2. CASE v # u
    BY <1>1, <1>5, <2>2, OnlyOne DEF Inv, Uses
  <2> QED
    BY <2>1, <2>2
<1>7. Len(wire) = 0
  BY <1>4
<1>8. Exchange'
  BY <1>2, <1>4, <1>6, <1>7, IdleSocket
<1>9. /\ sockfd' \in {-1, 0, 1} /\ eof' \in BOOLEAN /\ lost' \in 0..MaxLost
  BY <1>2, <1>4 DEF Types
<1>10. Types' /\ Fresh'
  BY <1>1, <1>2, <1>5, <1>9, ConnectionTypes
<1> QED
  BY <1>5, <1>8, <1>10 DEF Inv

LEMMA CloseSockStep ==
  ASSUME Inv, Unlocked \subseteq Alone, NEW u \in User, CloseSock(u)
  PROVE  Inv'
<1> DEFINE x == todo[u][1]
           t == Tail(todo[u])
<1>1. /\ todo[u] # <<>> /\ x = todo[u][1] /\ x.do = "shut" /\ Advance(u, t)
      /\ sockfd' = -1 /\ UNCHANGED <<mtx, sockVars, srvVars, locVars, cacheVars>>
  BY AtStep DEF Inv, CloseSock, At, StepDone
<1>2. /\ Types /\ Exchange /\ val' = val /\ UNCHANGED <<wire, back, eof, lost>>
  BY <1>1 DEF Inv, srvVars, sockVars
<1>3. /\ Program(op[u], t, val)
      /\ (t # <<>> /\ Held(t[1])) <=> (x.do = "lock" \/ (Held(x) /\ x.do # "unlock"))
      /\ (t # <<>> /\ t[1].do = "recv") <=> Awaits(x)
  BY <1>1, NextStep DEF Inv
<1>4. Uses(u) /\ todo[u][1].do # "recv"
  BY <1>1 DEF Uses
<1>5. /\ \A v \in User : todo[v] = <<>> \/ todo[v][1].do # "recv"
      /\ back = <<>> /\ \A i \in 1..Len(wire) : wire[i].cmd \in Silent
  BY <1>4, NobodyWaits
<1>6. mtx = u <=> Held(x)
  BY <1>1 DEF Inv, Mutex
<1> HIDE DEF x, t
<1>7. /\ Programs' /\ Exclusive' /\ Mutex'
      /\ op' \in [User -> Ops] /\ todo' \in [User -> Seq(StepRec)]
      /\ todo'[u] = t /\ \A v \in User \ {u} : todo'[v] = todo[v]
      /\ UNCHANGED <<calls, few, raced, dead>>
  BY <1>1, <1>2, <1>3, <1>6, AdvanceStep DEF Inv, Advance
<1>8. \A v \in User : todo'[v] = <<>> \/ todo'[v][1].do # "recv"
  BY <1>1, <1>3, <1>5, <1>7 DEF Awaits
<1>9. Exchange'
  BY <1>2, <1>5, <1>8, IdleSocket
<1>10. /\ sockfd' \in {-1, 0, 1} /\ eof' \in BOOLEAN /\ lost' \in 0..MaxLost
       /\ mtx' \in User \cup {None}
  BY <1>1, <1>2 DEF Types
<1>11. Types' /\ Fresh'
  BY <1>1, <1>2, <1>7, <1>10, ConnectionTypes
<1> QED
  BY <1>7, <1>9, <1>11 DEF Inv

LEMMA ConnectStep ==
  ASSUME Inv, Unlocked \subseteq Alone, NEW u \in User, Connect(u)
  PROVE  Inv'
<1> DEFINE x == todo[u][1]
           t == Tail(todo[u])
<1>1. /\ todo[u] # <<>> /\ x = todo[u][1] /\ x.do = "connect"
      /\ UNCHANGED <<srvVars, locVars, cacheVars>>
  BY AtStep DEF Inv, Connect, At
<1>2. /\ Types /\ Exchange /\ val' = val
  BY <1>1 DEF Inv, srvVars
<1>3. Uses(u) /\ todo[u][1].do # "recv"
  BY <1>1 DEF Uses
<1>4. /\ \A v \in User : todo[v] = <<>> \/ todo[v][1].do # "recv"
      /\ back = <<>> /\ \A i \in 1..Len(wire) : wire[i].cmd \in Silent
  BY <1>3, NobodyWaits
<1>5. /\ sockfd' \in {-1, 0, 1} /\ lost' \in 0..MaxLost
      /\ \/ wire' = <<>> /\ back' = <<>> /\ eof' \in BOOLEAN
         \/ UNCHANGED <<wire, back, eof>>
      /\ (Advance(u, t) /\ mtx' = mtx) \/ Throw(u)
  <2>1. MaxLost \in Nat /\ lost \in 0..MaxLost
    BY <1>2, BoundAssumption DEF Types
  <2>2. CASE /\ sockfd' = 1 /\ wire' = <<>> /\ back' = <<>> /\ eof' = FALSE
             /\ StepDone(u) /\ UNCHANGED <<mtx, lost>>
    BY <2>1, <2>2 DEF StepDone
  <2>3. CASE sockfd' \in {-1, sockfd} /\ Throw(u) /\ UNCHANGED <<wire, back, eof, lost>>
    <3>1. sockfd \in {-1, 0, 1}
      BY <1>2 DEF Types
    <3> QED
      BY <2>1, <2>3, <3>1
  <2>4. CASE /\ lost < MaxLost /\ lost' = lost + 1 /\ sockfd' \in {0, 1}
             /\ wire' = <<>> /\ back' = <<>> /\ eof' = TRUE /\ Throw(u)
    BY <2>1, <2>4
  <2> QED
    BY <2>2, <2>3, <2>4 DEF Connect
<1>6. /\ Programs' /\ Exclusive' /\ Mutex'
      /\ op' \in [User -> Ops] /\ todo' \in [User -> Seq(StepRec)]
      /\ todo'[u] = <<>> \/ todo'[u][1].do # "recv"
      /\ \A v \in User \ {u} : todo'[v] = todo[v]
      /\ mtx' \in User \cup {None} /\ UNCHANGED <<calls, few, raced, dead>>
  <2>1. CASE Throw(u)
    BY <1>1, <1>2, <2>1, ThrowFacts
  <2>2. CASE Advance(u, t) /\ mtx' = mtx
    <3>1. /\ Program(op[u], t, val)
          /\ (t # <<>> /\ Held(t[1])) <=> (x.do = "lock" \/ (Held(x) /\ x.do # "unlock"))
          /\ (t # <<>> /\ t[1].do = "recv") <=> Awaits(x)
      BY <1>1, NextStep DEF Inv
    <3>2. mtx = u <=> Held(x)
      BY <1>1 DEF Inv, Mutex
    <3> HIDE DEF x, t
    <3>3. /\ Programs' /\ Exclusive' /\ Mutex'
          /\ op' \in [User -> Ops] /\ todo' \in [User -> Seq(StepRec)]
          /\ todo'[u] = t /\ \A v \in User \ {u} : todo'[v] = todo[v]
          /\ UNCHANGED <<calls, few, raced, dead>>
      BY <1>1, <1>2, <2>2, <3>1, <3>2, AdvanceStep DEF Inv, Advance
    <3>4. mtx' \in User \cup {None}
      BY <1>2, <2>2 DEF Types
    <3>5. t = <<>> \/ t[1].do # "recv"
      BY <1>1, <3>1 DEF Awaits
    <3> QED
      BY <3>3, <3>4, <3>5
  <2> QED
    BY <1>5, <2>1, <2>2
<1>7. \A v \in User : todo'[v] = <<>> \/ todo'[v][1].do # "recv"
  BY <1>4, <1>6
<1> HIDE DEF x, t
<1>8. Exchange'
  BY <1>2, <1>4, <1>5, <1>7, IdleSocket
<1>9. eof' \in BOOLEAN
  BY <1>2, <1>5 DEF Types
<1>10. Types' /\ Fresh'
  BY <1>1, <1>2, <1>5, <1>6, <1>9, ConnectionTypes
<1> QED
  BY <1>6, <1>8, <1>10 DEF Inv

(***************************************************************************)
(* The server.                                                             *)
(***************************************************************************)
Exec(S) ==
  /\ known' \subseteq Atom /\ valued' \subseteq known'
  /\ ver' \in Nat /\ ver <= ver' /\ val' \in [Atom -> 0..ver']
  /\ \A a \in Atom : val[a] <= val'[a]
  /\ defined' \subseteq S

\* A command does not take a stamp back.
LEMMA ApplyStep ==
  ASSUME Types, NEW m \in Msg, ArgOK(m.cmd, m.arg), Apply(m)
  PROVE  Exec(Space)
<1>1. /\ known \subseteq Atom /\ valued \subseteq known /\ defined \subseteq Space
      /\ ver \in Nat /\ val \in [Atom -> 0..ver]
  BY DEF Types
<1>2. defined' \subseteq Space
  <2>1. m.cmd = "define" => Below[m.arg] \subseteq Space
    BY SpaceAssumption DEF ArgOK
  <2>2. defined' \in {defined, {}} \/ (m.cmd = "define" /\ defined' = defined \cup Below[m.arg])
    BY DEF Apply
  <2> QED
    BY <1>1, <2>1, <2>2
<1>3. \/ m.cmd \in Sets \cup {"cog-execute-cache!"} /\ Put(m.arg)
      \/ \E S : Remove(S)
      \/ UNCHANGED <<known, valued, val, ver>>
  BY DEF Apply, Sets
<1>4. CASE m.cmd \in Sets \cup {"cog-execute-cache!"} /\ Put(m.arg)
  <2>1. m.arg \in Atom
    BY <1>4 DEF ArgOK, Stamped
  <2>2. WithOutgoing(m.arg) \subseteq Atom /\ m.arg \in WithOutgoing(m.arg)
    BY <2>1 DEF WithOutgoing, Atom
  <2>3. /\ known' = known \cup WithOutgoing(m.arg) /\ valued' = valued \cup {m.arg}
        /\ val' = [val EXCEPT ![m.arg] = ver + 1] /\ ver' = ver + 1
    BY <1>4 DEF Put
  <2>4. known' \subseteq Atom /\ valued' \subseteq known'
    BY <1>1, <2>2, <2>3
  <2>5. ver' \in Nat /\ ver <= ver' /\ val' \in [Atom -> 0..ver']
    BY <1>1, <2>1, <2>3
  <2>6. \A a \in Atom : val[a] <= val'[a]
    BY <1>1, <2>1, <2>3
  <2> QED
    BY <1>2, <2>4, <2>5, <2>6 DEF Exec
<1>5. CASE \E S : Remove(S)
  <2>1. PICK S : Remove(S)
    BY <1>5
  <2>2. known' \subseteq Atom /\ valued' \subseteq known'
    BY <1>1, <2>1 DEF Remove
  <2>3. ver' \in Nat /\ ver <= ver' /\ val' \in [Atom -> 0..ver']
    BY <1>1, <2>1 DEF Remove
  <2>4. \A a \in Atom : val[a] <= val'[a]
    BY <1>1, <2>1 DEF Remove
  <2> QED
    BY <1>2, <2>2, <2>3, <2>4 DEF Exec
<1>6. CASE UNCHANGED <<known, valued, val, ver>>
  BY <1>1, <1>2, <1>6 DEF Exec
<1> QED
  BY <1>3, <1>4, <1>5, <1>6

\* The answer to a command is up to date, and of the right type.
LEMMA AnswerOK ==
  ASSUME Types, NEW m \in Msg, ArgOK(m.cmd, m.arg), Apply(m), NEW r, r = Answer(m)
  PROVE  /\ r \in Reply /\ ReplyOK(r)' /\ r.by = m.by /\ r.cmd = m.cmd /\ r.arg = m.arg
<1>1. /\ known \subseteq Atom /\ valued \subseteq known /\ defined \subseteq Space
      /\ val' \in [Atom -> 0..ver'] /\ ver' \in Nat
  BY ApplyStep DEF Types, Exec
<1>2. r.by = m.by /\ r.cmd = m.cmd /\ r.arg = m.arg
  BY DEF Answer
<1>3. m.cmd \in Lists \cup {"cog-atomspace"} => known' = known /\ defined' = defined
  BY DEF Apply, Lists
<1>4. /\ m.cmd \in Lists => r.set \subseteq known
      /\ m.cmd = "cog-get-atoms" => r.set = known \cap OfType(r.arg)
      /\ m.cmd = "cog-atomspace" => r.set = defined
      /\ r.set \subseteq Atom \cup Space
  <2>1. r.set \in {known \cap {m.arg}, valued \cap {m.arg}, known \cap OfType(m.arg),
                   known \cap Incoming(m.arg), defined, {}}
    BY DEF Answer
  <2>2. r.set \subseteq Atom \cup Space
    BY <1>1, <2>1
  <2>3. /\ m.cmd = "cog-get-atoms" => r.set = known \cap OfType(m.arg)
        /\ m.cmd = "cog-atomspace" => r.set = defined
        /\ m.cmd \in {"cog-incoming-set", "cog-incoming-by-type"} =>
             r.set = known \cap Incoming(m.arg)
    BY DEF Answer
  <2> QED
    BY <1>2, <2>2, <2>3 DEF Lists
<1>5. m.cmd \in Stamped => m.arg \in Atom /\ r.stamp = val'[m.arg]
  BY DEF ArgOK, Stamped, Answer
<1>6. r.stamp \in Nat
  <2>1. CASE m.cmd \in Stamped
    BY <1>1, <1>5, <2>1
  <2>2. CASE m.cmd \notin Stamped
    BY <2>2 DEF Answer, Stamped
  <2> QED
    BY <2>1, <2>2
<1>7. r \in Reply
  <2>1. r = [by |-> r.by, cmd |-> r.cmd, arg |-> r.arg, set |-> r.set, stamp |-> r.stamp]
    BY DEF Answer
  <2>2. m.by \in User /\ m.cmd \in Cmd /\ m.arg \in Arg
    BY DEF Msg
  <2> QED
    BY <1>2, <1>4, <1>6, <2>1, <2>2 DEF Reply
<1>8. ReplyOK(r)'
  <2>1. "cog-get-atoms" \in Lists
    BY DEF Lists
  <2> QED
    BY <1>2, <1>3, <1>4, <1>5, <2>1 DEF ReplyOK
<1> QED
  BY <1>2, <1>7, <1>8

\* A command is run, and answered unless it is one of the silent ones.
LEMMA ExecStep ==
  ASSUME Inv, ServerExec
  PROVE  Inv'
<1> DEFINE m == Head(wire)
<1>1. /\ Types /\ Programs /\ Mutex /\ Exclusive /\ Exchange /\ Fresh
      /\ UNCHANGED <<sockfd, mtx, todo, eof, lost, op, calls, few, raced, dead>>
      /\ UNCHANGED <<have, lval, multi, frames>>
  BY DEF Inv, ServerExec, userVars, locVars, cacheVars
<1>2. /\ wire # <<>> /\ Apply(m) /\ wire' = Tail(wire) /\ m = Head(wire)
      /\ m.cmd \in Silent => back' = back
      /\ m.cmd \notin Silent => back' = Append(back, Answer(m))
  BY DEF ServerExec
<1> HIDE DEF m
<1>3. /\ wire \in Seq(Msg) /\ Len(wire) \in Nat /\ Len(wire) > 0 /\ m = wire[1] /\ m \in Msg
      /\ wire' \in Seq(Msg) /\ Len(wire') = Len(wire) - 1
      /\ \A i \in 1..Len(wire') : wire'[i] = wire[i + 1]
  <2>1. wire \in Seq(Msg) /\ Len(wire) \in Nat /\ Len(wire) > 0
    BY <1>1, <1>2, EmptySeq DEF Types
  <2> QED
    BY <1>2, <2>1, HeadTailProperties
<1>4. ArgOK(m.cmd, m.arg)
  BY <1>1, <1>3 DEF Exchange
<1>5. Exec(Space)
  BY <1>1, <1>2, <1>3, <1>4, ApplyStep
<1>6. PICK r : r = Answer(m)
  OBVIOUS
<1>7. r \in Reply /\ ReplyOK(r)' /\ r.by = m.by /\ r.cmd = m.cmd /\ r.arg = m.arg
  BY <1>1, <1>2, <1>3, <1>4, <1>6, AnswerOK
<1>8. back = <<>> /\ ~eof
  <2>1. back = <<>>
    BY <1>1, <1>2 DEF Exchange
  <2>2. ~eof
    BY <1>1, <1>2 DEF Exchange
  <2> QED
    BY <2>1, <2>2
<1>9. m.cmd \notin Silent => back' = <<r>>
  BY <1>2, <1>6, <1>8
<1>10. back' \in Seq(Reply)
  <2>1. CASE m.cmd \in Silent
    BY <1>2, <1>8, <2>1, EmptySeq
  <2>2. CASE m.cmd \notin Silent
    <3>1. <<r>> \in Seq(Reply)
      BY <1>7
    <3> QED
      BY <1>9, <2>2, <3>1
  <2> QED
    BY <2>1, <2>2
<1>11. Types'
  <2>1. lval \in [Atom -> 0..ver]
    BY <1>1 DEF Types
  <2>2. ver \in Nat /\ ver' \in Nat /\ ver <= ver'
    BY <1>1, <1>5 DEF Types, Exec
  <2>3. lval \in [Atom -> 0..ver']
    BY <2>1, <2>2
  <2> QED
    BY <1>1, <1>3, <1>5, <1>10, <2>3 DEF Types, Exec
<1>12. Programs'
  <2>1. val \in [Atom -> 0..ver] /\ ver \in Nat
    BY <1>1 DEF Types
  <2>2. ASSUME NEW u \in User
        PROVE  Program(op[u], todo[u], val')
    BY <1>1, <1>5, <2>1, LaterStamps DEF Programs, Exec
  <2> QED
    BY <1>1, <2>2 DEF Programs
<1>13. Mutex' /\ Exclusive'
  BY <1>1 DEF Mutex, Exclusive
<1>14. Fresh'
  <2>1. ASSUME NEW a \in Atom
        PROVE  lval[a] <= val'[a]
    <3>1. /\ lval[a] \in Nat /\ val[a] \in Nat /\ val'[a] \in Nat
      BY <1>1, <1>5 DEF Types, Exec
    <3>2. lval[a] <= val[a] /\ val[a] <= val'[a]
      BY <1>1, <1>5 DEF Fresh, Exec
    <3> QED
      BY <3>1, <3>2
  <2> QED
    BY <1>1, <2>1 DEF Fresh
<1>15. Exchange'
  <2>1. \A u \in User : \A n : Waits(u, n)' <=> Waits(u, n)
    BY <1>1 DEF Waits
  <2>2. \A u \in User : todo'[u] # <<>> /\ todo'[u][1].do = "recv" => sockfd' > 0
    BY <1>1 DEF Exchange
  <2>3. ~eof'
    BY <1>1, <1>8
  <2>4. \A i \in 1..Len(wire') : i + 1 \in 1..Len(wire)
    BY <1>3
  <2>5. \A i \in 1..Len(wire') : ArgOK(wire'[i].cmd, wire'[i].arg)
    BY <1>1, <1>3, <2>4 DEF Exchange
  <2>6. CASE m.cmd \in Silent
    <3>1. back' = <<>>
      BY <1>2, <1>8, <2>6
    <3>2. ASSUME NEW i \in 1..Len(wire'), wire'[i].cmd \notin Silent
          PROVE  i = Len(wire') /\ \E u \in User : Waits(u, wire[i])'
      <4>1. wire'[i] = wire[i + 1] /\ i + 1 \in 1..Len(wire)
        BY <1>3, <2>4
      <4>2. i + 1 = Len(wire) /\ \E u \in User : Waits(u, wire[i + 1])
        BY <1>1, <3>2, <4>1 DEF Exchange
      <4>3. i = Len(wire')
        BY <1>3, <4>2
      <4>4. PICK u \in User : Waits(u, wire[i + 1])
        BY <4>2
      <4>5. Waits(u, wire[i])'
        BY <1>1, <4>1, <4>4 DEF Waits
      <4> QED
        BY <4>3, <4>5
    <3> QED
      BY <2>2, <2>3, <2>5, <3>1, <3>2 DEF Exchange
  <2>7. CASE m.cmd \notin Silent
    <3>1. 1 = Len(wire) /\ \E u \in User : Waits(u, m)
      BY <1>1, <1>3, <2>7 DEF Exchange
    <3>2. Len(wire') = 0 /\ wire' = <<>>
      BY <1>3, <3>1, EmptySeq
    <3>3. back' = <<r>> /\ Len(back') = 1 /\ back'[1] = r
      BY <1>9, <2>7
    <3>4. PICK u \in User : Waits(u, m)
      BY <3>1
    <3>5. Waits(u, back[1])'
      BY <1>1, <1>7, <3>3, <3>4 DEF Waits
    <3>6. ReplyOK(back[1])'
      BY <1>7, <3>3 DEF ReplyOK
    <3> QED
      BY <2>2, <2>3, <3>2, <3>3, <3>5, <3>6 DEF Exchange
  <2> QED
    BY <2>6, <2>7
<1> QED
  BY <1>11, <1>12, <1>13, <1>14, <1>15 DEF Inv

LEMMA DropsStep ==
  ASSUME Inv, ServerDrops
  PROVE  Inv'
<1>1. /\ Types /\ Programs /\ Mutex /\ Exclusive /\ Exchange /\ Fresh
      /\ UNCHANGED <<sockfd, mtx, todo, back, op, calls, few, raced, dead>>
      /\ UNCHANGED <<have, lval, multi, frames, known, valued, val, ver, defined>>
      /\ eof' = TRUE /\ wire' = <<>>
  BY DEF Inv, ServerDrops, userVars, srvVars, locVars, cacheVars
<1>2. lost' \in 0..MaxLost
  BY <1>1, BoundAssumption DEF Types, ServerDrops
<1>3. wire' \in Seq(Msg) /\ Len(wire') = 0 /\ eof' \in BOOLEAN
  BY <1>1, EmptySeq
<1>4. Types'
  BY <1>1, <1>2, <1>3 DEF Types
<1>5. Programs' /\ Mutex' /\ Exclusive' /\ Fresh'
  BY <1>1 DEF Programs, Mutex, Exclusive, Fresh
<1>6. Exchange'
  <2>1. back # <<>> => ReplyOK(back[1])'
    BY <1>1 DEF Exchange, ReplyOK
  <2>2. back # <<>> => \E u \in User : Waits(u, back[1])'
    BY <1>1 DEF Exchange, Waits
  <2> QED
    BY <1>1, <1>3, <2>1, <2>2 DEF Exchange
<1> QED
  BY <1>4, <1>5, <1>6 DEF Inv

LEMMA SignalsStep ==
  ASSUME Inv, NEW u \in User, SendSignals(u)
  PROVE  Inv'
<1>1. /\ UNCHANGED <<sockfd, mtx, todo, wire, back, eof, lost, op, calls, few, raced>>
      /\ UNCHANGED <<have, lval, multi, frames, known, valued, val, ver, defined>>
      /\ dead' \in BOOLEAN
  BY DEF SendSignals, sockVars, srvVars, locVars, cacheVars
<1>2. Types' /\ Programs' /\ Mutex' /\ Exclusive' /\ Fresh'
  BY <1>1 DEF Inv, Types, Programs, Mutex, Exclusive, Fresh
<1>3. Exchange'
  BY <1>1 DEF Inv, Exchange, ReplyOK, Waits
<1> QED
  BY <1>2, <1>3 DEF Inv

LEMMA StutterStep ==
  ASSUME Inv, UNCHANGED vars
  PROVE  Inv'
<1>1. /\ UNCHANGED <<sockfd, mtx, todo, wire, back, eof, lost, op, calls, few, raced, dead>>
      /\ UNCHANGED <<have, lval, multi, frames, known, valued, val, ver, defined>>
  BY DEF vars, userVars, sockVars, srvVars, locVars, cacheVars
<1>2. Types' /\ Programs' /\ Mutex' /\ Exclusive' /\ Fresh'
  BY <1>1 DEF Inv, Types, Programs, Mutex, Exclusive, Fresh
<1>3. Exchange'
  BY <1>1 DEF Inv, Exchange, ReplyOK, Waits
<1> QED
  BY <1>2, <1>3 DEF Inv

LEMMA InvStep ==
  ASSUME Inv, Unlocked \subseteq Alone, [Next]_vars
  PROVE  Inv'
<1>1. ASSUME NEW u \in User, Operation(u)
      PROVE  Inv'
  BY <1>1, OperationStarts, CallStep DEF Inv
<1>2. ASSUME NEW u \in User, UserStep(u)
      PROVE  Inv'
  BY <1>2, LockStep, SendStepInv, SignalsStep, RecvFailsStep, RecvDropStep, RecvKeepStep, RecvSetStep,
     RecvProbeStep, RecvListStep, RecvFramesStep, SetValueStep, DecodeStep, StoreNextStep,
     FindStep, CacheStep, EncodeStep, FlagsStep, CloseSockStep, ConnectStep
     DEF UserStep
<1> QED
  BY <1>1, <1>2, ExecStep, DropsStep, StutterStep DEF Next

(***************************************************************************)
(* The invariant holds for any number of threads, Atoms and calls, if the  *)
(* operations that use the socket without the mutex are called Alone.      *)
(***************************************************************************)
THEOREM InvHolds ==
  ASSUME Unlocked \subseteq Alone
  PROVE  Spec => []Inv
BY InitInv, InvStep, PTL DEF Spec


-----------------------------------------------------------------------------
(***************************************************************************)
(* What follows from the invariant.                                        *)
(***************************************************************************)
\* A set of numbers that is not empty has a least one.
LEMMA FirstIndex ==
  ASSUME NEW S, S \subseteq Nat, S # {}
  PROVE  \E d \in S : \A e \in S : d <= e
<1> DEFINE R == OpToRel(<, Nat)
<1>1. IsWellFoundedOn(R, Nat)
  BY NatLessThanWellFounded
<1>2. R = {r \in Nat \X Nat : r[1] < r[2]}
  BY DEF OpToRel
<1> HIDE DEF R
<1>3. \E d \in S : \A e \in S : ~(<<e, d>> \in R)
  BY <1>1, WFMin
<1>4. ASSUME NEW d \in Nat, NEW e \in Nat, <<e, d>> \notin R PROVE d <= e
  <2>1. <<e, d>> \in Nat \X Nat /\ <<e, d>>[1] = e /\ <<e, d>>[2] = d
    OBVIOUS
  <2>2. ~(e < d)
    BY <1>2, <1>4, <2>1
  <2> QED
    BY <2>2
<1> QED
  BY <1>3, <1>4

\* A sequence of steps starts with _mtx held exactly if there is an unlock in it
\* that comes before any lock.
LEMMA HeldFromStart ==
  ASSUME NEW f, NEW q, NEW w, q # <<>>, Program(f, q, w)
  PROVE  Held(q[1]) <=> \E i \in DOMAIN q : /\ q[i].do = "unlock"
                                            /\ \A j \in 1..(i - 1) : q[j].do # "lock"
<1>1. /\ q \in Seq(StepRec) /\ Len(q) \in Nat /\ Len(q) > 0 /\ MayEnd(q[Len(q)])
      /\ \A i \in 1..(Len(q) - 1) : Follows(f, q[i], q[i + 1])
      /\ DOMAIN q = 1..Len(q)
  BY DEF Program, Runs
<1>2. ASSUME Held(q[1])
      PROVE  \E i \in DOMAIN q : /\ q[i].do = "unlock"
                                 /\ \A j \in 1..(i - 1) : q[j].do # "lock"
  <2> DEFINE S == {i \in 1..Len(q) : ~(Held(q[i]) /\ q[i].do # "unlock")}
  <2>1. S \subseteq Nat /\ Len(q) \in S
    BY <1>1 DEF MayEnd
  <2>2. PICK d \in S : \A e \in S : d <= e
    BY <2>1, FirstIndex
  <2>3. \A j \in 1..(d - 1) : Held(q[j]) /\ q[j].do # "unlock"
    <3> SUFFICES ASSUME NEW j \in 1..(d - 1), ~(Held(q[j]) /\ q[j].do # "unlock") PROVE FALSE
      OBVIOUS
    <3>1. j \in 1..Len(q) /\ j < d
      BY <1>1, <2>2
    <3> QED
      BY <2>2, <3>1
  <2>4. Held(q[d])
    <3>1. CASE d = 1
      BY <1>2, <3>1
    <3>2. CASE d # 1
      <4>1. d - 1 \in 1..(d - 1) /\ d - 1 \in 1..(Len(q) - 1) /\ (d - 1) + 1 = d
        BY <1>1, <2>2, <3>2
      <4>2. Follows(f, q[d - 1], q[d]) /\ Held(q[d - 1]) /\ q[d - 1].do # "unlock"
        BY <1>1, <2>3, <4>1
      <4> QED
        BY <4>2 DEF Follows
    <3> QED
      BY <3>1, <3>2
  <2>5. q[d].do = "unlock" /\ d \in DOMAIN q
    BY <1>1, <2>2, <2>4
  <2>6. \A j \in 1..(d - 1) : q[j].do # "lock"
    BY <2>3 DEF Held
  <2> QED
    BY <2>5, <2>6
<1>3. ASSUME NEW i \in DOMAIN q, q[i].do = "unlock",
             \A j \in 1..(i - 1) : q[j].do # "lock", ~Held(q[1])
      PROVE  FALSE
  <2> DEFINE S == {j \in 1..Len(q) : Held(q[j])}
  <2>1. S \subseteq Nat /\ i \in S
    BY <1>1, <1>3 DEF Held
  <2>2. PICK d \in S : \A e \in S : d <= e
    BY <2>1, FirstIndex
  <2>3. d # 1 /\ d \in 1..Len(q) /\ i \in 1..Len(q) /\ d <= i
    BY <1>1, <1>3, <2>1, <2>2
  <2>4. /\ d - 1 \in 1..(i - 1) /\ d - 1 \in 1..(Len(q) - 1) /\ (d - 1) + 1 = d
        /\ d - 1 \in 1..Len(q) /\ ~(d <= d - 1)
    BY <1>1, <2>3
  <2>5. ~Held(q[d - 1]) /\ Held(q[d]) /\ Follows(f, q[d - 1], q[d])
    BY <1>1, <2>2, <2>4
  <2>6. q[d - 1].do = "lock"
    BY <2>5 DEF Follows
  <2> QED
    BY <1>3, <2>4, <2>6
<1> QED
  BY <1>2, <1>3

LEMMA InvTypeOK == Inv => TypeOK
<1> SUFFICES ASSUME Inv PROVE TypeOK
  OBVIOUS
<1>1. ASSUME NEW u \in User
      PROVE  /\ op[u] = "none" <=> todo[u] = <<>>
             /\ mtx = u <=> \E i \in DOMAIN todo[u] :
                              /\ todo[u][i].do = "unlock"
                              /\ \A j \in 1..(i - 1) : todo[u][j].do # "lock"
  <2>1. op[u] = "none" <=> todo[u] = <<>>
    BY DEF Inv, Programs
  <2>2. CASE todo[u] = <<>>
    <3>1. DOMAIN todo[u] = {} /\ mtx # u
      BY <2>2 DEF Inv, Mutex
    <3> QED
      BY <2>1, <3>1
  <2>3. CASE todo[u] # <<>>
    <3>1. Program(op[u], todo[u], val) /\ (mtx = u <=> Held(todo[u][1]))
      BY <2>3 DEF Inv, Programs, Mutex
    <3> QED
      BY <2>1, <2>3, <3>1, HeldFromStart
  <2> QED
    BY <2>2, <2>3
<1> QED
  BY <1>1 DEF Inv, Types, TypeOK

LEMMA InvOwnReply ==
  ASSUME Inv, Unlocked \subseteq Alone
  PROVE  OwnReply
<1> SUFFICES ASSUME NEW u \in User, At(u, "recv"), back # <<>>
             PROVE  /\ Len(back) = 1 /\ back[1].by = u
                    /\ back[1].cmd = Head(todo[u]).cmd /\ back[1].arg = Head(todo[u]).arg
  BY DEF OwnReply
<1>1. todo[u] # <<>> /\ Head(todo[u]) = todo[u][1] /\ todo[u][1].do = "recv"
  BY AtStep DEF Inv, At
<1>2. Len(back) = 1 /\ \E v \in User : Waits(v, back[1])
  BY DEF Inv, Exchange
<1>3. PICK v \in User : Waits(v, back[1])
  BY <1>2
<1>4. v = u
  BY <1>1, <1>3, OnlyOne DEF Inv, Uses, Waits
<1> QED
  BY <1>1, <1>2, <1>3, <1>4 DEF Waits

\* A step of a thread that makes a Value older.
LEMMA StaleStep ==
  ASSUME Inv, Unlocked \subseteq Alone, [Next]_vars,
         NEW a \in Atom, lval'[a] < lval[a]
  PROVE  \E u \in User : op[u] = "runQuery" /\ At(u, "set") /\ SetValue(u)
<1>1. lval[a] \in Nat /\ val[a] \in Nat /\ lval[a] <= val[a] /\ lval \in [Atom -> 0..ver]
  BY DEF Inv, Types, Fresh
<1>2. lval' # lval
  BY <1>1
<1>3. ASSUME NEW u \in User, NEW then \in {"set", "keys"}, RecvSet(u, then)
      PROVE  FALSE
  <2> DEFINE x == todo[u][1]
  <2>1. DoRecv(u, then)
    BY <1>3 DEF RecvSet
  <2>2. /\ Head(todo[u]) = x /\ x.then = then /\ x.do = "recv" /\ StepOK(op[u], x, val)
        /\ ReplyOK(back[1]) /\ back[1].cmd = x.cmd /\ back[1].arg = x.arg
    BY <2>1, RecvFacts
  <2>3. lval' = [lval EXCEPT ![x.arg] = back[1].stamp]
    BY <1>2, <1>3, <2>2 DEF RecvSet
  <2> HIDE DEF x
  <2>4. x.cmd \in Stamped
    BY <2>2 DEF StepOK, UseOK, Stamped
  <2>5. x.arg \in Atom /\ back[1].stamp = val[x.arg]
    BY <2>2, <2>4 DEF ReplyOK
  <2> QED
    BY <1>1, <2>3, <2>5
<1>4. ASSUME NEW u \in User, SetValue(u)
      PROVE  op[u] = "runQuery" /\ At(u, "set")
  <2>1. At(u, "set") /\ todo[u] # <<>>
    BY <1>4 DEF SetValue, At
  <2>2. StepOK(op[u], todo[u][1], val) /\ todo[u][1].do = "set"
    BY <2>1, AtStep DEF Inv, At
  <2> QED
    BY <2>1, <2>2 DEF StepOK
<1>5. ASSUME NEW u \in User, Operation(u)
      PROVE  FALSE
  <2>1. PICK f \in Ops : \E q : Call(u, f, q)
    BY <1>5, OperationStarts DEF Inv
  <2> QED
    BY <1>2, <2>1 DEF Call, locVars
<1>6. ASSUME NEW u \in User, UserStep(u)
      PROVE  SetValue(u)
  <2>1. ~(\E then \in {"set", "keys"} : RecvSet(u, then))
    BY <1>3
  <2>2. /\ ~LockMtx(u) /\ ~UnlockMtx(u) /\ ~DoSend(u) /\ ~SendSignals(u) /\ ~DoRecvFails(u)
        /\ ~RecvDrop(u) /\ ~RecvKeep(u) /\ ~RecvProbe(u) /\ ~RecvList(u) /\ ~RecvFrames(u)
    BY <1>2 DEF LockMtx, UnlockMtx, DoSend, SendSignals, DoRecvFails, RecvDrop, RecvKeep,
                RecvProbe, RecvList, RecvFrames, locVars
  <2>3. /\ ~DecodeAtom(u) /\ ~StoreNext(u) /\ ~FindFrame(u) /\ ~CacheFrame(u)
        /\ ~EncodeAtom(u) /\ ~SetFlags(u) /\ ~CloseSock(u) /\ ~Connect(u)
    BY <1>2 DEF DecodeAtom, StoreNext, FindFrame, CacheFrame, EncodeAtom, SetFlags,
                CloseSock, Connect, locVars
  <2> QED
    BY <1>6, <2>1, <2>2, <2>3 DEF UserStep
<1>7. ~ServerExec /\ ~ServerDrops /\ ~UNCHANGED vars
  BY <1>2 DEF ServerExec, ServerDrops, vars, locVars
<1> QED
  BY <1>4, <1>5, <1>6, <1>7 DEF Next

(***************************************************************************)
(* Every path out of an operation lets go of _mtx, those of exceptions     *)
(* too: a thread holds it exactly while it has an unlock to come to.       *)
(***************************************************************************)
THEOREM TypeOKHolds ==
  ASSUME Unlocked \subseteq Alone
  PROVE  Spec => []TypeOK
BY InvHolds, InvTypeOK, PTL

(***************************************************************************)
(* The threads that share the socket of a CogSimpleStorageNode do not get  *)
(* each other's replies, however many they are and whatever connections    *)
(* are lost.                                                               *)
(***************************************************************************)
THEOREM OwnReplyHolds ==
  ASSUME Unlocked \subseteq Alone
  PROVE  Spec => []OwnReply
BY InvHolds, InvOwnReply, PTL

(***************************************************************************)
(* A Value that was fetched is replaced by an older one in one place only, *)
(* where runQuery sets its result after it has let go of the lock.         *)
(***************************************************************************)
THEOREM NeverStaleHolds ==
  ASSUME Unlocked \subseteq Alone
  PROVE  Spec => NeverStale
<1>1. ASSUME Inv, [Next]_vars
      PROVE  [\A a \in Atom : lval'[a] < lval[a] =>
                \E u \in User : op[u] = "runQuery" /\ At(u, "set") /\ SetValue(u)]_vars
  BY <1>1, StaleStep
<1> QED
  BY <1>1, InvHolds, PTL DEF NeverStale, Spec

=============================================================================
