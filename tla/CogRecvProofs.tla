--------------------------- MODULE CogRecvProofs ----------------------------
(***************************************************************************)
(* do_recv stays inside of its buffer and returns whole replies, for any   *)
(* prompt, replies, buffer length and number of idle bytes.                *)
(***************************************************************************)
EXTENDS CogRecv, SequenceTheorems, WellFoundedInduction, TLAPS

Char == Byte \cup {Idle}

-----------------------------------------------------------------------------
(***************************************************************************)
(* Trimming a chunk.                                                       *)
(***************************************************************************)
\* A set of numbers that is not empty has a least one.
LEMMA LeastNat ==
  ASSUME NEW S, S \subseteq Nat, S # {}
  PROVE  \E d \in S : \A e \in S : d <= e
<1> DEFINE R == OpToRel(<, Nat)
<1>1. IsWellFoundedOn(R, Nat)
  BY NatLessThanWellFounded
<1>2. R = {r \in Nat \X Nat : r[1] < r[2]}
  BY DEF OpToRel
<1> HIDE DEF R
<1>3. \E d \in S : \A e \in S : ~(<<e, d>> \in R)
  BY <1>1, WFMin
<1>4. ASSUME NEW d \in Nat, NEW e \in Nat, <<e, d>> \notin R PROVE d <= e
  <2>1. <<e, d>> \in Nat \X Nat /\ <<e, d>>[1] = e /\ <<e, d>>[2] = d
    OBVIOUS
  <2>2. ~(e < d)
    BY <1>2, <1>4, <2>1
  <2> QED
    BY <2>2
<1> QED
  BY <1>3, <1>4

\* A part of a sequence, without its first i elements and those after j.
LEMMA SubSeqFacts ==
  ASSUME NEW S, NEW q \in Seq(S), NEW i \in Nat, NEW j \in Nat, i <= j, j <= Len(q)
  PROVE  /\ SubSeq(q, i + 1, j) \in Seq(S) /\ Len(SubSeq(q, i + 1, j)) = j - i
         /\ \A k \in 1..(j - i) : SubSeq(q, i + 1, j)[k] = q[i + k]
OBVIOUS

\* The first loop of do_recv stops where it should.
LEMMA SkipFacts ==
  ASSUME NEW c \in Seq(Char)
  PROVE  /\ Skip(c) \in 0..Len(c) /\ AllIdle(c, 1, Skip(c))
         /\ Skip(c) < Len(c) => c[Skip(c) + 1] # Idle
<1>1. \E n \in 0..Len(c) : AllIdle(c, 1, n) /\ (n < Len(c) => c[n + 1] # Idle)
  <2>1. CASE AllIdle(c, 1, Len(c))
    BY <2>1
  <2>2. CASE ~AllIdle(c, 1, Len(c))
    <3> DEFINE S == {k \in 1..Len(c) : c[k] # Idle}
    <3>1. S \subseteq Nat /\ S # {}
      BY <2>2 DEF AllIdle
    <3>2. PICK k \in S : \A e \in S : k <= e
      BY <3>1, LeastNat
    <3>3. k - 1 \in 0..Len(c) /\ c[(k - 1) + 1] # Idle
      BY <3>2
    <3>4. AllIdle(c, 1, k - 1)
      BY <3>2 DEF AllIdle
    <3> QED
      BY <3>3, <3>4
  <2> QED
    BY <2>1, <2>2
<1> QED
  BY <1>1 DEF Skip

\* So does the second one.
LEMMA LenLeftFacts ==
  ASSUME NEW c \in Seq(Char)
  PROVE  /\ LenLeft(c) \in 0..Len(c) /\ AllIdle(c, LenLeft(c) + 1, Len(c))
         /\ LenLeft(c) > 0 => c[LenLeft(c)] # Idle
<1>1. \E n \in 0..Len(c) : AllIdle(c, n + 1, Len(c)) /\ (n > 0 => c[n] # Idle)
  <2>1. CASE AllIdle(c, 1, Len(c))
    BY <2>1 DEF AllIdle
  <2>2. CASE ~AllIdle(c, 1, Len(c))
    <3> DEFINE S == {k \in 0..(Len(c) - 1) : c[Len(c) - k] # Idle}
    <3>1. PICK i \in 1..Len(c) : c[i] # Idle
      BY <2>2 DEF AllIdle
    <3>2. Len(c) - i \in 0..(Len(c) - 1) /\ Len(c) - (Len(c) - i) = i
      OBVIOUS
    <3>3. S \subseteq Nat /\ Len(c) - i \in S
      BY <3>1, <3>2
    <3>4. PICK k \in S : \A e \in S : k <= e
      BY <3>3, LeastNat
    <3> DEFINE n == Len(c) - k
    <3>5. n \in 0..Len(c) /\ c[n] # Idle
      BY <3>4
    <3>6. ASSUME NEW j \in (n + 1)..Len(c) PROVE c[j] = Idle
      <4>1. Len(c) - j \in 0..(Len(c) - 1) /\ Len(c) - (Len(c) - j) = j /\ Len(c) - j < k
        OBVIOUS
      <4> QED
        BY <3>4, <4>1, SMTT(30)
    <3> QED
      BY <3>5, <3>6 DEF AllIdle
  <2> QED
    BY <2>1, <2>2
<1> QED
  BY <1>1 DEF LenLeft

\* A chunk of idle bytes is skipped.
LEMMA TrimIdle ==
  ASSUME NEW c \in Seq(Char), AllIdle(c, 1, Len(c))
  PROVE  Skip(c) = Len(c) /\ LenLeft(c) = 0
<1>1. Skip(c) = Len(c)
  BY SkipFacts DEF AllIdle
<1>2. LenLeft(c) = 0
  BY LenLeftFacts DEF AllIdle
<1> QED
  BY <1>1, <1>2

\* Of any other chunk, something is left.
LEMMA TrimText ==
  ASSUME NEW c \in Seq(Char), ~AllIdle(c, 1, Len(c))
  PROVE  /\ Skip(c) \in Nat /\ LenLeft(c) \in 1..Len(c) /\ Skip(c) < LenLeft(c)
         /\ Trimmed(c) \in Seq(Char) /\ Len(Trimmed(c)) = LenLeft(c) - Skip(c)
         /\ \A k \in 1..Len(Trimmed(c)) : Trimmed(c)[k] = c[Skip(c) + k]
<1> DEFINE s == Skip(c)
           e == LenLeft(c)
<1>1. s \in 0..Len(c) /\ AllIdle(c, 1, s) /\ (s < Len(c) => c[s + 1] # Idle)
  BY SkipFacts
<1>2. e \in 0..Len(c) /\ AllIdle(c, e + 1, Len(c)) /\ (e > 0 => c[e] # Idle)
  BY LenLeftFacts
<1> HIDE DEF s, e
<1>3. s # Len(c)
  BY <1>1
<1>4. s < e
  BY <1>1, <1>2, <1>3 DEF AllIdle
<1>5. /\ SubSeq(c, s + 1, e) \in Seq(Char) /\ Len(SubSeq(c, s + 1, e)) = e - s
      /\ \A k \in 1..(e - s) : SubSeq(c, s + 1, e)[k] = c[s + k]
  BY <1>1, <1>2, <1>4, SubSeqFacts
<1>6. Trimmed(c) = SubSeq(c, s + 1, e)
  BY DEF Trimmed, s, e
<1>7. /\ Trimmed(c) \in Seq(Char) /\ Len(Trimmed(c)) = e - s
      /\ \A k \in 1..(e - s) : Trimmed(c)[k] = c[s + k]
  BY <1>5, <1>6, Zenon
<1> QED
  BY <1>1, <1>2, <1>4, <1>7 DEF s, e

\* What recv() returns, and what it leaves.
LEMMA ChunkFacts ==
  ASSUME NEW q \in Seq(Char), NEW n \in 1..Len(q)
  PROVE  /\ SubSeq(q, 1, n) \in Seq(Char) /\ Len(SubSeq(q, 1, n)) = n
         /\ \A k \in 1..n : SubSeq(q, 1, n)[k] = q[k]
         /\ SubSeq(q, n + 1, Len(q)) \in Seq(Char)
         /\ Len(SubSeq(q, n + 1, Len(q))) = Len(q) - n
         /\ \A k \in 1..(Len(q) - n) : SubSeq(q, n + 1, Len(q))[k] = q[n + k]
<1>1. /\ SubSeq(q, 0 + 1, n) \in Seq(Char) /\ Len(SubSeq(q, 0 + 1, n)) = n - 0
      /\ \A k \in 1..(n - 0) : SubSeq(q, 0 + 1, n)[k] = q[0 + k]
  BY SubSeqFacts
<1>2. /\ SubSeq(q, n + 1, Len(q)) \in Seq(Char)
      /\ Len(SubSeq(q, n + 1, Len(q))) = Len(q) - n
      /\ \A k \in 1..(Len(q) - n) : SubSeq(q, n + 1, Len(q))[k] = q[n + k]
  BY SubSeqFacts
<1> QED
  BY <1>1, <1>2

-----------------------------------------------------------------------------
(***************************************************************************)
(* The inductive invariant.                                                *)
(***************************************************************************)
\* Of message m, rb holds the beginning and wire the rest, from a to b, among
\* idle bytes only.
Split(m, a, b) ==
  /\ a \in 0..Len(wire) /\ b \in 0..Len(wire) /\ a < b
  /\ Len(rb) + (b - a) = Len(m)
  /\ \A k \in 1..Len(rb) : rb[k] = m[k]
  /\ \A k \in 1..a : wire[k] = Idle
  /\ \A k \in (a + 1)..b : wire[k] = m[Len(rb) + (k - a)]
  /\ \A k \in (b + 1)..Len(wire) : wire[k] = Idle

\* What the server sends ends with a newline, except for the prompt.
Messages ==
  \A k \in 1..Len(sent) : k > 1 => sent[k][Len(sent[k])] = Newline

\* Between calls nothing is on the wire; within a call, the message it is for.
InOrder ==
  /\ garbage <=> asked = 1
  /\ pc = "recv" /\ garbage => first_time
  /\ pc = "ready" => Len(got) = asked /\ Len(sent) = asked /\ AllIdle(wire, 1, Len(wire))
  /\ pc = "recv" =>
       /\ Len(got) = asked - 1
       /\ \/ Len(sent) = asked - 1 /\ rb = <<>> /\ AllIdle(wire, 1, Len(wire))
          \/ Len(sent) = asked /\ \E a, b \in 0..Len(wire) : Split(sent[asked], a, b)

Inv == TypeOK /\ InBounds /\ Messages /\ (clean => InOrder /\ WholeReply)

\* The turns of the loop: the chunk is idle, or it is looked at.
LEMMA TurnCases ==
  ASSUME NEW c \in Seq(Char), Turn(c), outside \in BOOLEAN
  PROVE  /\ outside' = outside
         /\ \/ AllIdle(c, 1, Len(c)) /\ Continues
            \/ ~AllIdle(c, 1, Len(c)) /\ (ReturnsFirst(c) \/ ReturnsAll(c) \/ GoesOn(c))
<1>1. AllIdle(c, 1, Len(c)) <=> Skip(c) = Len(c)
  BY TrimIdle, SkipFacts
<1>2. AllIdle(c, 1, Len(c)) <=> LenLeft(c) = 0
  <2>1. LenLeft(c) = 0 => AllIdle(c, 1, Len(c))
    BY LenLeftFacts
  <2> QED
    BY <2>1, TrimIdle
<1>3. outside' = outside
  <2>1. outside' = (outside \/ (Skip(c) # Len(c) /\ LenLeft(c) = 0))
    BY DEF Turn
  <2>2. ~(Skip(c) # Len(c) /\ LenLeft(c) = 0)
    BY <1>1, <1>2
  <2> QED
    BY <2>1, <2>2
<1>4. \/ AllIdle(c, 1, Len(c)) /\ Continues
      \/ ~AllIdle(c, 1, Len(c)) /\ (ReturnsFirst(c) \/ ReturnsAll(c) \/ GoesOn(c))
  BY <1>1, <1>2 DEF Turn
<1> QED
  BY <1>3, <1>4

\* What recv() gives to the loop.
LEMMA DoRecvCases ==
  ASSUME TypeOK, DoRecv
  PROVE  \E n \in 1..Len(wire), c \in Seq(Char) :
           /\ Len(c) = n /\ \A k \in 1..n : c[k] = wire[k]
           /\ wire' \in Seq(Char) /\ Len(wire') = Len(wire) - n
           /\ \A k \in 1..(Len(wire) - n) : wire'[k] = wire[n + k]
           /\ clean' = (clean /\ ~CutAt(c, wire'))
           /\ Turn(c)
<1>1. PICK n \in 1..Len(wire) :
        /\ wire' = SubSeq(wire, n + 1, Len(wire))
        /\ clean' = (clean /\ ~CutAt(SubSeq(wire, 1, n), wire'))
        /\ Turn(SubSeq(wire, 1, n))
  BY DEF DoRecv
<1> DEFINE c == SubSeq(wire, 1, n)
<1>2. /\ c \in Seq(Char) /\ Len(c) = n /\ \A k \in 1..n : c[k] = wire[k]
      /\ wire' \in Seq(Char) /\ Len(wire') = Len(wire) - n
      /\ \A k \in 1..(Len(wire) - n) : wire'[k] = wire[n + k]
  <2>1. wire \in Seq(Char)
    BY DEF TypeOK, Char
  <2> QED
    BY <1>1, <2>1, ChunkFacts
<1>3. Turn(c) /\ clean' = (clean /\ ~CutAt(c, wire'))
  BY <1>1
<1> HIDE DEF c
<1> QED
  BY <1>2, <1>3

-----------------------------------------------------------------------------
(***************************************************************************)
(* Types, and the bounds of the buffer.                                    *)
(***************************************************************************)
LEMMA InitInv == Init => Inv
<1> SUFFICES ASSUME Init PROVE Inv
  OBVIOUS
<1>1. TypeOK
  <2>1. /\ rb = <<>> /\ first_time /\ rb \in Seq(Byte \cup {Idle})
        /\ wire \in Seq(Byte \cup {Idle}) /\ sent \in Seq(Text)
        /\ got \in Seq(Seq(Byte \cup {Idle}))
    BY DEF Init
  <2>2. asked \in 1..MaxMessages /\ idles \in 0..MaxIdle
    BY BoundAssumption DEF Init
  <2>3. /\ pc \in {"recv", "ready"} /\ garbage \in BOOLEAN /\ first_time \in BOOLEAN
        /\ clean \in BOOLEAN /\ outside \in BOOLEAN
    BY DEF Init
  <2> QED
    BY <2>1, <2>2, <2>3 DEF TypeOK
<1>2. InBounds /\ Messages /\ InOrder /\ WholeReply
  BY DEF Init, InBounds, Messages, InOrder, WholeReply, AllIdle
<1> QED
  BY <1>1, <1>2 DEF Inv

LEMMA DoRecvTypes ==
  ASSUME TypeOK, InBounds, DoRecv
  PROVE  TypeOK' /\ InBounds'
<1>1. PICK n \in 1..Len(wire), c \in Seq(Char) :
        wire' \in Seq(Char) /\ clean' = (clean /\ ~CutAt(c, wire')) /\ Turn(c)
  BY DoRecvCases
<1>2. outside' = outside
  BY <1>1, TurnCases DEF TypeOK
<1>3. UNCHANGED <<asked, sent, idles>> /\ pc = "recv" /\ clean' \in BOOLEAN
  BY <1>1 DEF DoRecv
<1>4. /\ pc' \in {"recv", "ready"} /\ garbage' \in BOOLEAN /\ first_time' \in BOOLEAN
      /\ rb' \in Seq(Char) /\ (pc' = "recv" => (first_time' <=> rb' = <<>>))
      /\ got' \in Seq(Seq(Char))
  <2>0. rb \in Seq(Char) /\ got \in Seq(Seq(Char))
    BY DEF TypeOK, Char
  <2>1. CASE AllIdle(c, 1, Len(c)) /\ Continues
    BY <2>0, <2>1 DEF Continues, TypeOK
  <2>2. CASE ~AllIdle(c, 1, Len(c)) /\ (ReturnsFirst(c) \/ ReturnsAll(c) \/ GoesOn(c))
    <3>1. Trimmed(c) \in Seq(Char) /\ Len(Trimmed(c)) > 0
      BY <2>2, TrimText
    <3>2. /\ rb \o Trimmed(c) \in Seq(Char)
          /\ Len(rb \o Trimmed(c)) > 0
      BY <2>0, <3>1, ConcatProperties
    <3>3. rb \o Trimmed(c) # <<>>
      BY <3>2
    <3>4. CASE ReturnsFirst(c) \/ ReturnsAll(c)
      <4>1. /\ pc' = "ready" /\ UNCHANGED <<garbage, rb, first_time>>
            /\ got' = Append(got, Trimmed(c)) \/ got' = Append(got, rb \o Trimmed(c))
        BY <3>4 DEF ReturnsFirst, ReturnsAll, Return
      <4>2. got' \in Seq(Seq(Char))
        <5>1. PICK x \in Seq(Char) : got' = Append(got, x)
          BY <3>1, <3>2, <4>1, Zenon
        <5> QED
          BY <2>0, <5>1
      <4> QED
        BY <2>0, <4>1, <4>2 DEF TypeOK
    <3>5. CASE GoesOn(c)
      BY <2>0, <3>2, <3>3, <3>5 DEF GoesOn, TypeOK
    <3> QED
      BY <2>2, <3>4, <3>5
  <2> QED
    BY <1>1, <2>1, <2>2, TurnCases DEF TypeOK
<1>5. TypeOK'
  BY <1>1, <1>2, <1>3, <1>4 DEF TypeOK, Char
<1> QED
  BY <1>2, <1>5 DEF InBounds

LEMMA TypesStep ==
  ASSUME TypeOK, InBounds, Messages, [Next]_vars
  PROVE  TypeOK' /\ InBounds' /\ Messages'
<1>1. CASE Request
  <2>1. TypeOK'
    <3>1. /\ first_time' = TRUE /\ garbage' = FALSE /\ rb' = <<>> /\ pc' = "recv"
      BY <1>1 DEF Request
    <3>2. <<>> \in Seq(Byte \cup {Idle})
      OBVIOUS
    <3>3. asked' \in 1..MaxMessages
      BY <1>1, BoundAssumption DEF Request, TypeOK
    <3> QED
      BY <1>1, <3>1, <3>2, <3>3 DEF Request, TypeOK
  <2> QED
    BY <1>1, <2>1 DEF Request, InBounds, Messages
<1>2. CASE DoRecv
  BY <1>2, DoRecvTypes DEF DoRecv, Messages
<1>3. CASE Answer
  <2>1. PICK m \in (IF sent = <<>> THEN {Prompt} ELSE Reply) :
          wire' = wire \o m /\ sent' = Append(sent, m)
    BY <1>3 DEF Answer
  <2>2. m \in Text /\ m \in Seq(Byte) /\ (sent # <<>> => m[Len(m)] = Newline)
    BY <2>1, MessageAssumption DEF Text
  <2>3. sent' \in Seq(Text) /\ wire' \in Seq(Byte \cup {Idle})
    <3>1. m \in Seq(Byte \cup {Idle})
      BY <2>2
    <3> QED
      BY <2>1, <2>2, <3>1 DEF TypeOK
  <2>4. TypeOK'
    BY <1>3, <2>3 DEF Answer, TypeOK
  <2>5. Messages'
    <3>1. /\ Len(sent') = Len(sent) + 1 /\ sent'[Len(sent) + 1] = m /\ Len(sent) \in Nat
          /\ \A k \in 1..Len(sent) : sent'[k] = sent[k]
      BY <2>1, <2>2 DEF TypeOK
    <3>2. Len(sent) > 0 => m[Len(m)] = Newline
      BY <2>2 DEF TypeOK
    <3> QED
      BY <3>1, <3>2 DEF Messages
  <2> QED
    BY <1>3, <2>4, <2>5 DEF Answer, InBounds
<1>4. CASE SendIdle
  <2>1. wire' \in Seq(Byte \cup {Idle})
    BY <1>4 DEF SendIdle, TypeOK
  <2>2. TypeOK'
    BY <1>4, <2>1, BoundAssumption DEF SendIdle, TypeOK
  <2> QED
    BY <1>4, <2>2 DEF SendIdle, InBounds, Messages
<1>5. CASE UNCHANGED vars
  BY <1>5 DEF vars, TypeOK, InBounds, Messages
<1> QED
  BY <1>1, <1>2, <1>3, <1>4, <1>5 DEF Next

-----------------------------------------------------------------------------
(***************************************************************************)
(* Whole replies.                                                          *)
(***************************************************************************)
\* The last byte of the message in a chunk of n bytes.
End(n, b) == IF n < b THEN n ELSE b

\* With chunk c, rb will hold message m up to where the chunk ends in it, at e.
GoesOnTo(m, a, c, e) ==
  /\ ~AllIdle(c, 1, Len(c)) /\ LenLeft(c) = e /\ c[e] = m[Len(rb) + (e - a)]
  /\ rb \o Trimmed(c) \in Seq(Char) /\ Len(rb \o Trimmed(c)) = Len(rb) + (e - a)
  /\ \A k \in 1..(Len(rb) + (e - a)) : (rb \o Trimmed(c))[k] = m[k]

\* A chunk with some of the message: its idle bytes are trimmed, and what is
\* left goes on from rb.
LEMMA TextChunk ==
  ASSUME TypeOK, NEW m \in Seq(Byte), NEW a \in Nat, NEW b \in Nat, Split(m, a, b),
         NEW n \in 1..Len(wire), a < n,
         NEW c \in Seq(Char), Len(c) = n, \A k \in 1..n : c[k] = wire[k],
         NEW e \in Nat, e = End(n, b)
  PROVE  GoesOnTo(m, a, c, e)
<1>0. /\ rb \in Seq(Char) /\ wire \in Seq(Char) /\ Len(rb) \in Nat /\ Len(wire) \in Nat
      /\ Len(m) \in Nat
  BY DEF TypeOK, Char
<1>1. /\ a < b /\ b <= Len(wire) /\ Len(rb) + (b - a) = Len(m)
      /\ \A k \in 1..Len(rb) : rb[k] = m[k]
      /\ \A k \in 1..a : wire[k] = Idle
      /\ \A k \in (a + 1)..b : wire[k] = m[Len(rb) + (k - a)]
      /\ \A k \in (b + 1)..Len(wire) : wire[k] = Idle
  BY <1>0 DEF Split
<1>2. \A k \in 1..Len(m) : m[k] # Idle
  BY ByteAssumption
<1>3. \A k \in (a + 1)..b : wire[k] # Idle
  <2>1. \A k \in (a + 1)..b : Len(rb) + (k - a) \in 1..Len(m)
    BY <1>0, <1>1
  <2> QED
    BY <1>1, <1>2, <2>1
<1>4. a < e /\ e <= n /\ e <= b /\ e \in (a + 1)..b /\ e \in 1..n /\ a + 1 \in 1..n
  <2>1. (n < b /\ e = n) \/ (~(n < b) /\ e = b)
    BY DEF End
  <2>2. n \in Nat /\ a < b
    BY <1>0, <1>1
  <2> QED
    BY <2>1, <2>2
<1>5. c[a + 1] # Idle /\ c[e] # Idle /\ c[e] = m[Len(rb) + (e - a)]
  <2>1. a + 1 \in (a + 1)..b
    BY <1>1
  <2> QED
    BY <1>1, <1>3, <1>4, <2>1
<1>6. ~AllIdle(c, 1, Len(c))
  BY <1>4, <1>5 DEF AllIdle
<1>7. Skip(c) = a
  <2>1. Skip(c) \in 0..n /\ AllIdle(c, 1, Skip(c)) /\ (Skip(c) < n => c[Skip(c) + 1] # Idle)
    BY SkipFacts
  <2>2. ~(a < Skip(c))
    BY <1>4, <1>5, <2>1 DEF AllIdle
  <2>3. ~(Skip(c) < a)
    <3>1. SUFFICES ASSUME Skip(c) < a PROVE FALSE
      OBVIOUS
    <3>2. Skip(c) + 1 \in 1..a /\ Skip(c) + 1 \in 1..n /\ Skip(c) < n
      BY <2>1, <3>1
    <3> QED
      BY <1>1, <2>1, <3>2
  <2> QED
    BY <2>1, <2>2, <2>3
<1>8. LenLeft(c) = e
  <2>1. /\ LenLeft(c) \in 0..n /\ AllIdle(c, LenLeft(c) + 1, n)
        /\ LenLeft(c) > 0 => c[LenLeft(c)] # Idle
    BY LenLeftFacts
  <2>2. ~(LenLeft(c) < e)
    BY <1>4, <1>5, <2>1 DEF AllIdle
  <2>3. ~(e < LenLeft(c))
    <3>1. SUFFICES ASSUME e < LenLeft(c) PROVE FALSE
      OBVIOUS
    <3>2. LenLeft(c) \in 1..n /\ LenLeft(c) \in (b + 1)..Len(wire) /\ LenLeft(c) > 0
      BY <1>0, <1>1, <2>1, <3>1 DEF End
    <3> QED
      BY <1>1, <2>1, <3>2
  <2> QED
    BY <2>1, <2>2, <2>3
<1> DEFINE x == Trimmed(c)
<1>9. x \in Seq(Char) /\ Len(x) = e - a /\ \A k \in 1..(e - a) : x[k] = c[a + k]
  <2>1. /\ x \in Seq(Char) /\ Len(x) = LenLeft(c) - Skip(c)
        /\ \A k \in 1..Len(x) : x[k] = c[Skip(c) + k]
    BY <1>6, TrimText, Zenon
  <2> HIDE DEF x
  <2> QED
    BY <1>7, <1>8, <2>1
<1> HIDE DEF x
<1> DEFINE y == rb \o x
<1>10. /\ y \in Seq(Char) /\ Len(y) = Len(rb) + (e - a)
       /\ \A k \in 1..(Len(rb) + (e - a)) : y[k] = IF k <= Len(rb) THEN rb[k] ELSE x[k - Len(rb)]
  <2>1. /\ y \in Seq(Char) /\ Len(y) = Len(rb) + Len(x)
        /\ \A k \in 1..Len(rb) + Len(x) : y[k] = IF k <= Len(rb) THEN rb[k] ELSE x[k - Len(rb)]
    BY <1>0, <1>9, ConcatProperties, Zenon
  <2> HIDE DEF y
  <2> QED
    BY <1>9, <2>1
<1> HIDE DEF y
<1>11. ASSUME NEW k \in 1..(Len(rb) + (e - a)) PROVE y[k] = m[k]
  <2>1. CASE k <= Len(rb)
    <3>1. k \in 1..Len(rb)
      BY <1>0, <2>1
    <3> QED
      BY <1>1, <1>10, <2>1, <3>1
  <2>2. CASE ~(k <= Len(rb))
    <3> DEFINE j == k - Len(rb)
    <3>1. j \in 1..(e - a) /\ a + j \in (a + 1)..b /\ a + j \in 1..n
      BY <1>0, <1>4, <2>2
    <3>2. Len(rb) + ((a + j) - a) = k
      BY <1>0
    <3>3. y[k] = x[j]
      BY <1>10, <2>2
    <3> HIDE DEF j
    <3>4. y[k] = wire[a + j]
      BY <1>9, <3>1, <3>3
    <3> QED
      BY <1>1, <3>1, <3>2, <3>4
  <2> QED
    BY <2>1, <2>2
<1> QED
  BY <1>5, <1>6, <1>8, <1>10, <1>11 DEF x, y, GoesOnTo

\* A call that has its message, or waits for it, goes on or returns it.
LEMMA DoRecvInOrder ==
  ASSUME TypeOK, TypeOK', Messages, InOrder, WholeReply, DoRecv, clean'
  PROVE  InOrder' /\ WholeReply'
<1>1. PICK n \in 1..Len(wire), c \in Seq(Char) :
        /\ Len(c) = n /\ \A k \in 1..n : c[k] = wire[k]
        /\ wire' \in Seq(Char) /\ Len(wire') = Len(wire) - n
        /\ \A k \in 1..(Len(wire) - n) : wire'[k] = wire[n + k]
        /\ clean' = (clean /\ ~CutAt(c, wire'))
        /\ Turn(c)
  BY DoRecvCases
<1>2. UNCHANGED <<asked, sent>> /\ pc = "recv" /\ ~CutAt(c, wire') /\ clean
  BY <1>1 DEF DoRecv
<1>3. /\ asked \in Nat /\ asked >= 1 /\ Len(got) = asked - 1 /\ Len(got) \in Nat
      /\ wire \in Seq(Char) /\ rb \in Seq(Char) /\ Len(wire) \in Nat /\ Len(rb) \in Nat
      /\ got \in Seq(Seq(Char))
  <2>1. asked \in Nat /\ asked >= 1
    BY BoundAssumption DEF TypeOK
  <2>2. wire \in Seq(Char) /\ rb \in Seq(Char) /\ got \in Seq(Seq(Char))
    BY DEF TypeOK, Char
  <2>3. Len(got) = asked - 1
    BY <1>2 DEF InOrder
  <2> QED
    BY <2>1, <2>2, <2>3
<1>0. \A k \in 1..Len(got) : got[k] = sent[k]
  BY <1>2 DEF WholeReply
<1>10. n \in Nat /\ n >= 1 /\ n <= Len(wire) /\ Len(wire') = Len(wire) - n
  BY <1>1, <1>3
<1>4. CASE Len(sent) = asked - 1 /\ rb = <<>> /\ AllIdle(wire, 1, Len(wire))
  <2>1. AllIdle(c, 1, Len(c))
    BY <1>1, <1>3, <1>4 DEF AllIdle
  <2>2. UNCHANGED <<pc, garbage, rb, first_time, got>>
    BY <1>1, <2>1, TurnCases DEF TypeOK, Continues
  <2>3. AllIdle(wire', 1, Len(wire'))
    <3>1. \A k \in 1..Len(wire') : n + k \in 1..Len(wire)
      BY <1>1, <1>3
    <3> QED
      BY <1>1, <1>4, <3>1 DEF AllIdle
  <2>4. InOrder'
    BY <1>2, <1>4, <2>2, <2>3 DEF InOrder
  <2> QED
    BY <1>0, <1>2, <2>2, <2>4 DEF WholeReply
<1>5. ASSUME Len(sent) = asked, NEW a \in 0..Len(wire), NEW b \in 0..Len(wire),
             Split(sent[asked], a, b)
      PROVE  InOrder' /\ WholeReply'
  <2> DEFINE m == sent[asked]
  <2>1. m \in Seq(Byte) /\ Len(m) \in Nat /\ (~garbage => m[Len(m)] = Newline)
    <3>1. asked \in 1..Len(sent) /\ m \in Text
      BY <1>3, <1>5 DEF TypeOK
    <3>2. ~garbage => asked > 1
      BY <1>3 DEF InOrder
    <3> QED
      BY <3>1, <3>2 DEF Text, Messages
  <2>2. m' = m
    BY <1>2
  <2> HIDE DEF m
  <2>3. /\ Split(m, a, b) /\ a < b /\ Len(rb) + (b - a) = Len(m)
        /\ \A k \in 1..Len(rb) : rb[k] = m[k]
        /\ \A k \in 1..a : wire[k] = Idle
        /\ \A k \in (a + 1)..b : wire[k] = m[Len(rb) + (k - a)]
        /\ \A k \in (b + 1)..Len(wire) : wire[k] = Idle
    BY <1>5 DEF Split, m
  <2>4. CASE n <= a
    <3>1. AllIdle(c, 1, Len(c))
      BY <1>1, <1>3, <2>3, <2>4 DEF AllIdle
    <3>2. UNCHANGED <<pc, garbage, rb, first_time, got>>
      BY <1>1, <3>1, TurnCases DEF TypeOK, Continues
    <3> DEFINE a1 == a - n
               b1 == b - n
    <3>3. a1 \in 0..Len(wire') /\ b1 \in 0..Len(wire') /\ a1 < b1 /\ b1 - a1 = b - a
      BY <1>1, <1>3, <2>3, <2>4
    <3>4. \A k \in 1..a1 : wire'[k] = Idle
      <4>1. \A k \in 1..a1 : k \in 1..(Len(wire) - n) /\ n + k \in 1..a
        BY <1>3
      <4> QED
        BY <1>1, <2>3, <4>1
    <3>5. \A k \in (b1 + 1)..Len(wire') : wire'[k] = Idle
      <4>1. \A k \in (b1 + 1)..Len(wire') :
              k \in 1..(Len(wire) - n) /\ n + k \in (b + 1)..Len(wire)
        BY <1>1, <1>3, <2>3, <2>4
      <4> QED
        BY <1>1, <2>3, <4>1
    <3>6. ASSUME NEW k \in (a1 + 1)..b1 PROVE wire'[k] = m[Len(rb) + (k - a1)]
      <4>1. k \in 1..(Len(wire) - n) /\ n + k \in (a + 1)..b /\ (n + k) - a = k - a1
        BY <1>10, <2>3, <2>4, SMTT(30)
      <4>2. wire'[k] = wire[n + k]
        BY <1>1, <4>1
      <4>3. wire[n + k] = m[Len(rb) + ((n + k) - a)]
        BY <2>3, <4>1
      <4> QED
        BY <4>1, <4>2, <4>3
    <3> HIDE DEF a1, b1
    <3>7. Split(m, a1, b1)'
      BY <2>2, <2>3, <3>2, <3>3, <3>4, <3>5, <3>6 DEF Split
    <3>8. InOrder'
      BY <1>2, <1>5, <2>2, <3>2, <3>3, <3>7 DEF InOrder, m
    <3> QED
      BY <1>0, <1>2, <3>2, <3>8 DEF WholeReply
  <2>5. CASE a < n
    <3> DEFINE e == End(n, b)
    <3>1. e \in Nat /\ e = End(n, b) /\ a \in Nat /\ b \in Nat
      BY <1>10 DEF End
    <3> HIDE DEF e
    <3>2. /\ ~AllIdle(c, 1, Len(c)) /\ LenLeft(c) = e /\ c[e] = m[Len(rb) + (e - a)]
          /\ rb \o Trimmed(c) \in Seq(Char) /\ Len(rb \o Trimmed(c)) = Len(rb) + (e - a)
          /\ \A k \in 1..(Len(rb) + (e - a)) : (rb \o Trimmed(c))[k] = m[k]
      <4>1. GoesOnTo(m, a, c, e)
        BY <1>1, <2>1, <2>3, <2>5, <3>1, TextChunk
      <4> QED
        BY <4>1 DEF GoesOnTo
    <3>3. ReturnsFirst(c) \/ ReturnsAll(c) \/ GoesOn(c)
      BY <1>1, <3>2, TurnCases DEF TypeOK
    <3> DEFINE y == rb \o Trimmed(c)
    <3>4. CASE b <= n
      <4>1. e = b /\ c[e] = m[Len(m)] /\ Len(y) = Len(m)
        BY <2>3, <3>1, <3>2, <3>4 DEF End
      <4>2. y \in Seq(Char) /\ m \in Seq(Char) /\ \A k \in 1..Len(y) : y[k] = m[k]
        BY <2>1, <2>3, <3>2, <4>1, SMTT(30) DEF Char
      <4>3. y = m
        BY <4>1, <4>2, SeqEqual
      <4>4. first_time => Trimmed(c) = y
        <5>1. Trimmed(c) \in Seq(Char)
          BY <3>2, TrimText
        <5>2. first_time => rb = <<>>
          BY <1>2 DEF TypeOK
        <5> QED
          BY <5>1, <5>2, ConcatEmptySeq
      <4>5. ~GoesOn(c)
        BY <1>2, <2>1, <3>2, <4>1 DEF GoesOn, InOrder
      <4>6. /\ got' = Append(got, m) /\ pc' = "ready" /\ UNCHANGED garbage
        BY <3>3, <4>3, <4>4, <4>5 DEF ReturnsFirst, ReturnsAll, Return
      <4>7. AllIdle(wire', 1, Len(wire'))
        <5>1. \A k \in 1..Len(wire') :
                k \in 1..(Len(wire) - n) /\ n + k \in (b + 1)..Len(wire)
          BY <1>1, <1>3, <3>4
        <5> QED
          BY <1>1, <2>3, <5>1 DEF AllIdle
      <4>8. /\ Len(got') = asked /\ got'[asked] = m
            /\ \A k \in 1..(asked - 1) : got'[k] = got[k]
        <5>1. Len(got) + 1 = asked /\ \A k \in 1..(asked - 1) : k \in 1..Len(got)
          BY <1>3
        <5>2. /\ Len(got') = Len(got) + 1 /\ got'[Len(got) + 1] = m
              /\ \A k \in 1..Len(got) : got'[k] = got[k]
          BY <1>3, <4>2, <4>6, AppendProperties
        <5> QED
          BY <5>1, <5>2
      <4>9. InOrder'
        BY <1>2, <1>5, <4>6, <4>7, <4>8 DEF InOrder
      <4>10. WholeReply'
        <5>1. \A k \in 1..asked : got'[k] = sent[k]
          <6>1. \A k \in 1..asked : k = asked \/ k \in 1..(asked - 1)
            BY <1>3
          <6>2. m = sent[asked]
            BY DEF m
          <6> QED
            BY <1>0, <1>3, <4>8, <6>1, <6>2
        <5> QED
          BY <1>2, <4>8, <5>1 DEF WholeReply
      <4> QED
        BY <4>9, <4>10
    <3>5. CASE n < b
      <4>1. e = n /\ n \in 1..Len(c)
        BY <1>1, <3>1, <3>5 DEF End
      <4>2. ~AllIdle(wire', 1, Len(wire'))
        <5>1. /\ b - n \in 1..Len(wire') /\ b - n \in 1..(Len(wire) - n) /\ n + (b - n) = b
              /\ b \in (a + 1)..b /\ Len(rb) + (b - a) \in 1..Len(m)
          BY <1>1, <1>3, <2>3, <3>5
        <5>2. wire'[b - n] = m[Len(rb) + (b - a)]
          BY <1>1, <2>3, <5>1
        <5>3. wire'[b - n] # Idle
          BY <2>1, <5>1, <5>2, ByteAssumption, SMTT(30)
        <5> QED
          BY <5>1, <5>3 DEF AllIdle
      <4>3. AllIdle(c, n + 1, Len(c))
        BY <1>1 DEF AllIdle
      <4>4. ~garbage /\ c[n] # Newline
        BY <1>2, <3>2, <4>1, <4>2, <4>3 DEF CutAt
      <4>5. GoesOn(c)
        BY <3>2, <3>3, <4>1, <4>4 DEF ReturnsFirst, ReturnsAll
      <4>6. rb' = y /\ ~first_time' /\ UNCHANGED <<pc, garbage, got>>
        BY <4>5 DEF GoesOn
      <4>7. Len(y) = Len(rb) + (n - a) /\ \A k \in 1..Len(y) : y[k] = m[k]
        BY <3>2, <4>1
      <4> HIDE DEF y
      <4>8. Len(rb') = Len(rb) + (n - a) /\ \A k \in 1..Len(rb') : rb'[k] = m[k]
        BY <4>6, <4>7
      <4> DEFINE b1 == b - n
      <4>9. /\ b1 \in 0..Len(wire') /\ 0 < b1 /\ 0 \in 0..Len(wire')
            /\ Len(rb') + (b1 - 0) = Len(m)
        <5>1. Len(rb') = Len(rb) + (n - a) /\ Len(rb) + (b - a) = Len(m)
          BY <2>3, <4>8
        <5>2. /\ a \in Nat /\ b \in Nat /\ b <= Len(wire) /\ n < b
              /\ Len(rb) \in Nat /\ Len(wire) \in Nat
          BY <1>3, <3>1, <3>5
        <5> QED
          BY <1>10, <5>1, <5>2
      <4>10. \A k \in (b1 + 1)..Len(wire') : wire'[k] = Idle
        <5>1. \A k \in (b1 + 1)..Len(wire') :
                k \in 1..(Len(wire) - n) /\ n + k \in (b + 1)..Len(wire)
          BY <1>1, <1>3, <3>5
        <5> QED
          BY <1>1, <2>3, <5>1
      <4>11. ASSUME NEW k \in (0 + 1)..b1 PROVE wire'[k] = m[Len(rb') + (k - 0)]
        <5>1. /\ k \in 1..(Len(wire) - n) /\ n + k \in (a + 1)..b
              /\ Len(rb) + ((n + k) - a) = Len(rb') + (k - 0)
          <6>1. k \in 1..(Len(wire) - n) /\ n + k \in (a + 1)..b
            BY <1>10, <2>5
          <6>2. Len(rb') = Len(rb) + (n - a)
            BY <4>8
          <6> QED
            BY <1>3, <1>10, <6>1, <6>2
        <5>2. wire'[k] = wire[n + k]
          BY <1>1, <5>1
        <5>3. wire[n + k] = m[Len(rb) + ((n + k) - a)]
          BY <2>3, <5>1
        <5> QED
          BY <5>1, <5>2, <5>3
      <4> HIDE DEF b1
      <4>12. Split(m, 0, b1)'
        BY <2>2, <4>8, <4>9, <4>10, <4>11 DEF Split
      <4>13. InOrder'
        BY <1>2, <1>5, <2>2, <4>4, <4>6, <4>9, <4>12 DEF InOrder, m
      <4> QED
        BY <1>0, <1>2, <4>6, <4>13 DEF WholeReply
    <3> QED
      BY <3>4, <3>5
  <2> QED
    BY <2>4, <2>5
<1> QED
  BY <1>2, <1>4, <1>5 DEF InOrder

\* The server sends the message that the call is for.
LEMMA AnswerInOrder ==
  ASSUME TypeOK, InOrder, WholeReply, clean, Answer
  PROVE  InOrder' /\ WholeReply'
<1>1. /\ Len(sent) < asked
      /\ UNCHANGED <<pc, garbage, rb, first_time, asked, got, clean>>
  BY DEF Answer
<1>2. PICK m \in (IF sent = <<>> THEN {Prompt} ELSE Reply) :
        wire' = wire \o m /\ sent' = Append(sent, m)
  BY DEF Answer
<1>3. m \in Text /\ m \in Seq(Char) /\ Len(m) \in Nat /\ Len(m) > 0
  BY <1>2, MessageAssumption DEF Text, Char
<1>4. /\ asked \in Nat /\ wire \in Seq(Char) /\ Len(wire) \in Nat /\ sent \in Seq(Text)
      /\ Len(sent) \in Nat
  BY DEF TypeOK, Char
<1>5. /\ pc = "recv" /\ Len(got) = asked - 1 /\ Len(sent) = asked - 1 /\ rb = <<>>
      /\ AllIdle(wire, 1, Len(wire))
  BY <1>1, <1>4 DEF InOrder, TypeOK
<1>6. /\ Len(sent') = asked /\ sent'[asked] = m
      /\ \A k \in 1..(asked - 1) : sent'[k] = sent[k]
  <2>1. /\ Len(sent') = Len(sent) + 1 /\ sent'[Len(sent) + 1] = m
        /\ \A k \in 1..Len(sent) : sent'[k] = sent[k]
    BY <1>2, <1>3, <1>4, AppendProperties
  <2> QED
    BY <1>4, <1>5, <2>1
<1>7. /\ Len(wire') = Len(wire) + Len(m)
      /\ \A k \in 1..Len(wire) + Len(m) :
           wire'[k] = IF k <= Len(wire) THEN wire[k] ELSE m[k - Len(wire)]
  BY <1>2, <1>3, <1>4, ConcatProperties
<1>8. \E a, b \in 0..Len(wire') : Split(sent[asked], a, b)'
  <2>1. PICK a \in Nat, b \in Nat : a = Len(wire) /\ b = Len(wire')
    BY <1>3, <1>4, <1>7
  <2>2. a \in 0..b /\ b \in 0..b /\ a < b /\ Len(rb') = 0 /\ Len(rb') + (b - a) = Len(m)
    BY <1>1, <1>3, <1>4, <1>5, <1>7, <2>1
  <2>3. \A k \in 1..a : wire'[k] = Idle
    <3>1. \A k \in 1..a : k \in 1..Len(wire) + Len(m) /\ k <= Len(wire) /\ k \in 1..Len(wire)
      BY <1>3, <1>4, <2>1
    <3> QED
      BY <1>5, <1>7, <3>1 DEF AllIdle
  <2>4. ASSUME NEW k \in (a + 1)..b PROVE wire'[k] = m[Len(rb') + (k - a)]
    <3>1. /\ k \in 1..Len(wire) + Len(m) /\ ~(k <= Len(wire))
          /\ Len(rb') + (k - a) = k - Len(wire)
      BY <1>3, <1>4, <1>7, <2>1, <2>2
    <3> QED
      BY <1>7, <3>1
  <2>5. /\ \A k \in 1..Len(rb') : rb'[k] = m[k]
        /\ \A k \in (b + 1)..b : wire'[k] = Idle
    BY <2>2
  <2>6. Split(m, a, b)'
    BY <2>1, <2>2, <2>3, <2>4, <2>5 DEF Split
  <2> QED
    BY <1>1, <1>6, <2>1, <2>2, <2>6
<1>9. InOrder'
  BY <1>1, <1>5, <1>6, <1>8 DEF InOrder
<1>10. WholeReply'
  BY <1>1, <1>5, <1>6 DEF WholeReply
<1> QED
  BY <1>9, <1>10

\* Idle bytes come behind everything else.
LEMMA SendIdleInOrder ==
  ASSUME TypeOK, InOrder, WholeReply, clean, SendIdle
  PROVE  InOrder' /\ WholeReply'
<1>1. /\ wire' = Append(wire, Idle)
      /\ UNCHANGED <<pc, garbage, rb, first_time, asked, sent, got, clean>>
  BY DEF SendIdle
<1>2. wire \in Seq(Char) /\ Len(wire) \in Nat /\ Idle \in Char
  BY DEF TypeOK, Char
<1>3. /\ Len(wire') = Len(wire) + 1 /\ wire'[Len(wire) + 1] = Idle
      /\ \A k \in 1..Len(wire) : wire'[k] = wire[k]
  BY <1>1, <1>2, AppendProperties
<1>4. AllIdle(wire, 1, Len(wire)) => AllIdle(wire', 1, Len(wire'))
  BY <1>2, <1>3 DEF AllIdle
<1>5. ASSUME NEW m, NEW a \in 0..Len(wire), NEW b \in 0..Len(wire), Split(m, a, b)
      PROVE  Split(m, a, b)'
  <2>1. /\ a < b /\ Len(rb) + (b - a) = Len(m)
        /\ \A k \in 1..Len(rb) : rb[k] = m[k]
        /\ \A k \in 1..a : wire[k] = Idle
        /\ \A k \in (a + 1)..b : wire[k] = m[Len(rb) + (k - a)]
        /\ \A k \in (b + 1)..Len(wire) : wire[k] = Idle
    BY <1>5 DEF Split
  <2>2. a \in 0..Len(wire') /\ b \in 0..Len(wire')
    BY <1>2, <1>3
  <2>3. ASSUME NEW k \in 1..a
        PROVE  wire'[k] = Idle
    <3>1. k \in 1..Len(wire)
      BY <1>2
    <3>2. wire[k] = Idle
      BY <2>1
    <3> QED
      BY <1>3, <3>1, <3>2
  <2>4. ASSUME NEW k \in (a + 1)..b
        PROVE  wire'[k] = m[Len(rb) + (k - a)]
    <3>1. k \in 1..Len(wire)
      BY <1>2
    <3>2. wire[k] = m[Len(rb) + (k - a)]
      BY <2>1
    <3> QED
      BY <1>3, <3>1, <3>2
  <2>5. ASSUME NEW k \in (b + 1)..Len(wire')
        PROVE  wire'[k] = Idle
    <3>1. \/ k \in (b + 1)..Len(wire) /\ k \in 1..Len(wire)
          \/ k = Len(wire) + 1
      BY <1>2, <1>3
    <3>2. CASE k \in (b + 1)..Len(wire) /\ k \in 1..Len(wire)
      <4>1. wire[k] = Idle
        BY <2>1, <3>2
      <4> QED
        BY <1>3, <3>2, <4>1
    <3> QED
      BY <1>3, <3>1, <3>2
  <2> QED
    BY <1>1, <2>1, <2>2, <2>3, <2>4, <2>5 DEF Split
<1>6. /\ \A a \in 0..Len(wire) : a \in 0..Len(wire')
      /\ (\E a, b \in 0..Len(wire) : Split(sent[asked], a, b)) =>
           \E a, b \in 0..Len(wire') : Split(sent[asked], a, b)'
  <2>1. \A a \in 0..Len(wire) : a \in 0..Len(wire')
    BY <1>2, <1>3
  <2> QED
    BY <1>1, <1>5, <2>1
<1>7. InOrder'
  BY <1>1, <1>4, <1>6 DEF InOrder
<1> QED
  BY <1>1, <1>7 DEF WholeReply

\* A request is made when everything before it has been answered.
LEMMA RequestInOrder ==
  ASSUME TypeOK, InOrder, WholeReply, Request
  PROVE  InOrder' /\ WholeReply'
<1>1. /\ pc = "ready" /\ asked' = asked + 1 /\ pc' = "recv" /\ garbage' = FALSE
      /\ rb' = <<>> /\ first_time' = TRUE /\ UNCHANGED <<wire, sent, got, clean>>
  BY DEF Request
<1>2. asked \in Nat /\ asked >= 1
  BY BoundAssumption DEF TypeOK
<1>3. Len(got) = asked /\ Len(sent) = asked /\ AllIdle(wire, 1, Len(wire))
  BY <1>1 DEF InOrder
<1>4. asked' # 1 /\ asked' - 1 = asked
  BY <1>1, <1>2
<1>5. InOrder'
  BY <1>1, <1>3, <1>4 DEF InOrder
<1> QED
  BY <1>1, <1>5 DEF WholeReply

LEMMA InvStep ==
  ASSUME Inv, [Next]_vars
  PROVE  Inv'
<1>1. TypeOK' /\ InBounds' /\ Messages'
  BY TypesStep DEF Inv
<1>2. ASSUME clean' PROVE InOrder' /\ WholeReply'
  <2>1. CASE DoRecv
    <3>1. clean
      BY <1>2, <2>1 DEF DoRecv
    <3> QED
      BY <1>1, <1>2, <2>1, <3>1, DoRecvInOrder DEF Inv
  <2>2. CASE Answer
    BY <1>2, <2>2, AnswerInOrder DEF Inv, Answer
  <2>3. CASE SendIdle
    BY <1>2, <2>3, SendIdleInOrder DEF Inv, SendIdle
  <2>4. CASE Request
    BY <1>2, <2>4, RequestInOrder DEF Inv, Request
  <2>5. CASE UNCHANGED vars
    <3>1. UNCHANGED <<pc, garbage, rb, first_time, wire, asked, sent, got, clean>>
      BY <2>5 DEF vars
    <3>2. InOrder /\ WholeReply
      BY <1>2, <3>1 DEF Inv
    <3>3. WholeReply'
      BY <3>1, <3>2 DEF WholeReply
    <3>4. ASSUME NEW m, NEW a, NEW b, Split(m, a, b) PROVE Split(m, a, b)'
      BY <3>1, <3>4 DEF Split
    <3>5. InOrder'
      BY <3>1, <3>2, <3>4 DEF InOrder
    <3> QED
      BY <3>3, <3>5
  <2> QED
    BY <2>1, <2>2, <2>3, <2>4, <2>5 DEF Next
<1> QED
  BY <1>1, <1>2 DEF Inv

\* The inductive invariant holds in every state of the system.
THEOREM InvHolds == Spec => []Inv
<1>1. Inv /\ [Next]_vars => Inv'
  BY InvStep
<1> QED
  BY <1>1, InitInv, PTL DEF Spec

(***************************************************************************)
(* Types; and do_recv may return its chunk alone only while there is       *)
(* nothing in rb.                                                          *)
(***************************************************************************)
THEOREM TypeOKHolds == Spec => []TypeOK
<1>1. Inv => TypeOK
  BY DEF Inv
<1> QED
  BY <1>1, InvHolds, PTL

(***************************************************************************)
(* The loop that drops idle bytes at the end of a chunk never reads before *)
(* the front of the buffer, whatever chunks recv() returns.                *)
(***************************************************************************)
THEOREM InBoundsHolds == Spec => []InBounds
<1>1. Inv => InBounds
  BY DEF Inv
<1> QED
  BY <1>1, InvHolds, PTL

(***************************************************************************)
(* do_recv returns whole replies, each to its own request, however long    *)
(* they are, however the network cuts the stream, and wherever idle bytes  *)
(* come in between; as long as no cut looks like the end of a message.     *)
(***************************************************************************)
THEOREM WholeReplyHolds == Spec => []WholeReply
<1>1. Inv => WholeReply
  BY DEF Inv, WholeReply
<1> QED
  BY <1>1, InvHolds, PTL

=============================================================================
