------------------------------ MODULE CogRecv -------------------------------
(***************************************************************************)
(* How do_recv, of either backend, finds the end of a reply in the stream  *)
(* of bytes that comes from the CogServer.                                 *)
(*                                                                         *)
(* The server greets with a prompt that has no newline, and ends every     *)
(* reply with one.  Between messages it may send idle bytes (0x16).  The   *)
(* network cuts the stream where it likes: recv() returns any part of what *)
(* has arrived.  The connection lasts, a request is made when do_recv has  *)
(* returned from the one before, and a byte is a character of the text, a  *)
(* newline or idle.                                                        *)
(***************************************************************************)
EXTENDS Integers, Sequences, SequencesExt

CONSTANTS
  Byte,         \* what a message is made of
  Newline,      \* one of them
  Idle,         \* 0x16, none of them
  Prompt,       \* what the server sends first
  Reply,        \* the replies that it may send
  BufLen,       \* what one recv() takes: 8192 or 4096 bytes in the code
  MaxMessages,  \* bound: the prompt and the replies
  MaxIdle       \* bound: idle bytes

Text == Seq(Byte) \ {<<>>}

ASSUME ByteAssumption == Newline \in Byte /\ Idle \notin Byte
ASSUME MessageAssumption ==
  /\ Prompt \in Text
  /\ \A r \in Reply : r \in Text /\ r[Len(r)] = Newline
ASSUME BoundAssumption == BufLen \in Nat \ {0} /\ MaxMessages \in Nat \ {0} /\ MaxIdle \in Nat

VARIABLES
  pc,          \* "recv" within do_recv, "ready" between calls
  garbage,     \* its argument: this is the prompt
  rb,          \* its local variables
  first_time,
  wire,        \* what the server has sent and recv() has not returned
  asked,       \* requests, the connection included
  sent,        \* the messages of the server                        (history)
  got,         \* the strings that do_recv has returned             (history)
  idles,       \* idle bytes                                        (history)
  clean,       \* no message was cut where do_recv cannot know it   (history)
  outside      \* buf[-1] was read                                  (history)

vars == <<pc, garbage, rb, first_time, wire, asked, sent, got, idles, clean, outside>>

\* open_sock, or open, reads the prompt.
Init ==
  /\ pc = "recv" /\ garbage = TRUE
  /\ rb = <<>> /\ first_time = TRUE
  /\ wire = <<>> /\ asked = 1 /\ sent = <<>> /\ got = <<>>
  /\ idles = 0 /\ clean = TRUE /\ outside = FALSE

-----------------------------------------------------------------------------
(***************************************************************************)
(* The chunk c that recv() has returned is trimmed at both ends.           *)
(***************************************************************************)
AllIdle(c, i, j) == \A k \in i..j : c[k] = Idle

\* Only one idle byte is skipped.
SkipOne(c) == IF c[1] = Idle THEN 1 ELSE 0

\* pbf - buf
Skip(c) == CHOOSE n \in 0..Len(c) :
             /\ AllIdle(c, 1, n)
             /\ n < Len(c) => c[n + 1] # Idle

\* Idle bytes at the end are kept.
LenKept(c) == Len(c)

\* len, in the end
LenLeft(c) == CHOOSE n \in 0..Len(c) :
                /\ AllIdle(c, n + 1, Len(c))
                /\ n > 0 => c[n] # Idle

Trimmed(c) == SubSeq(c, Skip(c) + 1, LenLeft(c))

Return(str) ==
  /\ got' = Append(got, str)
  /\ pc' = "ready"
  /\ UNCHANGED <<garbage, rb, first_time>>

\* A short read is taken for a whole message.
ReturnsFirstShort(c) ==
  /\ first_time /\ (c[LenLeft(c)] = Newline \/ garbage \/ Len(c) < BufLen)
  /\ Return(Trimmed(c))

ReturnsFirst(c) ==
  /\ first_time /\ (c[LenLeft(c)] = Newline \/ garbage)
  /\ Return(Trimmed(c))

ReturnsAll(c) ==
  /\ ~first_time /\ c[LenLeft(c)] = Newline
  /\ Return(rb \o Trimmed(c))

\* Only the last chunk is kept.
GoesOnWithLast(c) ==
  /\ c[LenLeft(c)] # Newline /\ ~(first_time /\ garbage)
  /\ first_time' = FALSE
  /\ rb' = Trimmed(c)
  /\ UNCHANGED <<pc, garbage, got>>

\* first_time is not reset.
GoesOnAsFirst(c) ==
  /\ c[LenLeft(c)] # Newline /\ ~(first_time /\ garbage)
  /\ rb' = rb \o Trimmed(c)
  /\ UNCHANGED <<pc, garbage, first_time, got>>

GoesOn(c) ==
  /\ c[LenLeft(c)] # Newline /\ ~(first_time /\ garbage)
  /\ first_time' = FALSE
  /\ rb' = rb \o Trimmed(c)
  /\ UNCHANGED <<pc, garbage, got>>

Continues == UNCHANGED <<pc, garbage, rb, first_time, got>>

\* One turn of the loop.  The test at the end reads buf[len-1] before it
\* looks whether len is 0.
Turn(c) ==
  /\ outside' = (outside \/ (Skip(c) # Len(c) /\ LenLeft(c) = 0))
  /\ \/ (Skip(c) = Len(c) \/ LenLeft(c) = 0) /\ Continues
     \/ /\ Skip(c) # Len(c) /\ LenLeft(c) # 0
        /\ ReturnsFirst(c) \/ ReturnsAll(c) \/ GoesOn(c)

\* The chunk c ends inside of the prompt, or of a reply and with a newline.
CutAt(c, rest) ==
  /\ ~AllIdle(rest, 1, Len(rest))
  /\ garbage \/ \E k \in 1..Len(c) : c[k] = Newline /\ AllIdle(c, k + 1, Len(c))
  /\ ~AllIdle(c, 1, Len(c))

DoRecv ==
  /\ pc = "recv"
  /\ \E n \in 1..Len(wire) :
       LET c == SubSeq(wire, 1, n)
           rest == SubSeq(wire, n + 1, Len(wire))
       IN  /\ n <= BufLen
           /\ wire' = rest
           /\ clean' = (clean /\ ~CutAt(c, rest))
           /\ Turn(c)
  /\ UNCHANGED <<asked, sent, idles>>

\* do_send and then do_recv, as every operation that wants a reply does.
Request ==
  /\ pc = "ready" /\ asked < MaxMessages
  /\ asked' = asked + 1
  /\ pc' = "recv" /\ garbage' = FALSE
  /\ rb' = <<>> /\ first_time' = TRUE
  /\ UNCHANGED <<wire, sent, got, idles, clean, outside>>

\* The server answers a request, or the connection.
Answer ==
  /\ Len(sent) < asked
  /\ \E m \in (IF sent = <<>> THEN {Prompt} ELSE Reply) :
       wire' = wire \o m /\ sent' = Append(sent, m)
  /\ UNCHANGED <<pc, garbage, rb, first_time, asked, got, idles, clean, outside>>

\* It looks for connections that are half open.
SendIdle ==
  /\ idles < MaxIdle
  /\ wire' = Append(wire, Idle)
  /\ idles' = idles + 1
  /\ UNCHANGED <<pc, garbage, rb, first_time, asked, sent, got, clean, outside>>

Next == Request \/ DoRecv \/ Answer \/ SendIdle

Spec == Init /\ [][Next]_vars

\* The server answers, and what it has sent arrives.
Fairness == WF_vars(DoRecv) /\ WF_vars(Answer)

FairSpec == Spec /\ Fairness

-----------------------------------------------------------------------------
(***************************************************************************)
(* Properties.                                                             *)
(***************************************************************************)
(***************************************************************************)
(* Types; and do_recv may return its chunk alone only while there is       *)
(* nothing in rb.                                                          *)
(***************************************************************************)
TypeOK ==
  /\ pc \in {"recv", "ready"} /\ garbage \in BOOLEAN /\ first_time \in BOOLEAN
  /\ rb \in Seq(Byte \cup {Idle}) /\ (pc = "recv" => (first_time <=> rb = <<>>))
  /\ wire \in Seq(Byte \cup {Idle}) /\ asked \in 1..MaxMessages
  /\ sent \in Seq(Text) /\ got \in Seq(Seq(Byte \cup {Idle}))
  /\ idles \in 0..MaxIdle /\ clean \in BOOLEAN /\ outside \in BOOLEAN

(***************************************************************************)
(* do_recv returns the reply, the whole reply and nothing but the reply,   *)
(* however the network cuts the stream and wherever idle bytes come in     *)
(* between; as long as it reads the prompt in one piece, and no chunk ends *)
(* with a newline inside of a reply.                                       *)
(***************************************************************************)
WholeReply == clean => \A k \in 1..Len(got) : got[k] = sent[k]

(***************************************************************************)
(* Not a byte of a message is lost, repeated or moved, even where a reply  *)
(* is cut in two and the next call returns the rest of it; idle bytes that *)
(* came behind the rest are then found inside of what that call returns.   *)
(***************************************************************************)
IsText(b) == b # Idle

Pending == IF pc = "recv" THEN rb ELSE <<>>

NothingLost ==
  SelectSeq(FlattenSeq(got) \o Pending \o wire, IsText) = FlattenSeq(sent)

(***************************************************************************)
(* The loop that drops idle bytes at the end of a chunk does not run out   *)
(* at the front of the buffer: the loop at its front has found a byte that *)
(* stops it.                                                               *)
(***************************************************************************)
InBounds == ~outside

(***************************************************************************)
(* do_recv returns, also when what is left of an earlier reply comes       *)
(* first, or an idle byte comes last.                                      *)
(***************************************************************************)
RecvReturns == pc = "recv" ~> pc = "ready"

=============================================================================
