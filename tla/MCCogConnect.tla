---------------------------- MODULE MCCogConnect ----------------------------
(* Instances of CogConnect for TLC. *)
EXTENDS CogConnect, TLC

CONSTANTS u1, u2, w1, w2, a, b, A, B

\* Two nodes on two servers, with a thread each.
MCChanOf == w1 :> a @@ w2 :> b
MCServerOf == a :> A @@ b :> B
=============================================================================
