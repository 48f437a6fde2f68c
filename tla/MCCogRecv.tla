----------------------------- MODULE MCCogRecv ------------------------------
(* An instance of CogRecv for TLC. *)
EXTENDS CogRecv

CONSTANTS p, a, b, nl

MCPrompt == <<p, p>>

\* One of a single byte, one that fits into the buffer, one that does not, and
\* one with a newline inside.
MCReply == {<<nl>>, <<a, nl>>, <<a, b, b, nl>>, <<b, nl, a, nl>>}
=============================================================================
