---------------------------- MODULE FencedQueue -----------------------------
(***************************************************************************)
(* What a storage channel promises about order: a pool of requests, run in *)
(* any order and any number at a time, that is cut by fences.  A request   *)
(* is known by the fences that had returned and the fences that had begun  *)
(* when it was made.                                                       *)
(***************************************************************************)
EXTENDS Naturals

VARIABLES
  out,        \* <<returned, begun>> of the requests that were not run yet
  begun,      \* fences begun
  returned,   \* fences that have returned
  ran         \* the latest returned-stamp of a request that was run

vars == <<out, begun, returned, ran>>

Init == out = {} /\ begun = 0 /\ returned = 0 /\ ran = 0

Submit ==
  /\ out' = out \cup {<<returned, begun>>}
  /\ UNCHANGED <<begun, returned, ran>>

\* x may run when no request is left that was made before a fence began
\* that had returned when x was made.  Other requests may bear the stamps
\* of x, and stay.
Run(x) ==
  /\ x \in out
  /\ \A y \in out : x[1] <= y[2]
  /\ out' \in {out, out \ {x}}
  /\ ran' = IF ran < x[1] THEN x[1] ELSE ran
  /\ UNCHANGED <<begun, returned>>

FenceBegin ==
  /\ returned = begun
  /\ begun' = begun + 1
  /\ UNCHANGED <<out, returned, ran>>

FenceReturn ==
  /\ returned < begun
  /\ returned' = begun
  /\ UNCHANGED <<out, begun, ran>>

Next == Submit \/ (\E x \in out : Run(x)) \/ FenceBegin \/ FenceReturn

Spec == Init /\ [][Next]_vars
=============================================================================
