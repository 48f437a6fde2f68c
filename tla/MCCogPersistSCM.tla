--------------------------- MODULE MCCogPersistSCM ---------------------------
(* Instances of CogPersistSCM for TLC. *)
EXTENDS CogPersistSCM

CONSTANTS a1, a2, a3, x, y, z
==============================================================================
