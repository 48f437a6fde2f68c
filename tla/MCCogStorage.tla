---------------------------- MODULE MCCogStorage ----------------------------
(* Instances of CogStorage for TLC. *)
EXTENDS CogStorage, TLC

CONSTANTS w1, w2, u1, u2, n, l, t1, t2

Symmetry == Permutations(Worker) \cup Permutations(User)

\* The Atoms an AtomSpace may start with: none, the Node, the Node and the Link.
Empty == {}
OnlyNode == {n}
Everything == {n, l}

MCNothing == {Empty}
MCNode == {OnlyNode}
MCAll == {Everything}

\* The operations the callers of a run use.
MCEvery == {"storeAtom", "removeAtom", "storeValue", "updateValue", "loadValue",
            "runQuery", "getAtom", "fetchIncomingSet", "fetchIncomingByType",
            "set_proxy", "loadType", "loadAtomSpace", "storeAtomSpace", "kill_data",
            "proxy_open", "proxy_close", "barrier", "close", "open"}
MCOrder == {"loadAtomSpace", "storeValue", "kill_data", "barrier", "close"}
MCLoadOnly == {"loadAtomSpace"}
MCUpdates == {"updateValue", "close"}
=============================================================================
