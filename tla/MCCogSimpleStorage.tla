------------------------- MODULE MCCogSimpleStorage -------------------------
(* Instances of CogSimpleStorage for TLC. *)
EXTENDS CogSimpleStorage, TLC

CONSTANTS u1, u2, n, l, main, top

Symmetry == Permutations(User)

\* top is built on main; the Node lives in main and the Link in top.
MCBelow == main :> {main} @@ top :> {main, top}
MCHome == n :> main @@ l :> top

MCNode == {{n}}

\* The operations the callers of a run use.
MCEvery == {"storeAtom", "storeValue", "updateValue", "set_proxy", "loadValue", "runQuery",
            "removeAtom", "getAtom", "fetchIncoming", "loadType", "loadAtomSpace",
            "storeAtomSpace", "kill_data", "storeFrameDAG", "loadFrameDAG", "barrier",
            "proxy_open", "proxy_close", "close", "open"}
MCFew == {"storeAtom", "loadValue", "kill_data"}
MCProxies == {"proxy_open", "loadValue"}

\* Callers that let proxy_open and proxy_close overlap with other calls.
MCUnlockedButProxies == Unlocked \ {"proxy_open", "proxy_close"}
=============================================================================
