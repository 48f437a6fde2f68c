------------------------ MODULE CogPersistSCMProofs -------------------------
(***************************************************************************)
(* do_open and do_close leave no storage node behind, but for those that   *)
(* extract_atom does not take out, for any AtomSpaces and any URIs.        *)
(***************************************************************************)
EXTENDS CogPersistSCM, TLAPS

(***************************************************************************)
(* NoStrayNode is not inductive: do_close extracts the node from _as, so   *)
(* _as has to be an AtomSpace whenever there is a node.                    *)
(***************************************************************************)
Types ==
  /\ env \in Space \cup {None}
  /\ as \in Space \cup {None}
  /\ storage \in Uri \cup {None}
  /\ nodes \in [Space -> SUBSET Uri]
  /\ kept \in [Space -> SUBSET Uri]

IInv ==
  /\ Types
  /\ storage # None => as \in Space
  /\ NoStrayNode

\* Before the first call there is no node.
LEMMA InitHolds == Init => IInv
  BY NameAssumption DEF Init, IInv, Types, NoStrayNode

\* do_open adds a node only when there was none, and remembers it.
LEMMA OpenKeeps == ASSUME IInv, NEW u \in Uri, DoOpen(u) PROVE IInv'
<1>1. CASE storage # None /\ as' = as /\ Fail("already connected")
  BY <1>1 DEF DoOpen, Fail, IInv, Types, NoStrayNode
<1>2. CASE storage = None /\ as' = UseEnv
  <2>1. \A s \in Space : nodes[s] \subseteq kept[s]
    BY <1>2, NameAssumption DEF IInv, Types, NoStrayNode
  <2>2. as' \in Space \cup {None}
    BY <1>2 DEF IInv, Types, UseEnv
  <2>3. CASE UNCHANGED <<storage, nodes, kept>>
    BY <1>2, <2>1, <2>2, <2>3 DEF DoOpen, IInv, Types, NoStrayNode
  <2>4. CASE as' \in Space /\ OpenNode(u)
    <3>1. nodes' = [s \in Space |-> IF s = as' THEN nodes[s] \cup {u} ELSE nodes[s]]
      BY <2>4 DEF OpenNode, IInv, Types
    <3>2. storage' = u /\ env' = env /\ kept' = kept
      BY <2>4 DEF DoOpen, OpenNode
    <3> QED BY <2>1, <2>2, <2>4, <3>1, <3>2, NameAssumption DEF IInv, Types, NoStrayNode
  <2> QED BY <1>2, <2>3, <2>4, NameAssumption DEF DoOpen, Fail
<1> QED BY <1>1, <1>2 DEF DoOpen

\* do_close takes the node away from where do_open put it, leaves it where it is if
\* extract_atom fails, or changes nothing.
LEMMA CloseKeeps == ASSUME IInv, DoClose PROVE IInv'
<1>1. CASE UNCHANGED <<storage, nodes, kept>>
  BY <1>1 DEF DoClose, IInv, Types, NoStrayNode
<1>2. CASE /\ storage # None /\ storage' = None
           /\ \/ /\ nodes' = [nodes EXCEPT ![as] = @ \ {storage}]
                 /\ kept' = [kept EXCEPT ![as] = @ \ {storage}]
              \/ /\ kept' = [kept EXCEPT ![as] = @ \cup {storage}]
                 /\ UNCHANGED nodes
  <2>1. as \in Space /\ storage \in Uri
    BY <1>2 DEF IInv, Types
  <2>2. \A s \in Space : nodes'[s] \subseteq kept'[s]
    <3>1. /\ \A s \in Space : s # as => nodes[s] \subseteq kept[s]
          /\ nodes[as] \subseteq kept[as] \cup {storage}
      BY <2>1 DEF IInv, NoStrayNode
    <3>2. \A s \in Space : s # as => nodes'[s] = nodes[s] /\ kept'[s] = kept[s]
      BY <1>2 DEF IInv, Types
    <3>3. \/ nodes'[as] = nodes[as] \ {storage} /\ kept'[as] = kept[as] \ {storage}
          \/ nodes'[as] = nodes[as] /\ kept'[as] = kept[as] \cup {storage}
      BY <1>2, <2>1 DEF IInv, Types
    <3> QED BY <3>1, <3>2, <3>3
  <2>3. nodes' \in [Space -> SUBSET Uri] /\ kept' \in [Space -> SUBSET Uri]
    BY <1>2, <2>1 DEF IInv, Types
  <2> QED BY <1>2, <2>2, <2>3 DEF DoClose, IInv, Types, NoStrayNode
<1> QED BY <1>1, <1>2 DEF DoClose, Fail

(***************************************************************************)
(* After any sequence of opens and closes, failed ones included, with the  *)
(* environment moving between AtomSpaces, the only storage node anywhere   *)
(* is the one that _storage holds, in the AtomSpace that _as holds, and    *)
(* those that extract_atom did not take out of theirs.                     *)
(***************************************************************************)
THEOREM NoStrayNodeHolds == Spec => []NoStrayNode
<1>1. Init => IInv
  BY InitHolds
<1>2. IInv /\ [Next]_vars => IInv'
  <2> SUFFICES ASSUME IInv, [Next]_vars PROVE IInv'
    OBVIOUS
  <2>1. CASE \E s \in Space \cup {None} : SetEnv(s)
    BY <2>1 DEF SetEnv, IInv, Types, NoStrayNode
  <2>2. CASE \E u \in Uri : ServerToggle(u)
    BY <2>2 DEF ServerToggle, IInv, Types, NoStrayNode
  <2>3. CASE \E u \in Uri : DoOpen(u)
    BY <2>3, OpenKeeps
  <2>4. CASE DoClose
    BY <2>4, CloseKeeps
  <2>5. CASE UNCHANGED vars
    BY <2>5 DEF vars, IInv, Types, NoStrayNode
  <2> QED BY <2>1, <2>2, <2>3, <2>4, <2>5 DEF Next
<1>3. IInv => NoStrayNode
  BY DEF IInv
<1> QED BY <1>1, <1>2, <1>3, PTL DEF Spec

=============================================================================
