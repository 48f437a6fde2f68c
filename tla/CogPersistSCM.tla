--------------------------- MODULE CogPersistSCM ----------------------------
(***************************************************************************)
(* The Guile bindings of the two storage nodes, CogPersistSCM and          *)
(* CogSimplePersistSCM: one static object that remembers the storage node  *)
(* that the scheme code opened, and the AtomSpace that holds this node.    *)
(* The environment moves between AtomSpaces, and servers come and go.      *)
(***************************************************************************)
CONSTANTS
  Space,     \* AtomSpaces
  ReadOnly,  \* those that are read-only
  Uri,       \* names of storage nodes
  BadUri,    \* those that init() does not accept
  None       \* nullptr

ASSUME NameAssumption == ReadOnly \subseteq Space /\ BadUri \subseteq Uri /\ None \notin Space \cup Uri

VARIABLES
  env,       \* the AtomSpace of the scheme environment (ss_get_env_as)
  as,        \* _as
  storage,   \* _storage: the name of the node
  nodes,     \* the storage nodes of each AtomSpace
  linked,    \* the storage node is connected()
  alive,     \* the servers that answer
  result,    \* how the last call ended
  kept       \* nodes that extract_atom left where they were    (history)

vars == <<env, as, storage, nodes, linked, alive, result, kept>>

Init ==
  /\ env \in Space \cup {None} /\ as = None /\ storage = None
  /\ nodes = [s \in Space |-> {}] /\ linked = FALSE
  /\ alive \in SUBSET (Uri \ BadUri) /\ result = "none"
  /\ kept = [s \in Space |-> {}]

\* The environment: another AtomSpace becomes current, a server starts or stops.
SetEnv(s) == env' = s /\ UNCHANGED <<as, storage, nodes, linked, alive, result, kept>>

ServerToggle(u) ==
  /\ u \notin BadUri
  /\ alive' = IF u \in alive THEN alive \ {u} ELSE alive \cup {u}
  /\ UNCHANGED <<env, as, storage, nodes, linked, result, kept>>

Fail(why) == result' = why /\ UNCHANGED <<storage, nodes, linked, kept>>

\* do_open: an environment that has an AtomSpace sets _as, also when the call
\* fails later.
UseEnv == IF env = None THEN as ELSE env

\* An open that forgets the node when open() throws, and leaves it where it is.
OpenForgets(u) ==
  /\ nodes' = [nodes EXCEPT ![as'] = @ \cup {u}]
  /\ linked' = (u \in alive)
  /\ storage' = IF u \in alive THEN u ELSE None
  /\ result' = IF u \in alive THEN "ok" ELSE "ioexception"
  /\ UNCHANGED kept

\* Refused by the constructor: add_node throws.
ValidUri(u) == u \notin BadUri

\* _storage->open() throws when it cannot connect: the node stays.  When it
\* returns it is connected, and the clean-up after it is never reached.
OpenNode(u) ==
  /\ nodes' = [nodes EXCEPT ![as'] = @ \cup {u}]
  /\ storage' = u
  /\ linked' = (u \in alive)
  /\ result' = IF u \in alive THEN "ok" ELSE "ioexception"
  /\ UNCHANGED kept

DoOpen(u) ==
  /\ \/ storage # None /\ as' = as /\ Fail("already connected")
     \/ /\ storage = None
        /\ as' = UseEnv
        /\ \/ as' = None /\ Fail("no atomspace")
           \/ as' \in ReadOnly /\ Fail("read-only")
           \/ as' \in Space \ ReadOnly /\ ~ValidUri(u) /\ Fail("unknown URI")
           \/ as' \in Space \ ReadOnly /\ ValidUri(u) /\ OpenNode(u)
  /\ UNCHANGED <<env, alive>>

\* do_close: close() does nothing if not connected, and throws if the server
\* is gone; CogSimpleStorage may then know that it is not connected.  (With
\* CogStorage, whose workers cannot pass on an exception, the process ends.)
\* The bindings forget the node, whether extract_atom takes it out or, when a Link
\* holds it, does not.
DoClose ==
  /\ \/ storage = None /\ Fail("not connected")
     \/ /\ storage # None /\ linked /\ storage \notin alive
        /\ result' = "ioexception"
        /\ linked' \in BOOLEAN
        /\ UNCHANGED <<storage, nodes, kept>>
     \/ /\ storage # None
        /\ linked => storage \in alive
        /\ \/ /\ nodes' = [nodes EXCEPT ![as] = @ \ {storage}]
              /\ kept' = [kept EXCEPT ![as] = @ \ {storage}]
           \/ /\ kept' = [kept EXCEPT ![as] = @ \cup {storage}]
              /\ UNCHANGED nodes
        /\ storage' = None /\ linked' = FALSE /\ result' = "ok"
  /\ UNCHANGED <<env, as, alive>>

Next ==
  \/ \E s \in Space \cup {None} : SetEnv(s)
  \/ \E u \in Uri : ServerToggle(u) \/ DoOpen(u)
  \/ DoClose

Spec == Init /\ [][Next]_vars

-----------------------------------------------------------------------------
(***************************************************************************)
(* do_open and do_close leave nothing behind: the only storage node in any *)
(* AtomSpace is the one that _storage holds, and it is in _as, whatever    *)
(* calls failed and whichever AtomSpaces were current in between; but for  *)
(* the nodes that extract_atom did not take out.                           *)
(***************************************************************************)
NoStrayNode ==
  /\ \A s \in Space : \A u \in nodes[s] \ kept[s] : s = as /\ u = storage
  /\ storage # None => storage \in nodes[as]

=============================================================================
