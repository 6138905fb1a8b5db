----------------------------- MODULE LvIslands -----------------------------
(***************************************************************************)
(* The low-voltage islands of a network: _lv_closed_components,            *)
(* lv_islands and lv_island_of of packages/reference_facility/switching.py.*)
(* A depth-first search over the CLOSED edges between low-voltage nodes,   *)
(* whose stack holds what a set iteration pushed, in any order, and may    *)
(* hold a node twice.                                                      *)
(*                                                                         *)
(* A network carries, next to its nodes and edges, the nodes at or below   *)
(* 1000 V (lv) and those that are switchgear buses (gear).                 *)
(***************************************************************************)
EXTENDS Network, FiniteSetsExt, SequencesExt

CONSTANT Networks   \* the snapshots a caller may pass

VARIABLES
  network,     \* the snapshot
  starts,      \* low-voltage nodes the outer loop has not come to
  seen, stack, component,   \* locals of the search
  components   \* the components found, in order

vars == <<network, starts, seen, stack, component, components>>

AdjacentOverUnknown(n) ==
  {m \in network.lv : \E i \in DOMAIN network.edges :
     LET e == network.edges[i]
     IN e.sw \in Possible /\ {e.from, e.to} = {m, n}}

(* adjacency[n]: only CLOSED edges with both ends at low voltage.          *)
Adjacent(n) ==
  {m \in network.lv : \E i \in DOMAIN network.edges :
     LET e == network.edges[i]
     IN /\ e.sw \in Definite
        /\ {e.from, e.to} \subseteq network.lv
        /\ {e.from, e.to} = {m, n}}

Init ==
  /\ network \in Networks
  /\ starts = network.lv
  /\ seen = {} /\ stack = <<>> /\ component = {}
  /\ components = <<>>

Searching == stack # <<>> \/ component # {}

(* for start in sorted(lv_nodes)                                           *)
SkipStart ==
  /\ ~Searching /\ starts # {} /\ Min(starts) \in seen
  /\ starts' = starts \ {Min(starts)}
  /\ UNCHANGED <<network, seen, stack, component, components>>

StartSearch ==
  /\ ~Searching /\ starts # {} /\ Min(starts) \notin seen
  /\ starts' = starts \ {Min(starts)}
  /\ stack' = <<Min(starts)>>
  /\ UNCHANGED <<network, seen, component, components>>

PopSeen ==
  /\ stack # <<>> /\ Last(stack) \in seen
  /\ stack' = Front(stack)
  /\ UNCHANGED <<network, starts, seen, component, components>>

(* The popped node is new: mark it, push its unseen neighbours.            *)
Visit ==
  /\ stack # <<>> /\ Last(stack) \notin seen
  /\ seen' = seen \cup {Last(stack)}
  /\ component' = component \cup {Last(stack)}
  /\ \E pushed \in SetToSeqs(Adjacent(Last(stack)) \ seen') :
       stack' = Front(stack) \o pushed
  /\ UNCHANGED <<network, starts, components>>

(* The stack has run out: the component is complete.                       *)
Close ==
  /\ stack = <<>> /\ component # {}
  /\ components' = Append(components, component)
  /\ component' = {}
  /\ UNCHANGED <<network, starts, seen, stack>>

Next == SkipStart \/ StartSearch \/ PopSeen \/ Visit \/ Close

Spec == Init /\ [][Next]_vars

(* The components are all there.                                           *)
Done == ~Searching /\ starts = {}

----------------------------------------------------------------------------
BusIds == network.lv \cap network.gear

Islands == {c \cap BusIds : c \in ToSet(components)} \ {{}}

IslandOf(n) == UNION {c \in ToSet(components) : n \in c}

(* What is joined to n without leaving the low voltage.                    *)
Bonded(n) ==
  LET inside == {i \in DOMAIN network.edges :
                   {network.edges[i].from, network.edges[i].to} \subseteq network.lv}
  IN  Reach([nodes |-> network.lv, sources |-> {},
             edges |-> [i \in inside |-> network.edges[i]]],
            Definite, n)

(* A transformer never merges two islands: two switchgear buses are on the *)
(* same island exactly when closed low-voltage switches alone join them,   *)
(* whatever medium-voltage path exists, and lv_island_of gives a node the  *)
(* same neighbours (lv_islands, lv_island_of).                             *)
IslandsAreLvOnly ==
  Done =>
    /\ \A a, b \in BusIds :
         (\E island \in Islands : {a, b} \subseteq island) <=> b \in Bonded(a)
    /\ UNION Islands = BusIds
    /\ \A n \in network.nodes :
         IslandOf(n) = IF n \in network.lv THEN Bonded(n) ELSE {}
=============================================================================
