--------------------------- MODULE LoopDetection ---------------------------
(***************************************************************************)
(* Whether the closed switches of a network form a loop:                   *)
(* closed_graph_has_cycle of packages/reference_facility/switching.py, a   *)
(* union-find with path compression over the CLOSED edges in list order.   *)
(* One action is one iteration of one of its loops, or what lies between.  *)
(***************************************************************************)
EXTENDS Network, FiniteSets

CONSTANT Networks   \* the snapshots a caller may pass

ASSUME SnapshotsAssumption ==
  \A w \in Networks : IsNetwork(w) /\ w.edges \in Seq(Edge)

VARIABLES
  network,    \* the snapshot: nodes and edges
  pc,         \* where the call stands
  position,   \* of the edge at hand
  parent,     \* the union-find forest; NoNode for a node not met yet
  node, root, \* locals of the running find
  ends,       \* the roots found so far for this edge
  result      \* "none" until the call returns

vars == <<network, pc, position, parent, node, root, ends, result>>

Edges == network.edges
At == Edges[position]
Met == {n \in NodeId : parent[n] # NoNode}

LoopInit ==
  /\ network \in Networks
  /\ pc = "edge"
  /\ position = 1
  /\ parent = [n \in NodeId |-> NoNode]
  /\ node = NoNode /\ root = NoNode
  /\ ends = <<>>
  /\ result = "none"

(* find(n): parent.setdefault(n, n), and the climb begins at n.            *)
Find(n) ==
  /\ parent' = [parent EXCEPT ![n] = IF @ = NoNode THEN n ELSE @]
  /\ node' = n /\ root' = n
  /\ pc' = "climb"

SkipEdge ==
  /\ pc = "edge" /\ position =< Len(Edges)
  /\ At.sw \notin Definite
  /\ position' = position + 1
  /\ UNCHANGED <<network, pc, parent, node, root, ends, result>>

TakeEdge ==
  /\ pc = "edge" /\ position =< Len(Edges)
  /\ At.sw \in Definite
  /\ Find(At.from)
  /\ UNCHANGED <<network, position, ends, result>>

(* while parent[root] != root                                              *)
Climb ==
  /\ pc = "climb" /\ parent[root] # root
  /\ root' = parent[root]
  /\ UNCHANGED <<network, pc, position, parent, node, ends, result>>

ReachTop ==
  /\ pc = "climb" /\ parent[root] = root
  /\ pc' = "compress"
  /\ UNCHANGED <<network, position, parent, node, root, ends, result>>

(* while parent[node] != root: both assignments read the old parent.       *)
Compress ==
  /\ pc = "compress" /\ parent[node] # root
  /\ parent' = [parent EXCEPT ![node] = root]
  /\ node' = parent[node]
  /\ UNCHANGED <<network, pc, position, root, ends, result>>

FoundLastNode ==
  /\ pc = "compress" /\ parent[node] = root
  /\ ends' = Append(ends, node)
  /\ \/ Len(ends) = 0 /\ Find(At.to)
     \/ Len(ends) = 1 /\ pc' = "unite" /\ UNCHANGED <<parent, node, root>>
  /\ UNCHANGED <<network, position, result>>

(* The find returns: on to the other end of the edge, or to the comparison.*)
Found ==
  /\ pc = "compress" /\ parent[node] = root
  /\ ends' = Append(ends, root)
  /\ \/ Len(ends) = 0 /\ Find(At.to)
     \/ Len(ends) = 1 /\ pc' = "unite" /\ UNCHANGED <<parent, node, root>>
  /\ UNCHANGED <<network, position, result>>

CloseLoop ==
  /\ pc = "unite" /\ ends[1] = ends[2]
  /\ pc' = "returned" /\ result' = "loop"
  /\ UNCHANGED <<network, position, parent, node, root, ends>>

UniteNodes ==
  /\ pc = "unite" /\ ends[1] # ends[2]
  /\ parent' = [parent EXCEPT ![At.from] = ends[2]]
  /\ position' = position + 1 /\ pc' = "edge" /\ ends' = <<>>
  /\ UNCHANGED <<network, node, root, result>>

Unite ==
  /\ pc = "unite" /\ ends[1] # ends[2]
  /\ parent' = [parent EXCEPT ![ends[1]] = ends[2]]
  /\ position' = position + 1 /\ pc' = "edge" /\ ends' = <<>>
  /\ UNCHANGED <<network, node, root, result>>

NoLoop ==
  /\ pc = "edge" /\ position > Len(Edges)
  /\ pc' = "returned" /\ result' = "no loop"
  /\ UNCHANGED <<network, position, parent, node, root, ends>>

Returned == pc = "returned" /\ UNCHANGED vars

LoopNext == \/ SkipEdge \/ TakeEdge \/ Climb \/ ReachTop \/ Compress \/ Found
            \/ CloseLoop \/ Unite \/ NoLoop \/ Returned

LoopSpec == LoopInit /\ [][LoopNext]_vars /\ WF_vars(LoopNext)

----------------------------------------------------------------------------
(* The network of the edges at the positions P alone.                      *)
OnlyEdges(P) ==
  [nodes |-> CollectNodeIds(network), sources |-> {}, edges |-> [i \in P |-> Edges[i]]]

Closed == {i \in DOMAIN Edges : Edges[i].sw \in Definite}

(* Following parents from n, every set that holds n and is closed under    *)
(* parent holds what the walk meets.                                       *)
Ancestors(n) ==
  {m \in Met : \A X \in SUBSET Met :
     n \in X /\ (\A x \in X : parent[x] \in X) => m \in X}

RootsOf(n) == {m \in Ancestors(n) : parent[m] = m}

(* Every node met has exactly one root, and between two edges two nodes    *)
(* have the same one exactly when the closed edges handled so far join     *)
(* them: neither a union nor a compression splits or joins a component     *)
(* (find and the union step of closed_graph_has_cycle).                    *)
RootsAreComponents ==
  /\ \A n \in Met : Cardinality(RootsOf(n)) = 1
  /\ pc = "edge" =>
       \A m, n \in Met :
         RootsOf(m) = RootsOf(n)
           <=> m \in Reach(OnlyEdges({i \in Closed : i < position}), Definite, n)

(* The answer is that of the definition: some closed edge joins two nodes  *)
(* that the other closed edges already join, or a node to itself.          *)
AnswerIsExact ==
  pc = "returned" =>
    (result = "loop" <=>
       \E i \in Closed :
         Edges[i].to \in Reach(OnlyEdges(Closed \ {i}), Definite, Edges[i].from)
         \/ Edges[i].from = Edges[i].to)

(* The call returns on every network, loops included: no climb goes round. *)
AlwaysReturns == <>(pc = "returned")
=============================================================================
