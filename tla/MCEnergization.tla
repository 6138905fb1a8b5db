--------------------------- MODULE MCEnergization ---------------------------
(***************************************************************************)
(* Small networks for TLC: every switch position over a few shapes that    *)
(* have the cases the solver must get right.                               *)
(***************************************************************************)
EXTENDS Energization

Link(a, b) == [from |-> a, to |-> b]

\* Four buses in a ring, one edge declared against the others, one bus named
\* by edges only.
Ring == <<Link(1, 2), Link(2, 3), Link(4, 3), Link(4, 1)>>

\* Parallel edges of opposite direction, a self loop, a spur and a shortcut.
Mesh == <<Link(2, 1), Link(1, 2), Link(2, 2), Link(2, 3), Link(1, 3)>>

Utility(n, p)   == [node |-> n, type |-> "UTILITY", prio |-> p]
Generator(n, p) == [node |-> n, type |-> "GENERATOR", prio |-> p]
Ups(n, p)       == [node |-> n, type |-> "UPS", prio |-> p]

\* None; one; a preferred and a standby supply with either one at the lower id;
\* equal priorities; two records on one node with equal keys.
SourceSets ==
  {{}, {Generator(3, 1)},
   {Utility(1, 0), Generator(3, 1)},
   {Utility(3, 0), Ups(1, 1)},
   {Ups(2, 1), Generator(1, 1)},
   {Utility(2, 0), Generator(2, 0), Ups(3, 2)}}

Switched(links, sw) ==
  [i \in DOMAIN links |-> [from |-> links[i].from, to |-> links[i].to, sw |-> sw[i]]]

NetworksOn(links, nodes, states) ==
  {[nodes |-> nodes, sources |-> S, edges |-> Switched(links, sw)] :
     S \in SourceSets, sw \in [DOMAIN links -> states]}

MCNetworks ==
  NetworksOn(Ring, {2, 3}, {"CLOSED", "UNKNOWN", "OPEN"})
    \cup NetworksOn(Mesh, {4}, {"CLOSED", "UNKNOWN", "TRIPPED"})

=============================================================================
