------------------------- MODULE MCSwitchingHelpers -------------------------
(***************************************************************************)
(* A ring, a mesh with parallel edges and a self loop, and a chain whose   *)
(* declared order builds a deep forest; two low-voltage switchboards with  *)
(* their loads, tied to each other and through two transformers (5 and 6)  *)
(* to a medium-voltage bus; and a low-voltage ring with a chord, which     *)
(* puts nodes on the stack twice.                                          *)
(***************************************************************************)
EXTENDS SwitchingHelpers

Link(a, b) == [from |-> a, to |-> b]

Ring == <<Link(1, 2), Link(2, 3), Link(4, 3), Link(4, 1)>>
Mesh == <<Link(2, 1), Link(1, 2), Link(2, 2), Link(3, 2), Link(4, 3)>>
Deep == <<Link(1, 2), Link(3, 4), Link(5, 6), Link(2, 4), Link(4, 6), Link(1, 5)>>
Plant == <<Link(7, 5), Link(7, 6), Link(5, 1), Link(6, 2), Link(1, 2), Link(1, 3), Link(2, 4)>>
Chord == <<Link(1, 2), Link(2, 3), Link(3, 4), Link(4, 1), Link(3, 1), Link(2, 5)>>

Snapshots(links, lv, gear) ==
  {[nodes |-> NodeId, sources |-> {}, lv |-> lv, gear |-> gear,
    edges |-> [i \in DOMAIN links |->
                 [from |-> links[i].from, to |-> links[i].to, sw |-> sw[i]]]] :
     sw \in [DOMAIN links -> {"CLOSED", "UNKNOWN"}]}

MCNetworks ==
  UNION {Snapshots(links, {}, {}) : links \in {Ring, Mesh, Deep}}
    \cup Snapshots(Plant, {1, 2, 3, 4}, {1, 2, 7})
    \cup Snapshots(Chord, {1, 2, 3, 4}, {1, 4})

=============================================================================
