------------------------- MODULE MCDownstreamImpact -------------------------
(***************************************************************************)
(* Small networks for TLC, every node of each of them lost in turn.        *)
(***************************************************************************)
EXTENDS DownstreamImpact

Link(a, b) == [from |-> a, to |-> b]

\* A ring of four, two of them named by edges only; and a feeder with two loads,
\* one that only its edge names and one with a tie.
Ring   == <<Link(1, 2), Link(2, 3), Link(4, 3), Link(4, 1)>>
Feeder == <<Link(1, 2), Link(2, 3), Link(2, 4), Link(5, 4)>>

Utility(n, p)   == [node |-> n, type |-> "UTILITY", prio |-> p]
Generator(n, p) == [node |-> n, type |-> "GENERATOR", prio |-> p]

RingSources   == {{Utility(1, 0)}, {Utility(2, 0), Generator(3, 0)}}
FeederSources == {{Utility(1, 0)}, {Utility(1, 0), Generator(5, 1)}}

Switched(links, sw) ==
  [i \in DOMAIN links |-> [from |-> links[i].from, to |-> links[i].to, sw |-> sw[i]]]

NetworksOn(links, nodes, sourceSets) ==
  {[nodes |-> nodes, sources |-> S, edges |-> Switched(links, sw)] :
     S \in sourceSets, sw \in [DOMAIN links -> {"CLOSED", "UNKNOWN", "OPEN"}]}

MCNetworks ==
  NetworksOn(Ring, {2, 3}, RingSources) \cup NetworksOn(Feeder, {1, 2, 5}, FeederSources)

MCCriticalityOf ==
  [n \in NodeId |-> IF n = 3 THEN "CRITICAL" ELSE IF n = 1 THEN NoCriticality ELSE "LOW"]

=============================================================================
