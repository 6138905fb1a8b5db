------------------------------ MODULE Network ------------------------------
(***************************************************************************)
(* The electrical network the topology solver works on, and what it means  *)
(* for a node of it to be fed.  A constant module: the vocabulary of the   *)
(* canonical model (enums.py, topology.py) and the reference definitions   *)
(* the solver is judged by.                                                *)
(*                                                                         *)
(* Node ids are integers: the code only compares id strings, for equality  *)
(* and, in the sort of the sources, for order.  An edge is identified by   *)
(* its position in the caller's list; the positions may have gaps, so that *)
(* leaving edges out does not renumber the rest.                           *)
(***************************************************************************)
EXTENDS Integers, Sequences

CONSTANTS
  NodeId,   \* the node ids a network may use
  NoNode    \* Python's None where a node id is expected

ASSUME NodeIdAssumption == NodeId \subseteq Int /\ NoNode \notin NodeId

SwitchState ==
  {"OPEN", "CLOSED", "INTERMEDIATE", "TRIPPED", "RACKED_OUT", "UNKNOWN"}

SourceType ==
  {"UTILITY", "GENERATOR", "UPS", "BATTERY", "SOLAR_PV", "WIND",
   "COGENERATION", "OTHER"}

EnergizationState ==
  {"ENERGIZED_PRIMARY", "ENERGIZED_BACKUP", "ENERGIZED_UPS", "DE_ENERGIZED",
   "ISOLATED_FOR_MAINTENANCE", "INDETERMINATE"}

EnergizedStates ==
  {"ENERGIZED_PRIMARY", "ENERGIZED_BACKUP", "ENERGIZED_UPS"}

\* Of an ElectricalEdge and a SourceNode only the fields the solver reads.
Edge == [from : NodeId, to : NodeId, sw : SwitchState]

Source == [node : NodeId, type : SourceType, prio : Nat]

\* The three lists a caller passes.  The order of nodes is irrelevant and that
\* of sources matters only between equal keys of the sort (see Preferred).
IsNetwork(w) ==
  /\ w.nodes \subseteq NodeId
  /\ w.sources \subseteq Source
  /\ DOMAIN w.edges \subseteq Nat \ {0}
  /\ \A i \in DOMAIN w.edges : w.edges[i] \in Edge

StateForSourceType(t) ==
  CASE t = "UTILITY" -> "ENERGIZED_PRIMARY"
    [] t = "UPS"     -> "ENERGIZED_UPS"
    [] OTHER         -> "ENERGIZED_BACKUP"

CollectNodeIdsOfNodesOnly(w) == w.nodes

CollectNodeIds(w) ==
  {n \in NodeId :
     \/ n \in w.nodes
     \/ \E s \in w.sources : s.node = n
     \/ \E i \in DOMAIN w.edges : w.edges[i].from = n \/ w.edges[i].to = n}

-----------------------------------------------------------------------------
(* The order of the sources: sorted(sources, key=(priority, node_id)).      *)

Before(s, t) ==
  s.prio < t.prio \/ (s.prio = t.prio /\ s.node < t.node)

\* The sources that may stand first in the sorted list: one, unless the same
\* node carries two records of equal priority, where the caller's order decides.
Preferred(S) == {s \in S : \A t \in S : ~Before(t, s)}

-----------------------------------------------------------------------------
(* Supply.  C is the set of switch states taken to conduct.                 *)

Definite == {"CLOSED"}

Possible == {"CLOSED", "UNKNOWN"}

\* No conducting edge leads out of X or into it.
Sealed(w, C, X) ==
  \A i \in DOMAIN w.edges :
    w.edges[i].sw \in C => (w.edges[i].from \in X <=> w.edges[i].to \in X)

\* What is electrically joined to n: what no sealed set around n leaves out.
Reach(w, C, n) ==
  {m \in CollectNodeIds(w) :
     \A X \in SUBSET CollectNodeIds(w) :
       n \in X /\ Sealed(w, C, X) => m \in X}

Feeding(w, C, n) == {s \in w.sources : n \in Reach(w, C, s.node)}

-----------------------------------------------------------------------------
(* The verdicts the solver may return for node n of w.                      *)

Verdict ==
  [state : EnergizationState, source : NodeId \cup {NoNode}]

Verdicts(w, n) ==
  IF Feeding(w, Definite, n) # {}
    THEN {[state |-> StateForSourceType(s.type), source |-> s.node] :
            s \in Preferred(Feeding(w, Definite, n))}
  ELSE IF Feeding(w, Possible, n) # {}
    THEN {[state |-> "INDETERMINATE", source |-> s.node] :
            s \in Preferred(Feeding(w, Possible, n))}
  ELSE {[state |-> "DE_ENERGIZED", source |-> NoNode]}

-----------------------------------------------------------------------------
(* What the UNKNOWN switches might be: each really open or really closed.   *)

UnknownEdges(w) == {i \in DOMAIN w.edges : w.edges[i].sw = "UNKNOWN"}

\* The network w would be if, of its UNKNOWN switches, exactly P were closed.
Resolve(w, P) ==
  [nodes |-> w.nodes, sources |-> w.sources,
   edges |->
     [i \in DOMAIN w.edges |->
        [w.edges[i] EXCEPT !.sw =
           IF i \in P THEN "CLOSED"
           ELSE IF @ = "UNKNOWN" THEN "OPEN" ELSE @]]]

\* n is supplied when the UNKNOWN switches in P are closed, the others open.
SuppliedIf(w, P, n) == Feeding(Resolve(w, P), Definite, n) # {}

=============================================================================
