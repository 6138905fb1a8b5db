-------------------------- MODULE DownstreamImpact --------------------------
(***************************************************************************)
(* downstream_impact of packages/electrical_engineering/topology.py: which *)
(* nodes go dead when one node is lost.                                    *)
(*                                                                         *)
(* The function calls the solver twice, on the network and on what is left *)
(* of it, and compares the answers.  A call of the solver is one step here *)
(* that returns verdicts allowed by Verdicts; that the solver returns no   *)
(* others is what Energization implements (EnergizationSpec).              *)
(***************************************************************************)
EXTENDS Network

CONSTANTS
  Networks,       \* the networks a caller may pass
  Criticality,    \* the declared criticality classes
  NoCriticality,  \* Python's None where a criticality is expected
  CriticalityOf   \* what the caller's node records declare

ASSUME ImpactAssumption ==
  /\ \A w \in Networks : IsNetwork(w)
  /\ NoCriticality \notin Criticality
  /\ CriticalityOf \in [NodeId -> Criticality \cup {NoCriticality}]

VARIABLES
  network,   \* nodes, edges, sources: the arguments
  lost,      \* node_id: the node lost, known to the network or not
  step,      \* how far the call has come
  before,    \* the solver's answer for the network
  after,     \* the solver's answer for what survives
  impact     \* by_criticality: the impacted ids by criticality class

vars == <<network, lost, step, before, after, impact>>

\* The answers the solver may give.
Solutions(w) ==
  LET allowed == [n \in CollectNodeIds(w) |-> Verdicts(w, n)]
  IN  {f \in [CollectNodeIds(w) -> UNION {allowed[n] : n \in CollectNodeIds(w)}] :
         \A n \in CollectNodeIds(w) : f[n] \in allowed[n]}

SurvivorsWithDefaultStates(w, x) ==
  [nodes   |-> w.nodes \ {x},
   sources |-> {s \in w.sources : s.node # x},
   edges   |-> [i \in {j \in DOMAIN w.edges : /\ w.edges[j].from # x
                                              /\ w.edges[j].to # x}
                  |-> [w.edges[i] EXCEPT !.sw = "UNKNOWN"]]]

\* The network without node x, its incident edges and its sources.
Survivors(w, x) ==
  [nodes   |-> w.nodes \ {x},
   sources |-> {s \in w.sources : s.node # x},
   edges   |-> [i \in {j \in DOMAIN w.edges : /\ w.edges[j].from # x
                                              /\ w.edges[j].to # x}
                  |-> w.edges[i]]]

StateAfterIndeterminateIfMissing(n) ==
  IF n \in DOMAIN after THEN after[n].state ELSE "INDETERMINATE"

\* An id only the lost edges mentioned is gone from the second answer.
StateAfter(n) ==
  IF n \in DOMAIN after THEN after[n].state ELSE "DE_ENERGIZED"

Impacted ==
  {n \in DOMAIN before \ {lost} :
     /\ before[n].state \in EnergizedStates
     /\ StateAfter(n) = "DE_ENERGIZED"}

\* Only listed nodes carry a criticality; any other id falls under None.
BucketOf(n) ==
  IF n \in network.nodes THEN CriticalityOf[n] ELSE NoCriticality

Init ==
  /\ network \in Networks
  /\ lost \in NodeId
  /\ step = "called"
  /\ before = <<>> /\ after = <<>> /\ impact = <<>>

SolveBefore ==
  /\ step = "called"
  /\ step' = "solved before"
  /\ before' \in Solutions(network)
  /\ UNCHANGED <<network, lost, after, impact>>

SolveAfter ==
  /\ step = "solved before"
  /\ step' = "solved after"
  /\ after' \in Solutions(Survivors(network, lost))
  /\ UNCHANGED <<network, lost, before, impact>>

\* The loop over `before`: the buckets exist only where they have a member.
Compare ==
  /\ step = "solved after"
  /\ step' = "returned"
  /\ impact' = [c \in {BucketOf(n) : n \in Impacted} |->
                  {n \in Impacted : BucketOf(n) = c}]
  /\ UNCHANGED <<network, lost, before, after>>

\* The call has returned; nothing is left to do.
Returned ==
  /\ step = "returned"
  /\ UNCHANGED vars

Next == SolveBefore \/ SolveAfter \/ Compare \/ Returned

Spec == Init /\ [][Next]_vars

-----------------------------------------------------------------------------
(* Properties.                                                              *)

AllNodes == UNION {impact[c] : c \in DOMAIN impact}

TypeOK ==
  /\ IsNetwork(network)
  /\ lost \in NodeId
  /\ step \in {"called", "solved before", "solved after", "returned"}
  /\ DOMAIN impact \subseteq Criticality \cup {NoCriticality}
  /\ AllNodes \subseteq CollectNodeIds(network) \ {lost}

\* X holds no source, and every edge that may conduct out of it ends at x.
CutOffBy(X, x) ==
  /\ \A s \in network.sources : s.node \notin X
  /\ \A i \in DOMAIN network.edges :
       LET e == network.edges[i]
       IN  e.sw \in Possible /\ x \notin {e.from, e.to} => (e.from \in X <=> e.to \in X)

\* The impact set is exactly the loads that were certainly energized and that
\* the lost node separates from every source, over edges that conduct and over
\* edges that only might: no load with any possible other way in is counted,
\* and none without one is missed (topology.py:287-331).
ImpactIsSeparation ==
  step = "returned" =>
    \A n \in CollectNodeIds(network) \ {lost} :
      n \in AllNodes <=>
        /\ Feeding(network, Definite, n) # {}
        /\ \E X \in SUBSET (CollectNodeIds(network) \ {lost}) :
             n \in X /\ CutOffBy(X, lost)

\* Buckets are disjoint, none is empty, and each id is under the criticality its
\* own record declares, or under None: nothing impacted is dropped or counted
\* twice ("no impacted node is ever silently dropped", results.py:56-57).
BucketsPartition ==
  step = "returned" =>
    /\ \A c \in DOMAIN impact : impact[c] # {}
    /\ \A c, d \in DOMAIN impact : c # d => impact[c] \cap impact[d] = {}
    /\ \A c \in DOMAIN impact \ {NoCriticality} :
         \A n \in impact[c] : n \in network.nodes /\ CriticalityOf[n] = c
    /\ \A n \in AllNodes \cap network.nodes : n \in impact[CriticalityOf[n]]

\* Losing a node never improves anyone's supply: what the second call finds
\* energized the first did too, and what the first found dead stays dead.  The
\* comparison of the two answers rests on this.
LossNeverHelps ==
  step \in {"solved after", "returned"} =>
    \A n \in DOMAIN after :
      /\ n \in DOMAIN before
      /\ after[n].state \in EnergizedStates => before[n].state \in EnergizedStates
      /\ before[n].state = "DE_ENERGIZED" => after[n].state = "DE_ENERGIZED"

=============================================================================
