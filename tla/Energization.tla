---------------------------- MODULE Energization ----------------------------
(***************************************************************************)
(* The topology solver: solve_energization of                              *)
(* packages/electrical_engineering/topology.py, step by step.              *)
(*                                                                         *)
(* For each source in sorted order a breadth-first search over the CLOSED  *)
(* edges claims every node no earlier source has claimed; a second pass    *)
(* does the same over CLOSED-or-UNKNOWN edges and marks what it claims     *)
(* INDETERMINATE; what is left is DE_ENERGIZED.  The call is single        *)
(* threaded: one action is one iteration of one of its loops.              *)
(***************************************************************************)
EXTENDS Network

CONSTANTS
  Networks,  \* the networks a caller may pass
  NoSource   \* no source is being searched from

ASSUME NetworksAssumption ==
  (\A w \in Networks : IsNetwork(w)) /\ NoSource \notin Source

VARIABLES
  network,   \* nodes, edges, sources: the arguments, never mutated
  pass,      \* which of the three passes is running
  pending,   \* the sources the running pass has not yet taken
  source,    \* the source the search started from, or NoSource
  parents,   \* the search's parent map; its domain is the visited set
  queue,     \* the search's FIFO queue
  results    \* the results so far, by node id

vars == <<network, pass, pending, source, parents, queue, results>>

Pass == {"definite", "possible", "rest", "returned"}

ConductingAlwaysPossible == Possible

\* The edges the running pass takes to conduct.
Conducting == IF pass = "definite" THEN Definite ELSE Possible

\* A parent-map entry: where the search came from, over which edge (0 for the
\* root), and whether against the declared direction of that edge.
Root == [prev |-> NoNode, edge |-> 0, against |-> FALSE]

Hop == [prev : NodeId \cup {NoNode}, edge : Nat, against : BOOLEAN]

VerdictOf(result) == [state |-> result.state, source |-> result.source]

NoMap == [n \in {} |-> Root]

Init ==
  /\ network \in Networks
  /\ pass = "definite"
  /\ pending = network.sources
  /\ source = NoSource
  /\ parents = NoMap
  /\ queue = <<>>
  /\ results = NoMap

-----------------------------------------------------------------------------
(* The search from one source.                                              *)

NextSourceUnsorted == pending

\* The sources that may come next in the sorted list.
NextSource == Preferred(pending)

StartSearch ==
  /\ pass \in {"definite", "possible"}
  /\ source = NoSource
  /\ \E s \in NextSource :
       /\ source' = s
       /\ pending' = pending \ {s}
       /\ parents' = [n \in {s.node} |-> Root]
       /\ queue' = <<s.node>>
  /\ UNCHANGED <<network, pass, results>>

\* Both ends of a conducting edge list each other as neighbours.
OtherEnd(i, n) ==
  IF network.edges[i].from = n THEN network.edges[i].to
                               ELSE network.edges[i].from

Against(i, n) == network.edges[i].from # n

Touches(i, n) ==
  network.edges[i].from = n \/ network.edges[i].to = n

FreshForwardOnly(n) ==
  {i \in DOMAIN network.edges :
     /\ network.edges[i].sw \in Conducting
     /\ network.edges[i].from = n
     /\ OtherEnd(i, n) \notin DOMAIN parents}

\* The conducting edges from n to a node not yet visited.
Fresh(n) ==
  {i \in DOMAIN network.edges :
     /\ network.edges[i].sw \in Conducting
     /\ Touches(i, n)
     /\ OtherEnd(i, n) \notin DOMAIN parents}

\* `for neighbour, edge, against in adjacency[current]`, in list order.
Visit ==
  /\ queue # <<>>
  /\ \E i \in Fresh(Head(queue)) :
       LET current   == Head(queue)
           neighbour == OtherEnd(i, current)
       IN  /\ \A j \in Fresh(current) : i <= j
           /\ parents' =
                [n \in DOMAIN parents \cup {neighbour} |->
                   IF n = neighbour
                     THEN [prev |-> current, edge |-> i,
                           against |-> Against(i, current)]
                     ELSE parents[n]]
           /\ queue' = Append(queue, neighbour)
  /\ UNCHANGED <<network, pass, pending, source, results>>

AdvanceWithoutPop ==
  /\ queue # <<>>
  /\ Fresh(Head(queue)) = {}
  /\ queue' = queue
  /\ UNCHANGED <<network, pass, pending, source, parents, results>>

\* The head has no unvisited neighbour left; `current` moves on.
Advance ==
  /\ queue # <<>>
  /\ Fresh(Head(queue)) = {}
  /\ queue' = Tail(queue)
  /\ UNCHANGED <<network, pass, pending, source, parents, results>>

-----------------------------------------------------------------------------
(* Claiming what the search reached.                                        *)

\* _reconstruct_path: the nodes, and the edges, from the root to n.
PathTo(n) ==
  LET path[m \in DOMAIN parents] ==
        IF parents[m].prev = NoNode THEN <<m>>
                                    ELSE Append(path[parents[m].prev], m)
  IN  path[n]

LastEdgeTo(n) ==
  IF parents[n].prev = NoNode THEN <<>> ELSE <<parents[n].edge>>

EdgesTo(n) ==
  LET edges[m \in DOMAIN parents] ==
        IF parents[m].prev = NoNode
          THEN <<>>
          ELSE Append(edges[parents[m].prev], parents[m].edge)
  IN  edges[n]

BackfedAtLastHop(n) == parents[n].against

Backfed(n) ==
  \E k \in DOMAIN PathTo(n) : parents[PathTo(n)[k]].against

\* The UNKNOWN switches the reason lists, in any order.
UnknownOn(edges) ==
  {edges[k] : k \in DOMAIN edges} \cap UnknownEdges(network)

ClaimedResult(n) ==
  [state   |-> IF pass = "definite" THEN StateForSourceType(source.type)
                                    ELSE "INDETERMINATE",
   source  |-> source.node,
   path    |-> PathTo(n),
   backfed |-> Backfed(n),
   reason  |-> IF pass = "definite" THEN {} ELSE UnknownOn(EdgesTo(n))]

\* Ids already in `results` are skipped by the claiming loops.
Kept == DOMAIN results

\* The loop over the parent map once the search is over.
Claim ==
  /\ source # NoSource
  /\ queue = <<>>
  /\ results' =
       [n \in DOMAIN results \cup DOMAIN parents |->
          IF n \in Kept THEN results[n] ELSE ClaimedResult(n)]
  /\ source' = NoSource
  /\ parents' = NoMap
  /\ UNCHANGED <<network, pass, pending, queue>>

\* A pass ends when its sources are exhausted; the second starts over.
NextPass ==
  /\ pass \in {"definite", "possible"}
  /\ source = NoSource
  /\ pending = {}
  /\ IF pass = "definite"
       THEN pass' = "possible" /\ pending' = network.sources
       ELSE pass' = "rest" /\ UNCHANGED pending
  /\ UNCHANGED <<network, source, parents, queue, results>>

DeEnergizedResult ==
  [state |-> "DE_ENERGIZED", source |-> NoNode, path |-> <<>>,
   backfed |-> FALSE, reason |-> {}]

DeEnergizeRest ==
  /\ pass = "rest"
  /\ results' =
       [n \in DOMAIN results \cup CollectNodeIds(network) |->
          IF n \in DOMAIN results THEN results[n] ELSE DeEnergizedResult]
  /\ pass' = "returned"
  /\ UNCHANGED <<network, pending, source, parents, queue>>

\* The call has returned; nothing is left to do.
Returned ==
  /\ pass = "returned"
  /\ UNCHANGED vars

Next ==
  \/ StartSearch
  \/ Visit
  \/ Advance
  \/ Claim
  \/ NextPass
  \/ DeEnergizeRest
  \/ Returned

Spec == Init /\ [][Next]_vars

\* A call that is running keeps running.
FairSpec == Spec /\ WF_vars(Next)

-----------------------------------------------------------------------------
(* Properties.                                                              *)

\* Types; and the solver never reports on an id the network does not mention.
\* (What a result's path and reason are is for PathIsEvidence and
\* ReasonNamesTheDoubt to say.)
TypeOK ==
  /\ IsNetwork(network)
  /\ pass \in Pass
  /\ pending \subseteq network.sources
  /\ source \in network.sources \cup {NoSource}
  /\ parents \in [DOMAIN parents -> Hop]
  /\ DOMAIN parents \subseteq CollectNodeIds(network)
  /\ queue \in Seq(DOMAIN parents)
  /\ results = [n \in DOMAIN results |-> results[n]]
  /\ \A n \in DOMAIN results : VerdictOf(results[n]) \in Verdict
  /\ DOMAIN results \subseteq CollectNodeIds(network)

\* _bfs_from_source: when a search is over it has visited exactly what the
\* conducting edges join to its source, backwards over an edge as well as
\* forwards, cycles included (topology.py:133-155).
SearchIsExact ==
  source # NoSource /\ queue = <<>> =>
    DOMAIN parents = Reach(network, Conducting, source.node)

\* "UNKNOWN switch state is never resolved by assumption" (topology.py:20-22),
\* measured against every position the UNKNOWN switches may really be in: a
\* node called energized is supplied in all of them, one called DE_ENERGIZED in
\* none, and INDETERMINATE means that the positions really decide.
NeverGuesses ==
  pass = "returned" =>
    \A n \in DOMAIN results :
      LET supplied(P) == SuppliedIf(network, P, n)
          Positions   == SUBSET UnknownEdges(network)
      IN  \/ /\ results[n].state \in EnergizedStates
             /\ \A P \in Positions : supplied(P)
          \/ /\ results[n].state = "DE_ENERGIZED"
             /\ \A P \in Positions : ~supplied(P)
          \/ /\ results[n].state = "INDETERMINATE"
             /\ \E P, Q \in Positions : supplied(P) /\ ~supplied(Q)

\* How far a definite answer can be trusted.  The supply named for an energized
\* node (its kind and its source) is the one it has whatever the UNKNOWN
\* switches are, unless a source preferred to the one named may reach the node
\* through them: pass 1 reads UNKNOWN as open when it picks the supply
\* (topology.py:225-238).
SupplyIsStable ==
  pass = "returned" =>
    \A n \in DOMAIN results :
      results[n].state \in EnergizedStates =>
        \A P \in SUBSET UnknownEdges(network) :
          \/ VerdictOf(results[n]) \in Verdicts(Resolve(network, P), n)
          \/ \E t \in Feeding(network, Possible, n) \ Feeding(network, Definite, n) :
               \E s \in network.sources :
                 s.node = results[n].source /\ Before(t, s)

\* The conducting edges that lead from a to b, and the first of the list.
Joining(C, a, b) ==
  {i \in DOMAIN network.edges :
     network.edges[i].sw \in C /\ Touches(i, a) /\ OtherEnd(i, a) = b}

FirstEdge(C, a, b) ==
  CHOOSE i \in Joining(C, a, b) : \A j \in Joining(C, a, b) : i <= j

\* The nodes at most k hops from a.
Ball(C, a, k) ==
  LET ball[j \in Nat] ==
        IF j = 0 THEN {a}
        ELSE {m \in CollectNodeIds(network) :
                \/ m \in ball[j - 1]
                \/ \E i \in DOMAIN network.edges :
                     /\ network.edges[i].sw \in C
                     /\ Touches(i, m) /\ OtherEnd(i, m) \in ball[j - 1]}
  IN  ball[k]

\* The path of a result is evidence for it: a shortest way from the source it
\* names to the node over edges that conduct, and `is_backfed` holds iff some
\* hop of it runs against the declared direction of the edge it takes
\* (topology.py:158-182).
PathIsEvidence ==
  \A n \in DOMAIN results :
    results[n].state # "DE_ENERGIZED" =>
      LET r == results[n]
          p == r.path
          C == IF r.state = "INDETERMINATE" THEN Possible ELSE Definite
      IN  /\ p # <<>> /\ p[1] = r.source /\ p[Len(p)] = n
          /\ \A k \in 1 .. Len(p) - 1 :
               p[k + 1] \in Ball(C, p[k], 1) /\ p[k + 1] # p[k]
          /\ Len(p) > 1 => n \notin Ball(C, r.source, Len(p) - 2)
          /\ r.backfed <=>
               \E k \in 1 .. Len(p) - 1 :
                 network.edges[FirstEdge(C, p[k], p[k + 1])].from # p[k]

\* The reason given with INDETERMINATE (topology.py:250-258) names the doubt:
\* only UNKNOWN switches, at least one, and were exactly these closed the node
\* would be supplied.
ReasonNamesTheDoubt ==
  \A n \in DOMAIN results :
    results[n].state = "INDETERMINATE" =>
      LET named == results[n].reason
      IN  /\ named # {} /\ named \subseteq UnknownEdges(network)
          /\ SuppliedIf(network, named, n)

\* The call returns, cycles or not ("Cycles terminate", topology.py:23).
Terminates == <>(pass = "returned")

\* What the caller has in hand.
Answer ==
  IF pass = "returned" THEN [n \in DOMAIN results |-> VerdictOf(results[n])]
                       ELSE <<>>

Abstract == INSTANCE EnergizationSpec WITH verdict <- Answer

\* The call delivers what EnergizationSpec promises: a verdict for every id,
\* decided by supply and by the order of the sources alone.
Implements == Abstract!Spec

-----------------------------------------------------------------------------
(* The inductive invariant behind SearchIsExact and Implements.             *)

Queued(n) == \E k \in 1 .. Len(queue) : queue[k] = n

\* A search has visited only what its source reaches, and every conducting
\* edge that still leads out of the visited set starts at a queued node.
SearchInv ==
  /\ queue # <<>> => source # NoSource
  /\ source # NoSource =>
       /\ pass \in {"definite", "possible"}
       /\ source.node \in DOMAIN parents
       /\ DOMAIN parents \subseteq Reach(network, Conducting, source.node)
       /\ \A i \in DOMAIN network.edges, n \in DOMAIN parents :
            /\ network.edges[i].sw \in Conducting
            /\ Touches(i, n) /\ OtherEnd(i, n) \notin DOMAIN parents
            => Queued(n)

\* No source still pending should have come before one already taken.
OrderInv ==
  /\ source \notin pending
  /\ \A s \in network.sources \ pending, t \in pending : ~Before(t, s)

\* The sources of the running pass that have been dealt with.
Finished == network.sources \ (pending \cup {source})

Fed(C, S) ==
  {n \in CollectNodeIds(network) :
     \E s \in S : n \in Reach(network, C, s.node)}

\* What has been claimed is what the sources dealt with reach, and each claim
\* is already the verdict the call will return.
ClaimInv ==
  /\ \A n \in DOMAIN results : VerdictOf(results[n]) \in Verdicts(network, n)
  /\ DOMAIN results =
       CASE pass = "definite" -> Fed(Definite, Finished)
         [] pass = "possible" -> Fed(Definite, network.sources) \cup Fed(Possible, Finished)
         [] pass = "rest"     -> Fed(Definite, network.sources) \cup Fed(Possible, network.sources)
         [] pass = "returned" -> CollectNodeIds(network)

\* Why the solver is right at every step of the call, not only at its end.
IInv == SearchInv /\ OrderInv /\ ClaimInv

-----------------------------------------------------------------------------
(* The inductive invariant behind PathIsEvidence and ReasonNamesTheDoubt:   *)
(* what the parent map of a search is, path(n) and edges(n) being the nodes *)
(* and the edges on the way back from n.                                    *)

\* An entry of the parent map is the first edge that conducts from a visited
\* node; only the root has none.
HopInv ==
  \A n \in DOMAIN parents :
    LET hop == parents[n]
        way == Joining(Conducting, hop.prev, n)
    IN  IF n = source.node THEN hop = Root
        ELSE /\ hop.prev \in DOMAIN parents \ {n}
             /\ hop.edge \in way /\ \A j \in way : hop.edge <= j
             /\ hop.against = Against(hop.edge, hop.prev)

\* Every way back ends at the root, over the entries of the map.
PathInv(path, edges) ==
  \A n \in DOMAIN parents :
    LET p == path[n]
    IN  /\ p \in Seq(DOMAIN parents) /\ p # <<>>
        /\ p[1] = source.node /\ p[Len(p)] = n
        /\ \A k \in 1 .. Len(p) - 1 :
             p[k + 1] # source.node /\ p[k] = parents[p[k + 1]].prev
        /\ edges[n] \in Seq(DOMAIN network.edges)

\* The queue holds the nodes of at most two levels, in their order, and only
\* queued nodes have neighbours beyond the next level.
LevelInv(path) ==
  LET level(n) == Len(path[n])
  IN  /\ \A k \in 1 .. Len(queue) - 1 : level(queue[k]) <= level(queue[k + 1])
      /\ queue # <<>> => \A n \in DOMAIN parents : level(n) <= level(Head(queue)) + 1
      /\ \A n \in DOMAIN parents, i \in DOMAIN network.edges :
           network.edges[i].sw \in Conducting /\ Touches(i, n) /\ ~Queued(n) =>
             OtherEnd(i, n) \in DOMAIN parents /\ level(OtherEnd(i, n)) <= level(n) + 1

\* Were exactly the UNKNOWN switches on the way to n closed, n would be reached.
DoubtInv(edges) ==
  \A n \in DOMAIN parents :
    n \in Reach(Resolve(network, UnknownOn(edges[n])), Definite, source.node)

Walks(path, edges) ==
  HopInv /\ PathInv(path, edges) /\ LevelInv(path) /\ DoubtInv(edges)

WalkInv ==
  source # NoSource =>
    Walks([n \in DOMAIN parents |-> PathTo(n)], [n \in DOMAIN parents |-> EdgesTo(n)])

=============================================================================
