---------------------- MODULE DownstreamImpact_proofs ----------------------
(***************************************************************************)
(* Proofs about downstream_impact, for every network and every lost node.  *)
(***************************************************************************)
EXTENDS DownstreamImpact, Network_proofs, TLAPS

-----------------------------------------------------------------------------
(* The surviving network.                                                   *)

(* What survives the loss of x: the rest of the sources, and the edges      *)
(* that do not end at x.                                                    *)
LEMMA SurvivorsParts ==
  ASSUME NEW w, IsNetwork(w), NEW x
  PROVE  LET v == Survivors(w, x) IN
         /\ IsNetwork(v)
         /\ v.sources = {s \in w.sources : s.node # x}
         /\ \A i : i \in DOMAIN v.edges <=>
                     /\ i \in DOMAIN w.edges
                     /\ w.edges[i].from # x /\ w.edges[i].to # x
         /\ \A i \in DOMAIN v.edges : v.edges[i] = w.edges[i]
         /\ CollectNodeIds(v) \subseteq CollectNodeIds(w) \ {x}
<1> DEFINE v == Survivors(w, x)
<1>1. /\ v.nodes = w.nodes \ {x}
      /\ v.sources = {s \in w.sources : s.node # x}
      /\ DOMAIN v.edges = {j \in DOMAIN w.edges : w.edges[j].from # x /\ w.edges[j].to # x}
      /\ \A i \in DOMAIN v.edges : v.edges[i] = w.edges[i]
  BY DEF Survivors
<1>2. IsNetwork(v)
  BY <1>1 DEF IsNetwork
<1>3. CollectNodeIds(v) \subseteq CollectNodeIds(w) \ {x}
  BY <1>1 DEF CollectNodeIds
<1> QED
  BY <1>1, <1>2, <1>3

\* Nothing is joined in what survives that was not joined before.
LEMMA SurvivorsReach ==
  ASSUME NEW w, IsNetwork(w), NEW x, NEW C, NEW n
  PROVE  Feeding(Survivors(w, x), C, n) \subseteq Feeding(w, C, n)
<1>1. PICK v : v = Survivors(w, x)
  OBVIOUS
<1>2. /\ IsNetwork(v)
      /\ v.sources = {s \in w.sources : s.node # x}
      /\ \A i \in DOMAIN v.edges : i \in DOMAIN w.edges /\ v.edges[i] = w.edges[i]
      /\ CollectNodeIds(v) \subseteq CollectNodeIds(w) \ {x}
  BY <1>1, SurvivorsParts
<1>3. ASSUME NEW m \in CollectNodeIds(v), NEW k \in Reach(v, C, m)
      PROVE  k \in Reach(w, C, m)
  <2> SUFFICES ASSUME NEW X \in SUBSET CollectNodeIds(w), m \in X, Sealed(w, C, X)
               PROVE  k \in X
    BY <1>2, <1>3 DEF Reach
  <2>1. Sealed(v, C, X \cap CollectNodeIds(v))
    <3> SUFFICES ASSUME NEW i \in DOMAIN v.edges, v.edges[i].sw \in C
                 PROVE  v.edges[i].from \in X <=> v.edges[i].to \in X
      BY <1>2, NetworkParts DEF Sealed
    <3> QED
      BY <1>2 DEF Sealed
  <2> QED
    BY <1>3, <2>1 DEF Reach
<1>4. \A s \in v.sources : s.node \in CollectNodeIds(v)
  BY <1>2, NetworkParts
<1> QED
  BY <1>1, <1>2, <1>3, <1>4 DEF Feeding

\* A node no source feeds in what survives is one the lost node cuts off.
LEMMA UnfedIsCutOff ==
  ASSUME IsNetwork(network), NEW n \in CollectNodeIds(network) \ {lost}
  PROVE  Feeding(Survivors(network, lost), Possible, n) = {}
           <=> \E X \in SUBSET (CollectNodeIds(network) \ {lost}) :
                 n \in X /\ CutOffBy(X, lost)
<1>1. PICK v : v = Survivors(network, lost)
  OBVIOUS
<1>2. /\ IsNetwork(v)
      /\ v.sources = {s \in network.sources : s.node # lost}
      /\ \A i : i \in DOMAIN v.edges <=>
                  /\ i \in DOMAIN network.edges
                  /\ network.edges[i].from # lost /\ network.edges[i].to # lost
      /\ \A i \in DOMAIN v.edges : v.edges[i] = network.edges[i]
      /\ CollectNodeIds(v) \subseteq CollectNodeIds(network) \ {lost}
  BY <1>1, SurvivorsParts
<1>3. ASSUME NEW X \in SUBSET (CollectNodeIds(network) \ {lost}),
             n \in X, CutOffBy(X, lost), NEW s \in Feeding(v, Possible, n)
      PROVE  FALSE
  <2> DEFINE Y == {m \in CollectNodeIds(v) : m \notin X}
  <2>1. s \in v.sources /\ n \in Reach(v, Possible, s.node)
    BY <1>3 DEF Feeding
  <2>2. s.node \in Y
    BY <1>2, <1>3, <2>1, NetworkParts DEF CutOffBy
  <2>3. Sealed(v, Possible, Y)
    <3> SUFFICES ASSUME NEW i \in DOMAIN v.edges, v.edges[i].sw \in Possible
                 PROVE  v.edges[i].from \in X <=> v.edges[i].to \in X
      BY <1>2, NetworkParts DEF Sealed
    <3> QED
      BY <1>2, <1>3 DEF CutOffBy
  <2> QED
    BY <1>3, <2>1, <2>2, <2>3 DEF Reach
<1>4. ASSUME Feeding(v, Possible, n) = {}, n \in CollectNodeIds(v)
      PROVE  \E X \in SUBSET (CollectNodeIds(network) \ {lost}) :
               n \in X /\ CutOffBy(X, lost)
  <2> DEFINE X == Reach(v, Possible, n)
  <2>1. n \in X /\ X \subseteq CollectNodeIds(network) \ {lost}
    BY <1>2, <1>4, ReachStart DEF Reach
  <2>2. \A s \in network.sources : s.node \notin X
    <3> SUFFICES ASSUME NEW s \in network.sources, s.node \in X
                 PROVE  FALSE
      OBVIOUS
    <3>1. s \in v.sources
      BY <1>2, <2>1
    <3>2. n \in Reach(v, Possible, s.node)
      BY <1>2, <1>4, ReachSymmetric
    <3> QED
      BY <1>4, <3>1, <3>2 DEF Feeding
  <2>3. ASSUME NEW i \in DOMAIN network.edges,
               network.edges[i].sw \in Possible,
               network.edges[i].from # lost, network.edges[i].to # lost
        PROVE  network.edges[i].from \in X <=> network.edges[i].to \in X
    <3>1. i \in DOMAIN v.edges /\ v.edges[i] = network.edges[i]
      BY <1>2, <2>3
    <3> QED
      BY <1>2, <2>3, <3>1, ReachStep
  <2>4. CutOffBy(X, lost)
    BY <2>2, <2>3 DEF CutOffBy
  <2> QED
    BY <2>1, <2>4
<1>5. ASSUME n \notin CollectNodeIds(v)
      PROVE  CutOffBy({n}, lost)
  <2>1. \A s \in network.sources : s.node # n
    BY <1>2, <1>5, NetworkParts
  <2>2. \A i \in DOMAIN network.edges :
          network.edges[i].from # lost /\ network.edges[i].to # lost
            => network.edges[i].from # n /\ network.edges[i].to # n
    BY <1>2, <1>5, NetworkParts
  <2> QED
    BY <2>1, <2>2 DEF CutOffBy
<1> QED
  BY <1>1, <1>3, <1>4, <1>5

-----------------------------------------------------------------------------
(* The inductive invariant.                                                 *)

\* Each answer the call holds is one the solver may give for its network, and
\* the buckets are those of the comparison.
IInv ==
  /\ IsNetwork(network) /\ lost \in NodeId
  /\ step \in {"called", "solved before", "solved after", "returned"}
  /\ step # "called" =>
       /\ DOMAIN before = CollectNodeIds(network)
       /\ \A n \in DOMAIN before : before[n] \in Verdicts(network, n)
  /\ step \in {"solved after", "returned"} =>
       LET v == Survivors(network, lost) IN
       /\ DOMAIN after = CollectNodeIds(v)
       /\ \A n \in DOMAIN after : after[n] \in Verdicts(v, n)
  /\ step # "returned" => impact = <<>>
  /\ step = "returned" =>
       impact = [c \in {BucketOf(n) : n \in Impacted} |->
                   {n \in Impacted : BucketOf(n) = c}]

(* A solution gives every node a verdict it may have.                       *)
LEMMA SolutionsVerdicts ==
  ASSUME NEW w, NEW f \in Solutions(w)
  PROVE  /\ DOMAIN f = CollectNodeIds(w)
         /\ \A n \in DOMAIN f : f[n] \in Verdicts(w, n)
BY DEF Solutions

\* IInv holds initially and every step of the call keeps it.
LEMMA InductiveInvariant == Spec => []IInv
<1>1. Init => IInv
  BY ImpactAssumption DEF Init, IInv
<1>2. IInv /\ [Next]_vars => IInv'
  <2> SUFFICES ASSUME IInv, [Next]_vars PROVE IInv'
    OBVIOUS
  <2>1. CASE SolveBefore
    BY <2>1, SolutionsVerdicts DEF SolveBefore, IInv
  <2>2. CASE SolveAfter
    BY <2>2, SolutionsVerdicts DEF SolveAfter, IInv
  <2>3. CASE Compare
    <3>1. Impacted' = Impacted /\ \A n : BucketOf(n)' = BucketOf(n)
      BY <2>3 DEF Compare, Impacted, BucketOf, StateAfter
    <3> QED
      BY <2>3, <3>1 DEF Compare, IInv
  <2>4. CASE UNCHANGED vars
    <3>1. Impacted' = Impacted /\ \A n : BucketOf(n)' = BucketOf(n)
      BY <2>4 DEF vars, Impacted, BucketOf, StateAfter
    <3> QED
      BY <2>4, <3>1 DEF vars, IInv
  <2> QED
    BY <2>1, <2>2, <2>3, <2>4 DEF Next, Returned
<1> QED
  BY <1>1, <1>2, PTL DEF Spec

-----------------------------------------------------------------------------
(* What the impact set holds.                                               *)

(* The buckets hold what is impacted, and nothing else.                     *)
LEMMA ImpactContents ==
  ASSUME IInv, step = "returned"
  PROVE  AllNodes = Impacted
BY DEF IInv, AllNodes

\* The three kinds of verdict, told by the state alone.
LEMMA StateKinds ==
  ASSUME NEW w, NEW n, NEW v \in Verdicts(w, n)
  PROVE  /\ v.state \in EnergizedStates <=> Feeding(w, Definite, n) # {}
         /\ v.state = "DE_ENERGIZED" <=> Feeding(w, Possible, n) = {}
<1>1. Preferred(Feeding(w, Definite, n)) \subseteq Feeding(w, Definite, n)
  BY DEF Preferred
<1> QED
  BY <1>1, VerdictKinds, DefiniteIsPossible DEF EnergizedStates

\* Type correctness of the call.
THEOREM TypeCorrect == Spec => []TypeOK
<1>1. IInv => TypeOK
  <2> SUFFICES ASSUME IInv PROVE TypeOK
    OBVIOUS
  <2>1. CASE step = "returned"
    <3>1. Impacted \subseteq CollectNodeIds(network) \ {lost}
      BY <2>1 DEF Impacted, IInv
    <3>2. DOMAIN impact \subseteq Criticality \cup {NoCriticality}
      BY <2>1, <3>1, ImpactAssumption DEF IInv, BucketOf, CollectNodeIds
    <3> QED
      BY <2>1, <3>1, <3>2, ImpactContents DEF TypeOK, IInv
  <2>2. CASE step # "returned"
    <3>1. impact = <<>>
      BY <2>2 DEF IInv
    <3>2. DOMAIN impact = {}
      BY <3>1
    <3> QED
      BY <3>2 DEF TypeOK, IInv, AllNodes
  <2> QED
    BY <2>1, <2>2
<1> QED
  BY <1>1, InductiveInvariant, PTL

\* The impact set is exactly the certainly energized loads the lost node cuts
\* off, on every network.
THEOREM ImpactIsSeparationAlways == Spec => []ImpactIsSeparation
<1>1. IInv => ImpactIsSeparation
  <2> SUFFICES ASSUME IInv, step = "returned",
                      NEW n \in CollectNodeIds(network) \ {lost}
               PROVE  n \in Impacted <=>
                        /\ Feeding(network, Definite, n) # {}
                        /\ Feeding(Survivors(network, lost), Possible, n) = {}
    BY UnfedIsCutOff, ImpactContents DEF ImpactIsSeparation, IInv
  <2>1. before[n].state \in EnergizedStates <=> Feeding(network, Definite, n) # {}
    BY StateKinds DEF IInv
  <2>2. StateAfter(n) = "DE_ENERGIZED"
          <=> Feeding(Survivors(network, lost), Possible, n) = {}
    <3>1. CASE n \in DOMAIN after
      BY <3>1, StateKinds DEF IInv, StateAfter
    <3>2. CASE n \notin DOMAIN after
      BY <3>2 DEF IInv, StateAfter, Feeding, Reach
    <3> QED
      BY <3>1, <3>2
  <2> QED
    BY <2>1, <2>2 DEF Impacted, IInv
<1> QED
  BY <1>1, InductiveInvariant, PTL

\* Every impacted id is in one bucket, its own.
THEOREM BucketsPartitionAlways == Spec => []BucketsPartition
<1>1. IInv => BucketsPartition
  <2> SUFFICES ASSUME IInv, step = "returned" PROVE BucketsPartition
    BY DEF BucketsPartition
  <2>1. /\ DOMAIN impact = {BucketOf(n) : n \in Impacted}
        /\ \A c \in DOMAIN impact : impact[c] = {n \in Impacted : BucketOf(n) = c}
    BY DEF IInv
  <2> QED
    BY <2>1, ImpactContents DEF BucketsPartition, BucketOf
<1> QED
  BY <1>1, InductiveInvariant, PTL

\* Losing a node improves nobody's supply, on every network.
THEOREM LossNeverHelpsAlways == Spec => []LossNeverHelps
<1>1. IInv => LossNeverHelps
  <2> SUFFICES ASSUME IInv, step \in {"solved after", "returned"}, NEW n \in DOMAIN after
               PROVE  /\ n \in DOMAIN before
                      /\ after[n].state \in EnergizedStates
                           => before[n].state \in EnergizedStates
                      /\ before[n].state = "DE_ENERGIZED"
                           => after[n].state = "DE_ENERGIZED"
    BY DEF LossNeverHelps
  <2>1. /\ IsNetwork(network)
        /\ n \in CollectNodeIds(Survivors(network, lost))
        /\ after[n] \in Verdicts(Survivors(network, lost), n)
    BY DEF IInv
  <2>2. n \in DOMAIN before /\ before[n] \in Verdicts(network, n)
    BY <2>1, SurvivorsParts DEF IInv
  <2>3. /\ Feeding(Survivors(network, lost), Definite, n) \subseteq Feeding(network, Definite, n)
        /\ Feeding(Survivors(network, lost), Possible, n) \subseteq Feeding(network, Possible, n)
    BY <2>1, SurvivorsReach
  <2> QED
    BY <2>1, <2>2, <2>3, StateKinds
<1> QED
  BY <1>1, InductiveInvariant, PTL

=============================================================================
