--------------------------- MODULE Network_proofs ---------------------------
(***************************************************************************)
(* Facts about supply, for every network: what the proofs about the solver *)
(* and about its client rest on.                                           *)
(***************************************************************************)
EXTENDS Network, TLAPS, WellFoundedInduction

-----------------------------------------------------------------------------
(* Induction over the natural numbers, by the least counterexample.         *)

(* Of any numbers one is least: what proofs over lengths and levels use in  *)
(* the place of induction.                                                  *)
LEMMA LeastExists ==
  ASSUME NEW S \in SUBSET Nat, S # {}
  PROVE  \E k \in S : \A m \in S : k <= m
<1> DEFINE R == OpToRel(<, Nat)
<1>1. IsWellFoundedOn(R, Nat)
  BY NatLessThanWellFounded
<1>2. \A k, m \in Nat : <<k, m>> \in R <=> k < m
  BY DEF OpToRel
<1> HIDE DEF R
<1>3. PICK k \in S : \A m \in S : <<m, k>> \notin R
  BY <1>1, WFMin
<1>4. ASSUME NEW m \in S PROVE k <= m
  <2>1. k \in Nat /\ m \in Nat /\ ~(m < k)
    BY <1>2, <1>3
  <2> QED
    BY <2>1
<1> QED
  BY <1>3, <1>4

\* Repeating a step from a start defines a function of the number of steps.
LEMMA IterationExists ==
  ASSUME NEW S, NEW a \in S, NEW F \in [S -> S]
  PROVE  \E f \in [Nat -> S] : f[0] = a /\ \A n \in Nat : f[n + 1] = F[f[n]]
<1> DEFINE G(k) == {g \in [0 .. k -> S] :
                      g[0] = a /\ \A i \in 0 .. k - 1 : g[i + 1] = F[g[i]]}
<1>1. ASSUME NEW k \in Nat PROVE G(k) # {}
  <2> DEFINE Bad == {j \in Nat : G(j) = {}}
  <2>1. SUFFICES ASSUME Bad # {} PROVE FALSE
    OBVIOUS
  <2>2. PICK j \in Bad : \A m \in Bad : j <= m
    BY <2>1, LeastExists
  <2>3. j # 0
    <3>1. [i \in 0 .. 0 |-> a] \in G(0)
      OBVIOUS
    <3> QED
      BY <2>2, <3>1
  <2>4. j \in Nat /\ j - 1 \in Nat /\ j - 1 \notin Bad
    BY <2>2, <2>3, SMTT(30)
  <2>5. PICK g : g \in G(j - 1)
    BY <2>4
  <2> DEFINE h == [i \in 0 .. j |-> IF i = j THEN F[g[j - 1]] ELSE g[i]]
  <2>6. g[j - 1] \in S /\ F[g[j - 1]] \in S
    BY <2>4, <2>5
  <2>7. h \in [0 .. j -> S] /\ h[0] = a
    BY <2>3, <2>4, <2>5, <2>6
  <2>8. ASSUME NEW i \in 0 .. j - 1 PROVE h[i + 1] = F[h[i]]
    BY <2>4, <2>5
  <2>9. h \in G(j)
    BY <2>7, <2>8
  <2> QED
    BY <2>2, <2>9
<1>2. ASSUME NEW j \in Nat, NEW g \in G(j), NEW h \in G(j + 1)
      PROVE  g[j] = h[j]
  <2> DEFINE Bad == {i \in 0 .. j : g[i] # h[i]}
  <2>1. SUFFICES ASSUME Bad # {} PROVE FALSE
    OBVIOUS
  <2>2. PICK i \in Bad : \A m \in Bad : i <= m
    <3>1. Bad \in SUBSET Nat
      OBVIOUS
    <3> QED
      BY <2>1, <3>1, LeastExists
  <2>3. i # 0
    BY <2>2
  <2>4. i - 1 \in 0 .. j - 1 /\ i - 1 \in 0 .. j /\ i - 1 \notin Bad /\ i = (i - 1) + 1
    BY <2>2, <2>3
  <2>5. g[i - 1] = h[i - 1]
    BY <2>4
  <2>6. g[(i - 1) + 1] = F[g[i - 1]] /\ h[(i - 1) + 1] = F[h[i - 1]]
    BY <2>4
  <2> QED
    BY <2>2, <2>4, <2>5, <2>6
<1> DEFINE c(n) == CHOOSE g : g \in G(n)
           f == [n \in Nat |-> c(n)[n]]
<1>3. \A n \in Nat : c(n) \in G(n)
  BY <1>1
<1>4. ASSUME NEW n \in Nat PROVE c(n)[n] \in S
  <2> DEFINE g == c(n)
  <2>1. g \in [0 .. n -> S]
    BY <1>3
  <2> HIDE DEF g
  <2>2. g[n] \in S
    BY <2>1
  <2> QED
    BY <2>2 DEF g
<1>5. ASSUME NEW n \in Nat PROVE c(n + 1)[n + 1] = F[c(n)[n]]
  <2> DEFINE g == c(n)
             h == c(n + 1)
  <2>1. g \in G(n) /\ h \in G(n + 1)
    <3>1. n + 1 \in Nat
      OBVIOUS
    <3> QED
      BY <1>3, <3>1
  <2> HIDE DEF g, h
  <2>2. g[n] = h[n]
    BY <1>2, <2>1
  <2>3. n \in 0 .. (n + 1) - 1
    OBVIOUS
  <2>4. h[n + 1] = F[h[n]]
    BY <2>1, <2>3
  <2> QED
    BY <2>2, <2>4 DEF g, h
<1>6. c(0)[0] = a
  BY <1>3
<1> HIDE DEF c
<1>7. f \in [Nat -> S] /\ f[0] = a /\ \A n \in Nat : f[n + 1] = F[f[n]]
  BY <1>4, <1>5, <1>6
<1> QED
  BY <1>7

-----------------------------------------------------------------------------
(* What a network is made of.                                               *)

(* The parts of a network have their types.                                 *)
LEMMA NetworkParts ==
  ASSUME NEW w, IsNetwork(w)
  PROVE  /\ \A s \in w.sources : /\ s \in Source
                                 /\ s.node \in NodeId /\ s.prio \in Nat
                                 /\ s.node \in CollectNodeIds(w)
         /\ \A i \in DOMAIN w.edges : /\ i \in Nat /\ i >= 1
                                      /\ w.edges[i] \in Edge
                                      /\ w.edges[i].from \in CollectNodeIds(w)
                                      /\ w.edges[i].to \in CollectNodeIds(w)
<1>1. ASSUME NEW s \in w.sources
      PROVE  /\ s \in Source /\ s.node \in NodeId /\ s.prio \in Nat
             /\ s.node \in CollectNodeIds(w)
  BY DEF IsNetwork, Source, CollectNodeIds
<1>2. ASSUME NEW i \in DOMAIN w.edges
      PROVE  /\ i \in Nat /\ i >= 1
             /\ w.edges[i] \in Edge
             /\ w.edges[i].from \in CollectNodeIds(w)
             /\ w.edges[i].to \in CollectNodeIds(w)
  <2>1. i \in Nat /\ i >= 1 /\ w.edges[i] \in Edge
    BY DEF IsNetwork
  <2>2. w.edges[i].from \in NodeId /\ w.edges[i].to \in NodeId
    BY <2>1 DEF Edge
  <2> QED
    BY <2>1, <2>2 DEF CollectNodeIds
<1> QED
  BY <1>1, <1>2

(* A node is joined to itself.                                              *)
LEMMA ReachStart ==
  ASSUME NEW w, NEW C, NEW n \in CollectNodeIds(w)
  PROVE  n \in Reach(w, C, n)
BY DEF Reach

\* A conducting edge does not lead out of what is reached.
LEMMA ReachStep ==
  ASSUME NEW w, IsNetwork(w), NEW C, NEW n, NEW m \in Reach(w, C, n),
         NEW i \in DOMAIN w.edges, w.edges[i].sw \in C
  PROVE  /\ w.edges[i].from = m => w.edges[i].to \in Reach(w, C, n)
         /\ w.edges[i].to = m => w.edges[i].from \in Reach(w, C, n)
BY NetworkParts DEF Reach, Sealed

\* A set that is reached, holds the start and is sealed is all that is reached.
LEMMA ReachUnique ==
  ASSUME NEW w, IsNetwork(w), NEW C, NEW n, NEW V,
         n \in V, V \subseteq Reach(w, C, n), Sealed(w, C, V)
  PROVE  V = Reach(w, C, n)
BY DEF Reach

(* Every type of source gives an energized state.                           *)
LEMMA StateForSourceTypeType ==
  ASSUME NEW t
  PROVE  StateForSourceType(t) \in EnergizedStates
BY DEF StateForSourceType, EnergizedStates

\* Being joined works both ways: feeders are found from either end.
LEMMA ReachSymmetric ==
  ASSUME NEW w, IsNetwork(w), NEW C, NEW n \in CollectNodeIds(w),
         NEW m \in Reach(w, C, n)
  PROVE  n \in Reach(w, C, m)
<1> SUFFICES ASSUME NEW X \in SUBSET CollectNodeIds(w),
                    m \in X, Sealed(w, C, X), n \notin X
             PROVE  FALSE
  BY DEF Reach
<1> DEFINE Y == {k \in CollectNodeIds(w) : k \notin X}
<1>1. n \in Y /\ m \notin Y
  OBVIOUS
<1>2. Sealed(w, C, Y)
  <2> SUFFICES ASSUME NEW i \in DOMAIN w.edges, w.edges[i].sw \in C
               PROVE  w.edges[i].from \in Y <=> w.edges[i].to \in Y
    BY DEF Sealed
  <2>1. w.edges[i].from \in X <=> w.edges[i].to \in X
    BY DEF Sealed
  <2> QED
    BY <2>1, NetworkParts
<1> QED
  BY <1>1, <1>2 DEF Reach

\* What certainly conducts may conduct.
LEMMA DefiniteIsPossible ==
  ASSUME NEW w, NEW n
  PROVE  /\ Reach(w, Definite, n) \subseteq Reach(w, Possible, n)
         /\ Feeding(w, Definite, n) \subseteq Feeding(w, Possible, n)
<1>1. \A X : Sealed(w, Possible, X) => Sealed(w, Definite, X)
  BY DEF Sealed, Definite, Possible
<1>2. \A m : Reach(w, Definite, m) \subseteq Reach(w, Possible, m)
  BY <1>1 DEF Reach
<1> QED
  BY <1>2 DEF Feeding

-----------------------------------------------------------------------------
(* The order of the sources.                                                *)

(* No two sources come before one another.                                  *)
LEMMA BeforeIsStrict ==
  ASSUME NEW s \in Source, NEW t \in Source, Before(s, t)
  PROVE  ~Before(t, s)
<1>1. s.prio \in Nat /\ t.prio \in Nat /\ s.node \in NodeId /\ t.node \in NodeId
  BY DEF Source
<1>2. s.node \in Int /\ t.node \in Int
  BY <1>1, NodeIdAssumption
<1> QED
  BY <1>1, <1>2 DEF Before

\* The three kinds of verdict, by what feeds the node.
LEMMA VerdictKinds ==
  ASSUME NEW w, NEW n, NEW v \in Verdicts(w, n)
  PROVE  \/ /\ v.state \in EnergizedStates
            /\ \E s \in Preferred(Feeding(w, Definite, n)) :
                 v = [state |-> StateForSourceType(s.type), source |-> s.node]
         \/ /\ v.state = "INDETERMINATE"
            /\ Feeding(w, Definite, n) = {} /\ Feeding(w, Possible, n) # {}
         \/ /\ v.state = "DE_ENERGIZED"
            /\ Feeding(w, Possible, n) = {} /\ Feeding(w, Definite, n) = {}
BY StateForSourceTypeType DEF Verdicts

-----------------------------------------------------------------------------
(* What UNKNOWN switches may be.                                            *)

(* Resolving the UNKNOWN switches changes nothing but their positions.      *)
LEMMA ResolveParts ==
  ASSUME NEW w, IsNetwork(w), NEW P \in SUBSET UnknownEdges(w)
  PROVE  LET r == Resolve(w, P) IN
         /\ r.sources = w.sources
         /\ CollectNodeIds(r) = CollectNodeIds(w)
         /\ DOMAIN r.edges = DOMAIN w.edges
         /\ \A i \in DOMAIN w.edges :
              /\ r.edges[i].from = w.edges[i].from
              /\ r.edges[i].to = w.edges[i].to
              /\ r.edges[i].sw = "CLOSED" <=> w.edges[i].sw = "CLOSED" \/ i \in P
<1> DEFINE r == Resolve(w, P)
<1>2. \A i \in DOMAIN w.edges : w.edges[i] \in Edge
  BY DEF IsNetwork
<1>3. /\ r.nodes = w.nodes
      /\ r.sources = w.sources
      /\ r.edges = [i \in DOMAIN w.edges |->
                      [w.edges[i] EXCEPT !.sw =
                         IF i \in P THEN "CLOSED"
                         ELSE IF @ = "UNKNOWN" THEN "OPEN" ELSE @]]
  BY DEF Resolve
<1>4. \A i \in DOMAIN w.edges :
        /\ r.edges[i].from = w.edges[i].from
        /\ r.edges[i].to = w.edges[i].to
        /\ r.edges[i].sw = "CLOSED" <=> w.edges[i].sw = "CLOSED" \/ i \in P
  BY <1>2, <1>3 DEF Edge
<1>5. DOMAIN r.edges = DOMAIN w.edges
  BY <1>3
<1>6. CollectNodeIds(r) = CollectNodeIds(w)
  BY <1>3, <1>4, <1>5 DEF CollectNodeIds
<1> QED
  BY <1>3, <1>4, <1>5, <1>6

\* Whatever the UNKNOWN switches are, supply lies between the two graphs.
LEMMA ResolveBetween ==
  ASSUME NEW w, IsNetwork(w), NEW P \in SUBSET UnknownEdges(w), NEW n
  PROVE  /\ Feeding(w, Definite, n) \subseteq Feeding(Resolve(w, P), Definite, n)
         /\ Feeding(Resolve(w, P), Definite, n) \subseteq Feeding(w, Possible, n)
<1>1. \A X : Sealed(Resolve(w, P), Definite, X) => Sealed(w, Definite, X)
  BY ResolveParts DEF Sealed, Definite
<1>2. \A X : Sealed(w, Possible, X) => Sealed(Resolve(w, P), Definite, X)
  BY ResolveParts DEF Sealed, Definite, Possible, UnknownEdges
<1>3. \A s : /\ Reach(w, Definite, s) \subseteq Reach(Resolve(w, P), Definite, s)
             /\ Reach(Resolve(w, P), Definite, s) \subseteq Reach(w, Possible, s)
  BY <1>1, <1>2, ResolveParts DEF Reach
<1> QED
  BY <1>3, ResolveParts DEF Feeding

\* With all of them open the definite graph is left, with all closed the other.
LEMMA ResolveExtremes ==
  ASSUME NEW w, IsNetwork(w), NEW n
  PROVE  /\ Feeding(Resolve(w, {}), Definite, n) = Feeding(w, Definite, n)
         /\ Feeding(Resolve(w, UnknownEdges(w)), Definite, n) = Feeding(w, Possible, n)
<1>1. \A X : Sealed(Resolve(w, {}), Definite, X) <=> Sealed(w, Definite, X)
  BY ResolveParts DEF Sealed, Definite
<1>2. \A X : Sealed(Resolve(w, UnknownEdges(w)), Definite, X) <=> Sealed(w, Possible, X)
  <2>1. PICK r : r = Resolve(w, UnknownEdges(w))
    OBVIOUS
  <2>2. /\ DOMAIN r.edges = DOMAIN w.edges
        /\ \A i \in DOMAIN w.edges :
             /\ r.edges[i].from = w.edges[i].from
             /\ r.edges[i].to = w.edges[i].to
             /\ r.edges[i].sw \in Definite <=> w.edges[i].sw \in Possible
    BY <2>1, ResolveParts DEF UnknownEdges, Definite, Possible
  <2> QED
    BY <2>1, <2>2 DEF Sealed
<1>3. \A s : /\ Reach(Resolve(w, {}), Definite, s) = Reach(w, Definite, s)
             /\ Reach(Resolve(w, UnknownEdges(w)), Definite, s) = Reach(w, Possible, s)
  BY <1>1, <1>2, ResolveParts DEF Reach
<1> QED
  BY <1>3, ResolveParts DEF Feeding

\* Settling the UNKNOWN switches leaves a network.
LEMMA ResolveIsNetwork ==
  ASSUME NEW w, IsNetwork(w), NEW P \in SUBSET UnknownEdges(w)
  PROVE  IsNetwork(Resolve(w, P))
<1> DEFINE r == Resolve(w, P)
<1>1. ASSUME NEW i \in DOMAIN w.edges
      PROVE  r.edges[i] \in Edge
  <2>1. w.edges[i] \in Edge
    BY DEF IsNetwork
  <2>2. PICK s \in SwitchState : r.edges[i] = [w.edges[i] EXCEPT !.sw = s]
    BY <2>1 DEF Resolve, Edge, SwitchState
  <2> QED
    BY <2>1, <2>2 DEF Edge
<1>2. /\ DOMAIN r.edges = DOMAIN w.edges
      /\ r.nodes = w.nodes /\ r.sources = w.sources
  BY DEF Resolve
<1> QED
  BY <1>1, <1>2 DEF IsNetwork

\* The more of them are closed, the further supply reaches.
LEMMA ResolveMonotone ==
  ASSUME NEW w, IsNetwork(w),
         NEW Q \in SUBSET UnknownEdges(w), NEW P \in SUBSET Q, NEW n
  PROVE  Reach(Resolve(w, P), Definite, n) \subseteq Reach(Resolve(w, Q), Definite, n)
<1>1. P \in SUBSET UnknownEdges(w)
  OBVIOUS
<1>2. \A X : Sealed(Resolve(w, Q), Definite, X) => Sealed(Resolve(w, P), Definite, X)
  BY <1>1, ResolveParts DEF Sealed, Definite
<1>3. CollectNodeIds(Resolve(w, P)) = CollectNodeIds(Resolve(w, Q))
  BY <1>1, ResolveParts
<1> QED
  BY <1>2, <1>3 DEF Reach

=============================================================================
