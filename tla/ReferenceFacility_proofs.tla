----------------------- MODULE ReferenceFacility_proofs -----------------------
(***************************************************************************)
(* Proofs about packages/reference_facility: the capacitor bank, for every *)
(* bank and every set of loads that meet BankAssumption; the switching     *)
(* helpers, for every set of snapshots; and the telemetry generator, for   *)
(* all the windows, weathers, noises and qualities it may be run with.     *)
(***************************************************************************)
EXTENDS CapacitorBank, SwitchingHelpers, Telemetry, Network_proofs,
        FiniteSetTheorems, SequenceTheorems, TLAPS

-----------------------------------------------------------------------------
(* The capacitor bank: it stays within its stages, its counter accounts for *)
(* them, and it never hunts.                                                *)

(* What a step does to the stage, in the four ways it can go.              *)
LEMMA StageSteps ==
  ASSUME NEW l \in Loading, NEW s \in 0..Stages, NEW o \in Nat
  PROVE  \/ /\ SwitchIn(l, s) /\ s < Stages
            /\ StageAfter(l, s) = s + 1 /\ OpsAfter(l, s, o) = o + 1
         \/ /\ SwitchOut(l, s) /\ ~SwitchIn(l, s) /\ s > 0
            /\ StageAfter(l, s) = s - 1 /\ OpsAfter(l, s, o) = o + 1
         \/ /\ StageAfter(l, s) = s /\ OpsAfter(l, s, o) = o
  BY Zenon DEF StageAfter, OpsAfter, SwitchIn, SwitchOut

(* The stage, the counter and the load keep their ranges at every step.    *)
THEOREM TypeCorrect == Spec => []TypeOK
<1>1. Init => TypeOK
  BY BankAssumption DEF Init, TypeOK
<1>2. TypeOK /\ [Next]_bankVars => TypeOK'
  <2> SUFFICES ASSUME TypeOK, [Next]_bankVars PROVE TypeOK'
    OBVIOUS
  <2>1. CASE UNCHANGED bankVars
    BY <2>1 DEF TypeOK, bankVars
  <2>2. ASSUME NEW l \in Loading, Timestep(l) PROVE TypeOK'
    <3>1. stage \in 0..Stages /\ ops \in Nat
      BY DEF TypeOK
    <3>2. stage' = StageAfter(l, stage) /\ ops' = OpsAfter(l, stage, ops) /\ load' = l
      BY <2>2 DEF Timestep
    <3>3. stage' \in 0..Stages /\ ops' \in Nat
      BY <3>1, <3>2, StageSteps, BankAssumption
    <3> QED BY <2>2, <3>2, <3>3 DEF TypeOK
  <2> QED BY <2>1, <2>2 DEF Next
<1> QED BY <1>1, <1>2, PTL DEF Spec

(* The breaker's counter accounts for the stages: property                 *)
(* OpsAccountForStages of CapacitorBank, at any load and for any bank.     *)
THEOREM OpsAccountForStagesAlways == Spec => []OpsAccountForStages
<1>1. Init => OpsAccountForStages
  BY BankAssumption DEF Init, OpsAccountForStages
<1>2. TypeOK /\ TypeOK' /\ OpsAccountForStages /\ [Next]_bankVars => OpsAccountForStages'
  <2> SUFFICES ASSUME TypeOK, TypeOK', OpsAccountForStages, [Next]_bankVars
               PROVE  OpsAccountForStages'
    OBVIOUS
  <2>1. CASE UNCHANGED bankVars
    BY <2>1 DEF OpsAccountForStages, bankVars
  <2>2. ASSUME NEW l \in Loading, Timestep(l) PROVE OpsAccountForStages'
    <3>1. /\ stage \in 0..Stages /\ stage \in Nat /\ ops \in Nat
          /\ stage' \in 0..Stages
      BY BankAssumption DEF TypeOK
    <3>2. \/ stage' = stage + 1 /\ ops' = ops + 1
          \/ stage' = stage - 1 /\ ops' = ops + 1
          \/ stage' = stage /\ ops' = ops
      BY <2>2, <3>1, StageSteps DEF Timestep
    <3> QED BY <3>1, <3>2 DEF OpsAccountForStages
  <2> QED BY <2>1, <2>2 DEF Next
<1> QED BY <1>1, <1>2, TypeCorrect, PTL DEF Spec

(* One stage more shifts what the bus draws by exactly one stage.          *)
LEMMA OneStageMore ==
  ASSUME NEW l \in Loading, NEW s \in Nat
  PROVE  /\ l[1] \in Nat /\ l[1] >= MinImport
         /\ QNow(l, s) \in Int
         /\ QNow(l, s + 1) = QNow(l, s) - Kvar
<1>1. l \in Int \X Int /\ l[1] >= MinImport
  BY BankAssumption
<1>2. Kvar \in Nat /\ MinImport \in Nat
  BY BankAssumption
<1>3. l[1] \in Int /\ l[2] \in Int
  BY <1>1
<1>4. (s + 1) * Kvar = s * Kvar + Kvar /\ s * Kvar \in Int
  BY <1>2
<1> QED BY <1>1, <1>2, <1>3, <1>4 DEF QNow

(* The two thresholds are further apart than one stage: what reads low     *)
(* with a stage less does not read high with it.                           *)
LEMMA ThresholdsApart ==
  ASSUME NEW p \in Nat, NEW q \in Int, p >= MinImport,
         PfBelow(p, q)
  PROVE  ~PfAbove(p, q - Kvar)
<1>1. Kvar \in Nat /\ MinImport \in Nat /\ MinImport > 0
      /\ Scale * Kvar =< (TanLow - TanHigh) * MinImport
  BY BankAssumption
<1>2. Scale * Kvar =< (TanLow - TanHigh) * p
  BY <1>1, SMT DEF Scale, TanLow, TanHigh
<1>3. Scale * Abs(q) > TanLow * p
  BY DEF PfBelow
<1>4. Scale * Abs(q - Kvar) >= TanHigh * p
  BY <1>1, <1>2, <1>3, SMT DEF Abs, Scale, TanLow, TanHigh
<1>5. p > 0
  BY <1>1
<1>6. Scale * Abs(q - Kvar) \in Int /\ TanHigh * p \in Int
  BY <1>1, SMT DEF Abs, Scale, TanHigh
<1> QED BY <1>4, <1>5, <1>6 DEF PfAbove

(* The bank never hunts: no step leaves it wanting to undo the step at the *)
(* same load.  This is property NeverHunts of CapacitorBank.               *)
THEOREM NeverHuntsAlways == Spec => NeverHunts
<1>1. TypeOK /\ [Next]_bankVars
        => [ /\ stage' > stage => ~SwitchOut(load', stage')
             /\ stage' < stage => ~SwitchIn(load', stage') ]_bankVars
  <2> SUFFICES ASSUME TypeOK, NEW l \in Loading, Timestep(l)
               PROVE  /\ stage' > stage => ~SwitchOut(load', stage')
                      /\ stage' < stage => ~SwitchIn(load', stage')
    BY DEF Next
  <2>1. stage \in Nat /\ stage \in 0..Stages /\ ops \in Nat
    BY BankAssumption DEF TypeOK
  <2>2. load' = l /\ stage' = StageAfter(l, stage)
    BY DEF Timestep
  <2>3. CASE SwitchIn(l, stage) /\ stage' = stage + 1
    <3>1. PfBelow(l[1], QNow(l, stage))
      BY <2>3 DEF SwitchIn
    <3>2. ~PfAbove(l[1], QNow(l, stage) - Kvar)
      BY <2>1, <3>1, OneStageMore, ThresholdsApart
    <3>3. ~PfAbove(l[1], QNow(l, stage + 1))
      BY <2>1, <3>2, OneStageMore
    <3>4. ~SwitchOut(load', stage')
      BY <2>2, <2>3, <3>3 DEF SwitchOut
    <3> QED BY <2>1, <2>3, <3>4
  <2>4. CASE SwitchOut(l, stage) /\ stage' = stage - 1 /\ stage > 0
    <3> DEFINE s == stage - 1
    <3>1. s \in Nat /\ stage = s + 1
      BY <2>1, <2>4
    <3>2. PfAbove(l[1], QNow(l, stage))
      BY <2>4 DEF SwitchOut
    <3>3. PfAbove(l[1], QNow(l, s) - Kvar)
      BY <3>1, <3>2, OneStageMore
    <3>4. ~PfBelow(l[1], QNow(l, s))
      BY <3>1, <3>3, OneStageMore, ThresholdsApart
    <3>5. ~SwitchIn(load', stage')
      BY <2>2, <2>4, <3>4 DEF SwitchIn
    <3> QED BY <2>1, <2>4, <3>5
  <2>5. CASE stage' = stage
    BY <2>1, <2>5
  <2> QED BY <2>1, <2>2, <2>3, <2>4, <2>5, StageSteps
<1> QED BY <1>1, TypeCorrect, PTL DEF Spec, NeverHunts

-----------------------------------------------------------------------------
(* What a subset of the closed edges of a snapshot joins.                   *)

(* The closed edges of w.                                                   *)
ClosedEdges(w) == {i \in DOMAIN w.edges : w.edges[i].sw \in Definite}

(* w with the edges P and no others.                                        *)
Restricted(w, P) ==
  [nodes |-> CollectNodeIds(w), sources |-> {}, edges |-> [i \in P |-> w.edges[i]]]

(* m and n are joined by edges of P.                                        *)
Linked(w, P, m, n) == m \in Reach(Restricted(w, P), Definite, n)

(* The restricted network is a network over the same nodes.                 *)
LEMMA RestrictedParts ==
  ASSUME NEW w, IsNetwork(w), NEW P \in SUBSET ClosedEdges(w)
  PROVE  /\ IsNetwork(Restricted(w, P))
         /\ CollectNodeIds(Restricted(w, P)) = CollectNodeIds(w)
         /\ DOMAIN Restricted(w, P).edges = P
         /\ \A i \in P : /\ Restricted(w, P).edges[i] = w.edges[i]
                         /\ w.edges[i].sw \in Definite
                         /\ w.edges[i].from \in CollectNodeIds(w)
                         /\ w.edges[i].to \in CollectNodeIds(w)
<1>1. PICK r : r = Restricted(w, P)
  OBVIOUS
<1>2. /\ r.nodes = CollectNodeIds(w) /\ r.sources = {} /\ DOMAIN r.edges = P
      /\ \A i \in P : r.edges[i] = w.edges[i]
  BY <1>1 DEF Restricted
<1>3. \A i \in P : /\ i \in DOMAIN w.edges /\ w.edges[i].sw \in Definite
                   /\ w.edges[i] \in Edge /\ i \in Nat \ {0}
                   /\ w.edges[i].from \in CollectNodeIds(w)
                   /\ w.edges[i].to \in CollectNodeIds(w)
  BY NetworkParts DEF ClosedEdges, IsNetwork
<1>4. IsNetwork(r)
  BY <1>2, <1>3 DEF IsNetwork, CollectNodeIds
<1>5. CollectNodeIds(r) = CollectNodeIds(w)
  <2>1. \A n : n \in CollectNodeIds(r) => n \in CollectNodeIds(w)
    BY <1>2, <1>3 DEF CollectNodeIds
  <2>2. \A n : n \in CollectNodeIds(w) => n \in NodeId /\ n \in r.nodes
    BY <1>2 DEF CollectNodeIds
  <2>3. \A n \in NodeId : n \in r.nodes => n \in CollectNodeIds(r)
    BY DEF CollectNodeIds
  <2> QED
    BY <2>1, <2>2, <2>3
<1> QED
  BY <1>1, <1>2, <1>3, <1>4, <1>5

\* Being joined is an equivalence, and every edge of P joins its ends.
LEMMA LinkedFacts ==
  ASSUME NEW w, IsNetwork(w), NEW P \in SUBSET ClosedEdges(w)
  PROVE  /\ \A n \in CollectNodeIds(w) : Linked(w, P, n, n)
         /\ \A m, n : Linked(w, P, m, n) => m \in CollectNodeIds(w)
         /\ \A m, n \in CollectNodeIds(w) : Linked(w, P, m, n) => Linked(w, P, n, m)
         /\ \A m, n, k \in CollectNodeIds(w) :
              Linked(w, P, m, n) /\ Linked(w, P, n, k) => Linked(w, P, m, k)
         /\ \A i \in P : Linked(w, P, w.edges[i].from, w.edges[i].to)
<1>1. PICK r : r = Restricted(w, P)
  OBVIOUS
<1>2. /\ IsNetwork(r) /\ CollectNodeIds(r) = CollectNodeIds(w) /\ DOMAIN r.edges = P
      /\ \A i \in P : /\ r.edges[i] = w.edges[i]
                      /\ w.edges[i].sw \in Definite
                      /\ w.edges[i].from \in CollectNodeIds(w)
                      /\ w.edges[i].to \in CollectNodeIds(w)
  BY <1>1, RestrictedParts
<1>3. \A n \in CollectNodeIds(w) : n \in Reach(r, Definite, n)
  BY <1>2, ReachStart
<1>4. \A m, n : m \in Reach(r, Definite, n) => m \in CollectNodeIds(w)
  BY <1>2 DEF Reach
<1>5. \A m, n \in CollectNodeIds(w) :
        m \in Reach(r, Definite, n) => n \in Reach(r, Definite, m)
  BY <1>2, ReachSymmetric
<1>6. \A m, n, k \in CollectNodeIds(w) :
        m \in Reach(r, Definite, n) /\ n \in Reach(r, Definite, k)
          => m \in Reach(r, Definite, k)
  BY DEF Reach
<1>7. ASSUME NEW i \in P
      PROVE  w.edges[i].from \in Reach(r, Definite, w.edges[i].to)
  <2>1. w.edges[i].to \in Reach(r, Definite, w.edges[i].to)
    BY <1>2, <1>3
  <2> QED
    BY <1>2, <2>1, ReachStep
<1> QED
  BY <1>1, <1>3, <1>4, <1>5, <1>6, <1>7 DEF Linked

\* What is sealed under the edges of P holds all that is joined to its members.
LEMMA LinkedWithin ==
  ASSUME NEW w, IsNetwork(w), NEW P \in SUBSET ClosedEdges(w),
         NEW X \in SUBSET CollectNodeIds(w),
         \A i \in P : w.edges[i].from \in X <=> w.edges[i].to \in X,
         NEW n \in X, NEW m, Linked(w, P, m, n)
  PROVE  m \in X
<1>1. PICK r : r = Restricted(w, P)
  OBVIOUS
<1>2. /\ CollectNodeIds(r) = CollectNodeIds(w) /\ DOMAIN r.edges = P
      /\ \A i \in P : r.edges[i] = w.edges[i]
  BY <1>1, RestrictedParts
<1>3. Sealed(r, Definite, X)
  BY <1>2 DEF Sealed
<1> QED
  BY <1>1, <1>2, <1>3 DEF Linked, Reach

(* More edges leave what is joined joined.                                  *)
LEMMA LinkedMore ==
  ASSUME NEW w, IsNetwork(w), NEW Q \in SUBSET ClosedEdges(w), NEW P \in SUBSET Q,
         NEW n \in CollectNodeIds(w), NEW m, Linked(w, P, m, n)
  PROVE  Linked(w, Q, m, n)
<1>1. PICK X : X = {k \in CollectNodeIds(w) : Linked(w, Q, k, n)}
  OBVIOUS
<1>2. n \in X
  BY <1>1, LinkedFacts
<1>3. ASSUME NEW i \in P
      PROVE  w.edges[i].from \in X <=> w.edges[i].to \in X
  <2>1. PICK a, b : a = w.edges[i].from /\ b = w.edges[i].to
    OBVIOUS
  <2>2. a \in CollectNodeIds(w) /\ b \in CollectNodeIds(w)
    BY <2>1, RestrictedParts
  <2>3. Linked(w, Q, a, b) /\ Linked(w, Q, b, a)
    <3>1. Linked(w, Q, a, b)
      BY <2>1, LinkedFacts
    <3> QED
      BY <2>2, <3>1, LinkedFacts
  <2> QED
    BY <1>1, <2>1, <2>2, <2>3, LinkedFacts
<1>4. P \in SUBSET ClosedEdges(w) /\ X \in SUBSET CollectNodeIds(w)
  BY <1>1
<1>5. m \in X
  BY <1>2, <1>3, <1>4, LinkedWithin
<1> QED
  BY <1>1, <1>5

\* What one more edge q, from a to b, may join.
LEMMA LinkedByOneMore ==
  ASSUME NEW w, IsNetwork(w), NEW P \in SUBSET ClosedEdges(w), NEW q \in ClosedEdges(w),
         NEW a, a = w.edges[q].from, NEW b, b = w.edges[q].to,
         NEW n \in CollectNodeIds(w), NEW m, Linked(w, P \cup {q}, m, n)
  PROVE  \/ Linked(w, P, m, n)
         \/ Linked(w, P, m, a) /\ Linked(w, P, b, n)
         \/ Linked(w, P, m, b) /\ Linked(w, P, a, n)
<1>1. a \in CollectNodeIds(w) /\ b \in CollectNodeIds(w)
  BY NetworkParts DEF ClosedEdges
<1>2. PICK X : X = {k \in CollectNodeIds(w) :
                      \/ Linked(w, P, k, n)
                      \/ Linked(w, P, k, a) /\ Linked(w, P, b, n)
                      \/ Linked(w, P, k, b) /\ Linked(w, P, a, n)}
  OBVIOUS
<1>3. n \in X
  BY <1>2, LinkedFacts
<1>4. ASSUME NEW i \in P
      PROVE  w.edges[i].from \in X <=> w.edges[i].to \in X
  <2>1. PICK c, d : c = w.edges[i].from /\ d = w.edges[i].to
    OBVIOUS
  <2>2. c \in CollectNodeIds(w) /\ d \in CollectNodeIds(w)
    BY <2>1, RestrictedParts
  <2>3. Linked(w, P, c, d) /\ Linked(w, P, d, c)
    <3>1. Linked(w, P, c, d)
      BY <2>1, LinkedFacts
    <3> QED
      BY <2>2, <3>1, LinkedFacts
  <2>4. \A k \in CollectNodeIds(w) : Linked(w, P, c, k) <=> Linked(w, P, d, k)
    BY <2>2, <2>3, LinkedFacts
  <2> QED
    BY <1>1, <1>2, <2>1, <2>2, <2>4
<1>5. a \in X <=> b \in X
  BY <1>1, <1>2, LinkedFacts
<1>6. /\ P \cup {q} \in SUBSET ClosedEdges(w) /\ X \in SUBSET CollectNodeIds(w)
      /\ \A i \in P \cup {q} : w.edges[i].from \in X <=> w.edges[i].to \in X
  BY <1>2, <1>4, <1>5
<1>7. m \in X
  BY <1>3, <1>6, LinkedWithin
<1> QED
  BY <1>2, <1>7

-----------------------------------------------------------------------------
(* Why closed_graph_has_cycle is right at every step of the call.           *)

(* The closed edges the loop has passed.                                    *)
Passed == {i \in Closed : i < position}

\* The union-find forest: top(n) is the root of n, and every hop to a parent
\* takes a node that is no root nearer to it.
Forest(top, depth) ==
  \A n \in Met :
    /\ n \in CollectNodeIds(network)
    /\ parent[n] \in Met /\ top[n] \in Met /\ depth[n] \in Nat
    /\ parent[top[n]] = top[n] /\ top[parent[n]] = top[n]
    /\ parent[n] = n => top[n] = n /\ depth[n] = 0
    /\ parent[n] # n => depth[parent[n]] < depth[n]

\* The closed edges handled so far join a node to its root, have their ends in
\* one tree, and none of them closes a loop with the others.
Components(top) ==
  /\ \A n \in Met : Linked(network, Passed, n, top[n])
  /\ \A i \in Passed :
       /\ Edges[i].from \in Met /\ Edges[i].to \in Met
       /\ top[Edges[i].from] = top[Edges[i].to]
       /\ ~Linked(network, Passed \ {i}, Edges[i].to, Edges[i].from)

\* The end of the edge at hand whose root is being found.
Sought == IF ends = <<>> THEN At.from ELSE At.to

\* What the locals of the call stand for.
Locals(top) ==
  /\ pc = "edge" => ends = <<>>
  /\ pc \in {"climb", "compress", "unite"} => position \in Closed
  /\ pc \in {"climb", "compress"} =>
       /\ ends = <<>> \/ (At.from \in Met /\ ends = <<top[At.from]>>)
       /\ Sought \in Met /\ node \in Met /\ root \in Met
       /\ top[node] = top[Sought] /\ top[root] = top[Sought]
  /\ pc = "compress" => parent[root] = root
  /\ pc = "unite" =>
       At.from \in Met /\ At.to \in Met /\ ends = <<top[At.from], top[At.to]>>
  /\ pc = "returned" =>
       \/ /\ result = "loop" /\ position \in Closed
          /\ At.from \in Met /\ At.to \in Met /\ top[At.from] = top[At.to]
       \/ result = "no loop" /\ position > Len(Edges)

(* The types of the running call.                                           *)
CallType ==
  /\ network \in Networks
  /\ position \in Nat \ {0}
  /\ parent \in [NodeId -> NodeId \cup {NoNode}]
  /\ pc \in {"edge", "climb", "compress", "unite", "returned"}

(* The inductive invariant: some assignment of roots and depths explains    *)
(* the forest.                                                              *)
LoopInv ==
  CallType /\ \E top, depth : Forest(top, depth) /\ Components(top) /\ Locals(top)

(* What a snapshot gives the call to work on.                               *)
LEMMA CallFacts ==
  ASSUME CallType
  PROVE  /\ IsNetwork(network) /\ Edges \in Seq(Edge) /\ Len(Edges) \in Nat
         /\ DOMAIN Edges = 1 .. Len(Edges)
         /\ Closed = ClosedEdges(network) /\ Passed \in SUBSET ClosedEdges(network)
         /\ \A i \in Closed : /\ Edges[i].from \in CollectNodeIds(network)
                              /\ Edges[i].to \in CollectNodeIds(network)
         /\ \A P : OnlyEdges(P) = Restricted(network, P)
         /\ Met \subseteq NodeId
<1>1. IsNetwork(network) /\ Edges \in Seq(Edge)
  BY SnapshotsAssumption DEF CallType, Edges
<1>2. Closed = ClosedEdges(network)
  BY DEF Closed, ClosedEdges, Edges
<1>3. \A i \in Closed : /\ Edges[i].from \in CollectNodeIds(network)
                        /\ Edges[i].to \in CollectNodeIds(network)
  BY <1>1, NetworkParts DEF Closed, Edges
<1>4. \A P : OnlyEdges(P) = Restricted(network, P)
  BY DEF OnlyEdges, Restricted, Edges
<1> QED
  BY <1>1, <1>2, <1>3, <1>4 DEF Passed, Met

\* find may meet a node for the first time: a tree of its own.
LEMMA FindKeeps ==
  ASSUME CallType, NEW top, NEW depth, Forest(top, depth), Components(top),
         NEW x \in CollectNodeIds(network), Find(x), UNCHANGED <<network, position>>
  PROVE  /\ Met' = Met \cup {x}
         /\ \E t, d : /\ Forest(t, d)' /\ Components(t)'
                      /\ \A m \in Met : t[m] = top[m]
<1>1. x \in NodeId
  BY DEF CollectNodeIds
<1>2. /\ parent' \in [NodeId -> NodeId \cup {NoNode}]
      /\ \A m \in NodeId : parent'[m] = IF m = x /\ parent[m] = NoNode THEN m ELSE parent[m]
  BY <1>1 DEF Find, CallType
<1>3. Met' = Met \cup {x}
  BY <1>1, <1>2, NodeIdAssumption DEF Met
<1>4. \A m \in Met : parent'[m] = parent[m]
  BY <1>2 DEF Met
<1>5. Passed' = Passed
  BY DEF Passed, Closed, Edges
<1>6. PICK t, d : /\ t = [m \in NodeId |-> IF m \in Met THEN top[m] ELSE m]
                  /\ d = [m \in NodeId |-> IF m \in Met THEN depth[m] ELSE 0]
  OBVIOUS
<1>7. \A m \in Met : t[m] = top[m] /\ d[m] = depth[m]
  BY <1>6 DEF Met
<1>8. x \notin Met => t[x] = x /\ d[x] = 0 /\ parent'[x] = x
  BY <1>1, <1>2, <1>6 DEF Met
<1>9. Forest(t, d)'
  <2>1. ASSUME NEW n \in Met'
        PROVE  /\ n \in CollectNodeIds(network)
               /\ parent'[n] \in Met' /\ t[n] \in Met' /\ d[n] \in Nat
               /\ parent'[t[n]] = t[n] /\ t[parent'[n]] = t[n]
               /\ parent'[n] = n => t[n] = n /\ d[n] = 0
               /\ parent'[n] # n => d[parent'[n]] < d[n]
    <3>1. CASE n \in Met
      BY <1>3, <1>4, <1>7, <3>1 DEF Forest
    <3>2. CASE n \notin Met
      BY <1>3, <1>8, <3>2
    <3> QED
      BY <3>1, <3>2
  <2> QED
    BY <2>1 DEF Forest
<1>10. Components(t)'
  <2>1. ASSUME NEW n \in Met'
        PROVE  Linked(network, Passed, n, t[n])
    <3>1. CASE n \in Met
      BY <1>7, <3>1 DEF Components
    <3>2. CASE n \notin Met
      BY <1>3, <1>8, <3>2, CallFacts, LinkedFacts
    <3> QED
      BY <3>1, <3>2
  <2>2. Edges' = Edges
    BY DEF Edges
  <2> QED
    BY <1>3, <1>5, <1>7, <2>1, <2>2 DEF Components
<1> QED
  BY <1>3, <1>7, <1>9, <1>10

(* Uniting two trees passes one edge more: its ends get one root, and it    *)
(* closes no loop.                                                          *)
LEMMA UniteKeeps ==
  ASSUME CallType, NEW top, NEW depth, Forest(top, depth), Components(top), Locals(top), Unite
  PROVE  \E t, d : Forest(t, d)' /\ Components(t)'
<1>1. PICK a, b : a = At.from /\ b = At.to
  OBVIOUS
<1>2. PICK r, s : r = top[a] /\ s = top[b]
  OBVIOUS
<1>3. /\ a \in Met /\ b \in Met /\ position \in Closed
      /\ ends = <<r, s>> /\ r # s
  BY <1>1, <1>2 DEF Locals, Unite
<1>4. /\ r \in Met /\ s \in Met /\ r \in NodeId /\ s \in NodeId
      /\ parent[r] = r /\ parent[s] = s /\ top[r] = r /\ top[s] = s
      /\ depth[r] = 0 /\ depth[s] = 0
  BY <1>2, <1>3 DEF Forest, Met
<1>5. /\ parent' = [parent EXCEPT ![r] = s] /\ network' = network
      /\ position' = position + 1
  BY <1>3 DEF Unite
<1>6. /\ parent'[r] = s /\ \A m \in NodeId : m # r => parent'[m] = parent[m]
      /\ parent' \in [NodeId -> NodeId \cup {NoNode}]
  BY <1>4, <1>5 DEF CallType
<1>7. Met' = Met
  BY <1>4, <1>6, NodeIdAssumption DEF Met
<1>8. /\ Edges' = Edges /\ Closed' = Closed /\ position \in Nat
      /\ Passed' = Passed \cup {position} /\ position \notin Passed
      /\ Passed \in SUBSET ClosedEdges(network)
      /\ Passed' \in SUBSET ClosedEdges(network)
      /\ position \in ClosedEdges(network)
      /\ IsNetwork(network)
      /\ a = network.edges[position].from /\ b = network.edges[position].to
      /\ a \in CollectNodeIds(network) /\ b \in CollectNodeIds(network)
  <2>1. Edges' = Edges /\ Closed' = Closed
    BY <1>5 DEF Edges, Closed
  <2>2. position \in Nat /\ \A i \in Closed : i \in Nat
    BY CallFacts DEF CallType, Closed
  <2>3. Passed' = Passed \cup {position} /\ position \notin Passed
    <3>1. \A i \in Closed : i < position + 1 <=> i < position \/ i = position
      BY <2>2
    <3>2. \A i : i \in Passed' <=> i \in Closed /\ i < position + 1
      BY <1>5, <2>1 DEF Passed
    <3>3. \A i : i \in Passed <=> i \in Closed /\ i < position
      BY DEF Passed
    <3>4. position \notin Passed
      BY <2>2, <3>3
    <3> QED
      BY <1>3, <3>1, <3>2, <3>3, <3>4
  <2>4. Passed \in SUBSET ClosedEdges(network) /\ position \in ClosedEdges(network)
    BY <1>3, CallFacts
  <2>5. IsNetwork(network) /\ a \in CollectNodeIds(network) /\ b \in CollectNodeIds(network)
    BY <1>1, <1>3, CallFacts DEF At
  <2> QED
    BY <1>1, <2>1, <2>2, <2>3, <2>4, <2>5 DEF At, Edges
<1>9. PICK t, d : /\ t = [m \in NodeId |-> IF top[m] = r THEN s ELSE top[m]]
                  /\ d = [m \in NodeId |-> IF top[m] = r THEN depth[m] + 1 ELSE depth[m]]
  OBVIOUS
<1>10. \A m \in Met : /\ m \in NodeId /\ t[m] = IF top[m] = r THEN s ELSE top[m]
                      /\ d[m] = IF top[m] = r THEN depth[m] + 1 ELSE depth[m]
  BY <1>9 DEF Met
<1>11. Forest(t, d)'
  <2>1. ASSUME NEW n \in Met
        PROVE  /\ n \in CollectNodeIds(network)
               /\ parent'[n] \in Met /\ t[n] \in Met /\ d[n] \in Nat
               /\ parent'[t[n]] = t[n] /\ t[parent'[n]] = t[n]
               /\ parent'[n] = n => t[n] = n /\ d[n] = 0
               /\ parent'[n] # n => d[parent'[n]] < d[n]
    <3>1. /\ n \in CollectNodeIds(network) /\ n \in NodeId
          /\ parent[n] \in Met /\ top[n] \in Met /\ depth[n] \in Nat
          /\ parent[top[n]] = top[n] /\ top[parent[n]] = top[n]
          /\ parent[n] = n => top[n] = n /\ depth[n] = 0
          /\ parent[n] # n => depth[parent[n]] < depth[n]
          /\ top[n] \in NodeId
      BY <1>10 DEF Forest
    <3>2. CASE n = r
      BY <1>3, <1>4, <1>6, <1>10, <3>1, <3>2
    <3>3. CASE n # r
      <4>1. parent'[n] = parent[n] /\ top[n] \in NodeId /\ parent[n] \in NodeId
        BY <1>6, <1>10, <3>1, <3>3
      <4>2. t[n] \in Met /\ d[n] \in Nat /\ t[parent[n]] = t[n]
        BY <1>4, <1>10, <3>1
      <4>3. parent'[t[n]] = t[n]
        BY <1>3, <1>4, <1>6, <1>10, <3>1
      <4>4. parent[n] = n => t[n] = n /\ d[n] = 0
        BY <1>10, <3>1, <3>3
      <4>5. parent[n] # n => d[parent[n]] < d[n]
        <5>1. depth[parent[n]] \in Nat
          BY <3>1 DEF Forest
        <5> QED
          BY <1>10, <3>1, <5>1
      <4> QED
        BY <3>1, <4>1, <4>2, <4>3, <4>4, <4>5
    <3> QED
      BY <3>2, <3>3
  <2> QED
    BY <1>5, <1>7, <2>1 DEF Forest
<1>12. /\ \A m \in Met : m \in CollectNodeIds(network) /\ top[m] \in CollectNodeIds(network)
       /\ \A m \in Met : Linked(network, Passed, m, top[m])
  BY DEF Forest, Components
<1>13. \A m, n \in Met : Linked(network, Passed, m, n) => top[m] = top[n]
  <2> SUFFICES ASSUME NEW n \in Met, NEW m \in Met, Linked(network, Passed, m, n)
               PROVE  top[m] = top[n]
    OBVIOUS
  <2>1. PICK X : X = {k \in Met : top[k] = top[n]}
    OBVIOUS
  <2>2. X \in SUBSET CollectNodeIds(network) /\ n \in X
    BY <1>12, <2>1
  <2>3. \A i \in Passed : network.edges[i].from \in X <=> network.edges[i].to \in X
    BY <2>1 DEF Components, Edges
  <2>4. m \in X
    BY <1>8, <2>2, <2>3, LinkedWithin
  <2> QED
    BY <2>1, <2>4
<1>14. ~Linked(network, Passed, a, b) /\ ~Linked(network, Passed, b, a)
  BY <1>2, <1>3, <1>13
<1>15. Linked(network, Passed', a, b) /\ Linked(network, Passed', b, a)
  <2>1. Linked(network, Passed', a, b)
    BY <1>8, LinkedFacts
  <2> QED
    BY <1>8, <2>1, LinkedFacts
<1>16. ASSUME NEW n \in Met
       PROVE  Linked(network, Passed', n, t[n])
  <2>1. /\ n \in CollectNodeIds(network) /\ top[n] \in CollectNodeIds(network)
        /\ s \in CollectNodeIds(network) /\ r \in CollectNodeIds(network)
    BY <1>4, <1>12
  <2>2. \A k, m \in CollectNodeIds(network) :
          Linked(network, Passed, m, k) => Linked(network, Passed', m, k)
    BY <1>8, LinkedMore
  <2>3. Linked(network, Passed', n, top[n])
    BY <1>12, <2>1, <2>2
  <2>4. Linked(network, Passed', a, r) /\ Linked(network, Passed', b, s)
    BY <1>2, <1>3, <1>8, <1>12, <2>1, <2>2
  <2>5. CASE top[n] = r
    <3>1. Linked(network, Passed', r, a)
      BY <1>8, <2>1, <2>4, LinkedFacts
    <3>2. Linked(network, Passed', n, a)
      <4>1. Linked(network, Passed', n, r)
        BY <2>3, <2>5
      <4> QED
        BY <1>8, <2>1, <3>1, <4>1, LinkedFacts
    <3>3. Linked(network, Passed', n, b)
      BY <1>8, <1>15, <2>1, <3>2, LinkedFacts
    <3>4. Linked(network, Passed', n, s)
      BY <1>8, <2>1, <2>4, <3>3, LinkedFacts
    <3> QED
      BY <1>10, <2>5, <3>4
  <2>6. CASE top[n] # r
    BY <1>10, <2>3, <2>6
  <2> QED
    BY <2>5, <2>6
<1>17. ASSUME NEW i \in Passed
       PROVE  ~Linked(network, Passed' \ {i}, Edges[i].to, Edges[i].from)
  <2>1. PICK c, e, P : c = Edges[i].from /\ e = Edges[i].to /\ P = Passed \ {i}
    OBVIOUS
  <2>2. /\ Passed' \ {i} = P \cup {position} /\ P \in SUBSET ClosedEdges(network)
        /\ P \subseteq Passed
        /\ c \in CollectNodeIds(network) /\ e \in CollectNodeIds(network)
        /\ ~Linked(network, P, e, c)
    BY <1>8, <2>1, CallFacts DEF Components
  <2>3. \A m, n \in CollectNodeIds(network) :
          Linked(network, P, m, n) => Linked(network, Passed, m, n)
    BY <1>8, <2>2, LinkedMore
  <2>4. Linked(network, Passed, c, e) /\ Linked(network, Passed, e, c)
    <3>1. Linked(network, Passed, c, e)
      BY <1>8, <2>1, LinkedFacts DEF Edges
    <3> QED
      BY <1>8, <2>2, <3>1, LinkedFacts
  <2>5. SUFFICES ASSUME Linked(network, P \cup {position}, e, c)
                 PROVE  FALSE
    BY <2>1, <2>2
  <2>6. \/ Linked(network, P, e, a) /\ Linked(network, P, b, c)
        \/ Linked(network, P, e, b) /\ Linked(network, P, a, c)
    BY <1>8, <2>2, <2>5, LinkedByOneMore
  <2>7. CASE Linked(network, P, e, a) /\ Linked(network, P, b, c)
    <3>1. Linked(network, Passed, e, a) /\ Linked(network, Passed, b, c)
      BY <1>8, <2>2, <2>3, <2>7
    <3>2. Linked(network, Passed, b, e)
      BY <1>8, <2>2, <2>4, <3>1, LinkedFacts
    <3>3. Linked(network, Passed, b, a)
      BY <1>8, <2>2, <3>1, <3>2, LinkedFacts
    <3> QED
      BY <1>14, <3>3
  <2>8. CASE Linked(network, P, e, b) /\ Linked(network, P, a, c)
    <3>1. Linked(network, Passed, e, b) /\ Linked(network, Passed, a, c)
      BY <1>8, <2>2, <2>3, <2>8
    <3>2. Linked(network, Passed, a, e)
      BY <1>8, <2>2, <2>4, <3>1, LinkedFacts
    <3>3. Linked(network, Passed, a, b)
      BY <1>8, <2>2, <3>1, <3>2, LinkedFacts
    <3> QED
      BY <1>14, <3>3
  <2> QED
    BY <2>6, <2>7, <2>8
<1>18. Components(t)'
  <2>1. ASSUME NEW i \in Passed'
        PROVE  /\ Edges[i].from \in Met /\ Edges[i].to \in Met
               /\ t[Edges[i].from] = t[Edges[i].to]
               /\ ~Linked(network, Passed' \ {i}, Edges[i].to, Edges[i].from)
    <3>1. CASE i \in Passed
      <4>1. /\ Edges[i].from \in Met /\ Edges[i].to \in Met
            /\ top[Edges[i].from] = top[Edges[i].to]
        BY <3>1 DEF Components
      <4> QED
        BY <1>10, <1>17, <3>1, <4>1
    <3>2. CASE i = position
      <4>1. Passed' \ {position} = Passed
        BY <1>8
      <4> QED
        BY <1>1, <1>2, <1>3, <1>4, <1>10, <1>14, <3>2, <4>1 DEF At
    <3> QED
      BY <1>8, <3>1, <3>2
  <2> QED
    BY <1>5, <1>7, <1>8, <1>16, <2>1 DEF Components
<1> QED
  BY <1>11, <1>18

\* A step that leaves the forest and the edges handled alone.
LEMMA SameForest ==
  ASSUME NEW top, NEW depth, Forest(top, depth), Components(top),
         UNCHANGED <<network, parent>>, Passed' = Passed
  PROVE  Forest(top, depth)' /\ Components(top)'
<1>1. Met' = Met /\ Edges' = Edges
  BY DEF Met, Edges
<1>2. Forest(top, depth)'
  BY <1>1 DEF Forest
<1>3. Components(top)'
  BY <1>1 DEF Components
<1> QED
  BY <1>2, <1>3

\* A compression hangs a node on its own root.
LEMMA CompressKeeps ==
  ASSUME CallType, NEW top, NEW depth, Forest(top, depth), Components(top), Locals(top),
         Compress
  PROVE  Forest(top, depth)' /\ Components(top)' /\ Locals(top)'
<1>1. PICK k, r : k = node /\ r = root
  OBVIOUS
<1>2. /\ k \in Met /\ r \in Met /\ parent[r] = r /\ parent[k] # r
      /\ top[k] = top[Sought] /\ top[r] = top[Sought] /\ position \in Closed
      /\ ends = <<>> \/ (At.from \in Met /\ ends = <<top[At.from]>>)
      /\ Sought \in Met
  BY <1>1 DEF Locals, Compress
<1>3. /\ top[r] = r /\ depth[r] = 0 /\ top[k] = r /\ k # r /\ parent[k] # k
      /\ parent[k] \in Met /\ depth[k] \in Nat /\ depth[parent[k]] \in Nat
      /\ top[parent[k]] = r /\ depth[parent[k]] < depth[k]
      /\ k \in NodeId /\ r \in NodeId
  BY <1>2 DEF Forest, Met
<1>4. /\ parent' = [parent EXCEPT ![k] = r] /\ node' = parent[k]
      /\ UNCHANGED <<network, pc, position, root, ends, result>> /\ pc = "compress"
  BY <1>1 DEF Compress
<1>5. parent'[k] = r /\ \A m \in NodeId : m # k => parent'[m] = parent[m]
  BY <1>3, <1>4 DEF CallType
<1>6. Met' = Met
  BY <1>2, <1>3, <1>5, NodeIdAssumption DEF Met
<1>7. Passed' = Passed /\ Edges' = Edges /\ At' = At /\ Sought' = Sought /\ Closed' = Closed
  BY <1>4 DEF Passed, Closed, Edges, At, Sought
<1>8. Forest(top, depth)'
  <2>1. ASSUME NEW n \in Met
        PROVE  /\ n \in CollectNodeIds(network)
               /\ parent'[n] \in Met /\ top[n] \in Met /\ depth[n] \in Nat
               /\ parent'[top[n]] = top[n] /\ top[parent'[n]] = top[n]
               /\ parent'[n] = n => top[n] = n /\ depth[n] = 0
               /\ parent'[n] # n => depth[parent'[n]] < depth[n]
    <3>1. /\ n \in CollectNodeIds(network) /\ n \in NodeId
          /\ parent[n] \in Met /\ top[n] \in Met /\ depth[n] \in Nat
          /\ parent[top[n]] = top[n] /\ top[parent[n]] = top[n]
          /\ parent[n] = n => top[n] = n /\ depth[n] = 0
          /\ parent[n] # n => depth[parent[n]] < depth[n]
          /\ top[n] \in NodeId
      BY DEF Forest, Met
    <3>2. top[n] # k
      BY <1>3, <3>1
    <3>3. parent'[top[n]] = top[n]
      BY <1>5, <3>1, <3>2
    <3>4. CASE n = k
      <4>1. depth[r] < depth[k]
        BY <1>3
      <4> QED
        BY <1>2, <1>3, <1>5, <3>1, <3>3, <3>4, <4>1
    <3>5. CASE n # k
      BY <1>5, <3>1, <3>3, <3>5
    <3> QED
      BY <3>4, <3>5
  <2> QED
    BY <1>4, <1>6, <2>1 DEF Forest
<1>9. Components(top)'
  BY <1>4, <1>6, <1>7 DEF Components
<1>10. Locals(top)'
  BY <1>1, <1>2, <1>3, <1>4, <1>5, <1>6, <1>7 DEF Locals
<1> QED
  BY <1>8, <1>9, <1>10

\* The types, at every step of the call.
LEMMA CallTypeKeeps ==
  ASSUME CallType, NEW top, NEW depth, Forest(top, depth), Locals(top), LoopNext
  PROVE  CallType'
<1>1. position + 1 \in Nat \ {0}
  BY DEF CallType
<1>2. \A x, y \in NodeId : [parent EXCEPT ![x] = y] \in [NodeId -> NodeId \cup {NoNode}]
  BY DEF CallType
<1>3. \A x \in NodeId : Find(x) => /\ parent' \in [NodeId -> NodeId \cup {NoNode}]
                                   /\ pc' = "climb"
  BY DEF Find, CallType
<1>4. position \in Closed => At.from \in NodeId /\ At.to \in NodeId
  BY CallFacts DEF At, CollectNodeIds
<1>5. CASE SkipEdge
  BY <1>1, <1>5 DEF SkipEdge, CallType
<1>6. CASE TakeEdge
  <2>1. position \in Closed
    <3>1. position \in 1 .. Len(Edges)
      BY <1>6, CallFacts DEF TakeEdge, CallType
    <3> QED
      BY <1>6, <3>1, CallFacts DEF TakeEdge, Closed, At
  <2> QED
    BY <1>3, <1>4, <1>6, <2>1 DEF TakeEdge, CallType
<1>7. CASE Climb \/ ReachTop \/ CloseLoop \/ NoLoop \/ Returned
  BY <1>7 DEF Climb, ReachTop, CloseLoop, NoLoop, Returned, vars, CallType
<1>8. CASE Compress
  <2>1. node \in NodeId /\ root \in NodeId
    BY <1>8 DEF Compress, Locals, Met
  <2> QED
    BY <1>2, <1>8, <2>1 DEF Compress, CallType
<1>9. CASE Found
  <2>1. At.to \in NodeId
    BY <1>4, <1>9 DEF Found, Locals
  <2>2. CASE Find(At.to)
    BY <1>3, <1>9, <2>1, <2>2 DEF Found, CallType
  <2>3. CASE pc' = "unite" /\ UNCHANGED <<parent, node, root>>
    BY <1>9, <2>3 DEF Found, CallType
  <2> QED
    BY <1>9, <2>2, <2>3 DEF Found
<1>10. CASE Unite
  <2>1. ends[1] \in NodeId /\ ends[2] \in NodeId
    BY <1>10 DEF Unite, Locals, Forest, Met
  <2> QED
    BY <1>1, <1>2, <1>10, <2>1 DEF Unite, CallType
<1> QED
  BY <1>5, <1>6, <1>7, <1>8, <1>9, <1>10 DEF LoopNext

(* The second root found completes the pair.                                *)
LEMMA AppendToOne ==
  ASSUME NEW u, NEW v
  PROVE  Append(<<u>>, v) = <<u, v>> /\ Len(<<u>>) = 1
<1>1. <<u>> \in Seq({u, v}) /\ v \in {u, v} /\ Len(<<u>>) = 1
  OBVIOUS
<1>2. PICK s : s = Append(<<u>>, v)
  OBVIOUS
<1>3. s \in Seq({u, v}) /\ Len(s) = 2
  BY <1>1, <1>2
<1>4. s[1] = u
  BY <1>1, <1>2
<1>5. s[2] = v
  BY <1>1, <1>2
<1>6. s = <<u, v>>
  BY <1>3, <1>4, <1>5
<1> QED
  BY <1>1, <1>2, <1>6

\* Every step of the call leaves a forest of the components behind.
LEMMA LoopStep ==
  ASSUME LoopInv, LoopNext
  PROVE  LoopInv'
<1>1. PICK top, depth : Forest(top, depth) /\ Components(top) /\ Locals(top)
  BY DEF LoopInv
<1>2. CallType /\ CallType'
  BY <1>1, CallTypeKeeps DEF LoopInv
<1> SUFFICES \E t, d : Forest(t, d)' /\ Components(t)' /\ Locals(t)'
  BY <1>2 DEF LoopInv
<1>3. ASSUME UNCHANGED <<network, parent>>, Passed' = Passed, Locals(top)'
      PROVE  \E t, d : Forest(t, d)' /\ Components(t)' /\ Locals(t)'
  BY <1>1, <1>3, SameForest
<1>4. UNCHANGED <<network, position>> => /\ Passed' = Passed /\ Edges' = Edges
                                         /\ At' = At /\ Closed' = Closed
  BY DEF Passed, Closed, Edges, At
<1>5. CASE SkipEdge
  <2>1. UNCHANGED <<network, parent>> /\ position' = position + 1 /\ pc' = "edge" /\ ends' = <<>>
    BY <1>1, <1>5 DEF SkipEdge, Locals
  <2>2. Passed' = Passed
    <3>1. position \notin Closed /\ position \in Nat /\ Closed' = Closed
      BY <1>2, <1>5, <2>1 DEF SkipEdge, Closed, At, CallType, Edges
    <3>2. \A i \in Closed : i < position + 1 <=> i < position
      BY <1>2, <3>1, CallFacts DEF Closed
    <3> QED
      BY <2>1, <3>1, <3>2 DEF Passed
  <2>3. Locals(top)'
    BY <2>1 DEF Locals
  <2> QED
    BY <1>3, <2>1, <2>2, <2>3
<1>6. CASE TakeEdge
  <2>1. position \in Closed
    <3>1. position \in 1 .. Len(Edges)
      BY <1>2, <1>6, CallFacts DEF TakeEdge, CallType
    <3> QED
      BY <1>2, <1>6, <3>1, CallFacts DEF TakeEdge, Closed, At
  <2>2. PICK x : x = At.from
    OBVIOUS
  <2>3. x \in CollectNodeIds(network)
    BY <1>2, <2>1, <2>2, CallFacts DEF At
  <2>4. Find(x) /\ UNCHANGED <<network, position, ends>>
    BY <1>6, <2>2 DEF TakeEdge
  <2>5. PICK t, d : /\ Forest(t, d)' /\ Components(t)' /\ Met' = Met \cup {x}
    BY <1>1, <1>2, <2>3, <2>4, FindKeeps
  <2>6. ends' = <<>> /\ At' = At /\ Closed' = Closed
    BY <1>1, <1>4, <1>6, <2>4 DEF Locals, TakeEdge
  <2>7. Sought' = x /\ node' = x /\ root' = x /\ pc' = "climb" /\ position' = position
    BY <2>2, <2>4, <2>6 DEF Sought, Find
  <2>8. Locals(t)'
    BY <2>1, <2>5, <2>6, <2>7 DEF Locals
  <2> QED
    BY <2>5, <2>8
<1>7. CASE Climb
  <2>1. /\ UNCHANGED <<network, parent, pc, position, node, ends, result>>
        /\ pc = "climb" /\ root' = parent[root]
    BY <1>7 DEF Climb
  <2>2. Met' = Met /\ Sought' = Sought /\ At' = At /\ Closed' = Closed
    BY <1>4, <2>1 DEF Met, Sought, At
  <2>3. root \in Met /\ top[root] = top[Sought]
    BY <1>1, <2>1 DEF Locals
  <2>4. parent[root] \in Met /\ top[parent[root]] = top[Sought]
    BY <1>1, <2>3 DEF Forest
  <2>5. Locals(top)'
    BY <1>1, <2>1, <2>2, <2>4 DEF Locals
  <2> QED
    BY <1>3, <1>4, <2>1, <2>5
<1>8. CASE ReachTop
  <2>1. /\ UNCHANGED <<network, parent, position, node, root, ends, result>>
        /\ pc = "climb" /\ pc' = "compress" /\ parent[root] = root
    BY <1>8 DEF ReachTop
  <2>2. Met' = Met /\ Sought' = Sought /\ At' = At /\ Closed' = Closed
    BY <1>4, <2>1 DEF Met, Sought, At
  <2>3. Locals(top)'
    BY <1>1, <2>1, <2>2 DEF Locals
  <2> QED
    BY <1>3, <1>4, <2>1, <2>3
<1>9. CASE Compress
  BY <1>1, <1>2, <1>9, CompressKeeps
<1>10. CASE Found
  <2>1. PICK r : r = root
    OBVIOUS
  <2>2. /\ pc = "compress" /\ ends' = Append(ends, r) /\ UNCHANGED <<network, position>>
    BY <1>10, <2>1 DEF Found
  <2>3. /\ position \in Closed /\ Sought \in Met /\ r \in Met
        /\ parent[r] = r /\ top[r] = top[Sought]
        /\ ends = <<>> \/ (At.from \in Met /\ ends = <<top[At.from]>>)
    BY <1>1, <2>1, <2>2 DEF Locals
  <2>4. r = top[Sought]
    BY <1>1, <2>3 DEF Forest
  <2>5. At' = At /\ Closed' = Closed
    BY <1>4, <2>2
  <2>6. CASE ends = <<>>
    <3>1. PICK x : x = At.to
      OBVIOUS
    <3>2. Find(x) /\ x \in CollectNodeIds(network)
      BY <1>2, <1>10, <2>3, <2>6, <3>1, CallFacts DEF Found, At
    <3>3. PICK t, d : /\ Forest(t, d)' /\ Components(t)' /\ Met' = Met \cup {x}
                      /\ \A m \in Met : t[m] = top[m]
      BY <1>1, <1>2, <2>2, <3>2, FindKeeps
    <3>4. At.from \in Met /\ r = t[At.from] /\ ends' = <<r>>
      BY <2>2, <2>3, <2>4, <2>6, <3>3 DEF Sought
    <3>5. /\ Sought' = x /\ node' = x /\ root' = x /\ pc' = "climb"
      BY <2>5, <3>1, <3>2, <3>4 DEF Sought, Find
    <3>6. Locals(t)'
      BY <2>2, <2>3, <2>5, <3>3, <3>4, <3>5 DEF Locals
    <3> QED
      BY <3>3, <3>6
  <2>7. CASE ends # <<>>
    <3>1. At.from \in Met /\ ends = <<top[At.from]>> /\ Sought = At.to
      BY <2>3, <2>7 DEF Sought
    <3>2. ends' = <<top[At.from], top[At.to]>> /\ Len(ends) = 1
      <4>1. \A u, v : Append(<<u>>, v) = <<u, v>> /\ Len(<<u>>) = 1
        BY AppendToOne
      <4>2. PICK u, v : u = top[At.from] /\ v = top[At.to]
        OBVIOUS
      <4>3. r = v
        BY <2>4, <3>1, <4>2
      <4>4. ends = <<u>> /\ ends' = Append(ends, v)
        BY <2>2, <3>1, <4>2, <4>3
      <4> QED
        BY <4>1, <4>2, <4>4
    <3>3. pc' = "unite" /\ UNCHANGED <<parent, node, root>>
      BY <1>10, <3>2 DEF Found
    <3>4. Met' = Met
      BY <3>3 DEF Met
    <3>5. Locals(top)'
      BY <2>2, <2>3, <2>5, <3>1, <3>2, <3>3, <3>4 DEF Locals
    <3> QED
      BY <1>3, <1>4, <2>2, <3>3, <3>5
  <2> QED
    BY <2>6, <2>7
<1>11. CASE CloseLoop
  <2>1. /\ UNCHANGED <<network, position, parent>> /\ pc = "unite" /\ ends[1] = ends[2]
        /\ pc' = "returned" /\ result' = "loop"
    BY <1>11 DEF CloseLoop
  <2>2. Met' = Met /\ At' = At /\ Closed' = Closed
    BY <1>4, <2>1 DEF Met
  <2>3. /\ position \in Closed /\ At.from \in Met /\ At.to \in Met /\ top[At.from] = top[At.to]
    BY <1>1, <2>1 DEF Locals
  <2>4. Locals(top)'
    BY <2>1, <2>2, <2>3 DEF Locals
  <2> QED
    BY <1>3, <1>4, <2>1, <2>4
<1>12. CASE Unite
  <2>1. PICK t, d : Forest(t, d)' /\ Components(t)'
    BY <1>1, <1>2, <1>12, UniteKeeps
  <2>2. Locals(t)'
    BY <1>12 DEF Unite, Locals
  <2> QED
    BY <2>1, <2>2
<1>13. CASE NoLoop
  <2>1. /\ UNCHANGED <<network, position, parent>> /\ position > Len(Edges)
        /\ pc' = "returned" /\ result' = "no loop" /\ Edges' = Edges
    BY <1>13 DEF NoLoop, Edges
  <2>2. Locals(top)'
    BY <2>1 DEF Locals
  <2> QED
    BY <1>3, <1>4, <2>1, <2>2
<1>14. CASE Returned
  <2>1. UNCHANGED <<network, pc, position, parent, ends, result>> /\ pc = "returned"
    BY <1>14 DEF Returned, vars
  <2>2. Met' = Met /\ At' = At /\ Closed' = Closed /\ Edges' = Edges
    BY <1>4, <2>1 DEF Met
  <2>3. Locals(top)'
    BY <1>1, <2>1, <2>2 DEF Locals
  <2> QED
    BY <1>3, <1>4, <2>1, <2>3
<1> QED
  BY <1>5, <1>6, <1>7, <1>8, <1>9, <1>10, <1>11, <1>12, <1>13, <1>14 DEF LoopNext

\* And so does a step that leaves the call where it is.
LEMMA LoopStays ==
  ASSUME LoopInv, UNCHANGED vars
  PROVE  LoopInv'
<1>1. Returned \/ pc # "returned"
  BY DEF Returned
<1>2. Edges' = Edges /\ Met' = Met /\ Closed' = Closed /\ At' = At /\ Passed' = Passed
      /\ Sought' = Sought
  BY DEF vars, Edges, Met, Closed, At, Passed, Sought
<1>3. CallType'
  BY DEF vars, LoopInv, CallType
<1>4. PICK top, depth : Forest(top, depth) /\ Components(top) /\ Locals(top)
  BY DEF LoopInv
<1>5. Forest(top, depth)' /\ Components(top)'
  BY <1>2, <1>4, SameForest DEF vars
<1>6. Locals(top)'
  BY <1>2, <1>4 DEF vars, Locals
<1> QED
  BY <1>3, <1>5, <1>6 DEF LoopInv

(* At the start no node has been met.                                       *)
LEMMA LoopStart ==
  ASSUME LoopInit
  PROVE  LoopInv
<1>1. CallType
  BY NodeIdAssumption DEF LoopInit, CallType
<1>2. Met = {}
  BY DEF LoopInit, Met
<1>3. Passed = {}
  <2>1. \A i \in Closed : i \in Nat /\ i >= 1
    BY <1>1, CallFacts DEF Closed
  <2> QED
    BY <2>1 DEF LoopInit, Passed
<1>4. \A top, depth : Forest(top, depth) /\ Components(top)
  BY <1>2, <1>3 DEF Forest, Components
<1>5. \A top : Locals(top)
  BY DEF LoopInit, Locals
<1> QED
  BY <1>1, <1>4, <1>5 DEF LoopInv

-----------------------------------------------------------------------------
(* What the invariant says of the call's properties.                        *)

\* The trees are the components of the closed edges handled so far.
LEMMA TreesAreComponents ==
  ASSUME CallType, NEW top, NEW depth, Forest(top, depth), Components(top),
         NEW m \in Met, NEW n \in Met
  PROVE  top[m] = top[n] <=> Linked(network, Passed, m, n)
<1>1. /\ IsNetwork(network) /\ Passed \in SUBSET ClosedEdges(network)
      /\ \A k \in Met : /\ k \in CollectNodeIds(network) /\ top[k] \in CollectNodeIds(network)
                        /\ Linked(network, Passed, k, top[k])
  BY CallFacts DEF Forest, Components
<1>2. ASSUME top[m] = top[n]
      PROVE  Linked(network, Passed, m, n)
  <2>1. PICK r : r = top[n]
    OBVIOUS
  <2>2. /\ Linked(network, Passed, m, r) /\ Linked(network, Passed, n, r)
        /\ r \in CollectNodeIds(network)
    BY <1>1, <1>2, <2>1
  <2>3. Linked(network, Passed, r, n)
    BY <1>1, <2>2, LinkedFacts
  <2> QED
    BY <1>1, <2>2, <2>3, LinkedFacts
<1>3. ASSUME Linked(network, Passed, m, n)
      PROVE  top[m] = top[n]
  <2>1. PICK X : X = {k \in Met : top[k] = top[n]}
    OBVIOUS
  <2>2. X \in SUBSET CollectNodeIds(network) /\ n \in X
    BY <1>1, <2>1
  <2>3. \A i \in Passed : network.edges[i].from \in X <=> network.edges[i].to \in X
    BY <2>1 DEF Components, Edges
  <2>4. m \in X
    BY <1>1, <1>3, <2>2, <2>3, LinkedWithin
  <2> QED
    BY <2>1, <2>4
<1> QED
  BY <1>2, <1>3

\* The climb from n ends at the root of its tree, and nowhere else.
LEMMA RootIsTop ==
  ASSUME NEW top, NEW depth, Forest(top, depth), NEW n \in Met
  PROVE  RootsOf(n) = {top[n]}
<1>1. \A k \in Met : /\ parent[k] \in Met /\ top[k] \in Met /\ depth[k] \in Nat
                     /\ parent[top[k]] = top[k] /\ top[parent[k]] = top[k]
                     /\ parent[k] = k => top[k] = k
                     /\ parent[k] # k => depth[parent[k]] < depth[k]
  BY DEF Forest
<1>2. ASSUME NEW m \in RootsOf(n)
      PROVE  m = top[n]
  <2>1. PICK X : X = {k \in Met : top[k] = top[n]}
    OBVIOUS
  <2>2. X \in SUBSET Met /\ n \in X /\ \A x \in X : parent[x] \in X
    BY <1>1, <2>1
  <2>3. m \in Met /\ parent[m] = m /\ m \in X
    BY <2>2 DEF RootsOf, Ancestors
  <2> QED
    BY <1>1, <2>1, <2>3
<1>3. ASSUME NEW X \in SUBSET Met, n \in X, \A x \in X : parent[x] \in X
      PROVE  top[n] \in X
  <2>1. PICK Y : Y = {x \in X : top[x] = top[n]}
    OBVIOUS
  <2>2. PICK S : S = {i \in Nat : \E y \in Y : depth[y] = i}
    OBVIOUS
  <2>3. S \subseteq Nat /\ depth[n] \in S
    BY <1>1, <1>3, <2>1, <2>2
  <2>4. PICK i \in S : \A j \in S : i =< j
    BY <2>3, LeastExists
  <2>5. PICK y \in Y : depth[y] = i
    BY <2>2, <2>4
  <2>6. y \in X /\ y \in Met /\ top[y] = top[n] /\ parent[y] \in Y
    BY <1>1, <1>3, <2>1, <2>5
  <2>7. depth[parent[y]] \in Nat /\ depth[parent[y]] \in S
    BY <1>1, <1>3, <2>2, <2>6
  <2>8. parent[y] = y
    BY <1>1, <2>4, <2>5, <2>6, <2>7
  <2> QED
    BY <1>1, <2>6, <2>8
<1>4. top[n] \in Ancestors(n)
  BY <1>1, <1>3 DEF Ancestors
<1> QED
  BY <1>1, <1>2, <1>4 DEF RootsOf

(* The forest and the components agree.                                     *)
LEMMA LoopInvRoots ==
  ASSUME LoopInv
  PROVE  RootsAreComponents
<1>1. CallType
  BY DEF LoopInv
<1>2. PICK top, depth : Forest(top, depth) /\ Components(top) /\ Locals(top)
  BY DEF LoopInv
<1>3. \A n \in Met : RootsOf(n) = {top[n]}
  BY <1>2, RootIsTop
<1>4. \A n \in Met : Cardinality(RootsOf(n)) = 1
  <2>1. \A x : Cardinality({x}) = 1
    BY FS_Singleton
  <2> QED
    BY <1>3, <2>1
<1>5. ASSUME NEW m \in Met, NEW n \in Met
      PROVE  RootsOf(m) = RootsOf(n)
               <=> m \in Reach(OnlyEdges({i \in Closed : i < position}), Definite, n)
  <2>1. RootsOf(m) = RootsOf(n) <=> top[m] = top[n]
    BY <1>3
  <2>2. top[m] = top[n] <=> Linked(network, Passed, m, n)
    BY <1>1, <1>2, TreesAreComponents
  <2>3. PICK P : P = Passed
    OBVIOUS
  <2>4. OnlyEdges(P) = Restricted(network, P)
    BY <1>1, CallFacts
  <2> QED
    BY <2>1, <2>2, <2>3, <2>4 DEF Linked, Passed
<1> QED
  BY <1>4, <1>5 DEF RootsAreComponents

(* The answer is exact.                                                     *)
LEMMA LoopInvAnswer ==
  ASSUME LoopInv
  PROVE  AnswerIsExact
<1> SUFFICES ASSUME pc = "returned"
             PROVE  result = "loop" <=>
                      \E i \in Closed :
                        \/ Linked(network, Closed \ {i}, Edges[i].to, Edges[i].from)
                        \/ Edges[i].from = Edges[i].to
  <2>1. \A P : OnlyEdges(P) = Restricted(network, P)
    BY CallFacts DEF LoopInv
  <2> QED
    BY <2>1 DEF AnswerIsExact, Linked
<1>1. CallType
  BY DEF LoopInv
<1>2. PICK top, depth : Forest(top, depth) /\ Components(top) /\ Locals(top)
  BY DEF LoopInv
<1>3. /\ IsNetwork(network) /\ Closed = ClosedEdges(network)
      /\ Passed \in SUBSET Closed /\ Len(Edges) \in Nat /\ position \in Nat
      /\ \A i \in Closed : /\ Edges[i].from \in CollectNodeIds(network)
                           /\ Edges[i].to \in CollectNodeIds(network)
                           /\ i \in 1 .. Len(Edges)
  BY <1>1, CallFacts DEF CallType, Closed
<1>4. CASE result = "loop"
  <2>1. PICK q, a, b : q = position /\ a = Edges[q].from /\ b = Edges[q].to
    OBVIOUS
  <2>2. q \in Closed /\ a \in Met /\ b \in Met /\ top[a] = top[b]
    BY <1>2, <1>4, <2>1 DEF Locals, At
  <2>3. Linked(network, Passed, b, a)
    BY <1>1, <1>2, <2>2, TreesAreComponents
  <2>4. Passed \subseteq Closed \ {q} /\ Closed \ {q} \in SUBSET ClosedEdges(network)
    BY <1>3, <2>1 DEF Passed
  <2>5. Linked(network, Closed \ {q}, b, a)
    BY <1>3, <2>1, <2>2, <2>3, <2>4, LinkedMore
  <2> QED
    BY <1>4, <2>1, <2>2, <2>5
<1>5. CASE result # "loop"
  <2>1. position > Len(Edges)
    BY <1>2, <1>5 DEF Locals
  <2>2. Passed = Closed
    BY <1>3, <2>1 DEF Passed
  <2>3. ASSUME NEW i \in Closed
        PROVE  /\ ~Linked(network, Closed \ {i}, Edges[i].to, Edges[i].from)
               /\ Edges[i].from # Edges[i].to
    <3>1. PICK a, b : a = Edges[i].from /\ b = Edges[i].to
      OBVIOUS
    <3>2. ~Linked(network, Closed \ {i}, b, a)
      BY <1>2, <2>2, <3>1 DEF Components
    <3>3. Closed \ {i} \in SUBSET ClosedEdges(network) /\ a \in CollectNodeIds(network)
      BY <1>3, <3>1
    <3>4. Linked(network, Closed \ {i}, a, a)
      BY <1>3, <3>3, LinkedFacts
    <3> QED
      BY <3>1, <3>2, <3>4
  <2> QED
    BY <1>5, <2>3
<1> QED
  BY <1>4, <1>5

-----------------------------------------------------------------------------

\* The invariant of the union-find holds throughout both analyses.
THEOREM LoopInvariant == HelpersSpec => []LoopInv
<1>1. HelpersInit => LoopInv
  BY LoopStart DEF HelpersInit
<1>2. LoopInv /\ [HelpersNext]_<<vars, islandVars>> => LoopInv'
  <2> SUFFICES ASSUME LoopInv, [HelpersNext]_<<vars, islandVars>>
               PROVE  LoopInv'
    OBVIOUS
  <2>1. CASE AskForIslands
    <3>1. UNCHANGED network
      BY <2>1 DEF AskForIslands, Islands!Next, Islands!SkipStart, Islands!StartSearch,
                  Islands!PopSeen, Islands!Visit, Islands!Close
    <3> QED
      BY <2>1, <3>1, LoopStays DEF AskForIslands, loopVars, vars
  <2>2. CASE AskForALoop
    BY <2>2, LoopStep DEF AskForALoop
  <2>3. CASE UNCHANGED <<vars, islandVars>>
    BY <2>3, LoopStays
  <2> QED
    BY <2>1, <2>2, <2>3 DEF HelpersNext
<1> QED
  BY <1>1, <1>2, PTL DEF HelpersSpec

\* Whatever the snapshot, and at every step of closed_graph_has_cycle, each node
\* met has one root, and between two edges two nodes have the same one exactly
\* when the closed edges handled so far join them.
THEOREM RootsAreComponentsAlways == HelpersSpec => []RootsAreComponents
<1>1. LoopInv => RootsAreComponents
  BY LoopInvRoots
<1> QED
  BY <1>1, LoopInvariant, PTL

\* closed_graph_has_cycle answers as the definition of a loop does: some closed
\* edge joins what the other closed edges already join, or a node to itself.
THEOREM AnswerIsExactAlways == HelpersSpec => []AnswerIsExact
<1>1. LoopInv => AnswerIsExact
  BY LoopInvAnswer
<1> QED
  BY <1>1, LoopInvariant, PTL

-----------------------------------------------------------------------------
(* closed_graph_has_cycle ends: no climb goes round.                        *)

(* Met and Ancestors, of a forest that is not the one at hand.              *)
MetIn(up) == {n \in NodeId : up[n] # NoNode}

WayUp(up, n) ==
  {m \in MetIn(up) : \A X \in SUBSET MetIn(up) :
     n \in X /\ (\A x \in X : up[x] \in X) => m \in X}

(* What Forest says of the parents alone, for nodes among C.                *)
IsForest(up, C, depth) ==
  \A n \in MetIn(up) :
    /\ n \in C /\ up[n] \in MetIn(up) /\ depth[n] \in Nat
    /\ up[n] # n => depth[up[n]] < depth[n]

(* The way up from a node starts there, leads on from each of its nodes,    *)
(* and is the least set that does.                                          *)
LEMMA WayUpIs ==
  ASSUME NEW up, NEW C, NEW depth, IsForest(up, C, depth), NEW n \in MetIn(up)
  PROVE  /\ n \in WayUp(up, n) /\ WayUp(up, n) \subseteq MetIn(up) /\ WayUp(up, n) \subseteq C
         /\ \A m \in WayUp(up, n) : up[m] \in WayUp(up, n)
         /\ \A X \in SUBSET MetIn(up) :
              n \in X /\ (\A x \in X : up[x] \in X) => WayUp(up, n) \subseteq X
BY DEF WayUp, IsForest

(* One hop up, the way is shorter.                                          *)
LEMMA WayUpShrinks ==
  ASSUME NEW up, NEW C, NEW depth, IsForest(up, C, depth), NEW n \in MetIn(up), up[n] # n
  PROVE  WayUp(up, up[n]) \subseteq WayUp(up, n) \ {n}
<1>1. up[n] \in MetIn(up) /\ depth[n] \in Nat /\ depth[up[n]] \in Nat /\ depth[up[n]] < depth[n]
  BY DEF IsForest
<1>2. WayUp(up, up[n]) \subseteq WayUp(up, n)
  <2>1. /\ WayUp(up, n) \in SUBSET MetIn(up) /\ up[n] \in WayUp(up, n)
        /\ \A x \in WayUp(up, n) : up[x] \in WayUp(up, n)
    BY WayUpIs
  <2> QED
    BY <1>1, <2>1, WayUpIs
<1>3. n \notin WayUp(up, up[n])
  <2>1. PICK X : X = {m \in MetIn(up) : depth[m] <= depth[up[n]]}
    OBVIOUS
  <2>2. X \in SUBSET MetIn(up) /\ up[n] \in X
    BY <1>1, <2>1
  <2>3. \A x \in X : up[x] \in X
    <3> TAKE x \in X
    <3>1. /\ x \in MetIn(up) /\ depth[x] <= depth[up[n]] /\ depth[x] \in Nat
          /\ up[x] \in MetIn(up) /\ depth[up[x]] \in Nat
          /\ up[x] # x => depth[up[x]] < depth[x]
      BY <2>1 DEF IsForest
    <3>2. depth[up[x]] <= depth[up[n]]
      BY <1>1, <3>1
    <3> QED
      BY <2>1, <3>1, <3>2
  <2>4. WayUp(up, up[n]) \subseteq X
    BY <1>1, <2>2, <2>3, WayUpIs
  <2>5. n \notin X
    BY <1>1, <2>1
  <2> QED
    BY <2>4, <2>5
<1> QED
  BY <1>2, <1>3

(* The nodes a climb from n meets, n among them.                            *)
Height(up, n) == Cardinality(WayUp(up, n))

(* One at least, no more than there are nodes, and fewer one hop up.        *)
LEMMA HeightIs ==
  ASSUME NEW up, NEW C, NEW depth, IsForest(up, C, depth), IsFiniteSet(C), NEW n \in MetIn(up)
  PROVE  /\ Height(up, n) \in Nat /\ Cardinality(C) \in Nat
         /\ Height(up, n) >= 1 /\ Height(up, n) <= Cardinality(C)
         /\ up[n] # n => Height(up, up[n]) \in Nat /\ Height(up, up[n]) < Height(up, n)
<1>1. PICK W : W = WayUp(up, n)
  OBVIOUS
<1>2. n \in W /\ W \in SUBSET C
  BY <1>1, WayUpIs
<1>3. IsFiniteSet(W) /\ Cardinality(W) <= Cardinality(C)
  BY <1>2, FS_Subset
<1>4. Cardinality(W) \in Nat /\ Cardinality(C) \in Nat
  BY <1>3, FS_CardinalityType
<1>5. Cardinality(W) # 0
  BY <1>2, <1>3, FS_EmptySet
<1>6. ASSUME up[n] # n
      PROVE  Height(up, up[n]) \in Nat /\ Height(up, up[n]) < Height(up, n)
  <2>1. PICK V : V = WayUp(up, up[n])
    OBVIOUS
  <2>2. V \in SUBSET (W \ {n})
    BY <1>1, <1>6, <2>1, WayUpShrinks
  <2>3. IsFiniteSet(W \ {n}) /\ Cardinality(W \ {n}) = Cardinality(W) - 1
    BY <1>2, <1>3, FS_RemoveElement
  <2>4. IsFiniteSet(V) /\ Cardinality(V) <= Cardinality(W \ {n})
    BY <2>2, <2>3, FS_Subset
  <2>5. Cardinality(V) \in Nat
    BY <2>4, FS_CardinalityType
  <2> QED
    BY <1>1, <1>4, <2>1, <2>3, <2>4, <2>5 DEF Height
<1> QED
  BY <1>1, <1>3, <1>4, <1>5, <1>6 DEF Height

(* Compressing the hop of n leaves a shorter way up from where n led.       *)
LEMMA CompressedIs ==
  ASSUME NEW up \in [NodeId -> NodeId \cup {NoNode}], NEW C, NEW depth, IsForest(up, C, depth),
         IsFiniteSet(C), NEW n \in MetIn(up), NEW r \in MetIn(up), up[n] # n
  PROVE  LET short == [up EXCEPT ![n] = r]
         IN  /\ MetIn(short) = MetIn(up)
             /\ Height(short, up[n]) \in Nat /\ Height(short, up[n]) < Height(up, n)
<1>1. PICK short : short = [up EXCEPT ![n] = r]
  OBVIOUS
<1>2. r # NoNode /\ r \in NodeId /\ n \in NodeId /\ up[n] # NoNode
  BY NodeIdAssumption DEF MetIn
<1>3. \A x \in NodeId : short[x] = IF x = n THEN r ELSE up[x]
  BY <1>1
<1>4. MetIn(short) = MetIn(up)
  BY <1>2, <1>3 DEF MetIn
<1>5. PICK W : W = WayUp(up, up[n])
  OBVIOUS
<1>6. /\ up[n] \in W /\ W \in SUBSET MetIn(up) /\ W \subseteq C
      /\ \A x \in W : up[x] \in W
  <2>1. up[n] \in MetIn(up)
    BY DEF IsForest
  <2> QED
    BY <1>5, <2>1, WayUpIs
<1>7. n \notin W
  BY <1>5, WayUpShrinks
<1>8. \A x \in W : short[x] \in W
  BY <1>3, <1>6, <1>7 DEF MetIn
<1>9. WayUp(short, up[n]) \subseteq W
  BY <1>4, <1>6, <1>8 DEF WayUp
<1>10. IsFiniteSet(W)
  BY <1>6, FS_Subset
<1>11. /\ IsFiniteSet(WayUp(short, up[n]))
       /\ Cardinality(WayUp(short, up[n])) <= Cardinality(W)
  BY <1>9, <1>10, FS_Subset
<1>12. Cardinality(WayUp(short, up[n])) \in Nat /\ Cardinality(W) \in Nat
  BY <1>10, <1>11, FS_CardinalityType
<1>13. Height(up, n) \in Nat /\ Cardinality(W) < Height(up, n)
  BY <1>5, HeightIs DEF Height
<1> QED
  BY <1>1, <1>4, <1>11, <1>12, <1>13 DEF Height

(* The forest at hand is one, of the nodes of the network.                  *)
LEMMA ForestIs ==
  ASSUME NEW top, NEW depth, Forest(top, depth)
  PROVE  Met = MetIn(parent) /\ IsForest(parent, CollectNodeIds(network), depth)
BY DEF Forest, Met, MetIn, IsForest

(* A find meets each node of the network once at the most on its way up,    *)
(* and once more as it compresses.                                          *)
FindCost == Cardinality(CollectNodeIds(network)) + 1

(* The steps that the edge at hand still takes, at the most.                *)
EdgeLeft ==
  CASE pc = "climb" /\ ends = <<>>    -> 3 * FindCost + Height(parent, root)
    [] pc = "compress" /\ ends = <<>> -> 2 * FindCost + Height(parent, node)
    [] pc = "climb" /\ ends # <<>>    -> FindCost + Height(parent, root)
    [] pc = "compress" /\ ends # <<>> -> Height(parent, node)
    [] OTHER                          -> 0

(* The edges the loop has not passed, the one at hand among them.           *)
EdgesLeft == IF position > Len(Edges) THEN 0 ELSE Len(Edges) + 1 - position

(* The steps the call has left.                                             *)
LoopStepsLeft ==
  CASE pc = "returned" -> 0
    [] pc = "edge"     -> EdgesLeft * (4 * FindCost + 2) + 1
    [] OTHER           -> (EdgesLeft - 1) * (4 * FindCost + 2) + 2 + EdgeLeft

(* With k for the edges behind it, an edge's share c covers all that it can *)
(* still take and the two steps beside its climbs.                          *)
LEMMA OneEdgeIsEnough ==
  ASSUME NEW k \in Nat, NEW g \in Nat, NEW f \in Nat, NEW c \in Nat, NEW m \in Nat,
         m = k + c, g <= 4 * f, c = 4 * f + 2
  PROVE  k + 2 + g < m + 1
OBVIOUS

(* A product and the next one.                                              *)
LEMMA OneEdgeLess ==
  ASSUME NEW k \in Nat, NEW c \in Nat
  PROVE  k * c \in Nat /\ (k + 1) * c = k * c + c
OBVIOUS

(* While an edge is at hand its measure is a number that leaves room for    *)
(* the next.                                                                *)
LEMMA EdgeLeftIs ==
  ASSUME CallType, NEW top, NEW depth, Forest(top, depth), Locals(top),
         IsFiniteSet(CollectNodeIds(network))
  PROVE  /\ FindCost \in Nat /\ FindCost >= 1 /\ EdgesLeft \in Nat
         /\ pc \in {"climb", "compress", "unite"} => EdgesLeft >= 1 /\ position <= Len(Edges)
         /\ EdgeLeft \in Nat /\ EdgeLeft <= 4 * FindCost
         /\ pc = "climb" => /\ Height(parent, root) \in Nat
                            /\ Height(parent, root) >= 1 /\ Height(parent, root) < FindCost
         /\ pc = "compress" => /\ Height(parent, node) \in Nat
                               /\ Height(parent, node) >= 1 /\ Height(parent, node) < FindCost
<1>1. Len(Edges) \in Nat /\ position \in Nat \ {0} /\ DOMAIN Edges = 1 .. Len(Edges)
  BY CallFacts DEF CallType
<1>2. EdgesLeft \in Nat
  BY <1>1 DEF EdgesLeft
<1>3. Cardinality(CollectNodeIds(network)) \in Nat
  BY FS_CardinalityType
<1>4. FindCost \in Nat /\ FindCost >= 1
  BY <1>3 DEF FindCost
<1>5. ASSUME pc \in {"climb", "compress", "unite"}
      PROVE  EdgesLeft >= 1 /\ position <= Len(Edges)
  <2>1. position \in DOMAIN Edges
    BY <1>5 DEF Locals, Closed
  <2>2. position \in 1 .. Len(Edges)
    BY <1>1, <2>1
  <2> QED
    BY <1>1, <2>2 DEF EdgesLeft
<1>6. \A n \in Met : /\ Height(parent, n) \in Nat /\ Height(parent, n) >= 1
                     /\ Height(parent, n) < FindCost
  BY <1>3, ForestIs, HeightIs DEF FindCost
<1>7. pc \in {"climb", "compress"} => node \in Met /\ root \in Met
  BY DEF Locals
<1>8. CASE pc = "climb"
  <2>1. PICK h \in Nat : h = Height(parent, root) /\ h >= 1 /\ h < FindCost
    BY <1>6, <1>7, <1>8
  <2>2. EdgeLeft = IF ends = <<>> THEN 3 * FindCost + h ELSE FindCost + h
    BY <1>8, <2>1 DEF EdgeLeft
  <2> QED
    BY <1>2, <1>4, <1>5, <1>8, <2>1, <2>2
<1>9. CASE pc = "compress"
  <2>1. PICK h \in Nat : h = Height(parent, node) /\ h >= 1 /\ h < FindCost
    BY <1>6, <1>7, <1>9
  <2>2. EdgeLeft = IF ends = <<>> THEN 2 * FindCost + h ELSE h
    BY <1>9, <2>1 DEF EdgeLeft
  <2> QED
    BY <1>2, <1>4, <1>5, <1>9, <2>1, <2>2
<1>10. CASE pc \notin {"climb", "compress"}
  <2>1. EdgeLeft = 0
    BY <1>10 DEF EdgeLeft
  <2> QED
    BY <1>2, <1>4, <1>5, <1>10, <2>1
<1> QED
  BY <1>8, <1>9, <1>10

(* Every step of the call leaves fewer.                                     *)
LEMMA LoopDescends ==
  ASSUME LoopInv, LoopNext, pc # "returned", IsFiniteSet(CollectNodeIds(network))
  PROVE  LoopStepsLeft' < LoopStepsLeft
<1>1. PICK top, depth : CallType /\ Forest(top, depth) /\ Locals(top)
  BY DEF LoopInv
<1>2. PICK c \in Nat, e \in Nat, f \in Nat :
        /\ c = 4 * FindCost + 2 /\ e = EdgesLeft /\ f = FindCost /\ f >= 1
  BY <1>1, EdgeLeftIs
<1>3. network' = network /\ Edges' = Edges /\ FindCost' = f /\ c = 4 * f + 2
  <2>1. network' = network
    BY DEF LoopNext, SkipEdge, TakeEdge, Climb, ReachTop, Compress, Found, CloseLoop, Unite,
           NoLoop, Returned, vars
  <2> QED
    BY <1>2, <2>1 DEF Edges, FindCost, CollectNodeIds
<1>4. position \in Nat \ {0} /\ Len(Edges) \in Nat
  BY <1>1, CallFacts DEF CallType
<1>5. /\ pc = "edge" => LoopStepsLeft = e * c + 1
      /\ pc \in {"climb", "compress", "unite"} =>
           LoopStepsLeft = (e - 1) * c + 2 + EdgeLeft
  BY <1>2 DEF LoopStepsLeft
<1>6. /\ pc' = "edge" => LoopStepsLeft' = EdgesLeft' * c + 1
      /\ pc' \in {"climb", "compress", "unite"} =>
           LoopStepsLeft' = (EdgesLeft' - 1) * c + 2 + EdgeLeft'
      /\ pc' = "returned" => LoopStepsLeft' = 0
  BY <1>2, <1>3 DEF LoopStepsLeft
<1>7. position' = position => EdgesLeft' = e
  BY <1>2, <1>3 DEF EdgesLeft
<1>8. \A k \in Nat : k >= 1 => (k - 1) * c \in Nat /\ k * c = (k - 1) * c + c
  <2> TAKE k \in Nat
  <2> HAVE k >= 1
  <2>1. PICK j \in Nat : j = k - 1 /\ k = j + 1
    OBVIOUS
  <2>2. j * c \in Nat /\ (j + 1) * c = j * c + c
    BY OneEdgeLess
  <2> QED
    BY <2>1, <2>2
<1>9. pc \in {"climb", "compress", "unite"} => e >= 1 /\ (e - 1) * c \in Nat
  BY <1>1, <1>2, <1>8, EdgeLeftIs
<1>10. LoopInv'
  BY LoopStep
<1>11. /\ EdgeLeft' \in Nat /\ EdgeLeft' <= 4 * f
       /\ pc' = "climb" => /\ Height(parent', root') \in Nat
                           /\ Height(parent', root') >= 1 /\ Height(parent', root') < f
       /\ pc' = "compress" => /\ Height(parent', node') \in Nat
                              /\ Height(parent', node') >= 1 /\ Height(parent', node') < f
  <2>1. PICK t, d : CallType' /\ Forest(t, d)' /\ Locals(t)'
    BY <1>10 DEF LoopInv
  <2>2. CollectNodeIds(network)' = CollectNodeIds(network)
    BY <1>3 DEF CollectNodeIds
  <2>3. Cardinality(CollectNodeIds(network)) \in Nat
    BY FS_CardinalityType
  <2>4. Met' = MetIn(parent') /\ IsForest(parent', CollectNodeIds(network), d)
    BY <2>1, <2>2 DEF Forest, Met, MetIn, IsForest
  <2>5. \A n \in MetIn(parent') : /\ Height(parent', n) \in Nat /\ Height(parent', n) >= 1
                                  /\ Height(parent', n) < f
    BY <1>2, <2>3, <2>4, HeightIs DEF FindCost
  <2>6. pc' \in {"climb", "compress"} => node' \in Met' /\ root' \in Met'
    BY <2>1 DEF Locals
  <2>7. CASE pc' = "climb"
    <3>1. PICK h \in Nat : h = Height(parent', root') /\ h >= 1 /\ h < f
      BY <2>4, <2>5, <2>6, <2>7
    <3>2. EdgeLeft' = IF ends' = <<>> THEN 3 * f + h ELSE f + h
      BY <1>3, <2>7, <3>1 DEF EdgeLeft
    <3> QED
      BY <1>2, <2>7, <3>1, <3>2
  <2>8. CASE pc' = "compress"
    <3>1. PICK h \in Nat : h = Height(parent', node') /\ h >= 1 /\ h < f
      BY <2>4, <2>5, <2>6, <2>8
    <3>2. EdgeLeft' = IF ends' = <<>> THEN 2 * f + h ELSE h
      BY <1>3, <2>8, <3>1 DEF EdgeLeft
    <3> QED
      BY <1>2, <2>8, <3>1, <3>2
  <2>9. CASE pc' \notin {"climb", "compress"}
    <3>1. EdgeLeft' = 0
      BY <2>9 DEF EdgeLeft
    <3> QED
      BY <1>2, <2>9, <3>1
  <2> QED
    BY <2>7, <2>8, <2>9
<1>12. CASE SkipEdge
  <2>1. pc = "edge" /\ pc' = "edge" /\ position' = position + 1 /\ position <= Len(Edges)
    BY <1>12 DEF SkipEdge
  <2>2. e >= 1 /\ EdgesLeft' = e - 1
    BY <1>2, <1>3, <1>4, <2>1 DEF EdgesLeft
  <2> QED
    BY <1>3, <1>5, <1>6, <1>8, <2>1, <2>2
<1>13. CASE TakeEdge
  <2>1. pc = "edge" /\ pc' = "climb" /\ position' = position /\ position <= Len(Edges)
    BY <1>13 DEF TakeEdge, Find
  <2>2. e >= 1
    BY <1>2, <1>4, <2>1 DEF EdgesLeft
  <2>3. LoopStepsLeft = e * c + 1
    BY <1>5, <2>1
  <2>4. LoopStepsLeft' = (e - 1) * c + 2 + EdgeLeft'
    BY <1>6, <1>7, <2>1
  <2>5. PICK k \in Nat, m \in Nat : k = (e - 1) * c /\ m = e * c /\ m = k + c
    BY <1>8, <2>2
  <2>6. PICK g \in Nat : g = EdgeLeft' /\ g <= 4 * f
    BY <1>11
  <2>7. LoopStepsLeft = m + 1 /\ LoopStepsLeft' = k + 2 + g
    BY <2>3, <2>4, <2>5, <2>6
  <2>8. c = 4 * f + 2
    BY <1>3
  <2>9. f \in Nat /\ c \in Nat /\ m = k + c /\ g <= 4 * f
    BY <1>3, <2>5, <2>6
  <2>10. k + 2 + g < m + 1
    BY <2>8, <2>9, OneEdgeIsEnough
  <2> QED
    BY <2>7, <2>10
<1>14. ASSUME pc \in {"climb", "compress", "unite"}, pc' \in {"climb", "compress", "unite"},
              position' = position, EdgeLeft' < EdgeLeft
       PROVE  LoopStepsLeft' < LoopStepsLeft
  <2>1. EdgeLeft \in Nat
    BY <1>1, EdgeLeftIs
  <2> QED
    BY <1>5, <1>6, <1>7, <1>9, <1>11, <1>14, <2>1
<1>15. pc = "climb" => /\ Height(parent, root) \in Nat
                       /\ Height(parent, root) >= 1 /\ Height(parent, root) < f
  BY <1>1, <1>2, EdgeLeftIs
<1>16. pc = "compress" => /\ Height(parent, node) \in Nat
                          /\ Height(parent, node) >= 1 /\ Height(parent, node) < f
  BY <1>1, <1>2, EdgeLeftIs
<1>17. pc \in {"climb", "compress"} => node \in MetIn(parent) /\ root \in MetIn(parent)
  BY <1>1, ForestIs DEF Locals
<1>18. IsForest(parent, CollectNodeIds(network), depth)
  BY <1>1, ForestIs
<1>19. CASE Climb
  <2>1. /\ pc = "climb" /\ pc' = "climb" /\ parent[root] # root /\ root' = parent[root]
        /\ UNCHANGED <<position, parent, ends>>
    BY <1>19 DEF Climb
  <2>2. PICK h \in Nat, g \in Nat : h = Height(parent, root) /\ g = Height(parent', root') /\ g < h
    <3>1. /\ Height(parent, root) \in Nat /\ Height(parent, parent[root]) \in Nat
          /\ Height(parent, parent[root]) < Height(parent, root)
      BY <1>17, <1>18, <2>1, HeightIs
    <3> QED
      BY <2>1, <3>1
  <2>3. EdgeLeft = IF ends = <<>> THEN 3 * f + h ELSE f + h
    BY <1>2, <2>1, <2>2 DEF EdgeLeft
  <2>4. EdgeLeft' = IF ends = <<>> THEN 3 * f + g ELSE f + g
    BY <1>3, <2>1, <2>2 DEF EdgeLeft
  <2>5. EdgeLeft' < EdgeLeft
    BY <2>2, <2>3, <2>4
  <2> QED
    BY <1>14, <2>1, <2>5
<1>20. CASE ReachTop
  <2>1. /\ pc = "climb" /\ pc' = "compress" /\ UNCHANGED <<position, parent, node, root, ends>>
    BY <1>20 DEF ReachTop
  <2>2. PICK h \in Nat, g \in Nat : /\ h = Height(parent, root) /\ h >= 1
                                    /\ g = Height(parent', node') /\ g < f
    BY <1>11, <1>15, <2>1
  <2>3. EdgeLeft = IF ends = <<>> THEN 3 * f + h ELSE f + h
    BY <1>2, <2>1, <2>2 DEF EdgeLeft
  <2>4. EdgeLeft' = IF ends = <<>> THEN 2 * f + g ELSE g
    BY <1>3, <2>1, <2>2 DEF EdgeLeft
  <2>5. EdgeLeft' < EdgeLeft
    BY <2>2, <2>3, <2>4
  <2> QED
    BY <1>14, <2>1, <2>5
<1>21. CASE Compress
  <2>1. /\ pc = "compress" /\ pc' = "compress" /\ parent[node] # root
        /\ parent' = [parent EXCEPT ![node] = root] /\ node' = parent[node]
        /\ UNCHANGED <<position, root, ends>>
    BY <1>21 DEF Compress
  <2>2. parent[node] # node
    <3>1. node \in Met /\ root \in Met /\ parent[root] = root /\ top[node] = top[root]
      BY <1>1, <2>1 DEF Locals
    <3>2. top[root] = root
      BY <1>1, <3>1 DEF Forest
    <3>3. parent[node] = node => top[node] = node
      BY <1>1, <3>1 DEF Forest
    <3> QED
      BY <2>1, <3>1, <3>2, <3>3
  <2>3. PICK h \in Nat, g \in Nat : h = Height(parent, node) /\ g = Height(parent', node') /\ g < h
    <3>1. parent \in [NodeId -> NodeId \cup {NoNode}]
      BY <1>1 DEF CallType
    <3>2. LET short == [parent EXCEPT ![node] = root]
          IN  /\ Height(short, parent[node]) \in Nat
              /\ Height(short, parent[node]) < Height(parent, node)
      BY <1>17, <1>18, <2>1, <2>2, <3>1, CompressedIs
    <3> QED
      BY <1>16, <2>1, <3>2
  <2>4. EdgeLeft = IF ends = <<>> THEN 2 * f + h ELSE h
    BY <1>2, <2>1, <2>3 DEF EdgeLeft
  <2>5. EdgeLeft' = IF ends = <<>> THEN 2 * f + g ELSE g
    BY <1>3, <2>1, <2>3 DEF EdgeLeft
  <2>6. EdgeLeft' < EdgeLeft
    BY <2>3, <2>4, <2>5
  <2> QED
    BY <1>14, <2>1, <2>6
<1>22. CASE Found
  <2>1. /\ pc = "compress" /\ position' = position /\ ends' = Append(ends, root)
        /\ \/ Len(ends) = 0 /\ Find(At.to)
           \/ Len(ends) = 1 /\ pc' = "unite"
    BY <1>22 DEF Found
  <2>2. ends = <<>> \/ ends = <<top[At.from]>>
    BY <1>1, <2>1 DEF Locals
  <2>3. PICK h \in Nat : h = Height(parent, node) /\ h >= 1
    BY <1>16, <2>1
  <2>4. CASE ends = <<>>
    <3>1. Len(ends) = 0
      BY <2>4
    <3>2. pc' = "climb"
      BY <2>1, <3>1 DEF Find
    <3>3. ends' # <<>>
      <4>1. ends' = <<root>>
        BY <2>1, <2>4
      <4> QED
        BY <4>1
    <3>4. PICK g \in Nat : g = Height(parent', root') /\ g < f
      BY <1>11, <3>2
    <3>5. EdgeLeft = 2 * f + h
      BY <1>2, <2>1, <2>3, <2>4 DEF EdgeLeft
    <3>6. EdgeLeft' = f + g
      BY <1>3, <3>2, <3>3, <3>4 DEF EdgeLeft
    <3>7. EdgeLeft' < EdgeLeft
      BY <3>4, <3>5, <3>6
    <3> QED
      BY <1>14, <2>1, <3>2, <3>7
  <2>5. CASE ends = <<top[At.from]>>
    <3>1. Len(ends) = 1 /\ ends # <<>>
      BY <2>5
    <3>2. pc' = "unite"
      BY <2>1, <3>1
    <3>3. EdgeLeft = h
      BY <2>1, <2>3, <3>1 DEF EdgeLeft
    <3>4. EdgeLeft' = 0
      BY <3>2 DEF EdgeLeft
    <3>5. EdgeLeft' < EdgeLeft
      BY <2>3, <3>3, <3>4
    <3> QED
      BY <1>14, <2>1, <3>2, <3>5
  <2> QED
    BY <2>2, <2>4, <2>5
<1>23. CASE CloseLoop
  <2>1. pc = "unite" /\ pc' = "returned"
    BY <1>23 DEF CloseLoop
  <2>2. EdgeLeft \in Nat
    BY <1>1, EdgeLeftIs
  <2> QED
    BY <1>5, <1>6, <1>9, <2>1, <2>2
<1>24. CASE Unite
  <2>1. pc = "unite" /\ pc' = "edge" /\ position' = position + 1
    BY <1>24 DEF Unite
  <2>2. position <= Len(Edges)
    BY <1>1, <2>1, EdgeLeftIs
  <2>3. EdgesLeft' = e - 1
    BY <1>2, <1>3, <1>4, <2>1, <2>2 DEF EdgesLeft
  <2>4. EdgeLeft \in Nat
    BY <1>1, EdgeLeftIs
  <2> QED
    BY <1>5, <1>6, <1>9, <2>1, <2>3, <2>4
<1>25. CASE NoLoop
  <2>1. pc = "edge" /\ pc' = "returned"
    BY <1>25 DEF NoLoop
  <2>2. e * c \in Nat
    BY OneEdgeLess
  <2> QED
    BY <1>5, <1>6, <2>1, <2>2
<1>26. CASE Returned
  BY <1>26 DEF Returned
<1> QED
  BY <1>12, <1>13, <1>19, <1>20, <1>21, <1>22, <1>23, <1>24, <1>25, <1>26 DEF LoopNext

(* LoopStepsLeft is a number, and every step of closed_graph_has_cycle      *)
(* lessens it: no climb goes round and no compression lengthens another     *)
(* climb, on any snapshot with finitely many nodes.  A call on E edges and  *)
(* N nodes returns within E (4 N + 6) + 1 steps.                            *)
THEOREM EveryStepOfTheLoopDescends ==
  ASSUME \A w \in Networks : IsFiniteSet(CollectNodeIds(w))
  PROVE  HelpersSpec => /\ [](LoopStepsLeft \in Nat)
                        /\ [][pc # "returned" => LoopStepsLeft' < LoopStepsLeft]_vars
<1>1. LoopInv => LoopStepsLeft \in Nat
  <2> SUFFICES ASSUME LoopInv PROVE LoopStepsLeft \in Nat
    OBVIOUS
  <2>1. PICK top, depth : CallType /\ Forest(top, depth) /\ Locals(top)
    BY DEF LoopInv
  <2>2. IsFiniteSet(CollectNodeIds(network))
    BY <2>1 DEF CallType
  <2>3. PICK c \in Nat, e \in Nat, r \in Nat :
          c = 4 * FindCost + 2 /\ e = EdgesLeft /\ r = EdgeLeft
    BY <2>1, <2>2, EdgeLeftIs
  <2>4. CASE pc \in {"edge", "returned"}
    <3>1. e * c \in Nat
      BY OneEdgeLess
    <3> QED
      BY <2>3, <2>4, <3>1 DEF LoopStepsLeft
  <2>5. CASE pc \in {"climb", "compress", "unite"}
    <3>1. e >= 1
      BY <2>1, <2>2, <2>3, <2>5, EdgeLeftIs
    <3>2. PICK k \in Nat : k = e - 1
      BY <3>1
    <3>3. k * c \in Nat
      BY OneEdgeLess
    <3>4. LoopStepsLeft = k * c + 2 + r
      BY <2>3, <2>5, <3>2 DEF LoopStepsLeft
    <3> QED
      BY <3>3, <3>4
  <2> QED
    BY <2>1, <2>4, <2>5 DEF CallType
<1>2. LoopInv /\ [HelpersNext]_<<vars, islandVars>>
        => [pc # "returned" => LoopStepsLeft' < LoopStepsLeft]_vars
  <2> SUFFICES ASSUME LoopInv, [HelpersNext]_<<vars, islandVars>>, pc # "returned", vars' # vars
               PROVE  LoopStepsLeft' < LoopStepsLeft
    OBVIOUS
  <2>1. ~AskForIslands
    BY DEF AskForIslands, loopVars, vars, Islands!Next, Islands!SkipStart, Islands!StartSearch,
           Islands!PopSeen, Islands!Visit, Islands!Close
  <2>2. LoopNext
    BY <2>1 DEF HelpersNext, AskForALoop
  <2>3. IsFiniteSet(CollectNodeIds(network))
    BY DEF LoopInv, CallType
  <2> QED
    BY <2>2, <2>3, LoopDescends
<1> QED
  BY <1>1, <1>2, LoopInvariant, PTL DEF HelpersSpec

-----------------------------------------------------------------------------
(* Sequences as the islands' search uses them.                              *)

(* The elements of a sequence.                                              *)
Items(s) == {s[i] : i \in 1 .. Len(s)}

(* They are those the model speaks of.                                      *)
LEMMA ItemsIs ==
  ASSUME NEW S, NEW s \in Seq(S)
  PROVE  Islands!ToSet(s) = Items(s) /\ Items(s) \subseteq S
BY DEF Islands!ToSet, Items

(* Only the empty sequence has none.                                        *)
LEMMA ItemsEmpty ==
  ASSUME NEW S, NEW s \in Seq(S)
  PROVE  s = <<>> <=> Items(s) = {}
<1>1. Len(s) \in Nat /\ (s = <<>> <=> Len(s) = 0)
  BY EmptySeq
<1>2. Len(s) # 0 => s[1] \in Items(s)
  BY <1>1 DEF Items
<1>3. Len(s) = 0 => 1 .. Len(s) = {}
  BY <1>1
<1>4. Len(s) = 0 => Items(s) = {}
  BY <1>3 DEF Items
<1> QED
  BY <1>1, <1>2, <1>4

(* Appending adds one.                                                      *)
LEMMA ItemsAppend ==
  ASSUME NEW S, NEW s \in Seq(S), NEW e \in S
  PROVE  Append(s, e) \in Seq(S) /\ Items(Append(s, e)) = Items(s) \cup {e}
<1>1. PICK t : t = Append(s, e)
  OBVIOUS
<1>2. /\ t \in Seq(S) /\ Len(s) \in Nat /\ Len(t) = Len(s) + 1
      /\ \A i \in 1 .. Len(s) : t[i] = s[i]
      /\ t[Len(s) + 1] = e
  BY <1>1, AppendProperties, LenProperties
<1>3. 1 .. Len(t) = (1 .. Len(s)) \cup {Len(s) + 1}
  BY <1>2
<1>4. Items(t) = Items(s) \cup {e}
  BY <1>2, <1>3 DEF Items
<1> QED
  BY <1>1, <1>2, <1>4

(* Concatenation unites them.                                               *)
LEMMA ItemsConcat ==
  ASSUME NEW S, NEW s \in Seq(S), NEW t \in Seq(S)
  PROVE  s \o t \in Seq(S) /\ Items(s \o t) = Items(s) \cup Items(t)
<1>1. PICK u : u = s \o t
  OBVIOUS
<1>2. /\ u \in Seq(S) /\ Len(s) \in Nat /\ Len(t) \in Nat /\ Len(u) = Len(s) + Len(t)
      /\ \A i \in 1 .. Len(s) + Len(t) : u[i] = IF i =< Len(s) THEN s[i] ELSE t[i - Len(s)]
  BY <1>1, ConcatProperties, LenProperties
<1>3. \A i \in 1 .. Len(s) : i \in 1 .. Len(u) /\ u[i] = s[i]
  BY <1>2
<1>4. \A i \in 1 .. Len(t) : /\ Len(s) + i \in 1 .. Len(u) /\ ~(Len(s) + i =< Len(s))
                             /\ Len(s) + i - Len(s) = i
  BY <1>2
<1>5. \A i \in 1 .. Len(t) : Len(s) + i \in 1 .. Len(u) /\ u[Len(s) + i] = t[i]
  BY <1>2, <1>4
<1>6. \A i \in 1 .. Len(u) : /\ i \in 1 .. Len(s) \/ i - Len(s) \in 1 .. Len(t)
                             /\ u[i] = s[i] \/ i - Len(s) \in 1 .. Len(t)
                             /\ i \in 1 .. Len(s) \/ u[i] = t[i - Len(s)]
  BY <1>2
<1>7. Items(s) \subseteq Items(u) /\ Items(t) \subseteq Items(u)
  BY <1>3, <1>5 DEF Items
<1>8. Items(u) \subseteq Items(s) \cup Items(t)
  BY <1>6 DEF Items
<1> QED
  BY <1>1, <1>2, <1>7, <1>8

(* The last element and those in front of it are all.                       *)
LEMMA ItemsFront ==
  ASSUME NEW S, NEW s \in Seq(S), s # <<>>
  PROVE  /\ Islands!Front(s) \in Seq(S) /\ Islands!Last(s) \in S
         /\ Items(s) = Items(Islands!Front(s)) \cup {Islands!Last(s)}
<1>1. Len(s) \in Nat /\ Len(s) > 0
  BY EmptySeq
<1>2. PICK t, e : t = SubSeq(s, 1, Len(s) - 1) /\ e = s[Len(s)]
  OBVIOUS
<1>3. \A i \in 1 .. Len(s) : s[i] \in S
  BY ElementOfSeq
<1>4. /\ t \in Seq(S) /\ Len(t) = Len(s) - 1
      /\ \A i \in 1 .. Len(s) - 1 : t[i] = s[i]
  <2>1. PICK m : m = Len(s) - 1
    OBVIOUS
  <2>2. m \in Nat /\ 1 \in Int /\ m \in Int /\ \A i \in 1 .. m : s[i] \in S
    BY <1>1, <1>3, <2>1
  <2>3. /\ t \in Seq(S) /\ Len(t) = IF 1 =< m THEN m - 1 + 1 ELSE 0
        /\ \A i \in 1 .. m - 1 + 1 : t[i] = s[1 + i - 1]
    BY <1>2, <2>1, <2>2, SubSeqProperties
  <2>4. m - 1 + 1 = m /\ \A i \in 1 .. m : 1 + i - 1 = i
    BY <2>2
  <2>5. Len(t) = m
    BY <2>2, <2>3
  <2> QED
    BY <2>1, <2>3, <2>4, <2>5
<1>5. e \in S
  BY <1>1, <1>2, <1>3
<1>6. 1 .. Len(s) = (1 .. Len(t)) \cup {Len(s)}
  BY <1>1, <1>4
<1>7. Items(s) = Items(t) \cup {e}
  BY <1>2, <1>4, <1>6 DEF Items
<1> QED
  BY <1>2, <1>4, <1>5, <1>7 DEF Islands!Front, Islands!Last

\* A listing of a finite set holds all of it.
LEMMA ListingIsAll ==
  ASSUME NEW S, IsFiniteSet(S), NEW s \in Islands!SetToSeqs(S)
  PROVE  s \in Seq(S) /\ Items(s) = S
<1>1. PICK c : c = Cardinality(S)
  OBVIOUS
<1>2. c \in Nat
  BY <1>1, FS_CardinalityType
<1>3. Islands!Cardinality(S) = c
  <2>1. Islands!Cardinality(S) = Cardinality(S)
    BY DEF Islands!Cardinality, Cardinality
  <2> QED
    BY <1>1, <2>1
<1>4. s \in [1 .. c -> S] /\ \A i, j \in 1 .. c : i # j => s[i] # s[j]
  BY <1>3 DEF Islands!SetToSeqs
<1>5. s \in Seq(S) /\ Len(s) = c
  BY <1>2, <1>4
<1>6. s \in Injection(1 .. c, S)
  BY <1>4 DEF Injection, IsInjective
<1>7. Cardinality(1 .. c) = c
  BY <1>2, FS_Interval
<1>8. s \in Surjection(1 .. c, S)
  BY <1>1, <1>6, <1>7, FS_Injection
<1>9. \A x \in S : \E i \in 1 .. c : s[i] = x
  BY <1>8 DEF Surjection
<1> QED
  BY <1>4, <1>5, <1>9 DEF Items

\* A finite set of integers has a least one.
LEMMA MinIsIn ==
  ASSUME NEW S \in SUBSET Int, IsFiniteSet(S), S # {}
  PROVE  Islands!Min(S) \in S
<1>1. PICK N \in Nat : ExistsSurjection(1 .. N, S)
  BY FS_NatSurjection
<1>2. PICK f : f \in Surjection(1 .. N, S)
  BY <1>1 DEF ExistsSurjection
<1>3. f \in [1 .. N -> S] /\ \A x \in S : \E i \in 1 .. N : f[i] = x
  BY <1>2 DEF Surjection
<1>4. \A i \in 1 .. N : f[i] \in S /\ f[i] \in Int
  BY <1>3
<1>5. PICK K : K = {k \in Nat : /\ 1 =< k /\ k =< N
                               /\ ~\E i \in 1 .. k : \A j \in 1 .. k : f[i] =< f[j]}
  OBVIOUS
<1>6. K = {}
  <2> SUFFICES ASSUME K # {}
               PROVE  FALSE
    OBVIOUS
  <2>1. PICK k \in K : \A m \in K : k =< m
    BY <1>5, LeastExists
  <2>2. /\ k \in Nat /\ 1 =< k /\ k =< N
        /\ ~\E i \in 1 .. k : \A j \in 1 .. k : f[i] =< f[j]
    BY <1>5, <2>1
  <2>3. k # 1
    BY <1>4, <2>2
  <2>4. PICK h : h = k - 1
    OBVIOUS
  <2>5. h \in Nat /\ 1 =< h /\ h =< N /\ h \notin K /\ 1 .. k = (1 .. h) \cup {k}
    BY <2>1, <2>2, <2>3, <2>4
  <2>6. PICK i \in 1 .. h : \A j \in 1 .. h : f[i] =< f[j]
    BY <1>5, <2>5
  <2>7. i \in 1 .. k /\ i \in 1 .. N /\ k \in 1 .. N /\ k \in 1 .. k
    <3>1. N \in Nat /\ i \in Nat /\ 1 =< i /\ i =< h /\ h =< k
      BY <2>2, <2>4, <2>6
    <3> QED
      BY <2>2, <2>5, <3>1
  <2>8. f[i] \in Int /\ f[k] \in Int /\ \A j \in 1 .. h : f[j] \in Int
    BY <1>1, <1>4, <2>5, <2>7
  <2>9. CASE f[i] =< f[k]
    BY <2>2, <2>5, <2>6, <2>7, <2>9
  <2>10. CASE ~(f[i] =< f[k])
    <3>1. \A j \in 1 .. h : f[k] =< f[j]
      BY <2>6, <2>8, <2>10
    <3>2. f[k] =< f[k]
      BY <2>8
    <3> QED
      BY <2>2, <2>5, <2>7, <3>1, <3>2
  <2> QED
    BY <2>9, <2>10
<1>7. N \in Nat /\ 1 =< N
  <2>1. PICK x \in S : TRUE
    OBVIOUS
  <2> QED
    BY <1>1, <1>3, <2>1
<1>8. PICK i \in 1 .. N : \A j \in 1 .. N : f[i] =< f[j]
  BY <1>5, <1>6, <1>7
<1>9. \E x \in S : \A y \in S : x =< y
  BY <1>3, <1>4, <1>8
<1> QED
  BY <1>9 DEF Islands!Min

-----------------------------------------------------------------------------
(* The low-voltage part of a snapshot, as a network of its own.             *)

(* The edges between low-voltage nodes.                                     *)
Inside(w) ==
  {i \in DOMAIN w.edges : {w.edges[i].from, w.edges[i].to} \subseteq w.lv}

(* The low-voltage nodes of w and the edges between them.                   *)
LvPart(w) ==
  [nodes |-> w.lv, sources |-> {}, edges |-> [i \in Inside(w) |-> w.edges[i]]]

(* What closed low-voltage edges join to n.                                 *)
BondedIn(w, n) == Reach(LvPart(w), Definite, n)

(* The neighbours of n over one closed low-voltage edge.                    *)
NextTo(w, n) ==
  {m \in w.lv : \E i \in Inside(w) :
     w.edges[i].sw \in Definite /\ {w.edges[i].from, w.edges[i].to} = {m, n}}

(* The same, in the words of the model.                                     *)
LEMMA SearchIsOf ==
  ASSUME NEW n
  PROVE  /\ Islands!Bonded(n) = BondedIn(network, n)
         /\ Islands!Adjacent(n) = NextTo(network, n)
<1>1. \A w, C : Islands!Reach(w, C, n) = Reach(w, C, n)
  BY DEF Islands!Reach, Reach, Islands!Sealed, Sealed, Islands!CollectNodeIds, CollectNodeIds
<1>2. Islands!Definite = Definite
  BY DEF Islands!Definite, Definite
<1>3. Islands!Bonded(n) = BondedIn(network, n)
  BY <1>1, <1>2 DEF Islands!Bonded, BondedIn, LvPart, Inside
<1>4. Islands!Adjacent(n) = NextTo(network, n)
  BY <1>2 DEF Islands!Adjacent, NextTo, Inside
<1> QED
  BY <1>3, <1>4

(* The low-voltage part is a network, and finite.                           *)
LEMMA LvPartIs ==
  ASSUME NEW w \in Networks
  PROVE  /\ IsNetwork(LvPart(w)) /\ CollectNodeIds(LvPart(w)) = w.lv
         /\ DOMAIN LvPart(w).edges = Inside(w)
         /\ \A i \in Inside(w) : LvPart(w).edges[i] = w.edges[i]
         /\ w.lv \subseteq NodeId /\ IsFiniteSet(w.lv)
<1>1. PICK r : r = LvPart(w)
  OBVIOUS
<1>2. /\ r.nodes = w.lv /\ r.sources = {} /\ DOMAIN r.edges = Inside(w)
      /\ \A i \in Inside(w) : r.edges[i] = w.edges[i]
  BY <1>1 DEF LvPart
<1>3. /\ IsNetwork(w) /\ w.lv \subseteq w.nodes /\ IsFiniteSet(w.lv)
  BY SnapshotsAssumption, VoltagesAssumption
<1>4. w.lv \subseteq NodeId
  BY <1>3 DEF IsNetwork
<1>5. IsNetwork(r)
  BY <1>2, <1>3, <1>4 DEF IsNetwork, Inside
<1>6. CollectNodeIds(r) = w.lv
  <2>1. \A n : n \in CollectNodeIds(r) => n \in w.lv
    BY <1>2 DEF CollectNodeIds, Inside
  <2>2. \A n : n \in w.lv => n \in CollectNodeIds(r)
    BY <1>2, <1>4 DEF CollectNodeIds
  <2> QED
    BY <2>1, <2>2
<1> QED
  BY <1>1, <1>2, <1>3, <1>4, <1>5, <1>6

(* Being bonded is an equivalence, and the least one that holds between     *)
(* neighbours.                                                              *)
LEMMA BondedFacts ==
  ASSUME NEW w \in Networks
  PROVE  /\ \A n : BondedIn(w, n) \subseteq w.lv /\ NextTo(w, n) \subseteq w.lv
         /\ \A n \in w.lv : n \in BondedIn(w, n)
         /\ \A m, n \in w.lv : m \in BondedIn(w, n) => n \in BondedIn(w, m)
         /\ \A m, n, k \in w.lv :
              m \in BondedIn(w, n) /\ n \in BondedIn(w, k) => m \in BondedIn(w, k)
         /\ \A m, n \in w.lv :
              m \in NextTo(w, n) => n \in NextTo(w, m) /\ m \in BondedIn(w, n)
         /\ \A X \in SUBSET w.lv :
              (\A x \in X : NextTo(w, x) \subseteq X)
                => \A n \in X : BondedIn(w, n) \subseteq X
<1>1. PICK r : r = LvPart(w)
  OBVIOUS
<1>2. /\ IsNetwork(r) /\ CollectNodeIds(r) = w.lv /\ DOMAIN r.edges = Inside(w)
      /\ \A i \in Inside(w) : r.edges[i] = w.edges[i]
  BY <1>1, LvPartIs
<1>3. \A n : Reach(r, Definite, n) \subseteq w.lv /\ NextTo(w, n) \subseteq w.lv
  BY <1>2 DEF Reach, NextTo
<1>4. \A n \in w.lv : n \in Reach(r, Definite, n)
  BY <1>2, ReachStart
<1>5. \A m, n \in w.lv : m \in Reach(r, Definite, n) => n \in Reach(r, Definite, m)
  BY <1>2, ReachSymmetric
<1>6. \A m, n, k \in w.lv :
        m \in Reach(r, Definite, n) /\ n \in Reach(r, Definite, k)
          => m \in Reach(r, Definite, k)
  BY DEF Reach
<1>7. ASSUME NEW m \in w.lv, NEW n \in w.lv, m \in NextTo(w, n)
      PROVE  n \in NextTo(w, m) /\ m \in Reach(r, Definite, n)
  <2>1. PICK i \in Inside(w) : /\ w.edges[i].sw \in Definite
                               /\ {w.edges[i].from, w.edges[i].to} = {m, n}
    BY <1>7 DEF NextTo
  <2>2. n \in NextTo(w, m)
    BY <2>1 DEF NextTo
  <2>3. \/ w.edges[i].from = n /\ w.edges[i].to = m
        \/ w.edges[i].from = m /\ w.edges[i].to = n
    BY <2>1
  <2>4. n \in Reach(r, Definite, n)
    BY <1>4
  <2>5. m \in Reach(r, Definite, n)
    BY <1>2, <2>1, <2>3, <2>4, ReachStep
  <2> QED
    BY <2>2, <2>5
<1>8. ASSUME NEW X \in SUBSET w.lv, \A x \in X : NextTo(w, x) \subseteq X, NEW n \in X
      PROVE  Reach(r, Definite, n) \subseteq X
  <2>1. ASSUME NEW i \in Inside(w), w.edges[i].sw \in Definite
        PROVE  w.edges[i].from \in X <=> w.edges[i].to \in X
    <3>1. PICK a, b : a = w.edges[i].from /\ b = w.edges[i].to
      OBVIOUS
    <3>2. a \in w.lv /\ b \in w.lv
      BY <3>1 DEF Inside
    <3>3. {a, b} = {b, a}
      OBVIOUS
    <3>4. a \in NextTo(w, b) /\ b \in NextTo(w, a)
      BY <2>1, <3>1, <3>2, <3>3 DEF NextTo
    <3> QED
      BY <1>8, <3>1, <3>4
  <2>2. Sealed(r, Definite, X)
    BY <1>2, <2>1 DEF Sealed
  <2> QED
    BY <1>2, <2>2 DEF Reach
<1> QED
  BY <1>1, <1>3, <1>4, <1>5, <1>6, <1>7, <1>8 DEF BondedIn

-----------------------------------------------------------------------------
(* Why the search finds the islands.                                        *)

(* All of X is one piece.                                                   *)
Together(w, X) == \A m, n \in X : m \in BondedIn(w, n)

(* No neighbour of X lies outside it.                                       *)
Enclosed(w, X) == \A n \in X : NextTo(w, n) \subseteq X

\* What has been found is whole and kept apart from what is being searched; the
\* search has on its stack all that its component still lacks; and no
\* low-voltage node is lost.
SearchInv(w) ==
  /\ network = w
  /\ starts \subseteq w.lv /\ component \subseteq w.lv
  /\ stack \in Seq(w.lv) /\ components \in Seq(SUBSET w.lv)
  /\ seen = component \cup UNION Items(components)
  /\ \A n \in component \cup Items(stack) : n \notin UNION Items(components)
  /\ \A n \in w.lv : n \in starts \/ n \in seen \/ n \in Items(stack)
  /\ Together(w, component \cup Items(stack))
  /\ \A n \in component : NextTo(w, n) \subseteq component \cup Items(stack)
  /\ \A c \in Items(components) : Together(w, c) /\ Enclosed(w, c)

(* The inductive invariant of the search.                                   *)
IslandInv == \E w \in Networks : SearchInv(w)

(* A piece with neighbours of a node of it is a piece.                      *)
LEMMA TogetherMore ==
  ASSUME NEW w \in Networks, NEW X \in SUBSET w.lv, Together(w, X), NEW n \in X,
         NEW A \in SUBSET NextTo(w, n)
  PROVE  Together(w, X \cup A)
<1>1. \A a \in X \cup A : a \in w.lv /\ a \in BondedIn(w, n) /\ n \in BondedIn(w, a)
  <2>1. \A a \in A : a \in w.lv /\ a \in BondedIn(w, n) /\ n \in BondedIn(w, a)
    <3>1. n \in w.lv /\ \A a \in A : a \in w.lv /\ a \in NextTo(w, n)
      BY BondedFacts
    <3> QED
      BY <3>1, BondedFacts
  <2> QED
    BY <2>1 DEF Together
<1>2. ASSUME NEW a \in X \cup A, NEW b \in X \cup A
      PROVE  a \in BondedIn(w, b)
  BY <1>1, BondedFacts
<1> QED
  BY <1>2 DEF Together

(* Every step of the search keeps the invariant.                            *)
LEMMA SearchStep ==
  ASSUME NEW w \in Networks, SearchInv(w), Islands!Next
  PROVE  SearchInv(w)'
<1>1. /\ network = w /\ starts \subseteq w.lv /\ component \subseteq w.lv
      /\ stack \in Seq(w.lv) /\ components \in Seq(SUBSET w.lv)
      /\ seen = component \cup UNION Items(components)
      /\ \A n \in component \cup Items(stack) : n \notin UNION Items(components)
      /\ \A n \in w.lv : n \in starts \/ n \in seen \/ n \in Items(stack)
      /\ Together(w, component \cup Items(stack))
      /\ \A n \in component : NextTo(w, n) \subseteq component \cup Items(stack)
      /\ \A c \in Items(components) : Together(w, c) /\ Enclosed(w, c)
  BY DEF SearchInv
<1>2. w.lv \subseteq Int /\ IsFiniteSet(w.lv)
  BY LvPartIs, NodeIdAssumption
<1>3. Items(stack) \subseteq w.lv /\ \A c \in Items(components) : c \subseteq w.lv
  BY <1>1, ItemsIs
<1>4. starts # {} => Islands!Min(starts) \in starts
  <2>1. starts \in SUBSET w.lv /\ IsFiniteSet(starts)
    BY <1>1, <1>2, FS_Subset
  <2> QED
    BY <1>2, <2>1, MinIsIn
<1>5. CASE Islands!SkipStart
  <2>1. PICK k : k = Islands!Min(starts)
    OBVIOUS
  <2>2. /\ k \in starts /\ k \in seen /\ starts' = starts \ {k}
        /\ UNCHANGED <<network, seen, stack, component, components>>
    BY <1>4, <1>5, <2>1 DEF Islands!SkipStart
  <2>3. /\ starts' \subseteq w.lv
        /\ \A n \in w.lv : n \in starts' \/ n \in seen \/ n \in Items(stack)
    BY <1>1, <2>2
  <2> QED
    BY <1>1, <2>2, <2>3 DEF SearchInv
<1>6. CASE Islands!StartSearch
  <2>1. PICK k : k = Islands!Min(starts)
    OBVIOUS
  <2>2. /\ k \in starts /\ k \notin seen /\ starts' = starts \ {k} /\ stack' = <<k>>
        /\ stack = <<>> /\ component = {}
        /\ UNCHANGED <<network, seen, component, components>>
    BY <1>4, <1>6, <2>1 DEF Islands!StartSearch, Islands!Searching
  <2>3. k \in w.lv /\ stack' \in Seq(w.lv) /\ Items(stack') = {k} /\ Items(stack) = {}
    <3>1. k \in w.lv
      BY <1>1, <2>2
    <3>2. <<k>> \in Seq(w.lv) /\ Items(<<k>>) = {k}
      <4>1. <<k>> \in Seq(w.lv)
        <5>1. <<k>> \in Seq({k}) /\ {k} \subseteq w.lv
          BY <3>1
        <5> QED
          BY <5>1, SeqMonotonic
      <4>2. Len(<<k>>) = 1 /\ <<k>>[1] = k
        OBVIOUS
      <4>3. 1 .. 1 = {1}
        OBVIOUS
      <4>4. Items(<<k>>) = {<<k>>[i] : i \in {1}}
        BY <4>2, <4>3 DEF Items
      <4> QED
        BY <4>1, <4>2, <4>4
    <3>3. Items(stack) = {}
      BY <1>1, <2>2, ItemsEmpty
    <3> QED
      BY <2>2, <3>1, <3>2, <3>3
  <2>4. component \cup Items(stack') = {k}
    BY <2>2, <2>3
  <2>5. Together(w, component \cup Items(stack'))
    BY <2>3, <2>4, BondedFacts DEF Together
  <2>6. \A n \in component \cup Items(stack') : n \notin UNION Items(components)
    BY <1>1, <2>2, <2>4
  <2>7. /\ starts' \subseteq w.lv
        /\ \A n \in w.lv : n \in starts' \/ n \in seen \/ n \in Items(stack')
    BY <1>1, <2>2, <2>3
  <2> QED
    BY <1>1, <2>2, <2>3, <2>5, <2>6, <2>7 DEF SearchInv
<1>7. CASE Islands!PopSeen
  <2>1. PICK k, f : k = Islands!Last(stack) /\ f = Islands!Front(stack)
    OBVIOUS
  <2>2. /\ stack # <<>> /\ k \in seen /\ stack' = f
        /\ UNCHANGED <<network, starts, seen, component, components>>
    BY <1>7, <2>1 DEF Islands!PopSeen
  <2>3. f \in Seq(w.lv) /\ Items(stack) = Items(f) \cup {k}
    BY <1>1, <2>1, <2>2, ItemsFront
  <2>4. k \in component
    BY <1>1, <2>2, <2>3
  <2>5. component \cup Items(f) = component \cup Items(stack)
    BY <2>3, <2>4
  <2>6. \A n \in w.lv : n \in starts \/ n \in seen \/ n \in Items(f)
    BY <1>1, <2>2, <2>3
  <2> QED
    BY <1>1, <2>2, <2>3, <2>5, <2>6 DEF SearchInv
<1>8. CASE Islands!Visit
  <2>1. PICK k, f, A : /\ k = Islands!Last(stack) /\ f = Islands!Front(stack)
                       /\ A = NextTo(w, k) \ (seen \cup {k})
    OBVIOUS
  <2>2. PICK pushed \in Islands!SetToSeqs(A) :
          /\ stack # <<>> /\ k \notin seen /\ seen' = seen \cup {k}
          /\ component' = component \cup {k} /\ stack' = f \o pushed
          /\ UNCHANGED <<network, starts, components>>
    <3>1. Islands!Adjacent(k) = NextTo(w, k)
      BY <1>1, SearchIsOf
    <3> QED
      BY <1>8, <2>1, <3>1 DEF Islands!Visit
  <2>3. /\ f \in Seq(w.lv) /\ k \in w.lv /\ Items(stack) = Items(f) \cup {k}
    BY <1>1, <2>1, <2>2, ItemsFront
  <2>4. pushed \in Seq(w.lv) /\ Items(pushed) = A /\ A \subseteq w.lv
    <3>1. A \in SUBSET w.lv
      BY <2>1, BondedFacts
    <3>2. IsFiniteSet(A)
      BY <1>2, <3>1, FS_Subset
    <3>3. pushed \in Seq(A) /\ Items(pushed) = A
      BY <2>2, <3>2, ListingIsAll
    <3> QED
      BY <3>1, <3>3, SeqMonotonic
  <2>5. stack' \in Seq(w.lv) /\ Items(stack') = Items(f) \cup A
    BY <2>2, <2>3, <2>4, ItemsConcat
  <2>6. PICK X, Y : X = component \cup Items(stack) /\ Y = component' \cup Items(stack')
    OBVIOUS
  <2>7. Y = X \cup A /\ k \in X /\ X \subseteq w.lv
    BY <1>1, <1>3, <2>2, <2>3, <2>5, <2>6
  <2>8. Together(w, Y)
    <3>1. A \in SUBSET NextTo(w, k) /\ Together(w, X)
      BY <1>1, <2>1, <2>6
    <3> QED
      BY <2>7, <3>1, TogetherMore
  <2>9. \A n \in Y : n \notin UNION Items(components)
    <3>1. \A n \in A : n \notin UNION Items(components)
      BY <1>1, <2>1
    <3> QED
      BY <1>1, <2>6, <2>7, <3>1
  <2>10. NextTo(w, k) \subseteq Y
    <3> SUFFICES ASSUME NEW n \in NextTo(w, k), n \notin A
                 PROVE  n \in Y
      BY <2>7
    <3>1. n \in seen \/ n = k
      BY <2>1
    <3>2. CASE n \in UNION Items(components)
      <4>1. PICK c \in Items(components) : n \in c
        BY <3>2
      <4>2. n \in w.lv /\ k \in NextTo(w, n)
        BY <2>3, BondedFacts
      <4>3. k \in c
        BY <1>1, <4>1, <4>2 DEF Enclosed
      <4> QED
        BY <1>1, <2>6, <2>7, <4>1, <4>3
    <3>3. CASE n \notin UNION Items(components)
      BY <1>1, <2>6, <2>7, <3>1, <3>3
    <3> QED
      BY <3>2, <3>3
  <2>11. \A n \in component' : NextTo(w, n) \subseteq Y
    BY <1>1, <2>2, <2>6, <2>7, <2>10
  <2>12. /\ component' \subseteq w.lv /\ seen' = component' \cup UNION Items(components)
         /\ \A n \in w.lv : n \in starts \/ n \in seen' \/ n \in Items(stack')
    BY <1>1, <2>2, <2>3, <2>5
  <2> QED
    BY <1>1, <2>2, <2>5, <2>6, <2>8, <2>9, <2>11, <2>12 DEF SearchInv
<1>9. CASE Islands!Close
  <2>1. /\ stack = <<>> /\ components' = Append(components, component) /\ component' = {}
        /\ UNCHANGED <<network, starts, seen, stack>>
    BY <1>9 DEF Islands!Close
  <2>2. Items(stack) = {}
    BY <1>1, <2>1, ItemsEmpty
  <2>3. /\ components' \in Seq(SUBSET w.lv)
        /\ Items(components') = Items(components) \cup {component}
    BY <1>1, <2>1, ItemsAppend
  <2>4. Together(w, component) /\ Enclosed(w, component)
    BY <1>1, <2>2 DEF Enclosed
  <2>5. \A c \in Items(components') : Together(w, c) /\ Enclosed(w, c)
    BY <1>1, <2>3, <2>4
  <2>6. seen' = component' \cup UNION Items(components')
    BY <1>1, <2>1, <2>3
  <2>7. component' \cup Items(stack) = {}
    BY <2>1, <2>2
  <2>8. Together(w, component' \cup Items(stack))
    BY <2>7 DEF Together
  <2> QED
    BY <1>1, <2>1, <2>2, <2>3, <2>5, <2>6, <2>7, <2>8 DEF SearchInv
<1> QED
  BY <1>5, <1>6, <1>7, <1>8, <1>9 DEF Islands!Next

(* At the start nothing is found and nothing lost.                          *)
LEMMA SearchStart ==
  ASSUME Islands!Init
  PROVE  IslandInv
<1>1. PICK w \in Networks : network = w
  BY DEF Islands!Init
<1>2. /\ starts = w.lv /\ seen = {} /\ stack = <<>> /\ component = {} /\ components = <<>>
  BY <1>1 DEF Islands!Init
<1>3. stack \in Seq(w.lv) /\ components \in Seq(SUBSET w.lv)
  BY <1>2
<1>4. Items(stack) = {} /\ Items(components) = {}
  BY <1>2, <1>3, ItemsEmpty
<1>5. SearchInv(w)
  BY <1>1, <1>2, <1>3, <1>4 DEF SearchInv, Together
<1> QED
  BY <1>5 DEF IslandInv

\* When the search is done, each component is what its members are bonded to.
LEMMA SearchEnds ==
  ASSUME IslandInv
  PROVE  Islands!IslandsAreLvOnly
<1> SUFFICES ASSUME Islands!Done
             PROVE  /\ \A a, b \in Islands!BusIds :
                         (\E island \in Islands!Islands : {a, b} \subseteq island)
                           <=> b \in Islands!Bonded(a)
                    /\ UNION Islands!Islands = Islands!BusIds
                    /\ \A n \in network.nodes :
                         Islands!IslandOf(n) =
                           IF n \in network.lv THEN Islands!Bonded(n) ELSE {}
  BY DEF Islands!IslandsAreLvOnly
<1>1. PICK w \in Networks : SearchInv(w)
  BY DEF IslandInv
<1>2. PICK cs : cs = Items(components)
  OBVIOUS
<1>3. /\ network = w /\ \A c \in cs : c \subseteq w.lv /\ Together(w, c) /\ Enclosed(w, c)
      /\ Islands!ToSet(components) = cs
  <2>1. components \in Seq(SUBSET w.lv)
    BY <1>1 DEF SearchInv
  <2>2. cs \subseteq SUBSET w.lv /\ Islands!ToSet(components) = cs
    BY <1>2, <2>1, ItemsIs
  <2> QED
    BY <1>1, <1>2, <2>2 DEF SearchInv
<1>4. \A n \in w.lv : \E c \in cs : n \in c
  <2>1. stack = <<>> /\ component = {} /\ starts = {}
    BY DEF Islands!Done, Islands!Searching
  <2>2. Items(stack) = {}
    BY <1>1, <2>1, ItemsEmpty DEF SearchInv
  <2> QED
    BY <1>1, <1>2, <2>1, <2>2 DEF SearchInv
<1>5. \A c \in cs : \A n \in c : c = BondedIn(w, n)
  <2> SUFFICES ASSUME NEW c \in cs, NEW n \in c
               PROVE  c = BondedIn(w, n)
    OBVIOUS
  <2>1. c \in SUBSET w.lv /\ \A x \in c : NextTo(w, x) \subseteq c
    BY <1>3 DEF Enclosed
  <2>2. BondedIn(w, n) \subseteq c
    BY <2>1, BondedFacts
  <2>3. c \subseteq BondedIn(w, n)
    BY <1>3 DEF Together
  <2> QED
    BY <2>2, <2>3
<1>6. \A n : Islands!Bonded(n) = BondedIn(w, n)
  BY <1>3, SearchIsOf
<1>7. PICK B, I : B = Islands!BusIds /\ I = Islands!Islands
  OBVIOUS
<1>8. B \subseteq w.lv /\ I = {c \cap B : c \in cs} \ {{}}
  BY <1>3, <1>7 DEF Islands!BusIds, Islands!Islands
<1>9. ASSUME NEW a \in B, NEW b \in B
      PROVE  (\E island \in I : {a, b} \subseteq island) <=> b \in BondedIn(w, a)
  <2>1. ASSUME NEW island \in I, a \in island, b \in island
        PROVE  b \in BondedIn(w, a)
    BY <1>5, <1>8, <2>1
  <2>2. ASSUME b \in BondedIn(w, a)
        PROVE  \E island \in I : a \in island /\ b \in island
    <3>1. PICK c \in cs : a \in c
      BY <1>4, <1>8
    <3>2. b \in c
      BY <1>5, <2>2, <3>1
    <3>3. a \in c \cap B /\ b \in c \cap B
      BY <3>1, <3>2
    <3>4. c \cap B \in I
      BY <1>8, <3>3
    <3> QED
      BY <3>3, <3>4
  <2> QED
    BY <2>1, <2>2
<1>10. UNION I = B
  <2>1. \A a \in B : \E c \in cs : a \in c \cap B
    BY <1>4, <1>8
  <2>2. \A a \in B : a \in UNION I
    BY <1>8, <2>1
  <2>3. UNION I \subseteq B
    BY <1>8
  <2> QED
    BY <2>2, <2>3
<1>11. ASSUME NEW n
       PROVE  UNION {c \in cs : n \in c} = IF n \in w.lv THEN BondedIn(w, n) ELSE {}
  <2>1. CASE n \in w.lv
    <3>1. PICK d \in cs : n \in d
      BY <1>4, <2>1
    <3>2. {c \in cs : n \in c} = {BondedIn(w, n)}
      BY <1>5, <3>1
    <3> QED
      BY <2>1, <3>2
  <2>2. CASE n \notin w.lv
    <3>1. {c \in cs : n \in c} = {}
      BY <1>3, <2>2
    <3> QED
      BY <2>2, <3>1
  <2> QED
    BY <2>1, <2>2
<1>12. \A n : Islands!IslandOf(n) = UNION {c \in cs : n \in c}
  BY <1>3 DEF Islands!IslandOf
<1>13. \A a, b \in Islands!BusIds :
         (\E island \in Islands!Islands : {a, b} \subseteq island)
           <=> b \in Islands!Bonded(a)
  BY <1>6, <1>7, <1>9
<1>14. \A n : Islands!IslandOf(n) = IF n \in w.lv THEN Islands!Bonded(n) ELSE {}
  BY <1>6, <1>11, <1>12
<1> QED
  BY <1>3, <1>7, <1>10, <1>13, <1>14

\* The search's invariant holds throughout both analyses.
THEOREM IslandInvariant == HelpersSpec => []IslandInv
<1>1. HelpersInit => IslandInv
  BY SearchStart DEF HelpersInit
<1>2. IslandInv /\ [HelpersNext]_<<vars, islandVars>> => IslandInv'
  <2> SUFFICES ASSUME NEW w \in Networks, SearchInv(w), [HelpersNext]_<<vars, islandVars>>
               PROVE  SearchInv(w)'
    BY DEF IslandInv
  <2>1. CASE AskForIslands
    BY <2>1, SearchStep DEF AskForIslands
  <2>2. ASSUME UNCHANGED <<network, islandVars>>
        PROVE  SearchInv(w)'
    BY <2>2 DEF SearchInv, islandVars
  <2>3. CASE AskForALoop
    <3>1. UNCHANGED network
      BY <2>3 DEF AskForALoop, LoopNext, SkipEdge, TakeEdge, Climb, ReachTop, Compress,
                  Found, CloseLoop, Unite, NoLoop, Returned, vars
    <3> QED
      BY <2>2, <2>3, <3>1 DEF AskForALoop
  <2>4. CASE UNCHANGED <<vars, islandVars>>
    BY <2>2, <2>4 DEF vars
  <2> QED
    BY <2>1, <2>3, <2>4 DEF HelpersNext
<1> QED
  BY <1>1, <1>2, PTL DEF HelpersSpec

\* lv_islands and lv_island_of, on every snapshot and whatever the order in which
\* neighbours are pushed: two switchgear buses share an island exactly when closed
\* low-voltage switches alone join them.
THEOREM IslandsAreLvOnlyAlways == HelpersSpec => []IslandsAreLvOnly
<1>1. IslandInv => IslandsAreLvOnly
  BY SearchEnds DEF IslandsAreLvOnly
<1> QED
  BY <1>1, IslandInvariant, PTL

-----------------------------------------------------------------------------
(* The islands' search ends, though its stack may hold a node many times.   *)

(* A node is pushed by its neighbours only, and each pushes it once.        *)
VisitCost == Cardinality(network.lv) + 1

(* Whether a component is still to be closed.                               *)
OpenComponents == IF component = {} THEN 0 ELSE 1

(* The steps the search has left, at the most.                              *)
IslandStepsLeft ==
  Cardinality(network.lv \ seen) * VisitCost
    + 2 * Cardinality(starts) + Len(stack) + OpenComponents

(* Popping shortens a stack by one.                                         *)
LEMMA FrontLength ==
  ASSUME NEW S, NEW s \in Seq(S), s # <<>>
  PROVE  Len(s) \in Nat /\ Len(s) >= 1 /\ Len(Islands!Front(s)) = Len(s) - 1
<1>1. Len(s) \in Nat /\ Len(s) > 0
  BY EmptySeq
<1>2. PICK m : m = Len(s) - 1
  OBVIOUS
<1>3. m \in Nat /\ 1 \in Int /\ m \in Int
  BY <1>1, <1>2
<1>4. \A i \in 1 .. m : s[i] \in S
  BY <1>1, <1>2, ElementOfSeq
<1>5. Len(SubSeq(s, 1, m)) = IF 1 =< m THEN m - 1 + 1 ELSE 0
  BY <1>3, <1>4, SubSeqProperties
<1>6. Len(SubSeq(s, 1, m)) = m
  BY <1>3, <1>5
<1> QED
  BY <1>1, <1>2, <1>6 DEF Islands!Front

(* A listing of a finite set is as long as the set is large.                *)
LEMMA ListingLength ==
  ASSUME NEW S, IsFiniteSet(S), NEW s \in Islands!SetToSeqs(S)
  PROVE  Len(s) = Cardinality(S) /\ Cardinality(S) \in Nat
<1>1. PICK c : c = Cardinality(S)
  OBVIOUS
<1>2. c \in Nat
  BY <1>1, FS_CardinalityType
<1>3. Islands!Cardinality(S) = c
  <2>1. Islands!Cardinality(S) = Cardinality(S)
    BY DEF Islands!Cardinality, Cardinality
  <2> QED
    BY <1>1, <2>1
<1>4. s \in [1 .. c -> S]
  BY <1>3 DEF Islands!SetToSeqs
<1>5. Len(s) = c
  BY <1>2, <1>4
<1> QED
  BY <1>1, <1>2, <1>5

(* What the measure is made of is a number.                                 *)
LEMMA IslandCountsAre ==
  ASSUME IslandInv
  PROVE  /\ network \in Networks /\ IsFiniteSet(network.lv)
         /\ Cardinality(network.lv) \in Nat /\ VisitCost \in Nat
         /\ IsFiniteSet(network.lv \ seen) /\ Cardinality(network.lv \ seen) \in Nat
         /\ IsFiniteSet(starts) /\ Cardinality(starts) \in Nat
         /\ starts \subseteq network.lv /\ stack \in Seq(network.lv) /\ Len(stack) \in Nat
         /\ OpenComponents \in {0, 1}
         /\ IslandStepsLeft \in Nat
<1>1. PICK w \in Networks : SearchInv(w)
  BY DEF IslandInv
<1>2. /\ network \in Networks /\ starts \in SUBSET network.lv
      /\ stack \in Seq(network.lv)
  BY <1>1 DEF SearchInv
<1>3. IsFiniteSet(network.lv)
  BY <1>2, LvPartIs
<1>4. network.lv \ seen \in SUBSET network.lv
  OBVIOUS
<1>5. IsFiniteSet(starts) /\ IsFiniteSet(network.lv \ seen)
  BY <1>2, <1>3, <1>4, FS_Subset
<1>6. PICK l, u, t : /\ l = Cardinality(network.lv) /\ u = Cardinality(network.lv \ seen)
                     /\ t = Cardinality(starts)
  OBVIOUS
<1>7. l \in Nat /\ u \in Nat /\ t \in Nat
  BY <1>3, <1>5, <1>6, FS_CardinalityType
<1>8. PICK v : v = VisitCost
  OBVIOUS
<1>9. v \in Nat
  BY <1>6, <1>7, <1>8 DEF VisitCost
<1>10. u * v \in Nat
  BY <1>7, <1>9, OneEdgeLess
<1>11. PICK k : k = Len(stack)
  OBVIOUS
<1>12. k \in Nat
  BY <1>2, <1>11, LenProperties
<1>13. PICK o : o = OpenComponents
  OBVIOUS
<1>14. o \in {0, 1}
  BY <1>13 DEF OpenComponents
<1>15. IslandStepsLeft = u * v + 2 * t + k + o
  BY <1>6, <1>8, <1>11, <1>13 DEF IslandStepsLeft
<1>16. IslandStepsLeft \in Nat
  BY <1>7, <1>10, <1>12, <1>14, <1>15
<1> QED
  BY <1>2, <1>3, <1>5, <1>6, <1>7, <1>8, <1>9, <1>11, <1>12, <1>13, <1>14, <1>16

(* Every step of the search leaves fewer.                                   *)
LEMMA IslandsDescend ==
  ASSUME IslandInv, Islands!Next
  PROVE  IslandStepsLeft' < IslandStepsLeft
<1>1. network' = network
  BY DEF Islands!Next, Islands!SkipStart, Islands!StartSearch, Islands!PopSeen, Islands!Visit,
         Islands!Close
<1>2. PICK l \in Nat, u \in Nat, t \in Nat, k \in Nat, v \in Nat, o \in {0, 1} :
        /\ l = Cardinality(network.lv) /\ u = Cardinality(network.lv \ seen)
        /\ t = Cardinality(starts) /\ k = Len(stack) /\ v = VisitCost /\ o = OpenComponents
  BY IslandCountsAre
<1>3. v = l + 1 /\ VisitCost' = v
  BY <1>1, <1>2 DEF VisitCost
<1>4. IslandStepsLeft = u * v + 2 * t + k + o /\ u * v \in Nat
  BY <1>2, OneEdgeLess DEF IslandStepsLeft
<1>5. PICK w \in Nat : w = u * v /\ IslandStepsLeft = w + 2 * t + k + o
  BY <1>4
<1>6. /\ l \in Nat /\ t \in Nat /\ k \in Nat /\ v \in Nat /\ o \in Nat /\ o <= 1
       /\ v = l + 1
  BY <1>2, <1>3
<1>7. IslandStepsLeft' =
        Cardinality(network.lv \ seen') * v + 2 * Cardinality(starts') + Len(stack')
          + OpenComponents'
  BY <1>1, <1>3 DEF IslandStepsLeft
<1>8. ASSUME starts # {}, starts' = starts \ {Islands!Min(starts)}
      PROVE  Cardinality(starts') = t - 1
  <2>1. network.lv \subseteq Int
    BY IslandCountsAre, LvPartIs, NodeIdAssumption
  <2>2. starts \in SUBSET Int /\ IsFiniteSet(starts)
    BY <2>1, IslandCountsAre
  <2>3. Islands!Min(starts) \in starts
    BY <1>8, <2>2, MinIsIn
  <2> QED
    BY <1>2, <1>8, <2>2, <2>3, FS_RemoveElement
<1>9. CASE Islands!SkipStart
  <2>1. /\ starts # {} /\ starts' = starts \ {Islands!Min(starts)}
        /\ UNCHANGED <<seen, stack, component>>
    BY <1>9 DEF Islands!SkipStart
  <2>2. OpenComponents' = o
    BY <1>2, <2>1 DEF OpenComponents
  <2>3. IslandStepsLeft' = w + 2 * (t - 1) + k + o
    BY <1>2, <1>5, <1>7, <1>8, <2>1, <2>2
  <2> QED
    BY <1>5, <1>6, <2>3
<1>10. CASE Islands!StartSearch
  <2>1. /\ starts # {} /\ starts' = starts \ {Islands!Min(starts)} /\ stack = <<>>
        /\ stack' = <<Islands!Min(starts)>>
        /\ UNCHANGED <<seen, component>>
    BY <1>10 DEF Islands!StartSearch, Islands!Searching
  <2>2. OpenComponents' = o
    BY <1>2, <2>1 DEF OpenComponents
  <2>3. k = 0 /\ Len(stack') = 1
    BY <1>2, <2>1
  <2>4. IslandStepsLeft' = w + 2 * (t - 1) + 1 + o
    BY <1>2, <1>5, <1>7, <1>8, <2>1, <2>2, <2>3
  <2> QED
    BY <1>5, <1>6, <2>3, <2>4
<1>11. CASE Islands!PopSeen
  <2>1. /\ stack # <<>> /\ stack' = Islands!Front(stack)
        /\ UNCHANGED <<starts, seen, component>>
    BY <1>11 DEF Islands!PopSeen
  <2>2. OpenComponents' = o
    BY <1>2, <2>1 DEF OpenComponents
  <2>3. k >= 1 /\ Len(stack') = k - 1
    BY <1>2, <2>1, IslandCountsAre, FrontLength
  <2>4. IslandStepsLeft' = w + 2 * t + (k - 1) + o
    BY <1>2, <1>7, <1>5, <2>1, <2>2, <2>3
  <2> QED
    BY <1>5, <1>6, <2>3, <2>4
<1>12. CASE Islands!Visit
  <2>1. PICK n, f, A : /\ n = Islands!Last(stack) /\ f = Islands!Front(stack)
                       /\ A = Islands!Adjacent(n) \ (seen \cup {n})
    OBVIOUS
  <2>2. PICK pushed \in Islands!SetToSeqs(A) :
          /\ stack # <<>> /\ n \notin seen /\ seen' = seen \cup {n}
          /\ stack' = f \o pushed /\ starts' = starts
    BY <1>12, <2>1 DEF Islands!Visit
  <2>3. f \in Seq(network.lv) /\ n \in network.lv /\ k >= 1 /\ Len(f) = k - 1
    BY <1>2, <2>1, <2>2, IslandCountsAre, ItemsFront, FrontLength
  <2>4. A \in SUBSET network.lv
    BY <2>1 DEF Islands!Adjacent
  <2>5. IsFiniteSet(A) /\ Cardinality(A) <= l
    BY <1>2, <2>4, IslandCountsAre, FS_Subset
  <2>6. PICK p \in Nat : p = Len(pushed) /\ p <= l /\ pushed \in Seq(A)
    BY <2>2, <2>5, ListingLength, ListingIsAll
  <2>7. Len(stack') = (k - 1) + p
    <3>1. pushed \in Seq(network.lv)
      BY <2>4, <2>6, SeqMonotonic
    <3>2. Len(f \o pushed) = Len(f) + Len(pushed)
      BY <2>3, <3>1, ConcatProperties
    <3> QED
      BY <2>2, <2>3, <2>6, <3>2
  <2>8. u >= 1 /\ Cardinality(network.lv \ seen') = u - 1
    <3>1. n \in network.lv \ seen /\ network.lv \ seen' = (network.lv \ seen) \ {n}
      BY <2>2, <2>3
    <3>2. Cardinality(network.lv \ seen') = u - 1
      <4>1. PICK X : X = network.lv \ seen
        OBVIOUS
      <4>2. IsFiniteSet(X) /\ n \in X /\ u = Cardinality(X)
        BY <1>2, <3>1, <4>1, IslandCountsAre
      <4>3. Cardinality(X \ {n}) = u - 1
        BY <4>2, FS_RemoveElement
      <4> QED
        BY <3>1, <4>1, <4>3
    <3>3. u # 0
      BY <1>2, <3>1, IslandCountsAre, FS_EmptySet
    <3> QED
      BY <1>2, <3>2, <3>3
  <2>9. PICK r \in Nat : r = u - 1 /\ u = r + 1
    BY <2>8
  <2>10. r * v \in Nat /\ u * v = r * v + v
    BY <2>9, OneEdgeLess
  <2>11. PICK q \in {0, 1} : q = OpenComponents'
    BY DEF OpenComponents
  <2>12. PICK m \in Nat : m = r * v
    BY <2>10
  <2>13. IslandStepsLeft' = m + 2 * t + ((k - 1) + p) + q
    BY <1>2, <1>7, <2>2, <2>7, <2>8, <2>9, <2>11, <2>12
  <2>14. IslandStepsLeft = m + v + 2 * t + k + o
    BY <1>4, <2>10, <2>12
  <2>15. (k - 1) + p + q < v + k + o
    <3>1. p \in Nat /\ p <= l /\ q \in Nat /\ q <= 1 /\ k >= 1
      BY <2>3, <2>6, <2>11
    <3> QED
      BY <1>6, <3>1
  <2>16. m \in Nat /\ p \in Nat /\ q \in Nat /\ k >= 1
    BY <2>3, <2>6, <2>11, <2>12
  <2> QED
    BY <1>6, <2>13, <2>14, <2>15, <2>16
<1>13. CASE Islands!Close
  <2>1. component # {} /\ component' = {} /\ UNCHANGED <<starts, seen, stack>>
    BY <1>13 DEF Islands!Close
  <2>2. o = 1 /\ OpenComponents' = 0
    BY <1>2, <2>1 DEF OpenComponents
  <2>3. IslandStepsLeft' = u * v + 2 * t + k + 0
    BY <1>2, <1>7, <2>1, <2>2
  <2> QED
    BY <1>4, <2>2, <2>3
<1> QED
  BY <1>9, <1>10, <1>11, <1>12, <1>13 DEF Islands!Next

(* IslandStepsLeft is a number, and every step of lv_islands lessens it: a  *)
(* node may be on the stack many times and is visited once, so a call on N  *)
(* low-voltage nodes returns within N (N + 3) steps, rings and parallel     *)
(* edges included.                                                          *)
THEOREM EveryStepOfTheIslandsDescends ==
  HelpersSpec => /\ [](IslandStepsLeft \in Nat)
                 /\ [][IslandStepsLeft' < IslandStepsLeft]_islandVars
<1>1. IslandInv => IslandStepsLeft \in Nat
  BY IslandCountsAre
<1>2. IslandInv /\ [HelpersNext]_<<vars, islandVars>>
        => [IslandStepsLeft' < IslandStepsLeft]_islandVars
  BY IslandsDescend DEF HelpersNext, AskForIslands, AskForALoop
<1> QED
  BY <1>1, <1>2, IslandInvariant, PTL DEF HelpersSpec

-----------------------------------------------------------------------------
(* Sums over finite sets.                                                    *)

(* Of any finite sets one is smallest.                                     *)
LEMMA SmallestExists ==
  ASSUME NEW B, B # {}, \A T \in B : IsFiniteSet(T)
  PROVE  \E T \in B : \A U \in B : Cardinality(T) <= Cardinality(U)
<1>1. PICK K : K = {Cardinality(T) : T \in B}
  OBVIOUS
<1>2. K \in SUBSET Nat /\ K # {}
  BY <1>1, FS_CardinalityType
<1>3. PICK k \in K : \A m \in K : k <= m
  BY <1>2, LeastExists
<1> QED
  BY <1>1, <1>3

(* The equation of the recursive function of a sum, and its value at T.    *)
SumStep(f, g, T) == IF T = {} THEN 0
                    ELSE f[CHOOSE x \in T : TRUE] + g[T \ {CHOOSE x \in T : TRUE}]

(* g obeys the equation of a sum on the subsets of S.                       *)
IsSum(S, f, g) == g = [T \in SUBSET S |-> SumStep(f, g, T)]

(* Taking out one element of a subset leaves a smaller subset.             *)
LEMMA ChosenIsIn ==
  ASSUME NEW S, IsFiniteSet(S), NEW T \in SUBSET S, T # {}
  PROVE  /\ (CHOOSE x \in T : TRUE) \in T
         /\ T \ {CHOOSE x \in T : TRUE} \in SUBSET S
         /\ IsFiniteSet(T) /\ Cardinality(T) \in Nat /\ Cardinality(T) >= 1
         /\ \A y \in T : /\ T \ {y} \in SUBSET S
                         /\ IsFiniteSet(T \ {y})
                         /\ Cardinality(T \ {y}) = Cardinality(T) - 1
<1>1. IsFiniteSet(T) /\ Cardinality(T) \in Nat /\ Cardinality(T) # 0
  BY FS_Subset, FS_EmptySet, FS_CardinalityType
<1>2. ASSUME NEW y \in T
      PROVE  IsFiniteSet(T \ {y}) /\ Cardinality(T \ {y}) = Cardinality(T) - 1
  BY <1>1, FS_RemoveElement
<1> QED
  BY <1>1, <1>2

(* The recursive function of a sum exists: its values at the sets of up to *)
(* n elements define it at those of n + 1, and no least n is without.      *)
LEMMA SumExists ==
  ASSUME NEW S, IsFiniteSet(S), NEW f
  PROVE  \E g : IsSum(S, f, g)
<1> DEFINE Good(n, g) == /\ g = [T \in SUBSET S |-> g[T]]
                         /\ \A T \in SUBSET S : Cardinality(T) <= n => g[T] = SumStep(f, g, T)
           Bad == {n \in Nat : ~\E g : Good(n, g)}
<1>1. Bad = {}
  <2> SUFFICES ASSUME Bad # {} PROVE FALSE
    OBVIOUS
  <2>1. PICK n \in Bad : \A m \in Bad : n <= m
    <3>1. Bad \in SUBSET Nat
      OBVIOUS
    <3> HIDE DEF Bad
    <3> QED
      BY <3>1, LeastExists
  <2>2. n \in Nat /\ ~\E g : Good(n, g)
    BY <2>1
  <2>3. CASE n = 0
    <3>1. PICK g : g = [T \in SUBSET S |-> 0]
      OBVIOUS
    <3>2. ASSUME NEW T \in SUBSET S, Cardinality(T) <= 0
          PROVE  g[T] = SumStep(f, g, T)
      <4>1. T = {}
        BY <3>2, ChosenIsIn
      <4> QED
        BY <3>1, <4>1 DEF SumStep
    <3>3. g = [T \in SUBSET S |-> g[T]]
      BY <3>1
    <3>4. Good(0, g)
      BY <3>2, <3>3
    <3> QED
      BY <2>2, <2>3, <3>4
  <2>4. CASE n # 0
    <3>1. n - 1 \in Nat /\ ~(n <= n - 1)
      BY <2>2, <2>4
    <3>2. \E g : Good(n - 1, g)
      BY <2>1, <3>1
    <3>3. PICK g : Good(n - 1, g)
      BY <3>2
    <3>4. PICK h : h = [T \in SUBSET S |-> SumStep(f, g, T)]
      OBVIOUS
    <3>5. ASSUME NEW T \in SUBSET S, Cardinality(T) <= n
          PROVE  h[T] = SumStep(f, h, T)
      <4>1. CASE T = {}
        BY <3>4, <4>1 DEF SumStep
      <4>2. CASE T # {}
        <5>1. PICK x : x = CHOOSE y \in T : TRUE
          OBVIOUS
        <5>2. /\ x \in T /\ T \ {x} \in SUBSET S
              /\ Cardinality(T \ {x}) = Cardinality(T) - 1 /\ Cardinality(T) \in Nat
          BY <4>2, <5>1, ChosenIsIn
        <5>3. Cardinality(T \ {x}) <= n - 1
          BY <2>2, <3>5, <5>2
        <5>4. g[T \ {x}] = SumStep(f, g, T \ {x})
          BY <3>3, <5>2, <5>3
        <5>5. h[T \ {x}] = g[T \ {x}]
          BY <3>4, <5>2, <5>4
        <5>6. h[T] = f[x] + g[T \ {x}]
          BY <3>4, <4>2, <5>1 DEF SumStep
        <5>7. SumStep(f, h, T) = f[x] + h[T \ {x}]
          BY <4>2, <5>1 DEF SumStep
        <5> QED
          BY <5>5, <5>6, <5>7
      <4> QED
        BY <4>1, <4>2
    <3>6. h = [T \in SUBSET S |-> h[T]]
      BY <3>4
    <3>7. Good(n, h)
      BY <3>5, <3>6
    <3> QED
      BY <2>2, <3>7
  <2> QED
    BY <2>3, <2>4
<1>2. Cardinality(S) \in Nat
  BY FS_CardinalityType
<1>3. \E g : Good(Cardinality(S), g)
  BY <1>1, <1>2
<1>4. PICK g : Good(Cardinality(S), g)
  BY <1>3
<1>5. ASSUME NEW T \in SUBSET S PROVE g[T] = SumStep(f, g, T)
  <2>1. Cardinality(T) <= Cardinality(S)
    BY FS_Subset
  <2> QED
    BY <1>4, <2>1
<1>6. g = [T \in SUBSET S |-> SumStep(f, g, T)]
  BY <1>4, <1>5
<1> QED
  BY <1>6 DEF IsSum

(* The recursive function that SumOver unfolds to, and that it obeys its   *)
(* equation.                                                               *)
LEMMA SumIs ==
  ASSUME NEW S, IsFiniteSet(S), NEW f
  PROVE  \E g : IsSum(S, f, g) /\ SumOver(S, f) = g[S]
<1> DEFINE b == CHOOSE g : IsSum(S, f, g)
<1>1. IsSum(S, f, b)
  BY SumExists
<1>2. SumOver(S, f) = b[S]
  BY DEF SumOver, MapThenSumSet, MapThenFoldSet, IsSum, SumStep
<1> QED
  BY <1>1, <1>2

(* On what two such functions share they agree.                            *)
LEMMA SumsAgree ==
  ASSUME NEW S, IsFiniteSet(S), NEW R \in SUBSET S, NEW f,
         NEW g, IsSum(S, f, g), NEW h, IsSum(R, f, h)
  PROVE  \A T \in SUBSET R : g[T] = h[T]
<1>1. PICK Bad : Bad = {T \in SUBSET R : g[T] # h[T]}
  OBVIOUS
<1> SUFFICES ASSUME Bad # {} PROVE FALSE
  BY <1>1
<1>2. IsFiniteSet(R)
  BY FS_Subset
<1>3. PICK T \in Bad : \A U \in Bad : Cardinality(T) <= Cardinality(U)
  BY <1>1, <1>2, FS_Subset, SmallestExists
<1>4. T \in SUBSET R /\ T \in SUBSET S /\ g[T] # h[T]
  BY <1>1, <1>3
<1>5. g[T] = SumStep(f, g, T) /\ h[T] = SumStep(f, h, T)
  BY <1>4 DEF IsSum
<1>6. T # {}
  BY <1>4, <1>5 DEF SumStep
<1>7. PICK x : x = CHOOSE y \in T : TRUE
  OBVIOUS
<1>8. /\ x \in T /\ T \ {x} \in SUBSET R
      /\ Cardinality(T \ {x}) = Cardinality(T) - 1 /\ Cardinality(T) \in Nat
  BY <1>2, <1>4, <1>6, <1>7, ChosenIsIn
<1>9. T \ {x} \notin Bad
  BY <1>3, <1>8
<1>10. g[T \ {x}] = h[T \ {x}]
  BY <1>1, <1>8, <1>9
<1> QED
  BY <1>4, <1>5, <1>6, <1>7, <1>10 DEF SumStep

(* Integers add up to an integer.                                          *)
LEMMA SumsAreInts ==
  ASSUME NEW S, IsFiniteSet(S), NEW f, \A x \in S : f[x] \in Int, NEW g, IsSum(S, f, g)
  PROVE  \A T \in SUBSET S : g[T] \in Int
<1>1. PICK Bad : Bad = {T \in SUBSET S : g[T] \notin Int}
  OBVIOUS
<1> SUFFICES ASSUME Bad # {} PROVE FALSE
  BY <1>1
<1>3. PICK T \in Bad : \A U \in Bad : Cardinality(T) <= Cardinality(U)
  BY <1>1, FS_Subset, SmallestExists
<1>4. T \in SUBSET S /\ g[T] \notin Int
  BY <1>1, <1>3
<1>5. g[T] = SumStep(f, g, T)
  BY <1>4 DEF IsSum
<1>6. T # {}
  BY <1>4, <1>5 DEF SumStep
<1>7. PICK x : x = CHOOSE y \in T : TRUE
  OBVIOUS
<1>8. /\ x \in T /\ T \ {x} \in SUBSET S
      /\ Cardinality(T \ {x}) = Cardinality(T) - 1 /\ Cardinality(T) \in Nat
  BY <1>4, <1>6, <1>7, ChosenIsIn
<1>9. T \ {x} \notin Bad
  BY <1>3, <1>8
<1>10. g[T \ {x}] \in Int /\ f[x] \in Int
  BY <1>1, <1>4, <1>8, <1>9
<1>11. g[T] = f[x] + g[T \ {x}]
  BY <1>5, <1>6, <1>7 DEF SumStep
<1> QED
  BY <1>4, <1>10, <1>11

(* Whichever element is taken out first, the sum is the same.              *)
LEMMA AnyOrder ==
  ASSUME NEW S, IsFiniteSet(S), NEW f, \A x \in S : f[x] \in Int, NEW g, IsSum(S, f, g)
  PROVE  \A T \in SUBSET S : \A y \in T : g[T] = f[y] + g[T \ {y}]
<1>1. PICK Bad : Bad = {T \in SUBSET S : ~\A y \in T : g[T] = f[y] + g[T \ {y}]}
  OBVIOUS
<1> SUFFICES ASSUME Bad # {} PROVE FALSE
  BY <1>1
<1>3. PICK T \in Bad : \A U \in Bad : Cardinality(T) <= Cardinality(U)
  BY <1>1, FS_Subset, SmallestExists
<1>4. T \in SUBSET S /\ \E y \in T : g[T] # f[y] + g[T \ {y}]
  BY <1>1, <1>3
<1>5. PICK y \in T : g[T] # f[y] + g[T \ {y}]
  BY <1>4
<1>6. PICK x : x = CHOOSE z \in T : TRUE
  OBVIOUS
<1>7. /\ x \in T /\ \A z \in T : /\ T \ {z} \in SUBSET S
                                 /\ Cardinality(T \ {z}) = Cardinality(T) - 1
      /\ Cardinality(T) \in Nat
  BY <1>4, <1>6, ChosenIsIn
<1>8. g[T] = f[x] + g[T \ {x}]
  BY <1>4, <1>6 DEF IsSum, SumStep
<1>9. x # y
  BY <1>5, <1>8
<1>10. T \ {x} \notin Bad /\ T \ {y} \notin Bad
  BY <1>3, <1>7
<1>11. PICK U : U = T \ {x, y}
  OBVIOUS
<1>12. (T \ {x}) \ {y} = U /\ (T \ {y}) \ {x} = U /\ y \in T \ {x} /\ x \in T \ {y}
  BY <1>7, <1>9, <1>11
<1>13. g[T \ {x}] = f[y] + g[U] /\ g[T \ {y}] = f[x] + g[U]
  BY <1>1, <1>7, <1>10, <1>12
<1>14. g[U] \in Int /\ f[x] \in Int /\ f[y] \in Int
  <2>1. U \in SUBSET S
    BY <1>4, <1>11
  <2> QED
    BY <1>4, <1>7, <2>1, SumsAreInts
<1> QED
  BY <1>5, <1>8, <1>13, <1>14

(* A sum takes in one element at a time, in any order.                     *)
LEMMA SumOfOneMore ==
  ASSUME NEW S, IsFiniteSet(S), NEW y, y \notin S, NEW f,
         \A x \in S \cup {y} : f[x] \in Int
  PROVE  /\ SumOver(S \cup {y}, f) = SumOver(S, f) + f[y]
         /\ SumOver(S, f) \in Int
<1>1. PICK R : R = S \cup {y}
  OBVIOUS
<1>2. IsFiniteSet(R) /\ S \in SUBSET R /\ R \ {y} = S /\ y \in R
  BY <1>1, FS_AddElement
<1>3. PICK g : IsSum(R, f, g) /\ SumOver(R, f) = g[R]
  BY <1>2, SumIs
<1>4. PICK h : IsSum(S, f, h) /\ SumOver(S, f) = h[S]
  BY SumIs
<1>5. g[S] = h[S]
  BY <1>2, <1>3, <1>4, SumsAgree
<1>6. g[R] = f[y] + g[S]
  BY <1>1, <1>2, <1>3, AnyOrder
<1>7. g[S] \in Int
  BY <1>1, <1>2, <1>3, SumsAreInts
<1> QED
  BY <1>1, <1>3, <1>4, <1>5, <1>6, <1>7

(* Nothing adds up to zero.                                                *)
LEMMA SumOfNone ==
  ASSUME NEW f
  PROVE  SumOver({}, f) = 0
<1>1. PICK g : IsSum({}, f, g) /\ SumOver({}, f) = g[{}]
  BY FS_EmptySet, SumIs
<1> QED
  BY <1>1 DEF IsSum, SumStep

(* One element adds up to its value.                                       *)
LEMMA SumOfOne ==
  ASSUME NEW a, NEW f, f[a] \in Int
  PROVE  SumOver({a}, f) = f[a]
<1>1. SumOver({} \cup {a}, f) = SumOver({}, f) + f[a]
  BY FS_EmptySet, SumOfOneMore
<1>2. {} \cup {a} = {a}
  OBVIOUS
<1> QED
  BY <1>1, <1>2, SumOfNone

(* S has the elements a, b and c, and no other.                            *)
IsTriple(S, a, b, c) == S = {a, b, c} /\ a # b /\ a # c /\ b # c

(* Three elements add up to their values.                                  *)
LEMMA SumOfThree ==
  ASSUME NEW S, NEW a, NEW b, NEW c, IsTriple(S, a, b, c),
         NEW f, \A x \in S : f[x] \in Int
  PROVE  SumOver(S, f) = f[a] + f[b] + f[c] /\ IsFiniteSet(S)
<1>1. S = {a, b, c} /\ a # b /\ a # c /\ b # c
  BY DEF IsTriple
<1>2. /\ IsFiniteSet({a}) /\ IsFiniteSet({a, b}) /\ IsFiniteSet(S)
      /\ {a} \cup {b} = {a, b} /\ {a, b} \cup {c} = S
  <2>1. IsFiniteSet({a})
    BY FS_Singleton
  <2>2. IsFiniteSet({a} \cup {b})
    BY <2>1, FS_AddElement
  <2>3. IsFiniteSet(({a} \cup {b}) \cup {c})
    BY <2>2, FS_AddElement
  <2>4. {a} \cup {b} = {a, b} /\ {a, b} \cup {c} = S /\ ({a} \cup {b}) \cup {c} = S
    BY <1>1
  <2> QED
    BY <2>1, <2>2, <2>3, <2>4
<1>3. SumOver({a} \cup {b}, f) = SumOver({a}, f) + f[b]
  BY <1>1, <1>2, SumOfOneMore
<1>4. SumOver({a, b} \cup {c}, f) = SumOver({a, b}, f) + f[c]
  BY <1>1, <1>2, SumOfOneMore
<1> QED
  BY <1>1, <1>2, <1>3, <1>4, SumOfOne

(* The sums of two sets without a common element add up.                   *)
LEMMA SumOfBoth ==
  ASSUME NEW S, IsFiniteSet(S), NEW R, IsFiniteSet(R), S \cap R = {},
         NEW f, \A x \in S \cup R : f[x] \in Int
  PROVE  /\ SumOver(S \cup R, f) = SumOver(S, f) + SumOver(R, f)
         /\ SumOver(S, f) \in Int /\ SumOver(R, f) \in Int
<1>0. PICK sum : sum = [T \in SUBSET (S \cup R) |-> SumOver(T, f)]
  OBVIOUS
<1>1. PICK Bad : Bad = {T \in SUBSET R : ~(sum[S \cup T] = sum[S] + sum[T] /\ sum[T] \in Int)}
  OBVIOUS
<1>5. sum[S] \in Int
  <2>1. PICK g : IsSum(S, f, g) /\ SumOver(S, f) = g[S]
    BY SumIs
  <2> QED
    BY <1>0, <2>1, SumsAreInts
<1> SUFFICES ASSUME Bad # {} PROVE FALSE
  BY <1>0, <1>1, <1>5
<1>3. PICK T \in Bad : \A U \in Bad : Cardinality(T) <= Cardinality(U)
  <2>1. \A U \in Bad : IsFiniteSet(U)
    BY <1>1, FS_Subset
  <2> QED
    BY <2>1, SmallestExists
<1>4. T \in SUBSET R /\ ~(sum[S \cup T] = sum[S] + sum[T] /\ sum[T] \in Int)
  BY <1>1, <1>3
<1>6. T # {}
  <2> SUFFICES ASSUME T = {} PROVE FALSE
    OBVIOUS
  <2>1. S \cup T = S /\ T \in SUBSET (S \cup R)
    OBVIOUS
  <2>2. sum[T] = 0
    BY <1>0, <2>1, SumOfNone
  <2> QED
    BY <1>4, <1>5, <2>1, <2>2
<1>7. PICK x \in T : TRUE
  BY <1>6
<1>8. PICK U : U = T \ {x}
  OBVIOUS
<1>9. /\ U \in SUBSET R /\ IsFiniteSet(U) /\ Cardinality(U) = Cardinality(T) - 1
      /\ Cardinality(T) \in Nat
  BY <1>4, <1>7, <1>8, ChosenIsIn
<1>10. U \notin Bad
  BY <1>3, <1>9
<1>11. sum[S \cup U] = sum[S] + sum[U] /\ sum[U] \in Int
  BY <1>1, <1>9, <1>10
<1>12. /\ U \cup {x} = T /\ (S \cup U) \cup {x} = S \cup T
       /\ x \notin U /\ x \notin S \cup U /\ IsFiniteSet(S \cup U)
  BY <1>4, <1>7, <1>8, <1>9, FS_Union
<1>13. f[x] \in Int /\ \A z \in (S \cup U) \cup {x} : f[z] \in Int
  BY <1>4, <1>7, <1>9
<1>14. sum[T] = sum[U] + f[x]
  <2>1. U \in SUBSET (S \cup R) /\ T \in SUBSET (S \cup R)
    BY <1>4, <1>9
  <2>2. SumOver(U \cup {x}, f) = SumOver(U, f) + f[x]
    BY <1>9, <1>12, <1>13, SumOfOneMore
  <2> QED
    BY <1>0, <1>12, <2>1, <2>2
<1>15. sum[S \cup T] = sum[S \cup U] + f[x]
  <2>1. S \cup U \in SUBSET (S \cup R) /\ S \cup T \in SUBSET (S \cup R)
    BY <1>4, <1>9
  <2>2. SumOver((S \cup U) \cup {x}, f) = SumOver(S \cup U, f) + f[x]
    BY <1>12, <1>13, SumOfOneMore
  <2> QED
    BY <1>0, <1>12, <2>1, <2>2
<1> QED
  BY <1>4, <1>5, <1>11, <1>13, <1>14, <1>15

-----------------------------------------------------------------------------
(* The tree and its powers.                                                  *)

(* Active and reactive power of a node, and those of the nodes of S.       *)
Power == [p : Int, q : Int]
PowersOf(S) == [S -> Power]

(* The children of each parent node.                                       *)
LEMMA TreeIs ==
  /\ ChildrenOf("MCC-001") = {"MTR-001", "MTR-002", "MTR-003"}
  /\ ChildrenOf("PP-001") = {"LIGHT-001", "HVAC-001", "PLUG-001"}
  /\ ChildrenOf("MSB-001") = {"MCC-001", "PP-001", "CAP-001", "PV-001"}
  /\ ChildrenOf("TX-001") = {"MSB-001"}
  /\ ChildrenOf("UTIL-001") = {"TX-001"}
<1>1. DOMAIN Parent = {"MTR-001", "MTR-002", "MTR-003", "LIGHT-001", "HVAC-001", "PLUG-001",
                       "MCC-001", "PP-001", "TX-001", "MSB-001", "CAP-001", "PV-001"}
  BY DEF Parent, Node, Leaf, Motor, Load, LoadBus
<1>2. /\ Parent["MTR-001"] = "MCC-001" /\ Parent["MTR-002"] = "MCC-001"
      /\ Parent["MTR-003"] = "MCC-001"
  BY DEF Parent, Node, Leaf, Motor, Load, LoadBus
<1>3. /\ Parent["LIGHT-001"] = "PP-001" /\ Parent["HVAC-001"] = "PP-001"
      /\ Parent["PLUG-001"] = "PP-001"
  BY DEF Parent, Node, Leaf, Motor, Load, LoadBus
<1>4. /\ Parent["MCC-001"] = "MSB-001" /\ Parent["PP-001"] = "MSB-001"
      /\ Parent["CAP-001"] = "MSB-001" /\ Parent["PV-001"] = "MSB-001"
  BY DEF Parent, Node, Leaf, Motor, Load, LoadBus
<1>5. Parent["MSB-001"] = "TX-001" /\ Parent["TX-001"] = "UTIL-001"
  BY DEF Parent, Node, Leaf, Motor, Load, LoadBus
<1>6. \A n : ChildrenOf(n) = {c \in DOMAIN Parent : Parent[c] = n}
  BY DEF ChildrenOf
<1>7. ChildrenOf("MCC-001") = {"MTR-001", "MTR-002", "MTR-003"}
  BY <1>1, <1>2, <1>3, <1>4, <1>5, <1>6
<1>8. ChildrenOf("PP-001") = {"LIGHT-001", "HVAC-001", "PLUG-001"}
  BY <1>1, <1>2, <1>3, <1>4, <1>5, <1>6
<1>9. ChildrenOf("MSB-001") = {"MCC-001", "PP-001", "CAP-001", "PV-001"}
  BY <1>1, <1>2, <1>3, <1>4, <1>5, <1>6
<1>10. ChildrenOf("TX-001") = {"MSB-001"}
  BY <1>1, <1>2, <1>3, <1>4, <1>5, <1>6
<1>11. ChildrenOf("UTIL-001") = {"TX-001"}
  BY <1>1, <1>2, <1>3, <1>4, <1>5, <1>6
<1> QED
  BY <1>7, <1>8, <1>9, <1>10, <1>11

(* Impedances are not negative.                                            *)
LEMMA FeederIs ==
  ASSUME NEW c \in Node
  PROVE  Feeder[c][1] \in Nat /\ Feeder[c][2] \in Nat
BY DEF Feeder, Node, Leaf, Motor, Load, LoadBus

(* The square of an apparent power is not negative.                        *)
LEMMA SquaredIs ==
  ASSUME NEW e \in Power
  PROVE  Squared(e) \in Nat
<1>1. e.p \in Int /\ e.q \in Int
  BY DEF Power
<1>2. ASSUME NEW x \in Int PROVE x * x \in Nat
  <2>1. CASE x >= 0
    BY <2>1
  <2>2. CASE x < 0
    BY <2>2
  <2> QED
    BY <2>1, <2>2
<1>3. e.p * e.p \in Nat /\ e.q * e.q \in Nat
  BY <1>1, <1>2
<1> QED
  BY <1>3 DEF Squared

(* A feeder loses power, it never gains any.                               *)
LEMMA LossIs ==
  ASSUME NEW c \in Node, NEW e \in Power
  PROVE  FeederLoss(c, e).p \in Nat /\ FeederLoss(c, e).q \in Nat
<1>1. Squared(e) \in Nat /\ Feeder[c][1] \in Nat /\ Feeder[c][2] \in Nat
  BY SquaredIs, FeederIs
<1>2. ASSUME NEW x \in Nat, NEW y \in Nat PROVE (x * y) \div 2304000 \in Nat
  <2>1. PICK z : z = x * y
    OBVIOUS
  <2>2. z \in Nat
    BY <2>1
  <2>3. z \div 2304000 \in Nat
    BY <2>2
  <2> QED
    BY <2>1, <2>3
<1> QED
  BY <1>1, <1>2 DEF FeederLoss

(* What a child draws from its parent: what it carries and what its feeder *)
(* loses.                                                                  *)
Gross(c, e) == [p |-> e.p + FeederLoss(c, e).p, q |-> e.q + FeederLoss(c, e).q]

(* A feeder takes at least what it delivers.                               *)
LEMMA GrossIs ==
  ASSUME NEW c \in Node, NEW e \in Power
  PROVE  /\ Gross(c, e) \in Power /\ Gross(c, e).p >= e.p /\ Gross(c, e).q >= e.q
         /\ Gross(c, e).p = e.p + FeederLoss(c, e).p
         /\ Gross(c, e).q = e.q + FeederLoss(c, e).q
<1>1. e.p \in Int /\ e.q \in Int
  BY DEF Power
<1>2. FeederLoss(c, e).p \in Nat /\ FeederLoss(c, e).q \in Nat
  BY LossIs
<1>3. PICK a, b : a = e.p + FeederLoss(c, e).p /\ b = e.q + FeederLoss(c, e).q
  OBVIOUS
<1>4. a \in Int /\ b \in Int /\ a >= e.p /\ b >= e.q
  BY <1>1, <1>2, <1>3
<1>5. Gross(c, e) = [p |-> a, q |-> b]
  BY <1>3 DEF Gross
<1> QED
  BY <1>3, <1>4, <1>5 DEF Power

(* What the children fed draw, active and reactive.                        *)
GrossP(Fed, powers) == [c \in Fed |-> Gross(c, powers[c]).p]
GrossQ(Fed, powers) == [c \in Fed |-> Gross(c, powers[c]).q]

(* Aggregate adds up what the children fed draw.                           *)
LEMMA AggregateIs ==
  ASSUME NEW bus, NEW excluded, NEW Fed, Fed = ChildrenOf(bus) \ excluded, NEW powers
  PROVE  Aggregate(bus, powers, excluded) = [p |-> SumOver(Fed, GrossP(Fed, powers)),
                                             q |-> SumOver(Fed, GrossQ(Fed, powers))]
<1>1. [c \in Fed |-> powers[c].p + FeederLoss(c, powers[c]).p] = GrossP(Fed, powers)
  BY DEF GrossP, Gross
<1>2. [c \in Fed |-> powers[c].q + FeederLoss(c, powers[c]).q] = GrossQ(Fed, powers)
  BY DEF GrossQ, Gross
<1> QED
  BY <1>1, <1>2, Zenon DEF Aggregate

(* What a child fed adds to the sums.                                      *)
LEMMA GrossOf ==
  ASSUME NEW Fed, NEW powers, NEW c \in Fed, c \in Node, powers[c] \in Power
  PROVE  /\ GrossP(Fed, powers)[c] = Gross(c, powers[c]).p /\ Gross(c, powers[c]).p \in Int
         /\ GrossQ(Fed, powers)[c] = Gross(c, powers[c]).q /\ Gross(c, powers[c]).q \in Int
<1>1. Gross(c, powers[c]).p \in Int /\ Gross(c, powers[c]).q \in Int
  BY GrossIs DEF Power
<1> QED
  BY <1>1 DEF GrossP, GrossQ

(* A parent of one child carries what it draws.                            *)
LEMMA AggregateOfOne ==
  ASSUME NEW bus, NEW a \in Node, ChildrenOf(bus) = {a}, NEW powers, powers[a] \in Power
  PROVE  Aggregate(bus, powers, {}) = Gross(a, powers[a])
<1>1. PICK Fed : Fed = {a}
  OBVIOUS
<1>2. Fed = ChildrenOf(bus) \ {} /\ a \in Fed
  BY <1>1
<1>3. Aggregate(bus, powers, {}) = [p |-> SumOver(Fed, GrossP(Fed, powers)),
                                    q |-> SumOver(Fed, GrossQ(Fed, powers))]
  BY <1>2, AggregateIs
<1>4. PICK f, g : f = GrossP(Fed, powers) /\ g = GrossQ(Fed, powers)
  OBVIOUS
<1>5. /\ f[a] = Gross(a, powers[a]).p /\ f[a] \in Int
      /\ g[a] = Gross(a, powers[a]).q /\ g[a] \in Int
  BY <1>2, <1>4, GrossOf
<1>6. SumOver(Fed, f) = f[a] /\ SumOver(Fed, g) = g[a]
  BY <1>1, <1>5, SumOfOne
<1>7. Aggregate(bus, powers, {}) = [p |-> Gross(a, powers[a]).p, q |-> Gross(a, powers[a]).q]
  BY <1>3, <1>4, <1>5, <1>6
<1> QED
  BY <1>7 DEF Gross

(* A parent of three children carries what the three draw.                 *)
LEMMA AggregateOfThree ==
  ASSUME NEW bus, NEW excluded, NEW a \in Node, NEW b \in Node, NEW d \in Node,
         NEW Fed, IsTriple(Fed, a, b, d), Fed = ChildrenOf(bus) \ excluded,
         NEW powers, powers[a] \in Power, powers[b] \in Power, powers[d] \in Power
  PROVE  Aggregate(bus, powers, excluded) =
           [p |-> Gross(a, powers[a]).p + Gross(b, powers[b]).p + Gross(d, powers[d]).p,
            q |-> Gross(a, powers[a]).q + Gross(b, powers[b]).q + Gross(d, powers[d]).q]
<1>1. Fed = {a, b, d}
  BY DEF IsTriple
<1>2. a \in Fed /\ b \in Fed /\ d \in Fed
  BY <1>1
<1>3. Aggregate(bus, powers, excluded) = [p |-> SumOver(Fed, GrossP(Fed, powers)),
                                          q |-> SumOver(Fed, GrossQ(Fed, powers))]
  BY AggregateIs
<1>4. PICK f, g : f = GrossP(Fed, powers) /\ g = GrossQ(Fed, powers)
  OBVIOUS
<1>5. /\ f[a] = Gross(a, powers[a]).p /\ f[a] \in Int
      /\ g[a] = Gross(a, powers[a]).q /\ g[a] \in Int
  BY <1>2, <1>4, GrossOf
<1>6. /\ f[b] = Gross(b, powers[b]).p /\ f[b] \in Int
      /\ g[b] = Gross(b, powers[b]).q /\ g[b] \in Int
  BY <1>2, <1>4, GrossOf
<1>7. /\ f[d] = Gross(d, powers[d]).p /\ f[d] \in Int
      /\ g[d] = Gross(d, powers[d]).q /\ g[d] \in Int
  BY <1>2, <1>4, GrossOf
<1>10. \A x \in Fed : f[x] \in Int
  BY <1>1, <1>5, <1>6, <1>7
<1>11. \A x \in Fed : g[x] \in Int
  BY <1>1, <1>5, <1>6, <1>7
<1>8. SumOver(Fed, f) = f[a] + f[b] + f[d]
  BY <1>10, SumOfThree
<1>9. SumOver(Fed, g) = g[a] + g[b] + g[d]
  BY <1>11, SumOfThree
<1> QED
  BY <1>1, <1>3, <1>4, <1>5, <1>6, <1>7, <1>8, <1>9

(* The main bus with the bank: the three that BusLoad counts, and the      *)
(* bank.                                                                   *)
LEMMA AggregateOfFour ==
  ASSUME NEW bus, NEW z \in Node, NEW a \in Node, NEW b \in Node, NEW d \in Node,
         NEW Fed, IsTriple(Fed, a, b, d), z \notin Fed, ChildrenOf(bus) = Fed \cup {z},
         NEW powers, powers[a] \in Power, powers[b] \in Power, powers[d] \in Power,
         powers[z] \in Power
  PROVE  /\ Aggregate(bus, powers, {}).p = Aggregate(bus, powers, {z}).p + Gross(z, powers[z]).p
         /\ Aggregate(bus, powers, {}).q = Aggregate(bus, powers, {z}).q + Gross(z, powers[z]).q
         /\ Aggregate(bus, powers, {}) \in Power
<1>1. PICK All : Fed = {a, b, d} /\ All = Fed \cup {z}
  BY DEF IsTriple
<1>2. /\ Fed = ChildrenOf(bus) \ {z} /\ All = ChildrenOf(bus) \ {}
      /\ a \in All /\ b \in All /\ d \in All /\ z \in All
  BY <1>1
<1>3. Aggregate(bus, powers, {}) = [p |-> SumOver(All, GrossP(All, powers)),
                                    q |-> SumOver(All, GrossQ(All, powers))]
  BY <1>2, AggregateIs
<1>4. PICK f, g : f = GrossP(All, powers) /\ g = GrossQ(All, powers)
  OBVIOUS
<1>5. /\ f[a] = Gross(a, powers[a]).p /\ f[a] \in Int
      /\ g[a] = Gross(a, powers[a]).q /\ g[a] \in Int
  BY <1>2, <1>4, GrossOf
<1>6. /\ f[b] = Gross(b, powers[b]).p /\ f[b] \in Int
      /\ g[b] = Gross(b, powers[b]).q /\ g[b] \in Int
  BY <1>2, <1>4, GrossOf
<1>7. /\ f[d] = Gross(d, powers[d]).p /\ f[d] \in Int
      /\ g[d] = Gross(d, powers[d]).q /\ g[d] \in Int
  BY <1>2, <1>4, GrossOf
<1>8. /\ f[z] = Gross(z, powers[z]).p /\ f[z] \in Int
      /\ g[z] = Gross(z, powers[z]).q /\ g[z] \in Int
  BY <1>2, <1>4, GrossOf
<1>19. \A x \in Fed : f[x] \in Int
  BY <1>1, <1>5, <1>6, <1>7
<1>20. \A x \in Fed : g[x] \in Int
  BY <1>1, <1>5, <1>6, <1>7
<1>9. SumOver(Fed, f) = f[a] + f[b] + f[d]
  BY <1>19, SumOfThree
<1>10. SumOver(Fed, g) = g[a] + g[b] + g[d]
  BY <1>20, SumOfThree
<1>11. IsFiniteSet(Fed)
  BY <1>19, SumOfThree
<1>12. \A x \in Fed \cup {z} : f[x] \in Int
  BY <1>1, <1>5, <1>6, <1>7, <1>8
<1>21. \A x \in Fed \cup {z} : g[x] \in Int
  BY <1>1, <1>5, <1>6, <1>7, <1>8
<1>13. SumOver(All, f) = SumOver(Fed, f) + f[z]
  <2>1. SumOver(Fed \cup {z}, f) = SumOver(Fed, f) + f[z]
    BY <1>2, <1>11, <1>12, SumOfOneMore
  <2> QED
    BY <1>1, <2>1
<1>14. SumOver(All, g) = SumOver(Fed, g) + g[z]
  <2>1. SumOver(Fed \cup {z}, g) = SumOver(Fed, g) + g[z]
    BY <1>2, <1>11, <1>21, SumOfOneMore
  <2> QED
    BY <1>1, <2>1
<1>15. Aggregate(bus, powers, {z}) =
           [p |-> Gross(a, powers[a]).p + Gross(b, powers[b]).p + Gross(d, powers[d]).p,
            q |-> Gross(a, powers[a]).q + Gross(b, powers[b]).q + Gross(d, powers[d]).q]
  BY <1>2, AggregateOfThree
<1>16. Aggregate(bus, powers, {}).p = Aggregate(bus, powers, {z}).p + Gross(z, powers[z]).p
  BY <1>1, <1>3, <1>4, <1>5, <1>6, <1>7, <1>8, <1>9, <1>13, <1>15
<1>17. Aggregate(bus, powers, {}).q = Aggregate(bus, powers, {z}).q + Gross(z, powers[z]).q
  BY <1>1, <1>3, <1>4, <1>5, <1>6, <1>7, <1>8, <1>10, <1>14, <1>15
<1>18. SumOver(All, f) \in Int /\ SumOver(All, g) \in Int
  BY <1>1, <1>5, <1>6, <1>7, <1>8, <1>9, <1>10, <1>13, <1>14
<1> QED
  BY <1>3, <1>4, <1>16, <1>17, <1>18 DEF Power

-----------------------------------------------------------------------------
(* The solution of a timestep, node by node.                                 *)

(* h is f, whose domain is S, with the value v at n.                       *)
IsWith(h, f, S, n, v) ==
  h \in PowersOf(S \cup {n}) /\ (\A x \in S : h[x] = f[x]) /\ h[n] = v

(* Solving one more node leaves the solved ones alone.                     *)
LEMMA WithIs ==
  ASSUME NEW S, NEW n, n \notin S, NEW f \in PowersOf(S), NEW v \in Power
  PROVE  IsWith(With(f, n, v), f, S, n, v)
BY DEF With, IsWith, PowersOf

(* What is solved below the main bus.                                      *)
Metered == Leaf \cup {"PV-001"} \cup LoadBus

(* The two load buses carry what their children draw.                      *)
LoadBusesBalance(e) ==
  /\ e["MCC-001"].p = Gross("MTR-001", e["MTR-001"]).p + Gross("MTR-002", e["MTR-002"]).p
                      + Gross("MTR-003", e["MTR-003"]).p
  /\ e["MCC-001"].q = Gross("MTR-001", e["MTR-001"]).q + Gross("MTR-002", e["MTR-002"]).q
                      + Gross("MTR-003", e["MTR-003"]).q
  /\ e["PP-001"].p = Gross("LIGHT-001", e["LIGHT-001"]).p + Gross("HVAC-001", e["HVAC-001"]).p
                     + Gross("PLUG-001", e["PLUG-001"]).p
  /\ e["PP-001"].q = Gross("LIGHT-001", e["LIGHT-001"]).q + Gross("HVAC-001", e["HVAC-001"]).q
                     + Gross("PLUG-001", e["PLUG-001"]).q

(* The nodes are distinct.                                                 *)
LEMMA NamesApart ==
  /\ Motor = {"MTR-001", "MTR-002", "MTR-003"}
  /\ Load = {"LIGHT-001", "HVAC-001", "PLUG-001"}
  /\ IsTriple(Motor, "MTR-001", "MTR-002", "MTR-003")
  /\ IsTriple(Load, "LIGHT-001", "HVAC-001", "PLUG-001")
  /\ IsTriple({"MCC-001", "PP-001", "PV-001"}, "MCC-001", "PP-001", "PV-001")
  /\ LoadBus = {"MCC-001", "PP-001"}
  /\ "CAP-001" \notin {"MCC-001", "PP-001", "PV-001"}
BY DEF Motor, Load, LoadBus, IsTriple

(* Each node is solved once, in the order of the code, and all are.        *)
LEMMA MeteredIs ==
  /\ "PV-001" \notin Leaf /\ LoadBus \cap (Leaf \cup {"PV-001"}) = {}
  /\ "CAP-001" \notin Metered /\ "MSB-001" \notin Metered \cup {"CAP-001"}
  /\ "TX-001" \notin Metered \cup {"CAP-001"} \cup {"MSB-001"}
  /\ "UTIL-001" \notin Metered \cup {"CAP-001"} \cup {"MSB-001"} \cup {"TX-001"}
  /\ Metered \cup {"CAP-001"} \cup {"MSB-001"} \cup {"TX-001"} \cup {"UTIL-001"} = Node
  /\ Motor \subseteq Leaf /\ Load \subseteq Leaf /\ Metered \subseteq Node
  /\ {"MCC-001", "PP-001", "PV-001"} \subseteq Metered
BY DEF Metered, Node, Leaf, Motor, Load, LoadBus

(* The load buses balance, and leave their children alone.                 *)
LEMMA LoadBusesAre ==
  ASSUME NEW powers \in PowersOf(Leaf \cup {"PV-001"})
  PROVE  /\ WithLoadBuses(powers) \in PowersOf(Metered)
         /\ \A n \in Leaf \cup {"PV-001"} : WithLoadBuses(powers)[n] = powers[n]
         /\ LoadBusesBalance(WithLoadBuses(powers))
<1>1. \A n \in Leaf \cup {"PV-001"} : n \in Node /\ powers[n] \in Power
  BY MeteredIs DEF PowersOf, Metered
<1>2. PICK m : m = Aggregate("MCC-001", powers, {})
  OBVIOUS
<1>3. PICK r : r = Aggregate("PP-001", powers, {})
  OBVIOUS
<1>4. m = [p |-> Gross("MTR-001", powers["MTR-001"]).p + Gross("MTR-002", powers["MTR-002"]).p
                 + Gross("MTR-003", powers["MTR-003"]).p,
           q |-> Gross("MTR-001", powers["MTR-001"]).q + Gross("MTR-002", powers["MTR-002"]).q
                 + Gross("MTR-003", powers["MTR-003"]).q]
  <2>1. Motor = ChildrenOf("MCC-001") \ {}
    BY TreeIs, NamesApart
  <2>2. \A n \in Motor : n \in Node /\ powers[n] \in Power
    BY <1>1, MeteredIs
  <2>3. /\ "MTR-001" \in Motor /\ "MTR-002" \in Motor /\ "MTR-003" \in Motor
        /\ IsTriple(Motor, "MTR-001", "MTR-002", "MTR-003")
    BY NamesApart
  <2> QED
    BY <1>2, <2>1, <2>2, <2>3, AggregateOfThree
<1>5. r = [p |-> Gross("LIGHT-001", powers["LIGHT-001"]).p + Gross("HVAC-001", powers["HVAC-001"]).p
                 + Gross("PLUG-001", powers["PLUG-001"]).p,
           q |-> Gross("LIGHT-001", powers["LIGHT-001"]).q + Gross("HVAC-001", powers["HVAC-001"]).q
                 + Gross("PLUG-001", powers["PLUG-001"]).q]
  <2>1. Load = ChildrenOf("PP-001") \ {}
    BY TreeIs, NamesApart
  <2>2. \A n \in Load : n \in Node /\ powers[n] \in Power
    BY <1>1, MeteredIs
  <2>3. /\ "LIGHT-001" \in Load /\ "HVAC-001" \in Load /\ "PLUG-001" \in Load
        /\ IsTriple(Load, "LIGHT-001", "HVAC-001", "PLUG-001")
    BY NamesApart
  <2> QED
    BY <1>3, <2>1, <2>2, <2>3, AggregateOfThree
<1>6. m \in Power /\ r \in Power
  <2>1. ASSUME NEW n \in Leaf
        PROVE  Gross(n, powers[n]).p \in Int /\ Gross(n, powers[n]).q \in Int
    BY <1>1, GrossIs DEF Power
  <2>2. /\ "MTR-001" \in Leaf /\ "MTR-002" \in Leaf /\ "MTR-003" \in Leaf
        /\ "LIGHT-001" \in Leaf /\ "HVAC-001" \in Leaf /\ "PLUG-001" \in Leaf
    BY MeteredIs, NamesApart
  <2>3. m \in Power
    BY <1>4, <2>1, <2>2 DEF Power
  <2>4. r \in Power
    BY <1>5, <2>1, <2>2 DEF Power
  <2> QED
    BY <2>3, <2>4
<1>7. PICK e : e = WithLoadBuses(powers)
  OBVIOUS
<1>8. e = [n \in (Leaf \cup {"PV-001"}) \cup LoadBus |->
             IF n \in LoadBus THEN Aggregate(n, powers, {}) ELSE powers[n]]
  BY <1>7 DEF WithLoadBuses, PowersOf
<1>9. e["MCC-001"] = m /\ e["PP-001"] = r
  BY <1>2, <1>3, <1>8, NamesApart
<1>10. \A n \in Leaf \cup {"PV-001"} : n \notin LoadBus /\ e[n] = powers[n]
  BY <1>8, MeteredIs
<1>11. \A n \in (Leaf \cup {"PV-001"}) \cup LoadBus : e[n] \in Power
  BY <1>1, <1>6, <1>9, <1>10, NamesApart
<1>12. /\ "MTR-001" \in Leaf /\ "MTR-002" \in Leaf /\ "MTR-003" \in Leaf
       /\ "LIGHT-001" \in Leaf /\ "HVAC-001" \in Leaf /\ "PLUG-001" \in Leaf
  BY MeteredIs, NamesApart
<1>13. LoadBusesBalance(e)
  BY <1>4, <1>5, <1>9, <1>10, <1>12 DEF LoadBusesBalance
<1>14. e \in [(Leaf \cup {"PV-001"}) \cup LoadBus -> Power]
  BY <1>8, <1>11
<1> QED
  BY <1>7, <1>10, <1>13, <1>14 DEF PowersOf, Metered

(* The main bus carries what its children draw, the bank included.         *)
MainBusBalances(e) ==
  /\ e["MSB-001"].p = BusLoad(e).p + Gross("CAP-001", e["CAP-001"]).p
  /\ e["MSB-001"].q = BusLoad(e).q + Gross("CAP-001", e["CAP-001"]).q

(* The transformer adds its share, and the utility supplies it.            *)
SupplyBalances(e) ==
  /\ e["TX-001"].p = Gross("MSB-001", e["MSB-001"]).p + TxShare(e["MSB-001"]).p
  /\ e["TX-001"].q = Gross("MSB-001", e["MSB-001"]).q + TxShare(e["MSB-001"]).q
  /\ e["UTIL-001"].p = Gross("TX-001", e["TX-001"]).p
  /\ e["UTIL-001"].q = Gross("TX-001", e["TX-001"]).q

(* What the main bus carries without the bank.                             *)
LEMMA BusLoadIs ==
  ASSUME NEW e, \A n \in {"MCC-001", "PP-001", "PV-001"} : e[n] \in Power
  PROVE  /\ BusLoad(e).p = Gross("MCC-001", e["MCC-001"]).p + Gross("PP-001", e["PP-001"]).p
                           + Gross("PV-001", e["PV-001"]).p
         /\ BusLoad(e).q = Gross("MCC-001", e["MCC-001"]).q + Gross("PP-001", e["PP-001"]).q
                           + Gross("PV-001", e["PV-001"]).q
         /\ BusLoad(e).p \in Int /\ BusLoad(e).q \in Int
<1>1. PICK Fed : Fed = {"MCC-001", "PP-001", "PV-001"}
  OBVIOUS
<1>2. /\ "MCC-001" \in Node /\ "PP-001" \in Node /\ "PV-001" \in Node
      /\ "MCC-001" \in Fed /\ "PP-001" \in Fed /\ "PV-001" \in Fed
  BY <1>1, MeteredIs
<1>3. Fed = ChildrenOf("MSB-001") \ {"CAP-001"}
  BY <1>1, TreeIs, NamesApart
<1>4. IsTriple(Fed, "MCC-001", "PP-001", "PV-001")
  BY <1>1, NamesApart
<1>5. e["MCC-001"] \in Power /\ e["PP-001"] \in Power /\ e["PV-001"] \in Power
  OBVIOUS
<1>6. BusLoad(e) = [p |-> Gross("MCC-001", e["MCC-001"]).p + Gross("PP-001", e["PP-001"]).p
                          + Gross("PV-001", e["PV-001"]).p,
                    q |-> Gross("MCC-001", e["MCC-001"]).q + Gross("PP-001", e["PP-001"]).q
                          + Gross("PV-001", e["PV-001"]).q]
  BY <1>2, <1>3, <1>4, <1>5, AggregateOfThree DEF BusLoad
<1>7. ASSUME NEW n \in Node, e[n] \in Power
      PROVE  Gross(n, e[n]).p \in Int /\ Gross(n, e[n]).q \in Int
  BY <1>7, GrossIs DEF Power
<1> QED
  BY <1>2, <1>5, <1>6, <1>7

(* The share of the transformer is an integer of each power.               *)
LEMMA ShareIs ==
  ASSUME NEW e \in Power
  PROVE  TxShare(e).p \in Int /\ TxShare(e).q \in Int
<1>1. PICK x : x = Squared(e)
  OBVIOUS
<1>2. x \in Int
  BY <1>1, SquaredIs
<1>3. (31 + (210 * x) \div 6250000) \div 10 \in Int /\ 15 + (135 * x) \div 6250000 \in Int
  BY <1>2
<1> QED
  BY <1>1, <1>3 DEF TxShare

(* The upstream solution: it balances at the main bus, the transformer and *)
(* the utility, and leaves what is below alone.                            *)
LEMMA SolutionIs ==
  ASSUME NEW below \in PowersOf(Metered), NEW s \in Int, NEW e, e = Upstream(below, s)
  PROVE  /\ e \in PowersOf(Node)
         /\ \A n \in Metered : e[n] = below[n]
         /\ e["CAP-001"].p = 0 /\ e["CAP-001"].q = -(s * StageKvar)
         /\ MainBusBalances(e) /\ SupplyBalances(e)
         /\ BusLoad(e) = BusLoad(below)
<1>1. PICK e1 : e1 = WithBank(below, s)
  OBVIOUS
<1>2. PICK e2 : e2 = WithMainBus(e1)
  OBVIOUS
<1>3. PICK e3 : e3 = WithTransformer(e2)
  OBVIOUS
<1>4. e = WithUtility(e3)
  BY <1>1, <1>2, <1>3 DEF Upstream
<1>5. PICK c : c = [p |-> 0, q |-> -(s * StageKvar)]
  OBVIOUS
<1>6. c \in Power
  BY <1>5 DEF Power, StageKvar
<1>7. /\ e1 \in PowersOf(Metered \cup {"CAP-001"})
      /\ \A n \in Metered : e1[n] = below[n]
      /\ e1["CAP-001"] = c
  <2>1. e1 = With(below, "CAP-001", c)
    BY <1>1, <1>5 DEF WithBank
  <2>2. below \in PowersOf(Metered) /\ "CAP-001" \notin Metered
    BY MeteredIs
  <2> QED
    <3>1. IsWith(With(below, "CAP-001", c), below, Metered, "CAP-001", c)
      BY <1>6, <2>2, WithIs
    <3> QED
      BY <2>1, <3>1 DEF IsWith
<1>8. PICK b : b = Aggregate("MSB-001", e1, {})
  OBVIOUS
<1>9. /\ b.p = BusLoad(e1).p + Gross("CAP-001", e1["CAP-001"]).p
      /\ b.q = BusLoad(e1).q + Gross("CAP-001", e1["CAP-001"]).q
      /\ b \in Power
  <2>1. PICK Fed : Fed = {"MCC-001", "PP-001", "PV-001"}
    OBVIOUS
  <2>2. ChildrenOf("MSB-001") = Fed \cup {"CAP-001"} /\ "CAP-001" \notin Fed
    BY <2>1, TreeIs, NamesApart
  <2>3. IsTriple(Fed, "MCC-001", "PP-001", "PV-001")
    BY <2>1, NamesApart
  <2>4. /\ "MCC-001" \in Node /\ "PP-001" \in Node /\ "PV-001" \in Node /\ "CAP-001" \in Node
        /\ "MCC-001" \in Metered /\ "PP-001" \in Metered /\ "PV-001" \in Metered
    BY MeteredIs
  <2>5. /\ e1["MCC-001"] \in Power /\ e1["PP-001"] \in Power /\ e1["PV-001"] \in Power
        /\ e1["CAP-001"] \in Power
    BY <1>7, <2>4 DEF PowersOf
  <2>6. /\ Aggregate("MSB-001", e1, {}).p
             = Aggregate("MSB-001", e1, {"CAP-001"}).p + Gross("CAP-001", e1["CAP-001"]).p
        /\ Aggregate("MSB-001", e1, {}).q
             = Aggregate("MSB-001", e1, {"CAP-001"}).q + Gross("CAP-001", e1["CAP-001"]).q
        /\ Aggregate("MSB-001", e1, {}) \in Power
    BY <2>2, <2>3, <2>4, <2>5, AggregateOfFour
  <2> QED
    BY <1>8, <2>6 DEF BusLoad
<1>10. /\ e2 \in PowersOf((Metered \cup {"CAP-001"}) \cup {"MSB-001"})
       /\ \A n \in Metered \cup {"CAP-001"} : e2[n] = e1[n]
       /\ e2["MSB-001"] = b
  <2>1. e2 = With(e1, "MSB-001", b)
    BY <1>2, <1>8 DEF WithMainBus
  <2>2. PICK S : S = Metered \cup {"CAP-001"}
    OBVIOUS
  <2>3. e1 \in PowersOf(S) /\ "MSB-001" \notin S
    BY <1>7, <2>2, MeteredIs
  <2>9. IsWith(With(e1, "MSB-001", b), e1, S, "MSB-001", b)
    BY <1>9, <2>3, WithIs
  <2>4. e2 \in PowersOf(S \cup {"MSB-001"}) /\ (\A n \in S : e2[n] = e1[n]) /\ e2["MSB-001"] = b
    BY <2>1, <2>9 DEF IsWith
  <2> QED
    BY <2>2, <2>4
<1>11. PICK x : x = [p |-> Gross("MSB-001", b).p + TxShare(b).p,
                     q |-> Gross("MSB-001", b).q + TxShare(b).q]
  OBVIOUS
<1>12. x \in Power
  <2>1. /\ Gross("MSB-001", b).p \in Int /\ Gross("MSB-001", b).q \in Int
        /\ TxShare(b).p \in Int /\ TxShare(b).q \in Int
    BY <1>9, MeteredIs, GrossIs, ShareIs DEF Power
  <2> QED
    BY <1>11, <2>1 DEF Power
<1>13. /\ e3 \in PowersOf(((Metered \cup {"CAP-001"}) \cup {"MSB-001"}) \cup {"TX-001"})
       /\ \A n \in (Metered \cup {"CAP-001"}) \cup {"MSB-001"} : e3[n] = e2[n]
       /\ e3["TX-001"] = x
  <2>1. Aggregate("TX-001", e2, {}) = Gross("MSB-001", b)
    BY <1>9, <1>10, MeteredIs, TreeIs, AggregateOfOne
  <2>2. e3 = With(e2, "TX-001", x)
    BY <1>3, <1>10, <1>11, <2>1 DEF WithTransformer
  <2>3. PICK S : S = (Metered \cup {"CAP-001"}) \cup {"MSB-001"}
    OBVIOUS
  <2>4. e2 \in PowersOf(S) /\ "TX-001" \notin S
    BY <1>10, <2>3, MeteredIs
  <2>9. IsWith(With(e2, "TX-001", x), e2, S, "TX-001", x)
    BY <1>12, <2>4, WithIs
  <2>5. e3 \in PowersOf(S \cup {"TX-001"}) /\ (\A n \in S : e3[n] = e2[n]) /\ e3["TX-001"] = x
    BY <2>2, <2>9 DEF IsWith
  <2> QED
    BY <2>3, <2>5
<1>14. PICK u : u = Gross("TX-001", x)
  OBVIOUS
<1>15. u \in Power
  BY <1>12, <1>14, MeteredIs, GrossIs
<1>16. /\ e \in PowersOf(Node)
       /\ \A n \in ((Metered \cup {"CAP-001"}) \cup {"MSB-001"}) \cup {"TX-001"} : e[n] = e3[n]
       /\ e["UTIL-001"] = u
  <2>1. Aggregate("UTIL-001", e3, {}) = u
    BY <1>12, <1>13, <1>14, MeteredIs, TreeIs, AggregateOfOne
  <2>2. e = With(e3, "UTIL-001", u)
    BY <1>4, <2>1 DEF WithUtility
  <2>3. PICK S : S = ((Metered \cup {"CAP-001"}) \cup {"MSB-001"}) \cup {"TX-001"}
    OBVIOUS
  <2>4. e3 \in PowersOf(S) /\ "UTIL-001" \notin S /\ S \cup {"UTIL-001"} = Node
    BY <1>13, <2>3, MeteredIs
  <2>9. IsWith(With(e3, "UTIL-001", u), e3, S, "UTIL-001", u)
    BY <1>15, <2>4, WithIs
  <2>5. e \in PowersOf(S \cup {"UTIL-001"}) /\ (\A n \in S : e[n] = e3[n]) /\ e["UTIL-001"] = u
    BY <2>2, <2>9 DEF IsWith
  <2> QED
    BY <2>3, <2>4, <2>5
<1>17. /\ \A n \in Metered : e[n] = below[n] /\ e1[n] = below[n]
       /\ e["CAP-001"] = c /\ e1["CAP-001"] = c /\ e["MSB-001"] = b
       /\ e["TX-001"] = x /\ e["UTIL-001"] = u
  BY <1>7, <1>10, <1>13, <1>16
<1>18. BusLoad(e) = BusLoad(below) /\ BusLoad(e1) = BusLoad(below)
  <2>1. \A n \in {"MCC-001", "PP-001", "PV-001"} :
          e[n] = below[n] /\ e1[n] = below[n] /\ n \in ChildrenOf("MSB-001") \ {"CAP-001"}
    BY <1>17, MeteredIs, TreeIs, NamesApart
  <2>2. PICK Fed : Fed = ChildrenOf("MSB-001") \ {"CAP-001"}
    OBVIOUS
  <2>3. \A n \in Fed : e[n] = below[n] /\ e1[n] = below[n]
    BY <1>17, <2>2, MeteredIs, TreeIs
  <2>4. /\ GrossP(Fed, e) = GrossP(Fed, below) /\ GrossQ(Fed, e) = GrossQ(Fed, below)
        /\ GrossP(Fed, e1) = GrossP(Fed, below) /\ GrossQ(Fed, e1) = GrossQ(Fed, below)
    BY <2>3 DEF GrossP, GrossQ
  <2>5. \A r : BusLoad(r) = [p |-> SumOver(Fed, GrossP(Fed, r)), q |-> SumOver(Fed, GrossQ(Fed, r))]
    BY <2>2, AggregateIs DEF BusLoad
  <2> QED
    BY <2>4, <2>5
<1>19. MainBusBalances(e)
  BY <1>9, <1>17, <1>18 DEF MainBusBalances
<1>20. SupplyBalances(e)
  BY <1>11, <1>14, <1>17 DEF SupplyBalances
<1>21. e["CAP-001"].p = 0 /\ e["CAP-001"].q = -(s * StageKvar)
  BY <1>5, <1>17
<1> QED
  BY <1>16, <1>17, <1>18, <1>19, <1>20, <1>21

-----------------------------------------------------------------------------
(* The utility supplies all.                                                 *)

(* The children of the main bus that load it, and the rest of the line.    *)
Buses == {"MCC-001", "PP-001", "PV-001"}
Line == {"CAP-001", "MSB-001", "TX-001"}

(* The groups the sums are taken over have no element in common.           *)
LEMMA GroupsApart ==
  /\ Leaf \cup {"PV-001"} = (Motor \cup Load) \cup {"PV-001"} /\ "PV-001" \notin Motor \cup Load
  /\ Node \ {"UTIL-001"} = (Motor \cup Load) \cup (Buses \cup Line)
  /\ Motor \cap Load = {} /\ Buses \cap Line = {} /\ (Motor \cup Load) \cap (Buses \cup Line) = {}
  /\ IsTriple(Buses, "MCC-001", "PP-001", "PV-001")
  /\ IsTriple(Line, "CAP-001", "MSB-001", "TX-001")
BY DEF Node, Leaf, Motor, Load, LoadBus, Buses, Line, IsTriple

(* The sum over the leaves.                                                *)
LEMMA SumOfLeaves ==
  ASSUME NEW f, \A n \in Motor \cup Load : f[n] \in Int
  PROVE  /\ SumOver(Motor \cup Load, f) = f["MTR-001"] + f["MTR-002"] + f["MTR-003"]
                                          + f["LIGHT-001"] + f["HVAC-001"] + f["PLUG-001"]
         /\ IsFiniteSet(Motor \cup Load)
         /\ SumOver(Motor \cup Load, f) \in Int
<1>1. \A n \in Motor : f[n] \in Int
  OBVIOUS
<1>2. \A n \in Load : f[n] \in Int
  OBVIOUS
<1>3. SumOver(Motor, f) = f["MTR-001"] + f["MTR-002"] + f["MTR-003"] /\ IsFiniteSet(Motor)
  BY <1>1, NamesApart, SumOfThree
<1>4. SumOver(Load, f) = f["LIGHT-001"] + f["HVAC-001"] + f["PLUG-001"] /\ IsFiniteSet(Load)
  BY <1>2, NamesApart, SumOfThree
<1>5. /\ SumOver(Motor \cup Load, f) = SumOver(Motor, f) + SumOver(Load, f)
      /\ SumOver(Motor, f) \in Int /\ SumOver(Load, f) \in Int
  BY <1>3, <1>4, GroupsApart, SumOfBoth
<1>6. IsFiniteSet(Motor \cup Load)
  BY <1>3, <1>4, FS_Union
<1>7. /\ f["MTR-001"] \in Int /\ f["MTR-002"] \in Int /\ f["MTR-003"] \in Int
      /\ f["LIGHT-001"] \in Int /\ f["HVAC-001"] \in Int /\ f["PLUG-001"] \in Int
  BY <1>1, <1>2, NamesApart
<1> QED
  BY <1>3, <1>4, <1>5, <1>6, <1>7

(* The sum over the leaves and the PV.                                     *)
LEMMA SumOfTaking ==
  ASSUME NEW f, \A n \in Leaf \cup {"PV-001"} : f[n] \in Int
  PROVE  SumOver(Leaf \cup {"PV-001"}, f) =
           f["MTR-001"] + f["MTR-002"] + f["MTR-003"]
           + f["LIGHT-001"] + f["HVAC-001"] + f["PLUG-001"] + f["PV-001"]
<1>1. PICK L : L = Motor \cup Load
  OBVIOUS
<1>2. \A n \in L \cup {"PV-001"} : f[n] \in Int
  BY <1>1, GroupsApart
<1>3. /\ SumOver(L, f) = f["MTR-001"] + f["MTR-002"] + f["MTR-003"]
                         + f["LIGHT-001"] + f["HVAC-001"] + f["PLUG-001"]
      /\ IsFiniteSet(L)
  BY <1>1, <1>2, SumOfLeaves
<1>4. SumOver(L \cup {"PV-001"}, f) = SumOver(L, f) + f["PV-001"]
  BY <1>1, <1>2, <1>3, GroupsApart, SumOfOneMore
<1> QED
  BY <1>1, <1>3, <1>4, GroupsApart

(* The sum over every node but the utility.                                *)
LEMMA SumOfFed ==
  ASSUME NEW f, \A n \in Node \ {"UTIL-001"} : f[n] \in Int
  PROVE  SumOver(Node \ {"UTIL-001"}, f) =
           f["MTR-001"] + f["MTR-002"] + f["MTR-003"]
           + f["LIGHT-001"] + f["HVAC-001"] + f["PLUG-001"]
           + f["MCC-001"] + f["PP-001"] + f["PV-001"]
           + f["CAP-001"] + f["MSB-001"] + f["TX-001"]
<1>1. PICK L, U, F : L = Motor \cup Load /\ U = Buses \cup Line /\ F = Node \ {"UTIL-001"}
  OBVIOUS
<1>2. F = L \cup U /\ L \cap U = {}
  BY <1>1, GroupsApart
<1>3. /\ SumOver(L, f) = f["MTR-001"] + f["MTR-002"] + f["MTR-003"]
                         + f["LIGHT-001"] + f["HVAC-001"] + f["PLUG-001"]
      /\ IsFiniteSet(L)
  <2>1. \A n \in Motor \cup Load : f[n] \in Int
    BY <1>1, <1>2
  <2> QED
    BY <1>1, <2>1, SumOfLeaves
<1>4. \A n \in U : f[n] \in Int
  BY <1>1, <1>2
<1>5. SumOver(Buses, f) = f["MCC-001"] + f["PP-001"] + f["PV-001"] /\ IsFiniteSet(Buses)
  <2>1. \A n \in Buses : f[n] \in Int
    BY <1>1, <1>4
  <2> QED
    BY <2>1, GroupsApart, SumOfThree
<1>6. SumOver(Line, f) = f["CAP-001"] + f["MSB-001"] + f["TX-001"] /\ IsFiniteSet(Line)
  <2>1. \A n \in Line : f[n] \in Int
    BY <1>1, <1>4
  <2> QED
    BY <2>1, GroupsApart, SumOfThree
<1>7. SumOver(U, f) = SumOver(Buses, f) + SumOver(Line, f) /\ IsFiniteSet(U)
  <2>1. \A n \in Buses \cup Line : f[n] \in Int
    BY <1>1, <1>4
  <2>2. SumOver(Buses \cup Line, f) = SumOver(Buses, f) + SumOver(Line, f)
    BY <1>5, <1>6, <2>1, GroupsApart, SumOfBoth
  <2>3. IsFiniteSet(Buses \cup Line)
    BY <1>5, <1>6, FS_Union
  <2> QED
    BY <1>1, <2>2, <2>3
<1>8. SumOver(L \cup U, f) = SumOver(L, f) + SumOver(U, f)
  <2>1. \A n \in L \cup U : f[n] \in Int
    BY <1>1, <1>2
  <2>2. IsFiniteSet(L) /\ IsFiniteSet(U) /\ L \cap U = {}
    BY <1>2, <1>3, <1>7
  <2> QED
    BY <2>1, <2>2, SumOfBoth
<1>9. /\ f["MTR-001"] \in Int /\ f["MTR-002"] \in Int /\ f["MTR-003"] \in Int
      /\ f["LIGHT-001"] \in Int /\ f["HVAC-001"] \in Int /\ f["PLUG-001"] \in Int
  BY <1>1, <1>2, NamesApart
<1>10. /\ f["MCC-001"] \in Int /\ f["PP-001"] \in Int /\ f["PV-001"] \in Int
       /\ f["CAP-001"] \in Int /\ f["MSB-001"] \in Int /\ f["TX-001"] \in Int
  BY <1>1, <1>4 DEF Buses, Line
<1>11. SumOver(F, f) = (f["MTR-001"] + f["MTR-002"] + f["MTR-003"]
                        + f["LIGHT-001"] + f["HVAC-001"] + f["PLUG-001"])
                       + ((f["MCC-001"] + f["PP-001"] + f["PV-001"])
                          + (f["CAP-001"] + f["MSB-001"] + f["TX-001"]))
  BY <1>2, <1>3, <1>5, <1>6, <1>7, <1>8
<1> QED
  BY <1>1, <1>9, <1>10, <1>11

(* The equation of UtilitySuppliesAll, of any solution.                    *)
LEMMA AllIsSupplied ==
  ASSUME NEW e \in PowersOf(Node), NEW s \in Int, LoadBusesBalance(e),
         MainBusBalances(e), SupplyBalances(e),
         e["CAP-001"].p = 0, e["CAP-001"].q = -(s * StageKvar)
  PROVE  /\ e["UTIL-001"].p =
              SumOver(Leaf \cup {"PV-001"}, [n \in Leaf \cup {"PV-001"} |-> e[n].p])
              + TxShare(e["MSB-001"]).p
              + SumOver(Node \ {"UTIL-001"}, [n \in Node \ {"UTIL-001"} |-> FeederLoss(n, e[n]).p])
         /\ e["UTIL-001"].q =
              SumOver(Leaf \cup {"PV-001"}, [n \in Leaf \cup {"PV-001"} |-> e[n].q])
              + TxShare(e["MSB-001"]).q
              + SumOver(Node \ {"UTIL-001"}, [n \in Node \ {"UTIL-001"} |-> FeederLoss(n, e[n]).q])
              - s * StageKvar
<1>1. PICK T, F : T = Leaf \cup {"PV-001"} /\ F = Node \ {"UTIL-001"}
  OBVIOUS
<1>2. PICK p, q : p = [n \in Node |-> e[n].p] /\ q = [n \in Node |-> e[n].q]
  OBVIOUS
<1>3. PICK a, b : a = [n \in F |-> FeederLoss(n, e[n]).p] /\ b = [n \in F |-> FeederLoss(n, e[n]).q]
  OBVIOUS
<1>4. PICK tp, tq : tp = [n \in T |-> e[n].p] /\ tq = [n \in T |-> e[n].q]
  OBVIOUS
<1>5. /\ "MTR-001" \in T /\ "MTR-002" \in T /\ "MTR-003" \in T
      /\ "LIGHT-001" \in T /\ "HVAC-001" \in T /\ "PLUG-001" \in T /\ "PV-001" \in T
  BY <1>1, NamesApart, GroupsApart
<1>6. T \subseteq F /\ T \subseteq Node /\ F \subseteq Node
  BY <1>1 DEF Node, Leaf, Motor, Load, LoadBus
<1>7. /\ "MCC-001" \in F /\ "PP-001" \in F /\ "CAP-001" \in F
      /\ "MSB-001" \in F /\ "TX-001" \in F
  BY <1>1 DEF Node, LoadBus
<1>8. ASSUME NEW n \in F
      PROVE  /\ p[n] = e[n].p /\ q[n] = e[n].q /\ p[n] \in Int /\ q[n] \in Int
             /\ a[n] = FeederLoss(n, e[n]).p /\ a[n] \in Int
             /\ b[n] = FeederLoss(n, e[n]).q /\ b[n] \in Int
             /\ Gross(n, e[n]).p = p[n] + a[n] /\ Gross(n, e[n]).q = q[n] + b[n]
  <2>1. n \in Node /\ e[n] \in Power
    BY <1>6 DEF PowersOf
  <2>2. FeederLoss(n, e[n]).p \in Nat /\ FeederLoss(n, e[n]).q \in Nat
    BY <2>1, LossIs
  <2>3. e[n].p \in Int /\ e[n].q \in Int
    BY <2>1 DEF Power
  <2>4. p[n] = e[n].p /\ q[n] = e[n].q /\ a[n] = FeederLoss(n, e[n]).p /\ b[n] = FeederLoss(n, e[n]).q
    BY <1>2, <1>3, <2>1
  <2>5. /\ Gross(n, e[n]).p = e[n].p + FeederLoss(n, e[n]).p
        /\ Gross(n, e[n]).q = e[n].q + FeederLoss(n, e[n]).q
    BY <2>1, GrossIs
  <2> QED
    BY <2>2, <2>3, <2>4, <2>5
<1>9. \A n \in T : tp[n] = p[n] /\ tq[n] = q[n] /\ tp[n] \in Int /\ tq[n] \in Int
  BY <1>4, <1>6, <1>8
<1>10. SumOver(T, tp) = p["MTR-001"] + p["MTR-002"] + p["MTR-003"]
                        + p["LIGHT-001"] + p["HVAC-001"] + p["PLUG-001"] + p["PV-001"]
  <2>1. SumOver(T, tp) = tp["MTR-001"] + tp["MTR-002"] + tp["MTR-003"]
                         + tp["LIGHT-001"] + tp["HVAC-001"] + tp["PLUG-001"] + tp["PV-001"]
    BY <1>1, <1>9, SumOfTaking
  <2> QED
    BY <1>5, <1>9, <2>1
<1>11. SumOver(T, tq) = q["MTR-001"] + q["MTR-002"] + q["MTR-003"]
                        + q["LIGHT-001"] + q["HVAC-001"] + q["PLUG-001"] + q["PV-001"]
  <2>1. SumOver(T, tq) = tq["MTR-001"] + tq["MTR-002"] + tq["MTR-003"]
                         + tq["LIGHT-001"] + tq["HVAC-001"] + tq["PLUG-001"] + tq["PV-001"]
    BY <1>1, <1>9, SumOfTaking
  <2> QED
    BY <1>5, <1>9, <2>1
<1>12. SumOver(F, a) = a["MTR-001"] + a["MTR-002"] + a["MTR-003"]
                       + a["LIGHT-001"] + a["HVAC-001"] + a["PLUG-001"]
                       + a["MCC-001"] + a["PP-001"] + a["PV-001"]
                       + a["CAP-001"] + a["MSB-001"] + a["TX-001"]
  BY <1>1, <1>8, SumOfFed
<1>13. SumOver(F, b) = b["MTR-001"] + b["MTR-002"] + b["MTR-003"]
                       + b["LIGHT-001"] + b["HVAC-001"] + b["PLUG-001"]
                       + b["MCC-001"] + b["PP-001"] + b["PV-001"]
                       + b["CAP-001"] + b["MSB-001"] + b["TX-001"]
  BY <1>1, <1>8, SumOfFed
<1>14. PICK sp, sq : sp = TxShare(e["MSB-001"]).p /\ sq = TxShare(e["MSB-001"]).q
  OBVIOUS
<1>15. sp \in Int /\ sq \in Int
  BY <1>6, <1>7, <1>14, ShareIs DEF PowersOf
<1>16. /\ p["MCC-001"] = (p["MTR-001"] + a["MTR-001"]) + (p["MTR-002"] + a["MTR-002"])
                         + (p["MTR-003"] + a["MTR-003"])
       /\ p["PP-001"] = (p["LIGHT-001"] + a["LIGHT-001"]) + (p["HVAC-001"] + a["HVAC-001"])
                        + (p["PLUG-001"] + a["PLUG-001"])
  BY <1>5, <1>6, <1>7, <1>8 DEF LoadBusesBalance
<1>17. /\ q["MCC-001"] = (q["MTR-001"] + b["MTR-001"]) + (q["MTR-002"] + b["MTR-002"])
                         + (q["MTR-003"] + b["MTR-003"])
       /\ q["PP-001"] = (q["LIGHT-001"] + b["LIGHT-001"]) + (q["HVAC-001"] + b["HVAC-001"])
                        + (q["PLUG-001"] + b["PLUG-001"])
  BY <1>5, <1>6, <1>7, <1>8 DEF LoadBusesBalance
<1>18. \A n \in Buses : n \in F /\ e[n] \in Power
  BY <1>1, <1>6, GroupsApart DEF PowersOf
<1>19. /\ BusLoad(e).p = Gross("MCC-001", e["MCC-001"]).p + Gross("PP-001", e["PP-001"]).p
                         + Gross("PV-001", e["PV-001"]).p
       /\ BusLoad(e).q = Gross("MCC-001", e["MCC-001"]).q + Gross("PP-001", e["PP-001"]).q
                         + Gross("PV-001", e["PV-001"]).q
  BY <1>18, BusLoadIs DEF Buses
<1>20. p["MSB-001"] = (p["MCC-001"] + a["MCC-001"]) + (p["PP-001"] + a["PP-001"])
                      + (p["PV-001"] + a["PV-001"]) + (p["CAP-001"] + a["CAP-001"])
  BY <1>5, <1>6, <1>7, <1>8, <1>19 DEF MainBusBalances
<1>21. q["MSB-001"] = (q["MCC-001"] + b["MCC-001"]) + (q["PP-001"] + b["PP-001"])
                      + (q["PV-001"] + b["PV-001"]) + (q["CAP-001"] + b["CAP-001"])
  BY <1>5, <1>6, <1>7, <1>8, <1>19 DEF MainBusBalances
<1>22. /\ p["TX-001"] = (p["MSB-001"] + a["MSB-001"]) + sp
       /\ q["TX-001"] = (q["MSB-001"] + b["MSB-001"]) + sq
  BY <1>7, <1>8, <1>14 DEF SupplyBalances
<1>23. /\ e["UTIL-001"].p = p["TX-001"] + a["TX-001"]
       /\ e["UTIL-001"].q = q["TX-001"] + b["TX-001"]
  BY <1>7, <1>8 DEF SupplyBalances
<1>24. PICK k : k = s * StageKvar
  OBVIOUS
<1>25. k \in Int /\ p["CAP-001"] = 0 /\ q["CAP-001"] = -k
  BY <1>7, <1>8, <1>24 DEF StageKvar
<1>26. \A n \in F : p[n] \in Int /\ q[n] \in Int /\ a[n] \in Int /\ b[n] \in Int
  BY <1>8
<1>32. /\ p["MTR-001"] \in Int /\ p["MTR-002"] \in Int /\ p["MTR-003"] \in Int
       /\ p["LIGHT-001"] \in Int /\ p["HVAC-001"] \in Int /\ p["PLUG-001"] \in Int
       /\ p["MCC-001"] \in Int /\ p["PP-001"] \in Int /\ p["PV-001"] \in Int
       /\ p["CAP-001"] \in Int /\ p["MSB-001"] \in Int /\ p["TX-001"] \in Int
       /\ a["MTR-001"] \in Int /\ a["MTR-002"] \in Int /\ a["MTR-003"] \in Int
       /\ a["LIGHT-001"] \in Int /\ a["HVAC-001"] \in Int /\ a["PLUG-001"] \in Int
       /\ a["MCC-001"] \in Int /\ a["PP-001"] \in Int /\ a["PV-001"] \in Int
       /\ a["CAP-001"] \in Int /\ a["MSB-001"] \in Int /\ a["TX-001"] \in Int
  BY <1>5, <1>6, <1>7, <1>26
<1>33. /\ q["MTR-001"] \in Int /\ q["MTR-002"] \in Int /\ q["MTR-003"] \in Int
       /\ q["LIGHT-001"] \in Int /\ q["HVAC-001"] \in Int /\ q["PLUG-001"] \in Int
       /\ q["MCC-001"] \in Int /\ q["PP-001"] \in Int /\ q["PV-001"] \in Int
       /\ q["CAP-001"] \in Int /\ q["MSB-001"] \in Int /\ q["TX-001"] \in Int
       /\ b["MTR-001"] \in Int /\ b["MTR-002"] \in Int /\ b["MTR-003"] \in Int
       /\ b["LIGHT-001"] \in Int /\ b["HVAC-001"] \in Int /\ b["PLUG-001"] \in Int
       /\ b["MCC-001"] \in Int /\ b["PP-001"] \in Int /\ b["PV-001"] \in Int
       /\ b["CAP-001"] \in Int /\ b["MSB-001"] \in Int /\ b["TX-001"] \in Int
  BY <1>5, <1>6, <1>7, <1>26
<1>27. e["UTIL-001"].p = SumOver(T, tp) + sp + SumOver(F, a)
  <2>1. PICK x, y : /\ x = p["MTR-001"] + p["MTR-002"] + p["MTR-003"]
                         + p["LIGHT-001"] + p["HVAC-001"] + p["PLUG-001"]
                    /\ y = a["MTR-001"] + a["MTR-002"] + a["MTR-003"]
                         + a["LIGHT-001"] + a["HVAC-001"] + a["PLUG-001"]
    OBVIOUS
  <2>2. x \in Int /\ y \in Int
    BY <1>32, <2>1
  <2>3. p["MCC-001"] + p["PP-001"] = x + y
    BY <1>32, <1>16, <2>1
  <2>4. SumOver(T, tp) = x + p["PV-001"]
    BY <1>10, <2>1
  <2>5. SumOver(F, a) = y + (a["MCC-001"] + a["PP-001"] + a["PV-001"]
                             + a["CAP-001"] + a["MSB-001"] + a["TX-001"])
    BY <1>12, <1>32, <2>1
  <2>6. p["MSB-001"] = (x + y) + a["MCC-001"] + a["PP-001"] + p["PV-001"]
                       + a["PV-001"] + p["CAP-001"] + a["CAP-001"]
    BY <1>20, <1>32, <2>2, <2>3
  <2>7. e["UTIL-001"].p = p["MSB-001"] + a["MSB-001"] + sp + a["TX-001"]
    BY <1>22, <1>23
  <2> QED
    BY <1>15, <1>25, <1>32, <2>2, <2>4, <2>5, <2>6, <2>7
<1>28. e["UTIL-001"].q = SumOver(T, tq) + sq + SumOver(F, b) - k
  <2>1. PICK x, y : /\ x = q["MTR-001"] + q["MTR-002"] + q["MTR-003"]
                         + q["LIGHT-001"] + q["HVAC-001"] + q["PLUG-001"]
                    /\ y = b["MTR-001"] + b["MTR-002"] + b["MTR-003"]
                         + b["LIGHT-001"] + b["HVAC-001"] + b["PLUG-001"]
    OBVIOUS
  <2>2. x \in Int /\ y \in Int
    BY <1>33, <2>1
  <2>3. q["MCC-001"] + q["PP-001"] = x + y
    BY <1>33, <1>17, <2>1
  <2>4. SumOver(T, tq) = x + q["PV-001"]
    BY <1>11, <2>1
  <2>5. SumOver(F, b) = y + (b["MCC-001"] + b["PP-001"] + b["PV-001"]
                             + b["CAP-001"] + b["MSB-001"] + b["TX-001"])
    BY <1>13, <1>33, <2>1
  <2>6. q["MSB-001"] = (x + y) + b["MCC-001"] + b["PP-001"] + q["PV-001"]
                       + b["PV-001"] + q["CAP-001"] + b["CAP-001"]
    BY <1>21, <1>33, <2>2, <2>3
  <2>7. e["UTIL-001"].q = q["MSB-001"] + b["MSB-001"] + sq + b["TX-001"]
    BY <1>22, <1>23
  <2> QED
    BY <1>15, <1>25, <1>33, <2>2, <2>4, <2>5, <2>6, <2>7
<1>29. /\ tp = [n \in Leaf \cup {"PV-001"} |-> e[n].p] /\ tq = [n \in Leaf \cup {"PV-001"} |-> e[n].q]
       /\ a = [n \in Node \ {"UTIL-001"} |-> FeederLoss(n, e[n]).p]
       /\ b = [n \in Node \ {"UTIL-001"} |-> FeederLoss(n, e[n]).q]
  BY <1>1, <1>3, <1>4
<1>30. e["UTIL-001"].p = SumOver(Leaf \cup {"PV-001"}, tp) + TxShare(e["MSB-001"]).p
                         + SumOver(Node \ {"UTIL-001"}, a)
  BY <1>1, <1>14, <1>27
<1>31. e["UTIL-001"].q = SumOver(Leaf \cup {"PV-001"}, tq) + TxShare(e["MSB-001"]).q
                         + SumOver(Node \ {"UTIL-001"}, b) - s * StageKvar
  BY <1>1, <1>14, <1>24, <1>28
<1> QED
  BY <1>29, <1>30, <1>31

-----------------------------------------------------------------------------
(* The drivers.                                                              *)

(* The interpolation between two break-points stays between them.          *)
LEMMA Between ==
  ASSUME NEW x \in Int, NEW a1 \in Int, NEW a2 \in Int, NEW b1 \in Int, NEW b2 \in Int,
         a1 < b1, a1 =< x, x =< b1, NEW c \in Int, c =< a2, c =< b2
  PROVE  /\ a2 + ((x - a1) * (b2 - a2)) \div (b1 - a1) \in Int
         /\ c =< a2 + ((x - a1) * (b2 - a2)) \div (b1 - a1)
<1>1. PICK u, v, w : u = x - a1 /\ v = b2 - a2 /\ w = b1 - a1
  OBVIOUS
<1>2. u \in Nat /\ v \in Int /\ w \in Nat /\ w > 0 /\ u =< w
  BY <1>1
<1>3. PICK z : z = u * v
  OBVIOUS
<1>4. z \in Int
  BY <1>2, <1>3
<1>5. z \div w \in Int
  BY <1>2, <1>4
<1>6. CASE v >= 0
  <2>1. z >= 0
    BY <1>2, <1>3, <1>6
  <2>2. z \div w >= 0
    BY <1>2, <1>4, <2>1
  <2> QED
    BY <1>1, <1>3, <1>5, <2>2
<1>7. CASE v < 0
  <2>1. z >= w * v
    BY <1>2, <1>3, <1>7
  <2>2. z \div w >= v
    BY <1>2, <1>4, <2>1
  <2> QED
    BY <1>1, <1>3, <1>5, <2>2
<1> QED
  BY <1>2, <1>6, <1>7

(* A table of break-points: abscissae rise, from one end of the day to the *)
(* other.                                                                  *)
IsTable(points, n) ==
  /\ n \in Nat /\ n >= 2 /\ Len(points) = n
  /\ \A k \in 1 .. n : points[k][1] \in Int /\ points[k][2] \in Int
  /\ \A k \in 1 .. n - 1 : points[k][1] < points[k + 1][1]

(* x lies inside the table, and the break-points around it are no lower    *)
(* than c.                                                                 *)
NoLowerAround(points, n, x, c) ==
  /\ \A k \in 1 .. n - 1 : (points[k][1] =< x /\ x =< points[k + 1][1])
                            => c =< points[k][2] /\ c =< points[k + 1][2]
  /\ points[1][1] < x /\ x < points[n][1]

(* A profile is no lower than the break-points around x.                   *)
LEMMA PwlIs ==
  ASSUME NEW points, NEW n, IsTable(points, n), NEW x \in Int, NEW c \in Int,
         NoLowerAround(points, n, x, c)
  PROVE  Pwl(x, points) \in Int /\ c =< Pwl(x, points)
<1>0. /\ \A k \in 1 .. n - 1 : (points[k][1] =< x /\ x =< points[k + 1][1])
                                => c =< points[k][2] /\ c =< points[k + 1][2]
      /\ points[1][1] < x /\ x < points[n][1]
  BY DEF NoLowerAround
<1>1. /\ n \in Nat /\ n >= 2 /\ Len(points) = n
      /\ \A k \in 1 .. n : points[k][1] \in Int /\ points[k][2] \in Int
      /\ \A k \in 1 .. n - 1 : points[k][1] < points[k + 1][1]
  BY DEF IsTable
<1>2. \E k \in 1 .. n - 1 : points[k][1] =< x /\ x =< points[k + 1][1]
  <2>1. PICK K : K = {k \in Nat : 1 =< k /\ k =< n /\ x < points[k][1]}
    OBVIOUS
  <2>2. K \in SUBSET Nat /\ n \in K
    BY <1>0, <1>1, <2>1
  <2>3. PICK k \in K : \A m \in K : k <= m
    BY <2>2, LeastExists
  <2>4. k \in Nat /\ 1 =< k /\ k =< n /\ x < points[k][1]
    BY <2>1, <2>3
  <2>5. k # 1
    BY <1>0, <1>1, <2>4
  <2>6. PICK j : j = k - 1
    OBVIOUS
  <2>7. j \in 1 .. n - 1 /\ j \in Nat /\ j + 1 = k /\ j \notin K
    BY <1>1, <2>3, <2>4, <2>5, <2>6
  <2>8. ~(x < points[j][1])
    BY <1>1, <2>1, <2>7
  <2>9. points[j][1] \in Int
    BY <1>1, <2>7
  <2> QED
    BY <1>1, <2>4, <2>7, <2>8, <2>9
<1>3. PICK i : i = CHOOSE k \in 1 .. (Len(points) - 1) :
                     points[k][1] =< x /\ x =< points[k + 1][1]
  OBVIOUS
<1>4. i \in 1 .. n - 1 /\ points[i][1] =< x /\ x =< points[i + 1][1]
  BY <1>1, <1>2, <1>3
<1>5. PICK a1, a2, b1, b2 : /\ a1 = points[i][1] /\ a2 = points[i][2]
                            /\ b1 = points[i + 1][1] /\ b2 = points[i + 1][2]
  OBVIOUS
<1>6. /\ a1 \in Int /\ a2 \in Int /\ b1 \in Int /\ b2 \in Int /\ a1 < b1
      /\ a1 =< x /\ x =< b1 /\ c =< a2 /\ c =< b2
  BY <1>0, <1>1, <1>4, <1>5
<1>7. Pwl(x, points) = a2 + ((x - a1) * (b2 - a2)) \div (b1 - a1)
  <2>1. ~(x =< points[1][1]) /\ ~(x >= points[Len(points)][1])
    BY <1>0, <1>1
  <2> QED
    BY <1>3, <1>5, <2>1 DEF Pwl
<1> QED
  BY <1>6, <1>7, Between

(* At or ahead of the first break-point.                                   *)
LEMMA PwlAtStart ==
  ASSUME NEW points, NEW x, x =< points[1][1]
  PROVE  Pwl(x, points) = points[1][2]
BY DEF Pwl

(* A day has 48 half hours.                                                *)
LEMMA HalfHourIs ==
  ASSUME NEW m \in Int
  PROVE  HalfHour(m) \in 0 .. 47
BY DEF HalfHour

(* The four profiles are tables.                                           *)
LEMMA TablesAre ==
  /\ IsTable(ShiftWeekday, 9) /\ IsTable(ShiftWeekend, 6)
  /\ IsTable(OccWeekday, 9) /\ IsTable(OccWeekend, 6)
<1>1. IsTable(ShiftWeekday, 9)
  BY DEF IsTable, ShiftWeekday
<1>2. IsTable(ShiftWeekend, 6)
  BY DEF IsTable, ShiftWeekend
<1>3. IsTable(OccWeekday, 9)
  BY DEF IsTable, OccWeekday
<1>4. IsTable(OccWeekend, 6)
  BY DEF IsTable, OccWeekend
<1> QED
  BY <1>1, <1>2, <1>3, <1>4

(* The shift never falls below a tenth, nor below 40 % while the sun is    *)
(* high.                                                                   *)
LEMMA ShiftIs ==
  ASSUME NEW m \in Int
  PROVE  /\ ShiftFactor(m) \in Int /\ ShiftFactor(m) >= 10
         /\ HalfHour(m) \in 19 .. 29 => ShiftFactor(m) >= 40
<1>1. PICK x : x = HalfHour(m)
  OBVIOUS
<1>2. x \in 0 .. 47 /\ x \in Int
  BY <1>1, HalfHourIs
<1>3. /\ Pwl(x, ShiftWeekday) \in Int /\ Pwl(x, ShiftWeekday) >= 10
      /\ x \in 19 .. 29 => Pwl(x, ShiftWeekday) >= 40
  <2>1. CASE x = 0
    <3>1. ShiftWeekday[1][1] = 0 /\ ShiftWeekday[1][2] = 15
      BY DEF ShiftWeekday
    <3>2. Pwl(x, ShiftWeekday) = 15
      BY <2>1, <3>1, PwlAtStart
    <3> QED
      BY <2>1, <3>2
  <2>2. CASE x # 0
    <3>1. NoLowerAround(ShiftWeekday, 9, x, 10)
      BY <1>2, <2>2 DEF NoLowerAround, ShiftWeekday
    <3>2. Pwl(x, ShiftWeekday) \in Int /\ 10 =< Pwl(x, ShiftWeekday)
      BY <1>2, <3>1, TablesAre, PwlIs
    <3>3. ASSUME x \in 19 .. 29 PROVE 40 =< Pwl(x, ShiftWeekday)
      <4>1. NoLowerAround(ShiftWeekday, 9, x, 40)
        BY <1>2, <3>3 DEF NoLowerAround, ShiftWeekday
      <4> QED
        BY <1>2, <4>1, TablesAre, PwlIs
    <3> QED
      BY <1>2, <3>2, <3>3
  <2> QED
    BY <2>1, <2>2
<1>4. /\ Pwl(x, ShiftWeekend) \in Int /\ Pwl(x, ShiftWeekend) >= 10
      /\ x \in 19 .. 29 => Pwl(x, ShiftWeekend) >= 40
  <2>1. CASE x = 0
    <3>1. ShiftWeekend[1][1] = 0 /\ ShiftWeekend[1][2] = 10
      BY DEF ShiftWeekend
    <3>2. Pwl(x, ShiftWeekend) = 10
      BY <2>1, <3>1, PwlAtStart
    <3> QED
      BY <2>1, <3>2
  <2>2. CASE x # 0
    <3>1. NoLowerAround(ShiftWeekend, 6, x, 10)
      BY <1>2, <2>2 DEF NoLowerAround, ShiftWeekend
    <3>2. Pwl(x, ShiftWeekend) \in Int /\ 10 =< Pwl(x, ShiftWeekend)
      BY <1>2, <3>1, TablesAre, PwlIs
    <3>3. ASSUME x \in 19 .. 29 PROVE 40 =< Pwl(x, ShiftWeekend)
      <4>1. NoLowerAround(ShiftWeekend, 6, x, 40)
        BY <1>2, <3>3 DEF NoLowerAround, ShiftWeekend
      <4> QED
        BY <1>2, <4>1, TablesAre, PwlIs
    <3> QED
      BY <1>2, <3>2, <3>3
  <2> QED
    BY <2>1, <2>2
<1> QED
  BY <1>1, <1>3, <1>4 DEF ShiftFactor

(* Occupancy is never negative.                                            *)
LEMMA OccupancyIs ==
  ASSUME NEW m \in Int
  PROVE  OccupancyFactor(m) \in Int /\ OccupancyFactor(m) >= 0
<1>1. PICK x : x = HalfHour(m)
  OBVIOUS
<1>2. x \in 0 .. 47 /\ x \in Int
  BY <1>1, HalfHourIs
<1>3. Pwl(x, OccWeekday) \in Int /\ Pwl(x, OccWeekday) >= 0
  <2>1. CASE x = 0
    <3>1. OccWeekday[1][1] = 0 /\ OccWeekday[1][2] = 5
      BY DEF OccWeekday
    <3>2. Pwl(x, OccWeekday) = 5
      BY <2>1, <3>1, PwlAtStart
    <3> QED
      BY <2>1, <3>2
  <2>2. CASE x # 0
    <3>1. NoLowerAround(OccWeekday, 9, x, 0)
      BY <1>2, <2>2 DEF NoLowerAround, OccWeekday
    <3>2. Pwl(x, OccWeekday) \in Int /\ 0 =< Pwl(x, OccWeekday)
      BY <1>2, <3>1, TablesAre, PwlIs
    <3> QED
      BY <1>2, <3>2
  <2> QED
    BY <2>1, <2>2
<1>4. Pwl(x, OccWeekend) \in Int /\ Pwl(x, OccWeekend) >= 0
  <2>1. CASE x = 0
    <3>1. OccWeekend[1][1] = 0 /\ OccWeekend[1][2] = 2
      BY DEF OccWeekend
    <3>2. Pwl(x, OccWeekend) = 2
      BY <2>1, <3>1, PwlAtStart
    <3> QED
      BY <2>1, <3>2
  <2>2. CASE x # 0
    <3>1. NoLowerAround(OccWeekend, 6, x, 0)
      BY <1>2, <2>2 DEF NoLowerAround, OccWeekend
    <3>2. Pwl(x, OccWeekend) \in Int /\ 0 =< Pwl(x, OccWeekend)
      BY <1>2, <3>1, TablesAre, PwlIs
    <3> QED
      BY <1>2, <3>2
  <2> QED
    BY <2>1, <2>2
<1> QED
  BY <1>1, <1>3, <1>4 DEF OccupancyFactor

(* The sun gives at most 100 per cent, and 64 away from noon.              *)
LEMMA ClearSkyIs ==
  ASSUME NEW m \in Int
  PROVE  /\ ClearSky(m) \in 0 .. 100
         /\ HalfHour(m) \notin 19 .. 29 => ClearSky(m) =< 64
<1>1. PICK h : h = HalfHour(m)
  OBVIOUS
<1>2. h \in 0 .. 47
  BY <1>1, HalfHourIs
<1>3. PICK away : away = IF h < 24 THEN 24 - h ELSE h - 24
  OBVIOUS
<1>4. away \in Nat /\ (h \notin 19 .. 29 => away >= 6)
  BY <1>2, <1>3
<1>5. PICK noon : noon = << 99, 96, 91, 83, 74, 64, 53, 41, 29, 18, 8 >>
  OBVIOUS
<1>6. ClearSky(m) = IF away = 0 THEN 100 ELSE IF away =< 11 THEN noon[away] ELSE 0
  BY <1>1, <1>3, <1>5 DEF ClearSky
<1>7. \A k \in 1 .. 11 : noon[k] \in 0 .. 100 /\ (k >= 6 => noon[k] =< 64)
  BY <1>5
<1>8. CASE away = 0
  BY <1>1, <1>4, <1>6, <1>8
<1>9. CASE away \in 1 .. 11
  BY <1>1, <1>4, <1>6, <1>7, <1>9
<1>10. CASE away > 11
  BY <1>1, <1>4, <1>6, <1>10
<1> QED
  BY <1>4, <1>8, <1>9, <1>10

(* Max({0, x}) cuts x at zero.                                             *)
LEMMA NoLess ==
  ASSUME NEW x \in Int
  PROVE  Max({0, x}) = IF x > 0 THEN x ELSE 0
<1>1. PICK c : c = IF x > 0 THEN x ELSE 0
  OBVIOUS
<1>2. c \in {0, x} /\ (\A y \in {0, x} : c >= y)
  BY <1>1
<1>3. \A d \in {0, x} : (\A y \in {0, x} : d >= y) => d = c
  BY <1>1
<1> QED
  BY <1>1, <1>2, <1>3 DEF Max

(* The rating of a leaf.                                                   *)
IsRating(r) == /\ r.base \in Nat /\ r.prod \in Nat /\ r.heat \in Nat
               /\ r.occ \in Nat /\ r.tan \in Nat

(* What a leaf draws before it is cut at zero.                             *)
Demand(r, s, heat, o, z) ==
  r.base + (s * r.prod + heat * r.heat + o * r.occ + z * r.base) \div 100

(* Every leaf has a rating.                                                *)
LEMMA RatingsAre ==
  \A n \in Leaf : IsRating(Rating[n])
<1>1. SUFFICES ASSUME NEW n \in Leaf PROVE IsRating(Rating[n])
  OBVIOUS
<1>2. n \in {"MTR-001", "MTR-002", "MTR-003", "LIGHT-001", "HVAC-001", "PLUG-001"}
  BY DEF Leaf, Motor, Load
<1> QED
  BY <1>2 DEF Rating, IsRating

(* A demand is an integer.                                                 *)
LEMMA DemandIs ==
  ASSUME NEW r, IsRating(r), NEW s \in Int, NEW heat \in Int, NEW o \in Int, NEW z \in Int
  PROVE  Demand(r, s, heat, o, z) \in Int
<1>1. PICK b, p, h, c : b = r.base /\ p = r.prod /\ h = r.heat /\ c = r.occ
  OBVIOUS
<1>2. b \in Int /\ p \in Int /\ h \in Int /\ c \in Int
  BY <1>1 DEF IsRating
<1>3. s * p \in Int /\ heat * h \in Int /\ o * c \in Int /\ z * b \in Int
  BY <1>2
<1>4. (s * p + heat * h + o * c + z * b) \div 100 \in Int
  BY <1>3
<1> QED
  BY <1>1, <1>2, <1>4 DEF Demand

(* What a leaf draws is its demand, unless that is negative.               *)
LEMMA LeafPowerIs ==
  ASSUME NEW n \in Leaf, NEW m \in Int, NEW heat \in Nat, NEW noise \in [Leaf -> -3 .. 3]
  PROVE  /\ LeafPower(n, m, heat, noise) \in Power
         /\ LeafPower(n, m, heat, noise).p
              >= Demand(Rating[n], ShiftFactor(m), heat, OccupancyFactor(m), noise[n])
         /\ LeafPower(n, m, heat, noise).p >= 0
         /\ LeafPower(n, m, heat, noise).q
              = (LeafPower(n, m, heat, noise).p * Rating[n].tan) \div 1000
<1>1. PICK r : r = Rating[n]
  OBVIOUS
<1>2. IsRating(r)
  BY <1>1, RatingsAre
<1>3. PICK d : d = Demand(Rating[n], ShiftFactor(m), heat, OccupancyFactor(m), noise[n])
  OBVIOUS
<1>4. d \in Int
  BY <1>1, <1>2, <1>3, ShiftIs, OccupancyIs, DemandIs
<1>5. PICK p : p = Max({0, d})
  OBVIOUS
<1>6. p \in Int /\ p >= d /\ p >= 0
  BY <1>4, <1>5, NoLess
<1>7. LeafPower(n, m, heat, noise) = [p |-> p, q |-> (p * r.tan) \div 1000]
  <2>1. PICK x : x = Rating[n].base + (ShiftFactor(m) * Rating[n].prod + heat * Rating[n].heat
                                         + OccupancyFactor(m) * Rating[n].occ
                                         + noise[n] * Rating[n].base) \div 100
    OBVIOUS
  <2>2. d = x
    BY <1>3, <2>1, Zenon DEF Demand
  <2>3. LeafPower(n, m, heat, noise)
          = [p |-> Max({0, x}), q |-> (Max({0, x}) * Rating[n].tan) \div 1000]
    BY <2>1, ZenonT(40) DEF LeafPower
  <2> QED
    BY <1>1, <1>5, <2>2, <2>3
<1>8. (p * r.tan) \div 1000 \in Int
  <2>1. r.tan \in Int
    BY <1>2 DEF IsRating
  <2>2. p * r.tan \in Int
    BY <1>6, <2>1
  <2> QED
    BY <2>2
<1> QED
  BY <1>1, <1>3, <1>6, <1>7, <1>8 DEF Power

(* What every leaf draws at least, in a tenth of the shift and in 40 % of  *)
(* it.                                                                     *)
LeastAtTenth == [n \in Leaf |->
  CASE n = "MTR-001" -> 142 [] n = "MTR-002" -> 107 [] n = "MTR-003" -> 72
    [] n = "LIGHT-001" -> 14 [] n = "HVAC-001" -> 38 [] n = "PLUG-001" -> 19]
LeastAtDay == [n \in Leaf |->
  CASE n = "MTR-001" -> 220 [] n = "MTR-002" -> 167 [] n = "MTR-003" -> 114
    [] n = "LIGHT-001" -> 14 [] n = "HVAC-001" -> 38 [] n = "PLUG-001" -> 19]
LeastReactive == [n \in Leaf |->
  CASE n = "MTR-001" -> 91 [] n = "MTR-002" -> 71 [] n = "MTR-003" -> 50
    [] n = "LIGHT-001" -> 4 [] n = "HVAC-001" -> 20 [] n = "PLUG-001" -> 9]

(* The demand of each leaf, at the least of its drivers.                   *)
LEMMA DemandIsAtLeast ==
  ASSUME NEW n \in Leaf, NEW s \in Int, NEW heat \in Nat, NEW o \in Nat, NEW z \in -3 .. 3,
         s >= 10
  PROVE  /\ Demand(Rating[n], s, heat, o, z) >= LeastAtTenth[n]
         /\ s >= 40 => Demand(Rating[n], s, heat, o, z) >= LeastAtDay[n]
<1>1. n \in {"MTR-001", "MTR-002", "MTR-003", "LIGHT-001", "HVAC-001", "PLUG-001"}
  BY DEF Leaf, Motor, Load
<1>2. CASE n = "MTR-001"
  <2>1. /\ Rating[n].base = 120 /\ Rating[n].prod = 260 /\ Rating[n].heat = 0
        /\ Rating[n].occ = 0
    BY <1>2 DEF Rating
  <2>2. Demand(Rating[n], s, heat, o, z)
          = 120 + (s * 260 + heat * 0 + o * 0 + z * 120) \div 100
    BY <2>1 DEF Demand
  <2>3. LeastAtTenth[n] = 142 /\ LeastAtDay[n] = 220
    BY <1>2 DEF LeastAtTenth, LeastAtDay
  <2> QED
    BY <2>2, <2>3
<1>3. CASE n = "MTR-002"
  <2>1. /\ Rating[n].base = 90 /\ Rating[n].prod = 200 /\ Rating[n].heat = 0
        /\ Rating[n].occ = 0
    BY <1>3 DEF Rating
  <2>2. Demand(Rating[n], s, heat, o, z)
          = 90 + (s * 200 + heat * 0 + o * 0 + z * 90) \div 100
    BY <2>1 DEF Demand
  <2>3. LeastAtTenth[n] = 107 /\ LeastAtDay[n] = 167
    BY <1>3 DEF LeastAtTenth, LeastAtDay
  <2> QED
    BY <2>2, <2>3
<1>4. CASE n = "MTR-003"
  <2>1. /\ Rating[n].base = 60 /\ Rating[n].prod = 140 /\ Rating[n].heat = 0
        /\ Rating[n].occ = 0
    BY <1>4 DEF Rating
  <2>2. Demand(Rating[n], s, heat, o, z)
          = 60 + (s * 140 + heat * 0 + o * 0 + z * 60) \div 100
    BY <2>1 DEF Demand
  <2>3. LeastAtTenth[n] = 72 /\ LeastAtDay[n] = 114
    BY <1>4 DEF LeastAtTenth, LeastAtDay
  <2> QED
    BY <2>2, <2>3
<1>5. CASE n = "LIGHT-001"
  <2>1. /\ Rating[n].base = 15 /\ Rating[n].prod = 0 /\ Rating[n].heat = 0
        /\ Rating[n].occ = 40
    BY <1>5 DEF Rating
  <2>2. Demand(Rating[n], s, heat, o, z)
          = 15 + (s * 0 + heat * 0 + o * 40 + z * 15) \div 100
    BY <2>1 DEF Demand
  <2>3. LeastAtTenth[n] = 14 /\ LeastAtDay[n] = 14
    BY <1>5 DEF LeastAtTenth, LeastAtDay
  <2> QED
    BY <2>2, <2>3
<1>6. CASE n = "HVAC-001"
  <2>1. /\ Rating[n].base = 40 /\ Rating[n].prod = 0 /\ Rating[n].heat = 120
        /\ Rating[n].occ = 30
    BY <1>6 DEF Rating
  <2>2. Demand(Rating[n], s, heat, o, z)
          = 40 + (s * 0 + heat * 120 + o * 30 + z * 40) \div 100
    BY <2>1 DEF Demand
  <2>3. LeastAtTenth[n] = 38 /\ LeastAtDay[n] = 38
    BY <1>6 DEF LeastAtTenth, LeastAtDay
  <2> QED
    BY <2>2, <2>3
<1>7. CASE n = "PLUG-001"
  <2>1. /\ Rating[n].base = 20 /\ Rating[n].prod = 0 /\ Rating[n].heat = 0
        /\ Rating[n].occ = 35
    BY <1>7 DEF Rating
  <2>2. Demand(Rating[n], s, heat, o, z)
          = 20 + (s * 0 + heat * 0 + o * 35 + z * 20) \div 100
    BY <2>1 DEF Demand
  <2>3. LeastAtTenth[n] = 19 /\ LeastAtDay[n] = 19
    BY <1>7 DEF LeastAtTenth, LeastAtDay
  <2> QED
    BY <2>2, <2>3
<1> QED
  BY <1>1, <1>2, <1>3, <1>4, <1>5, <1>6, <1>7

(* And the reactive power that goes with it.                               *)
LEMMA ReactiveIsAtLeast ==
  ASSUME NEW n \in Leaf, NEW p \in Int, p >= LeastAtTenth[n]
  PROVE  (p * Rating[n].tan) \div 1000 >= LeastReactive[n]
<1>1. n \in {"MTR-001", "MTR-002", "MTR-003", "LIGHT-001", "HVAC-001", "PLUG-001"}
  BY DEF Leaf, Motor, Load
<1>2. CASE n = "MTR-001"
  <2>1. LeastAtTenth[n] = 142 /\ LeastReactive[n] = 91 /\ Rating[n].tan = 646
    BY <1>2 DEF LeastAtTenth, LeastReactive, Rating
  <2> QED
    BY <2>1
<1>3. CASE n = "MTR-002"
  <2>1. LeastAtTenth[n] = 107 /\ LeastReactive[n] = 71 /\ Rating[n].tan = 672
    BY <1>3 DEF LeastAtTenth, LeastReactive, Rating
  <2> QED
    BY <2>1
<1>4. CASE n = "MTR-003"
  <2>1. LeastAtTenth[n] = 72 /\ LeastReactive[n] = 50 /\ Rating[n].tan = 698
    BY <1>4 DEF LeastAtTenth, LeastReactive, Rating
  <2> QED
    BY <2>1
<1>5. CASE n = "LIGHT-001"
  <2>1. LeastAtTenth[n] = 14 /\ LeastReactive[n] = 4 /\ Rating[n].tan = 329
    BY <1>5 DEF LeastAtTenth, LeastReactive, Rating
  <2> QED
    BY <2>1
<1>6. CASE n = "HVAC-001"
  <2>1. LeastAtTenth[n] = 38 /\ LeastReactive[n] = 20 /\ Rating[n].tan = 540
    BY <1>6 DEF LeastAtTenth, LeastReactive, Rating
  <2> QED
    BY <2>1
<1>7. CASE n = "PLUG-001"
  <2>1. LeastAtTenth[n] = 19 /\ LeastReactive[n] = 9 /\ Rating[n].tan = 484
    BY <1>7 DEF LeastAtTenth, LeastReactive, Rating
  <2> QED
    BY <2>1
<1> QED
  BY <1>1, <1>2, <1>3, <1>4, <1>5, <1>6, <1>7

(* Every leaf draws its least, at any moment, weather and noise.           *)
LEMMA LeafDraws ==
  ASSUME NEW n \in Leaf, NEW m \in Int, NEW heat \in Nat, NEW noise \in [Leaf -> -3 .. 3]
  PROVE  /\ LeafPower(n, m, heat, noise) \in Power
         /\ LeafPower(n, m, heat, noise).p >= LeastAtTenth[n]
         /\ HalfHour(m) \in 19 .. 29 => LeafPower(n, m, heat, noise).p >= LeastAtDay[n]
         /\ LeafPower(n, m, heat, noise).q >= LeastReactive[n]
<1>1. PICK s, o, z : s = ShiftFactor(m) /\ o = OccupancyFactor(m) /\ z = noise[n]
  OBVIOUS
<1>2. /\ s \in Int /\ s >= 10 /\ o \in Nat /\ z \in -3 .. 3
      /\ HalfHour(m) \in 19 .. 29 => s >= 40
  BY <1>1, ShiftIs, OccupancyIs
<1>3. PICK d : d = Demand(Rating[n], s, heat, o, z)
  OBVIOUS
<1>4. d >= LeastAtTenth[n] /\ (s >= 40 => d >= LeastAtDay[n])
  BY <1>2, <1>3, DemandIsAtLeast
<1>5. d \in Int /\ LeastAtTenth[n] \in Int /\ LeastAtDay[n] \in Int
  <2>1. IsRating(Rating[n])
    BY RatingsAre
  <2>2. d \in Int
    BY <1>2, <1>3, <2>1, DemandIs
  <2> QED
    BY <2>2 DEF LeastAtTenth, LeastAtDay, Leaf, Motor, Load
<1>6. PICK e : e = LeafPower(n, m, heat, noise)
  OBVIOUS
<1>7. e \in Power /\ e.p >= d /\ e.q = (e.p * Rating[n].tan) \div 1000
  BY <1>1, <1>3, <1>6, LeafPowerIs
<1>8. e.p \in Int
  BY <1>7 DEF Power
<1>9. e.p >= LeastAtTenth[n] /\ (s >= 40 => e.p >= LeastAtDay[n])
  BY <1>4, <1>5, <1>7, <1>8
<1>10. e.q >= LeastReactive[n]
  BY <1>7, <1>8, <1>9, ReactiveIsAtLeast
<1> QED
  BY <1>2, <1>6, <1>7, <1>9, <1>10

(* What the PV injects, as a load.                                         *)
Injected(m, pv) == -((PvCapacity * ClearSky(m) * pv) \div 10000)

(* The PV injects its capacity at most, and 64 % of it away from noon.     *)
LEMMA PvInjects ==
  ASSUME NEW m \in Int, NEW pv \in 0 .. 100
  PROVE  /\ Injected(m, pv) \in Int /\ Injected(m, pv) >= -300
         /\ HalfHour(m) \notin 19 .. 29 => Injected(m, pv) >= -192
<1>1. PICK c : c = ClearSky(m)
  OBVIOUS
<1>2. c \in 0 .. 100 /\ (HalfHour(m) \notin 19 .. 29 => c =< 64)
  BY <1>1, ClearSkyIs
<1>3. PICK y : y = c * pv
  OBVIOUS
<1>4. y \in Int /\ 0 =< y /\ y =< 100 * c
  BY <1>2, <1>3
<1>5. PvCapacity * ClearSky(m) * pv = 300 * y
  <2>1. (300 * c) * pv = 300 * (c * pv)
    BY <1>2
  <2> QED
    BY <1>1, <1>3, <2>1 DEF PvCapacity
<1>6. (300 * y) \div 10000 \in Int /\ (300 * y) \div 10000 =< 3 * c
  BY <1>2, <1>4
<1>7. Injected(m, pv) = -((300 * y) \div 10000)
  BY <1>5 DEF Injected
<1> QED
  BY <1>2, <1>6, <1>7

(* What the downstream solution is good for: its powers, its balance at    *)
(* the load buses, and what the leaves and the PV do at least.             *)
IsDownstream(below) ==
  /\ below \in PowersOf(Metered)
  /\ LoadBusesBalance(below)
  /\ \A n \in Leaf : below[n].q >= LeastReactive[n]
  /\ below["PV-001"].q = 0
  /\ \/ /\ \A n \in Leaf : below[n].p >= LeastAtDay[n]
        /\ below["PV-001"].p >= -300
     \/ /\ \A n \in Leaf : below[n].p >= LeastAtTenth[n]
        /\ below["PV-001"].p >= -192

(* At any moment, weather and noise the downstream solution is good for    *)
(* that.                                                                   *)
LEMMA DownstreamIs ==
  ASSUME NEW m \in Int, NEW heat \in Nat, NEW pv \in 0 .. 100, NEW noise \in [Leaf -> -3 .. 3]
  PROVE  IsDownstream(Downstream(m, heat, pv, noise))
<1>1. PICK f : f = Leaves(m, heat, noise)
  OBVIOUS
<1>2. \A n \in Leaf : f[n] = LeafPower(n, m, heat, noise)
  BY <1>1 DEF Leaves
<1>3. f \in PowersOf(Leaf)
  <2>1. \A n \in Leaf : LeafPower(n, m, heat, noise) \in Power
    BY LeafDraws
  <2> QED
    BY <1>1, <2>1 DEF Leaves, PowersOf
<1>4. PICK x : x = Injected(m, pv)
  OBVIOUS
<1>5. x \in Int /\ x >= -300 /\ (HalfHour(m) \notin 19 .. 29 => x >= -192)
  BY <1>4, PvInjects
<1>6. PICK v : v = [p |-> x, q |-> 0]
  OBVIOUS
<1>7. v \in Power /\ v.p = x /\ v.q = 0
  BY <1>5, <1>6 DEF Power
<1>8. PICK g : g = WithPv(f, m, pv)
  OBVIOUS
<1>9. g = With(f, "PV-001", v)
  BY <1>4, <1>6, <1>8 DEF WithPv, Injected
<1>10. IsWith(g, f, Leaf, "PV-001", v)
  BY <1>3, <1>7, <1>9, MeteredIs, WithIs
<1>11. g \in PowersOf(Leaf \cup {"PV-001"}) /\ (\A n \in Leaf : g[n] = f[n]) /\ g["PV-001"] = v
  BY <1>10 DEF IsWith
<1>12. PICK below : below = WithLoadBuses(g)
  OBVIOUS
<1>13. /\ below \in PowersOf(Metered)
       /\ \A n \in Leaf \cup {"PV-001"} : below[n] = g[n]
       /\ LoadBusesBalance(below)
  BY <1>11, <1>12, LoadBusesAre
<1>14. \A n \in Leaf : below[n] = LeafPower(n, m, heat, noise)
  BY <1>2, <1>11, <1>13
<1>15. below["PV-001"] = v
  BY <1>11, <1>13
<1>16. /\ \A n \in Leaf : below[n].q >= LeastReactive[n]
       /\ \A n \in Leaf : below[n].p >= LeastAtTenth[n]
       /\ HalfHour(m) \in 19 .. 29 => \A n \in Leaf : below[n].p >= LeastAtDay[n]
  BY <1>14, LeafDraws
<1>17. IsDownstream(below)
  BY <1>5, <1>7, <1>13, <1>15, <1>16 DEF IsDownstream
<1> QED
  BY <1>1, <1>8, <1>12, <1>17 DEF Downstream

(* The main bus imports what the bank's controller is safe with.           *)
LEMMA BusImports ==
  ASSUME NEW below, IsDownstream(below)
  PROVE  BusLoad(below).p >= 162 /\ BusLoad(below).q >= 200
<1>1. below \in PowersOf(Metered) /\ LoadBusesBalance(below)
  BY DEF IsDownstream
<1>2. \A n \in Metered : below[n] \in Power /\ n \in Node
  BY <1>1, MeteredIs DEF PowersOf
<1>3. \A n \in Metered : /\ Gross(n, below[n]).p \in Int /\ Gross(n, below[n]).q \in Int
                         /\ below[n].p \in Int /\ below[n].q \in Int
                         /\ Gross(n, below[n]).p >= below[n].p
                         /\ Gross(n, below[n]).q >= below[n].q
  <2>1. SUFFICES ASSUME NEW n \in Metered
                 PROVE  /\ Gross(n, below[n]).p \in Int /\ Gross(n, below[n]).q \in Int
                        /\ below[n].p \in Int /\ below[n].q \in Int
                        /\ Gross(n, below[n]).p >= below[n].p
                        /\ Gross(n, below[n]).q >= below[n].q
    OBVIOUS
  <2>2. /\ Gross(n, below[n]) \in Power /\ Gross(n, below[n]).p >= below[n].p
        /\ Gross(n, below[n]).q >= below[n].q
    BY <1>2, GrossIs
  <2> QED
    BY <1>2, <2>2 DEF Power
<1>4. {"MTR-001", "MTR-002", "MTR-003", "LIGHT-001", "HVAC-001", "PLUG-001"} = Leaf
  BY DEF Leaf, Motor, Load
<1>5. Leaf \subseteq Metered /\ {"MCC-001", "PP-001", "PV-001"} \subseteq Metered
  BY MeteredIs DEF Metered
<1>6. /\ BusLoad(below).p = Gross("MCC-001", below["MCC-001"]).p + Gross("PP-001", below["PP-001"]).p
                            + Gross("PV-001", below["PV-001"]).p
      /\ BusLoad(below).q = Gross("MCC-001", below["MCC-001"]).q + Gross("PP-001", below["PP-001"]).q
                            + Gross("PV-001", below["PV-001"]).q
  <2>1. \A n \in {"MCC-001", "PP-001", "PV-001"} : below[n] \in Power
    BY <1>2, <1>5
  <2> QED
    BY <2>1, BusLoadIs
<1>7. /\ BusLoad(below).p >= below["MCC-001"].p + below["PP-001"].p + below["PV-001"].p
      /\ BusLoad(below).q >= below["MCC-001"].q + below["PP-001"].q + below["PV-001"].q
  BY <1>3, <1>5, <1>6
<1>8. /\ below["MCC-001"].p >= below["MTR-001"].p + below["MTR-002"].p + below["MTR-003"].p
      /\ below["MCC-001"].q >= below["MTR-001"].q + below["MTR-002"].q + below["MTR-003"].q
      /\ below["PP-001"].p >= below["LIGHT-001"].p + below["HVAC-001"].p + below["PLUG-001"].p
      /\ below["PP-001"].q >= below["LIGHT-001"].q + below["HVAC-001"].q + below["PLUG-001"].q
  BY <1>1, <1>3, <1>4, <1>5 DEF LoadBusesBalance
<1>9. BusLoad(below).p \in Int /\ BusLoad(below).q \in Int
  BY <1>3, <1>5, <1>6
<1>10. /\ \A n \in Leaf : below[n].q >= LeastReactive[n]
       /\ below["PV-001"].q = 0
       /\ \/ /\ \A n \in Leaf : below[n].p >= LeastAtDay[n]
             /\ below["PV-001"].p >= -300
          \/ /\ \A n \in Leaf : below[n].p >= LeastAtTenth[n]
             /\ below["PV-001"].p >= -192
  BY DEF IsDownstream
<1>11. BusLoad(below).q >= 200
  <2>1. /\ below["MTR-001"].q >= 91 /\ below["MTR-002"].q >= 71 /\ below["MTR-003"].q >= 50
        /\ below["LIGHT-001"].q >= 4 /\ below["HVAC-001"].q >= 20 /\ below["PLUG-001"].q >= 9
    BY <1>4, <1>10 DEF LeastReactive
  <2> QED
    BY <1>3, <1>4, <1>5, <1>7, <1>8, <1>9, <1>10, <2>1
<1>12. BusLoad(below).p >= 162
  <2>1. CASE /\ \A n \in Leaf : below[n].p >= LeastAtDay[n]
             /\ below["PV-001"].p >= -300
    <3>1. /\ below["MTR-001"].p >= 220 /\ below["MTR-002"].p >= 167 /\ below["MTR-003"].p >= 114
          /\ below["LIGHT-001"].p >= 14 /\ below["HVAC-001"].p >= 38 /\ below["PLUG-001"].p >= 19
      BY <1>4, <2>1 DEF LeastAtDay
    <3> QED
      BY <1>3, <1>4, <1>5, <1>7, <1>8, <1>9, <2>1, <3>1
  <2>2. CASE /\ \A n \in Leaf : below[n].p >= LeastAtTenth[n]
             /\ below["PV-001"].p >= -192
    <3>1. /\ below["MTR-001"].p >= 142 /\ below["MTR-002"].p >= 107 /\ below["MTR-003"].p >= 72
          /\ below["LIGHT-001"].p >= 14 /\ below["HVAC-001"].p >= 38 /\ below["PLUG-001"].p >= 19
      BY <1>4, <2>2 DEF LeastAtTenth
    <3> QED
      BY <1>3, <1>4, <1>5, <1>7, <1>8, <1>9, <2>2, <3>1
  <2> QED
    BY <1>10, <2>1, <2>2
<1> QED
  BY <1>11, <1>12

-----------------------------------------------------------------------------
(* The generator's steps.                                                    *)

(* The clock: moments are integers, and a timestep is only taken in a      *)
(* window whose interval moves it on.                                      *)
ClockInv ==
  /\ moment \in Int /\ begin \in Int
  /\ \E w \in Windows : interval = w[3]
  /\ phase \in {"solve", "emit"} => interval > 0

(* What the solution rests on: it is the one of some downstream solution   *)
(* with the stages now in.                                                 *)
Solved == \E below : IsDownstream(below) /\ elec = Upstream(below, capStage)

(* The inductive invariant of the solution.                                 *)
SolutionInv ==
  /\ capStage \in 0 .. 4 /\ capOps \in Nat
  /\ elec = <<>> \/ Solved
  /\ phase = "emit" => Solved /\ ambient \in Ambient

(* The members of a window are integers.                                   *)
LEMMA WindowsAre ==
  ASSUME NEW w \in Windows
  PROVE  w[1] \in Int /\ w[2] \in Int /\ w[3] \in Int
BY TelemetryAssumption

(* The bank stays within its stages, and its counter never goes back.      *)
LEMMA BankMoves ==
  ASSUME NEW l, NEW s \in 0 .. 4, NEW o \in Nat
  PROVE  /\ Bank!StageAfter(l, s) \in 0 .. 4
         /\ Bank!OpsAfter(l, s, o) \in Nat /\ Bank!OpsAfter(l, s, o) >= o
<1>1. s < 4 => s + 1 \in 0 .. 4
  OBVIOUS
<1>2. s > 0 => s - 1 \in 0 .. 4
  OBVIOUS
<1>3. Bank!StageAfter(l, s) \in 0 .. 4
  BY <1>1, <1>2 DEF Bank!StageAfter, Bank!SwitchIn, Bank!SwitchOut, MaxStages
<1>4. Bank!OpsAfter(l, s, o) \in {o, o + 1}
  BY Zenon DEF Bank!OpsAfter
<1> QED
  BY <1>3, <1>4

(* ClockInv holds at every step of a generation.                           *)
LEMMA ClockHolds == GeneratorSpec => []ClockInv
<1>1. GeneratorInit => ClockInv
  <2> SUFFICES ASSUME GeneratorInit PROVE ClockInv
    OBVIOUS
  <2>1. PICK w \in Windows : begin = w[1] /\ end = w[2] /\ interval = w[3]
    BY DEF GeneratorInit
  <2>2. moment = begin /\ phase = "called"
    BY DEF GeneratorInit
  <2> QED
    BY <2>1, <2>2, WindowsAre DEF ClockInv
<1>2. ClockInv /\ [GeneratorNext]_generatorVars => ClockInv'
  <2> SUFFICES ASSUME ClockInv, [GeneratorNext]_generatorVars PROVE ClockInv'
    OBVIOUS
  <2> USE DEF ClockInv
  <2>0. interval \in Int
    BY WindowsAre
  <2>1. CASE Start
    BY <2>1, <2>0 DEF Start, window
  <2>2. CASE SolveTimestep
    BY <2>2 DEF SolveTimestep, window
  <2>3. CASE EmitTimestep
    BY <2>3, <2>0 DEF EmitTimestep, window
  <2>4. CASE Return
    BY <2>4 DEF Return, window
  <2>5. CASE UNCHANGED generatorVars
    BY <2>5 DEF generatorVars, window
  <2> QED
    BY <2>1, <2>2, <2>3, <2>4, <2>5 DEF GeneratorNext, Ended
<1> QED
  BY <1>1, <1>2, PTL DEF GeneratorSpec

(* A timestep's solution, taken apart.                                     *)
LEMMA SolveIs ==
  ASSUME ClockInv, SolutionInv, SolveTimestep
  PROVE  \E below, drawn :
           /\ IsDownstream(below)
           /\ drawn = <<BusLoad(below).p, BusLoad(below).q>>
           /\ capStage' = Bank!StageAfter(drawn, capStage)
           /\ capOps' = Bank!OpsAfter(drawn, capStage, capOps)
           /\ elec' = Upstream(below, capStage')
           /\ ambient' \in Ambient
<1>1. PICK air \in Ambient, pv \in Irradiance, noise \in Noises :
        LET below == Downstream(moment, AmbientResponse(air), pv, noise)
            drawn == <<BusLoad(below).p, BusLoad(below).q>>
            s == Bank!StageAfter(drawn, capStage)
        IN /\ capStage' = s
           /\ capOps' = Bank!OpsAfter(drawn, capStage, capOps)
           /\ elec' = Upstream(below, s)
           /\ ambient' = air
  BY DEF SolveTimestep
<1>2. PICK heat : heat = AmbientResponse(air)
  OBVIOUS
<1>3. heat \in Nat
  <2>1. 10 * (air - 22) \in Int
    BY TelemetryAssumption
  <2> QED
    BY <1>2, <2>1, NoLess DEF AmbientResponse
<1>4. pv \in 0 .. 100 /\ noise \in [Leaf -> -3 .. 3] /\ moment \in Int
  BY TelemetryAssumption DEF ClockInv
<1>5. PICK below : below = Downstream(moment, heat, pv, noise)
  OBVIOUS
<1>6. PICK drawn : drawn = <<BusLoad(below).p, BusLoad(below).q>>
  OBVIOUS
<1>7. IsDownstream(below)
  BY <1>5, <1>3, <1>4, DownstreamIs
<1>8. /\ capStage' = Bank!StageAfter(drawn, capStage)
      /\ capOps' = Bank!OpsAfter(drawn, capStage, capOps)
      /\ elec' = Upstream(below, capStage')
      /\ ambient' = air
  BY <1>1, <1>2, <1>5, <1>6
<1> QED
  BY <1>6, <1>7, <1>8

(* SolutionInv holds at every step of a generation.                        *)
LEMMA SolutionHolds == GeneratorSpec => []SolutionInv
<1>1. GeneratorInit => SolutionInv
  BY DEF GeneratorInit, SolutionInv
<1>2. ClockInv /\ SolutionInv /\ [GeneratorNext]_generatorVars => SolutionInv'
  <2> SUFFICES ASSUME ClockInv, SolutionInv, [GeneratorNext]_generatorVars PROVE SolutionInv'
    OBVIOUS
  <2>1. CASE SolveTimestep
    <3>1. PICK below, drawn :
            /\ IsDownstream(below)
            /\ capStage' = Bank!StageAfter(drawn, capStage)
            /\ capOps' = Bank!OpsAfter(drawn, capStage, capOps)
            /\ elec' = Upstream(below, capStage')
            /\ ambient' \in Ambient
      BY <2>1, SolveIs
    <3>2. Solved'
      BY <3>1 DEF Solved
    <3>3. capStage' \in 0 .. 4 /\ capOps' \in Nat
      BY <3>1, BankMoves DEF SolutionInv
    <3> QED
      BY <2>1, <3>1, <3>2, <3>3 DEF SolutionInv, SolveTimestep
  <2>2. CASE Start \/ Return \/ EmitTimestep \/ UNCHANGED generatorVars
    <3>1. /\ elec' = elec /\ capStage' = capStage /\ capOps' = capOps /\ ambient' = ambient
          /\ phase' = "emit" => phase = "emit"
      BY <2>2 DEF Start, Return, EmitTimestep, generatorVars
    <3>2. Solved => Solved'
      BY <3>1 DEF Solved
    <3> QED
      BY <3>1, <3>2 DEF SolutionInv
  <2> QED
    BY <2>1, <2>2 DEF GeneratorNext, Ended
<1> QED
  BY <1>1, <1>2, ClockHolds, PTL DEF GeneratorSpec

(* What a solution is good for.                                            *)
LEMMA SolvedIs ==
  ASSUME Solved, capStage \in 0 .. 4
  PROVE  /\ elec \in PowersOf(Node)
         /\ LoadBusesBalance(elec) /\ MainBusBalances(elec) /\ SupplyBalances(elec)
         /\ elec["CAP-001"].p = 0 /\ elec["CAP-001"].q = -(capStage * StageKvar)
         /\ BusLoad(elec).p >= 162 /\ BusLoad(elec).q >= 200
<1>1. PICK below : IsDownstream(below) /\ elec = Upstream(below, capStage)
  BY DEF Solved
<1>2. below \in PowersOf(Metered) /\ LoadBusesBalance(below)
  BY <1>1 DEF IsDownstream
<1>3. capStage \in Int
  OBVIOUS
<1>4. /\ elec \in PowersOf(Node)
      /\ \A n \in Metered : elec[n] = below[n]
      /\ elec["CAP-001"].p = 0 /\ elec["CAP-001"].q = -(capStage * StageKvar)
      /\ MainBusBalances(elec) /\ SupplyBalances(elec)
      /\ BusLoad(elec) = BusLoad(below)
  BY <1>1, <1>2, <1>3, SolutionIs
<1>5. LoadBusesBalance(elec)
  <2>1. /\ elec["MTR-001"] = below["MTR-001"] /\ elec["MTR-002"] = below["MTR-002"]
        /\ elec["MTR-003"] = below["MTR-003"] /\ elec["LIGHT-001"] = below["LIGHT-001"]
        /\ elec["HVAC-001"] = below["HVAC-001"] /\ elec["PLUG-001"] = below["PLUG-001"]
        /\ elec["MCC-001"] = below["MCC-001"] /\ elec["PP-001"] = below["PP-001"]
    BY <1>4 DEF Metered, Leaf, Motor, Load, LoadBus
  <2> QED
    BY <1>2, <2>1 DEF LoadBusesBalance
<1>6. BusLoad(elec).p >= 162 /\ BusLoad(elec).q >= 200
  BY <1>1, <1>4, BusImports
<1> QED
  BY <1>4, <1>5, <1>6

(* At every step of every generation, whatever the windows, the weather,   *)
(* the noise and the qualities of the readings: the utility supplies what  *)
(* the leaves and the PV take and what the feeders and the transformer     *)
(* lose, less what the stages now in compensate. This is property          *)
(* UtilitySuppliesAll of Telemetry, for the order and the arithmetic of    *)
(* _solve_timestep.                                                        *)
THEOREM UtilitySuppliesAllAlways == GeneratorSpec => []UtilitySuppliesAll
<1>1. SolutionInv => UtilitySuppliesAll
  <2> SUFFICES ASSUME SolutionInv, elec # <<>> PROVE UtilitySuppliesAll
    BY DEF UtilitySuppliesAll
  <2>1. Solved /\ capStage \in 0 .. 4 /\ capStage \in Int
    BY DEF SolutionInv
  <2>2. PICK e : e = elec
    OBVIOUS
  <2>3. /\ e \in PowersOf(Node)
        /\ LoadBusesBalance(e) /\ MainBusBalances(e) /\ SupplyBalances(e)
        /\ e["CAP-001"].p = 0 /\ e["CAP-001"].q = -(capStage * StageKvar)
    BY <2>1, <2>2, SolvedIs
  <2>4. /\ e["UTIL-001"].p =
              SumOver(Leaf \cup {"PV-001"}, [n \in Leaf \cup {"PV-001"} |-> e[n].p])
              + TxShare(e["MSB-001"]).p
              + SumOver(Node \ {"UTIL-001"}, [n \in Node \ {"UTIL-001"} |-> FeederLoss(n, e[n]).p])
         /\ e["UTIL-001"].q =
              SumOver(Leaf \cup {"PV-001"}, [n \in Leaf \cup {"PV-001"} |-> e[n].q])
              + TxShare(e["MSB-001"]).q
              + SumOver(Node \ {"UTIL-001"}, [n \in Node \ {"UTIL-001"} |-> FeederLoss(n, e[n]).q])
              - capStage * StageKvar
    BY <2>1, <2>3, AllIsSupplied
  <2> QED
    BY <2>2, <2>4 DEF UtilitySuppliesAll
<1> QED
  BY <1>1, SolutionHolds, PTL

(* The main bus of the reference facility never imports less than the load *)
(* for which the bank is known not to hunt, nor less reactive power than   *)
(* the whole bank compensates, at any half hour of any week. This is       *)
(* property BusWithinBankPremises of Telemetry, for the profiles of        *)
(* _leaf_power and the PV injection.                                       *)
THEOREM BusWithinBankPremisesAlways == GeneratorSpec => []BusWithinBankPremises
<1>1. SolutionInv => BusWithinBankPremises
  BY SolvedIs DEF SolutionInv, BusWithinBankPremises, Lightest, MaxStages, StageKvar
<1> QED
  BY <1>1, SolutionHolds, PTL

-----------------------------------------------------------------------------
(* The temperatures.                                                         *)

(* Of the numbers to twelve a set holds a greatest.                        *)
LEMMA GreatestExists ==
  ASSUME NEW S \in SUBSET (0 .. 12), S # {}
  PROVE  Max(S) \in S
<1>1. PICK K : K = {12 - x : x \in S}
  OBVIOUS
<1>2. K \in SUBSET Nat /\ K # {}
  <2>1. \A x \in S : 12 - x \in Nat
    OBVIOUS
  <2>2. \A j \in K : j \in Nat
    BY <1>1, <2>1
  <2>3. K # {}
    BY <1>1
  <2> QED
    BY <2>2, <2>3
<1>3. PICK j \in K : \A m \in K : j <= m
  BY <1>2, LeastExists
<1>4. PICK c \in S : j = 12 - c
  BY <1>1, <1>3
<1>5. \A y \in S : c >= y
  <2>1. SUFFICES ASSUME NEW y \in S PROVE c >= y
    OBVIOUS
  <2>2. 12 - y \in K /\ c \in Int /\ y \in Int
    BY <1>1
  <2> QED
    BY <1>3, <1>4, <2>2
<1> QED
  BY <1>4, <1>5 DEF Max

(* The loading is one of the twelve steps and zero.                        *)
LEMMA LoadingIs ==
  ASSUME NEW n \in Node, Solved, capStage \in 0 .. 4
  PROVE  LoadingOf(n) \in 0 .. 12
<1>1. Squared(elec[n]) \in Nat
  <2>1. elec[n] \in Power
    BY SolvedIs DEF PowersOf
  <2> QED
    BY <2>1, SquaredIs
<1>2. Capacity[n] \in Nat
  BY DEF Capacity, Rating, Node, Leaf, Motor, Load, LoadBus
<1>3. PICK S : S = {x \in 0 .. 12 : LET s == (x * Capacity[n]) \div 10 IN s * s =< Squared(elec[n])}
  OBVIOUS
<1>4. 0 * Capacity[n] = 0 /\ 0 \div 10 = 0
  BY <1>2
<1>5. 0 \in S
  BY <1>1, <1>3, <1>4
<1>6. S \in SUBSET (0 .. 12)
  BY <1>3
<1> QED
  BY <1>3, <1>5, <1>6, GreatestExists DEF LoadingOf

(* More loading never means a lower rise.                                  *)
LEMMA RiseIs ==
  ASSUME NEW k, NEW x \in 0 .. 12
  PROVE  /\ RiseAt(k, x) \in Int /\ RiseAt(k, 0) \in Int /\ RiseAt(k, 12) \in Int
         /\ RiseAt(k, 0) =< RiseAt(k, x) /\ RiseAt(k, x) =< RiseAt(k, 12)
<1>1. PICK y : y = x * x
  OBVIOUS
<1>2. y \in 0 .. 144
  BY <1>1
<1> QED
  BY <1>1, <1>2 DEF RiseAt

(* A share of the way is never longer than the way.                        *)
LEMMA Responds ==
  ASSUME NEW a \in 0 .. 100, NEW d \in Int
  PROVE  /\ (d * a) \div 100 \in Int
         /\ d >= 0 => 0 =< (d * a) \div 100 /\ (d * a) \div 100 =< d
         /\ d < 0 => d =< (d * a) \div 100 /\ (d * a) \div 100 =< 0
<1>1. PICK z : z = d * a
  OBVIOUS
<1>2. z \in Int /\ (d >= 0 => 0 =< z /\ z =< 100 * d) /\ (d < 0 => 100 * d =< z /\ z =< 0)
  BY <1>1
<1>3. z \div 100 \in Int
  BY <1>2
<1>4. d >= 0 => 0 =< z \div 100 /\ z \div 100 =< d
  BY <1>2
<1>5. d < 0 => d =< z \div 100 /\ z \div 100 =< 0
  BY <1>2
<1> QED
  BY <1>1, <1>3, <1>4, <1>5

(* The target of k at this timestep, and the span of the targets k can     *)
(* have.                                                                   *)
TargetOf(k) == ambient + RiseAt(k, LoadingOf(k[1]))
InSpan(k, t) ==
  \E cold, hot \in Ambient : /\ cold + RiseAt(k, 0) =< t
                             /\ t =< hot + RiseAt(k, 12)
(* Temperatures are integers within the span of their targets.             *)
TemperatureInv ==
  temps \in [Thermal -> Int \cup {None}] /\ TemperaturesStayWithinTargets

(* The ambient temperature is an integer.                                  *)
LEMMA AmbientIs ==
  ASSUME NEW a \in Ambient
  PROVE  a \in Int
BY TelemetryAssumption

(* Temperatures are those of nodes.                                        *)
LEMMA ThermalIs ==
  ASSUME NEW k \in Thermal
  PROVE  k[1] \in Node
BY DEF Thermal, Node, Leaf, Motor, Load, LoadBus

(* The target lies between those of no load and of the highest.            *)
LEMMA TargetIs ==
  ASSUME NEW k \in Thermal, Solved, capStage \in 0 .. 4, ambient \in Ambient
  PROVE  /\ TargetOf(k) \in Int
         /\ ambient + RiseAt(k, 0) =< TargetOf(k)
         /\ TargetOf(k) =< ambient + RiseAt(k, 12)
<1>1. PICK x : x = LoadingOf(k[1])
  OBVIOUS
<1>2. x \in 0 .. 12
  BY <1>1, ThermalIs, LoadingIs
<1>3. PICK a : a = ambient
  OBVIOUS
<1>4. a \in Int
  BY <1>3, AmbientIs
<1>5. TargetOf(k) = a + RiseAt(k, x)
  BY <1>1, <1>3 DEF TargetOf
<1>6. /\ RiseAt(k, x) \in Int /\ RiseAt(k, 0) \in Int /\ RiseAt(k, 12) \in Int
      /\ RiseAt(k, 0) =< RiseAt(k, x) /\ RiseAt(k, x) =< RiseAt(k, 12)
  BY <1>2, RiseIs
<1> QED
  BY <1>3, <1>4, <1>5, <1>6

(* No step overshoots its target, and so none leaves the span.             *)
LEMMA ThermalStepIs ==
  ASSUME ClockInv, phase = "emit", SolutionInv, TemperatureInv, NEW k \in Thermal
  PROVE  ThermalStep(k) \in Int /\ InSpan(k, ThermalStep(k))
<1>1. Solved /\ capStage \in 0 .. 4 /\ ambient \in Ambient
  BY DEF SolutionInv
<1>2. PICK g : g = TargetOf(k)
  OBVIOUS
<1>3. PICK lo, hi : /\ lo = ambient + RiseAt(k, 0)
                    /\ hi = ambient + RiseAt(k, 12)
  OBVIOUS
<1>4. g \in Int /\ lo =< g /\ g =< hi
  BY <1>1, <1>2, <1>3, TargetIs
<1>5. CASE temps[k] = None
  <2>1. ThermalStep(k) = g
    BY <1>2, <1>5 DEF ThermalStep, TargetOf
  <2> QED
    BY <1>1, <1>3, <1>4, <2>1 DEF InSpan
<1>6. CASE temps[k] # None
  <2>1. PICK prev : prev = temps[k]
    OBVIOUS
  <2>2. prev \in Int
    BY <1>6, <2>1 DEF TemperatureInv
  <2>3. PICK cold \in Ambient, hot \in Ambient :
          /\ cold + RiseAt(k, 0) =< prev
          /\ prev =< hot + RiseAt(k, 12)
    BY <1>6, <2>1 DEF TemperatureInv, TemperaturesStayWithinTargets
  <2>4. PICK lo1, hi1 : /\ lo1 = cold + RiseAt(k, 0)
                        /\ hi1 = hot + RiseAt(k, 12)
    OBVIOUS
  <2>5. lo \in Int /\ hi \in Int /\ lo1 \in Int /\ hi1 \in Int
    <3>1. RiseAt(k, 0) \in Int /\ RiseAt(k, 12) \in Int
      BY RiseIs
    <3>2. /\ ambient \in Int /\ cold \in Int
          /\ hot \in Int
      BY <1>1, AmbientIs
    <3> QED
      BY <1>3, <2>4, <3>1, <3>2
  <2>6. PICK a : a = Alpha(Tau(k), interval)
    OBVIOUS
  <2>7. a \in 0 .. 100
    <3>1. PICK w \in Windows : interval = w[3]
      BY DEF ClockInv
    <3>2. w[3] > 0
      BY <3>1 DEF ClockInv
    <3> QED
      BY <2>6, <3>1, <3>2, ResponseAssumption
  <2>8. PICK d, r : d = g - prev /\ r = (d * a) \div 100
    OBVIOUS
  <2>9. ThermalStep(k) = prev + r
    BY <1>2, <1>6, <2>1, <2>6, <2>8 DEF ThermalStep, TargetOf
  <2>10. d \in Int
    BY <1>4, <2>2, <2>8
  <2>11. /\ r \in Int
         /\ d >= 0 => 0 =< r /\ r =< d
         /\ d < 0 => d =< r /\ r =< 0
    BY <2>7, <2>8, <2>10, Responds
  <2>12. CASE d >= 0
    <3>1. lo1 =< prev + r /\ prev + r =< hi
      BY <1>4, <2>2, <2>3, <2>4, <2>5, <2>8, <2>11, <2>12
    <3> QED
      BY <1>1, <1>3, <2>2, <2>4, <2>9, <2>11, <3>1 DEF InSpan
  <2>13. CASE d < 0
    <3>1. lo =< prev + r /\ prev + r =< hi1
      BY <1>4, <2>2, <2>3, <2>4, <2>5, <2>8, <2>11, <2>13
    <3> QED
      BY <1>1, <1>3, <2>2, <2>4, <2>9, <2>11, <3>1 DEF InSpan
  <2> QED
    BY <2>10, <2>12, <2>13
<1> QED
  BY <1>5, <1>6

(* TemperatureInv holds at every step of a generation.                     *)
LEMMA TemperatureHolds == GeneratorSpec => []TemperatureInv
<1>1. GeneratorInit => TemperatureInv
  BY DEF GeneratorInit, TemperatureInv, TemperaturesStayWithinTargets
<1>2. ClockInv /\ SolutionInv /\ TemperatureInv /\ [GeneratorNext]_generatorVars => TemperatureInv'
  <2> SUFFICES ASSUME ClockInv, SolutionInv, TemperatureInv, [GeneratorNext]_generatorVars
               PROVE  TemperatureInv'
    OBVIOUS
  <2>1. CASE EmitTimestep
    <3>1. temps' = [k \in Thermal |-> ThermalStep(k)] /\ phase = "emit"
      BY <2>1 DEF EmitTimestep
    <3>2. \A k \in Thermal : ThermalStep(k) \in Int /\ InSpan(k, ThermalStep(k))
      BY <3>1, ThermalStepIs
    <3>3. temps' \in [Thermal -> Int \cup {None}]
      BY <3>1, <3>2
    <3>4. \A k \in Thermal : InSpan(k, temps'[k])
      BY <3>1, <3>2
    <3> QED
      BY <3>3, <3>4 DEF TemperatureInv, TemperaturesStayWithinTargets, InSpan
  <2>2. CASE Start \/ SolveTimestep \/ Return \/ UNCHANGED generatorVars
    <3>1. temps' = temps
      BY <2>2 DEF Start, SolveTimestep, Return, generatorVars, registers
    <3> QED
      BY <3>1 DEF TemperatureInv, TemperaturesStayWithinTargets
  <2> QED
    BY <2>1, <2>2 DEF GeneratorNext, Ended
<1> QED
  BY <1>1, <1>2, ClockHolds, SolutionHolds, PTL DEF GeneratorSpec

(* No temperature ever leaves the span of what its node can head for,      *)
(* however long the interval is against its time constant. This is         *)
(* property TemperaturesStayWithinTargets of Telemetry, for _thermal_step. *)
THEOREM TemperaturesStayWithinTargetsAlways ==
  GeneratorSpec => []TemperaturesStayWithinTargets
BY TemperatureHolds, PTL DEF TemperatureInv

-----------------------------------------------------------------------------
(* The counters.                                                             *)

(* The register behind a counter channel.                                  *)
Register(k) ==
  CASE k[2] = "ENERGY_ACTIVE_KWH" -> energy[k[1]]
    [] k[2] = "RUNTIME_HOURS" -> runtime[k[1]]
    [] k[2] = "START_COUNT" -> startCount[k[1]]
    [] k[2] = "BREAKER_OPERATION_COUNT" -> capOps

(* Registers are integers.                                                 *)
RegistersTyped ==
  energy \in [Node -> Int] /\ runtime \in [Motor -> Int] /\ startCount \in [Motor -> Int]

(* What has left through the channel of k is not ahead of its register,    *)
(* and the last reading is the last good value where there is one.         *)
NotAhead(k) ==
  /\ lastGood[k] # None => lastGood[k] \in Int /\ lastGood[k] =< Register(k)
  /\ readings # <<>> =>
       /\ readings[k].value \in Int
       /\ lastGood[k] # None => readings[k].value = lastGood[k]
       /\ lastGood[k] = None => readings[k].value =< Register(k)

(* The inductive invariant of the counters.                                 *)
CountersInv == RegistersTyped /\ \A k \in Counters : NotAhead(k)

(* The counter channels, and the nodes that have them.                     *)
LEMMA CounterIs ==
  ASSUME NEW k \in Counters
  PROVE  /\ k \in Key
         /\ \/ k[2] = "ENERGY_ACTIVE_KWH" /\ k[1] \in Node
            \/ k[2] = "RUNTIME_HOURS" /\ k[1] \in Motor
            \/ k[2] = "START_COUNT" /\ k[1] \in Motor
            \/ k[2] = "BREAKER_OPERATION_COUNT"
BY DEF Counters, Key

(* Every counter channel has an integer register behind it.                *)
LEMMA RegisterIs ==
  ASSUME NEW k \in Counters, RegistersTyped, capOps \in Nat
  PROVE  Register(k) \in Int
BY CounterIs DEF Register, RegistersTyped

(* An emission only adds to a register, and measures what it then holds.   *)
LEMMA RegisterGrows ==
  ASSUME NEW k \in Counters, RegistersTyped, ClockInv, SolutionInv, EmitTimestep
  PROVE  /\ Measured(k) \in Int /\ Register(k) \in Int
         /\ Register(k) =< Measured(k)
         /\ Register(k)' = Measured(k)
<1>1. /\ phase = "emit" /\ capOps' = capOps
      /\ energy' = [n \in Node |-> EnergyAfter(n)]
      /\ startCount' = [n \in Motor |-> StartsAfter(n)]
      /\ runtime' = [n \in Motor |-> RuntimeAfter(n)]
  BY DEF EmitTimestep
<1>2. interval \in Int /\ interval > 0
  BY <1>1, WindowsAre DEF ClockInv
<1>3. capOps \in Nat /\ Solved /\ capStage \in 0 .. 4
  BY <1>1 DEF SolutionInv
<1>4. CASE k[2] = "ENERGY_ACTIVE_KWH" /\ k[1] \in Node
  <2>1. PICK n : n = k[1]
    OBVIOUS
  <2>2. n \in Node /\ energy[n] \in Int
    BY <1>4, <2>1 DEF RegistersTyped
  <2>3. elec[n].p \in Int
    BY <1>3, <2>2, SolvedIs DEF PowersOf, Power
  <2>4. PICK a : a = Bank!Abs(elec[n].p)
    OBVIOUS
  <2>5. a \in Nat
    BY <2>3, <2>4 DEF Bank!Abs
  <2>6. a * interval \in Nat
    BY <1>2, <2>5
  <2>7. EnergyAfter(n) \in Int /\ energy[n] =< EnergyAfter(n)
    BY <2>2, <2>4, <2>6 DEF EnergyAfter, Consumed
  <2>8. Measured(k) = EnergyAfter(n) /\ Register(k) = energy[n] /\ Register(k)' = energy'[n]
    BY <1>4, <2>1 DEF Measured, Register
  <2> QED
    BY <1>1, <2>2, <2>7, <2>8
<1>5. CASE k[2] = "RUNTIME_HOURS" /\ k[1] \in Motor
  <2>1. PICK n : n = k[1]
    OBVIOUS
  <2>2. n \in Motor /\ runtime[n] \in Int
    BY <1>5, <2>1 DEF RegistersTyped
  <2>3. RuntimeAfter(n) \in Int /\ runtime[n] =< RuntimeAfter(n)
    BY <1>2, <2>2 DEF RuntimeAfter
  <2>4. Measured(k) = RuntimeAfter(n) /\ Register(k) = runtime[n] /\ Register(k)' = runtime'[n]
    BY <1>5, <2>1 DEF Measured, Register
  <2> QED
    BY <1>1, <2>2, <2>3, <2>4
<1>6. CASE k[2] = "START_COUNT" /\ k[1] \in Motor
  <2>1. PICK n : n = k[1]
    OBVIOUS
  <2>2. n \in Motor /\ startCount[n] \in Int
    BY <1>6, <2>1 DEF RegistersTyped
  <2>3. StartsAfter(n) \in Int /\ startCount[n] =< StartsAfter(n)
    BY <2>2 DEF StartsAfter
  <2>4. Measured(k) = StartsAfter(n) /\ Register(k) = startCount[n] /\ Register(k)' = startCount'[n]
    BY <1>6, <2>1 DEF Measured, Register
  <2> QED
    BY <1>1, <2>2, <2>3, <2>4
<1>7. CASE k[2] = "BREAKER_OPERATION_COUNT"
  BY <1>1, <1>3, <1>7 DEF Measured, Register
<1> QED
  BY <1>4, <1>5, <1>6, <1>7, CounterIs

(* What an emission does to the last good value and the reading of a key.  *)
LEMMA EmissionIs ==
  ASSUME NEW k \in Key, EmitTimestep
  PROVE  /\ readings' # <<>>
         /\ \/ lastGood'[k] = Measured(k) /\ readings'[k].value = Measured(k)
            \/ lastGood'[k] = lastGood[k] /\ lastGood[k] = None /\ readings'[k].value = Measured(k)
            \/ lastGood'[k] = lastGood[k] /\ lastGood[k] # None /\ readings'[k].value = lastGood[k]
<1>1. PICK roll \in Rolls :
        /\ readings' = [x \in Key |-> [value |-> Carried(x, roll[x], Measured(x)), quality |-> roll[x]]]
        /\ lastGood' = [x \in Key |-> GoodAfter(x, roll[x], Measured(x))]
  BY DEF EmitTimestep
<1>2. /\ readings'[k].value = Carried(k, roll[k], Measured(k))
      /\ lastGood'[k] = GoodAfter(k, roll[k], Measured(k))
  BY <1>1
<1>3. DOMAIN readings' = Key
  BY <1>1
<1>4. readings' # <<>>
  BY <1>3
<1>5. \/ lastGood'[k] = Measured(k) /\ readings'[k].value = Measured(k)
      \/ lastGood'[k] = lastGood[k] /\ lastGood[k] = None /\ readings'[k].value = Measured(k)
      \/ lastGood'[k] = lastGood[k] /\ lastGood[k] # None /\ readings'[k].value = lastGood[k]
  BY <1>2 DEF Carried, GoodAfter
<1> QED
  BY <1>4, <1>5

(* CountersInv holds at every step of a generation.                        *)
LEMMA CountersHold == GeneratorSpec => []CountersInv
<1>1. GeneratorInit => CountersInv
  <2> SUFFICES ASSUME GeneratorInit PROVE CountersInv
    OBVIOUS
  <2>1. RegistersTyped
    BY DEF GeneratorInit, RegistersTyped
  <2>2. readings = <<>> /\ lastGood = [k \in Key |-> None]
    BY DEF GeneratorInit
  <2>3. \A k \in Counters : NotAhead(k)
    BY <2>2, CounterIs DEF NotAhead
  <2> QED
    BY <2>1, <2>3 DEF CountersInv
<1>2. ClockInv /\ SolutionInv /\ CountersInv /\ [GeneratorNext]_generatorVars => CountersInv'
  <2> SUFFICES ASSUME ClockInv, SolutionInv, CountersInv, [GeneratorNext]_generatorVars
               PROVE  CountersInv'
    OBVIOUS
  <2>0. RegistersTyped /\ (\A k \in Counters : NotAhead(k)) /\ capOps \in Nat /\ capStage \in 0 .. 4
    BY DEF CountersInv, SolutionInv
  <2>1. CASE EmitTimestep
    <3>1. RegistersTyped'
      <4>1. /\ phase = "emit"
            /\ energy' = [n \in Node |-> EnergyAfter(n)]
            /\ startCount' = [n \in Motor |-> StartsAfter(n)]
            /\ runtime' = [n \in Motor |-> RuntimeAfter(n)]
        BY <2>1 DEF EmitTimestep
      <4>2. ASSUME NEW n \in Node PROVE EnergyAfter(n) \in Int
        <5>1. <<n, "ENERGY_ACTIVE_KWH">> \in Counters
          BY DEF Counters, Key
        <5>2. Measured(<<n, "ENERGY_ACTIVE_KWH">>) \in Int
          BY <2>0, <2>1, <5>1, RegisterGrows
        <5> QED
          BY <5>2 DEF Measured
      <4>3. ASSUME NEW n \in Motor PROVE StartsAfter(n) \in Int /\ RuntimeAfter(n) \in Int
        <5>1. <<n, "START_COUNT">> \in Counters /\ <<n, "RUNTIME_HOURS">> \in Counters
          BY DEF Counters, Key
        <5>2. Measured(<<n, "START_COUNT">>) \in Int /\ Measured(<<n, "RUNTIME_HOURS">>) \in Int
          BY <2>0, <2>1, <5>1, RegisterGrows
        <5> QED
          BY <5>2 DEF Measured
      <4> QED
        BY <4>1, <4>2, <4>3 DEF RegistersTyped
    <3>2. ASSUME NEW k \in Counters PROVE NotAhead(k)'
      <4>1. /\ Measured(k) \in Int /\ Register(k) \in Int
            /\ Register(k) =< Measured(k) /\ Register(k)' = Measured(k)
        BY <2>0, <2>1, RegisterGrows
      <4>2. /\ \/ lastGood'[k] = Measured(k) /\ readings'[k].value = Measured(k)
               \/ lastGood'[k] = lastGood[k] /\ lastGood[k] = None /\ readings'[k].value = Measured(k)
               \/ lastGood'[k] = lastGood[k] /\ lastGood[k] # None /\ readings'[k].value = lastGood[k]
        BY <2>1, CounterIs, EmissionIs
      <4>3. Measured(k) # None
        BY <4>1, TelemetryAssumption
      <4>4. lastGood[k] # None => lastGood[k] \in Int /\ lastGood[k] =< Register(k)
        BY <2>0 DEF NotAhead
      <4> QED
        BY <4>1, <4>2, <4>3, <4>4 DEF NotAhead
    <3> QED
      BY <3>1, <3>2 DEF CountersInv
  <2>2. CASE SolveTimestep
    <3>1. /\ energy' = energy /\ runtime' = runtime /\ startCount' = startCount
          /\ lastGood' = lastGood /\ readings' = readings
      BY <2>2 DEF SolveTimestep, registers
    <3>2. capOps' \in Nat /\ capOps' >= capOps
      BY <2>0, <2>2, SolveIs, BankMoves
    <3>3. ASSUME NEW k \in Counters PROVE NotAhead(k)'
      <4>1. Register(k) \in Int /\ Register(k)' \in Int /\ Register(k) =< Register(k)'
        BY <2>0, <3>1, <3>2, CounterIs DEF Register, RegistersTyped
      <4>2. NotAhead(k)
        BY <2>0
      <4> QED
        BY <3>1, <4>1, <4>2 DEF NotAhead
    <3> QED
      BY <2>0, <3>1, <3>3 DEF CountersInv, RegistersTyped
  <2>3. CASE Start \/ Return \/ UNCHANGED generatorVars
    <3>1. /\ energy' = energy /\ runtime' = runtime /\ startCount' = startCount
          /\ lastGood' = lastGood /\ readings' = readings /\ capOps' = capOps
      BY <2>3 DEF Start, Return, generatorVars, registers
    <3> QED
      BY <2>0, <3>1 DEF CountersInv, RegistersTyped, NotAhead, Register
  <2> QED
    BY <2>1, <2>2, <2>3 DEF GeneratorNext, Ended
<1> QED
  BY <1>1, <1>2, ClockHolds, SolutionHolds, PTL DEF GeneratorSpec

(* No reading of a counter channel is below the one before it, in whatever *)
(* order the qualities come. This is property CountersNeverDecrease of     *)
(* Telemetry, for the registers of _emit_timestep and the value carried by *)
(* _quality_and_value.                                                     *)
THEOREM CountersNeverDecreaseAlways == GeneratorSpec => CountersNeverDecrease
<1>1. ClockInv /\ SolutionInv /\ CountersInv /\ [GeneratorNext]_generatorVars
        => [Emits => \A k \in Counters : readings'[k].value >= readings[k].value]_generatorVars
  <2> SUFFICES ASSUME ClockInv, SolutionInv, CountersInv, GeneratorNext, Emits, NEW k \in Counters
               PROVE  readings'[k].value >= readings[k].value
    OBVIOUS
  <2>1. EmitTimestep
    BY DEF Emits, GeneratorNext, Start, SolveTimestep, Return, Ended
  <2>2. RegistersTyped /\ NotAhead(k) /\ readings # <<>>
    BY DEF CountersInv, Emits
  <2>3. Measured(k) \in Int /\ Register(k) \in Int /\ Register(k) =< Measured(k)
    BY <2>1, <2>2, RegisterGrows
  <2>4. \/ readings'[k].value = Measured(k)
        \/ lastGood[k] # None /\ readings'[k].value = lastGood[k]
    BY <2>1, CounterIs, EmissionIs
  <2> QED
    BY <2>2, <2>3, <2>4 DEF NotAhead
<1> QED
  BY <1>1, ClockHolds, SolutionHolds, CountersHold, PTL DEF GeneratorSpec, CountersNeverDecrease

-----------------------------------------------------------------------------
(* The bank on the generator's own load.                                     *)

(* The thresholds are further apart than a stage of the reference          *)
(* facility, at any load its main bus can import.                          *)
LEMMA StageFitsBetween ==
  ASSUME NEW p \in Int, p >= 162, NEW q \in Int, NEW s \in 0 .. 4
  PROVE  /\ Bank!SwitchIn(<<p, q>>, s) => ~Bank!SwitchOut(<<p, q>>, s + 1)
         /\ Bank!SwitchOut(<<p, q>>, s) => ~Bank!SwitchIn(<<p, q>>, s - 1)
<1>1. PICK x : x = q - s * 50
  OBVIOUS
<1>2. x \in Int
  BY <1>1
<1>3. /\ Bank!QNow(<<p, q>>, s) = x
      /\ Bank!QNow(<<p, q>>, s + 1) = x - 50
      /\ Bank!QNow(<<p, q>>, s - 1) = x + 50
  BY <1>1 DEF Bank!QNow, StageKvar
<1>4. ~(p = 0)
  OBVIOUS
<1>5. Bank!PfBelow(p, x) => ~Bank!PfAbove(p, x - 50)
  BY <1>2, <1>4 DEF Bank!PfBelow, Bank!PfAbove, Bank!Abs, Bank!Scale, Bank!TanLow, Bank!TanHigh
<1>6. Bank!PfAbove(p, x) => ~Bank!PfBelow(p, x + 50)
  BY <1>2, <1>4 DEF Bank!PfBelow, Bank!PfAbove, Bank!Abs, Bank!Scale, Bank!TanLow, Bank!TanHigh
<1> QED
  BY <1>3, <1>5, <1>6 DEF Bank!SwitchIn, Bank!SwitchOut

(* The load the bank answers is the one it is then seen with.              *)
LEMMA SolveAnswersLoad ==
  ASSUME ClockInv, SolutionInv, SolveTimestep
  PROVE  \E p, q \in Int :
           /\ p >= 162 /\ BankLoad' = <<p, q>>
           /\ capStage' = Bank!StageAfter(<<p, q>>, capStage)
           /\ capOps' = Bank!OpsAfter(<<p, q>>, capStage, capOps)
<1>1. PICK below, drawn :
        /\ IsDownstream(below)
        /\ drawn = <<BusLoad(below).p, BusLoad(below).q>>
        /\ capStage' = Bank!StageAfter(drawn, capStage)
        /\ capOps' = Bank!OpsAfter(drawn, capStage, capOps)
        /\ elec' = Upstream(below, capStage')
  BY SolveIs
<1>2. capStage' \in Int
  BY <1>1, BankMoves DEF SolutionInv
<1>3. below \in PowersOf(Metered)
  BY <1>1 DEF IsDownstream
<1>4. elec' \in PowersOf(Node) /\ BusLoad(elec') = BusLoad(below)
  BY <1>1, <1>2, <1>3, SolutionIs
<1>5. elec' # <<>>
  <2>1. DOMAIN elec' = Node /\ "MSB-001" \in Node
    BY <1>4 DEF PowersOf, Node
  <2> QED
    BY <2>1
<1>6. PICK p, q : p = BusLoad(below).p /\ q = BusLoad(below).q
  OBVIOUS
<1>7. p \in Int /\ q \in Int
  <2>1. \A n \in {"MCC-001", "PP-001", "PV-001"} : below[n] \in Power
    BY <1>3, MeteredIs DEF PowersOf
  <2> QED
    BY <1>6, <2>1, BusLoadIs
<1>8. p >= 162
  BY <1>1, <1>6, BusImports
<1>9. BankLoad' = <<p, q>>
  BY <1>4, <1>5, <1>6 DEF BankLoad
<1> QED
  BY <1>1, <1>6, <1>7, <1>8, <1>9

(* A step that solves no timestep leaves the bank and its load alone.      *)
LEMMA ElsewhereBankRests ==
  ASSUME [GeneratorNext]_generatorVars, ~SolveTimestep
  PROVE  BankLoad' = BankLoad /\ capStage' = capStage /\ capOps' = capOps
<1>1. elec' = elec /\ capStage' = capStage /\ capOps' = capOps
  BY DEF GeneratorNext, Start, EmitTimestep, Return, Ended, generatorVars
<1> QED
  BY <1>1 DEF BankLoad

(* The bank as the generator drives it never hunts: NeverHunts of          *)
(* CapacitorBank, at the loads that _solve_timestep computes and with      *)
(* nothing assumed of them.                                                *)
THEOREM GeneratorNeverHunts == GeneratorSpec => Bank!NeverHunts
<1>1. ClockInv /\ SolutionInv /\ [GeneratorNext]_generatorVars
        => [ /\ capStage' > capStage => ~Bank!SwitchOut(BankLoad', capStage')
             /\ capStage' < capStage => ~Bank!SwitchIn(BankLoad', capStage') ]_(Bank!bankVars)
  <2> SUFFICES ASSUME ClockInv, SolutionInv, [GeneratorNext]_generatorVars
               PROVE  [ /\ capStage' > capStage => ~Bank!SwitchOut(BankLoad', capStage')
                        /\ capStage' < capStage => ~Bank!SwitchIn(BankLoad', capStage') ]_(Bank!bankVars)
    OBVIOUS
  <2>1. CASE SolveTimestep
    <3>1. PICK p \in Int, q \in Int :
            /\ p >= 162 /\ BankLoad' = <<p, q>>
            /\ capStage' = Bank!StageAfter(<<p, q>>, capStage)
      BY <2>1, SolveAnswersLoad
    <3>2. capStage \in 0 .. 4
      BY DEF SolutionInv
    <3>3. \/ Bank!SwitchIn(<<p, q>>, capStage) /\ capStage' = capStage + 1
          \/ Bank!SwitchOut(<<p, q>>, capStage) /\ capStage' = capStage - 1
          \/ capStage' = capStage
      BY <3>1, Zenon DEF Bank!StageAfter
    <3>4. /\ Bank!SwitchIn(<<p, q>>, capStage) => ~Bank!SwitchOut(<<p, q>>, capStage + 1)
          /\ Bank!SwitchOut(<<p, q>>, capStage) => ~Bank!SwitchIn(<<p, q>>, capStage - 1)
      BY <3>1, <3>2, StageFitsBetween
    <3>5. capStage' > capStage => ~Bank!SwitchOut(BankLoad', capStage')
      BY <3>1, <3>2, <3>3, <3>4
    <3>6. capStage' < capStage => ~Bank!SwitchIn(BankLoad', capStage')
      BY <3>1, <3>2, <3>3, <3>4
    <3> QED
      BY <3>5, <3>6
  <2>2. CASE ~SolveTimestep
    BY <2>2, ElsewhereBankRests DEF Bank!bankVars
  <2> QED
    BY <2>1, <2>2
<1> QED
  BY <1>1, ClockHolds, SolutionHolds, PTL DEF GeneratorSpec, Bank!NeverHunts

(* The operations the generator counts account for the stages it puts in:  *)
(* OpsAccountForStages of CapacitorBank at those loads.                    *)
THEOREM GeneratorAccountsForStages == GeneratorSpec => []Bank!OpsAccountForStages
<1>1. GeneratorInit => Bank!OpsAccountForStages
  BY DEF GeneratorInit, Bank!OpsAccountForStages, MaxStages
<1>2. ClockInv /\ SolutionInv /\ SolutionInv' /\ Bank!OpsAccountForStages
        /\ [GeneratorNext]_generatorVars
        => Bank!OpsAccountForStages'
  <2> SUFFICES ASSUME ClockInv, SolutionInv, SolutionInv', Bank!OpsAccountForStages,
                      [GeneratorNext]_generatorVars
               PROVE  Bank!OpsAccountForStages'
    OBVIOUS
  <2>1. CASE SolveTimestep
    <3>1. PICK p \in Int, q \in Int :
            /\ capStage' = Bank!StageAfter(<<p, q>>, capStage)
            /\ capOps' = Bank!OpsAfter(<<p, q>>, capStage, capOps)
      BY <2>1, SolveAnswersLoad
    <3>2. capStage \in Int /\ capOps \in Int /\ capStage' \in 0 .. MaxStages
      BY DEF SolutionInv, MaxStages
    <3>3. \/ capStage' = capStage + 1 /\ capOps' = capOps + 1
          \/ capStage' = capStage - 1 /\ capOps' = capOps + 1
          \/ capStage' = capStage /\ capOps' = capOps
      BY <3>1, Zenon DEF Bank!StageAfter, Bank!OpsAfter
    <3> QED
      BY <3>2, <3>3 DEF Bank!OpsAccountForStages
  <2>2. CASE ~SolveTimestep
    BY <2>2, ElsewhereBankRests DEF Bank!OpsAccountForStages
  <2> QED
    BY <2>1, <2>2
<1> QED
  BY <1>1, <1>2, ClockHolds, SolutionHolds, PTL DEF GeneratorSpec

=============================================================================
