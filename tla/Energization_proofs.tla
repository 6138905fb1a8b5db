------------------------ MODULE Energization_proofs ------------------------
(***************************************************************************)
(* Proofs about the topology solver, for every network and every set of    *)
(* node ids.                                                               *)
(***************************************************************************)
EXTENDS Energization, Network_proofs, FiniteSetTheorems, TLAPS

-----------------------------------------------------------------------------
(* Type correctness.                                                        *)

(* The other end of an edge is a node of the network.                       *)
LEMMA OtherEndType ==
  ASSUME TypeOK, NEW i \in DOMAIN network.edges, NEW n
  PROVE  OtherEnd(i, n) \in CollectNodeIds(network)
BY NetworkParts DEF TypeOK, OtherEnd

\* Every step of the solver keeps TypeOK, whoever called it.
LEMMA TypeStep ==
  ASSUME TypeOK, [Next]_vars
  PROVE  TypeOK'
<1> USE DEF TypeOK
<1>1. CASE StartSearch
  <2>1. PICK s \in NextSource :
          /\ source' = s
          /\ pending' = pending \ {s}
          /\ parents' = [n \in {s.node} |-> Root]
          /\ queue' = <<s.node>>
    BY <1>1 DEF StartSearch
  <2>2. s \in network.sources /\ s.node \in CollectNodeIds(network)
    BY <2>1, NetworkParts DEF NextSource, Preferred
  <2>3. Root \in Hop
    BY DEF Root, Hop
  <2> QED
    BY <1>1, <2>1, <2>2, <2>3 DEF StartSearch, Pass
<1>2. CASE Visit
  <2>1. PICK i \in Fresh(Head(queue)) :
          /\ parents' =
               [n \in DOMAIN parents \cup {OtherEnd(i, Head(queue))} |->
                  IF n = OtherEnd(i, Head(queue))
                    THEN [prev |-> Head(queue), edge |-> i,
                          against |-> Against(i, Head(queue))]
                    ELSE parents[n]]
          /\ queue' = Append(queue, OtherEnd(i, Head(queue)))
    BY <1>2 DEF Visit
  <2>2. /\ Head(queue) \in DOMAIN parents
        /\ i \in DOMAIN network.edges
    BY <1>2, <2>1 DEF Visit, Fresh
  <2>3. /\ Head(queue) \in NodeId
        /\ i \in Nat
        /\ OtherEnd(i, Head(queue)) \in CollectNodeIds(network)
    BY <2>2, OtherEndType, NetworkParts DEF CollectNodeIds
  <2>4. [prev |-> Head(queue), edge |-> i,
         against |-> Against(i, Head(queue))] \in Hop
    BY <2>3 DEF Hop, Against
  <2>5. /\ DOMAIN parents' = DOMAIN parents \cup {OtherEnd(i, Head(queue))}
        /\ parents' \in [DOMAIN parents' -> Hop]
    BY <2>1, <2>4
  <2>6. queue' \in Seq(DOMAIN parents')
    BY <2>1, <2>5
  <2> QED
    BY <1>2, <2>3, <2>5, <2>6 DEF Visit
<1>3. CASE Advance
  BY <1>3 DEF Advance
<1>4. CASE Claim
  <2>1. \A n \in DOMAIN results' : VerdictOf(results'[n]) \in Verdict
    <3>1. source.node \in NodeId
      BY <1>4, NetworkParts DEF Claim
    <3>2. \A n : VerdictOf(ClaimedResult(n)) \in Verdict
      BY <3>1, StateForSourceTypeType
      DEF ClaimedResult, VerdictOf, Verdict, EnergizationState, EnergizedStates
    <3> QED
      BY <1>4, <3>2 DEF Claim, Kept
  <2>2. parents' \in [DOMAIN parents' -> Hop] /\ DOMAIN parents' = {}
    BY <1>4 DEF Claim, NoMap
  <2>3. queue' \in Seq(DOMAIN parents')
    BY <1>4 DEF Claim
  <2>4. /\ DOMAIN results' = DOMAIN results \cup DOMAIN parents
        /\ results' = [n \in DOMAIN results' |-> results'[n]]
    BY <1>4 DEF Claim
  <2> QED
    BY <1>4, <2>1, <2>2, <2>3, <2>4 DEF Claim
<1>5. CASE NextPass
  BY <1>5 DEF NextPass, Pass
<1>6. CASE DeEnergizeRest
  <2>1. VerdictOf(DeEnergizedResult) \in Verdict
    BY DEF DeEnergizedResult, VerdictOf, Verdict, EnergizationState
  <2> QED
    BY <1>6, <2>1 DEF DeEnergizeRest, Pass
<1>7. CASE UNCHANGED vars
  BY <1>7 DEF vars, VerdictOf
<1> QED
  BY <1>1, <1>2, <1>3, <1>4, <1>5, <1>6, <1>7 DEF Next, Returned

\* TypeOK holds initially and every step of the call keeps it.
THEOREM TypeCorrect == Spec => []TypeOK
<1>1. Init => TypeOK
  <2> SUFFICES ASSUME Init PROVE TypeOK
    OBVIOUS
  <2>1. IsNetwork(network)
    BY NetworksAssumption DEF Init
  <2>2. parents \in [DOMAIN parents -> Hop] /\ DOMAIN parents = {}
    BY DEF Init, NoMap
  <2>3. DOMAIN results = {} /\ results = [n \in DOMAIN results |-> results[n]]
    BY DEF Init, NoMap
  <2> QED
    BY <2>1, <2>2, <2>3 DEF Init, TypeOK, Pass
<1>2. TypeOK /\ [Next]_vars => TypeOK'
  BY TypeStep
<1> QED
  BY <1>1, <1>2, PTL DEF Spec

-----------------------------------------------------------------------------
(* The inductive invariant.                                                 *)

(* Appending to the queue keeps what it holds and adds the new node.        *)
LEMMA QueueAppend ==
  ASSUME NEW S, NEW q \in Seq(S), NEW x \in S
  PROVE  /\ \E k \in 1 .. Len(Append(q, x)) : Append(q, x)[k] = x
         /\ \A k \in 1 .. Len(q) : /\ k \in 1 .. Len(Append(q, x))
                                 /\ Append(q, x)[k] = q[k]
<1>1. /\ Len(Append(q, x)) = Len(q) + 1
      /\ Append(q, x)[Len(q) + 1] = x
      /\ Len(q) \in Nat
  OBVIOUS
<1>2. Len(q) + 1 \in 1 .. Len(Append(q, x))
  BY <1>1
<1>3. ASSUME NEW k \in 1 .. Len(q)
      PROVE  k \in 1 .. Len(Append(q, x)) /\ Append(q, x)[k] = q[k]
  BY <1>1
<1> QED
  BY <1>1, <1>2, <1>3

(* Taking the head off the queue keeps the rest.                            *)
LEMMA QueueTail ==
  ASSUME NEW S, NEW q \in Seq(S), q # <<>>, NEW k \in 1 .. Len(q), k # 1
  PROVE  k - 1 \in 1 .. Len(Tail(q)) /\ Tail(q)[k - 1] = q[k]
OBVIOUS

\* The nodes a search has visited once its queue is empty.
LEMMA SearchDone ==
  ASSUME TypeOK, SearchInv, source # NoSource, queue = <<>>
  PROVE  DOMAIN parents = Reach(network, Conducting, source.node)
<1>1. Sealed(network, Conducting, DOMAIN parents)
  <2> SUFFICES ASSUME NEW i \in DOMAIN network.edges,
                      network.edges[i].sw \in Conducting
               PROVE  network.edges[i].from \in DOMAIN parents
                        <=> network.edges[i].to \in DOMAIN parents
    BY DEF Sealed
  <2>1. ~ \E n : Queued(n)
    BY DEF Queued
  <2>2. \A n \in DOMAIN parents : Touches(i, n) => OtherEnd(i, n) \in DOMAIN parents
    BY <2>1 DEF SearchInv
  <2> QED
    BY <2>2 DEF Touches, OtherEnd
<1> QED
  BY <1>1, ReachUnique DEF SearchInv, TypeOK

\* A claim made for a source is the verdict of the node, because every source
\* that could have had a better right to it was dealt with before.
LEMMA ClaimIsVerdict ==
  ASSUME TypeOK, SearchInv, OrderInv, ClaimInv, source # NoSource,
         NEW n \in Reach(network, Conducting, source.node),
         n \notin DOMAIN results
  PROVE  VerdictOf(ClaimedResult(n)) \in Verdicts(network, n)
<1>1. /\ n \in CollectNodeIds(network)
      /\ source \in network.sources
      /\ source \in Feeding(network, Conducting, n)
  BY DEF Reach, Feeding, TypeOK
<1>2. \A t \in Feeding(network, Conducting, n) : t \notin Finished
  BY <1>1 DEF ClaimInv, Fed, Feeding, Conducting, SearchInv, Definite, Possible
<1>3. source \in Preferred(Feeding(network, Conducting, n))
  <2> SUFFICES ASSUME NEW t \in Feeding(network, Conducting, n)
               PROVE  ~Before(t, source)
    BY <1>1 DEF Preferred
  <2>1. t \in network.sources /\ (t \in pending \/ t = source)
    BY <1>2 DEF Finished, Feeding
  <2>2. CASE t \in pending
    BY <1>1, <2>2 DEF OrderInv
  <2>3. CASE t = source
    BY <1>1, <2>3, BeforeIsStrict, NetworkParts DEF TypeOK
  <2> QED
    BY <2>1, <2>2, <2>3
<1>4. CASE pass = "definite"
  BY <1>3, <1>4 DEF Verdicts, Conducting, VerdictOf, ClaimedResult, Preferred
<1>5. CASE pass = "possible"
  <2>1. Feeding(network, Definite, n) = {}
    BY <1>1, <1>5 DEF ClaimInv, Fed, Feeding
  <2> QED
    BY <1>3, <1>5, <2>1 DEF Verdicts, Conducting, VerdictOf, ClaimedResult, Preferred
<1> QED
  BY <1>4, <1>5 DEF SearchInv

\* Every step of the solver keeps IInv.
LEMMA IInvStep ==
  ASSUME TypeOK, IInv, [Next]_vars
  PROVE  IInv'
<1> USE DEF IInv
<1>1. CASE StartSearch
  <2>1. PICK s \in NextSource :
          /\ source' = s
          /\ pending' = pending \ {s}
          /\ parents' = [n \in {s.node} |-> Root]
          /\ queue' = <<s.node>>
    BY <1>1 DEF StartSearch
  <2>2. /\ s \in pending /\ s \in network.sources
        /\ s \in Source /\ s.node \in CollectNodeIds(network)
        /\ s # NoSource
    BY <2>1, NetworkParts, NetworksAssumption DEF NextSource, Preferred, TypeOK
  <2>3. /\ pass \in {"definite", "possible"} /\ source = NoSource
        /\ UNCHANGED <<network, pass, results>>
    BY <1>1 DEF StartSearch
  <2>4. Conducting' = Conducting
    BY <2>3 DEF Conducting
  <2>5. SearchInv'
    <3>1. Queued(s.node)'
      BY <2>1 DEF Queued
    <3>2. s.node \in Reach(network, Conducting, s.node)
      BY <2>2, ReachStart
    <3> QED
      BY <2>1, <2>2, <2>3, <2>4, <3>1, <3>2 DEF SearchInv
  <2>6. OrderInv'
    BY <2>1, <2>2, <2>3 DEF OrderInv, NextSource, Preferred, TypeOK
  <2>7. ClaimInv'
    <3>1. Finished' = Finished
      BY <2>1, <2>2, <2>3, NetworksAssumption
      DEF Finished, TypeOK, IsNetwork
    <3> QED
      BY <2>3, <3>1 DEF ClaimInv, Fed
  <2> QED
    BY <2>5, <2>6, <2>7
<1>2. CASE Visit
  <2>1. PICK i, m, current :
          /\ i \in Fresh(Head(queue))
          /\ current = Head(queue)
          /\ m = OtherEnd(i, current)
          /\ DOMAIN parents' = DOMAIN parents \cup {m}
          /\ queue' = Append(queue, m)
    BY <1>2 DEF Visit
  <2>2. UNCHANGED <<network, pass, pending, source, results>>
    BY <1>2 DEF Visit
  <2>3. queue # <<>> /\ source # NoSource
    BY <1>2 DEF Visit, SearchInv
  <2>4. /\ current \in DOMAIN parents
        /\ i \in DOMAIN network.edges
        /\ network.edges[i].sw \in Conducting
        /\ Touches(i, current)
    BY <2>1, <2>3 DEF Fresh, TypeOK
  <2>5. Conducting' = Conducting
    BY <2>2 DEF Conducting
  <2>6. m \in Reach(network, Conducting, source.node)
    BY <2>1, <2>3, <2>4, ReachStep DEF SearchInv, TypeOK, OtherEnd, Touches
  <2>7. /\ Queued(m)'
        /\ \A n : Queued(n) => Queued(n)'
    <3>1. m \in DOMAIN parents' /\ queue \in Seq(DOMAIN parents')
      BY <2>1 DEF TypeOK
    <3> QED
      BY <2>1, <3>1, QueueAppend, SMTT(30) DEF Queued
  <2>8. ASSUME NEW e \in DOMAIN network.edges, NEW n \in DOMAIN parents',
               network.edges[e].sw \in Conducting, Touches(e, n),
               OtherEnd(e, n) \notin DOMAIN parents'
        PROVE  Queued(n)'
    <3>1. CASE n = m
      BY <2>7, <3>1
    <3>2. CASE n \in DOMAIN parents
      BY <2>1, <2>3, <2>7, <2>8, <3>2 DEF SearchInv
    <3> QED
      BY <2>1, <3>1, <3>2
  <2>9. SearchInv'
    BY <2>1, <2>2, <2>3, <2>5, <2>6, <2>8 DEF SearchInv, Touches, OtherEnd
  <2>10. OrderInv' /\ ClaimInv'
    BY <2>2 DEF OrderInv, ClaimInv, Finished, Fed
  <2> QED
    BY <2>9, <2>10
<1>3. CASE Advance
  <2>1. UNCHANGED <<network, pass, pending, source, parents, results>>
    BY <1>3 DEF Advance
  <2>2. Conducting' = Conducting
    BY <2>1 DEF Conducting
  <2>3. \A n : Queued(n) => Queued(n)' \/ n = Head(queue)
    <3> SUFFICES ASSUME NEW k \in 1 .. Len(queue), k # 1
                 PROVE  \E j \in 1 .. Len(queue') : queue'[j] = queue[k]
      BY DEF Queued
    <3> QED
      BY <1>3, QueueTail DEF Advance, TypeOK
  <2>4. \A i \in DOMAIN network.edges :
          ~ /\ network.edges[i].sw \in Conducting
            /\ Touches(i, Head(queue))
            /\ OtherEnd(i, Head(queue)) \notin DOMAIN parents
    BY <1>3 DEF Advance, Fresh
  <2>5. SearchInv'
    BY <1>3, <2>1, <2>2, <2>3, <2>4 DEF SearchInv, Advance, Touches, OtherEnd
  <2>6. OrderInv' /\ ClaimInv'
    BY <2>1 DEF OrderInv, ClaimInv, Finished, Fed
  <2> QED
    BY <2>5, <2>6
<1>4. CASE Claim
  <2>1. /\ source # NoSource /\ queue = <<>> /\ queue' = <<>>
        /\ source' = NoSource
        /\ UNCHANGED <<network, pass, pending>>
        /\ DOMAIN results' = DOMAIN results \cup DOMAIN parents
        /\ \A n \in DOMAIN results' :
             results'[n] = IF n \in DOMAIN results THEN results[n]
                                                   ELSE ClaimedResult(n)
    BY <1>4 DEF Claim, Kept
  <2>2. /\ DOMAIN parents = Reach(network, Conducting, source.node)
        /\ pass \in {"definite", "possible"}
    BY <2>1, SearchDone DEF SearchInv
  <2>3. NoSource \notin network.sources
    BY NetworksAssumption DEF TypeOK, IsNetwork
  <2>4. SearchInv' /\ OrderInv'
    BY <2>1, <2>3 DEF SearchInv, OrderInv, TypeOK
  <2>5. \A n \in DOMAIN results' : VerdictOf(results'[n]) \in Verdicts(network, n)
    BY <2>1, <2>2, ClaimIsVerdict DEF ClaimInv
  <2>6. Finished' = Finished \cup {source}
    BY <2>1, <2>3 DEF Finished, OrderInv, TypeOK
  <2>7. \A C : Fed(C, Finished')
                 = Fed(C, Finished) \cup Reach(network, C, source.node)
    BY <2>6 DEF Fed, Reach
  <2>8. ClaimInv'
    <3>1. CASE pass = "definite"
      BY <2>1, <2>2, <2>5, <2>7, <3>1 DEF ClaimInv, Conducting, Fed
    <3>2. CASE pass = "possible"
      BY <2>1, <2>2, <2>5, <2>7, <3>2 DEF ClaimInv, Conducting, Fed
    <3> QED
      BY <2>2, <3>1, <3>2
  <2> QED
    BY <2>4, <2>8
<1>5. CASE NextPass
  <2>1. /\ pass \in {"definite", "possible"} /\ source = NoSource /\ pending = {}
        /\ UNCHANGED <<network, source, parents, queue, results>>
    BY <1>5 DEF NextPass
  <2>2. NoSource \notin network.sources
    BY NetworksAssumption DEF TypeOK, IsNetwork
  <2>3. Finished = network.sources
    BY <2>1, <2>2 DEF Finished
  <2>4. CASE pass = "definite"
    <3>1. pass' = "possible" /\ pending' = network.sources
      BY <1>5, <2>4 DEF NextPass
    <3>2. Finished' = {}
      BY <2>1, <3>1 DEF Finished
    <3>3. ClaimInv'
      BY <2>1, <2>3, <2>4, <3>1, <3>2 DEF ClaimInv, Fed
    <3>4. SearchInv' /\ OrderInv'
      BY <2>1, <2>2, <3>1 DEF SearchInv, OrderInv
    <3> QED
      BY <3>3, <3>4
  <2>5. CASE pass = "possible"
    <3>1. pass' = "rest" /\ pending' = pending
      BY <1>5, <2>5 DEF NextPass
    <3>2. ClaimInv'
      BY <2>1, <2>3, <2>5, <3>1 DEF ClaimInv, Fed
    <3>3. SearchInv' /\ OrderInv'
      BY <2>1, <3>1 DEF SearchInv, OrderInv
    <3> QED
      BY <3>2, <3>3
  <2> QED
    BY <2>1, <2>4, <2>5
<1>6. CASE DeEnergizeRest
  <2>1. /\ pass = "rest" /\ pass' = "returned"
        /\ UNCHANGED <<network, pending, source, parents, queue>>
        /\ DOMAIN results' = DOMAIN results \cup CollectNodeIds(network)
        /\ \A n \in DOMAIN results' :
             results'[n] = IF n \in DOMAIN results THEN results[n]
                                                   ELSE DeEnergizedResult
    BY <1>6 DEF DeEnergizeRest
  <2>2. SearchInv' /\ OrderInv'
    BY <2>1 DEF SearchInv, OrderInv
  <2>3. \A n \in CollectNodeIds(network) \ DOMAIN results :
          /\ Feeding(network, Definite, n) = {}
          /\ Feeding(network, Possible, n) = {}
    BY <2>1 DEF ClaimInv, Fed, Feeding
  <2>4. \A n \in DOMAIN results' : VerdictOf(results'[n]) \in Verdicts(network, n)
    <3>1. VerdictOf(DeEnergizedResult) = [state |-> "DE_ENERGIZED", source |-> NoNode]
      BY DEF VerdictOf, DeEnergizedResult
    <3>2. \A n \in CollectNodeIds(network) \ DOMAIN results :
            VerdictOf(DeEnergizedResult) \in Verdicts(network, n)
      BY <2>3, <3>1 DEF Verdicts
    <3> QED
      BY <2>1, <3>2 DEF ClaimInv, TypeOK
  <2>5. DOMAIN results' = CollectNodeIds(network)
    BY <2>1 DEF TypeOK
  <2> QED
    BY <2>1, <2>2, <2>4, <2>5 DEF ClaimInv
<1>7. CASE UNCHANGED vars
  BY <1>7 DEF vars, SearchInv, OrderInv, ClaimInv, Finished, Fed, Queued,
              Touches, OtherEnd, Conducting
<1> QED
  BY <1>1, <1>2, <1>3, <1>4, <1>5, <1>6, <1>7 DEF Next, Returned

\* IInv holds initially and every step of the call keeps it.
THEOREM InductiveInvariant == Spec => []IInv
<1>1. Init => IInv
  <2> SUFFICES ASSUME Init PROVE IInv
    OBVIOUS
  <2>1. IsNetwork(network) /\ NoSource \notin network.sources
    BY NetworksAssumption DEF Init, IsNetwork
  <2>2. SearchInv
    BY DEF Init, SearchInv
  <2>3. OrderInv
    BY <2>1 DEF Init, OrderInv
  <2>4. ClaimInv
    BY <2>1 DEF Init, ClaimInv, NoMap, Finished, Fed
  <2> QED
    BY <2>2, <2>3, <2>4 DEF IInv
<1>2. TypeOK /\ IInv /\ [Next]_vars => IInv'
  BY IInvStep
<1> QED
  BY <1>1, <1>2, TypeCorrect, PTL DEF Spec

\* Every finished search has visited exactly what its source is joined to.
THEOREM SearchIsExactAlways == Spec => []SearchIsExact
<1>1. TypeOK /\ IInv => SearchIsExact
  BY SearchDone DEF IInv, SearchIsExact
<1> QED
  BY <1>1, TypeCorrect, InductiveInvariant, PTL

-----------------------------------------------------------------------------
(* The abstract specification.                                              *)

\* EnergizationSpec speaks of networks in the words of the same module.
LEMMA SameVocabulary ==
  ASSUME NEW w, NEW n
  PROVE  /\ Abstract!CollectNodeIds(w) = CollectNodeIds(w)
         /\ Abstract!Verdict = Verdict
         /\ Abstract!Verdicts(w, n) = Verdicts(w, n)
<1>1. Abstract!CollectNodeIds(w) = CollectNodeIds(w)
  BY DEF Abstract!CollectNodeIds, CollectNodeIds
<1>2. Abstract!Verdict = Verdict
  BY DEF Abstract!Verdict, Verdict, Abstract!EnergizationState, EnergizationState
<1>3. \A C, X : Abstract!Sealed(w, C, X) = Sealed(w, C, X)
  BY DEF Abstract!Sealed, Sealed
<1>4. \A C, m : Abstract!Reach(w, C, m) = Reach(w, C, m)
  BY <1>1, <1>3 DEF Abstract!Reach, Reach
<1>5. \A C : Abstract!Feeding(w, C, n) = Feeding(w, C, n)
  BY <1>4 DEF Abstract!Feeding, Feeding
<1>6. \A S : Abstract!Preferred(S) = Preferred(S)
  BY DEF Abstract!Preferred, Preferred, Abstract!Before, Before
<1>7. \A t : Abstract!StateForSourceType(t) = StateForSourceType(t)
  BY DEF Abstract!StateForSourceType, StateForSourceType
<1>8. Abstract!Definite = Definite /\ Abstract!Possible = Possible
  BY DEF Abstract!Definite, Definite, Abstract!Possible, Possible
<1> QED
  BY <1>1, <1>2, <1>5, <1>6, <1>7, <1>8 DEF Abstract!Verdicts, Verdicts

\* Every step of the call maps to the one step of EnergizationSpec or to none:
\* the loops deliver the verdict that supply and source order alone decide.
THEOREM ImplementsSpec == Spec => Implements
<1>1. Init => Abstract!Init
  BY DEF Init, Abstract!Init, Abstract!NoVerdict, Answer
<1>2. TypeOK /\ TypeOK' /\ IInv /\ IInv' /\ [Next]_vars
        => [Abstract!Solve]_(Abstract!vars)
  <2> SUFFICES ASSUME TypeOK, TypeOK', IInv, IInv', [Next]_vars
               PROVE  Abstract!Solve \/ UNCHANGED <<network, Answer>>
    BY DEF Abstract!vars
  <2>1. CASE StartSearch \/ Visit \/ Advance \/ Claim
    BY <2>1 DEF StartSearch, Visit, Advance, Claim, Answer, IInv, SearchInv
  <2>2. CASE NextPass
    BY <2>2 DEF NextPass, Answer
  <2>3. CASE DeEnergizeRest
    <3>1. pass = "rest" /\ pass' = "returned" /\ network' = network
      BY <2>3 DEF DeEnergizeRest
    <3>2. /\ DOMAIN results' = CollectNodeIds(network)
          /\ \A n \in CollectNodeIds(network) :
               /\ VerdictOf(results'[n]) \in Verdict
               /\ VerdictOf(results'[n]) \in Verdicts(network, n)
      BY <3>1 DEF TypeOK, IInv, ClaimInv, VerdictOf
    <3>3. Answer = <<>>
      BY <3>1 DEF Answer
    <3>4. Answer' = [n \in CollectNodeIds(network) |-> VerdictOf(results'[n])]
      BY <3>1, <3>2 DEF Answer, VerdictOf
    <3> QED
      BY <3>1, <3>2, <3>3, <3>4, SameVocabulary DEF Abstract!Solve, Abstract!NoVerdict
  <2>4. CASE Returned \/ UNCHANGED vars
    BY <2>4 DEF Returned, vars, Answer, VerdictOf
  <2> QED
    BY <2>1, <2>2, <2>3, <2>4 DEF Next
<1> QED
  BY <1>1, <1>2, TypeCorrect, InductiveInvariant, PTL
  DEF Spec, Implements, Abstract!Spec

-----------------------------------------------------------------------------
(* What the verdicts mean when UNKNOWN switches are really open or closed.  *)

\* UNKNOWN is never resolved by assumption, on any network.
THEOREM NeverGuessesAlways == Spec => []NeverGuesses
<1>1. TypeOK /\ IInv => NeverGuesses
  <2> SUFFICES ASSUME TypeOK, IInv, NEW n \in DOMAIN results
               PROVE  \/ /\ results[n].state \in EnergizedStates
                         /\ \A P \in SUBSET UnknownEdges(network) :
                              SuppliedIf(network, P, n)
                      \/ /\ results[n].state = "DE_ENERGIZED"
                         /\ \A P \in SUBSET UnknownEdges(network) :
                              ~SuppliedIf(network, P, n)
                      \/ /\ results[n].state = "INDETERMINATE"
                         /\ \E P, Q \in SUBSET UnknownEdges(network) :
                              SuppliedIf(network, P, n) /\ ~SuppliedIf(network, Q, n)
    BY DEF NeverGuesses
  <2>1. /\ IsNetwork(network)
        /\ VerdictOf(results[n]) \in Verdicts(network, n)
        /\ VerdictOf(results[n]).state = results[n].state
    BY DEF TypeOK, IInv, ClaimInv, VerdictOf
  <2>2. CASE /\ results[n].state \in EnergizedStates
             /\ Feeding(network, Definite, n) # {}
    BY <2>1, <2>2, ResolveBetween DEF SuppliedIf
  <2>3. CASE /\ results[n].state = "INDETERMINATE"
             /\ Feeding(network, Definite, n) = {}
             /\ Feeding(network, Possible, n) # {}
    <3>1. /\ SuppliedIf(network, UnknownEdges(network), n)
          /\ ~SuppliedIf(network, {}, n)
      BY <2>1, <2>3, ResolveExtremes DEF SuppliedIf
    <3> QED
      BY <2>3, <3>1
  <2>4. CASE /\ results[n].state = "DE_ENERGIZED"
             /\ Feeding(network, Possible, n) = {}
    BY <2>1, <2>4, ResolveBetween DEF SuppliedIf
  <2>5. \/ /\ results[n].state \in EnergizedStates
           /\ Feeding(network, Definite, n) # {}
        \/ /\ results[n].state = "INDETERMINATE"
           /\ Feeding(network, Definite, n) = {} /\ Feeding(network, Possible, n) # {}
        \/ /\ results[n].state = "DE_ENERGIZED"
           /\ Feeding(network, Possible, n) = {}
    <3>1. PICK v \in Verdicts(network, n) : v.state = results[n].state
      BY <2>1
    <3>2. Preferred(Feeding(network, Definite, n))
            \subseteq Feeding(network, Definite, n)
      BY DEF Preferred
    <3> QED
      BY <3>1, <3>2, VerdictKinds
  <2> QED
    BY <2>2, <2>3, <2>4, <2>5
<1> QED
  BY <1>1, TypeCorrect, InductiveInvariant, PTL

\* The supply named can only be wrong about a preferred source behind UNKNOWN.
THEOREM SupplyIsStableAlways == Spec => []SupplyIsStable
<1>1. TypeOK /\ IInv => SupplyIsStable
  <2> SUFFICES ASSUME TypeOK, IInv, NEW n \in DOMAIN results,
                      results[n].state \in EnergizedStates,
                      NEW P \in SUBSET UnknownEdges(network),
                      VerdictOf(results[n]) \notin Verdicts(Resolve(network, P), n)
               PROVE  \E t \in Feeding(network, Possible, n) \ Feeding(network, Definite, n) :
                        \E s \in network.sources :
                          s.node = results[n].source /\ Before(t, s)
    BY DEF SupplyIsStable
  <2>1. /\ IsNetwork(network)
        /\ VerdictOf(results[n]) \in Verdicts(network, n)
        /\ VerdictOf(results[n]).state = results[n].state
        /\ VerdictOf(results[n]).source = results[n].source
    BY DEF TypeOK, IInv, ClaimInv, VerdictOf
  <2>2. PICK s \in Preferred(Feeding(network, Definite, n)) :
          VerdictOf(results[n]) = [state |-> StateForSourceType(s.type), source |-> s.node]
    BY <2>1, VerdictKinds DEF EnergizedStates
  <2>3. s \in Feeding(Resolve(network, P), Definite, n)
    BY <2>1, <2>2, ResolveBetween DEF Preferred
  <2>4. s \notin Preferred(Feeding(Resolve(network, P), Definite, n))
    BY <2>2, <2>3 DEF Verdicts
  <2>5. PICK t \in Feeding(Resolve(network, P), Definite, n) : Before(t, s)
    BY <2>3, <2>4 DEF Preferred
  <2>6. t \in Feeding(network, Possible, n) \ Feeding(network, Definite, n)
    BY <2>1, <2>2, <2>5, ResolveBetween DEF Preferred
  <2>7. s \in network.sources /\ s.node = results[n].source
    BY <2>1, <2>2 DEF Preferred, Feeding
  <2> QED
    BY <2>5, <2>6, <2>7
<1> QED
  BY <1>1, TypeCorrect, InductiveInvariant, PTL
-----------------------------------------------------------------------------
(* The way back from a visited node.                                        *)

\* The maps that satisfy the recursion of _reconstruct_path, for the nodes and
\* for the edges on the way.
Paths(P, g) ==
  g = [m \in DOMAIN P |->
         IF P[m].prev = NoNode THEN <<m>> ELSE Append(g[P[m].prev], m)]

(* The edges on the way back of every entry, by the map's own recursion.    *)
Ways(P, h) ==
  h = [m \in DOMAIN P |->
         IF P[m].prev = NoNode
           THEN <<>> ELSE Append(h[P[m].prev], P[m].edge)]

\* g and h are the only ones.
TheWays(P, g, h) ==
  /\ Paths(P, g) /\ \A f : Paths(P, f) => f = g
  /\ Ways(P, h) /\ \A f : Ways(P, f) => f = h

(* What the recursive functions of the model compute, once functions that   *)
(* obey their equations are known.                                          *)
LEMMA PathToIs ==
  ASSUME NEW g, NEW h, TheWays(parents, g, h), NEW n
  PROVE  PathTo(n) = g[n] /\ EdgesTo(n) = h[n]
<1> DEFINE p == CHOOSE f : Paths(parents, f)
           e == CHOOSE f : Ways(parents, f)
<1>1. p = g /\ e = h
  BY DEF TheWays
<1>2. PathTo(n) = p[n]
  BY DEF PathTo, Paths
<1>3. EdgesTo(n) = e[n]
  BY DEF EdgesTo, Ways
<1> QED
  BY <1>1, <1>2, <1>3

(* f, defined on the entries P, with the value v at x.                      *)
With(f, P, x, v) == [m \in DOMAIN P \cup {x} |-> IF m = x THEN v ELSE f[m]]

\* A node x visited from c: its way is that of c and one hop, and no other
\* node's way changes.
LEMMA WaysExtend ==
  ASSUME NEW P, NEW Q, NEW g, NEW h, TheWays(P, g, h),
         NEW c \in DOMAIN P, c # NoNode, NEW x, x \notin DOMAIN P,
         \A m \in DOMAIN P :
           P[m].prev # NoNode => P[m].prev \in DOMAIN P,
         DOMAIN Q = DOMAIN P \cup {x},
         \A m \in DOMAIN P : Q[m] = P[m],
         Q[x].prev = c,
         NEW G, G = With(g, P, x, Append(g[c], x)),
         NEW H, H = With(h, P, x, Append(h[c], Q[x].edge))
  PROVE  TheWays(Q, G, H)
<1>1. Paths(Q, G)
  <2>1. g = [m \in DOMAIN P |->
               IF P[m].prev = NoNode THEN <<m>> ELSE Append(g[P[m].prev], m)]
    BY DEF TheWays, Paths
  <2>2. ASSUME NEW m \in DOMAIN P \cup {x}
        PROVE  G[m] = IF Q[m].prev = NoNode
                        THEN <<m>> ELSE Append(G[Q[m].prev], m)
    BY <2>1 DEF With
  <2> QED
    BY <2>2 DEF Paths, With
<1>2. ASSUME NEW f, Paths(Q, f) PROVE f = G
  <2> DEFINE f0 == [m \in DOMAIN P |-> f[m]]
  <2>1. /\ f = [m \in DOMAIN P \cup {x} |-> f[m]]
        /\ f[x] = Append(f[c], x)
        /\ \A m \in DOMAIN P :
             f[m] = IF P[m].prev = NoNode THEN <<m>> ELSE Append(f[P[m].prev], m)
    BY <1>2 DEF Paths
  <2>2. Paths(P, f0)
    BY <2>1 DEF Paths
  <2>3. f0 = g
    BY <2>2 DEF TheWays
  <2>4. \A m \in DOMAIN P : f[m] = g[m]
    BY <2>3
  <2> QED
    BY <2>1, <2>4 DEF With
<1>3. Ways(Q, H)
  <2>1. h = [m \in DOMAIN P |->
               IF P[m].prev = NoNode
                 THEN <<>> ELSE Append(h[P[m].prev], P[m].edge)]
    BY DEF TheWays, Ways
  <2>2. ASSUME NEW m \in DOMAIN P \cup {x}
        PROVE  H[m] = IF Q[m].prev = NoNode
                        THEN <<>> ELSE Append(H[Q[m].prev], Q[m].edge)
    BY <2>1 DEF With
  <2> QED
    BY <2>2 DEF Ways, With
<1>4. ASSUME NEW f, Ways(Q, f) PROVE f = H
  <2> DEFINE f0 == [m \in DOMAIN P |-> f[m]]
  <2>1. /\ f = [m \in DOMAIN P \cup {x} |-> f[m]]
        /\ f[x] = Append(f[c], Q[x].edge)
        /\ \A m \in DOMAIN P :
             f[m] = IF P[m].prev = NoNode
                      THEN <<>> ELSE Append(f[P[m].prev], P[m].edge)
    BY <1>4 DEF Ways
  <2>2. Ways(P, f0)
    BY <2>1 DEF Ways
  <2>3. f0 = h
    BY <2>2 DEF TheWays
  <2>4. \A m \in DOMAIN P : f[m] = h[m]
    BY <2>3
  <2> QED
    BY <2>1, <2>4 DEF With
<1> QED
  BY <1>1, <1>2, <1>3, <1>4 DEF TheWays

(* An edge more on a way names one UNKNOWN switch more, if it has one.      *)
LEMMA AppendNames ==
  ASSUME NEW S, NEW q \in Seq(S), NEW e
  PROVE  UnknownOn(Append(q, e)) = UnknownOn(q) \cup ({e} \cap UnknownEdges(network))
<1>1. /\ DOMAIN q = 1 .. Len(q) /\ Len(q) \in Nat
      /\ DOMAIN Append(q, e) = 1 .. Len(q) + 1
      /\ \A k \in 1 .. Len(q) : Append(q, e)[k] = q[k]
      /\ Append(q, e)[Len(q) + 1] = e
  OBVIOUS
<1>2. {Append(q, e)[k] : k \in DOMAIN Append(q, e)} = {q[k] : k \in DOMAIN q} \cup {e}
  <2>1. ASSUME NEW k \in 1 .. Len(q) + 1
        PROVE  Append(q, e)[k] \in {q[j] : j \in DOMAIN q} \cup {e}
    <3>1. k \in 1 .. Len(q) \/ k = Len(q) + 1
      BY <1>1
    <3> QED
      BY <1>1, <3>1
  <2>2. Len(q) + 1 \in 1 .. Len(q) + 1 /\ \A k \in 1 .. Len(q) : k \in 1 .. Len(q) + 1
    BY <1>1
  <2>3. e \in {Append(q, e)[k] : k \in 1 .. Len(q) + 1}
    BY <1>1, <2>2
  <2>4. ASSUME NEW k \in 1 .. Len(q)
        PROVE  q[k] \in {Append(q, e)[j] : j \in 1 .. Len(q) + 1}
    BY <1>1, <2>2
  <2> QED
    BY <1>1, <2>1, <2>3, <2>4
<1> QED
  BY <1>2 DEF UnknownOn

\* A running search has recorded one way back from every visited node.
Recorded ==
  source # NoSource => \E g, h : TheWays(parents, g, h) /\ Walks(g, h)

(* A search starts with the empty way to its source.                        *)
LEMMA StartRecords ==
  ASSUME TypeOK, StartSearch
  PROVE  Recorded'
<1>1. PICK s \in NextSource :
        /\ source' = s
        /\ parents' = [n \in {s.node} |-> Root]
        /\ queue' = <<s.node>>
  BY DEF StartSearch
<1>2. /\ s.node \in CollectNodeIds(network) /\ s.node \in NodeId
      /\ IsNetwork(network)
  BY NetworkParts DEF NextSource, Preferred, TypeOK
<1>3. network' = network
  BY DEF StartSearch
<1>4. DOMAIN parents' = {s.node} /\ parents'[s.node] = Root
  BY <1>1
<1> PICK g, h : g = [m \in {s.node} |-> <<m>>] /\ h = [m \in {s.node} |-> <<>>]
  OBVIOUS
<1>5. TheWays(parents', g, h)
  BY <1>4 DEF TheWays, Paths, Ways, Root
<1>6. HopInv'
  BY <1>1, <1>4 DEF HopInv
<1>7. PathInv(g, h)'
  <2>1. g[s.node] = <<s.node>> /\ h[s.node] = <<>>
    OBVIOUS
  <2>2. /\ <<s.node>> \in Seq(DOMAIN parents') /\ <<s.node>> # <<>>
        /\ Len(<<s.node>>) = 1 /\ <<s.node>>[1] = s.node
        /\ <<>> \in Seq(DOMAIN network'.edges)
    BY <1>4
  <2>3. source'.node = s.node
    BY <1>1
  <2>4. DOMAIN parents' = {s.node} /\ 1 .. Len(<<s.node>>) - 1 = {}
    BY <1>4, <2>2
  <2>5. ASSUME NEW n \in DOMAIN parents'
        PROVE  /\ g[n] \in Seq(DOMAIN parents') /\ g[n] # <<>>
               /\ g[n][1] = source'.node /\ g[n][Len(g[n])] = n
               /\ \A k \in 1 .. Len(g[n]) - 1 :
                    g[n][k + 1] # source'.node /\ g[n][k] = parents'[g[n][k + 1]].prev
               /\ h[n] \in Seq(DOMAIN network'.edges)
    <3>1. g[n] = <<s.node>> /\ h[n] = <<>> /\ n = s.node
      BY <2>1, <2>4
    <3> QED
      BY <2>2, <2>3, <2>4, <3>1
  <2> QED
    BY <2>5 DEF PathInv
<1>8. LevelInv(g)'
  <2>1. Queued(s.node)'
    BY <1>1 DEF Queued
  <2>2. Head(queue') = s.node /\ Len(queue') = 1 /\ g[s.node] = <<s.node>>
    BY <1>1
  <2> QED
    BY <1>4, <2>1, <2>2 DEF LevelInv
<1>9. DoubtInv(h)'
  <2>1. UnknownOn(h[s.node]) = {}
    BY DEF UnknownOn
  <2>2. s.node \in Reach(Resolve(network, {}), Definite, s.node)
    BY <1>2, ResolveParts, ReachStart
  <2>3. UnknownOn(h[s.node])' = {}
    BY DEF UnknownOn
  <2> QED
    BY <1>1, <1>3, <1>4, <2>2, <2>3 DEF DoubtInv
<1> QED
  BY <1>5, <1>6, <1>7, <1>8, <1>9 DEF Recorded, Walks

(* A node met for the first time is recorded one level beyond the node at   *)
(* hand, by the edge that led to it.                                        *)
LEMMA VisitRecords ==
  ASSUME TypeOK, SearchInv, Recorded, Visit
  PROVE  Recorded'
<1>1. source # NoSource /\ queue # <<>> /\ IsNetwork(network)
  BY DEF Visit, SearchInv, TypeOK
<1>2. PICK c : c = Head(queue)
  OBVIOUS
<1>3. PICK i \in Fresh(c) :
        /\ \A j \in Fresh(c) : i <= j
        /\ parents' =
             [n \in DOMAIN parents \cup {OtherEnd(i, c)} |->
                IF n = OtherEnd(i, c)
                  THEN [prev |-> c, edge |-> i, against |-> Against(i, c)]
                  ELSE parents[n]]
        /\ queue' = Append(queue, OtherEnd(i, c))
  BY <1>2 DEF Visit
<1>4. PICK x : x = OtherEnd(i, c)
  OBVIOUS
<1>5. UNCHANGED <<network, pass, source>> /\ Conducting' = Conducting
  BY DEF Visit, Conducting
<1>6. /\ c \in DOMAIN parents /\ c \in NodeId /\ c # NoNode
      /\ i \in DOMAIN network.edges /\ network.edges[i].sw \in Conducting
      /\ Touches(i, c) /\ x \notin DOMAIN parents
  <2>1. c \in DOMAIN parents
    BY <1>1, <1>2 DEF TypeOK
  <2> QED
    BY <1>3, <1>4, <2>1, NodeIdAssumption DEF TypeOK, Fresh, CollectNodeIds
<1>7. /\ DOMAIN parents' = DOMAIN parents \cup {x}
      /\ parents'[x] = [prev |-> c, edge |-> i, against |-> Against(i, c)]
      /\ \A m \in DOMAIN parents : parents'[m] = parents[m]
      /\ queue' = Append(queue, x)
  BY <1>3, <1>4, <1>6
<1>8. PICK g, h : TheWays(parents, g, h) /\ Walks(g, h)
  BY <1>1 DEF Recorded
<1>9. /\ HopInv /\ PathInv(g, h) /\ LevelInv(g) /\ DoubtInv(h)
      /\ source.node \in DOMAIN parents
  BY <1>1, <1>8 DEF Walks, SearchInv
<1>10. PICK G : G = With(g, parents, x, Append(g[c], x))
  OBVIOUS
<1>11. PICK H : H = With(h, parents, x, Append(h[c], i))
  OBVIOUS
<1>12. /\ G[x] = Append(g[c], x) /\ H[x] = Append(h[c], i)
       /\ \A m \in DOMAIN parents : G[m] = g[m] /\ H[m] = h[m]
  BY <1>6, <1>10, <1>11 DEF With
<1>13. TheWays(parents', G, H)
  <2>1. \A m \in DOMAIN parents :
          parents[m].prev # NoNode => parents[m].prev \in DOMAIN parents
    BY <1>9 DEF HopInv, Root
  <2>2. parents'[x].prev = c /\ parents'[x].edge = i
    BY <1>7
  <2>3. H = With(h, parents, x, Append(h[c], parents'[x].edge))
    BY <1>11, <2>2
  <2>4. PICK P, Q : P = parents /\ Q = parents'
    OBVIOUS
  <2>5. /\ TheWays(P, g, h) /\ c \in DOMAIN P /\ c # NoNode /\ x \notin DOMAIN P
        /\ DOMAIN Q = DOMAIN P \cup {x}
        /\ \A m \in DOMAIN P : Q[m] = P[m]
        /\ \A m \in DOMAIN P : P[m].prev # NoNode => P[m].prev \in DOMAIN P
        /\ Q[x].prev = c
    BY <1>6, <1>7, <1>8, <2>1, <2>2, <2>4
  <2>6. /\ G = With(g, P, x, Append(g[c], x))
        /\ H = With(h, P, x, Append(h[c], Q[x].edge))
    BY <1>10, <2>3, <2>4
  <2>7. TheWays(Q, G, H)
    BY <2>5, <2>6, WaysExtend
  <2> QED
    BY <2>4, <2>7
<1>14. HopInv'
  <2>1. /\ \A a, b : Joining(Conducting, a, b)' = Joining(Conducting, a, b)
        /\ \A j, a : Against(j, a)' = Against(j, a)
    BY <1>5 DEF Joining, Touches, OtherEnd, Against
  <2>2. /\ i \in Joining(Conducting, c, x)
        /\ \A j \in Joining(Conducting, c, x) : i <= j
    BY <1>3, <1>4, <1>6 DEF Joining, Fresh
  <2> QED
    BY <1>5, <1>6, <1>7, <1>9, <2>1, <2>2 DEF HopInv
<1>15. PathInv(G, H)'
  <2>1. ASSUME NEW n \in DOMAIN parents
        PROVE  /\ g[n] \in Seq(DOMAIN parents) /\ g[n] # <<>>
               /\ g[n][1] = source.node /\ g[n][Len(g[n])] = n
               /\ \A k \in 1 .. Len(g[n]) - 1 :
                    /\ g[n][k + 1] # source.node
                    /\ g[n][k] = parents[g[n][k + 1]].prev
               /\ h[n] \in Seq(DOMAIN network.edges)
    BY <1>9 DEF PathInv
  <2>2. ASSUME NEW n \in DOMAIN parents
        PROVE  /\ G[n] \in Seq(DOMAIN parents') /\ G[n] # <<>>
               /\ G[n][1] = source.node /\ G[n][Len(G[n])] = n
               /\ \A k \in 1 .. Len(G[n]) - 1 :
                    /\ G[n][k + 1] # source.node
                    /\ G[n][k] = parents'[G[n][k + 1]].prev
               /\ H[n] \in Seq(DOMAIN network.edges)
    <3>1. G[n] = g[n] /\ H[n] = h[n]
      BY <1>12
    <3>2. g[n] \in Seq(DOMAIN parents')
      BY <1>7, <2>1
    <3>3. \A k \in 1 .. Len(g[n]) - 1 : g[n][k + 1] \in DOMAIN parents
      BY <2>1
    <3>4. ASSUME NEW k \in 1 .. Len(g[n]) - 1
          PROVE  g[n][k + 1] # source.node /\ g[n][k] = parents'[g[n][k + 1]].prev
      BY <1>7, <2>1, <3>3
    <3>5. /\ g[n] # <<>> /\ g[n][1] = source.node /\ g[n][Len(g[n])] = n
          /\ h[n] \in Seq(DOMAIN network.edges)
      BY <2>1
    <3> QED
      BY <3>1, <3>2, <3>4, <3>5
  <2>3. /\ G[x] \in Seq(DOMAIN parents') /\ G[x] # <<>>
        /\ G[x][1] = source.node /\ G[x][Len(G[x])] = x
        /\ \A k \in 1 .. Len(G[x]) - 1 :
             /\ G[x][k + 1] # source.node
             /\ G[x][k] = parents'[G[x][k + 1]].prev
        /\ H[x] \in Seq(DOMAIN network.edges)
    <3>1. PICK p : p = g[c]
      OBVIOUS
    <3>2. /\ p \in Seq(DOMAIN parents) /\ p # <<>>
          /\ Len(p) \in Nat /\ Len(p) > 0
          /\ p[1] = source.node /\ p[Len(p)] = c
          /\ \A k \in 1 .. Len(p) - 1 :
               /\ p[k + 1] # source.node /\ p[k + 1] \in DOMAIN parents
               /\ p[k] = parents[p[k + 1]].prev
      BY <1>6, <2>1, <3>1
    <3>3. /\ Append(p, x) \in Seq(DOMAIN parents')
          /\ Len(Append(p, x)) = Len(p) + 1
          /\ Append(p, x)[Len(p) + 1] = x
          /\ \A k \in 1 .. Len(p) : Append(p, x)[k] = p[k]
      BY <1>7, <3>2
    <3>4. ASSUME NEW k \in 1 .. Len(p)
          PROVE  /\ Append(p, x)[k + 1] # source.node
                 /\ Append(p, x)[k] = parents'[Append(p, x)[k + 1]].prev
      <4>1. CASE k = Len(p)
        BY <1>6, <1>7, <1>9, <3>2, <3>3, <4>1
      <4>2. CASE k \in 1 .. Len(p) - 1
        <5>1. k + 1 \in 1 .. Len(p)
          BY <3>2, <4>2
        <5> QED
          BY <1>7, <3>2, <3>3, <4>2, <5>1
      <4> QED
        BY <3>2, <4>1, <4>2
    <3>5. Append(h[c], i) \in Seq(DOMAIN network.edges)
      <4>1. PICK q : q = h[c]
        OBVIOUS
      <4>2. q \in Seq(DOMAIN network.edges)
        BY <1>6, <2>1, <4>1
      <4>3. Append(q, i) \in Seq(DOMAIN network.edges)
        BY <1>6, <4>2
      <4> QED
        BY <4>1, <4>3
    <3>6. G[x] = Append(p, x) /\ H[x] = Append(h[c], i)
      BY <1>12, <3>1
    <3> QED
      BY <3>2, <3>3, <3>4, <3>5, <3>6
  <2> QED
    BY <1>5, <1>7, <2>2, <2>3 DEF PathInv
<1>16. LevelInv(G)'
  <2>1. /\ queue \in Seq(DOMAIN parents) /\ Len(queue) \in Nat /\ Len(queue) > 0
        /\ Len(queue') = Len(queue) + 1 /\ queue'[Len(queue) + 1] = x
        /\ \A k \in 1 .. Len(queue) : queue'[k] = queue[k] /\ queue[k] \in DOMAIN parents
        /\ Head(queue') = c /\ queue' # <<>>
    BY <1>1, <1>2, <1>7 DEF TypeOK
  <2>2. /\ \A n \in DOMAIN parents : Len(G[n]) = Len(g[n]) /\ Len(g[n]) \in Nat
        /\ Len(G[x]) = Len(g[c]) + 1 /\ Len(g[c]) \in Nat
    BY <1>6, <1>9, <1>12, SMTT(30) DEF PathInv
  <2>3. \A n \in DOMAIN parents : Len(g[n]) <= Len(g[c]) + 1
    BY <1>1, <1>2, <1>9 DEF LevelInv
  <2>4. ASSUME NEW k \in 1 .. Len(queue') - 1
        PROVE  Len(G[queue'[k]]) <= Len(G[queue'[k + 1]])
    <3>1. CASE k = Len(queue)
      BY <2>1, <2>2, <2>3, <3>1
    <3>2. CASE k \in 1 .. Len(queue) - 1
      <4>1. k \in 1 .. Len(queue) /\ k + 1 \in 1 .. Len(queue)
        BY <2>1, <3>2
      <4>2. Len(g[queue[k]]) <= Len(g[queue[k + 1]])
        BY <1>9, <3>2 DEF LevelInv
      <4> QED
        BY <2>1, <2>2, <4>1, <4>2
    <3> QED
      BY <2>1, <3>1, <3>2
  <2>5. \A n \in DOMAIN parents' : Len(G[n]) <= Len(G[Head(queue')]) + 1
    BY <1>6, <1>7, <2>1, <2>2, <2>3
  <2>6. Queued(x)' /\ \A n : Queued(n) => Queued(n)'
    BY <1>7, <2>1, QueueAppend DEF Queued
  <2>7. ASSUME NEW n \in DOMAIN parents', NEW j \in DOMAIN network.edges,
               network.edges[j].sw \in Conducting, Touches(j, n), ~Queued(n)'
        PROVE  /\ OtherEnd(j, n) \in DOMAIN parents'
               /\ Len(G[OtherEnd(j, n)]) <= Len(G[n]) + 1
    <3>1. n \in DOMAIN parents /\ ~Queued(n)
      BY <1>7, <2>6, <2>7
    <3>2. /\ OtherEnd(j, n) \in DOMAIN parents
          /\ Len(g[OtherEnd(j, n)]) <= Len(g[n]) + 1
      BY <1>9, <2>7, <3>1 DEF LevelInv
    <3> QED
      BY <1>7, <2>2, <3>1, <3>2
  <2>8. \A j, n : Touches(j, n)' = Touches(j, n) /\ OtherEnd(j, n)' = OtherEnd(j, n)
    BY <1>5 DEF Touches, OtherEnd
  <2> QED
    BY <1>5, <2>4, <2>5, <2>7, <2>8 DEF LevelInv
<1>17. DoubtInv(H)'
  <2>1. \A q : UnknownOn(q)' = UnknownOn(q)
    BY <1>5 DEF UnknownOn
  <2>2. x \in Reach(Resolve(network, UnknownOn(H[x])), Definite, source.node)
    <3>1. PICK P : P = UnknownOn(h[c])
      OBVIOUS
    <3>2. PICK Q : Q = UnknownOn(Append(h[c], i))
      OBVIOUS
    <3>3. Q = P \cup ({i} \cap UnknownEdges(network)) /\ Q \in SUBSET UnknownEdges(network)
      <4>1. PICK q : q = h[c]
        OBVIOUS
      <4>2. q \in Seq(DOMAIN network.edges)
        BY <1>6, <1>9, <4>1 DEF PathInv
      <4>3. UnknownOn(Append(q, i)) = UnknownOn(q) \cup ({i} \cap UnknownEdges(network))
        BY <4>2, AppendNames
      <4>4. Q \in SUBSET UnknownEdges(network)
        BY <3>2 DEF UnknownOn
      <4> QED
        BY <3>1, <3>2, <4>1, <4>3, <4>4
    <3>4. c \in Reach(Resolve(network, Q), Definite, source.node)
      <4>1. c \in Reach(Resolve(network, P), Definite, source.node)
        BY <1>6, <1>9, <3>1 DEF DoubtInv
      <4> QED
        BY <1>1, <3>3, <4>1, ResolveMonotone
    <3>5. i \in DOMAIN Resolve(network, Q).edges
          /\ Resolve(network, Q).edges[i].sw \in Definite
          /\ Resolve(network, Q).edges[i].from = network.edges[i].from
          /\ Resolve(network, Q).edges[i].to = network.edges[i].to
      <4>1. network.edges[i].sw = "CLOSED" \/ i \in Q
        BY <1>6, <3>3 DEF Conducting, Definite, Possible, UnknownEdges
      <4> QED
        BY <1>1, <1>6, <3>3, <4>1, ResolveParts DEF Definite
    <3>6. x \in Reach(Resolve(network, Q), Definite, source.node)
      <4>1. IsNetwork(Resolve(network, Q))
        BY <1>1, <3>3, ResolveIsNetwork
      <4> QED
        BY <1>4, <1>6, <3>4, <3>5, <4>1, ReachStep DEF Touches, OtherEnd
    <3> QED
      BY <1>12, <3>2, <3>6
  <2> QED
    BY <1>5, <1>7, <1>9, <1>12, <2>1, <2>2 DEF DoubtInv
<1> QED
  BY <1>13, <1>14, <1>15, <1>16, <1>17 DEF Recorded, Walks

(* Taking the next node off the queue loses nothing that was recorded.      *)
LEMMA AdvanceRecords ==
  ASSUME TypeOK, SearchInv, Recorded, Advance
  PROVE  Recorded'
<1>1. /\ source # NoSource /\ queue # <<>> /\ queue' = Tail(queue)
      /\ Fresh(Head(queue)) = {}
      /\ UNCHANGED <<network, pass, source, parents>>
  BY DEF Advance, SearchInv
<1>2. Conducting' = Conducting
  BY <1>1 DEF Conducting
<1>3. PICK g, h : TheWays(parents, g, h) /\ Walks(g, h)
  BY <1>1 DEF Recorded
<1>4. TheWays(parents', g, h)
  BY <1>1, <1>3 DEF TheWays, Paths, Ways
<1>5. HopInv' /\ PathInv(g, h)' /\ DoubtInv(h)'
  <2>1. /\ \A a, b : Joining(Conducting, a, b)' = Joining(Conducting, a, b)
        /\ \A j, a : Against(j, a)' = Against(j, a)
        /\ \A q : UnknownOn(q)' = UnknownOn(q)
    BY <1>1, <1>2 DEF Joining, Touches, OtherEnd, Against, UnknownOn
  <2>2. HopInv'
    BY <1>1, <1>3, <2>1 DEF Walks, HopInv
  <2>3. PathInv(g, h)'
    BY <1>1, <1>3 DEF Walks, PathInv
  <2>4. DoubtInv(h)'
    BY <1>1, <1>3, <2>1 DEF Walks, DoubtInv
  <2> QED
    BY <2>2, <2>3, <2>4
<1>6. LevelInv(g)'
  <2>1. LevelInv(g) /\ \A n \in DOMAIN parents : Len(g[n]) \in Nat
    BY <1>3 DEF Walks, PathInv
  <2>2. /\ queue \in Seq(DOMAIN parents) /\ Len(queue) \in Nat
        /\ Len(queue') = Len(queue) - 1
        /\ \A k \in 1 .. Len(queue') : queue'[k] = queue[k + 1]
        /\ \A k \in 1 .. Len(queue) : queue[k] \in DOMAIN parents
        /\ Head(queue) = queue[1] /\ Len(queue) > 0
    BY <1>1 DEF TypeOK
  <2>3. \A n \in DOMAIN parents : Len(g[n]) <= Len(g[queue[1]]) + 1
    BY <1>1, <2>1, <2>2 DEF LevelInv
  <2>4. ASSUME NEW k \in 1 .. Len(queue') - 1
        PROVE  Len(g[queue'[k]]) <= Len(g[queue'[k + 1]])
    <3>1. k + 1 \in 1 .. Len(queue) - 1 /\ k \in 1 .. Len(queue') /\ k + 1 \in 1 .. Len(queue')
      BY <2>2
    <3>2. Len(g[queue[k + 1]]) <= Len(g[queue[(k + 1) + 1]])
      BY <2>1, <3>1 DEF LevelInv
    <3> QED
      BY <2>2, <3>1, <3>2
  <2>5. ASSUME queue' # <<>>, NEW n \in DOMAIN parents
        PROVE  Len(g[n]) <= Len(g[Head(queue')]) + 1
    <3>1. queue' \in Seq(DOMAIN parents)
      BY <1>1, <2>2
    <3>2. Len(queue') > 0 /\ Head(queue') = queue'[1]
      BY <2>5, <3>1
    <3>3. 1 \in 1 .. Len(queue) - 1 /\ 1 \in 1 .. Len(queue') /\ 2 \in 1 .. Len(queue)
      BY <2>2, <3>2
    <3>4. Len(g[queue[1]]) <= Len(g[queue[1 + 1]])
      BY <2>1, <3>3 DEF LevelInv
    <3>5. queue'[1] = queue[2]
      BY <2>2, <3>3
    <3>6. Len(g[n]) \in Nat /\ Len(g[queue[1]]) \in Nat /\ Len(g[queue[2]]) \in Nat
      BY <2>1, <2>2, <3>3
    <3> QED
      BY <2>3, <3>2, <3>4, <3>5, <3>6, SMTT(30)
  <2>6. ASSUME NEW n \in DOMAIN parents, NEW j \in DOMAIN network.edges,
               network.edges[j].sw \in Conducting, Touches(j, n), ~Queued(n)'
        PROVE  /\ OtherEnd(j, n) \in DOMAIN parents
               /\ Len(g[OtherEnd(j, n)]) <= Len(g[n]) + 1
    <3>1. CASE n = Head(queue)
      BY <1>1, <2>2, <2>3, <2>6, <3>1 DEF Fresh
    <3>2. CASE n # Head(queue)
      <4>1. ~Queued(n)
        <5> SUFFICES ASSUME NEW k \in 1 .. Len(queue), queue[k] = n PROVE FALSE
          BY DEF Queued
        <5>1. k # 1 /\ k - 1 \in 1 .. Len(queue') /\ queue'[k - 1] = n
          BY <2>2, <3>2
        <5> QED
          BY <2>6, <5>1 DEF Queued
      <4> QED
        BY <2>1, <2>6, <4>1 DEF LevelInv
    <3> QED
      BY <3>1, <3>2
  <2>7. \A j, n : Touches(j, n)' = Touches(j, n) /\ OtherEnd(j, n)' = OtherEnd(j, n)
    BY <1>1 DEF Touches, OtherEnd
  <2> QED
    BY <1>1, <1>2, <2>4, <2>5, <2>6, <2>7 DEF LevelInv
<1> QED
  BY <1>4, <1>5, <1>6 DEF Recorded, Walks

(* The search records its ways at every step.                               *)
LEMMA RecordedStep ==
  ASSUME TypeOK, IInv, Recorded, [Next]_vars
  PROVE  Recorded'
<1> USE DEF IInv
<1>1. CASE Claim
  BY <1>1 DEF Claim, Recorded
<1>2. CASE NextPass
  BY <1>2 DEF NextPass, Recorded
<1>3. CASE DeEnergizeRest
  BY <1>3 DEF DeEnergizeRest, Recorded, SearchInv
<1>4. CASE UNCHANGED vars
  <2>1. UNCHANGED <<network, pass, source, parents, queue>>
    BY <1>4 DEF vars
  <2> SUFFICES ASSUME source # NoSource PROVE Recorded'
    BY <2>1 DEF Recorded
  <2>2. PICK g, h : TheWays(parents, g, h) /\ Walks(g, h)
    BY DEF Recorded
  <2>3. TheWays(parents', g, h)
    BY <2>1, <2>2 DEF TheWays, Paths, Ways
  <2>4. /\ \A a, b : Joining(Conducting, a, b)' = Joining(Conducting, a, b)
        /\ \A j, a : Against(j, a)' = Against(j, a)
        /\ \A j, a : Touches(j, a)' = Touches(j, a) /\ OtherEnd(j, a)' = OtherEnd(j, a)
        /\ \A q : UnknownOn(q)' = UnknownOn(q)
        /\ \A a : Queued(a)' = Queued(a)
        /\ Conducting' = Conducting
    BY <2>1 DEF Joining, Touches, OtherEnd, Against, UnknownOn, Conducting, Queued
  <2>5. HopInv'
    BY <2>1, <2>2, <2>4 DEF Walks, HopInv
  <2>6. PathInv(g, h)'
    BY <2>1, <2>2 DEF Walks, PathInv
  <2>7. LevelInv(g)'
    BY <2>1, <2>2, <2>4 DEF Walks, LevelInv
  <2>8. DoubtInv(h)'
    BY <2>1, <2>2, <2>4 DEF Walks, DoubtInv
  <2> QED
    BY <2>3, <2>5, <2>6, <2>7, <2>8 DEF Recorded, Walks
<1> QED
  BY <1>1, <1>2, <1>3, <1>4, StartRecords, VisitRecords, AdvanceRecords
  DEF Next, Returned

(* So it does throughout the call.                                          *)
LEMMA RecordedAlways == Spec => []Recorded
<1>1. Init => Recorded
  BY DEF Init, Recorded
<1>2. TypeOK /\ IInv /\ Recorded /\ [Next]_vars => Recorded'
  BY RecordedStep
<1> QED
  BY <1>1, <1>2, TypeCorrect, InductiveInvariant, PTL DEF Spec

\* WalkInv holds throughout the call: _reconstruct_path finds the recorded ways.
THEOREM WalkInvariant == Spec => []WalkInv
<1>1. Recorded => WalkInv
  <2> SUFFICES ASSUME Recorded, source # NoSource
               PROVE  Walks([n \in DOMAIN parents |-> PathTo(n)],
                            [n \in DOMAIN parents |-> EdgesTo(n)])
    BY DEF WalkInv
  <2>1. PICK g, h : TheWays(parents, g, h) /\ Walks(g, h)
    BY DEF Recorded
  <2>2. g = [n \in DOMAIN parents |-> g[n]] /\ h = [n \in DOMAIN parents |-> h[n]]
    BY <2>1 DEF TheWays, Paths, Ways
  <2>3. \A n : PathTo(n) = g[n] /\ EdgesTo(n) = h[n]
    BY <2>1, PathToIs
  <2>4. /\ g = [n \in DOMAIN parents |-> PathTo(n)]
        /\ h = [n \in DOMAIN parents |-> EdgesTo(n)]
    BY <2>2, <2>3
  <2> QED
    BY <2>1, <2>4
<1> QED
  BY <1>1, RecordedAlways, PTL

-----------------------------------------------------------------------------
(* What a result shows.                                                     *)

\* The conducting edges of w that join a and b, and the first of them.
Hops(w, C, a, b) ==
  {i \in DOMAIN w.edges :
     /\ w.edges[i].sw \in C
     /\ \/ w.edges[i].from = a /\ w.edges[i].to = b
        \/ w.edges[i].from = b /\ w.edges[i].to = a}

(* i is the first edge of the list that joins a and b.                      *)
FirstHop(w, C, a, b, i) ==
  i \in Hops(w, C, a, b) /\ \A j \in Hops(w, C, a, b) : i <= j

\* V holds s and all that is joined to it, and a hop adds at most one level.
Levels(w, C, s, V, level) ==
  /\ s \in V /\ level \in [V -> Nat] /\ level[s] = 1
  /\ \A m \in V, i \in DOMAIN w.edges : \A o :
       i \in Hops(w, C, m, o) => o \in V /\ level[o] <= level[m] + 1

(* The switch states a claim rests on.                                      *)
CarriedBy(r) == IF r.state = "INDETERMINATE" THEN Possible ELSE Definite

\* The result r of node n in network w carries its own evidence.
Shown(w, n, r) ==
  LET p == r.path
      C == CarriedBy(r)
  IN  /\ p \in Seq(CollectNodeIds(w)) /\ p # <<>>
      /\ p[1] = r.source /\ p[Len(p)] = n
      /\ \A k \in 1 .. Len(p) - 1 :
           p[k + 1] # p[k] /\ \E i : FirstHop(w, C, p[k], p[k + 1], i)
      /\ r.backfed <=> \E k \in 1 .. Len(p) - 1, i \in DOMAIN w.edges :
                         FirstHop(w, C, p[k], p[k + 1], i) /\ w.edges[i].from # p[k]
      /\ \E V, level : /\ Levels(w, C, r.source, V, level)
                       /\ n \in V /\ level[n] = Len(p)

(* What an INDETERMINATE claim says of its reason.                          *)
Doubted(w, n, r) ==
  r.state = "INDETERMINATE" =>
    /\ r.reason \subseteq UnknownEdges(w)
    /\ n \in Reach(Resolve(w, r.reason), Definite, r.source)
    /\ \E s \in w.sources : s.node = r.source

(* Every claim of a supply is shown by its path and its reason.             *)
ShownInv ==
  \A n \in DOMAIN results :
    results[n].state # "DE_ENERGIZED" =>
      Shown(network, n, results[n]) /\ Doubted(network, n, results[n])

(* The joining edges of the property are those of the invariant.            *)
LEMMA JoiningIs ==
  ASSUME NEW C, NEW a, NEW b
  PROVE  Joining(C, a, b) = Hops(network, C, a, b)
BY DEF Joining, Hops, Touches, OtherEnd

\* There is one first edge, and FirstEdge finds it.
LEMMA FirstEdgeIs ==
  ASSUME IsNetwork(network), NEW C, NEW a, NEW b, NEW i, FirstHop(network, C, a, b, i)
  PROVE  FirstEdge(C, a, b) = i
<1>1. Joining(C, a, b) = Hops(network, C, a, b)
  BY JoiningIs
<1>2. \A j \in Hops(network, C, a, b) : j \in Nat
  BY NetworkParts DEF Hops
<1>3. \A j \in Hops(network, C, a, b) : (\A k \in Hops(network, C, a, b) : j <= k) => j = i
  BY <1>2 DEF FirstHop
<1> QED
  BY <1>1, <1>3 DEF FirstEdge, FirstHop

\* What is claimed for a node when its search is over is shown by the search.
LEMMA ClaimIsShown ==
  ASSUME TypeOK, SearchInv, Recorded, source # NoSource, queue = <<>>,
         NEW n \in DOMAIN parents
  PROVE  Shown(network, n, ClaimedResult(n)) /\ Doubted(network, n, ClaimedResult(n))
<1>1. PICK g, h : TheWays(parents, g, h) /\ Walks(g, h)
  BY DEF Recorded
<1>2. PICK r : r = ClaimedResult(n)
  OBVIOUS
<1>3. PICK p : p = g[n]
  OBVIOUS
<1>4. PICK q : q = h[n]
  OBVIOUS
<1>5. PathTo(n) = p /\ EdgesTo(n) = q
  BY <1>1, <1>3, <1>4, PathToIs
<1>6. /\ p \in Seq(DOMAIN parents) /\ p # <<>>
      /\ p[1] = source.node /\ p[Len(p)] = n
      /\ Len(p) \in Nat /\ Len(p) > 0
      /\ \A k \in 1 .. Len(p) - 1 :
           p[k + 1] # source.node /\ p[k] = parents[p[k + 1]].prev
      /\ q \in Seq(DOMAIN network.edges)
  BY <1>1, <1>3, <1>4 DEF Walks, PathInv
<1>7. /\ source \in network.sources /\ source.node \in DOMAIN parents
      /\ DOMAIN parents \subseteq CollectNodeIds(network)
      /\ pass \in {"definite", "possible"} /\ IsNetwork(network)
  BY DEF TypeOK, SearchInv
<1>8. /\ r.path = p /\ r.source = source.node /\ r.backfed = Backfed(n)
      /\ CarriedBy(r) = Conducting
      /\ r.state = "INDETERMINATE" => r.reason = UnknownOn(q)
  <2>1. StateForSourceType(source.type) # "INDETERMINATE"
    BY StateForSourceTypeType DEF EnergizedStates
  <2> QED
    BY <1>2, <1>5, <1>7, <2>1 DEF ClaimedResult, CarriedBy, Conducting
<1>9. ASSUME NEW k \in 1 .. Len(p) - 1
      PROVE  /\ p[k + 1] # p[k] /\ p[k + 1] \in DOMAIN parents
             /\ FirstHop(network, Conducting, p[k], p[k + 1], parents[p[k + 1]].edge)
             /\ parents[p[k + 1]].edge \in DOMAIN network.edges
             /\ parents[p[k + 1]].against <=>
                  network.edges[parents[p[k + 1]].edge].from # p[k]
  <2>1. PICK m : m = p[k + 1]
    OBVIOUS
  <2>2. m \in DOMAIN parents /\ m # source.node /\ p[k] = parents[m].prev
    BY <1>6, <2>1
  <2>3. /\ parents[m].prev # m
        /\ parents[m].edge \in Joining(Conducting, parents[m].prev, m)
        /\ \A j \in Joining(Conducting, parents[m].prev, m) : parents[m].edge <= j
        /\ parents[m].against = Against(parents[m].edge, parents[m].prev)
    BY <1>1, <2>2 DEF Walks, HopInv
  <2>4. Joining(Conducting, parents[m].prev, m) = Hops(network, Conducting, parents[m].prev, m)
    BY JoiningIs
  <2> QED
    BY <2>1, <2>2, <2>3, <2>4 DEF FirstHop, Hops, Against
<1>10. Backfed(n) <=> \E k \in 1 .. Len(p) - 1 : parents[p[k + 1]].against
  <2>1. ~parents[p[1]].against
    BY <1>1, <1>6, <1>7 DEF Walks, HopInv, Root
  <2>2. DOMAIN p = 1 .. Len(p)
    BY <1>6
  <2>3. ASSUME NEW k \in 1 .. Len(p), parents[p[k]].against
        PROVE  \E j \in 1 .. Len(p) - 1 : parents[p[j + 1]].against
    <3>1. k # 1 /\ k - 1 \in 1 .. Len(p) - 1 /\ (k - 1) + 1 = k
      BY <1>6, <2>1, <2>3
    <3> QED
      BY <2>3, <3>1
  <2>4. \A k \in 1 .. Len(p) - 1 : k + 1 \in 1 .. Len(p)
    BY <1>6
  <2> QED
    BY <1>5, <2>2, <2>3, <2>4 DEF Backfed
<1>11. r.backfed <=> \E k \in 1 .. Len(p) - 1, i \in DOMAIN network.edges :
                       FirstHop(network, Conducting, p[k], p[k + 1], i)
                         /\ network.edges[i].from # p[k]
  <2>1. ASSUME NEW k \in 1 .. Len(p) - 1, NEW i \in DOMAIN network.edges,
               FirstHop(network, Conducting, p[k], p[k + 1], i)
        PROVE  i = parents[p[k + 1]].edge
    <3>1. FirstHop(network, Conducting, p[k], p[k + 1], parents[p[k + 1]].edge)
      BY <1>9
    <3> QED
      BY <1>7, <2>1, <3>1, FirstEdgeIs
  <2>2. ASSUME NEW k \in 1 .. Len(p) - 1
        PROVE  parents[p[k + 1]].against <=>
                 \E i \in DOMAIN network.edges :
                   /\ FirstHop(network, Conducting, p[k], p[k + 1], i)
                   /\ network.edges[i].from # p[k]
    <3>1. PICK e : e = parents[p[k + 1]].edge
      OBVIOUS
    <3>2. /\ e \in DOMAIN network.edges
          /\ FirstHop(network, Conducting, p[k], p[k + 1], e)
          /\ parents[p[k + 1]].against <=> network.edges[e].from # p[k]
      BY <1>9, <3>1
    <3>3. \A i \in DOMAIN network.edges :
            FirstHop(network, Conducting, p[k], p[k + 1], i) => i = e
      BY <2>1, <3>1
    <3> QED
      BY <3>2, <3>3
  <2> QED
    BY <1>8, <1>10, <2>2
<1>12. \E V, level : /\ Levels(network, Conducting, source.node, V, level)
                     /\ n \in V /\ level[n] = Len(p)
  <2>1. PICK level : level = [m \in DOMAIN parents |-> Len(g[m])]
    OBVIOUS
  <2>2. \A m \in DOMAIN parents : level[m] = Len(g[m]) /\ level[m] \in Nat
    BY <1>1, <2>1 DEF Walks, PathInv
  <2>3. level[source.node] = 1
    <3>1. parents[source.node].prev = NoNode
      BY <1>1, <1>7 DEF Walks, HopInv, Root
    <3>2. g[source.node] = <<source.node>>
      BY <1>1, <1>7, <3>1 DEF TheWays, Paths
    <3> QED
      BY <1>7, <2>2, <3>2
  <2>4. ASSUME NEW m \in DOMAIN parents, NEW o, NEW i \in DOMAIN network.edges,
               i \in Hops(network, Conducting, m, o)
        PROVE  o \in DOMAIN parents /\ level[o] <= level[m] + 1
    <3>1. network.edges[i].sw \in Conducting /\ Touches(i, m) /\ OtherEnd(i, m) = o
      BY <2>4 DEF Hops, Touches, OtherEnd
    <3>2. ~Queued(m)
      BY DEF Queued
    <3> QED
      BY <1>1, <2>2, <3>1, <3>2 DEF Walks, LevelInv
  <2>5. Levels(network, Conducting, source.node, DOMAIN parents, level)
    BY <1>7, <2>1, <2>2, <2>3, <2>4 DEF Levels
  <2> QED
    BY <1>3, <2>2, <2>5
<1>13. Shown(network, n, r)
  <2>1. p \in Seq(CollectNodeIds(network))
    BY <1>6, <1>7
  <2>2. \A k \in 1 .. Len(p) - 1 :
          p[k + 1] # p[k] /\ \E i : FirstHop(network, Conducting, p[k], p[k + 1], i)
    BY <1>9
  <2> QED
    BY <1>6, <1>8, <1>11, <1>12, <2>1, <2>2 DEF Shown
<1>14. Doubted(network, n, r)
  <2>1. UnknownOn(q) \subseteq UnknownEdges(network)
    BY DEF UnknownOn
  <2>2. n \in Reach(Resolve(network, UnknownOn(q)), Definite, source.node)
    BY <1>1, <1>4 DEF Walks, DoubtInv
  <2> QED
    BY <1>7, <1>8, <2>1, <2>2 DEF Doubted
<1> QED
  BY <1>2, <1>13, <1>14

(* Claims are never written again, so what was shown stays shown.           *)
LEMMA ShownStep ==
  ASSUME TypeOK, IInv, Recorded, ShownInv, [Next]_vars
  PROVE  ShownInv'
<1> USE DEF IInv
<1>1. CASE Claim
  <2>1. /\ network' = network
        /\ \A n \in DOMAIN results' :
             \/ n \in DOMAIN results /\ results'[n] = results[n]
             \/ n \in DOMAIN parents /\ results'[n] = ClaimedResult(n)
    BY <1>1 DEF Claim, Kept
  <2>2. \A n \in DOMAIN parents :
          Shown(network, n, ClaimedResult(n)) /\ Doubted(network, n, ClaimedResult(n))
    BY <1>1, ClaimIsShown DEF Claim
  <2> QED
    BY <2>1, <2>2 DEF ShownInv
<1>2. CASE DeEnergizeRest
  BY <1>2 DEF DeEnergizeRest, DeEnergizedResult, ShownInv
<1>3. CASE UNCHANGED <<network, results>>
  BY <1>3 DEF ShownInv
<1> QED
  BY <1>1, <1>2, <1>3
  DEF Next, StartSearch, Visit, Advance, NextPass, Returned, vars

(* So every claim of the call is.                                           *)
LEMMA ShownAlways == Spec => []ShownInv
<1>1. Init => ShownInv
  BY DEF Init, ShownInv, NoMap
<1>2. TypeOK /\ IInv /\ Recorded /\ ShownInv /\ [Next]_vars => ShownInv'
  BY ShownStep
<1> QED
  BY <1>1, <1>2, TypeCorrect, InductiveInvariant, RecordedAlways, PTL DEF Spec

-----------------------------------------------------------------------------
(* The balls around a node.                                                 *)

(* The equation of the balls the property measures distance by.             *)
LEMMA BallIs ==
  ASSUME NEW C, NEW a
  PROVE  /\ Ball(C, a, 0) = {a}
         /\ \A k \in Nat :
              Ball(C, a, k + 1) =
                {m \in CollectNodeIds(network) :
                   \/ m \in Ball(C, a, k)
                   \/ \E i \in DOMAIN network.edges :
                        /\ network.edges[i].sw \in C
                        /\ Touches(i, m) /\ OtherEnd(i, m) \in Ball(C, a, k)}
<1> DEFINE Wider(X) == {m \in CollectNodeIds(network) :
                          \/ m \in X
                          \/ \E i \in DOMAIN network.edges :
                               /\ network.edges[i].sw \in C
                               /\ Touches(i, m) /\ OtherEnd(i, m) \in X}
           IsBall(f) == f = [j \in Nat |-> IF j = 0 THEN {a} ELSE Wider(f[j - 1])]
           b == CHOOSE f : IsBall(f)
<1>1. \E f : IsBall(f)
  <2>1. PICK S : S = SUBSET (CollectNodeIds(network) \cup {a})
    OBVIOUS
  <2>2. PICK F : F = [X \in S |-> Wider(X)]
    OBVIOUS
  <2>3. F \in [S -> S] /\ {a} \in S
    BY <2>1, <2>2
  <2>4. PICK f \in [Nat -> S] : f[0] = {a} /\ \A n \in Nat : f[n + 1] = F[f[n]]
    BY <2>3, IterationExists
  <2> HIDE DEF Wider
  <2>5. ASSUME NEW j \in Nat, j # 0
        PROVE  f[j] = Wider(f[j - 1])
    <3>1. j - 1 \in Nat /\ (j - 1) + 1 = j
      BY <2>5
    <3> QED
      BY <2>2, <2>4, <3>1
  <2>6. f = [j \in Nat |-> IF j = 0 THEN {a} ELSE Wider(f[j - 1])]
    BY <2>4, <2>5
  <2> QED
    BY <2>6
<1>2. IsBall(b)
  BY <1>1
<1>3. \A k : Ball(C, a, k) = b[k]
  BY DEF Ball
<1> HIDE DEF b, Wider
<1>4. b[0] = {a}
  BY <1>2
<1>5. ASSUME NEW k \in Nat
      PROVE  b[k + 1] = Wider(b[k])
  <2>1. k + 1 \in Nat /\ k + 1 # 0 /\ (k + 1) - 1 = k
    OBVIOUS
  <2> QED
    BY <1>2, <2>1
<1> QED
  BY <1>3, <1>4, <1>5 DEF Wider

\* Levels bound the balls.
LEMMA BallWithin ==
  ASSUME NEW C, NEW s, NEW V, NEW level, Levels(network, C, s, V, level), NEW k \in Nat
  PROVE  \A m \in Ball(C, s, k) : m \in V /\ level[m] <= k + 1
<1> DEFINE Good(j) == \A m \in Ball(C, s, j) : m \in V /\ level[m] <= j + 1
           Bad == {j \in Nat : ~Good(j)}
<1> SUFFICES ASSUME Bad # {} PROVE FALSE
  OBVIOUS
<1>1. PICK j \in Bad : \A i \in Bad : j <= i
  BY LeastExists
<1>2. CASE j = 0
  BY <1>1, <1>2, BallIs DEF Levels
<1>3. CASE j # 0
  <2>1. j - 1 \in Nat /\ (j - 1) + 1 = j
    BY <1>1, <1>3
  <2>2. \A m \in Ball(C, s, j - 1) : m \in V /\ level[m] <= j
    <3>1. Good(j - 1)
      BY <1>1, <2>1
    <3> QED
      BY <2>1, <3>1
  <2>3. ASSUME NEW m \in Ball(C, s, j)
        PROVE  m \in V /\ level[m] <= j + 1
    <3>1. \/ m \in Ball(C, s, j - 1)
          \/ \E i \in DOMAIN network.edges :
               /\ network.edges[i].sw \in C
               /\ Touches(i, m) /\ OtherEnd(i, m) \in Ball(C, s, j - 1)
      BY <2>1, <2>3, BallIs
    <3>2. CASE m \in Ball(C, s, j - 1)
      BY <2>1, <2>2, <3>2 DEF Levels
    <3>3. ASSUME NEW i \in DOMAIN network.edges, network.edges[i].sw \in C,
                 Touches(i, m), OtherEnd(i, m) \in Ball(C, s, j - 1)
          PROVE  m \in V /\ level[m] <= j + 1
      <4>1. PICK o : o = OtherEnd(i, m)
        OBVIOUS
      <4>2. o \in V /\ level[o] <= j
        BY <2>1, <2>2, <3>3, <4>1
      <4>3. i \in Hops(network, C, o, m)
        BY <3>3, <4>1 DEF Hops, Touches, OtherEnd
      <4>4. m \in V /\ level[m] <= level[o] + 1
        BY <3>3, <4>2, <4>3 DEF Levels
      <4>5. level[m] \in Nat /\ level[o] \in Nat
        BY <4>2, <4>4 DEF Levels
      <4>6. level[m] <= j + 1
        BY <1>1, <4>2, <4>4, <4>5
      <4> QED
        BY <4>4, <4>6
    <3> QED
      BY <3>1, <3>2, <3>3
  <2> QED
    BY <1>1, <2>3
<1> QED
  BY <1>2, <1>3

-----------------------------------------------------------------------------
(* What is shown of every result makes its path the evidence.               *)
LEMMA ShownIsEvidence ==
  ASSUME IsNetwork(network), ShownInv
  PROVE  PathIsEvidence
<1> SUFFICES ASSUME IsNetwork(network), NEW n \in DOMAIN results,
                    results[n].state # "DE_ENERGIZED"
             PROVE  LET r == results[n]
                        p == r.path
                        C == IF r.state = "INDETERMINATE" THEN Possible ELSE Definite
                    IN  /\ p # <<>> /\ p[1] = r.source /\ p[Len(p)] = n
                        /\ \A k \in 1 .. Len(p) - 1 :
                             p[k + 1] \in Ball(C, p[k], 1) /\ p[k + 1] # p[k]
                        /\ Len(p) > 1 => n \notin Ball(C, r.source, Len(p) - 2)
                        /\ r.backfed <=>
                             \E k \in 1 .. Len(p) - 1 :
                               network.edges[FirstEdge(C, p[k], p[k + 1])].from # p[k]
  BY DEF PathIsEvidence
<1>1. PICK r : r = results[n]
  OBVIOUS
<1>2. PICK p : p = r.path
  OBVIOUS
<1>3. PICK C : C = CarriedBy(r)
  OBVIOUS
<1>4. /\ p \in Seq(CollectNodeIds(network)) /\ p # <<>>
      /\ p[1] = r.source /\ p[Len(p)] = n /\ Len(p) \in Nat
      /\ \A k \in 1 .. Len(p) - 1 :
           p[k + 1] # p[k] /\ \E i : FirstHop(network, C, p[k], p[k + 1], i)
      /\ r.backfed <=> \E k \in 1 .. Len(p) - 1, i \in DOMAIN network.edges :
                         FirstHop(network, C, p[k], p[k + 1], i)
                           /\ network.edges[i].from # p[k]
  BY <1>1, <1>2, <1>3 DEF ShownInv, Shown
<1>5. PICK V, level : /\ Levels(network, C, r.source, V, level)
                      /\ n \in V /\ level[n] = Len(p)
  BY <1>1, <1>2, <1>3 DEF ShownInv, Shown
<1>6. ASSUME NEW k \in 1 .. Len(p) - 1
      PROVE  p[k + 1] \in Ball(C, p[k], 1)
  <2>1. PICK i : FirstHop(network, C, p[k], p[k + 1], i)
    BY <1>4
  <2>2. /\ i \in DOMAIN network.edges /\ network.edges[i].sw \in C
        /\ Touches(i, p[k + 1]) /\ OtherEnd(i, p[k + 1]) = p[k]
    BY <2>1 DEF FirstHop, Hops, Touches, OtherEnd
  <2>3. p[k + 1] \in CollectNodeIds(network)
    BY <1>4
  <2>4. PICK a, b : a = p[k] /\ b = p[k + 1]
    OBVIOUS
  <2>5. Ball(C, a, 0) = {a}
    BY BallIs
  <2>6. b \in Ball(C, a, 0 + 1)
    BY <2>2, <2>3, <2>4, <2>5, BallIs, SMTT(30)
  <2> QED
    BY <2>4, <2>6
<1>7. ASSUME Len(p) > 1, n \in Ball(C, r.source, Len(p) - 2)
      PROVE  FALSE
  <2>1. Len(p) - 2 \in Nat /\ (Len(p) - 2) + 1 = Len(p) - 1
    BY <1>4, <1>7
  <2>2. level[n] <= (Len(p) - 2) + 1
    BY <1>5, <1>7, <2>1, BallWithin
  <2> QED
    BY <1>4, <1>5, <2>1, <2>2
<1>8. \A k \in 1 .. Len(p) - 1, i \in DOMAIN network.edges :
        FirstHop(network, C, p[k], p[k + 1], i) => FirstEdge(C, p[k], p[k + 1]) = i
  BY FirstEdgeIs
<1>9. \A k, i : FirstHop(network, C, p[k], p[k + 1], i) => i \in DOMAIN network.edges
  BY DEF FirstHop, Hops
<1>10. r.backfed <=> \E k \in 1 .. Len(p) - 1 :
                       network.edges[FirstEdge(C, p[k], p[k + 1])].from # p[k]
  BY <1>4, <1>8, <1>9, ZenonT(60)
<1> QED
  BY <1>1, <1>2, <1>3, <1>4, <1>6, <1>7, <1>10 DEF CarriedBy

\* PathIsEvidence holds throughout the call: the path of every result is a
\* shortest way, over conducting edges, from the source it names.
THEOREM PathIsEvidenceAlways == Spec => []PathIsEvidence
<1>1. TypeOK /\ ShownInv => PathIsEvidence
  BY ShownIsEvidence DEF TypeOK
<1> QED
  BY <1>1, TypeCorrect, ShownAlways, PTL

\* ReasonNamesTheDoubt holds throughout the call: the switches a reason names
\* would, closed, supply the node, and without them it has no definite supply.
THEOREM ReasonNamesTheDoubtAlways == Spec => []ReasonNamesTheDoubt
<1>1. TypeOK /\ IInv /\ ShownInv => ReasonNamesTheDoubt
  <2> SUFFICES ASSUME TypeOK, IInv, ShownInv, NEW n \in DOMAIN results,
                      results[n].state = "INDETERMINATE"
               PROVE  /\ results[n].reason # {}
                      /\ results[n].reason \subseteq UnknownEdges(network)
                      /\ SuppliedIf(network, results[n].reason, n)
    BY DEF ReasonNamesTheDoubt
  <2>1. PICK named : named = results[n].reason
    OBVIOUS
  <2>2. /\ IsNetwork(network)
        /\ VerdictOf(results[n]) \in Verdicts(network, n)
        /\ VerdictOf(results[n]).state = "INDETERMINATE"
    BY DEF TypeOK, IInv, ClaimInv, VerdictOf
  <2>3. PICK s \in network.sources :
          /\ named \subseteq UnknownEdges(network)
          /\ n \in Reach(Resolve(network, named), Definite, s.node)
    BY <2>1 DEF ShownInv, Doubted
  <2>4. s \in Feeding(Resolve(network, named), Definite, n)
    BY <2>2, <2>3, ResolveParts DEF Feeding
  <2>5. Feeding(network, Definite, n) = {}
    BY <2>2, VerdictKinds DEF EnergizedStates
  <2>6. named # {}
    BY <2>2, <2>4, <2>5, ResolveExtremes
  <2> QED
    BY <2>1, <2>3, <2>4, <2>6 DEF SuppliedIf
<1> QED
  BY <1>1, TypeCorrect, InductiveInvariant, ShownAlways, PTL

-----------------------------------------------------------------------------
(* Every call ends.                                                         *)

(* What one source costs a pass at the most: the search visits each node    *)
(* and takes it off the queue again, and its claim is one step more.        *)
SearchCost == 2 * Cardinality(CollectNodeIds(network)) + 1

(* The steps the running search has left.                                   *)
SearchLeft ==
  IF source = NoSource THEN 0
  ELSE 2 * Cardinality(CollectNodeIds(network) \ DOMAIN parents) + Len(queue) + 1

(* The steps the passes after the running one may take, with the three that *)
(* lead from pass to pass.                                                  *)
PassesLeft ==
  CASE pass = "definite" -> Cardinality(network.sources) * SearchCost + 3
    [] pass = "possible" -> 2
    [] pass = "rest"     -> 1
    [] pass = "returned" -> 0

(* All the steps the call has left, at the most.                            *)
StepsLeft == Cardinality(pending) * SearchCost + SearchLeft + PassesLeft

(* The caller passes lists, so nodes and sources are finitely many.         *)
IsFinite(w) == IsFiniteSet(CollectNodeIds(w)) /\ IsFiniteSet(w.sources)

(* What StepsLeft is made of is a number.                                   *)
LEMMA CountsAre ==
  ASSUME TypeOK, IsFinite(network)
  PROVE  /\ SearchCost \in Nat /\ Cardinality(pending) \in Nat
         /\ SearchLeft \in Nat /\ PassesLeft \in Nat
         /\ Cardinality(CollectNodeIds(network)) \in Nat
         /\ Cardinality(network.sources) \in Nat
         /\ IsFiniteSet(pending) /\ IsFiniteSet(CollectNodeIds(network) \ DOMAIN parents)
         /\ Cardinality(CollectNodeIds(network) \ DOMAIN parents) \in Nat
         /\ Len(queue) \in Nat
<1>1. /\ Cardinality(CollectNodeIds(network)) \in Nat
      /\ Cardinality(network.sources) \in Nat
  BY FS_CardinalityType DEF IsFinite
<1>2. IsFiniteSet(pending) /\ Cardinality(pending) \in Nat
  BY FS_Subset, FS_CardinalityType DEF IsFinite, TypeOK
<1>3. /\ IsFiniteSet(CollectNodeIds(network) \ DOMAIN parents)
      /\ Cardinality(CollectNodeIds(network) \ DOMAIN parents) \in Nat
  <2>1. IsFiniteSet(CollectNodeIds(network) \ DOMAIN parents)
    BY FS_Difference DEF IsFinite
  <2> QED
    BY <2>1, FS_CardinalityType
<1>4. Len(queue) \in Nat
  BY DEF TypeOK
<1>5. SearchCost \in Nat
  BY <1>1 DEF SearchCost
<1>6. SearchLeft \in Nat
  BY <1>3, <1>4 DEF SearchLeft
<1>7. Cardinality(network.sources) * SearchCost \in Nat
  BY <1>1, <1>5
<1>8. PassesLeft \in Nat
  BY <1>7 DEF PassesLeft, TypeOK, Pass
<1> QED
  BY <1>1, <1>2, <1>3, <1>4, <1>5, <1>6, <1>8

(* One less of something that costs c each.                                 *)
LEMMA OneLess ==
  ASSUME NEW k \in Nat, NEW c \in Nat
  PROVE  k * c \in Nat /\ (k + 1) * c = k * c + c
OBVIOUS

(* Every step of a call but the stutter after its return leaves fewer.      *)
LEMMA StepDescends ==
  ASSUME TypeOK, SearchInv, IsFinite(network), Next, pass # "returned"
  PROVE  StepsLeft' < StepsLeft
<1> DEFINE Unvisited == CollectNodeIds(network) \ DOMAIN parents
<1>1. PICK c \in Nat, p \in Nat, u \in Nat, s \in Nat, l \in Nat, q \in Nat :
        /\ c = SearchCost /\ p = Cardinality(pending) /\ u = Cardinality(Unvisited)
        /\ s = SearchLeft /\ l = PassesLeft /\ q = Len(queue)
  BY CountsAre
<1>2. StepsLeft = p * c + s + l
  BY <1>1 DEF StepsLeft
<1>3. TypeOK'
  BY TypeStep
<1>4. network' = network
  BY DEF Next, StartSearch, Visit, Advance, Claim, NextPass, DeEnergizeRest, Returned
<1>5. SearchCost' = c /\ CollectNodeIds(network)' = CollectNodeIds(network)
  BY <1>1, <1>4 DEF SearchCost, CollectNodeIds
<1>6. CASE StartSearch
  <2>1. PICK t \in pending : /\ source' = t /\ pending' = pending \ {t}
                             /\ parents' = [n \in {t.node} |-> Root] /\ queue' = <<t.node>>
    BY <1>6 DEF StartSearch, NextSource, Preferred
  <2>2. Cardinality(pending') = p - 1
    BY <1>1, <2>1, CountsAre, FS_RemoveElement
  <2>3. p - 1 \in Nat
    BY <1>3, <1>4, <2>2, FS_Subset, FS_CardinalityType DEF TypeOK, IsFinite
  <2>4. p * c = (p - 1) * c + c /\ (p - 1) * c \in Nat
    <3>1. PICK k \in Nat : k = p - 1
      BY <2>3
    <3>2. p = k + 1
      BY <3>1
    <3> QED
      BY <3>1, <3>2, OneLess
  <2>5. t.node \in CollectNodeIds(network) /\ source' # NoSource
    BY <2>1, NetworkParts, NetworksAssumption DEF TypeOK, IsNetwork
  <2>6. Cardinality(CollectNodeIds(network) \ DOMAIN parents')
          = Cardinality(CollectNodeIds(network)) - 1
    <3>1. DOMAIN parents' = {t.node}
      BY <2>1
    <3> QED
      BY <2>5, <3>1, FS_RemoveElement DEF IsFinite
  <2>7. SearchLeft' = 2 * (Cardinality(CollectNodeIds(network)) - 1) + 1 + 1
    BY <1>5, <2>1, <2>5, <2>6 DEF SearchLeft
  <2>8. SearchLeft' = c - 1
    BY <1>1, <2>7, CountsAre DEF SearchCost
  <2>9. s = 0 /\ PassesLeft' = l
    BY <1>1, <1>4, <1>5, <1>6 DEF StartSearch, SearchLeft, PassesLeft, SearchCost, CollectNodeIds
  <2>10. StepsLeft' = (p - 1) * c + (c - 1) + l
    BY <1>5, <2>2, <2>8, <2>9 DEF StepsLeft
  <2> QED
    BY <1>2, <2>4, <2>9, <2>10
<1>7. CASE Visit
  <2>1. PICK i \in Fresh(Head(queue)) :
          /\ DOMAIN parents' = DOMAIN parents \cup {OtherEnd(i, Head(queue))}
          /\ queue' = Append(queue, OtherEnd(i, Head(queue)))
    BY <1>7 DEF Visit
  <2>2. PICK n : n = OtherEnd(i, Head(queue))
    OBVIOUS
  <2>3. n \in Unvisited
    BY <2>1, <2>2, OtherEndType DEF Fresh
  <2>4. CollectNodeIds(network) \ DOMAIN parents' = Unvisited \ {n}
    BY <2>1, <2>2
  <2>5. Cardinality(CollectNodeIds(network) \ DOMAIN parents') = u - 1
    <3>1. PICK U : U = Unvisited
      OBVIOUS
    <3>2. IsFiniteSet(U) /\ n \in U /\ Cardinality(U) = u
      BY <1>1, <2>3, <3>1, CountsAre
    <3>3. Cardinality(U \ {n}) = u - 1
      BY <3>2, FS_RemoveElement
    <3> QED
      BY <2>4, <3>1, <3>3
  <2>6. Len(queue') = q + 1
    BY <1>1, <2>1 DEF TypeOK
  <2>7. source # NoSource /\ source' = source
    BY <1>7 DEF Visit, SearchInv
  <2>8. s = 2 * u + q + 1
    BY <1>1, <2>7 DEF SearchLeft
  <2>9. SearchLeft' = 2 * (u - 1) + (q + 1) + 1
    BY <1>5, <2>5, <2>6, <2>7 DEF SearchLeft
  <2>10. SearchLeft' = s - 1
    BY <2>8, <2>9
  <2>11. Cardinality(pending') = p /\ PassesLeft' = l
    BY <1>1, <1>4, <1>5, <1>7 DEF Visit, PassesLeft, SearchCost, CollectNodeIds
  <2>12. StepsLeft' = p * c + (s - 1) + l
    BY <1>5, <2>10, <2>11 DEF StepsLeft
  <2>13. p * c \in Nat
    BY OneLess
  <2> QED
    BY <1>2, <2>12, <2>13
<1>8. CASE Advance
  <2>1. Len(queue') = q - 1
    BY <1>1, <1>8 DEF Advance, TypeOK
  <2>2. source # NoSource /\ source' = source /\ parents' = parents
    BY <1>8 DEF Advance, SearchInv
  <2>3. s = 2 * u + q + 1
    BY <1>1, <2>2 DEF SearchLeft
  <2>4. SearchLeft' = 2 * u + (q - 1) + 1
    BY <1>1, <1>5, <2>1, <2>2 DEF SearchLeft
  <2>5. SearchLeft' = s - 1
    BY <2>3, <2>4
  <2>6. Cardinality(pending') = p /\ PassesLeft' = l
    BY <1>1, <1>4, <1>5, <1>8 DEF Advance, PassesLeft, SearchCost, CollectNodeIds
  <2>7. StepsLeft' = p * c + (s - 1) + l
    BY <1>5, <2>5, <2>6 DEF StepsLeft
  <2>8. p * c \in Nat
    BY OneLess
  <2> QED
    BY <1>2, <2>7, <2>8
<1>9. CASE Claim
  <2>1. s >= 1
    BY <1>1, <1>9 DEF Claim, SearchLeft
  <2>2. SearchLeft' = 0
    BY <1>9 DEF Claim, SearchLeft
  <2>3. Cardinality(pending') = p /\ PassesLeft' = l
    BY <1>1, <1>4, <1>5, <1>9 DEF Claim, PassesLeft, SearchCost, CollectNodeIds
  <2>4. StepsLeft' = p * c + 0 + l
    BY <1>5, <2>2, <2>3 DEF StepsLeft
  <2>5. p * c \in Nat
    BY OneLess
  <2> QED
    BY <1>2, <2>1, <2>4, <2>5
<1>10. CASE NextPass
  <2>1. source = NoSource /\ source' = source /\ pending = {}
    BY <1>10 DEF NextPass
  <2>2. s = 0 /\ SearchLeft' = 0 /\ p = 0
    BY <1>1, <2>1, FS_EmptySet DEF SearchLeft
  <2>3. CASE pass = "definite"
    <3>1. pass' = "possible" /\ pending' = network.sources
      BY <1>10, <2>3 DEF NextPass
    <3>2. PICK k \in Nat : k = Cardinality(network.sources)
      BY CountsAre
    <3>3. l = k * c + 3 /\ PassesLeft' = 2
      BY <1>1, <2>3, <3>1, <3>2 DEF PassesLeft
    <3>4. StepsLeft' = k * c + 0 + 2
      BY <1>5, <2>2, <3>1, <3>2, <3>3 DEF StepsLeft
    <3>5. k * c \in Nat /\ p * c = 0
      BY <2>2, OneLess
    <3> QED
      BY <1>2, <2>2, <3>3, <3>4, <3>5
  <2>4. CASE pass = "possible"
    <3>1. pass' = "rest" /\ pending' = pending
      BY <1>10, <2>4 DEF NextPass
    <3>2. l = 2 /\ PassesLeft' = 1 /\ Cardinality(pending') = p
      BY <1>1, <2>4, <3>1 DEF PassesLeft
    <3>3. StepsLeft' = p * c + 0 + 1
      BY <1>5, <2>2, <3>2 DEF StepsLeft
    <3>4. p * c \in Nat
      BY OneLess
    <3> QED
      BY <1>2, <2>2, <3>2, <3>3, <3>4
  <2> QED
    BY <1>10, <2>3, <2>4 DEF NextPass
<1>11. CASE DeEnergizeRest
  <2>1. pass = "rest" /\ pass' = "returned"
    BY <1>11 DEF DeEnergizeRest
  <2>2. l = 1 /\ PassesLeft' = 0
    BY <1>1, <2>1 DEF PassesLeft
  <2>3. Cardinality(pending') = p
    BY <1>1, <1>11 DEF DeEnergizeRest
  <2>4. SearchLeft' = s
    BY <1>1, <1>5, <1>11 DEF DeEnergizeRest, SearchLeft
  <2>5. StepsLeft' = p * c + s + 0
    BY <1>5, <2>2, <2>3, <2>4 DEF StepsLeft
  <2>6. p * c \in Nat
    BY OneLess
  <2> QED
    BY <1>2, <2>2, <2>5, <2>6
<1>12. CASE Returned
  BY <1>12 DEF Returned
<1> QED
  BY <1>6, <1>7, <1>8, <1>9, <1>10, <1>11, <1>12 DEF Next

(* StepsLeft is a number and every step before the return lessens it: no    *)
(* cycle of the network keeps a search going ("Cycles terminate",           *)
(* topology.py:23), and a call of S sources on N nodes returns within       *)
(* 2 S (2 N + 1) + 3 steps.  Of the caller's lists only that they are lists *)
(* is assumed.                                                              *)
THEOREM EveryStepDescends ==
  ASSUME \A w \in Networks : IsFinite(w)
  PROVE  Spec => /\ [](StepsLeft \in Nat)
                 /\ [][pass # "returned" => StepsLeft' < StepsLeft]_vars
<1>1. Init => network \in Networks
  BY DEF Init
<1>2. network \in Networks /\ [Next]_vars => (network \in Networks)'
  BY DEF Next, StartSearch, Visit, Advance, Claim, NextPass, DeEnergizeRest, Returned, vars
<1>3. TypeOK /\ network \in Networks => StepsLeft \in Nat
  <2> SUFFICES ASSUME TypeOK, network \in Networks PROVE StepsLeft \in Nat
    OBVIOUS
  <2>1. /\ SearchCost \in Nat /\ Cardinality(pending) \in Nat
        /\ SearchLeft \in Nat /\ PassesLeft \in Nat
    BY CountsAre
  <2>2. Cardinality(pending) * SearchCost \in Nat
    BY <2>1
  <2> QED
    BY <2>1, <2>2 DEF StepsLeft
<1>4. TypeOK /\ IInv /\ network \in Networks /\ [Next]_vars
        => [pass # "returned" => StepsLeft' < StepsLeft]_vars
  BY StepDescends DEF IInv
<1> QED
  BY <1>1, <1>2, <1>3, <1>4, TypeCorrect, InductiveInvariant, PTL DEF Spec

=============================================================================
