------------------------ MODULE GroundingGate_proofs ------------------------
(***************************************************************************)
(* Proofs about the grounding gate, for every set of claims, drafts and    *)
(* packets an engine may bring, and any number of claims on a card.        *)
(***************************************************************************)
EXTENDS GroundingGate, TLAPS

-----------------------------------------------------------------------------
(* What enforce takes off and what it leaves.                               *)

\* A claim left on the card has no fault of its own: had it one, its id would
\* be among the stripped ids.
LEMMA SurvivorsAreFaultless ==
  ASSUME NEW c, NEW p, NEW claim \in Surviving(c, p)
  PROVE  ClaimFaults(claim, p) = {}
<1> SUFFICES ASSUME NEW f \in ClaimFaults(claim, p)
             PROVE  FALSE
  OBVIOUS
<1> DEFINE v == [code |-> f, claim |-> {claim.id}]
<1>1. claim \in c.claims /\ claim.id \notin StrippedIds(c, p)
  BY DEF Surviving
<1>2. f \in ClaimCode
  BY DEF ClaimFaults
<1>3. v \in Violations(c, p)
  <2>1. v \in {[code |-> g, claim |-> {claim.id}] : g \in ClaimFaults(claim, p)}
    OBVIOUS
  <2> QED
    BY <1>1, <2>1, Zenon DEF Violations
<1>4. v.code \in ClaimCode /\ claim.id \in v.claim
  BY <1>2
<1> HIDE DEF v
<1>5. claim.id \in StrippedIds(c, p)
  BY <1>3, <1>4 DEF StrippedIds
<1> QED
  BY <1>1, <1>5

\* No claim fault means that the claim is grounded in the packet.
LEMMA FaultlessIsGrounded ==
  ASSUME NEW claim, NEW p, ClaimFaults(claim, p) = {}
  PROVE  /\ Cited(claim)
         /\ claim.cites \subseteq p.pool
         /\ claim.kind = "NUMERIC" => claim.value \in p.values \cup {NoValue}
BY DEF ClaimFaults, ClaimCode

\* A card is downgraded exactly when it has a card-level fault.
LEMMA StructuralMeansCardFault ==
  ASSUME NEW c, NEW p
  PROVE  HasStructural(c, p) <=> CardFaults(c, p) # {}
<1>1. ASSUME NEW f \in CardFaults(c, p)
      PROVE  HasStructural(c, p)
  <2> DEFINE v == [code |-> f, claim |-> {}]
  <2>1. v \in Violations(c, p)
    BY DEF Violations
  <2>2. v.claim = {}
    OBVIOUS
  <2> QED
    BY <2>1, <2>2 DEF HasStructural
<1>2. ASSUME HasStructural(c, p), CardFaults(c, p) = {}
      PROVE  FALSE
  <2>1. PICK v \in Violations(c, p) : v.claim = {} \/ v.code \notin ClaimCode
    BY <1>2 DEF HasStructural
  <2>2. PICK claim \in c.claims :
          v \in {[code |-> f, claim |-> {claim.id}] : f \in ClaimFaults(claim, p)}
    BY <1>2, <2>1 DEF Violations
  <2>3. PICK f \in ClaimFaults(claim, p) : v = [code |-> f, claim |-> {claim.id}]
    BY <2>2
  <2>4. v.claim = {claim.id} /\ v.code = f /\ f \in ClaimCode
    BY <2>3 DEF ClaimFaults
  <2> QED
    BY <2>1, <2>4
<1> QED
  BY <1>1, <1>2

\* The claims of an enforced card are the surviving ones, downgraded or not.
LEMMA EnforcedFields ==
  ASSUME NEW c \in CardType, NEW p \in PacketType
  PROVE  /\ Enforced(c, p).claims = Surviving(c, p)
         /\ HasStructural(c, p) =>
              /\ IsRefusal(Enforced(c, p))
              /\ Enforced(c, p).demo = (c.demo \/ p.synthetic)
         /\ ~HasStructural(c, p) =>
              Enforced(c, p) = [c EXCEPT !.claims = Surviving(c, p)]
         /\ Enforced(c, p).title = c.title
         /\ Enforced(c, p).rationale = c.rationale
BY DEF Enforced, Downgraded, Stripped, IsRefusal, CardType

-----------------------------------------------------------------------------
(* Types.                                                                   *)

(* The violations of a card, and the ids they strip.                        *)
LEMMA ViolationsType ==
  ASSUME NEW c \in CardType, NEW p \in PacketType
  PROVE  /\ Violations(c, p) \subseteq Violation
         /\ StrippedIds(c, p) \subseteq ClaimId
<1>1. ASSUME NEW claim \in c.claims
      PROVE  claim.id \in ClaimId
  BY DEF CardType, ClaimType
<1>2. ASSUME NEW claim \in c.claims, NEW f \in ClaimFaults(claim, p)
      PROVE  [code |-> f, claim |-> {claim.id}] \in Violation
  BY <1>1 DEF ClaimFaults, Violation
<1>3. ASSUME NEW f \in CardFaults(c, p)
      PROVE  [code |-> f, claim |-> {}] \in Violation
  BY DEF CardFaults, Violation
<1>4. Violations(c, p) \subseteq Violation
  BY <1>2, <1>3 DEF Violations
<1>5. ASSUME NEW v \in Violation
      PROVE  v.claim \subseteq ClaimId
  BY DEF Violation
<1> QED
  BY <1>4, <1>5 DEF StrippedIds

(* What enforce returns is a card.                                          *)
LEMMA EnforcedType ==
  ASSUME NEW c \in CardType, NEW p \in PacketType
  PROVE  Enforced(c, p) \in CardType
<1>1. Surviving(c, p) \subseteq ClaimType
  BY DEF Surviving, CardType
<1>2. Stripped(c, p) \in CardType
  BY <1>1 DEF Stripped, CardType
<1>3. p.synthetic \in BOOLEAN
  BY DEF PacketType
<1>4. <<>> \in Seq(BOOLEAN)
  OBVIOUS
<1>5. ASSUME NEW d \in CardType
      PROVE  Downgraded(d, p) \in CardType
  <2>1. (d.demo \/ p.synthetic) \in BOOLEAN
    OBVIOUS
  <2> QED
    BY <2>1, <1>4, ZenonT(60) DEF Downgraded, CardType, ValidationState, HealthBand
<1> QED
  BY <1>2, <1>5 DEF Enforced

\* TypeOK: whatever is appended, refused and gated, a card keeps its shape,
\* although model_copy validates nothing.
THEOREM TypeCorrect == Spec => []TypeOK
<1>1. Init => TypeOK
  BY GateAssumption DEF Init, TypeOK
<1>2. TypeOK /\ [Next]_vars => TypeOK'
  <2> SUFFICES ASSUME TypeOK, [Next]_vars
               PROVE  TypeOK'
    OBVIOUS
  <2>1. CASE AppendClaim
    <3>1. PICK claim \in Claims \ card.claims :
            card' = [card EXCEPT !.claims = @ \cup {claim}]
      BY <2>1 DEF AppendClaim
    <3>2. claim \in ClaimType
      BY <3>1, GateAssumption
    <3>3. card' \in CardType
      BY <3>1, <3>2 DEF TypeOK, CardType
    <3> QED
      BY <2>1, <3>3 DEF AppendClaim, TypeOK
  <2>2. CASE Refuse
    <3>1. RefusalCard \in CardType
      BY DEF RefusalCard, CardType, Text, ValidationState, HealthBand
    <3> QED
      BY <2>2, <3>1 DEF Refuse, TypeOK
  <2>3. CASE Enforce
    <3>1. Enforced(card, packet) \in CardType
      BY EnforcedType DEF TypeOK
    <3>2. FinalReport(card, packet) \in Report
      <4>1. Violations(Enforced(card, packet), packet) \subseteq Violation
        BY <3>1, ViolationsType DEF TypeOK
      <4>2. StrippedIds(card, packet) \subseteq ClaimId
        BY ViolationsType DEF TypeOK
      <4> QED
        BY <4>1, <4>2 DEF FinalReport, Report
    <3>3. [Enforced(card, packet) EXCEPT !.report = FinalReport(card, packet)] \in CardType
      BY <3>1, <3>2 DEF CardType
    <3> QED
      BY <2>3, <3>3 DEF Enforce, TypeOK
  <2>4. CASE UNCHANGED vars
    BY <2>4 DEF vars, TypeOK
  <2> QED
    BY <2>1, <2>2, <2>3, <2>4 DEF Next
<1> QED
  BY <1>1, <1>2, PTL DEF Spec

-----------------------------------------------------------------------------
(* What a card out of enforce can be relied on for.                         *)

\* NothingUngroundedLeaves, for any engine and any packet: enforce alone
\* establishes it, so it needs no type invariant and no history of the card.
THEOREM NothingUngroundedLeavesAlways == Spec => []NothingUngroundedLeaves
<1>1. Init => NothingUngroundedLeaves
  BY DEF Init, NothingUngroundedLeaves
<1>2. TypeOK /\ NothingUngroundedLeaves /\ [Next]_vars => NothingUngroundedLeaves'
  <2> SUFFICES ASSUME TypeOK, NothingUngroundedLeaves, [Next]_vars
               PROVE  NothingUngroundedLeaves'
    OBVIOUS
  <2>1. CASE Enforce
    <3>1. card'.claims = Surviving(card, packet) /\ packet' = packet
      <4>1. Enforced(card, packet) \in CardType
        BY EnforcedType DEF TypeOK
      <4>2. card'.claims = Enforced(card, packet).claims
        BY <2>1, <4>1 DEF Enforce, CardType
      <4> QED
        BY <2>1, <4>2, EnforcedFields DEF Enforce, TypeOK
    <3>2. ASSUME NEW claim \in Surviving(card, packet)
          PROVE  Grounded(claim)
      BY SurvivorsAreFaultless, FaultlessIsGrounded DEF Grounded
    <3> QED
      BY <3>1, <3>2 DEF NothingUngroundedLeaves, Grounded
  <2>2. CASE AppendClaim \/ Refuse
    BY <2>2 DEF AppendClaim, Refuse, NothingUngroundedLeaves
  <2>3. CASE UNCHANGED vars
    BY <2>3 DEF vars, NothingUngroundedLeaves, Grounded
  <2> QED
    BY <2>1, <2>2, <2>3 DEF Next
<1> QED
  BY <1>1, <1>2, TypeCorrect, PTL DEF Spec

\* A card without card-level faults keeps to the platform's authority.
LEMMA NoCardFault ==
  ASSUME NEW c \in CardType, NEW p \in PacketType, CardFaults(c, p) = {}
  PROVE  /\ \A t \in Present({c.action, c.inspection}) : t = {}
         /\ ~p.sufficient => InsufficientData(c) \/ ~Substantive(c)
         /\ p.synthetic => Labelled(c)
<1>1. /\ \A t \in CardTexts(c) : "forbidden" \notin t
      /\ \A t \in ImperativeFragments(c) : "control" \notin t
      /\ ~p.sufficient => InsufficientData(c) \/ ~Substantive(c)
      /\ p.synthetic => Labelled(c)
  BY DEF CardFaults, CardCode
<1>2. ASSUME NEW t \in Present({c.action, c.inspection})
      PROVE  t = {}
  <2>1. t \in CardTexts(c) /\ t \in ImperativeFragments(c)
    BY DEF CardTexts, ImperativeFragments, Present
  <2>2. t \in SUBSET Fault
    BY DEF Present, CardType, Text
  <2> QED
    BY <1>1, <2>1, <2>2 DEF Fault
<1> QED
  BY <1>1, <1>2

\* AuthorityLimits: either the card had no card-level fault, and it recommends
\* what it did within the limits, or it had one and now recommends nothing.
THEOREM AuthorityLimitsAlways == Spec => []AuthorityLimits
<1>1. Init => AuthorityLimits
  BY DEF Init, AuthorityLimits
<1>2. TypeOK /\ AuthorityLimits /\ [Next]_vars => AuthorityLimits'
  <2> SUFFICES ASSUME TypeOK, AuthorityLimits, [Next]_vars
               PROVE  AuthorityLimits'
    OBVIOUS
  <2> USE DEF TypeOK
  <2>1. CASE Enforce
    <3> DEFINE e == Enforced(card, packet)
    <3>1. e \in CardType
      BY EnforcedType
    <3>2. /\ card'.action = e.action /\ card'.inspection = e.inspection
          /\ card'.causes = e.causes /\ card'.claims = e.claims
          /\ card'.vstate = e.vstate /\ card'.band = e.band
          /\ card'.demo = e.demo /\ packet' = packet
      BY <2>1, <3>1 DEF Enforce, CardType
    <3>3. SUFFICES /\ \A t \in Present({e.action, e.inspection}) : t = {}
                   /\ ~packet.sufficient => InsufficientData(e) \/ ~Substantive(e)
                   /\ packet.synthetic => Labelled(e)
      BY <3>2 DEF AuthorityLimits, InsufficientData, Substantive, Labelled
    <3>4. CASE HasStructural(card, packet)
      <4>1. IsRefusal(e) /\ e.demo = (card.demo \/ packet.synthetic)
        BY <3>4, EnforcedFields
      <4> QED
        BY <4>1 DEF IsRefusal, Present, InsufficientData, Labelled
    <3>5. CASE ~HasStructural(card, packet)
      <4>1. e = [card EXCEPT !.claims = Surviving(card, packet)]
        BY <3>5, EnforcedFields
      <4>2. /\ e.action = card.action /\ e.inspection = card.inspection
            /\ e.causes = card.causes /\ e.vstate = card.vstate
            /\ e.band = card.band /\ e.demo = card.demo
            /\ e.claims \subseteq card.claims
        BY <4>1 DEF CardType, Surviving
      <4>3. CardFaults(card, packet) = {}
        BY <3>5, StructuralMeansCardFault
      <4>4. /\ \A t \in Present({card.action, card.inspection}) : t = {}
            /\ ~packet.sufficient => InsufficientData(card) \/ ~Substantive(card)
            /\ packet.synthetic => Labelled(card)
        BY <4>3, NoCardFault
      <4> QED
        BY <4>2, <4>4 DEF InsufficientData, Substantive, Labelled
    <3> QED
      BY <3>4, <3>5
  <2>2. CASE AppendClaim \/ Refuse
    BY <2>2 DEF AppendClaim, Refuse, AuthorityLimits
  <2>3. CASE UNCHANGED vars
    BY <2>3 DEF vars, AuthorityLimits, InsufficientData, Substantive, Labelled
  <2> QED
    BY <2>1, <2>2, <2>3 DEF Next
<1> QED
  BY <1>1, <1>2, TypeCorrect, PTL DEF Spec

-----------------------------------------------------------------------------
(* What a second verification of an enforced card finds.                    *)

(* The card that leaves the gate, with its final report.                    *)
Gated(c, p) == [Enforced(c, p) EXCEPT !.report = FinalReport(c, p)]

\* The report on a card plays no part in what the gate says of it.
LEMMA ReportIsNotJudged ==
  ASSUME NEW c \in CardType, NEW p, NEW r
  PROVE  /\ CardFaults([c EXCEPT !.report = r], p) = CardFaults(c, p)
         /\ Violations([c EXCEPT !.report = r], p) = Violations(c, p)
<1> DEFINE d == [c EXCEPT !.report = r]
<1>1. /\ d.title = c.title /\ d.rationale = c.rationale
      /\ d.action = c.action /\ d.inspection = c.inspection
      /\ d.causes = c.causes /\ d.claims = c.claims
      /\ d.vstate = c.vstate /\ d.band = c.band /\ d.demo = c.demo
  BY DEF CardType
<1> HIDE DEF d
<1>2. CardFaults(d, p) = CardFaults(c, p)
  BY <1>1 DEF CardFaults, HasCausal, Challenged, CardTexts, ImperativeFragments,
              ClaimTexts, Substantive, InsufficientData, Labelled
<1>3. Violations(d, p) = Violations(c, p)
  BY <1>1, <1>2 DEF Violations
<1> QED
  BY <1>2, <1>3 DEF d

\* A claim's id is stripped exactly when a claim of that id has a fault.
LEMMA StrippedMeansFaulty ==
  ASSUME NEW c, NEW p, NEW i
  PROVE  i \in StrippedIds(c, p) <=>
           \E claim \in c.claims : claim.id = i /\ ClaimFaults(claim, p) # {}
<1>1. ASSUME i \in StrippedIds(c, p)
      PROVE  \E claim \in c.claims : claim.id = i /\ ClaimFaults(claim, p) # {}
  <2>1. PICK v \in Violations(c, p) : i \in v.claim
    BY <1>1 DEF StrippedIds
  <2>2. CASE v \in {[code |-> f, claim |-> {}] : f \in CardFaults(c, p)}
    <3>1. v.claim = {}
      BY <2>2
    <3> QED
      BY <2>1, <3>1
  <2>3. CASE \E claim \in c.claims :
               v \in {[code |-> f, claim |-> {claim.id}] : f \in ClaimFaults(claim, p)}
    <3>1. PICK claim \in c.claims :
            v \in {[code |-> f, claim |-> {claim.id}] : f \in ClaimFaults(claim, p)}
      BY <2>3
    <3>2. ClaimFaults(claim, p) # {} /\ v.claim = {claim.id}
      BY <3>1
    <3> QED
      BY <2>1, <3>1, <3>2
  <2> QED
    BY <2>1, <2>2, <2>3 DEF Violations
<1>2. ASSUME NEW claim \in c.claims, claim.id = i, ClaimFaults(claim, p) # {}
      PROVE  i \in StrippedIds(c, p)
  BY <1>2, SurvivorsAreFaultless DEF Surviving
<1> QED
  BY <1>1, <1>2

\* With no faulty claim, all that is wrong with a card is wrong with the card.
LEMMA OnlyCardViolations ==
  ASSUME NEW c, NEW p, \A claim \in c.claims : ClaimFaults(claim, p) = {}
  PROVE  /\ Violations(c, p) = {[code |-> f, claim |-> {}] : f \in CardFaults(c, p)}
         /\ StrippedIds(c, p) = {}
         /\ Surviving(c, p) = c.claims
<1>1. Violations(c, p) = {[code |-> f, claim |-> {}] : f \in CardFaults(c, p)}
  <2>1. UNION {{[code |-> f, claim |-> {claim.id}] : f \in ClaimFaults(claim, p)}
                 : claim \in c.claims} = {}
    OBVIOUS
  <2> QED
    BY <2>1 DEF Violations
<1>2. StrippedIds(c, p) = {}
  BY StrippedMeansFaulty
<1> QED
  BY <1>1, <1>2 DEF Surviving

\* Claims taken off a card add no fault to it.
LEMMA FewerClaimsFewerFaults ==
  ASSUME NEW c \in CardType, NEW p, NEW S \in SUBSET c.claims,
         CardFaults(c, p) = {}
  PROVE  CardFaults([c EXCEPT !.claims = S], p) = {}
<1> DEFINE d == [c EXCEPT !.claims = S]
<1>1. /\ d.title = c.title /\ d.rationale = c.rationale
      /\ d.action = c.action /\ d.inspection = c.inspection
      /\ d.causes = c.causes /\ d.claims = S
      /\ d.vstate = c.vstate /\ d.band = c.band /\ d.demo = c.demo
  BY DEF CardType
<1> HIDE DEF d
<1>2. /\ CardTexts(d) \subseteq CardTexts(c)
      /\ ImperativeFragments(d) \subseteq ImperativeFragments(c)
  BY <1>1 DEF CardTexts, ImperativeFragments, ClaimTexts
<1>3. /\ HasCausal(d) => HasCausal(c)
      /\ Challenged(d) <=> Challenged(c)
      /\ Substantive(d) => Substantive(c)
      /\ InsufficientData(d) <=> InsufficientData(c)
      /\ Labelled(d) <=> Labelled(c)
  BY <1>1 DEF HasCausal, Challenged, Substantive, InsufficientData, Labelled
<1>4. CardFaults(d, p) \subseteq CardFaults(c, p)
  BY <1>2, <1>3 DEF CardFaults
<1> QED
  BY <1>4 DEF d

\* What enforce leaves: no faulty claim, and no fault of the card unless it is
\* a refusal that bears its label.
LEMMA EnforcedIsSettled ==
  ASSUME NEW c \in CardType, NEW p \in PacketType
  PROVE  LET e == Enforced(c, p)
         IN  /\ \A claim \in e.claims : ClaimFaults(claim, p) = {}
             /\ CardFaults(e, p) # {} =>
                  IsRefusal(e) /\ e.demo = (e.demo \/ p.synthetic)
<1> DEFINE e == Enforced(c, p)
<1>1. \A claim \in e.claims : ClaimFaults(claim, p) = {}
  BY EnforcedFields, SurvivorsAreFaultless
<1>2. CASE HasStructural(c, p)
  BY <1>1, <1>2, EnforcedFields
<1>3. CASE ~HasStructural(c, p)
  <2>1. CardFaults(c, p) = {}
    BY <1>3, StructuralMeansCardFault
  <2>2. e = [c EXCEPT !.claims = Surviving(c, p)]
    BY <1>3, EnforcedFields
  <2>3. CardFaults(e, p) = {}
    BY <2>1, <2>2, FewerClaimsFewerFaults DEF Surviving
  <2> QED
    BY <1>1, <2>3
<1> QED
  BY <1>2, <1>3

\* Enforcing a card that is settled leaves it as it is.
LEMMA SettledStays ==
  ASSUME NEW d \in CardType, NEW p \in PacketType,
         \A claim \in d.claims : ClaimFaults(claim, p) = {},
         CardFaults(d, p) # {} => IsRefusal(d) /\ d.demo = (d.demo \/ p.synthetic)
  PROVE  Enforced(d, p) = d
<1>1. Surviving(d, p) = d.claims
  BY OnlyCardViolations
<1>2. [d EXCEPT !.claims = d.claims] = d
  BY DEF CardType
<1>3. CASE HasStructural(d, p)
  <2>1. IsRefusal(d) /\ d.demo = (d.demo \/ p.synthetic)
    BY <1>3, StructuralMeansCardFault
  <2>2. d.exposure = FALSE
    BY <2>1 DEF IsRefusal, CardType
  <2>3. Downgraded(d, p) = d
    BY <2>1, <2>2 DEF Downgraded, IsRefusal, CardType
  <2> QED
    BY <1>1, <1>2, <1>3, <2>3 DEF Enforced, Stripped
<1>4. CASE ~HasStructural(d, p)
  BY <1>1, <1>2, <1>4 DEF Enforced, Stripped
<1> QED
  BY <1>3, <1>4

-----------------------------------------------------------------------------
(* The card out of the gate and its report.                                 *)

\* A card that is gated is what enforce made of some card.
LeftInv == gated => \E c \in CardType : card = Gated(c, packet)

\* The only step that gates a card is Enforce.
LEMMA GatedByEnforce ==
  ASSUME [Next]_vars, gated'
  PROVE  Enforce \/ UNCHANGED vars
BY DEF Next, AppendClaim, Refuse

\* Whatever touches the card ungates it, and enforce gates what it made.
LEMMA LeftInvAlways == Spec => [](TypeOK /\ LeftInv)
<1>1. Init => LeftInv
  BY DEF Init, LeftInv
<1>2. TypeOK /\ LeftInv /\ [Next]_vars => LeftInv'
  <2> SUFFICES ASSUME TypeOK, LeftInv, [Next]_vars, gated'
               PROVE  \E c \in CardType : card' = Gated(c, packet')
    BY DEF LeftInv
  <2>1. CASE Enforce
    BY <2>1 DEF Enforce, Gated, TypeOK
  <2>2. CASE UNCHANGED vars
    BY <2>2 DEF vars, LeftInv
  <2> QED
    BY <2>1, <2>2, GatedByEnforce
<1> QED
  BY <1>1, <1>2, TypeCorrect, PTL DEF Spec

\* What there is to know of a card out of enforce.
LEMMA GatedIsSettled ==
  ASSUME NEW c \in CardType, NEW p \in PacketType
  PROVE  LET d == Gated(c, p)
             e == Enforced(c, p)
         IN  /\ e \in CardType
             /\ \A claim \in d.claims : ClaimFaults(claim, p) = {}
             /\ CardFaults(d, p) # {} =>
                  IsRefusal(d) /\ d.demo = (d.demo \/ p.synthetic)
             /\ Content(d) = Content(e)
             /\ d.claims = Surviving(c, p)
             /\ d.report = FinalReport(c, p)
             /\ d.report.violations = Violations(d, p)
             /\ d.report.passed = (Violations(d, p) = {})
<1> DEFINE d == Gated(c, p)
           e == Enforced(c, p)
<1>1. e \in CardType
  BY EnforcedType
<1>2. /\ d.claims = e.claims /\ d.vstate = e.vstate /\ d.band = e.band
      /\ d.action = e.action /\ d.inspection = e.inspection
      /\ d.causes = e.causes /\ d.exposure = e.exposure /\ d.demo = e.demo
      /\ d.report = FinalReport(c, p)
      /\ Content(d) = Content(e)
  BY <1>1 DEF Gated, Content, CardType
<1>3. CardFaults(d, p) = CardFaults(e, p) /\ Violations(d, p) = Violations(e, p)
  BY <1>1, ReportIsNotJudged DEF Gated
<1>4. IsRefusal(d) <=> IsRefusal(e)
  BY <1>2 DEF IsRefusal
<1>5. /\ FinalReport(c, p).violations = Violations(e, p)
      /\ FinalReport(c, p).passed = (Violations(e, p) = {})
  BY DEF FinalReport
<1>6. e.claims = Surviving(c, p)
  BY EnforcedFields
<1>7. /\ \A claim \in e.claims : ClaimFaults(claim, p) = {}
      /\ CardFaults(e, p) # {} => IsRefusal(e) /\ e.demo = (e.demo \/ p.synthetic)
  BY EnforcedIsSettled
<1> HIDE DEF d, e
<1>8. /\ e \in CardType
      /\ \A claim \in d.claims : ClaimFaults(claim, p) = {}
      /\ CardFaults(d, p) # {} => IsRefusal(d) /\ d.demo = (d.demo \/ p.synthetic)
      /\ Content(d) = Content(e)
      /\ d.claims = Surviving(c, p)
      /\ d.report = FinalReport(c, p)
      /\ d.report.violations = Violations(d, p)
      /\ d.report.passed = (Violations(d, p) = {})
  BY <1>1, <1>2, <1>3, <1>4, <1>5, <1>6, <1>7
<1> QED
  BY <1>8 DEF d, e

\* WhatLeavesViolatedIsARefusal: enforce's second verification finds nothing on
\* a claim, and something on the card only after a downgrade, which has settled
\* the data floor and the label for good.
THEOREM WhatLeavesViolatedIsARefusalAlways == Spec => []WhatLeavesViolatedIsARefusal
<1>1. TypeOK /\ LeftInv => WhatLeavesViolatedIsARefusal
  <2> SUFFICES ASSUME TypeOK, LeftInv, gated, ~card.report.passed
               PROVE  /\ IsRefusal(card)
                      /\ {v.code : v \in card.report.violations} \subseteq
                           {"ALTERNATIVES_REQUIRED", "FORBIDDEN_ASSERTION", "CONTROL_LANGUAGE"}
                      /\ \/ HasCausal(card)
                         \/ "forbidden" \in card.title \cup card.rationale
                         \/ \E claim \in card.claims : claim.text # {}
    BY DEF WhatLeavesViolatedIsARefusal
  <2>1. PICK c \in CardType : card = Gated(c, packet)
    BY DEF LeftInv
  <2>2. card \in CardType /\ packet \in PacketType
    BY DEF TypeOK
  <2>3. /\ \A claim \in card.claims : ClaimFaults(claim, packet) = {}
        /\ CardFaults(card, packet) # {} =>
             IsRefusal(card) /\ card.demo = (card.demo \/ packet.synthetic)
        /\ card.report.violations = Violations(card, packet)
        /\ card.report.passed = (Violations(card, packet) = {})
    BY <2>1, <2>2, GatedIsSettled
  <2>4. Violations(card, packet) =
          {[code |-> f, claim |-> {}] : f \in CardFaults(card, packet)}
    BY <2>3, OnlyCardViolations
  <2>5. CardFaults(card, packet) # {}
    BY <2>3, <2>4
  <2>6. IsRefusal(card) /\ (packet.synthetic => card.demo)
    <3>1. packet.synthetic \in BOOLEAN /\ card.demo \in BOOLEAN
      BY <2>2 DEF PacketType, CardType
    <3> QED
      BY <2>3, <2>5, <3>1
  <2>7. /\ "SUFFICIENCY_FLOOR" \notin CardFaults(card, packet)
        /\ "SYNTHETIC_LABEL" \notin CardFaults(card, packet)
    BY <2>6 DEF CardFaults, IsRefusal, InsufficientData, Labelled
  <2>8. CardFaults(card, packet) \subseteq
          {"ALTERNATIVES_REQUIRED", "FORBIDDEN_ASSERTION", "CONTROL_LANGUAGE"}
    BY <2>7 DEF CardFaults, CardCode
  <2>9. {v.code : v \in card.report.violations} \subseteq CardFaults(card, packet)
    BY <2>3, <2>4
  <2>10. \/ HasCausal(card)
         \/ "forbidden" \in card.title \cup card.rationale
         \/ \E claim \in card.claims : claim.text # {}
    <3>1. PICK f \in CardFaults(card, packet) : TRUE
      BY <2>5
    <3>2. CASE f = "ALTERNATIVES_REQUIRED"
      BY <3>1, <3>2 DEF CardFaults
    <3>3. CASE f = "FORBIDDEN_ASSERTION"
      <4>1. PICK t \in CardTexts(card) : "forbidden" \in t
        BY <3>1, <3>3 DEF CardFaults
      <4>2. t \in {card.title, card.rationale} \cup ClaimTexts(card)
        BY <2>6, <4>1 DEF CardTexts, Present, IsRefusal
      <4> QED
        BY <4>1, <4>2 DEF ClaimTexts
    <3>4. CASE f = "CONTROL_LANGUAGE"
      <4>1. PICK t \in ImperativeFragments(card) : "control" \in t
        BY <3>1, <3>4 DEF CardFaults
      <4>2. t \in ClaimTexts(card)
        BY <2>6, <4>1 DEF ImperativeFragments, Present, IsRefusal
      <4> QED
        BY <4>1, <4>2 DEF ClaimTexts
    <3> QED
      BY <3>1, <3>2, <3>3, <3>4, <2>8
  <2> QED
    BY <2>6, <2>8, <2>9, <2>10
<1> QED
  BY <1>1, LeftInvAlways, PTL

\* GatingAgainChangesNothing: what enforce makes is settled, and a settled card
\* is enforced into itself, with the same violations.
THEOREM GatingAgainChangesNothingAlways == Spec => GatingAgainChangesNothing
<1>1. TypeOK /\ LeftInv /\ [Next]_vars =>
        [gated /\ gated' =>
           /\ Content(card') = Content(card)
           /\ card'.report.violations = card.report.violations]_vars
  <2> SUFFICES ASSUME TypeOK, LeftInv, Enforce, gated
               PROVE  /\ Content(card') = Content(card)
                      /\ card'.report.violations = card.report.violations
    BY GatedByEnforce
  <2>1. PICK c \in CardType : card = Gated(c, packet)
    BY DEF LeftInv
  <2>2. card \in CardType /\ packet \in PacketType
    BY DEF TypeOK
  <2>3. /\ \A claim \in card.claims : ClaimFaults(claim, packet) = {}
        /\ CardFaults(card, packet) # {} =>
             IsRefusal(card) /\ card.demo = (card.demo \/ packet.synthetic)
        /\ card.report.violations = Violations(card, packet)
    BY <2>1, <2>2, GatedIsSettled
  <2>4. Enforced(card, packet) = card
    BY <2>2, <2>3, SettledStays
  <2>5. card' = Gated(card, packet)
    BY DEF Enforce, Gated
  <2>6. Content(card') = Content(card)
    BY <2>2, <2>4, <2>5, GatedIsSettled
  <2>7. card'.report = FinalReport(card, packet)
    BY <2>2, <2>5, GatedIsSettled
  <2>8. FinalReport(card, packet).violations = Violations(card, packet)
    BY <2>4 DEF FinalReport
  <2> QED
    BY <2>3, <2>6, <2>7, <2>8
<1> QED
  BY <1>1, LeftInvAlways, PTL DEF Spec, GatingAgainChangesNothing

\* EveryRemovalIsRecorded: the ids on record are exactly those that are gone,
\* each of them borne by an ungrounded claim, and only violations cost anything.
THEOREM EveryRemovalIsRecordedAlways == Spec => EveryRemovalIsRecorded
<1>1. TypeOK /\ [Next]_vars =>
        [gated' =>
           /\ card'.claims \subseteq card.claims
           /\ card'.report.stripped = Ids(card) \ Ids(card')
           /\ \A claim \in card.claims :
                claim.id \in card'.report.stripped =>
                  \E twin \in card.claims : twin.id = claim.id /\ ~Grounded(twin)
           /\ Violations(card, packet) = {} => Content(card') = Content(card)]_vars
  <2> SUFFICES ASSUME TypeOK, Enforce
               PROVE  /\ card'.claims \subseteq card.claims
                      /\ card'.report.stripped = Ids(card) \ Ids(card')
                      /\ \A claim \in card.claims :
                           claim.id \in card'.report.stripped =>
                             \E twin \in card.claims :
                               twin.id = claim.id /\ ~Grounded(twin)
                      /\ Violations(card, packet) = {} => Content(card') = Content(card)
    BY GatedByEnforce
  <2>1. card \in CardType /\ packet \in PacketType
    BY DEF TypeOK
  <2>2. card' = Gated(card, packet)
    BY DEF Enforce, Gated
  <2>3. /\ card'.claims = Surviving(card, packet)
        /\ card'.report = FinalReport(card, packet)
        /\ Content(card') = Content(Enforced(card, packet))
    BY <2>1, <2>2, GatedIsSettled
  <2>4. card'.report.stripped = StrippedIds(card, packet)
    BY <2>3 DEF FinalReport
  <2>5. StrippedIds(card, packet) = Ids(card) \ Ids(card')
    BY <2>3, StrippedMeansFaulty DEF Ids, Surviving
  <2>6. ASSUME NEW claim \in card.claims, claim.id \in card'.report.stripped
        PROVE  \E twin \in card.claims : twin.id = claim.id /\ ~Grounded(twin)
    <3>1. PICK twin \in card.claims : twin.id = claim.id /\ ClaimFaults(twin, packet) # {}
      BY <2>4, <2>6, StrippedMeansFaulty
    <3>2. ~Grounded(twin)
      BY <3>1 DEF ClaimFaults, Grounded
    <3> QED
      BY <3>1, <3>2
  <2>7. ASSUME Violations(card, packet) = {}
        PROVE  Content(card') = Content(card)
    <3>1. StrippedIds(card, packet) = {} /\ ~HasStructural(card, packet)
      BY <2>7 DEF StrippedIds, HasStructural
    <3>2. Surviving(card, packet) = card.claims
      BY <3>1 DEF Surviving
    <3>3. Enforced(card, packet) = card
      BY <2>1, <3>1, <3>2 DEF Enforced, Stripped, CardType
    <3> QED
      BY <2>3, <3>3
  <2> QED
    BY <2>3, <2>4, <2>5, <2>6, <2>7 DEF Surviving
<1> QED
  BY <1>1, TypeCorrect, PTL DEF Spec, EveryRemovalIsRecorded

\* RefusalAlwaysPasses: a refusal recommends nothing and bears its label, so
\* only its claims could be at fault, and harmless ones are not.
THEOREM RefusalAlwaysPassesAlways == Spec => []RefusalAlwaysPasses
<1>1. TypeOK => RefusalAlwaysPasses
  <2> SUFFICES ASSUME TypeOK,
                      Content(card) = [RefusalCard EXCEPT !.claims = card.claims],
                      \A claim \in card.claims :
                        Grounded(claim) /\ claim.text = {} /\ claim.kind # "CAUSAL"
               PROVE  Violations(card, packet) = {}
    BY DEF RefusalAlwaysPasses
  <2>1. /\ card.title = {} /\ card.rationale = {}
        /\ card.action = NoText /\ card.inspection = NoText
        /\ card.vstate = "INSUFFICIENT_DATA" /\ card.demo = TRUE
    <3>1. card \in CardType
      BY DEF TypeOK
    <3>2. /\ card.title = Content(card).title /\ card.rationale = Content(card).rationale
          /\ card.action = Content(card).action
          /\ card.inspection = Content(card).inspection
          /\ card.vstate = Content(card).vstate /\ card.demo = Content(card).demo
      BY <3>1 DEF Content, CardType
    <3> QED
      BY <3>2 DEF RefusalCard
  <2>2. ASSUME NEW claim \in card.claims
        PROVE  ClaimFaults(claim, packet) = {}
    BY DEF ClaimFaults, Grounded
  <2>3. ASSUME NEW t \in CardTexts(card) \cup ImperativeFragments(card)
        PROVE  t = {}
    BY <2>1 DEF CardTexts, ImperativeFragments, Present, ClaimTexts
  <2>4. CardFaults(card, packet) = {}
    <3>1. ~HasCausal(card) /\ InsufficientData(card) /\ Labelled(card)
      BY <2>1 DEF HasCausal, InsufficientData, Labelled
    <3> QED
      BY <2>3, <3>1 DEF CardFaults
  <2> QED
    BY <2>2, <2>4, OnlyCardViolations
<1> QED
  BY <1>1, TypeCorrect, PTL

=============================================================================
