--------------------------- MODULE GroundingGate ----------------------------
(***************************************************************************)
(* The grounding gate: verify_grounding and enforce of                     *)
(* packages/s3m_engine_contract/grounding.py, the card they judge          *)
(* (card.py) and the refusal card (refusal.py).                            *)
(*                                                                         *)
(* An engine builds a card about a packet, may go on appending claims, may *)
(* refuse instead, and hands the card to enforce; a card that has been     *)
(* through the gate may be touched and gated again.                        *)
(*                                                                         *)
(* Data the gate does not tell apart is left out.  A text is the set of    *)
(* faults its patterns find in it, whatever the wording; two numbers are   *)
(* the same value when they agree within the configured tolerance; the     *)
(* claims of a card are a set, for neither their order nor a verbatim      *)
(* repetition changes a verdict.  Claim ids need not be unique.            *)
(***************************************************************************)
EXTENDS Naturals, Sequences, FiniteSets

CONSTANTS
  ClaimId, Evidence, Value,
  NoValue,   \* a claim without numeric_value
  NoText,    \* None or the empty string, for an optional text
  NoReport,  \* a card no gate has seen
  Claims,    \* the claims an engine may make
  Drafts,    \* the cards an engine may construct
  Packets,   \* the packets it may be asked about
  MaxClaims  \* bound: claims on one card

\* What the patterns find: an assertion the platform is not authorised to make,
\* and an imperative at equipment without framing for a human reader.
Fault == {"forbidden", "control"}
Text  == SUBSET Fault

ClaimKind == {"NUMERIC", "CATEGORICAL", "CAUSAL", "RECOMMENDATION", "CONTEXTUAL"}

ClaimType ==
  [id : ClaimId, text : Text, kind : ClaimKind, cites : SUBSET Evidence,
   value : Value \cup {NoValue}]

ValidationState ==
  {"PENDING", "PROVISIONAL", "PRELIMINARY", "VALIDATED", "REJECTED",
   "INSUFFICIENT_DATA", "CALIBRATED"}

HealthBand ==
  {"HEALTHY", "DEGRADED", "AT_RISK", "CRITICAL", "UNKNOWN", "INSUFFICIENT_DATA"}

ClaimCode == {"EVIDENCE_RESOLUTION", "UNCITED_CLAIM", "NUMERIC_PROVENANCE"}

CardCode ==
  {"ALTERNATIVES_REQUIRED", "FORBIDDEN_ASSERTION", "CONTROL_LANGUAGE",
   "SUFFICIENCY_FLOOR", "SYNTHETIC_LABEL"}

\* `claim` is the set of ids a violation is attributed to: one, or none.
Violation ==
  [code : ClaimCode, claim : {{i} : i \in ClaimId}] \cup [code : CardCode, claim : {{}}]

Report ==
  [passed : BOOLEAN, violations : SUBSET Violation, stripped : SUBSET ClaimId]

\* A ranked cause is whether it lists refuting evidence.  A card with no health
\* band has band NoText.
CardType ==
  [title : Text, rationale : Text,
   action : {NoText} \cup Text, inspection : {NoText} \cup Text,
   causes : Seq(BOOLEAN), claims : SUBSET ClaimType,
   vstate : ValidationState, band : HealthBand \cup {NoText},
   demo : BOOLEAN, exposure : BOOLEAN, report : {NoReport} \cup Report]

\* The evidence pool's ids and numbers; whether the sufficiency composite
\* reaches the floor; whether the provenance is entirely synthetic.
PacketType ==
  [pool : SUBSET Evidence, values : SUBSET Value,
   sufficient : BOOLEAN, synthetic : BOOLEAN]

Checkable == {"NUMERIC", "CATEGORICAL", "CAUSAL"}

Cited(c) == c.kind \in Checkable => c.cites # {}

\* The model validator: a card cannot be constructed with an uncited claim.
Constructible(c) == \A claim \in c.claims : Cited(claim)

ASSUME GateAssumption ==
  /\ Claims \subseteq ClaimType
  /\ \A d \in Drafts : d \in CardType /\ Constructible(d) /\ d.report = NoReport
  /\ Packets \subseteq PacketType
  /\ NoText \notin HealthBand \cup ClaimId /\ \A t \in Text : t # NoText
  /\ NoValue \notin Value
  /\ MaxClaims \in Nat

VARIABLES
  card,    \* the card as it stands
  packet,  \* the packet it is about
  gated    \* card is what enforce last returned, untouched since

vars == <<card, packet, gated>>

-----------------------------------------------------------------------------
(* verify_grounding.                                                        *)

ClaimFaults(c, p) ==
  {code \in ClaimCode :
     \/ code = "EVIDENCE_RESOLUTION" /\ ~(c.cites \subseteq p.pool)
     \/ code = "UNCITED_CLAIM" /\ ~Cited(c)
     \/ /\ code = "NUMERIC_PROVENANCE"
        /\ c.kind = "NUMERIC" /\ c.value # NoValue /\ c.value \notin p.values}

\* Optional texts that are absent are not looked at.
Present(texts) == texts \ {NoText}

ClaimTexts(c) == {claim.text : claim \in c.claims}

CardTexts(c) ==
  {c.title, c.rationale} \cup Present({c.inspection, c.action}) \cup ClaimTexts(c)

ImperativeFragments(c) == Present({c.action, c.inspection}) \cup ClaimTexts(c)

Substantive(c) ==
  \/ c.action # NoText \/ c.inspection # NoText
  \/ c.causes # <<>>
  \/ \E claim \in c.claims : claim.kind \in Checkable

InsufficientData(c) ==
  c.band = "INSUFFICIENT_DATA" \/ c.vstate = "INSUFFICIENT_DATA"

HasCausal(c) == \E claim \in c.claims : claim.kind = "CAUSAL"

Challenged(c) == Len(c.causes) >= 2 /\ \E k \in DOMAIN c.causes : c.causes[k]

Labelled(c) == c.demo /\ c.vstate \in {"PRELIMINARY", "INSUFFICIENT_DATA"}

CardFaults(c, p) ==
  {code \in CardCode :
     \/ code = "ALTERNATIVES_REQUIRED" /\ HasCausal(c) /\ ~Challenged(c)
     \/ code = "FORBIDDEN_ASSERTION" /\ \E t \in CardTexts(c) : "forbidden" \in t
     \/ code = "CONTROL_LANGUAGE" /\ \E t \in ImperativeFragments(c) : "control" \in t
     \/ /\ code = "SUFFICIENCY_FLOOR"
        /\ ~p.sufficient /\ Substantive(c) /\ ~InsufficientData(c)
     \/ code = "SYNTHETIC_LABEL" /\ p.synthetic /\ ~Labelled(c)}

Violations(c, p) ==
  (UNION {{[code |-> f, claim |-> {claim.id}] : f \in ClaimFaults(claim, p)}
            : claim \in c.claims})
    \cup {[code |-> f, claim |-> {}] : f \in CardFaults(c, p)}

-----------------------------------------------------------------------------
(* enforce.                                                                 *)

StrippedIdsByTheFirstViolation(c, p) ==
  LET faulty == {claim \in c.claims : ClaimFaults(claim, p) # {}}
  IN  IF faulty = {} THEN {} ELSE {(CHOOSE claim \in faulty : TRUE).id}

StrippedIds(c, p) ==
  UNION {v.claim : v \in {w \in Violations(c, p) : w.code \in ClaimCode}}

HasStructural(c, p) ==
  \E v \in Violations(c, p) : v.claim = {} \/ v.code \notin ClaimCode

SurvivingDanglingOnly(c, p) ==
  {claim \in c.claims : claim.cites \subseteq p.pool}

\* Every claim bearing a stripped id goes, grounded or not.
Surviving(c, p) == {claim \in c.claims : claim.id \notin StrippedIds(c, p)}

DowngradedKeepingInspection(c, p) ==
  [c EXCEPT !.vstate = "INSUFFICIENT_DATA", !.band = "INSUFFICIENT_DATA",
            !.action = NoText, !.causes = <<>>,
            !.exposure = FALSE, !.demo = @ \/ p.synthetic]

DowngradedKeepingLabel(c, p) ==
  [c EXCEPT !.vstate = "INSUFFICIENT_DATA", !.band = "INSUFFICIENT_DATA",
            !.action = NoText, !.inspection = NoText, !.causes = <<>>,
            !.exposure = FALSE]

\* model_copy: the update is not validated.
Downgraded(c, p) ==
  [c EXCEPT !.vstate = "INSUFFICIENT_DATA", !.band = "INSUFFICIENT_DATA",
            !.action = NoText, !.inspection = NoText, !.causes = <<>>,
            !.exposure = FALSE, !.demo = @ \/ p.synthetic]

Stripped(c, p) == [c EXCEPT !.claims = Surviving(c, p)]

Enforced(c, p) ==
  IF HasStructural(c, p) THEN Downgraded(Stripped(c, p), p) ELSE Stripped(c, p)

FinalReportWithoutIds(c, p) ==
  LET left == Violations(Enforced(c, p), p)
  IN  [passed |-> left = {}, violations |-> left, stripped |-> {}]

FinalReport(c, p) ==
  LET left == Violations(Enforced(c, p), p)
  IN  [passed |-> left = {}, violations |-> left, stripped |-> StrippedIds(c, p)]

RefusalCardUnlabelled ==
  [title |-> {}, rationale |-> {}, action |-> NoText, inspection |-> NoText,
   causes |-> <<>>, claims |-> {}, vstate |-> "INSUFFICIENT_DATA",
   band |-> "INSUFFICIENT_DATA", demo |-> FALSE, exposure |-> FALSE,
   report |-> NoReport]

\* insufficient_data_card.
RefusalCard ==
  [title |-> {}, rationale |-> {}, action |-> NoText, inspection |-> NoText,
   causes |-> <<>>, claims |-> {}, vstate |-> "INSUFFICIENT_DATA",
   band |-> "INSUFFICIENT_DATA", demo |-> TRUE, exposure |-> FALSE,
   report |-> NoReport]

-----------------------------------------------------------------------------

Init == card \in Drafts /\ packet \in Packets /\ gated = FALSE

\* `card.claims.append` changes the list in place, past the validator, and the
\* report the card may carry stays on it.
AppendClaim ==
  /\ Cardinality(card.claims) < MaxClaims
  /\ \E claim \in Claims \ card.claims :
       card' = [card EXCEPT !.claims = @ \cup {claim}]
  /\ gated' = FALSE
  /\ UNCHANGED packet

\* The engine gives up on the card it has and returns the refusal instead.
Refuse ==
  /\ card' = RefusalCard
  /\ gated' = FALSE
  /\ UNCHANGED packet

Enforce ==
  /\ card' = [Enforced(card, packet) EXCEPT !.report = FinalReport(card, packet)]
  /\ gated' = TRUE
  /\ UNCHANGED packet

Next == AppendClaim \/ Refuse \/ Enforce

Spec == Init /\ [][Next]_vars

-----------------------------------------------------------------------------
(* Properties.                                                              *)

TypeOK ==
  /\ card \in CardType /\ packet \in PacketType /\ gated \in BOOLEAN

Grounded(claim) ==
  /\ Cited(claim)
  /\ claim.cites \subseteq packet.pool
  /\ claim.kind = "NUMERIC" => claim.value \in packet.values \cup {NoValue}

\* "Nothing ungrounded reaches the operator": whatever the engine appended past
\* the card's own validator, and however ids collide, every claim on a card out
\* of enforce is cited, cites the packet, and states the packet's numbers.
NothingUngroundedLeaves == gated => \A claim \in card.claims : Grounded(claim)

IsRefusal(c) ==
  /\ c.vstate = "INSUFFICIENT_DATA" /\ c.band = "INSUFFICIENT_DATA"
  /\ c.action = NoText /\ c.inspection = NoText
  /\ c.causes = <<>> /\ ~c.exposure

\* A card that leaves the gate with a violation still on it recommends nothing:
\* it is a refusal, and what is still wrong is in the wording of its title, its
\* rationale or its claims, or is a causal claim now without alternatives, and
\* the report says so.  The data floor and the synthetic label always hold.
WhatLeavesViolatedIsARefusal ==
  gated /\ ~card.report.passed =>
    /\ IsRefusal(card)
    /\ {v.code : v \in card.report.violations} \subseteq
         {"ALTERNATIVES_REQUIRED", "FORBIDDEN_ASSERTION", "CONTROL_LANGUAGE"}
    /\ \/ HasCausal(card)
       \/ "forbidden" \in card.title \cup card.rationale
       \/ \E claim \in card.claims : claim.text # {}

\* The authority limits that hold of every card out of enforce, passed or not:
\* no command in what it recommends, no substantive advice below the data floor,
\* no synthetic result without its label.
AuthorityLimits ==
  gated =>
    /\ \A t \in Present({card.action, card.inspection}) : t = {}
    /\ ~packet.sufficient => InsufficientData(card) \/ ~Substantive(card)
    /\ packet.synthetic => Labelled(card)

Content(c) == [c EXCEPT !.report = NoReport]

\* The report on a card just gated is about that card as it left, not as it came
\* (grounding.py:452), and a second pass finds the first one's work done.
GatingAgainChangesNothing ==
  [][gated /\ gated' =>
       /\ Content(card') = Content(card)
       /\ card'.report.violations = card.report.violations]_vars

Ids(c) == {claim.id : claim \in c.claims}

\* What the gate takes off a card it records, id by id, and it takes nothing
\* but claims whose id an ungrounded claim bears; it adds no claim and touches
\* no text, and a card without a violation comes out as it went in.
EveryRemovalIsRecorded ==
  [][gated' =>
       /\ card'.claims \subseteq card.claims
       /\ card'.report.stripped = Ids(card) \ Ids(card')
       /\ \A claim \in card.claims :
            claim.id \in card'.report.stripped =>
              \E twin \in card.claims : twin.id = claim.id /\ ~Grounded(twin)
       /\ Violations(card, packet) = {} => Content(card') = Content(card)]_vars

\* A refusal "always passes the deterministic grounding gate"
\* (refusal.py:5-7, 36-40), whatever packet it refuses and whatever claim the
\* engine still appends to it that is grounded, plainly worded and not causal.
RefusalAlwaysPasses ==
  LET harmless(claim) == Grounded(claim) /\ claim.text = {} /\ claim.kind # "CAUSAL"
  IN  /\ Content(card) = [RefusalCard EXCEPT !.claims = card.claims]
      /\ \A claim \in card.claims : harmless(claim)
      => Violations(card, packet) = {}

\* enforce's own promise: "Never passes a violation" (grounding.py:411).
NeverPassesAViolation == gated => card.report.passed

=============================================================================
