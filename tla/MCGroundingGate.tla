-------------------------- MODULE MCGroundingGate ---------------------------
(***************************************************************************)
(* Claims, cards and packets for TLC: every check of the gate has a claim  *)
(* or a card that passes it and one that does not.                         *)
(***************************************************************************)
EXTENDS GroundingGate

CONSTANTS i1, i2, e1, e2, v1, v2

Says(id, kind, cites, value, text) ==
  [id |-> id, kind |-> kind, cites |-> cites, value |-> value, text |-> text]

\* Grounded by some packets and not by others; two share each id.
MCClaims ==
  {Says(i1, "NUMERIC", {e1}, v1, {}),
   Says(i1, "NUMERIC", {e1}, v2, {}),
   Says(i2, "NUMERIC", {}, NoValue, {}),
   Says(i2, "CATEGORICAL", {e1, e2}, NoValue, {}),
   Says(i1, "CAUSAL", {e1}, NoValue, {}),
   Says(i2, "CAUSAL", {}, NoValue, {"control"}),
   Says(i2, "RECOMMENDATION", {}, NoValue, {"control"}),
   Says(i2, "CONTEXTUAL", {e2}, NoValue, {"forbidden"}),
   Says(i1, "CONTEXTUAL", {}, v2, {})}

Draft(rationale, action, inspection, causes, claims, states) ==
  [title : {{}}, rationale : {rationale}, action : {action},
   inspection : {inspection}, causes : {causes}, claims : {claims},
   vstate : states, band : {"AT_RISK", "INSUFFICIENT_DATA"},
   demo : BOOLEAN, exposure : {TRUE}, report : {NoReport}]

MCDrafts ==
  UNION
    {Draft({}, {}, NoText, <<TRUE, FALSE>>, {}, {"PRELIMINARY", "VALIDATED"}),
     Draft({}, NoText, NoText, <<>>, {}, {"PENDING", "PRELIMINARY"}),
     Draft({}, {"control"}, {}, <<FALSE, FALSE>>, {}, {"PRELIMINARY"}),
     Draft({}, NoText, {"forbidden"}, <<TRUE>>, {}, {"PRELIMINARY"}),
     Draft({"forbidden"}, NoText, {"control"}, <<>>, {}, {"PRELIMINARY"}),
     Draft({}, NoText, {}, <<TRUE, TRUE>>,
           {Says(i1, "CAUSAL", {e1}, NoValue, {})}, {"INSUFFICIENT_DATA"})}

MCPackets ==
  [pool : {{e1}, {e1, e2}}, values : {{v1}, {}},
   sufficient : BOOLEAN, synthetic : BOOLEAN]

=============================================================================
